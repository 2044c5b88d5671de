-------------------------- MODULE LlmLedgerProofs ---------------------------
(***************************************************************************)
(* Proofs about LlmLedger for every number of calls and runs and for all   *)
(* limits: IInv and TokenInv are inductive, and what follows from them.    *)
(***************************************************************************)
EXTENDS LlmLedger, FiniteSetTheorems, TLAPS

\* Giving back a reservation never makes the ledger negative.
LEMMA LessIsNat ==
    ASSUME NEW x \in Nat, NEW y
    PROVE  Less(x, y) \in Nat
BY DEF Less

LEMMA ReserveIsNat ==
    ASSUME NEW a \in Attempts
    PROVE  Reserve(a) \in Nat
BY LedgerAssumption DEF Reserve

LEMMA LimitsAreNumbers ==
    ASSUME NEW l \in Limits
    PROVE  l.calls \in Nat /\ l.tokens \in Nat
BY LedgerAssumption DEF Limit

LEMMA AttemptsAreFinite == IsFiniteSet(Attempts)
<1>1. IsFiniteSet(Kinds)
  <2>1. Kinds = {"call"} \cup {"repair"}
      BY DEF Kinds
  <2> QED
      BY <2>1, FS_Singleton, FS_Union
<1> QED
    BY <1>1, LedgerAssumption, FS_Product DEF Attempts

\* A ledger with two of its counters replaced.
LEMMA LedgerCounters ==
    ASSUME ledger \in Ledger, NEW x \in Nat, NEW y \in Nat
    PROVE  /\ [ledger EXCEPT !.used = x, !.reserved = y] \in Ledger
           /\ [ledger EXCEPT !.used = x, !.reserved = y].calls = ledger.calls
           /\ [ledger EXCEPT !.calls = x, !.reserved = y] \in Ledger
BY DEF Ledger

LEMMA LedgerNumbers ==
    ASSUME TypeOK
    PROVE  ledger.calls \in Nat /\ ledger.used \in Nat /\ ledger.reserved \in Nat
BY DEF TypeOK, Ledger

\* Finalizing touches one started attempt and leaves the count of calls.
LEMMA FinalizeEffect ==
    ASSUME TypeOK, NEW a \in Attempts, NEW total \in Nat,
           NEW status \in {"succeeded", "failed"}, Finalize(a, status, total)
    PROVE  /\ attempts' \in [Attempts -> Row]
           /\ ledger' \in Ledger
           /\ ledger'.calls = ledger.calls
           /\ \A b \in Attempts : b # a => attempts'[b] = attempts[b]
           /\ attempts'[a].status \in Settled
           /\ attempts[a].status = "absent" <=> attempts'[a].status = "absent"
           /\ attempts[a].status # "started" => attempts'[a] = attempts[a]
<1>1. CASE attempts[a].status = "started"
  <2>1. /\ attempts' = [attempts EXCEPT ![a].status = status, ![a].total = total]
        /\ ledger' = [ledger EXCEPT !.used = @ + total,
                                    !.reserved = Less(@, attempts[a].reserved)]
      BY <1>1 DEF Finalize
  <2>2. Less(ledger.reserved, attempts[a].reserved) \in Nat
      BY LessIsNat DEF TypeOK, Ledger
  <2>3. ledger' \in Ledger /\ ledger'.calls = ledger.calls
    <3>1. ledger.used + total \in Nat
        BY LedgerNumbers
    <3> QED
        BY <2>1, <2>2, <3>1, LedgerCounters DEF TypeOK
  <2>4. attempts' \in [Attempts -> Row]
      BY <2>1 DEF TypeOK, Row
  <2>5. /\ \A b \in Attempts : b # a => attempts'[b] = attempts[b]
        /\ attempts'[a].status = status
      BY <2>1 DEF TypeOK, Row
  <2> QED
      BY <1>1, <2>3, <2>4, <2>5 DEF Settled
<1>2. CASE attempts[a].status # "started"
    BY <1>2 DEF Finalize, TypeOK, Row, Settled
<1> QED
    BY <1>1, <1>2

\* The steps that finalize an attempt, and how they do it.
LEMMA Finalizers ==
    ASSUME TypeOK, NEW c \in Calls,
           Succeed(c) \/ Raise(c) \/ InvalidRepair(c) \/ InvalidGiveUp(c) \/ PostFinalize(c)
    PROVE  /\ Attempt(c) \in Attempts
           /\ \E status \in {"succeeded", "failed"}, total \in Nat :
                  Finalize(Attempt(c), status, total)
<1>1. Attempt(c) \in Attempts
    BY DEF TypeOK, Attempt, Attempts
<1>2. CASE Succeed(c)
    BY <1>1, <1>2, LedgerAssumption DEF Succeed
<1>3. CASE Raise(c)
    BY <1>1, <1>3, LedgerAssumption DEF Raise
<1>4. CASE InvalidRepair(c)
    BY <1>1, <1>4, LedgerAssumption DEF InvalidRepair
<1>5. CASE InvalidGiveUp(c)
    BY <1>1, <1>5, LedgerAssumption DEF InvalidGiveUp
<1>6. CASE PostFinalize(c)
    BY <1>1, <1>6, LedgerAssumption DEF PostFinalize
<1> QED
    BY <1>1, <1>2, <1>3, <1>4, <1>5, <1>6

\* A run's exit settles started attempts and nothing else.
LEMMA ExitEffect ==
    ASSUME TypeOK, NEW run \in Runs, RunExit(run)
    PROVE  /\ attempts' \in [Attempts -> Row]
           /\ ledger' \in Ledger
           /\ ledger'.calls = ledger.calls
           /\ \A a \in Attempts :
                  \/ attempts'[a] = attempts[a]
                  \/ attempts[a].status = "started" /\ attempts'[a].status = "crashed"
<1> DEFINE lost == {a \in Attempts : RunOf[a[1]] = run /\ attempts[a].status = "started"}
<1>1. /\ attempts' = [a \in Attempts |->
                         IF a \in lost THEN [attempts[a] EXCEPT !.status = "crashed"]
                         ELSE attempts[a]]
      /\ ledger' = [ledger EXCEPT !.reserved = Less(@, ReservedBy(lost))]
    BY DEF RunExit
<1>2. \A a \in lost : a \in Attempts /\ attempts[a].status = "started"
    OBVIOUS
<1> HIDE DEF lost
<1>3. Less(ledger.reserved, ReservedBy(lost)) \in Nat
    BY LessIsNat DEF TypeOK, Ledger
<1>4. ledger' \in Ledger /\ ledger'.calls = ledger.calls
    BY <1>1, <1>3 DEF TypeOK, Ledger
<1>5. \A a \in Attempts : attempts[a] \in Row
    BY DEF TypeOK
<1>6. \A a \in Attempts : [attempts[a] EXCEPT !.status = "crashed"] \in Row
    BY <1>5 DEF Row
<1>7. attempts' \in [Attempts -> Row]
    BY <1>1, <1>5, <1>6
<1>8. ASSUME NEW a \in Attempts
      PROVE  \/ attempts'[a] = attempts[a]
             \/ attempts[a].status = "started" /\ attempts'[a].status = "crashed"
    BY <1>1, <1>2, <1>5 DEF Row
<1> QED
    BY <1>4, <1>7, <1>8
-----------------------------------------------------------------------------
(* The types *)

LEMMA InitTypes ==
    Init => TypeOK
BY LedgerAssumption DEF Init, TypeOK, Row, Ledger, InFlight, Kinds

LEMMA StepTypes ==
    TypeOK /\ [Next]_vars => TypeOK'
<1> SUFFICES ASSUME TypeOK, [Next]_vars PROVE TypeOK'
    OBVIOUS
<1>1. ASSUME NEW c \in Calls, Begin(c) PROVE TypeOK'
    BY <1>1 DEF Begin, TypeOK, InFlight
<1>2. ASSUME NEW c \in Calls, Admit(c) PROVE TypeOK'
  <2>1. Attempt(c) \in Attempts /\ Reserve(Attempt(c)) \in Nat
      BY ReserveIsNat DEF TypeOK, Attempt, Attempts
  <2>2. ledger' \in Ledger
    <3>1. ledger.calls + 1 \in Nat /\ ledger.reserved + Reserve(Attempt(c)) \in Nat
        BY <2>1, LedgerNumbers
    <3> QED
        BY <1>2, <3>1, LedgerCounters DEF Admit, TypeOK
  <2>3. attempts' \in [Attempts -> Row]
      BY <1>2, <2>1 DEF Admit, TypeOK, Row
  <2> QED
      BY <1>2, <2>2, <2>3 DEF Admit, TypeOK, InFlight
<1>3. ASSUME NEW c \in Calls, Reject(c) PROVE TypeOK'
    BY <1>3 DEF Reject, Goto, TypeOK
<1>4. ASSUME NEW c \in Calls,
             Succeed(c) \/ Raise(c) \/ InvalidRepair(c) \/ InvalidGiveUp(c) \/ PostFinalize(c)
      PROVE  TypeOK'
  <2>1. attempts' \in [Attempts -> Row] /\ ledger' \in Ledger
      BY <1>4, Finalizers, FinalizeEffect
  <2>2. /\ pc' \in [Calls -> InFlight \cup {"idle", "done", "lost"}]
        /\ answer' \in [Calls -> {"none", "ok", "rejected", "error"}]
        /\ kind' \in [Calls -> Kinds]
      BY <1>4 DEF Succeed, Raise, InvalidRepair, InvalidGiveUp, PostFinalize, Goto,
                  TypeOK, InFlight, Kinds
  <2>3. UNCHANGED <<limits, dead, seen>>
      BY <1>4 DEF Succeed, Raise, InvalidRepair, InvalidGiveUp, PostFinalize
  <2> QED
      BY <2>1, <2>2, <2>3 DEF TypeOK
<1>5. ASSUME NEW run \in Runs, RunExit(run) PROVE TypeOK'
  <2>1. attempts' \in [Attempts -> Row] /\ ledger' \in Ledger
      BY <1>5, ExitEffect
  <2> QED
      BY <1>5, <2>1 DEF RunExit, TypeOK
<1>6. CASE PatchGuardrails
    BY <1>6 DEF PatchGuardrails, TypeOK
<1>7. CASE ServerCrash
  <2>1. dead' \subseteq Runs
      BY <1>7, LedgerAssumption DEF ServerCrash, TypeOK
  <2> QED
      BY <1>7, <2>1 DEF ServerCrash, TypeOK
<1>8. CASE UNCHANGED vars
    BY <1>8 DEF vars, TypeOK
<1> QED
    BY <1>1, <1>2, <1>3, <1>4, <1>5, <1>6, <1>7, <1>8 DEF Next, Handle
-----------------------------------------------------------------------------
(* What the handlers know *)

LEMMA InitHandlers ==
    Init => HandlersKnowTheirAttempts
BY DEF Init, HandlersKnowTheirAttempts, Attempt, Attempts, Kinds, Settled

\* A step of another call leaves what a call knows.
LEMMA StepHandlers ==
    TypeOK /\ HandlersKnowTheirAttempts /\ [Next]_vars => HandlersKnowTheirAttempts'
<1> SUFFICES ASSUME TypeOK, HandlersKnowTheirAttempts, [Next]_vars
             PROVE  HandlersKnowTheirAttempts'
    OBVIOUS
<1> DEFINE Knows(c) ==
        /\ kind[c] = "call" => attempts[<<c, "repair">>].status = "absent"
        /\ kind[c] = "repair" => attempts[<<c, "call">>].status \in Settled
        /\ pc[c] = "idle" => kind[c] = "call"
        /\ pc[c] \in {"idle", "admit"} => attempts[Attempt(c)].status = "absent"
        /\ pc[c] = "done" => attempts[Attempt(c)].status \in Settled
        /\ answer[c] = "rejected" => pc[c] = "done" /\ attempts[Attempt(c)].status = "absent"
<1>0. \A c \in Calls : kind[c] \in Kinds
    BY DEF TypeOK
<1>a. \A c \in Calls, k \in Kinds : <<c, k>> \in Attempts
    BY DEF Attempts
<1>b. \A c \in Calls : Knows(c)
    BY DEF HandlersKnowTheirAttempts
<1> SUFFICES ASSUME NEW c \in Calls PROVE Knows(c)'
    BY DEF HandlersKnowTheirAttempts
<1>1. ASSUME NEW d \in Calls, Begin(d) PROVE Knows(c)'
    BY <1>1, <1>b DEF Begin, TypeOK, Attempt
<1>2. ASSUME NEW d \in Calls, Admit(d) PROVE Knows(c)'
  <2>1. \A a \in Attempts : a # Attempt(d) => attempts'[a] = attempts[a]
      BY <1>2 DEF Admit, TypeOK
  <2>2. kind' = kind /\ answer' = answer
      BY <1>2 DEF Admit
  <2>3. CASE c = d
    <3>1. pc'[c] \in {"open", "invoke"} /\ pc[c] = "admit"
        BY <1>2, <2>3 DEF Admit, TypeOK
    <3>2. \A k \in Kinds : k # kind[c] => attempts'[<<c, k>>] = attempts[<<c, k>>]
        BY <2>1, <2>3, <1>a DEF Attempt
    <3> QED
        BY <3>1, <3>2, <2>2, <1>b DEF Kinds
  <2>4. CASE c # d
    <3>1. pc'[c] = pc[c]
        BY <1>2, <2>4 DEF Admit, TypeOK
    <3>2. \A k \in Kinds : attempts'[<<c, k>>] = attempts[<<c, k>>]
        BY <2>1, <2>4, <1>a DEF Attempt
    <3> QED
        BY <3>1, <3>2, <2>2, <1>b, <1>0 DEF Attempt, Kinds
  <2> QED
      BY <2>3, <2>4
<1>3. ASSUME NEW d \in Calls, Reject(d) PROVE Knows(c)'
    BY <1>3, <1>b DEF Reject, Goto, TypeOK, Attempt, Settled
<1>4. ASSUME NEW d \in Calls,
             Succeed(d) \/ Raise(d) \/ InvalidRepair(d) \/ InvalidGiveUp(d) \/ PostFinalize(d)
      PROVE  Knows(c)'
  <2>1. /\ \A b \in Attempts : b # Attempt(d) => attempts'[b] = attempts[b]
        /\ attempts'[Attempt(d)].status \in Settled
        /\ attempts[Attempt(d)].status = "absent" <=> attempts'[Attempt(d)].status = "absent"
      BY <1>4, Finalizers, FinalizeEffect
  <2>2. CASE c = d
    <3>1. pc[c] \in {"invoke", "open"} /\ answer[c] # "rejected"
        BY <1>4, <2>2, <1>b DEF Succeed, Raise, InvalidRepair, InvalidGiveUp, PostFinalize
    <3>2. \A k \in Kinds : k # kind[c] => attempts'[<<c, k>>] = attempts[<<c, k>>]
        BY <2>1, <2>2, <1>a DEF Attempt
    <3>3. CASE InvalidRepair(d)
      <4>1. kind[c] = "call" /\ kind'[c] = "repair" /\ pc'[c] = "admit" /\ answer' = answer
          BY <3>3, <2>2 DEF InvalidRepair, Repairable, TypeOK, Kinds
      <4>2. attempts'[<<c, "repair">>].status = "absent"
          BY <4>1, <3>2, <1>b DEF Kinds
      <4>3. attempts'[<<c, "call">>].status \in Settled
          BY <4>1, <2>1, <2>2 DEF Attempt
      <4> QED
          BY <4>1, <4>2, <4>3, <3>1 DEF Attempt
    <3>4. CASE ~InvalidRepair(d)
      <4>1. kind' = kind
          BY <3>4, <1>4 DEF Succeed, Raise, InvalidGiveUp, PostFinalize
      <4>2. pc'[c] \in {"done", "open"} /\ answer'[c] # "rejected"
          BY <3>4, <3>1, <1>4, <2>2
             DEF Succeed, Raise, InvalidGiveUp, PostFinalize, Goto, TypeOK
      <4>3. attempts'[Attempt(c)'].status \in Settled
          BY <4>1, <2>1, <2>2 DEF Attempt
      <4> QED
          BY <4>1, <4>2, <4>3, <3>2, <1>b DEF Kinds
    <3> QED
        BY <3>3, <3>4
  <2>3. CASE c # d
    <3>1. pc'[c] = pc[c] /\ kind'[c] = kind[c] /\ answer'[c] = answer[c]
        BY <1>4, <2>3 DEF Succeed, Raise, InvalidRepair, InvalidGiveUp, PostFinalize,
                          Goto, TypeOK
    <3>2. \A k \in Kinds : attempts'[<<c, k>>] = attempts[<<c, k>>]
        BY <2>1, <2>3, <1>a DEF Attempt
    <3> QED
        BY <3>1, <3>2, <1>b, <1>0 DEF Attempt, Kinds
  <2> QED
      BY <2>2, <2>3
<1>5. ASSUME NEW run \in Runs, RunExit(run) PROVE Knows(c)'
  <2>1. \A k \in Kinds :
            \/ attempts'[<<c, k>>] = attempts[<<c, k>>]
            \/ /\ attempts[<<c, k>>].status = "started"
               /\ attempts'[<<c, k>>].status = "crashed"
      BY <1>5, <1>a, ExitEffect
  <2>2. UNCHANGED <<pc, kind, answer>>
      BY <1>5 DEF RunExit
  <2> QED
      BY <2>1, <2>2, <1>0, <1>b DEF Attempt, Kinds, Settled
<1>6. CASE PatchGuardrails
    BY <1>6, <1>b DEF PatchGuardrails, Attempt
<1>7. CASE ServerCrash
    BY <1>7, <1>b DEF ServerCrash, TypeOK, Attempt, InFlight
<1>8. CASE UNCHANGED vars
    BY <1>8, <1>b DEF vars, Attempt
<1> QED
    BY <1>1, <1>2, <1>3, <1>4, <1>5, <1>6, <1>7, <1>8 DEF Next, Handle
-----------------------------------------------------------------------------
(* Counting calls *)

LEMMA InitCounted ==
    Init => CallsCounted /\ CallsWithinSeen
<1> SUFFICES ASSUME Init PROVE CallsCounted /\ CallsWithinSeen
    OBVIOUS
<1>1. Made = {}
    BY DEF Init, Made
<1>2. PICK l \in Limits : TRUE
    BY LedgerAssumption
<1>3. ledger.calls = 0 /\ l.calls >= 0
    BY LimitsAreNumbers DEF Init
<1> QED
    BY <1>1, <1>3, FS_EmptySet DEF CallsCounted, CallsWithinSeen

LEMMA StepCounted ==
    ASSUME IInv, [Next]_vars
    PROVE  CallsCounted' /\ CallsWithinSeen'
<1> USE DEF IInv
<1>1. ASSUME NEW c \in Calls, Admit(c) PROVE CallsCounted' /\ CallsWithinSeen'
  <2> DEFINE a == Attempt(c)
  <2>1. a \in Attempts
      BY DEF TypeOK, Attempt, Attempts
  <2>2. a \notin Made
      BY <1>1 DEF Admit, HandlersKnowTheirAttempts, Made
  <2>3. Made' = Made \cup {a}
      BY <1>1, <2>1 DEF Admit, TypeOK, Made
  <2>4. IsFiniteSet(Made)
      BY AttemptsAreFinite, FS_Subset DEF Made
  <2>5. Cardinality(Made') = Cardinality(Made) + 1
      BY <2>2, <2>3, <2>4, FS_AddElement
  <2>6. ledger'.calls = ledger.calls + 1
      BY <1>1 DEF Admit, TypeOK, Ledger
  <2>7. seen[c] \in Limits /\ ledger.calls < seen[c].calls
      BY <1>1 DEF Admit, Admissible, TypeOK
  <2>8. ledger'.calls <= seen[c].calls
      BY <2>6, <2>7, LimitsAreNumbers DEF TypeOK, Ledger
  <2> QED
      BY <2>5, <2>6, <2>7, <2>8 DEF CallsCounted, CallsWithinSeen
<1>2. ASSUME Made' = Made, ledger'.calls = ledger.calls
      PROVE  CallsCounted' /\ CallsWithinSeen'
    BY <1>2 DEF CallsCounted, CallsWithinSeen
<1>3. ASSUME NEW c \in Calls,
             Succeed(c) \/ Raise(c) \/ InvalidRepair(c) \/ InvalidGiveUp(c) \/ PostFinalize(c)
      PROVE  Made' = Made /\ ledger'.calls = ledger.calls
  <2>1. PICK status \in {"succeeded", "failed"}, total \in Nat :
            Finalize(Attempt(c), status, total)
      BY <1>3, Finalizers
  <2>2. Attempt(c) \in Attempts
      BY <1>3, Finalizers
  <2>3. /\ ledger'.calls = ledger.calls
        /\ \A b \in Attempts : b # Attempt(c) => attempts'[b] = attempts[b]
        /\ attempts[Attempt(c)].status = "absent" <=> attempts'[Attempt(c)].status = "absent"
      BY <2>1, <2>2, FinalizeEffect
  <2> QED
      BY <2>3 DEF Made
<1>4. ASSUME NEW run \in Runs, RunExit(run)
      PROVE  Made' = Made /\ ledger'.calls = ledger.calls
  <2>1. /\ ledger'.calls = ledger.calls
        /\ \A a \in Attempts :
               \/ attempts'[a] = attempts[a]
               \/ attempts[a].status = "started" /\ attempts'[a].status = "crashed"
      BY <1>4, ExitEffect
  <2> QED
      BY <2>1 DEF Made
<1>5. CASE UNCHANGED <<attempts, ledger>>
    BY <1>2, <1>5 DEF Made
<1> QED
    BY <1>1, <1>2, <1>3, <1>4, <1>5
       DEF Next, Handle, Begin, Reject, PatchGuardrails, ServerCrash, vars
-----------------------------------------------------------------------------
\* IInv is inductive: the types, what each handler knows about its attempts,
\* and the count of admitted calls hold in every state.
THEOREM Invariance == Spec => []IInv
<1>1. Init => IInv
    BY InitTypes, InitHandlers, InitCounted DEF IInv
<1>2. IInv /\ [Next]_vars => IInv'
    BY StepTypes, StepHandlers, StepCounted DEF IInv
<1> QED
    BY <1>1, <1>2, PTL DEF Spec

\* The rows, the ledger and the handlers have their types; in particular no
\* release makes a counter of the ledger negative.
THEOREM TypeCorrect == Spec => []TypeOK
<1>1. IInv => TypeOK
    BY DEF IInv
<1> QED
    BY <1>1, Invariance, PTL

\* Whoever has its answer, whatever crashed or was posted twice before, left no
\* attempt open, and a refused attempt was never made.
THEOREM AnswersSettle == Spec => []AnsweredCallsAreSettled
<1>1. IInv => AnsweredCallsAreSettled
  <2> SUFFICES ASSUME IInv, NEW c \in Calls, pc[c] = "done"
               PROVE  /\ \A k \in Kinds : attempts[<<c, k>>].status \in Settled
                      /\ answer[c] = "rejected" => attempts[Attempt(c)].status = "absent"
      BY DEF AnsweredCallsAreSettled
  <2>1. kind[c] \in {"call", "repair"}
      BY DEF IInv, TypeOK, Kinds
  <2>2. attempts[<<c, kind[c]>>].status \in Settled
      BY DEF IInv, HandlersKnowTheirAttempts, Attempt
  <2>3. \A k \in Kinds : k # kind[c] => attempts[<<c, k>>].status \in Settled
      BY <2>1 DEF IInv, HandlersKnowTheirAttempts, Kinds, Settled
  <2> QED
      BY <2>2, <2>3 DEF IInv, HandlersKnowTheirAttempts
<1> QED
    BY <1>1, Invariance, PTL

\* However many handlers admit calls, repairs included, and however often the
\* guardrails are changed, the attempts never outnumber the largest limit.
THEOREM CallsLimited == Spec => []CallLimitHolds
<1>1. IInv => CallLimitHolds
    BY DEF IInv, CallsCounted, CallsWithinSeen, CallLimitHolds
<1> QED
    BY <1>1, Invariance, PTL

\* A settled attempt keeps its status, charge and reservation: a crash of its
\* run and a late or repeated finalization settle it once.
THEOREM SettledOnce == Spec => SettledAttemptsAreFinal
<1>1. ASSUME IInv, [Next]_vars, NEW a \in Attempts,
             attempts[a].status \in Settled \ {"absent"}
      PROVE  attempts'[a] = attempts[a]
  <2>1. attempts[a].status # "started" /\ attempts[a].status # "absent"
      BY <1>1 DEF Settled
  <2>2. ASSUME NEW c \in Calls, Admit(c) PROVE attempts'[a] = attempts[a]
    <3>1. a # Attempt(c)
        BY <2>1, <2>2, <1>1 DEF Admit, IInv, HandlersKnowTheirAttempts
    <3> QED
        BY <2>2, <3>1, <1>1 DEF Admit, IInv, TypeOK
  <2>3. ASSUME NEW c \in Calls,
               Succeed(c) \/ Raise(c) \/ InvalidRepair(c) \/ InvalidGiveUp(c) \/ PostFinalize(c)
        PROVE  attempts'[a] = attempts[a]
    <3>1. PICK status \in {"succeeded", "failed"}, total \in Nat :
              Finalize(Attempt(c), status, total)
        BY <2>3, <1>1, Finalizers DEF IInv
    <3>2. Attempt(c) \in Attempts
        BY <2>3, <1>1, Finalizers DEF IInv
    <3> QED
        BY <3>1, <3>2, <2>1, <1>1, FinalizeEffect DEF IInv
  <2>4. ASSUME NEW run \in Runs, RunExit(run) PROVE attempts'[a] = attempts[a]
      BY <2>1, <2>4, <1>1, ExitEffect DEF IInv
  <2>5. CASE UNCHANGED attempts
      BY <2>5
  <2> QED
      BY <1>1, <2>2, <2>3, <2>4, <2>5
         DEF Next, Handle, Begin, Reject, PatchGuardrails, ServerCrash, vars
<1>2. IInv /\ [Next]_vars
          => [\A a \in Attempts : attempts[a].status \in Settled \ {"absent"} =>
                  attempts'[a] = attempts[a]]_vars
    BY <1>1
<1> QED
    BY <1>2, Invariance, PTL DEF Spec, SettledAttemptsAreFinal
-----------------------------------------------------------------------------
(* Sums over finite sets.  A claim about every subset of a finite set is   *)
(* proved of a minimal counterexample, which then has none.                *)

\* A set of subsets of a finite set has a minimal element.
LEMMA MinimalSubset ==
    ASSUME NEW S, IsFiniteSet(S), NEW T \in SUBSET SUBSET S, T # {}
    PROVE  \E x \in T : \A y \in T : ~(y \subseteq x /\ y # x)
<1>1. IsWellFoundedOn(StrictSubsetOrdering(S), FiniteSubsetsOf(S))
    BY FS_StrictSubsetOrderingWellFounded
<1>2. T \subseteq FiniteSubsetsOf(S)
    BY FS_Subset DEF FiniteSubsetsOf
<1>3. \E x \in T : \A y \in T : ~(<<y, x>> \in StrictSubsetOrdering(S))
    BY <1>1, <1>2, WFMin
<1> QED
    BY <1>2, <1>3 DEF StrictSubsetOrdering, FiniteSubsetsOf

\* The element that the sum of a set takes first, and the others.
Pick(s) == CHOOSE x \in s : TRUE
Others(s) == s \ {Pick(s)}

\* The others are fewer.
LEMMA PickIsElement ==
    ASSUME NEW s, s # {}
    PROVE  Pick(s) \in s /\ Others(s) \subseteq s /\ Others(s) # s
BY DEF Pick, Others

\* The partial sums that the definition of SumFunctionOnSet asks for.
PartialSums(f, S, sum) ==
    sum = [s \in SUBSET S |-> IF s = {} THEN 0 ELSE f[Pick(s)] + sum[Others(s)]]

\* SumFunctionOnSet is the last of them.
LEMMA SumIsPartialSum ==
    ASSUME NEW f, NEW S
    PROVE  SumFunctionOnSet(f, S) = (CHOOSE sum : PartialSums(f, S, sum))[S]
BY DEF SumFunctionOnSet, FoldFunctionOnSet, MapThenFoldSet, PartialSums, Pick, Others

\* Each takes one element more than another.
LEMMA PartialSumOf ==
    ASSUME NEW f, NEW S, NEW sum, PartialSums(f, S, sum), NEW s \in SUBSET S
    PROVE  sum[s] = IF s = {} THEN 0 ELSE f[Pick(s)] + sum[Others(s)]
BY DEF PartialSums

\* They agree on the subsets they share.
LEMMA PartialSumsAgree ==
    ASSUME NEW f, NEW A, NEW B, IsFiniteSet(A), NEW g, NEW h,
           PartialSums(f, A, g), PartialSums(f, B, h),
           NEW s, s \subseteq A, s \subseteq B
    PROVE  g[s] = h[s]
<1> DEFINE T == {u \in SUBSET A : u \subseteq B /\ g[u] # h[u]}
<1> SUFFICES ASSUME T # {} PROVE FALSE
    OBVIOUS
<1>1. PICK u \in T : \A v \in T : ~(v \subseteq u /\ v # u)
  <2>1. T \in SUBSET SUBSET A
      OBVIOUS
  <2> HIDE DEF T
  <2> QED
      BY <2>1, MinimalSubset
<1>2. CASE u = {}
    BY <1>1, <1>2, PartialSumOf
<1>3. CASE u # {}
  <2>1. Others(u) \subseteq u /\ Others(u) # u
      BY <1>3, PickIsElement
  <2>2. g[Others(u)] = h[Others(u)]
      BY <1>1, <2>1
  <2>3. g[u] = f[Pick(u)] + g[Others(u)] /\ h[u] = f[Pick(u)] + h[Others(u)]
      BY <1>1, <1>3, PartialSumOf
  <2> QED
      BY <1>1, <2>2, <2>3
<1> QED
    BY <1>2, <1>3

\* They exist.
LEMMA PartialSumsExist ==
    ASSUME NEW f, NEW S, IsFiniteSet(S)
    PROVE  \E sum : PartialSums(f, S, sum)
<1> DEFINE T == {u \in SUBSET S : ~(\E sum : PartialSums(f, u, sum))}
<1> SUFFICES ASSUME T # {} PROVE FALSE
    OBVIOUS
<1>1. PICK u \in T : \A v \in T : ~(v \subseteq u /\ v # u)
  <2>1. T \in SUBSET SUBSET S
      OBVIOUS
  <2> HIDE DEF T
  <2> QED
      BY <2>1, MinimalSubset
<1> DEFINE Sums(v) == CHOOSE sum : PartialSums(f, v, sum)
           all == [s \in SUBSET u |->
                      IF s = {} THEN 0
                      ELSE f[Pick(s)] + Sums(Others(s))[Others(s)]]
<1>2. ASSUME NEW v, v \subseteq u, v # u
      PROVE  PartialSums(f, v, Sums(v))
  <2>1. \E sum : PartialSums(f, v, sum)
      BY <1>1, <1>2
  <2> QED
      BY <2>1
<1> HIDE DEF Sums
<1>3. ASSUME NEW v, v \subseteq u, v # u
      PROVE  all[v] = Sums(v)[v]
  <2>1. CASE v = {}
      BY <1>2, <1>3, <2>1, PartialSumOf
  <2>2. CASE v # {}
    <3> DEFINE w == Others(v)
    <3>1. w \subseteq v /\ w # v
        BY <2>2, PickIsElement
    <3>2. PartialSums(f, v, Sums(v)) /\ PartialSums(f, w, Sums(w))
        BY <1>2, <1>3, <3>1
    <3>3. IsFiniteSet(v)
        BY <1>1, <1>3, FS_Subset
    <3>4. Sums(v)[w] = Sums(w)[w]
        BY <3>1, <3>2, <3>3, PartialSumsAgree
    <3>5. Sums(v)[v] = f[Pick(v)] + Sums(v)[w]
        BY <2>2, <3>2, PartialSumOf
    <3> QED
        BY <1>3, <2>2, <3>4, <3>5
  <2> QED
      BY <2>1, <2>2
<1>4. ASSUME NEW s \in SUBSET u
      PROVE  all[s] = IF s = {} THEN 0 ELSE f[Pick(s)] + all[Others(s)]
  <2>1. CASE s = {}
      BY <2>1
  <2>2. CASE s # {}
    <3>1. Others(s) \subseteq u /\ Others(s) # u
        BY <2>2, PickIsElement
    <3>2. all[Others(s)] = Sums(Others(s))[Others(s)]
        BY <1>3, <3>1
    <3> QED
        BY <2>2, <3>2
  <2> QED
      BY <2>1, <2>2
<1>5. PartialSums(f, u, all)
  <2>1. all = [s \in SUBSET u |-> all[s]]
      OBVIOUS
  <2> HIDE DEF all
  <2> QED
      BY <1>4, <2>1 DEF PartialSums
<1> QED
    BY <1>1, <1>5

\* The empty sum is 0, any other sum adds the element picked to the rest.
LEMMA SumUnfolds ==
    ASSUME NEW f, NEW S, IsFiniteSet(S)
    PROVE  SumFunctionOnSet(f, S) =
               IF S = {} THEN 0 ELSE f[Pick(S)] + SumFunctionOnSet(f, Others(S))
<1> DEFINE Sums(v) == CHOOSE sum : PartialSums(f, v, sum)
<1>1. ASSUME NEW v, v \subseteq S PROVE PartialSums(f, v, Sums(v))
  <2>1. IsFiniteSet(v)
      BY <1>1, FS_Subset
  <2>2. \E sum : PartialSums(f, v, sum)
      BY <2>1, PartialSumsExist
  <2> QED
      BY <2>2
<1>2. \A v : SumFunctionOnSet(f, v) = Sums(v)[v]
    BY SumIsPartialSum
<1> HIDE DEF Sums
<1>3. CASE S = {}
    BY <1>1, <1>2, <1>3, PartialSumOf
<1>4. CASE S # {}
  <2>1. Others(S) \subseteq S
      BY <1>4, PickIsElement
  <2>2. Sums(S)[S] = f[Pick(S)] + Sums(S)[Others(S)]
      BY <1>1, <1>4, PartialSumOf
  <2>3. Sums(S)[Others(S)] = Sums(Others(S))[Others(S)]
      BY <1>1, <2>1, PartialSumsAgree
  <2> QED
      BY <1>2, <1>4, <2>2, <2>3
<1> QED
    BY <1>3, <1>4

\* A sum of numbers is a number.
LEMMA SumIsNat ==
    ASSUME NEW f, NEW S, IsFiniteSet(S), \A x \in S : f[x] \in Nat
    PROVE  SumFunctionOnSet(f, S) \in Nat
<1> DEFINE T == {u \in SUBSET S : SumFunctionOnSet(f, u) \notin Nat}
<1> SUFFICES ASSUME T # {} PROVE FALSE
    OBVIOUS
<1>1. PICK u \in T : \A v \in T : ~(v \subseteq u /\ v # u)
  <2>1. T \in SUBSET SUBSET S
      OBVIOUS
  <2> HIDE DEF T
  <2> QED
      BY <2>1, MinimalSubset
<1>2. IsFiniteSet(u)
    BY <1>1, FS_Subset
<1>3. CASE u = {}
    BY <1>1, <1>2, <1>3, SumUnfolds
<1>4. CASE u # {}
  <2>1. Pick(u) \in u /\ Others(u) \subseteq u /\ Others(u) # u
      BY <1>4, PickIsElement
  <2>2. SumFunctionOnSet(f, Others(u)) \in Nat /\ f[Pick(u)] \in Nat
      BY <1>1, <2>1
  <2>3. SumFunctionOnSet(f, u) = f[Pick(u)] + SumFunctionOnSet(f, Others(u))
      BY <1>2, <1>4, SumUnfolds
  <2> QED
      BY <1>1, <2>2, <2>3
<1> QED
    BY <1>3, <1>4

\* Any element may be taken first.
LEMMA SumTakes ==
    ASSUME NEW f, NEW S, IsFiniteSet(S), \A x \in S : f[x] \in Nat, NEW x \in S
    PROVE  SumFunctionOnSet(f, S) = f[x] + SumFunctionOnSet(f, S \ {x})
<1> DEFINE T == {u \in SUBSET S : \E y \in u :
                    SumFunctionOnSet(f, u) # f[y] + SumFunctionOnSet(f, u \ {y})}
<1> SUFFICES ASSUME T # {} PROVE FALSE
    OBVIOUS
<1>1. PICK u \in T : \A v \in T : ~(v \subseteq u /\ v # u)
  <2>1. T \in SUBSET SUBSET S
      OBVIOUS
  <2> HIDE DEF T
  <2> QED
      BY <2>1, MinimalSubset
<1>2. PICK y \in u : SumFunctionOnSet(f, u) # f[y] + SumFunctionOnSet(f, u \ {y})
    BY <1>1
<1> DEFINE p == Pick(u)
<1>3. p \in u /\ IsFiniteSet(u) /\ u \subseteq S
    BY <1>1, <1>2, PickIsElement, FS_Subset
<1>4. SumFunctionOnSet(f, u) = f[p] + SumFunctionOnSet(f, u \ {p})
    BY <1>2, <1>3, SumUnfolds DEF Others
<1> HIDE DEF p
<1>5. p # y
    BY <1>2, <1>4
<1>6. SumFunctionOnSet(f, u \ {p}) = f[y] + SumFunctionOnSet(f, (u \ {p}) \ {y})
  <2>1. u \ {p} \notin T /\ u \ {p} \in SUBSET S /\ y \in u \ {p}
      BY <1>1, <1>3, <1>5
  <2> QED
      BY <2>1
<1>7. SumFunctionOnSet(f, u \ {y}) = f[p] + SumFunctionOnSet(f, (u \ {y}) \ {p})
  <2>1. u \ {y} \notin T /\ u \ {y} \in SUBSET S /\ p \in u \ {y}
      BY <1>1, <1>3, <1>5
  <2> QED
      BY <2>1
<1>8. (u \ {y}) \ {p} = (u \ {p}) \ {y}
    OBVIOUS
<1>9. f[p] \in Nat /\ f[y] \in Nat /\ SumFunctionOnSet(f, (u \ {p}) \ {y}) \in Nat
  <2>1. IsFiniteSet((u \ {p}) \ {y}) /\ (u \ {p}) \ {y} \subseteq S
      BY <1>3, FS_Subset
  <2> QED
      BY <1>2, <1>3, <2>1, SumIsNat
<1> DEFINE rest == SumFunctionOnSet(f, (u \ {p}) \ {y})
           first == f[p]
           second == f[y]
<1>10. /\ SumFunctionOnSet(f, u) = first + (second + rest)
       /\ second + SumFunctionOnSet(f, u \ {y}) = second + (first + rest)
       /\ first \in Nat /\ second \in Nat /\ rest \in Nat
    BY <1>4, <1>6, <1>7, <1>8, <1>9
<1> HIDE DEF rest, first, second
<1>11. first + (second + rest) = second + (first + rest)
    BY <1>10
<1> QED
    BY <1>2, <1>10, <1>11 DEF second

\* Functions that agree on a set have the same sum.
LEMMA SumOfEquals ==
    ASSUME NEW f, NEW g, NEW S, IsFiniteSet(S), \A x \in S : f[x] = g[x]
    PROVE  SumFunctionOnSet(f, S) = SumFunctionOnSet(g, S)
<1> DEFINE T == {u \in SUBSET S : SumFunctionOnSet(f, u) # SumFunctionOnSet(g, u)}
<1> SUFFICES ASSUME T # {} PROVE FALSE
    OBVIOUS
<1>1. PICK u \in T : \A v \in T : ~(v \subseteq u /\ v # u)
  <2>1. T \in SUBSET SUBSET S
      OBVIOUS
  <2> HIDE DEF T
  <2> QED
      BY <2>1, MinimalSubset
<1>2. IsFiniteSet(u)
    BY <1>1, FS_Subset
<1>3. CASE u = {}
    BY <1>1, <1>2, <1>3, SumUnfolds
<1>4. CASE u # {}
  <2>1. Pick(u) \in u /\ Others(u) \subseteq u /\ Others(u) # u
      BY <1>4, PickIsElement
  <2>2. SumFunctionOnSet(f, Others(u)) = SumFunctionOnSet(g, Others(u))
      BY <1>1, <2>1
  <2>3. f[Pick(u)] = g[Pick(u)]
      BY <1>1, <2>1
  <2>4. /\ SumFunctionOnSet(f, u) = f[Pick(u)] + SumFunctionOnSet(f, Others(u))
        /\ SumFunctionOnSet(g, u) = g[Pick(u)] + SumFunctionOnSet(g, Others(u))
      BY <1>2, <1>4, SumUnfolds
  <2> QED
      BY <1>1, <2>2, <2>3, <2>4
<1> QED
    BY <1>3, <1>4

\* A sum splits into the sum of a part and the sum of the rest.
LEMMA SumSplits ==
    ASSUME NEW f, NEW S, IsFiniteSet(S), \A x \in S : f[x] \in Nat, NEW P \in SUBSET S
    PROVE  SumFunctionOnSet(f, S) = SumFunctionOnSet(f, P) + SumFunctionOnSet(f, S \ P)
<1> DEFINE T == {u \in SUBSET S :
                    SumFunctionOnSet(f, S) # SumFunctionOnSet(f, u) + SumFunctionOnSet(f, S \ u)}
<1> SUFFICES ASSUME T # {} PROVE FALSE
    OBVIOUS
<1>1. PICK u \in T : \A v \in T : ~(v \subseteq u /\ v # u)
  <2>1. T \in SUBSET SUBSET S
      OBVIOUS
  <2> HIDE DEF T
  <2> QED
      BY <2>1, MinimalSubset
<1>2. IsFiniteSet(u) /\ IsFiniteSet(S \ u)
    BY <1>1, FS_Subset
<1>3. SumFunctionOnSet(f, S) # SumFunctionOnSet(f, u) + SumFunctionOnSet(f, S \ u)
    BY <1>1
<1>4. CASE u = {}
  <2>1. SumFunctionOnSet(f, u) = 0 /\ S \ u = S
      BY <1>2, <1>4, SumUnfolds
  <2>2. SumFunctionOnSet(f, S) \in Nat
      BY SumIsNat
  <2>3. SumFunctionOnSet(f, S \ u) = SumFunctionOnSet(f, S)
      BY <2>1
  <2> HIDE DEF T
  <2> QED
      BY <1>3, <2>1, <2>2, <2>3
<1>5. ASSUME NEW x \in u PROVE FALSE
  <2> DEFINE v == u \ {x}
  <2>1. v \subseteq S /\ v \notin T /\ x \in S \ v /\ (S \ v) \ {x} = S \ u
      BY <1>1
  <2>2. SumFunctionOnSet(f, S) = SumFunctionOnSet(f, v) + SumFunctionOnSet(f, S \ v)
      BY <2>1
  <2>3. SumFunctionOnSet(f, u) = f[x] + SumFunctionOnSet(f, v)
      BY <1>1, <1>2, SumTakes
  <2> HIDE DEF v
  <2>4. SumFunctionOnSet(f, S \ v) = f[x] + SumFunctionOnSet(f, S \ u)
    <3>1. IsFiniteSet(S \ v) /\ \A y \in S \ v : f[y] \in Nat
        BY FS_Subset
    <3> QED
        BY <2>1, <3>1, SumTakes
  <2>5. /\ f[x] \in Nat /\ SumFunctionOnSet(f, v) \in Nat
        /\ SumFunctionOnSet(f, S \ u) \in Nat
    <3>1. IsFiniteSet(v)
        BY <2>1, FS_Subset
    <3> QED
        BY <1>1, <1>2, <2>1, <3>1, SumIsNat
  <2> HIDE DEF T
  <2> DEFINE a == f[x]
             b == SumFunctionOnSet(f, v)
             c == SumFunctionOnSet(f, S \ u)
  <2>6. /\ SumFunctionOnSet(f, S) = b + (a + c)
        /\ SumFunctionOnSet(f, u) + SumFunctionOnSet(f, S \ u) = (a + b) + c
        /\ a \in Nat /\ b \in Nat /\ c \in Nat
      BY <2>2, <2>3, <2>4, <2>5
  <2> HIDE DEF a, b, c
  <2>7. b + (a + c) = (a + b) + c
      BY <2>6
  <2> QED
      BY <1>3, <2>6, <2>7
<1> QED
    BY <1>4, <1>5
-----------------------------------------------------------------------------
(* The tokens *)

\* The columns of the table that are summed up, and the sets of its rows.
LEMMA Columns ==
    ASSUME TypeOK
    PROVE  /\ \A a \in Attempts : Reserved[a] \in Nat /\ Charged[a] \in Nat
           /\ IsFiniteSet(Made) /\ Made \subseteq Attempts
           /\ IsFiniteSet(Started) /\ Started \subseteq Made
<1>1. \A a \in Attempts : attempts[a].reserved \in Nat /\ attempts[a].total \in Nat
    BY DEF TypeOK, Row
<1>2. Made \subseteq Attempts /\ Started \subseteq Made
    BY DEF Made, Started
<1> QED
    BY <1>1, <1>2, AttemptsAreFinite, FS_Subset DEF Reserved, Charged

\* Of a step, what counts for the tokens.
AdmitTokens(c) ==
    LET a == Attempt(c) IN
    /\ a \in Attempts /\ a \notin Made
    /\ Made' = Made \cup {a} /\ Started' = Started \cup {a}
    /\ Charged'[a] = 0 /\ Reserved'[a] = Reserve(a)
    /\ \A b \in Made : Charged'[b] = Charged[b] /\ Reserved'[b] = Reserved[b]
    /\ ledger'.used = ledger.used
    /\ ledger'.reserved = ledger.reserved + Reserve(a)

ChargeTokens(a) ==
    /\ a \in Started
    /\ Made' = Made /\ Started' = Started \ {a}
    /\ Charged'[a] \in Nat
    /\ \A b \in Made \ {a} : Charged'[b] = Charged[b]
    /\ Reserved' = Reserved
    /\ ledger'.used = ledger.used + Charged'[a]
    /\ ledger'.reserved = Less(ledger.reserved, Reserved[a])

WriteOffTokens(lost) ==
    /\ Made' = Made /\ Started' = Started \ lost
    /\ Charged' = Charged /\ Reserved' = Reserved
    /\ ledger'.used = ledger.used
    /\ ledger'.reserved = Less(ledger.reserved, ReservedBy(lost))

\* An admission reserves for an attempt that is new.
LEMMA AdmitCounts ==
    ASSUME TypeOK, HandlersKnowTheirAttempts, NEW c \in Calls, Admit(c)
    PROVE  AdmitTokens(c)
<1> DEFINE a == Attempt(c)
<1>1. a \in Attempts /\ Reserve(a) \in Nat
    BY ReserveIsNat DEF TypeOK, Attempt, Attempts
<1>2. attempts[a].status = "absent"
    BY DEF Admit, HandlersKnowTheirAttempts
<1>3. /\ attempts'[a] = [status |-> "started", reserved |-> Reserve(a), total |-> 0]
      /\ \A b \in Attempts : b # a => attempts'[b] = attempts[b]
      /\ ledger'.used = ledger.used /\ ledger'.reserved = ledger.reserved + Reserve(a)
    BY <1>1 DEF Admit, TypeOK, Ledger
<1> HIDE DEF a
<1>4. a \notin Made /\ Made' = Made \cup {a} /\ Started' = Started \cup {a}
    BY <1>1, <1>2, <1>3 DEF Made, Started
<1>5. /\ Charged'[a] = 0 /\ Reserved'[a] = Reserve(a)
      /\ \A b \in Made : Charged'[b] = Charged[b] /\ Reserved'[b] = Reserved[b]
    BY <1>1, <1>3, <1>4 DEF Charged, Reserved, Made
<1> QED
    BY <1>1, <1>3, <1>4, <1>5 DEF AdmitTokens, a

\* A finalization charges an attempt that is open, or nobody.
LEMMA FinalizeCounts ==
    ASSUME TypeOK, NEW a \in Attempts, NEW total \in Nat,
           NEW status \in {"succeeded", "failed"}, Finalize(a, status, total)
    PROVE  ChargeTokens(a) \/ UNCHANGED <<attempts, ledger>>
<1> SUFFICES ASSUME attempts[a].status = "started" PROVE ChargeTokens(a)
    BY DEF Finalize
<1>1. /\ attempts' = [attempts EXCEPT ![a].status = status, ![a].total = total]
      /\ ledger' = [ledger EXCEPT !.used = @ + total,
                                  !.reserved = Less(@, attempts[a].reserved)]
    BY DEF Finalize
<1>2. /\ attempts'[a].status = status /\ attempts'[a].total = total
      /\ attempts'[a].reserved = attempts[a].reserved
      /\ \A b \in Attempts : b # a => attempts'[b] = attempts[b]
    BY <1>1 DEF TypeOK, Row
<1>3. /\ ledger'.used = ledger.used + total
      /\ ledger'.reserved = Less(ledger.reserved, attempts[a].reserved)
    BY <1>1 DEF TypeOK, Ledger
<1>4. a \in Started /\ Made' = Made /\ Started' = Started \ {a}
    BY <1>2 DEF Made, Started
<1>5. /\ Charged'[a] = total /\ Reserved' = Reserved
      /\ \A b \in Made \ {a} : Charged'[b] = Charged[b]
    BY <1>2 DEF Charged, Reserved, Made
<1>6. Reserved[a] = attempts[a].reserved
    BY DEF Reserved
<1> QED
    BY <1>3, <1>4, <1>5, <1>6 DEF ChargeTokens

\* The exit of a run writes its open attempts off.
LEMMA ExitCounts ==
    ASSUME TypeOK, NEW run \in Runs, RunExit(run)
    PROVE  \E lost \in SUBSET Started :
               /\ WriteOffTokens(lost)
               /\ \A a \in Started : attempts'[a] = attempts[a] \/ a \in lost
<1> DEFINE lost == {a \in Attempts : RunOf[a[1]] = run /\ attempts[a].status = "started"}
<1>1. /\ attempts' = [a \in Attempts |->
                         IF a \in lost THEN [attempts[a] EXCEPT !.status = "crashed"]
                         ELSE attempts[a]]
      /\ ledger' = [ledger EXCEPT !.reserved = Less(@, ReservedBy(lost))]
    BY DEF RunExit
<1>2. lost \subseteq Started
    BY DEF Started
<1> HIDE DEF lost
<1>3. /\ \A a \in lost : /\ attempts'[a].status = "crashed"
                         /\ attempts'[a].total = attempts[a].total
                         /\ attempts'[a].reserved = attempts[a].reserved
      /\ \A a \in Attempts \ lost : attempts'[a] = attempts[a]
    BY <1>1, <1>2 DEF TypeOK, Row, Started
<1>4. ledger'.used = ledger.used /\ ledger'.reserved = Less(ledger.reserved, ReservedBy(lost))
    BY <1>1 DEF TypeOK, Ledger
<1>5. Made' = Made /\ Started' = Started \ lost
    BY <1>2, <1>3 DEF Made, Started
<1>6. Charged' = Charged /\ Reserved' = Reserved
    BY <1>2, <1>3 DEF Charged, Reserved, Started
<1>7. WriteOffTokens(lost)
    BY <1>4, <1>5, <1>6 DEF WriteOffTokens
<1>8. \A a \in Started : attempts'[a] = attempts[a] \/ a \in lost
    BY <1>3 DEF Started
<1> QED
    BY <1>2, <1>7, <1>8

\* All other steps leave the table and the ledger alone.
LEMMA TokenSteps ==
    ASSUME TypeOK, HandlersKnowTheirAttempts, [Next]_vars
    PROVE  \/ \E c \in Calls : Admit(c) /\ AdmitTokens(c)
           \/ \E a \in Started : ChargeTokens(a)
           \/ \E lost \in SUBSET Started : WriteOffTokens(lost)
           \/ UNCHANGED <<attempts, ledger>>
<1>1. ASSUME NEW c \in Calls, Admit(c) PROVE AdmitTokens(c)
    BY <1>1, AdmitCounts
<1>2. ASSUME NEW c \in Calls,
             Succeed(c) \/ Raise(c) \/ InvalidRepair(c) \/ InvalidGiveUp(c) \/ PostFinalize(c)
      PROVE  (\E a \in Started : ChargeTokens(a)) \/ UNCHANGED <<attempts, ledger>>
  <2>1. PICK status \in {"succeeded", "failed"}, total \in Nat :
            Finalize(Attempt(c), status, total)
      BY <1>2, Finalizers
  <2>2. Attempt(c) \in Attempts
      BY <1>2, Finalizers
  <2>3. ChargeTokens(Attempt(c)) \/ UNCHANGED <<attempts, ledger>>
      BY <2>1, <2>2, FinalizeCounts
  <2>4. ChargeTokens(Attempt(c)) => Attempt(c) \in Started
      BY DEF ChargeTokens
  <2> QED
      BY <2>3, <2>4
<1>3. ASSUME NEW run \in Runs, RunExit(run)
      PROVE  \E lost \in SUBSET Started : WriteOffTokens(lost)
    BY <1>3, ExitCounts
<1>4. CASE UNCHANGED vars
    BY <1>4 DEF vars
<1> QED
    BY <1>1, <1>2, <1>3, <1>4 DEF Next, Handle, Begin, Reject, PatchGuardrails, ServerCrash

\* The ledger stays exact; a release finds as much reserved as it gives back.
LEMMA StepMatches ==
    ASSUME TypeOK, HandlersKnowTheirAttempts, OpenAttempts, LedgerMatchesAttempts, [Next]_vars
    PROVE  /\ ledger'.used = SumFunctionOnSet(Charged', Made')
           /\ ledger'.reserved = SumFunctionOnSet(Reserved', Started')
           /\ \A a : ChargeTokens(a) => Reserved[a] <= ledger.reserved
<1> DEFINE Goal == /\ ledger'.used = SumFunctionOnSet(Charged', Made')
                   /\ ledger'.reserved = SumFunctionOnSet(Reserved', Started')
<1>0. /\ ledger.used = SumFunctionOnSet(Charged, Made)
      /\ ledger.reserved = SumFunctionOnSet(Reserved, Started)
      /\ ledger.used \in Nat /\ ledger.reserved \in Nat
    BY LedgerNumbers DEF LedgerMatchesAttempts, ReservedBy
<1>1. /\ \A a \in Attempts : Reserved[a] \in Nat /\ Charged[a] \in Nat
      /\ IsFiniteSet(Made) /\ Made \subseteq Attempts
      /\ IsFiniteSet(Started) /\ Started \subseteq Made
    BY Columns
<1>2. ASSUME NEW c \in Calls, AdmitTokens(c) PROVE Goal
  <2> DEFINE a == Attempt(c)
  <2>1. /\ a \in Attempts /\ a \notin Made
        /\ Made' = Made \cup {a} /\ Started' = Started \cup {a}
        /\ Charged'[a] = 0 /\ Reserved'[a] = Reserve(a)
        /\ \A b \in Made : Charged'[b] = Charged[b] /\ Reserved'[b] = Reserved[b]
        /\ ledger'.used = ledger.used
        /\ ledger'.reserved = ledger.reserved + Reserve(a)
      BY <1>2 DEF AdmitTokens
  <2>2. Reserve(a) \in Nat
      BY <2>1, ReserveIsNat
  <2> HIDE DEF a
  <2>3. IsFiniteSet(Made') /\ IsFiniteSet(Started')
      BY <1>1, <2>1, FS_AddElement
  <2>4. Made' \ {a} = Made /\ Started' \ {a} = Started /\ a \in Made' /\ a \in Started'
      BY <1>1, <2>1
  <2>5. /\ SumFunctionOnSet(Charged', Made) = SumFunctionOnSet(Charged, Made)
        /\ SumFunctionOnSet(Reserved', Started) = SumFunctionOnSet(Reserved, Started)
    <3>1. \A b \in Started : Reserved'[b] = Reserved[b]
        BY <1>1, <2>1
    <3> QED
        BY <1>1, <2>1, <3>1, SumOfEquals
  <2>6. /\ \A b \in Made' : Charged'[b] \in Nat
        /\ \A b \in Started' : Reserved'[b] \in Nat
      BY <1>1, <2>1, <2>2
  <2>7. SumFunctionOnSet(Charged', Made') = 0 + SumFunctionOnSet(Charged, Made)
      BY <2>1, <2>3, <2>4, <2>5, <2>6, SumTakes
  <2>8. SumFunctionOnSet(Reserved', Started') = Reserve(a) + SumFunctionOnSet(Reserved, Started)
      BY <2>1, <2>3, <2>4, <2>5, <2>6, SumTakes
  <2> QED
      BY <1>0, <2>1, <2>2, <2>7, <2>8
<1>3. ASSUME NEW a \in Started, ChargeTokens(a) PROVE Goal /\ Reserved[a] <= ledger.reserved
  <2>1. /\ Made' = Made /\ Started' = Started \ {a}
        /\ Charged'[a] \in Nat /\ Charged[a] = 0 /\ a \in Made /\ a \in Attempts
        /\ \A b \in Made \ {a} : Charged'[b] = Charged[b]
        /\ Reserved' = Reserved
        /\ ledger'.used = ledger.used + Charged'[a]
        /\ ledger'.reserved = Less(ledger.reserved, Reserved[a])
    <3>1. a \in Attempts
        BY <1>1
    <3>2. Charged[a] = 0
        BY <3>1 DEF OpenAttempts, Charged
    <3>3. Charged'[a] \in Nat
        BY <1>3 DEF ChargeTokens
    <3> QED
        BY <1>1, <1>3, <3>1, <3>2, <3>3 DEF ChargeTokens
  <2>2. SumFunctionOnSet(Reserved, Started) =
            Reserved[a] + SumFunctionOnSet(Reserved, Started \ {a})
    <3>1. \A b \in Started : Reserved[b] \in Nat
        BY <1>1
    <3> QED
        BY <1>1, <3>1, SumTakes
  <2>3. SumFunctionOnSet(Reserved, Started \ {a}) \in Nat /\ Reserved[a] \in Nat
    <3>1. IsFiniteSet(Started \ {a}) /\ \A b \in Started \ {a} : Reserved[b] \in Nat
        BY <1>1, FS_Subset
    <3> QED
        BY <1>1, <2>1, <3>1, SumIsNat
  <2>4. Reserved[a] <= ledger.reserved
        /\ Less(ledger.reserved, Reserved[a]) = SumFunctionOnSet(Reserved, Started \ {a})
    <3> DEFINE x == Reserved[a]
               y == SumFunctionOnSet(Reserved, Started \ {a})
    <3>1. ledger.reserved = x + y /\ x \in Nat /\ y \in Nat
        BY <1>0, <2>2, <2>3
    <3> HIDE DEF x, y
    <3>2. x <= ledger.reserved /\ Less(ledger.reserved, x) = y
        BY <3>1 DEF Less
    <3> QED
        BY <3>2 DEF x, y
  <2>5. SumFunctionOnSet(Charged, Made) = 0 + SumFunctionOnSet(Charged, Made \ {a})
      BY <1>1, <2>1, SumTakes
  <2>6. SumFunctionOnSet(Charged', Made) = Charged'[a] + SumFunctionOnSet(Charged', Made \ {a})
    <3>1. \A b \in Made : Charged'[b] \in Nat
        BY <1>1, <2>1
    <3> QED
        BY <1>1, <2>1, <3>1, SumTakes
  <2>7. SumFunctionOnSet(Charged', Made \ {a}) = SumFunctionOnSet(Charged, Made \ {a})
    <3>1. IsFiniteSet(Made \ {a})
        BY <1>1, FS_Subset
    <3> QED
        BY <2>1, <3>1, SumOfEquals
  <2>8. SumFunctionOnSet(Charged, Made \ {a}) \in Nat
    <3>1. IsFiniteSet(Made \ {a}) /\ \A b \in Made \ {a} : Charged[b] \in Nat
        BY <1>1, FS_Subset
    <3> QED
        BY <3>1, SumIsNat
  <2> QED
      BY <1>0, <2>1, <2>4, <2>5, <2>6, <2>7, <2>8
<1>4. ASSUME NEW lost \in SUBSET Started, WriteOffTokens(lost) PROVE Goal
  <2>1. \A b \in Started : Reserved[b] \in Nat
      BY <1>1
  <2>2. SumFunctionOnSet(Reserved, Started) =
            SumFunctionOnSet(Reserved, lost) + SumFunctionOnSet(Reserved, Started \ lost)
      BY <1>1, <2>1, SumSplits
  <2>3. SumFunctionOnSet(Reserved, lost) \in Nat /\ SumFunctionOnSet(Reserved, Started \ lost) \in Nat
    <3>1. IsFiniteSet(lost) /\ IsFiniteSet(Started \ lost)
        BY <1>1, FS_Subset
    <3> QED
        BY <2>1, <3>1, SumIsNat
  <2>4. Less(ledger.reserved, ReservedBy(lost)) = SumFunctionOnSet(Reserved, Started \ lost)
    <3> DEFINE x == SumFunctionOnSet(Reserved, lost)
               y == SumFunctionOnSet(Reserved, Started \ lost)
    <3>1. ledger.reserved = x + y /\ x \in Nat /\ y \in Nat
        BY <1>0, <2>2, <2>3
    <3>2. ReservedBy(lost) = x
        BY DEF ReservedBy
    <3> HIDE DEF x, y
    <3>3. Less(ledger.reserved, x) = y
        BY <3>1 DEF Less
    <3> QED
        BY <3>2, <3>3 DEF y
  <2> QED
      BY <1>0, <1>4, <2>4 DEF WriteOffTokens
<1>5. ASSUME UNCHANGED <<attempts, ledger>> PROVE Goal
  <2>1. Charged' = Charged /\ Reserved' = Reserved /\ Made' = Made /\ Started' = Started
      BY <1>5 DEF Charged, Reserved, Made, Started
  <2> QED
      BY <1>0, <1>5, <2>1
<1>6. \A a : ChargeTokens(a) => a \in Started
    BY DEF ChargeTokens
<1> QED
    BY <1>2, <1>3, <1>4, <1>5, <1>6, TokenSteps

\* Only its own handler moves an attempt that is open.
LEMMA StepOpen ==
    ASSUME TypeOK, HandlersKnowTheirAttempts, OpenAttempts, [Next]_vars
    PROVE  OpenAttempts'
<1> SUFFICES ASSUME NEW a \in Started'
             PROVE  /\ pc'[a[1]] \in Busy \ {"admit"} /\ kind'[a[1]] = a[2]
                    /\ attempts'[a].reserved = Reserve(a) /\ attempts'[a].total = 0
    BY DEF OpenAttempts, Reserve
<1> DEFINE d == a[1]
           Goal == /\ pc'[d] \in Busy \ {"admit"} /\ kind'[d] = a[2]
                   /\ attempts'[a].reserved = Reserve(a) /\ attempts'[a].total = 0
<1>1. a \in Attempts /\ d \in Calls /\ a[2] \in Kinds /\ a = <<d, a[2]>>
      /\ attempts'[a].status = "started"
    BY DEF Started, Attempts
<1>2. a \in Started => /\ pc[d] \in Busy \ {"admit"} /\ kind[d] = a[2] /\ a = Attempt(d)
                       /\ attempts[a].reserved = Reserve(a) /\ attempts[a].total = 0
    BY <1>1 DEF OpenAttempts, Attempt
<1>3. attempts'[a] = attempts[a] => a \in Started
    BY <1>1 DEF Started
<1>4. ASSUME attempts'[a] = attempts[a], kind'[d] = kind[d],
             pc[d] \in Busy \ {"admit"} => pc'[d] \in Busy \ {"admit"}
      PROVE  Goal
    BY <1>2, <1>3, <1>4
<1>5. ASSUME NEW c \in Calls, Admit(c) PROVE Goal
  <2>1. CASE a = Attempt(c)
    <3>1. d = c /\ a[2] = kind[c]
        BY <2>1 DEF Attempt
    <3>2. attempts'[a] = [status |-> "started", reserved |-> Reserve(a), total |-> 0]
        BY <1>1, <1>5, <2>1 DEF Admit, TypeOK
    <3>3. pc'[c] \in Busy \ {"admit"} /\ kind' = kind
        BY <1>5 DEF Admit, TypeOK, Busy, InFlight
    <3> QED
        BY <3>1, <3>2, <3>3
  <2>2. CASE a # Attempt(c)
    <3>1. attempts'[a] = attempts[a] /\ kind' = kind
        BY <1>1, <1>5, <2>2 DEF Admit, TypeOK
    <3>2. a = Attempt(d)
        BY <1>2, <1>3, <3>1
    <3>3. d # c
        BY <2>2, <3>2
    <3>4. pc'[d] = pc[d]
        BY <1>1, <1>5, <3>3 DEF Admit, TypeOK
    <3> QED
        BY <1>4, <3>1, <3>4
  <2> QED
      BY <2>1, <2>2
<1>6. ASSUME NEW c \in Calls,
             Succeed(c) \/ Raise(c) \/ InvalidRepair(c) \/ InvalidGiveUp(c) \/ PostFinalize(c)
      PROVE  Goal
  <2>1. /\ \A b \in Attempts : b # Attempt(c) => attempts'[b] = attempts[b]
        /\ attempts'[Attempt(c)].status \in Settled
      BY <1>6, Finalizers, FinalizeEffect
  <2>2. a # Attempt(c) /\ attempts'[a] = attempts[a]
      BY <1>1, <2>1 DEF Settled
  <2>3. d # c
      BY <1>2, <1>3, <2>2
  <2>4. pc'[d] = pc[d] /\ kind'[d] = kind[d]
      BY <1>1, <1>6, <2>3 DEF Succeed, Raise, InvalidRepair, InvalidGiveUp, PostFinalize,
                              Goto, TypeOK
  <2> QED
      BY <1>4, <2>2, <2>4
<1>7. ASSUME NEW run \in Runs, RunExit(run) PROVE Goal
  <2>1. attempts'[a] = attempts[a]
      BY <1>1, <1>7, ExitEffect
  <2> QED
      BY <1>4, <1>7, <2>1 DEF RunExit
<1>8. ASSUME NEW c \in Calls, Begin(c) \/ Reject(c) PROVE Goal
  <2>1. UNCHANGED <<attempts, kind>>
      BY <1>8 DEF Begin, Reject
  <2>2. pc[d] \in Busy \ {"admit"} => pc'[d] = pc[d]
      BY <1>1, <1>8 DEF Begin, Reject, Goto, TypeOK, Busy, InFlight
  <2> QED
      BY <1>4, <2>1, <2>2
<1>9. CASE PatchGuardrails \/ UNCHANGED vars
    BY <1>4, <1>9 DEF PatchGuardrails, vars
<1>10. CASE ServerCrash
    BY <1>1, <1>4, <1>10 DEF ServerCrash, TypeOK, Busy, InFlight
<1> QED
    BY <1>5, <1>6, <1>7, <1>8, <1>9, <1>10 DEF Next, Handle

\* What calls have cost beyond their reservations, as a number.
LEMMA ExcessIsNat ==
    ASSUME TypeOK
    PROVE  /\ \A a \in Attempts : Excess[a] \in Nat
           /\ SumFunctionOnSet(Excess, Made) \in Nat
<1>1. \A a \in Attempts : Excess[a] \in Nat
    BY LessIsNat DEF Excess, TypeOK, Row
<1> QED
    BY <1>1, Columns, SumIsNat

\* Only a charge adds to it: what the call has cost more than was reserved.
LEMMA ExcessGrows ==
    ASSUME TypeOK, TypeOK', OpenAttempts
    PROVE  /\ \A c : AdmitTokens(c) =>
                  SumFunctionOnSet(Excess', Made') = SumFunctionOnSet(Excess, Made)
           /\ \A a : ChargeTokens(a) =>
                  SumFunctionOnSet(Excess', Made') =
                      Less(Charged'[a], Reserved[a]) + SumFunctionOnSet(Excess, Made)
           /\ \A lost : WriteOffTokens(lost) =>
                  SumFunctionOnSet(Excess', Made') = SumFunctionOnSet(Excess, Made)
           /\ UNCHANGED attempts =>
                  SumFunctionOnSet(Excess', Made') = SumFunctionOnSet(Excess, Made)
<1>0. /\ Excess = [a \in Attempts |-> Less(Charged[a], Reserved[a])]
      /\ Excess' = [a \in Attempts |-> Less(Charged'[a], Reserved'[a])]
    BY DEF Excess, Charged, Reserved
<1>1. /\ \A a \in Attempts : Reserved[a] \in Nat /\ Charged[a] \in Nat /\ Excess[a] \in Nat
      /\ IsFiniteSet(Made) /\ Made \subseteq Attempts /\ Started \subseteq Made
      /\ SumFunctionOnSet(Excess, Made) \in Nat
    BY Columns, ExcessIsNat
<1>2. \A a \in Attempts : Excess'[a] \in Nat
  <2>1. (TypeOK => \A a \in Attempts : Excess[a] \in Nat)'
      BY ExcessIsNat, PTL
  <2> QED
      BY <2>1 DEF Attempts
<1>3. \A a \in Started : Excess[a] = 0
    BY <1>0, <1>1 DEF OpenAttempts, Charged, Less, Started
<1>4. ASSUME NEW c, AdmitTokens(c)
      PROVE  SumFunctionOnSet(Excess', Made') = SumFunctionOnSet(Excess, Made)
  <2> DEFINE a == Attempt(c)
  <2>1. /\ a \in Attempts /\ a \notin Made /\ Made' = Made \cup {a}
        /\ Charged'[a] = 0
        /\ \A b \in Made : Charged'[b] = Charged[b] /\ Reserved'[b] = Reserved[b]
      BY <1>4 DEF AdmitTokens
  <2> HIDE DEF a
  <2>2. IsFiniteSet(Made') /\ Made' \ {a} = Made /\ a \in Made'
      BY <1>1, <2>1, FS_AddElement
  <2>3. Excess'[a] = 0
      BY <1>0, <2>1 DEF Less
  <2>4. SumFunctionOnSet(Excess', Made) = SumFunctionOnSet(Excess, Made)
    <3>1. \A b \in Made : Excess'[b] = Excess[b]
        BY <1>0, <1>1, <2>1
    <3> QED
        BY <1>1, <3>1, SumOfEquals
  <2>5. \A b \in Made' : Excess'[b] \in Nat
      BY <1>1, <1>2, <2>1
  <2>6. SumFunctionOnSet(Excess', Made') = 0 + SumFunctionOnSet(Excess, Made)
      BY <2>2, <2>3, <2>4, <2>5, SumTakes
  <2> QED
      BY <1>1, <2>6
<1>5. ASSUME NEW a, ChargeTokens(a)
      PROVE  SumFunctionOnSet(Excess', Made') =
                 Less(Charged'[a], Reserved[a]) + SumFunctionOnSet(Excess, Made)
  <2>1. /\ a \in Made /\ a \in Started /\ a \in Attempts /\ Made' = Made
        /\ \A b \in Made \ {a} : Charged'[b] = Charged[b]
        /\ Reserved' = Reserved
      BY <1>1, <1>5 DEF ChargeTokens
  <2>2. Excess'[a] = Less(Charged'[a], Reserved[a]) /\ Excess[a] = 0
      BY <1>0, <1>3, <2>1
  <2>3. IsFiniteSet(Made \ {a}) /\ \A b \in Made \ {a} : Excess[b] \in Nat
      BY <1>1, FS_Subset
  <2>4. SumFunctionOnSet(Excess', Made \ {a}) = SumFunctionOnSet(Excess, Made \ {a})
    <3>1. \A b \in Made \ {a} : Excess'[b] = Excess[b]
        BY <1>0, <1>1, <2>1
    <3> QED
        BY <2>3, <3>1, SumOfEquals
  <2>5. SumFunctionOnSet(Excess, Made) = 0 + SumFunctionOnSet(Excess, Made \ {a})
      BY <1>1, <2>1, <2>2, SumTakes
  <2>6. SumFunctionOnSet(Excess, Made \ {a}) \in Nat
      BY <2>3, SumIsNat
  <2>7. SumFunctionOnSet(Excess', Made) =
            Excess'[a] + SumFunctionOnSet(Excess', Made \ {a})
    <3>1. \A b \in Made : Excess'[b] \in Nat
        BY <1>1, <1>2
    <3> QED
        BY <1>1, <2>1, <3>1, SumTakes
  <2> QED
      BY <2>1, <2>2, <2>4, <2>5, <2>6, <2>7
<1>6. ASSUME Excess' = Excess, Made' = Made
      PROVE  SumFunctionOnSet(Excess', Made') = SumFunctionOnSet(Excess, Made)
    BY <1>6
<1>7. ASSUME NEW lost, WriteOffTokens(lost) PROVE Excess' = Excess /\ Made' = Made
    BY <1>0, <1>7 DEF WriteOffTokens
<1>8. ASSUME UNCHANGED attempts PROVE Excess' = Excess /\ Made' = Made
    BY <1>8 DEF Excess, Made
<1> QED
    BY <1>4, <1>5, <1>6, <1>7, <1>8

\* An admission leaves room for all that is reserved; a charge exceeds its
\* reservation by the excess of its call and nothing else.
LEMMA StepTokens ==
    ASSUME TypeOK, HandlersKnowTheirAttempts, OpenAttempts,
           LedgerMatchesAttempts, OnlyExcessOvershoots, [Next]_vars, TypeOK'
    PROVE  OnlyExcessOvershoots'
<1> DEFINE used == ledger.used
           held == ledger.reserved
           used2 == ledger'.used
           held2 == ledger'.reserved
           over == SumFunctionOnSet(Excess, Made)
           over2 == SumFunctionOnSet(Excess', Made')
<1>1. used \in Nat /\ held \in Nat /\ used2 \in Nat /\ held2 \in Nat
    BY LedgerNumbers DEF TypeOK, Ledger
<1>2. over \in Nat
    BY ExcessIsNat
<1>3. PICK l \in Limits : used + held <= l.tokens + over
    BY DEF OnlyExcessOvershoots
<1>4. l.tokens \in Nat
    BY LimitsAreNumbers
<1> SUFFICES \E m \in Limits : used2 + held2 <= m.tokens + over2
    BY DEF OnlyExcessOvershoots
<1>5. ASSUME NEW c \in Calls, Admit(c), AdmitTokens(c)
      PROVE  \E m \in Limits : used2 + held2 <= m.tokens + over2
  <2>1. seen[c] \in Limits /\ used + held + Reserve(Attempt(c)) <= seen[c].tokens
      BY <1>5 DEF Admit, Admissible, TypeOK
  <2>2. Reserve(Attempt(c)) \in Nat /\ seen[c].tokens \in Nat
      BY <1>5, <2>1, ReserveIsNat, LimitsAreNumbers DEF AdmitTokens
  <2>3. used2 = used /\ held2 = held + Reserve(Attempt(c))
      BY <1>5 DEF AdmitTokens
  <2>4. over2 = over
      BY <1>5, ExcessGrows
  <2> HIDE DEF used, held, used2, held2, over, over2
  <2>5. used2 + held2 <= seen[c].tokens + over2
      BY <1>1, <1>2, <2>1, <2>2, <2>3, <2>4
  <2> QED
      BY <2>1, <2>5
<1>6. ASSUME NEW a \in Started, ChargeTokens(a)
      PROVE  used2 + held2 <= l.tokens + over2
  <2> DEFINE cost == Charged'[a]
             room == Reserved[a]
  <2>1. cost \in Nat /\ used2 = used + cost /\ held2 = Less(held, room)
      BY <1>6 DEF ChargeTokens
  <2>2. room \in Nat /\ room <= held
      BY <1>6, Columns, StepMatches
  <2>3. over2 = Less(cost, room) + over
      BY <1>6, ExcessGrows
  <2> HIDE DEF used, held, used2, held2, over, over2, cost, room
  <2>4. held2 = held - room
      BY <1>1, <2>1, <2>2 DEF Less
  <2>5. Less(cost, room) \in Nat /\ cost <= room + Less(cost, room)
      BY <2>1, <2>2 DEF Less
  <2> QED
      BY <1>1, <1>2, <1>3, <1>4, <2>1, <2>2, <2>3, <2>4, <2>5
<1>7. ASSUME NEW lost \in SUBSET Started, WriteOffTokens(lost)
      PROVE  used2 + held2 <= l.tokens + over2
  <2>1. used2 = used /\ held2 = Less(held, ReservedBy(lost)) /\ over2 = over
      BY <1>7, ExcessGrows DEF WriteOffTokens
  <2>2. Less(held, ReservedBy(lost)) <= held
      BY <1>1 DEF Less
  <2> HIDE DEF used, held, used2, held2, over, over2
  <2> QED
      BY <1>1, <1>2, <1>3, <1>4, <2>1, <2>2
<1>8. CASE UNCHANGED <<attempts, ledger>>
  <2>1. used2 = used /\ held2 = held /\ over2 = over
      BY <1>8, ExcessGrows
  <2> QED
      BY <1>3, <2>1
<1> QED
    BY <1>5, <1>6, <1>7, <1>8, TokenSteps

\* Nothing is reserved and nobody is under way at first.
LEMMA InitTokens == Init => TokenInv
<1> SUFFICES ASSUME Init PROVE TokenInv
    OBVIOUS
<1>1. Made = {} /\ Started = {}
    BY DEF Init, Made, Started
<1>2. OpenAttempts
    BY <1>1 DEF OpenAttempts
<1>3. \A f : SumFunctionOnSet(f, {}) = 0
    BY SumUnfolds, FS_EmptySet
<1>4. LedgerMatchesAttempts
    BY <1>1, <1>3, InitCounted DEF Init, LedgerMatchesAttempts, ReservedBy
<1>5. OnlyExcessOvershoots
  <2>1. PICK l \in Limits : TRUE
      BY LedgerAssumption
  <2>2. l.tokens \in Nat
      BY LimitsAreNumbers
  <2> QED
      BY <1>1, <1>3, <2>1, <2>2 DEF Init, OnlyExcessOvershoots
<1> QED
    BY <1>2, <1>4, <1>5 DEF TokenInv

\* The three parts are kept together.
LEMMA StepTokenInv == IInv /\ TokenInv /\ [Next]_vars => TokenInv'
<1> SUFFICES ASSUME IInv, TokenInv, [Next]_vars PROVE TokenInv'
    OBVIOUS
<1>1. /\ TypeOK /\ HandlersKnowTheirAttempts
      /\ OpenAttempts /\ LedgerMatchesAttempts /\ OnlyExcessOvershoots
    BY DEF IInv, TokenInv
<1>2. TypeOK'
    BY <1>1, StepTypes
<1>3. OpenAttempts'
    BY <1>1, StepOpen
<1>4. LedgerMatchesAttempts'
  <2>1. CallsCounted'
      BY StepCounted
  <2>2. ReservedBy(Started)' = SumFunctionOnSet(Reserved', Started')
      BY DEF ReservedBy
  <2>3. /\ ledger'.used = SumFunctionOnSet(Charged', Made')
        /\ ledger'.reserved = SumFunctionOnSet(Reserved', Started')
      BY <1>1, StepMatches
  <2> QED
      BY <2>1, <2>2, <2>3 DEF LedgerMatchesAttempts
<1>5. OnlyExcessOvershoots'
    BY <1>1, <1>2, StepTokens
<1> QED
    BY <1>3, <1>4, <1>5 DEF TokenInv

\* So they hold in every state.
LEMMA TokenInvariance == Spec => []TokenInv
    BY InitTokens, StepTokenInv, Invariance, PTL DEF Spec

\* Whatever crashes, is repaired, posted late or posted twice, the ledger is the
\* sum of the attempts, and a release never gives back more than is reserved.
THEOREM LedgerExact == Spec => []LedgerMatchesAttempts
<1>1. TokenInv => LedgerMatchesAttempts
    BY DEF TokenInv
<1> QED
    BY <1>1, TokenInvariance, PTL

\* Whatever calls cost, and however they overlap with changes of the guardrails,
\* tokens exceed the largest limit by no more than what single calls have cost
\* beyond their own reservations.
THEOREM OvershootIsExcess == Spec => []OnlyExcessOvershoots
<1>1. TokenInv => OnlyExcessOvershoots
    BY DEF TokenInv
<1> QED
    BY <1>1, TokenInvariance, PTL
=============================================================================
