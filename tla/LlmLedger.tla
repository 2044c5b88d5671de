----------------------------- MODULE LlmLedger ------------------------------
(***************************************************************************)
(* The attempt ledger of one conversation, attempts.py: every model call   *)
(* reserves tokens before it starts (admit_attempt) and is charged when it *)
(* ends (finalize_attempt).  Callers are the projection of commit_message  *)
(* and the runs of workers, through post_internal_model_invocation with    *)
(* its repair call, and through the register and finalize endpoints.  The  *)
(* supervisor writes off what a dead worker's run had reserved.            *)
(*                                                                         *)
(* Admission and finalization are transactions under the lock of the       *)
(* conversation; the model answers in between, outside of it.              *)
(***************************************************************************)
EXTENDS Integers, FiniteSets, Functions

CONSTANTS
    Calls,      \* requests for one model answer each
    Runs,       \* agent runs
    NoRun,      \* the owner of a projection call, server_projection
    RunOf,      \* [Calls -> Runs \cup {NoRun}]
    Direct,     \* calls whose worker registers and finalizes them itself
    Estimate,   \* [Calls \X Kinds -> Nat]: estimated_input_tokens
    Totals,     \* what a call may have cost; nothing holds it to the estimate
    Limits      \* guardrails the conversation may have

Kinds == {"call", "repair"}
Attempts == Calls \X Kinds
Limit == [calls : Nat, tokens : Nat]

ASSUME LedgerAssumption ==
    /\ IsFiniteSet(Calls)
    /\ NoRun \notin Runs
    /\ RunOf \in [Calls -> Runs \cup {NoRun}]
    /\ Direct \subseteq Calls
    /\ Estimate \in [Attempts -> Nat]
    /\ Totals \subseteq Nat
    /\ Limits \subseteq Limit /\ Limits # {}

VARIABLES
    attempts,  \* rows of llm_attempts
    ledger,    \* the row of conversation_budget_ledger
    limits,    \* guardrails_json of the catalog
    dead,      \* runs whose worker process has ended
    pc,        \* one handler per call
    kind,      \* which of its attempts the handler is about
    seen,      \* guardrails on the record the handler has loaded
    answer     \* what the caller was told

vars == <<attempts, ledger, limits, dead, pc, kind, seen, answer>>
-----------------------------------------------------------------------------
Row == [status : {"absent", "started", "succeeded", "failed", "crashed"},
        reserved : Nat, total : Nat]
Ledger == [calls : Nat, used : Nat, reserved : Nat]
InFlight == {"admit", "invoke", "open"}
Settled == {"absent", "succeeded", "failed", "crashed"}

TypeOK ==
    /\ attempts \in [Attempts -> Row]
    /\ ledger \in Ledger
    /\ limits \in Limits
    /\ dead \subseteq Runs
    /\ pc \in [Calls -> InFlight \cup {"idle", "done", "lost"}]
    /\ kind \in [Calls -> Kinds]
    /\ seen \in [Calls -> Limits]
    /\ answer \in [Calls -> {"none", "ok", "rejected", "error"}]

Init ==
    /\ attempts = [a \in Attempts |-> [status |-> "absent", reserved |-> 0, total |-> 0]]
    /\ ledger = [calls |-> 0, used |-> 0, reserved |-> 0]
    /\ limits \in Limits
    /\ dead = {}
    /\ pc = [c \in Calls |-> "idle"]
    /\ kind = [c \in Calls |-> "call"]
    /\ seen = [c \in Calls |-> limits]
    /\ answer = [c \in Calls |-> "none"]
-----------------------------------------------------------------------------
Attempt(c) == <<c, kind[c]>>

\* max_output_tokens is passed along but not reserved.
Reserve(a) == IF Estimate[a] > 1 THEN Estimate[a] ELSE 1

\* max(0, x - y)
Less(x, y) == IF y \in 0..x THEN x - y ELSE 0

Reserved == [a \in Attempts |-> attempts[a].reserved]
Charged == [a \in Attempts |-> attempts[a].total]

ReservedBy(S) == SumFunctionOnSet(Reserved, S)

\* Mutant: tokens reserved by calls under way are not looked at.
AdmissibleAlone(c) ==
    /\ ledger.calls < seen[c].calls
    /\ ledger.used + Reserve(Attempt(c)) <= seen[c].tokens

\* Mutant: the limit is the number of calls after which one more is allowed.
AdmissibleOneMore(c) ==
    /\ ledger.calls <= seen[c].calls
    /\ ledger.used + ledger.reserved + Reserve(Attempt(c)) <= seen[c].tokens

\* _admission_decision, with the limits the handler has read.
Admissible(c) ==
    /\ ledger.calls < seen[c].calls
    /\ ledger.used + ledger.reserved + Reserve(Attempt(c)) <= seen[c].tokens

\* Mutant: a second finalization is charged again.
FinalizeAgain(a, status, total) ==
    /\ attempts' = [attempts EXCEPT ![a].status = status, ![a].total = total]
    /\ ledger' = [ledger EXCEPT !.used = @ + total,
                                !.reserved = Less(@, attempts[a].reserved)]

\* finalize_attempt: only a started attempt is charged.
Finalize(a, status, total) ==
    IF attempts[a].status # "started"
    THEN UNCHANGED <<attempts, ledger>>
    ELSE /\ attempts' = [attempts EXCEPT ![a].status = status, ![a].total = total]
         /\ ledger' = [ledger EXCEPT !.used = @ + total,
                                     !.reserved = Less(@, attempts[a].reserved)]

Goto(c, p, ans) ==
    /\ pc' = [pc EXCEPT ![c] = p]
    /\ answer' = [answer EXCEPT ![c] = ans]
-----------------------------------------------------------------------------
\* The request arrives and its handler loads the conversation.  A worker has
\* at most one call under way.
Begin(c) ==
    /\ pc[c] = "idle"
    /\ RunOf[c] \notin dead
    /\ \A d \in Calls : RunOf[d] = RunOf[c] /\ RunOf[c] # NoRun => pc[d] \notin InFlight
    /\ pc' = [pc EXCEPT ![c] = "admit"]
    /\ seen' = [seen EXCEPT ![c] = limits]
    /\ UNCHANGED <<attempts, ledger, limits, dead, kind, answer>>

Admit(c) ==
    LET a == Attempt(c) IN
    /\ pc[c] = "admit"
    /\ Admissible(c)
    /\ attempts' = [attempts EXCEPT
                       ![a] = [status |-> "started", reserved |-> Reserve(a), total |-> 0]]
    /\ ledger' = [ledger EXCEPT !.calls = @ + 1, !.reserved = @ + Reserve(a)]
    /\ pc' = [pc EXCEPT ![c] = IF c \in Direct THEN "open" ELSE "invoke"]
    /\ UNCHANGED <<limits, dead, kind, seen, answer>>

\* A rejected projection call is replaced by APPEND_CURRENT; a rejected run
\* gives up.
Reject(c) ==
    /\ pc[c] = "admit"
    /\ ~Admissible(c)
    /\ Goto(c, "done", "rejected")
    /\ UNCHANGED <<attempts, ledger, limits, dead, kind, seen>>

\* The total is what the provider reports, or what the worker posts.
Succeed(c) ==
    /\ pc[c] = "invoke"
    /\ \E total \in Totals : Finalize(Attempt(c), "succeeded", total)
    /\ Goto(c, "done", "ok")
    /\ UNCHANGED <<limits, dead, kind, seen>>

\* Mutant: the error path does not finalize.
RaiseOpen(c) ==
    /\ pc[c] = "invoke"
    /\ Goto(c, "done", "error")
    /\ UNCHANGED <<attempts, ledger, limits, dead, kind, seen>>

\* The adapter raised: the estimate is charged.
Raise(c) ==
    /\ pc[c] = "invoke"
    /\ Finalize(Attempt(c), "failed", Estimate[Attempt(c)])
    /\ Goto(c, "done", "error")
    /\ UNCHANGED <<limits, dead, kind, seen>>

Repairable(c) == kind[c] = "call" /\ RunOf[c] # NoRun

\* Output that is not a JSON object: a worker's call is followed by a repair
\* call, admitted like any other.
InvalidRepair(c) ==
    /\ pc[c] = "invoke"
    /\ Repairable(c)
    /\ \E total \in Totals : Finalize(Attempt(c), "failed", total)
    /\ pc' = [pc EXCEPT ![c] = "admit"]
    /\ kind' = [kind EXCEPT ![c] = "repair"]
    /\ UNCHANGED <<limits, dead, seen, answer>>

InvalidGiveUp(c) ==
    /\ pc[c] = "invoke"
    /\ ~Repairable(c)
    /\ \E total \in Totals : Finalize(Attempt(c), "failed", total)
    /\ Goto(c, "done", "error")
    /\ UNCHANGED <<limits, dead, kind, seen>>

\* The finalize endpoint; a worker that did not get the response posts again.
PostFinalize(c) ==
    /\ pc[c] = "open"
    /\ \E total \in Totals, status \in {"succeeded", "failed"} :
           Finalize(Attempt(c), status, total)
    /\ \/ Goto(c, "done", "ok")
       \/ UNCHANGED <<pc, answer>>
    /\ UNCHANGED <<limits, dead, kind, seen>>

\* Mutant: all attempts of the run are marked, not only the started ones.
RunExitAll(run) ==
    LET lost == {a \in Attempts : RunOf[a[1]] = run /\ attempts[a].status # "absent"} IN
    /\ attempts' = [a \in Attempts |->
                       IF a \in lost THEN [attempts[a] EXCEPT !.status = "crashed"]
                       ELSE attempts[a]]
    /\ ledger' = [ledger EXCEPT !.reserved = Less(@, ReservedBy(lost))]
    /\ dead' = dead \cup {run}
    /\ UNCHANGED <<limits, pc, kind, seen, answer>>

\* The monitor notices that the worker of an active run has exited
\* (mark_run_attempts_crashed).  A handler working for it goes on.
RunExit(run) ==
    LET lost == {a \in Attempts : RunOf[a[1]] = run /\ attempts[a].status = "started"} IN
    /\ attempts' = [a \in Attempts |->
                       IF a \in lost THEN [attempts[a] EXCEPT !.status = "crashed"]
                       ELSE attempts[a]]
    /\ ledger' = [ledger EXCEPT !.reserved = Less(@, ReservedBy(lost))]
    /\ dead' = dead \cup {run}
    /\ UNCHANGED <<limits, pc, kind, seen, answer>>

\* patch_guardrails
PatchGuardrails ==
    /\ \E l \in Limits : limits' = l
    /\ UNCHANGED <<attempts, ledger, dead, pc, kind, seen, answer>>

\* The server process and its workers die, and the server is started again: its
\* startup looks at no attempt.
ServerCrash ==
    /\ \E c \in Calls : pc[c] \in InFlight
    /\ pc' = [c \in Calls |-> IF pc[c] \in InFlight THEN "lost" ELSE pc[c]]
    /\ dead' = dead \cup ({RunOf[c] : c \in {d \in Calls : pc[d] # "idle"}} \ {NoRun})
    /\ UNCHANGED <<attempts, ledger, limits, kind, seen, answer>>

Handle(c) ==
    \/ Admit(c)
    \/ Reject(c)
    \/ Succeed(c)
    \/ Raise(c)
    \/ InvalidRepair(c)
    \/ InvalidGiveUp(c)

Next ==
    \/ \E c \in Calls : Begin(c) \/ Handle(c) \/ PostFinalize(c)
    \/ \E run \in Runs : RunExit(run)
    \/ PatchGuardrails
    \/ ServerCrash

Spec == Init /\ [][Next]_vars

\* The thread pool runs every handler and the model answers, if only with a
\* timeout of the adapter; nothing obliges a worker to post.
FairSpec == Spec /\ \A c \in Calls : WF_vars(Handle(c))
-----------------------------------------------------------------------------
Made == {a \in Attempts : attempts[a].status # "absent"}
Started == {a \in Attempts : attempts[a].status = "started"}

CallsCounted == ledger.calls = Cardinality(Made)

\* The ledger counts every admitted call, charges every settled one and holds
\* the reservation of every open one, through late finalizations, crashed runs
\* and crashes of the server.
LedgerMatchesAttempts ==
    /\ CallsCounted
    /\ ledger.used = SumFunctionOnSet(Charged, Made)
    /\ ledger.reserved = ReservedBy(Started)

\* Once a caller has its answer none of its attempts is open, and the attempt
\* it was refused does not exist.
AnsweredCallsAreSettled ==
    \A c \in Calls : pc[c] = "done" =>
        /\ \A k \in Kinds : attempts[<<c, k>>].status \in Settled
        /\ answer[c] = "rejected" => attempts[Attempt(c)].status = "absent"

\* The attempts of all callers together, repairs included, never outnumber the
\* largest limit the conversation has had: each admission looks at a ledger
\* that already counts all others, though its limit may be an old one.
CallLimitHolds == \E l \in Limits : Cardinality(Made) <= l.calls

\* By how much each call has cost more than was reserved for it.
Excess == [a \in Attempts |-> Less(attempts[a].total, attempts[a].reserved)]

\* However callers overlap and guardrails change, what is used and reserved
\* exceeds the largest limit ever set by no more than what calls have cost
\* beyond their own reservations: no two of them are let into the same room,
\* and what is given back to one caller was not given to another before.
OnlyExcessOvershoots ==
    \E l \in Limits :
        ledger.used + ledger.reserved <= l.tokens + SumFunctionOnSet(Excess, Made)

\* What each handler may find in the table, part of the inductive invariant: an
\* attempt to be admitted does not exist, a repair follows a settled call, and
\* a handler that is done leaves nothing open.
HandlersKnowTheirAttempts ==
    \A c \in Calls :
        /\ kind[c] = "call" => attempts[<<c, "repair">>].status = "absent"
        /\ kind[c] = "repair" => attempts[<<c, "call">>].status \in Settled
        /\ pc[c] = "idle" => kind[c] = "call"
        /\ pc[c] \in {"idle", "admit"} => attempts[Attempt(c)].status = "absent"
        /\ pc[c] = "done" => attempts[Attempt(c)].status \in Settled
        /\ answer[c] = "rejected" => pc[c] = "done" /\ attempts[Attempt(c)].status = "absent"

CallsWithinSeen == \E l \in Limits : ledger.calls <= l.calls

IInv == TypeOK /\ HandlersKnowTheirAttempts /\ CallsCounted /\ CallsWithinSeen

\* An open attempt is the current one of a handler under way or lost, holds its
\* reservation and has not been charged.
Busy == InFlight \cup {"lost"}
OpenAttempts ==
    \A a \in Started :
        /\ pc[a[1]] \in Busy \ {"admit"} /\ kind[a[1]] = a[2]
        /\ attempts[a].reserved = Reserve(a) /\ attempts[a].total = 0

\* What the tokens of the ledger need to be exact and bounded.
TokenInv == OpenAttempts /\ LedgerMatchesAttempts /\ OnlyExcessOvershoots

\* No step changes an attempt that has been settled: it is charged or written
\* off once, whoever comes second.
SettledAttemptsAreFinal ==
    [][\A a \in Attempts : attempts[a].status \in Settled \ {"absent"} =>
           attempts'[a] = attempts[a]]_vars

\* A reservation is given back in the end, unless the server dies: the next one
\* does not look for what its predecessor has left open.
ReservationsEnd ==
    \A a \in Attempts : a[1] \notin Direct =>
        (attempts[a].status = "started"
            ~> attempts[a].status # "started" \/ pc[a[1]] = "lost")
=============================================================================
