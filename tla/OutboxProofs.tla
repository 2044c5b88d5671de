---------------------------- MODULE OutboxProofs ----------------------------
(***************************************************************************)
(* Proofs about OutboxDispatch for any conversations, writers and sockets, *)
(* and any number of rows and faults: IInv is inductive, and no socket is  *)
(* left with a gap or gets an event ahead of one it misses.                *)
(***************************************************************************)
EXTENDS OutboxDispatch, TLAPS, WellFoundedInduction

\* What ORDER BY rowid gives: the first row still to be published.
LEMMA FirstRow ==
    ASSUME todo \in SUBSET Nat, todo # {}
    PROVE  NextRow \in todo /\ \A j \in todo : NextRow <= j
<1> DEFINE R == OpToRel(<, Nat)
           IsMin(x) == \A j \in todo : x <= j
<1>1. IsWellFoundedOn(R, Nat)
    BY NatLessThanWellFounded
<1>2. PICK x \in todo : \A y \in todo : ~(<<y, x>> \in R)
    BY <1>1, WFMin, Zenon
<1>3. IsMin(x)
  <2> SUFFICES ASSUME NEW j \in todo PROVE x <= j
      OBVIOUS
  <2>1. x \in Nat /\ j \in Nat
      BY <1>2
  <2>2. ~(<<j, x>> \in R)
      BY <1>2
  <2>3. ~(j < x)
      BY <2>1, <2>2 DEF OpToRel
  <2> QED
      BY <2>1, <2>3
<1>4. Min(todo) \in todo /\ IsMin(Min(todo))
    BY <1>3 DEF Min
<1> QED
    BY <1>4 DEF NextRow

\* Appending rows keeps the old ones.
LEMMA Appended ==
    ASSUME NEW old \in Seq(Nat), NEW new \in Seq(Nat)
    PROVE  /\ old \o new \in Seq(Nat)
           /\ DOMAIN old \subseteq DOMAIN (old \o new)
           /\ \A i \in DOMAIN (old \o new) :
                 \/ i \in DOMAIN old /\ (old \o new)[i] = old[i]
                 \/ \A j \in DOMAIN old : j < i
OBVIOUS

\* The state a server starts in.
LEMMA InitIInv == Init => IInv
<1> SUFFICES ASSUME Init PROVE IInv
    OBVIOUS
<1> USE OutboxAssumption DEF Init
<1>1. TypeOK
    BY DEF TypeOK, Away, Idle, Socket
<1>2. RowsExist
    BY DEF RowsExist, Away, Idle
<1>3. StillToCome
    BY DEF StillToCome, Away, Idle
<1> QED
    BY <1>1, <1>2, <1>3 DEF IInv

\* New rows come after everything a socket has, and none is being dispatched.
LEMMA WriteKeeps ==
    ASSUME IInv, NEW w \in Writers, NEW c \in Conversations,
           NEW new \in Seq(Nat), Write(w, c, new), last' \in [Conversations -> Nat]
    PROVE  IInv'
<1> USE OutboxAssumption
<1>1. /\ rows' = [rows EXCEPT ![c] = rows[c] \o new]
      /\ rows[c] \in Seq(Nat)
      /\ UNCHANGED <<marked, pending, batch, pc, cur, todo, socks, faults>>
      /\ unsent' = [unsent EXCEPT ![w] = c]
    BY DEF Write, dispatcher, IInv, TypeOK
<1>2. /\ rows[c] \o new \in Seq(Nat)
      /\ DOMAIN rows[c] \subseteq DOMAIN (rows[c] \o new)
      /\ \A i \in DOMAIN (rows[c] \o new) :
            \/ i \in DOMAIN rows[c] /\ (rows[c] \o new)[i] = rows[c][i]
            \/ \A j \in DOMAIN rows[c] : j < i
    BY <1>1, Appended
<1>3. TypeOK'
    BY <1>1, <1>2 DEF IInv, TypeOK
<1>4. \A d \in Conversations : Rows(d) \subseteq Rows(d)'
    BY <1>1, <1>2 DEF Rows, IInv, TypeOK
<1>5. RowsExist'
  <2>1. (pc = "publish" => todo \subseteq Rows(cur) \ marked[cur])'
      BY <1>1, <1>4 DEF IInv, RowsExist
  <2> QED
      BY <1>1, <1>4, <2>1 DEF IInv, RowsExist, TypeOK
<1>6. StillToCome'
  <2> SUFFICES ASSUME NEW s \in Sockets, (socks[s].at = "replaying")',
                      NEW j \in (After(s) \ Got(s))'
               PROVE  (/\ j \notin marked[ConvOf[s]]
                       /\ Dispatching(ConvOf[s]) => j \in todo
                       /\ \A i \in socks[s].live : i < j)'
      BY DEF StillToCome
  <2> DEFINE d == ConvOf[s]
  <2>1. d \in Conversations
      OBVIOUS
  <2>2. socks' = socks /\ marked' = marked /\ todo' = todo /\ pc' = pc /\ cur' = cur
      BY <1>1
  <2>3. CASE j \in After(s)
    <3>1. j \in After(s) \ Got(s)
        BY <2>2, <2>3 DEF Got
    <3> QED
        BY <2>2, <3>1 DEF IInv, StillToCome, Dispatching
  <2>4. CASE j \notin After(s)
    <3>1. j \in DOMAIN rows'[d] /\ rows'[d][j] > socks[s].after
        BY <2>2 DEF After, Rows
    <3>2. d = c
        BY <1>1, <2>1, <2>4, <3>1 DEF After, Rows, IInv, TypeOK
    <3>3. rows'[d] = rows[c] \o new
        BY <1>1, <3>2 DEF IInv, TypeOK
    <3>4. \A i \in Rows(d) : i < j
        BY <1>2, <2>4, <3>1, <3>2, <3>3 DEF After, Rows
    <3>5. j \notin Rows(d)
        BY <1>1, <3>2, <3>4 DEF Rows
    <3>6. marked[d] \subseteq Rows(d) /\ socks[s].live \subseteq Rows(d)
        BY <2>1 DEF IInv, RowsExist
    <3>7. ~Dispatching(d)
        BY <3>2 DEF Write
    <3> QED
        BY <2>2, <3>4, <3>5, <3>6, <3>7 DEF Dispatching
  <2> QED
      BY <2>3, <2>4
<1> QED
    BY <1>3, <1>5, <1>6 DEF IInv

\* Steps that touch neither rows nor sockets, and end no dispatch with rows
\* unpublished, keep what is still to come.
LEMMA QuietKeeps ==
    ASSUME IInv, UNCHANGED <<rows, marked, socks>>, TypeOK', RowsExist',
           pc' = "publish" => pc = "publish" /\ cur' = cur /\ todo' = todo
    PROVE  IInv'
<1>1. StillToCome'
    BY DEF IInv, StillToCome, After, Got, Rows, Dispatching
<1> QED
    BY <1>1 DEF IInv

\* The steps of the thread between two dispatches, and a signal, are quiet.
LEMMA ThreadKeeps ==
    ASSUME IInv,
           \/ TakeBatch \/ NextOfBatch \/ OpenCatalog \/ CatalogFails
           \/ Observed \/ DispatchFails \/ Retry
           \/ \E w \in Writers : Signal(w)
    PROVE  IInv'
<1> USE OutboxAssumption
<1>1. UNCHANGED <<rows, marked, socks>>
    BY DEF TakeBatch, NextOfBatch, OpenCatalog, CatalogFails, Observed, DispatchFails,
           Retry, Signal, transcript
<1>2. pc' = "publish" => pc = "publish" /\ cur' = cur /\ todo' = todo
    BY DEF TakeBatch, NextOfBatch, OpenCatalog, CatalogFails, Observed, DispatchFails,
           Retry, Signal, transcript
<1>3. TypeOK'
  <2>1. CASE TakeBatch \/ NextOfBatch \/ OpenCatalog \/ Observed
      BY <2>1 DEF IInv, TypeOK, TakeBatch, NextOfBatch, OpenCatalog, Observed, transcript
  <2>2. CASE CatalogFails \/ DispatchFails
    <3>1. faults' \in Nat
        BY <2>2 DEF IInv, TypeOK, CatalogFails, DispatchFails, Fault
    <3> QED
      BY <2>2, <3>1 DEF IInv, TypeOK, CatalogFails, DispatchFails, transcript
  <2>3. CASE Retry
      BY <2>3 DEF IInv, TypeOK, RowsExist, Retry, transcript
  <2>4. ASSUME NEW w \in Writers, Signal(w) PROVE TypeOK'
    <3>1. unsent[w] \in Conversations
        BY <2>4 DEF Signal, IInv, TypeOK
    <3> QED
        BY <2>4, <3>1 DEF IInv, TypeOK, Signal, transcript
  <2> QED
      BY <2>1, <2>2, <2>3, <2>4
<1>4. RowsExist'
    BY DEF IInv, TypeOK, RowsExist, Rows, TakeBatch, NextOfBatch, OpenCatalog, CatalogFails,
           Observed, DispatchFails, Retry, Signal, transcript
<1> QED
    BY <1>1, <1>2, <1>3, <1>4, QuietKeeps

\* A dispatch selects every row that is not marked.
LEMMA SelectKeeps ==
    ASSUME IInv, Select
    PROVE  IInv'
<1> USE OutboxAssumption DEF Select, transcript
<1>1. cur \in Conversations
    BY DEF IInv, RowsExist
<1>2. todo' = Rows(cur) \ marked[cur]
    BY DEF Selected
<1>3. TypeOK'
    BY <1>1, <1>2 DEF IInv, TypeOK, Rows
<1>4. RowsExist'
    BY <1>1, <1>2 DEF IInv, RowsExist, Rows
<1>5. StillToCome'
    BY <1>1, <1>2 DEF IInv, StillToCome, After, Got, Rows, Dispatching
<1> QED
    BY <1>3, <1>4, <1>5 DEF IInv

\* What is published is what the sockets that miss it miss first.
LEMMA PublishKeeps ==
    ASSUME IInv, Publish
    PROVE  IInv'
<1> USE OutboxAssumption DEF Publish, transcript
<1> DEFINE n == NextRow
<1>1. n \in todo /\ \A j \in todo : n <= j
    BY FirstRow DEF IInv, TypeOK
<1>2. cur \in Conversations /\ todo \subseteq Rows(cur) \ marked[cur] /\ n \in Nat
    BY <1>1 DEF IInv, RowsExist, TypeOK
<1>3. \A s \in Sockets :
         IF Registered(s) /\ ConvOf[s] = cur
         THEN socks'[s] = [socks[s] EXCEPT !.live = @ \cup {n}]
         ELSE socks'[s] = socks[s]
    OBVIOUS
<1>4. TypeOK'
    BY <1>2 DEF IInv, TypeOK, Socket
<1>5. RowsExist'
    BY <1>1, <1>2 DEF IInv, RowsExist, TypeOK, Socket, Rows
<1>6. StillToCome'
  <2> SUFFICES ASSUME NEW s \in Sockets, (socks[s].at = "replaying")',
                      NEW j \in (After(s) \ Got(s))'
               PROVE  (/\ j \notin marked[ConvOf[s]]
                       /\ Dispatching(ConvOf[s]) => j \in todo
                       /\ \A i \in socks[s].live : i < j)'
      BY DEF StillToCome
  <2>1. socks[s] \in Socket
      BY DEF IInv, TypeOK
  <2>2. socks[s].at = "replaying" /\ j \in After(s) \ Got(s)
      BY <1>3, <2>1 DEF Socket, After, Got, Rows
  <2>3. /\ j \notin marked[ConvOf[s]]
        /\ Dispatching(ConvOf[s]) => j \in todo
        /\ \A i \in socks[s].live : i < j
      BY <2>2 DEF IInv, StillToCome
  <2>4. CASE ConvOf[s] = cur
    <3>1. socks'[s] = [socks[s] EXCEPT !.live = @ \cup {n}]
        BY <1>3, <2>2, <2>4 DEF Registered
    <3>2. j # n
        BY <2>1, <3>1 DEF Got, Socket
    <3>3. j \in todo
        BY <2>3, <2>4 DEF Dispatching
    <3>4. n < j
        BY <1>1, <1>2, <3>2, <3>3 DEF IInv, TypeOK
    <3> QED
        BY <2>1, <2>3, <3>1, <3>2, <3>3, <3>4 DEF Socket, Dispatching
  <2>5. CASE ConvOf[s] # cur
    <3>1. socks'[s] = socks[s] /\ ~Dispatching(ConvOf[s])'
        BY <1>3, <2>5 DEF Dispatching
    <3> QED
        BY <2>3, <3>1
  <2> QED
      BY <2>4, <2>5
<1> QED
    BY <1>4, <1>5, <1>6 DEF IInv

\* What a socket misses is not published yet, so it is not marked.
LEMMA CommitKeeps ==
    ASSUME IInv, Commit
    PROVE  IInv'
<1> USE OutboxAssumption DEF Commit, transcript
<1>1. cur \in Conversations
    BY DEF IInv, RowsExist
<1>2. TypeOK'
    BY <1>1 DEF IInv, TypeOK, Rows
<1>3. RowsExist'
    BY <1>1 DEF IInv, RowsExist, Rows, TypeOK
<1>4. StillToCome'
    BY <1>1 DEF IInv, StillToCome, After, Got, Rows, Dispatching, TypeOK
<1> QED
    BY <1>2, <1>3, <1>4 DEF IInv

\* The replay holds all that was asked for, so nothing is missed when it is read.
LEMMA SocketKeeps ==
    ASSUME IInv, NEW s \in Sockets, Connect(s) \/ ReadReplay(s) \/ Disconnect(s)
    PROVE  IInv'
<1> USE OutboxAssumption
<1>1. UNCHANGED <<transcript, unsent, dispatcher, faults>>
    BY DEF Connect, ReadReplay, Disconnect
<1>2. /\ rows' = rows /\ marked' = marked /\ last' = last /\ unsent' = unsent
      /\ pending' = pending /\ batch' = batch /\ pc' = pc /\ cur' = cur /\ todo' = todo
      /\ faults' = faults
    BY <1>1 DEF transcript, dispatcher
<1> DEFINE new == socks'[s]
<1>3. /\ new \in Socket
      /\ new.live \subseteq socks[s].live
      /\ new.at = "replaying" => /\ new.replay = After(s)
                                 /\ new.after = socks[s].after
  <2>1. socks \in [Sockets -> Socket] /\ socks[s] \in Socket
      BY DEF IInv, TypeOK
  <2>2. CASE Connect(s)
    <3>1. PICK after \in 0 .. last[ConvOf[s]] :
             socks' = [socks EXCEPT ![s] = Idle("registered", after)]
        BY <2>2 DEF Connect
    <3>2. last[ConvOf[s]] \in Nat
        BY DEF IInv, TypeOK
    <3>3. after \in Nat /\ new = Idle("registered", after)
        BY <2>1, <3>1, <3>2
    <3> QED
        BY <3>3 DEF Idle, Socket
  <2>3. CASE ReadReplay(s)
    <3>1. After(s) \in SUBSET Nat
        BY DEF After, Rows, IInv, TypeOK
    <3>2. new = [socks[s] EXCEPT !.at = "replaying", !.replay = After(s)]
        BY <2>1, <2>3 DEF ReadReplay
    <3> QED
        BY <2>1, <3>1, <3>2 DEF Socket
  <2>4. CASE Disconnect(s)
    <3>1. new = Gone
        BY <2>1, <2>4 DEF Disconnect
    <3> QED
        BY <3>1 DEF Gone, Idle, Socket
  <2> QED
      BY <2>2, <2>3, <2>4
<1>4. /\ socks' \in [Sockets -> Socket]
      /\ \A t \in Sockets \ {s} : socks'[t] = socks[t]
  <2>1. PICK x : socks' = [socks EXCEPT ![s] = x]
      BY DEF Connect, ReadReplay, Disconnect
  <2> QED
      BY <1>3, <2>1 DEF IInv, TypeOK
<1>5. TypeOK'
    BY <1>2, <1>4 DEF IInv, TypeOK
<1>6. RowsExist'
    BY <1>2, <1>3, <1>4 DEF IInv, RowsExist, Rows
<1>7. StillToCome'
  <2> SUFFICES ASSUME NEW t \in Sockets, (socks[t].at = "replaying")',
                      NEW j \in (After(t) \ Got(t))'
               PROVE  (/\ j \notin marked[ConvOf[t]]
                       /\ Dispatching(ConvOf[t]) => j \in todo
                       /\ \A i \in socks[t].live : i < j)'
      BY DEF StillToCome
  <2>1. CASE t = s
      BY <1>2, <1>3, <1>4, <2>1 DEF After, Got, Rows
  <2>2. CASE t # s
      BY <1>2, <1>4, <2>2 DEF IInv, StillToCome, After, Got, Rows, Dispatching
  <2> QED
      BY <2>1, <2>2
<1> QED
    BY <1>5, <1>6, <1>7 DEF IInv

\* No socket survives a restart.
LEMMA RestartKeeps ==
    ASSUME IInv, Restart
    PROVE  IInv'
<1> USE OutboxAssumption DEF Restart, transcript
<1>1. TypeOK'
  <2>1. faults' \in Nat
      BY DEF IInv, TypeOK, Fault
  <2>2. Gone \in Socket
      BY DEF Gone, Idle, Socket
  <2>3. socks' \in [Sockets -> Socket]
      BY <2>2 DEF IInv, TypeOK
  <2> QED
      BY <2>1, <2>3 DEF IInv, TypeOK
<1>2. RowsExist'
    BY DEF IInv, RowsExist, Rows, Gone, Idle
<1>3. StillToCome'
    BY DEF StillToCome, Registered, Gone, Idle
<1> QED
    BY <1>1, <1>2, <1>3 DEF IInv

\* A stuttering step keeps everything.
LEMMA Stutter ==
    ASSUME IInv, UNCHANGED vars
    PROVE  IInv'
BY DEF IInv, TypeOK, RowsExist, StillToCome, After, Got, Rows, Dispatching, vars, transcript,
       dispatcher

\* One case per action, by the lemmas above.
LEMMA StepIInv == IInv /\ [Next]_vars => IInv'
<1> SUFFICES ASSUME IInv, [Next]_vars PROVE IInv'
    OBVIOUS
<1>1. ASSUME NEW w \in Writers, NEW c \in Conversations, WriteMessage(w, c)
      PROVE  IInv'
  <2>1. last[c] + 1 \in Nat /\ last' \in [Conversations -> Nat]
      BY <1>1 DEF WriteMessage, IInv, TypeOK
  <2>2. <<last[c] + 1, last[c] + 1>> \in Seq(Nat)
      BY <2>1
  <2> QED
      BY <1>1, <2>1, <2>2, WriteKeeps DEF WriteMessage
<1>2. ASSUME NEW w \in Writers, NEW c \in Conversations, WriteNotice(w, c)
      PROVE  IInv'
  <2>1. last' \in [Conversations -> Nat]
      BY <1>2 DEF WriteNotice, IInv, TypeOK
  <2>2. PICK new \in {<<>>, <<0>>} : Write(w, c, new)
      BY <1>2 DEF WriteNotice
  <2>3. <<>> \in Seq(Nat) /\ <<0>> \in Seq(Nat)
      OBVIOUS
  <2> QED
      BY <2>1, <2>2, <2>3, WriteKeeps
<1>3. CASE \/ TakeBatch \/ NextOfBatch \/ OpenCatalog \/ CatalogFails
           \/ Observed \/ DispatchFails \/ Retry
           \/ \E w \in Writers : Signal(w)
    BY <1>3, ThreadKeeps
<1>4. CASE Select
    BY <1>4, SelectKeeps
<1>5. CASE Publish
    BY <1>5, PublishKeeps
<1>6. CASE Commit
    BY <1>6, CommitKeeps
<1>7. ASSUME NEW s \in Sockets, Connect(s) \/ ReadReplay(s) \/ Disconnect(s)
      PROVE  IInv'
    BY <1>7, SocketKeeps
<1>8. CASE Restart
    BY <1>8, RestartKeeps
<1>9. CASE UNCHANGED vars
    BY <1>9, Stutter
<1> QED
    BY <1>1, <1>2, <1>3, <1>4, <1>5, <1>6, <1>7, <1>8, <1>9 DEF Next, DispatcherStep

\* Types, existing rows and what is still to come form an inductive invariant.
THEOREM Invariance == Spec => []IInv
BY InitIInv, StepIInv, PTL DEF Spec

\* Rows, thread and sockets have their types in every reachable state.
THEOREM TypeCorrect == Spec => []TypeOK
BY Invariance, PTL DEF IInv

\* Registering before the replay is read leaves no gap (conversation_events).
THEOREM NoGaps == Spec => []NoGapAfterReplay
<1>1. IInv => NoGapAfterReplay
    BY DEF IInv, StillToCome, NoGapAfterReplay
<1> QED
    BY <1>1, Invariance, PTL

\* No live event overtakes one that was written earlier, also when a failed
\* dispatch is repeated (dispatch_pending_outbox).
THEOREM InOrder == Spec => []NoOvertaking
<1>1. IInv => NoOvertaking
  <2> SUFFICES ASSUME IInv, NEW s \in Sockets, socks[s].at = "replaying",
                      NEW i \in socks[s].live, NEW j \in After(s), j < i, j \notin Got(s)
               PROVE  FALSE
      BY DEF NoOvertaking
  <2>1. i < j
      BY DEF IInv, StillToCome
  <2>2. socks[s] \in Socket /\ rows[ConvOf[s]] \in Seq(Nat)
      BY OutboxAssumption DEF IInv, TypeOK
  <2>3. i \in Nat /\ j \in Nat
      BY <2>2 DEF Socket, After, Rows
  <2> QED
      BY <2>1, <2>3
<1> QED
    BY <1>1, Invariance, PTL

\* Only a publication adds to what a socket was sent live, and only its row.
LEMMA LiveGrows ==
    ASSUME IInv, [Next]_vars, NEW s \in Sockets, Registered(s)
    PROVE  \/ socks'[s].live \subseteq socks[s].live
           \/ /\ pc = "publish" /\ todo # {} /\ ConvOf[s] = cur
              /\ socks'[s].live = socks[s].live \cup {NextRow}
<1> DEFINE Goal == \/ socks'[s].live \subseteq socks[s].live
                   \/ /\ pc = "publish" /\ todo # {} /\ ConvOf[s] = cur
                      /\ socks'[s].live = socks[s].live \cup {NextRow}
<1>1. socks \in [Sockets -> Socket] /\ socks[s] \in Socket
    BY DEF IInv, TypeOK
<1>2. ASSUME NEW t \in Sockets, Connect(t) \/ ReadReplay(t) \/ Disconnect(t) PROVE Goal
  <2>1. CASE t # s
      BY <1>1, <1>2, <2>1 DEF Connect, ReadReplay, Disconnect
  <2>2. CASE t = s
      BY <1>1, <1>2, <2>2 DEF Connect, ReadReplay, Disconnect, Registered, Idle, Gone, Socket
  <2> QED
      BY <2>1, <2>2
<1>3. CASE Publish
    BY <1>1, <1>3 DEF Publish, Socket
<1>4. CASE Restart
    BY <1>1, <1>4 DEF Restart, Gone, Idle
<1>5. CASE UNCHANGED socks
    BY <1>5
<1> QED
    BY <1>2, <1>3, <1>4, <1>5
       DEF Next, DispatcherStep, WriteMessage, WriteNotice, Write, Signal, TakeBatch,
           NextOfBatch, OpenCatalog, CatalogFails, DispatchFails, Select, Commit, Observed,
           Retry, vars

\* dispatch_pending_outbox selects inside the transaction that marks, so a row
\* is handed to nobody after it has been marked, whoever signals again.
THEOREM NotRepublished == Spec => MarkedIsNotRepublished
<1>1. ASSUME IInv, [Next]_vars, NEW s \in Sockets, Registered(s)
      PROVE  (socks'[s].live \ socks[s].live) \cap marked[ConvOf[s]] = {}
  <2>1. pc = "publish" /\ todo # {} => NextRow \in todo
      BY <1>1, FirstRow DEF IInv, TypeOK
  <2>2. pc = "publish" => todo \cap marked[cur] = {}
      BY <1>1 DEF IInv, RowsExist
  <2> QED
      BY <1>1, <2>1, <2>2, LiveGrows
<1>2. IInv /\ [Next]_vars
          => [\A s \in Sockets :
                 Registered(s) => (socks'[s].live \ socks[s].live) \cap marked[ConvOf[s]] = {}]_vars
    BY <1>1
<1> QED
    BY <1>2, Invariance, PTL DEF Spec, MarkedIsNotRepublished
=============================================================================
