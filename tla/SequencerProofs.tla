-------------------------- MODULE SequencerProofs ---------------------------
(***************************************************************************)
(* Proofs about Sequencer for every number of requests, keys and agents:   *)
(* IInv is inductive, the safety properties follow from it, and every step *)
(* is one of MessageLog or a stutter.                                      *)
(***************************************************************************)
EXTENDS SequencerInv, FiniteSetTheorems, TLAPS

\* MAX over the rows numbered 1 to n is n, also when there is no row.
LEMMA MaxPrefix ==
    ASSUME NEW n \in Nat
    PROVE  Max((1..n) \cup {0}) = n
<1> DEFINE S == (1..n) \cup {0}
           IsMax(x) == \A y \in S : x >= y
<1>1. n \in S /\ IsMax(n)
    OBVIOUS
<1>2. \A x \in S : IsMax(x) => x = n
    OBVIOUS
<1>3. Max(S) \in S /\ IsMax(Max(S))
    BY <1>1 DEF Max
<1> QED
    BY <1>2, <1>3

\* MAX of two hop counts is one of them and bounds both.
LEMMA MaxPair ==
    ASSUME NEW i \in Nat, NEW j \in Nat
    PROVE  /\ Max({i, j}) \in {i, j} /\ Max({i, j}) \in Nat
           /\ Max({i, j}) >= i /\ Max({i, j}) >= j
<1> DEFINE S == {i, j}
           IsMax(x) == \A y \in S : x >= y
<1>1. \E x \in S : IsMax(x)
    OBVIOUS
<1>2. Max(S) \in S /\ IsMax(Max(S))
    BY <1>1 DEF Max
<1> QED
    BY <1>2

\* The latest revision and its snapshot belong to the last message.
LEMMA LatestRevision ==
    ASSUME Numbering
    PROVE  LastRev = LastSeq /\ Snapshot = 1..LastSeq
<1>1. LastRev = LastSeq
    BY MaxPrefix DEF Numbering, LastRev
<1>2. \A v \in revisions : v.rev = LastRev => v.refs = 1..LastSeq
    BY <1>1 DEF Numbering
<1>3. LastSeq > 0 => \E v \in revisions : v.rev = LastSeq
  <2>1. ASSUME LastSeq > 0 PROVE LastSeq \in {v.rev : v \in revisions}
      BY <2>1 DEF Numbering
  <2> QED
      BY <2>1
<1>4. LastSeq = 0 => revisions = {}
  <2>1. ASSUME LastSeq = 0, NEW v \in revisions PROVE FALSE
    <3>1. v.rev \in 1..LastSeq
        BY DEF Numbering
    <3> QED
        BY <3>1, <2>1
  <2> QED
      BY <2>1
<1>5. LastSeq \in Nat
    BY DEF Numbering
<1>6. ASSUME LastSeq > 0 PROVE Snapshot = 1..LastSeq
  <2>1. PICK v \in revisions : v.rev = LastSeq
      BY <1>3, <1>6
  <2> QED
      BY <1>1, <1>2, <2>1 DEF Snapshot
<1>7. ASSUME LastSeq = 0 PROVE Snapshot = 1..LastSeq
    BY <1>4, <1>7 DEF Snapshot
<1> QED
    BY <1>1, <1>5, <1>6, <1>7
-----------------------------------------------------------------------------
(* Steps *)

\* Only the final transaction writes messages and revisions.
LEMMA OnlyCommitWrites ==
    ASSUME [Next]_vars
    PROVE  \/ UNCHANGED <<messages, revisions>>
           \/ \E r \in Requests : FinalCommit(r)
BY DEF Next, Handle, vars, db, UserPost, RetryPost, RetryUnknown, AgentPost, Arrive,
       PrepareRefuse, PrepareReplay, PreparePending, ProjectionDone,
       ProjectionError, ProjectionFailed, FinalStartOver, FinalStale,
       FinalIntegrityError, Respond, Crash

\* The final transaction adds message and revision number LastSeq + 1, and its
\* snapshot references all messages because the checkpoint is current.
LEMMA CommitAppends ==
    ASSUME Numbering, TypeOK, Checkpoints, NEW r \in Requests, FinalCommit(r)
    PROVE  /\ LastSeq' = LastSeq + 1
           /\ Numbering'
<1> DEFINE n == LastSeq + 1
           m == [seq |-> n, key |-> req[r].key, body |-> req[r].body,
                 sender |-> req[r].sender, rev |-> ckpt[r].rev + 1]
           v == [rev |-> ckpt[r].rev + 1, covered |-> n,
                 refs |-> ckpt[r].refs \cup {n}]
<1>1. messages' = messages \cup {m} /\ revisions' = revisions \cup {v}
    BY DEF FinalCommit, CommitRows
<1>2. LastSeq \in Nat /\ Seqs = 1..LastSeq
    BY DEF Numbering
<1>3. ckpt[r].rev = LastSeq /\ ckpt[r].refs = 1..LastSeq
    BY DEF FinalCommit, CheckpointCurrent, Checkpoints, Prepared
<1>4. Seqs' = 1..n
  <2>1. Seqs' = Seqs \cup {m.seq}
      BY <1>1 DEF Seqs
  <2> QED
      BY <1>2, <2>1
<1>5. LastSeq' = n
    BY <1>2, <1>4, MaxPrefix DEF LastSeq, Seqs
<1>6. {w.rev : w \in revisions}' = 1..n
  <2>1. {w.rev : w \in revisions}' = {w.rev : w \in revisions} \cup {v.rev}
      BY <1>1
  <2>2. v.rev = n
      BY <1>3
  <2>3. {w.rev : w \in revisions} = 1..LastSeq
      BY DEF Numbering
  <2>4. (1..LastSeq) \cup {n} = 1..n
      BY <1>2
  <2> HIDE DEF v, n
  <2> QED
      BY <2>1, <2>2, <2>3, <2>4
<1>7. \A x \in messages' : x.rev = x.seq
    BY <1>1, <1>3 DEF Numbering
<1>8. \A w \in revisions' : w.covered = w.rev /\ w.refs = 1..w.rev
  <2>1. v.covered = v.rev /\ v.refs = 1..v.rev
      BY <1>2, <1>3
  <2> QED
      BY <1>1, <2>1 DEF Numbering
<1>9. \A x, y \in messages' : (x.seq = y.seq \/ x.key = y.key) => x = y
  <2>1. \A x \in messages : x.seq # m.seq /\ x.key # m.key
      BY DEF FinalCommit, Storable
  <2> QED
      BY <1>1, <2>1 DEF Numbering
<1> QED
    BY <1>2, <1>4, <1>5, <1>6, <1>7, <1>8, <1>9 DEF Numbering

\* The transcript only grows.
LEMMA TranscriptGrows ==
    ASSUME TypeOK, Numbering, Checkpoints, [Next]_vars
    PROVE  /\ Numbering'
           /\ messages \subseteq messages'
           /\ LastSeq <= LastSeq'
<1>1. CASE UNCHANGED <<messages, revisions>>
  <2>1. LastSeq' = LastSeq /\ Seqs' = Seqs
      BY <1>1 DEF LastSeq, Seqs
  <2> QED
      BY <1>1, <2>1 DEF Numbering
<1>2. CASE \E r \in Requests : FinalCommit(r)
  <2>1. PICK r \in Requests : FinalCommit(r)
      BY <1>2
  <2>2. LastSeq' = LastSeq + 1 /\ Numbering'
      BY <2>1, CommitAppends
  <2>3. messages \subseteq messages'
      BY <2>1 DEF FinalCommit, CommitRows
  <2> QED
      BY <2>2, <2>3 DEF Numbering
<1> QED
    BY <1>1, <1>2, OnlyCommitWrites
-----------------------------------------------------------------------------
(* Types *)

\* Values the actions compute have the types of the variables they go to.
LEMMA ValueTypes ==
    ASSUME TypeOK, Numbering
    PROVE  /\ LastSeq \in Nat /\ LastRev \in Nat /\ Snapshot \subseteq Nat
           /\ \A c \in Refusals : Refused(c) \in Answer
           /\ \A n \in Nat : Ok(n) \in Answer
           /\ \A p \in Payload : RequestHash(p) \in Hash
           /\ \A p \in Payload : Refusal(p) \in Refusals \cup {"none"}
BY LatestRevision DEF Numbering, Answer, Refused, Ok, RequestHash, Hash, Payload,
   Refusal, Refusals

\* What a run is about has the declared types.
LEMMA RunTypes ==
    ASSUME NEW run \in Runs
    PROVE  /\ RunOf[run].agent \in Agents /\ RunOf[run].episode \in Episodes
           /\ RunOf[run].hop \in Nat /\ RunOf[run].body \in Bodies
BY SequencerAssumption

\* record_episode_budget writes a well-formed ledger row.
LEMMA BudgetType ==
    ASSUME NEW row \in Budget, NEW a \in Agents, NEW hop \in Nat
    PROVE  BudgetAfter(row, a, hop) \in Budget
<1>1. Max({row.hop, hop}) \in Nat
    BY MaxPair DEF Budget
<1>2. [row.by EXCEPT ![a] = @ + 1] \in [Agents -> Nat]
    BY DEF Budget
<1> QED
    BY <1>1, <1>2 DEF BudgetAfter, Budget

\* A request arrives with a payload.
LEMMA ArriveType ==
    ASSUME TypeOK, NEW r \in Requests, NEW p \in Payload, Arrive(r, p)
    PROVE  TypeOK'
BY DEF Arrive, TypeOK, db, InFlight

\* A refusal is a well-formed answer.
LEMMA RejectType ==
    ASSUME TypeOK, NEW r \in Requests, NEW c \in Refusals, Reject(r, c)
    PROVE  /\ pc' \in [Requests -> InFlight \cup {"idle", "done", "lost"}]
           /\ answer' \in [Requests -> Answer]
BY DEF Reject, TypeOK, Answer, Refused

\* The failure update keeps submissions well-formed.
LEMMA FailedType ==
    ASSUME TypeOK, NEW k \in Keys, MarkSubmissionFailed(k)
    PROVE  submissions' \in [Keys -> Submission]
BY DEF MarkSubmissionFailed, TypeOK, Submission

\* Handlers past "idle" hold a payload.
LEMMA HasPayload ==
    ASSUME TypeOK, Replies, NEW r \in Requests, pc[r] \in InFlight
    PROVE  req[r] \in Payload
BY DEF TypeOK, Replies

\* The rows of the final transaction are well-formed.
LEMMA CommitType ==
    ASSUME TypeOK, Numbering, Replies, NEW r \in Requests, FinalCommit(r),
           req[r].sender \in Agents => req[r].key \in Runs
    PROVE  TypeOK'
<1> DEFINE p == req[r]
           n == LastSeq + 1
<1>1. p \in Payload /\ n \in Nat /\ ckpt[r] \in Checkpoint
  <2>1. p \in Payload
      BY HasPayload DEF FinalCommit, InFlight
  <2> QED
      BY <2>1, ValueTypes DEF TypeOK
<1>2. p.key \in Keys /\ p.body \in Bodies /\ p.sender \in Senders
    BY <1>1 DEF Payload
<1>3. ckpt[r].rev + 1 \in Nat /\ ckpt[r].refs \cup {n} \subseteq Nat
    BY <1>1 DEF Checkpoint
<1>4. messages' \in SUBSET Message
    BY <1>1, <1>2, <1>3 DEF FinalCommit, CommitRows, TypeOK, Message
<1>5. revisions' \in SUBSET Revision
    BY <1>1, <1>3 DEF FinalCommit, CommitRows, TypeOK, Revision
<1>6. submissions' \in [Keys -> Submission]
    BY <1>1, <1>2 DEF FinalCommit, CommitRows, TypeOK, Submission
<1>7. outbox' \in Seq(OutboxRow)
  <2> DEFINE rows ==
          <<[type |-> "submission.status_changed", key |-> p.key, seq |-> 0],
            [type |-> "message.committed", key |-> p.key, seq |-> n],
            [type |-> "cp.revision_committed", key |-> p.key, seq |-> n]>>
  <2>1. rows \in Seq(OutboxRow)
      BY <1>1, <1>2 DEF OutboxRow
  <2>2. outbox' = outbox \o rows
      BY DEF FinalCommit, CommitRows
  <2> HIDE DEF rows
  <2> QED
      BY <2>1, <2>2 DEF TypeOK
<1>8. ledger' \in [Episodes -> Budget]
  <2>1. CASE p.sender \in Agents
    <3> DEFINE e == RunOf[p.key].episode
    <3>1. p.key \in Runs /\ e \in Episodes /\ RunOf[p.key].hop \in Nat
        BY <2>1, RunTypes
    <3>2. BudgetAfter(ledger[e], p.sender, RunOf[p.key].hop) \in Budget
        BY <2>1, <3>1, BudgetType DEF TypeOK
    <3>3. ledger' = [ledger EXCEPT
                        ![e] = BudgetAfter(ledger[e], p.sender, RunOf[p.key].hop)]
        BY <2>1 DEF FinalCommit, RecordBudget
    <3> QED
        BY <3>2, <3>3 DEF TypeOK
  <2>2. CASE p.sender \notin Agents
      BY <2>2 DEF FinalCommit, RecordBudget, TypeOK
  <2> QED
      BY <2>1, <2>2
<1>9. /\ pc' \in [Requests -> InFlight \cup {"idle", "done", "lost"}]
      /\ result' \in [Requests -> Nat]
      /\ UNCHANGED <<req, ckpt, answer, feed>>
    BY <1>1 DEF FinalCommit, TypeOK, InFlight
<1> QED
    BY <1>4, <1>5, <1>6, <1>7, <1>8, <1>9 DEF TypeOK

\* Browser keys belong to the user, so an agent request is about a run.
LEMMA AgentKeys ==
    ASSUME TypeOK, Requesters, NEW r \in Requests, req[r] \in Payload,
           req[r].sender \in Agents
    PROVE  req[r].key \in Runs
BY SequencerAssumption DEF Requesters, Payload, Keys

\* What an arriving request asks for.
LEMMA ArrivedPayload ==
    ASSUME TypeOK, Numbering, NEW r \in Requests,
           UserPost(r) \/ RetryPost(r) \/ AgentPost(r)
    PROVE  /\ req'[r] \in Payload
           /\ submissions' = submissions
           /\ \/ /\ req'[r].key \in UserKeys /\ req'[r].sender = User
                 /\ req'[r].expected = AnySeq
              \/ /\ submissions[req'[r].key].hash # {} /\ req'[r].sender = User
                 /\ req'[r].expected = AnySeq
              \/ /\ req'[r].key \in Runs
                 /\ RequestHash(req'[r]) = RunHash(req'[r].key)
                 /\ req'[r].expected \in Nat
<1>0. \A p : Arrive(r, p) => req'[r] = p /\ submissions' = submissions
    BY DEF Arrive, TypeOK, db
<1>1. CASE UserPost(r)
    BY <1>0, <1>1 DEF UserPost, Payload, Keys, Senders
<1>2. CASE RetryPost(r)
  <2>1. PICK k \in Keys : \E h \in submissions[k].hash :
            Arrive(r, [key |-> k, body |-> h.body, sender |-> User, expected |-> AnySeq])
      BY <1>2 DEF RetryPost
  <2>2. PICK h \in submissions[k].hash :
            Arrive(r, [key |-> k, body |-> h.body, sender |-> User, expected |-> AnySeq])
      BY <2>1
  <2>3. h.body \in Bodies
      BY DEF TypeOK, Submission, Hash
  <2> QED
      BY <1>0, <2>2, <2>3 DEF Payload, Senders
<1>3. CASE AgentPost(r)
  <2>1. PICK run \in Runs, n \in 0..LastSeq :
            Arrive(r, [key |-> run, body |-> RunOf[run].body,
                       sender |-> RunOf[run].agent, expected |-> n])
      BY <1>3 DEF AgentPost
  <2>2. n \in Nat
      BY ValueTypes
  <2> QED
      BY <1>0, <2>1, <2>2, RunTypes DEF Payload, Keys, Senders, RequestHash, RunHash
<1> QED
    BY <1>1, <1>2, <1>3

\* Every step preserves the types.
LEMMA TypeStep ==
    ASSUME IInv, [Next]_vars
    PROVE  TypeOK'
<1> USE DEF IInv
<1>1. CASE UNCHANGED vars
    BY <1>1 DEF vars, TypeOK
<1>2. ASSUME NEW r \in Requests, UserPost(r) PROVE TypeOK'
  <2>1. PICK k \in UserKeys, b \in Bodies :
            Arrive(r, [key |-> k, body |-> b, sender |-> User, expected |-> AnySeq])
      BY <1>2 DEF UserPost
  <2> QED
      BY <2>1, ArriveType DEF Payload, Keys, Senders
<1>3. ASSUME NEW r \in Requests, RetryPost(r) PROVE TypeOK'
  <2>1. PICK k \in Keys : \E h \in submissions[k].hash :
            Arrive(r, [key |-> k, body |-> h.body, sender |-> User, expected |-> AnySeq])
      BY <1>3 DEF RetryPost
  <2>2. PICK h \in submissions[k].hash :
            Arrive(r, [key |-> k, body |-> h.body, sender |-> User, expected |-> AnySeq])
      BY <2>1
  <2>3. h.body \in Bodies
      BY DEF TypeOK, Submission, Hash
  <2> QED
      BY <2>2, <2>3, ArriveType DEF Payload, Senders
<1>4. ASSUME NEW r \in Requests, RetryUnknown(r) PROVE TypeOK'
    BY <1>4 DEF RetryUnknown, TypeOK, db, Answer, Refused, Refusals
<1>5. ASSUME NEW r \in Requests, AgentPost(r) PROVE TypeOK'
  <2>1. PICK run \in Runs, n \in 0..LastSeq :
            Arrive(r, [key |-> run, body |-> RunOf[run].body,
                       sender |-> RunOf[run].agent, expected |-> n])
      BY <1>5 DEF AgentPost
  <2>2. n \in Nat
      BY ValueTypes
  <2> QED
      BY <2>1, <2>2, RunTypes, ArriveType DEF Payload, Keys, Senders
<1>6. ASSUME NEW r \in Requests, PrepareRefuse(r) PROVE TypeOK'
  <2>1. Refusal(req[r]) \in Refusals /\ Reject(r, Refusal(req[r]))
      BY <1>6, HasPayload, ValueTypes DEF PrepareRefuse, InFlight
  <2> QED
      BY <1>6, <2>1, RejectType DEF PrepareRefuse, TypeOK, db
<1>7. ASSUME NEW r \in Requests, PrepareReplay(r) PROVE TypeOK'
  <2>1. submissions[req[r].key].seq \in Nat
      BY <1>7, HasPayload DEF PrepareReplay, InFlight, Payload, TypeOK, Submission
  <2> QED
      BY <1>7, <2>1 DEF PrepareReplay, TypeOK, db, InFlight
<1>8. ASSUME NEW r \in Requests, PreparePending(r) PROVE TypeOK'
  <2> DEFINE k == req[r].key
             row == [submissions[k] EXCEPT !.status = "pending",
                                           !.hash = {RequestHash(req[r])}]
  <2>1. req[r] \in Payload /\ k \in Keys
      BY <1>8, HasPayload DEF PreparePending, InFlight, Payload
  <2>2. submissions[k] \in Submission /\ RequestHash(req[r]) \in Hash
      BY <2>1, ValueTypes DEF TypeOK
  <2>3. submissions' \in [Keys -> Submission]
      BY <1>8, <2>1, <2>2 DEF PreparePending, TypeOK, Submission
  <2>4. ckpt' \in [Requests -> Checkpoint]
      BY <1>8, ValueTypes DEF PreparePending, TypeOK, Checkpoint
  <2> QED
      BY <1>8, <2>3, <2>4 DEF PreparePending, TypeOK, InFlight
<1>9. ASSUME NEW r \in Requests, ProjectionDone(r) \/ ProjectionError(r) \/ FinalStartOver(r)
      PROVE TypeOK'
    BY <1>9 DEF ProjectionDone, ProjectionError, FinalStartOver, TypeOK, db, InFlight
<1>10. ASSUME NEW r \in Requests, ProjectionFailed(r) \/ FinalStale(r) PROVE TypeOK'
  <2>1. req[r].key \in Keys
      BY <1>10, HasPayload DEF ProjectionFailed, FinalStale, InFlight, Payload
  <2>2. "projection_failed" \in Refusals /\ "projection_stale" \in Refusals
      BY DEF Refusals
  <2> QED
      BY <1>10, <2>1, <2>2, RejectType, FailedType
      DEF ProjectionFailed, FinalStale, TypeOK
<1>11. ASSUME NEW r \in Requests, FinalCommit(r) PROVE TypeOK'
  <2>1. req[r] \in Payload
      BY <1>11, HasPayload DEF FinalCommit, InFlight
  <2> QED
      BY <1>11, <2>1, AgentKeys, CommitType
<1>12. ASSUME NEW r \in Requests, FinalIntegrityError(r) PROVE TypeOK'
  <2>1. "internal_error" \in Refusals
      BY DEF Refusals
  <2> QED
      BY <1>12, <2>1, RejectType DEF FinalIntegrityError, TypeOK, db
<1>13. ASSUME NEW r \in Requests, Respond(r) PROVE TypeOK'
    BY <1>13, ValueTypes DEF Respond, TypeOK, db, InFlight
<1>14. CASE Crash
    BY <1>14 DEF Crash, TypeOK, db, InFlight
<1> QED
    BY <1>1, <1>2, <1>3, <1>4, <1>5, <1>6, <1>7, <1>8, <1>9, <1>10, <1>11, <1>12,
       <1>13, <1>14 DEF Next, Handle
-----------------------------------------------------------------------------
(* What a step may do to one handler, one submission and one message *)

\* A payload, once there, stays; it gets there with an arrival.
RequestStep(r) ==
    \/ /\ req'[r] = req[r]
       /\ pc'[r] = "idle" => pc[r] = "idle"
       /\ pc'[r] \in InFlight => pc[r] \in InFlight
    \/ /\ pc[r] = "idle" /\ pc'[r] = "prepare"
       /\ answer'[r] = answer[r]
       /\ UserPost(r) \/ RetryPost(r) \/ AgentPost(r)

\* A handler between prepare and final holds the checkpoint it has just taken,
\* or the one it had.
PreparedStep(r) ==
    Prepared(r)' =>
        \/ Prepared(r) /\ req'[r] = req[r] /\ ckpt'[r] = ckpt[r]
        \/ PreparePending(r)

\* A handler about to answer "ok" has just found or stored its message, or was
\* about to answer already.
ReplyStep(r) ==
    pc'[r] = "reply" =>
        \/ pc[r] = "reply" /\ req'[r] = req[r] /\ result'[r] = result[r]
        \/ PrepareReplay(r)
        \/ FinalCommit(r)

\* Answers are final.
AnswerStep(r) ==
    \/ answer'[r] = answer[r]
    \/ /\ pc[r] = "reply" /\ pc'[r] = "done" /\ req'[r] = req[r]
       /\ answer'[r] = Ok(result[r])
    \/ pc'[r] = "done" /\ req'[r] = req[r] /\ answer'[r].code # "ok"

\* Every step of the sequencer respects the four step shapes above.
LEMMA HandlerStep ==
    ASSUME TypeOK, [Next]_vars, NEW r \in Requests
    PROVE  RequestStep(r) /\ PreparedStep(r) /\ ReplyStep(r) /\ AnswerStep(r)
<1> DEFINE Goal == RequestStep(r) /\ PreparedStep(r) /\ ReplyStep(r) /\ AnswerStep(r)
<1> USE DEF TypeOK, RequestStep, PreparedStep, ReplyStep, AnswerStep, Prepared, InFlight
<1>1. ASSUME NEW q \in Requests, UserPost(q) \/ RetryPost(q) \/ AgentPost(q)
      PROVE  Goal
    BY <1>1 DEF UserPost, RetryPost, AgentPost, Arrive, db
<1>2. ASSUME NEW q \in Requests, RetryUnknown(q)
      PROVE  Goal
    BY <1>2 DEF RetryUnknown, Refused, db
<1>3. ASSUME NEW q \in Requests, PrepareRefuse(q)
      PROVE  Goal
    BY <1>3 DEF PrepareRefuse, Reject, Refused, Refusal, db
<1>4. ASSUME NEW q \in Requests, PrepareReplay(q)
      PROVE  Goal
    BY <1>4 DEF PrepareReplay, db
<1>5. ASSUME NEW q \in Requests, PreparePending(q)
      PROVE  Goal
    BY <1>5 DEF PreparePending
<1>6. ASSUME NEW q \in Requests, ProjectionDone(q) \/ ProjectionError(q) \/ FinalStartOver(q)
      PROVE  Goal
    BY <1>6 DEF ProjectionDone, ProjectionError, FinalStartOver, db
<1>7. ASSUME NEW q \in Requests, ProjectionFailed(q) \/ FinalStale(q)
      PROVE  Goal
    BY <1>7 DEF ProjectionFailed, FinalStale, Reject,
       Refused, MarkSubmissionFailed
<1>8. ASSUME NEW q \in Requests, FinalCommit(q)
      PROVE  Goal
    BY <1>8 DEF FinalCommit, CommitRows
<1>9. ASSUME NEW q \in Requests, FinalIntegrityError(q)
      PROVE  Goal
    BY <1>9 DEF FinalIntegrityError, Reject, Refused, db
<1>10. ASSUME NEW q \in Requests, Respond(q)
      PROVE  Goal
    BY <1>10 DEF Respond, db
<1>11. CASE Crash
    BY <1>11 DEF Crash, InFlight, db
<1>12. CASE UNCHANGED vars
    BY <1>12 DEF vars
<1> QED
    BY <1>1, <1>2, <1>3, <1>4, <1>5, <1>6, <1>7, <1>8, <1>9, <1>10, <1>11, <1>12 DEF Next, Handle

\* The hash of a submission changes when its first request is prepared.
HashStep(k) ==
    \/ submissions'[k].hash = submissions[k].hash
    \/ \E r \in Requests :
          /\ PreparePending(r) /\ req[r].key = k
          /\ submissions'[k].hash = {RequestHash(req[r])}

\* Only the final transaction makes a submission committed, and no submission
\* disappears.
StatusStep(k) ==
    /\ submissions'[k].status = "committed" =>
          \/ submissions'[k] = submissions[k]
          \/ \E r \in Requests : FinalCommit(r) /\ req[r].key = k
    /\ submissions'[k].hash = {} => submissions[k].hash = {}

\* Every step respects the two submission step shapes above.
LEMMA SubmissionStep ==
    ASSUME TypeOK, [Next]_vars, NEW k \in Keys
    PROVE  HashStep(k) /\ StatusStep(k)
<1> DEFINE Goal == HashStep(k) /\ StatusStep(k)
<1> USE DEF TypeOK, Submission, HashStep, StatusStep
<1>1. ASSUME NEW q \in Requests, UserPost(q) \/ RetryPost(q) \/ AgentPost(q)
      PROVE  Goal
    BY <1>1 DEF UserPost, RetryPost, AgentPost, Arrive, db
<1>2. ASSUME NEW q \in Requests, RetryUnknown(q)
      PROVE  Goal
    BY <1>2 DEF RetryUnknown, Refused, db
<1>3. ASSUME NEW q \in Requests, PrepareRefuse(q)
      PROVE  Goal
    BY <1>3 DEF PrepareRefuse, Reject, Refused, Refusal, db
<1>4. ASSUME NEW q \in Requests, PrepareReplay(q)
      PROVE  Goal
    BY <1>4 DEF PrepareReplay, db
<1>5. ASSUME NEW q \in Requests, PreparePending(q)
      PROVE  Goal
    BY <1>5 DEF PreparePending
<1>6. ASSUME NEW q \in Requests, ProjectionDone(q) \/ ProjectionError(q) \/ FinalStartOver(q)
      PROVE  Goal
    BY <1>6 DEF ProjectionDone, ProjectionError, FinalStartOver, db
<1>7. ASSUME NEW q \in Requests, ProjectionFailed(q) \/ FinalStale(q)
      PROVE  Goal
  <2>1. submissions' = [submissions EXCEPT ![req[q].key].status = "failed"]
      BY <1>7 DEF ProjectionFailed, FinalStale, MarkSubmissionFailed
  <2>2. req[q].key # k => submissions'[k] = submissions[k]
      BY <2>1
  <2>3. req[q].key = k => /\ submissions'[k].hash = submissions[k].hash
                          /\ submissions'[k].status = "failed"
      BY <2>1
  <2> QED
      BY <2>2, <2>3
<1>8. ASSUME NEW q \in Requests, FinalCommit(q)
      PROVE  Goal
  <2>1. submissions' = [submissions EXCEPT ![req[q].key].status = "committed",
                                           ![req[q].key].seq = LastSeq + 1]
      BY <1>8 DEF FinalCommit, CommitRows
  <2>2. req[q].key # k => submissions'[k] = submissions[k]
      BY <2>1
  <2>3. req[q].key = k => submissions'[k].hash = submissions[k].hash
      BY <2>1
  <2> QED
      BY <1>8, <2>2, <2>3
<1>9. ASSUME NEW q \in Requests, FinalIntegrityError(q)
      PROVE  Goal
    BY <1>9 DEF FinalIntegrityError, Reject, Refused, db
<1>10. ASSUME NEW q \in Requests, Respond(q)
      PROVE  Goal
    BY <1>10 DEF Respond, db
<1>11. CASE Crash
    BY <1>11 DEF Crash, InFlight, db
<1>12. CASE UNCHANGED vars
    BY <1>12 DEF vars
<1> QED
    BY <1>1, <1>2, <1>3, <1>4, <1>5, <1>6, <1>7, <1>8, <1>9, <1>10, <1>11, <1>12 DEF Next, Handle

\* The message the final transaction of r stores.
NewMessage(r) ==
    [seq |-> LastSeq + 1, key |-> req[r].key, body |-> req[r].body,
     sender |-> req[r].sender, rev |-> ckpt[r].rev + 1]

\* A message of the next state is an old one or the one just committed.
LEMMA MessageStep ==
    ASSUME [Next]_vars, NEW m \in messages'
    PROVE  \/ m \in messages
           \/ \E r \in Requests : FinalCommit(r) /\ m = NewMessage(r)
BY OnlyCommitWrites DEF FinalCommit, CommitRows, NewMessage
-----------------------------------------------------------------------------
(* The parts of the invariant *)

\* Stored messages stay stored.
LEMMA StoredStays ==
    ASSUME messages \subseteq messages', NEW p, NEW n, StoredIn(messages, p, n)
    PROVE  StoredIn(messages', p, n)
BY DEF StoredIn

\* Targets of a reply stay in the transcript.
LEMMA TargetsStay ==
    ASSUME messages \subseteq messages', NEW p, TargetsExist(p)
    PROVE  TargetsExist(p)'
BY DEF TargetsExist

\* A checkpoint stays the end of some prefix of the transcript.
LEMMA CheckpointsStep ==
    ASSUME IInv, [Next]_vars
    PROVE  Checkpoints'
<1> USE DEF IInv
<1> SUFFICES ASSUME NEW r \in Requests, Prepared(r)'
             PROVE  /\ ckpt'[r].seq <= LastSeq'
                    /\ ckpt'[r].rev = ckpt'[r].seq
                    /\ ckpt'[r].refs = 1..ckpt'[r].seq
                    /\ req'[r].expected \in {AnySeq, ckpt'[r].seq}
                    /\ \A k \in ReplyTarget[req'[r].key] : \E m \in messages' : m.key = k
    BY DEF Checkpoints, TargetsExist
<1>1. messages \subseteq messages' /\ LastSeq <= LastSeq' /\ LastSeq \in Nat /\ LastSeq' \in Nat
    BY TranscriptGrows DEF Numbering
<1>2. CASE Prepared(r) /\ req'[r] = req[r] /\ ckpt'[r] = ckpt[r]
  <2>1. ckpt[r].seq \in Nat
      BY DEF TypeOK, Checkpoint
  <2> QED
      BY <1>1, <1>2, <2>1 DEF Checkpoints, TargetsExist
<1>3. CASE PreparePending(r)
  <2>1. /\ req' = req
        /\ ckpt'[r] = [seq |-> LastSeq, rev |-> LastRev, refs |-> Snapshot]
        /\ Refusal(req[r]) = "none"
        /\ submissions[req[r].key].status # "committed"
      BY <1>3 DEF PreparePending, TypeOK
  <2>2. TargetsExist(req[r]) /\ req[r].expected \in {AnySeq, LastSeq}
      BY <2>1 DEF Refusal
  <2> QED
      BY <1>1, <2>1, <2>2, LatestRevision DEF TargetsExist
<1> QED
    BY <1>2, <1>3, HandlerStep DEF PreparedStep

\* A prepared request keeps owning the hash of its submission.
LEMMA HashesStep ==
    ASSUME IInv, [Next]_vars
    PROVE  Hashes'
<1> USE DEF IInv
<1>1. ASSUME NEW r \in Requests, Prepared(r)'
      PROVE  submissions'[req'[r].key].hash = {RequestHash(req'[r])}
  <2>1. CASE Prepared(r) /\ req'[r] = req[r]
    <3> DEFINE k == req[r].key
    <3>1. k \in Keys /\ submissions[k].hash = {RequestHash(req[r])}
        BY <2>1, HasPayload DEF Hashes, Prepared, InFlight, Payload
    <3>2. CASE submissions'[k].hash = submissions[k].hash
        BY <2>1, <3>1, <3>2
    <3>3. ASSUME NEW q \in Requests, PreparePending(q), req[q].key = k,
                 submissions'[k].hash = {RequestHash(req[q])}
          PROVE  submissions'[k].hash = {RequestHash(req[r])}
      <4>1. submissions[k].hash \in {{}, {RequestHash(req[q])}}
          BY <3>3 DEF PreparePending, Refusal
      <4> QED
          BY <3>1, <3>3, <4>1
    <3> QED
        BY <2>1, <3>1, <3>2, <3>3, SubmissionStep DEF HashStep
  <2>2. CASE PreparePending(r)
    <3>1. req[r].key \in Keys
        BY <2>2, HasPayload DEF PreparePending, InFlight, Payload
    <3> QED
        BY <2>2, <3>1 DEF PreparePending, TypeOK, Submission
  <2> QED
      BY <1>1, <2>1, <2>2, HandlerStep DEF PreparedStep
<1> QED
    BY <1>1 DEF Hashes, Prepared, RequestHash

\* The row of the new message is what its request asked for.
LEMMA CommitStores ==
    ASSUME NEW r \in Requests, FinalCommit(r)
    PROVE  /\ NewMessage(r) \in messages'
           /\ req' = req
BY DEF FinalCommit, CommitRows, NewMessage

\* A committed submission that accepts a request has stored what it asks for.
LEMMA ReplayStored ==
    ASSUME IInv, NEW r \in Requests, PrepareReplay(r)
    PROVE  StoredIn(messages, req[r], submissions[req[r].key].seq)
<1> DEFINE s == submissions[req[r].key]
           p == req[r]
<1>1. p \in Payload /\ p.key \in Keys
    BY HasPayload DEF IInv, PrepareReplay, InFlight, Payload
<1>2. s.status = "committed" /\ s.hash \in {{}, {RequestHash(p)}}
    BY DEF PrepareReplay, Refusal
<1>3. PICK m \in messages :
          m.key = p.key /\ m.seq = s.seq
          /\ s.hash = {[body |-> m.body, sender |-> m.sender]}
    BY <1>1, <1>2 DEF IInv, CommittedSubmissionHasItsMessage
<1>4. [body |-> m.body, sender |-> m.sender] = [body |-> p.body, sender |-> p.sender]
    BY <1>2, <1>3 DEF RequestHash
<1>5. m.body = p.body /\ m.sender = p.sender
    BY <1>4
<1> QED
    BY <1>3, <1>5 DEF StoredIn

\* Requests keep their payload and have an answer only when they are done.
LEMMA PendingStep ==
    ASSUME IInv, [Next]_vars, NEW r \in Requests
    PROVE  /\ pc'[r] = "idle" => req'[r] = NoPayload /\ answer'[r] = NoAnswer
           /\ pc'[r] \in InFlight => req'[r] # NoPayload /\ answer'[r] = NoAnswer
<1>1. RequestStep(r) /\ AnswerStep(r)
    BY HandlerStep DEF IInv
<1>2. /\ pc[r] = "idle" => req[r] = NoPayload /\ answer[r] = NoAnswer
      /\ pc[r] \in InFlight => req[r] # NoPayload /\ answer[r] = NoAnswer
    BY DEF IInv, Replies
<1>3. CASE /\ req'[r] = req[r]
           /\ pc'[r] = "idle" => pc[r] = "idle"
           /\ pc'[r] \in InFlight => pc[r] \in InFlight
    BY <1>1, <1>2, <1>3 DEF AnswerStep, InFlight
<1>4. CASE /\ pc[r] = "idle" /\ pc'[r] = "prepare"
           /\ answer'[r] = answer[r] /\ req'[r] \in Payload
    BY <1>2, <1>4, SequencerAssumption DEF InFlight
<1> QED
    BY <1>1, <1>3, <1>4, ArrivedPayload DEF RequestStep, IInv

\* Whoever is told "ok", or is about to be, has its message stored.
LEMMA RepliesStep ==
    ASSUME IInv, [Next]_vars
    PROVE  Replies'
<1>1. messages \subseteq messages'
    BY TranscriptGrows DEF IInv
<1>2. ASSUME NEW r \in Requests, pc'[r] = "reply"
      PROVE  StoredIn(messages', req'[r], result'[r])
  <2>1. CASE pc[r] = "reply" /\ req'[r] = req[r] /\ result'[r] = result[r]
    <3>1. StoredIn(messages, req[r], result[r])
        BY <2>1 DEF IInv, Replies
    <3> QED
        BY <1>1, <2>1, <3>1, StoredStays
  <2>2. CASE PrepareReplay(r)
    <3>1. /\ req' = req /\ messages' = messages
          /\ result'[r] = submissions[req[r].key].seq
        BY <2>2 DEF PrepareReplay, IInv, TypeOK, db
    <3> QED
        BY <2>2, <3>1, ReplayStored
  <2>3. CASE FinalCommit(r)
    <3>1. result'[r] = LastSeq + 1
        BY <2>3 DEF FinalCommit, IInv, TypeOK
    <3>2. StoredIn(messages', req[r], LastSeq + 1)
        BY <2>3, CommitStores DEF StoredIn, NewMessage
    <3> QED
        BY <2>3, <3>1, <3>2, CommitStores
  <2> QED
      BY <1>2, <2>1, <2>2, <2>3, HandlerStep DEF ReplyStep, IInv
<1>3. ASSUME NEW r \in Requests, answer'[r].code = "ok"
      PROVE  req'[r] # NoPayload /\ StoredIn(messages', req'[r], answer'[r].seq)
  <2>1. CASE answer'[r] = answer[r]
    <3>1. req[r] # NoPayload /\ StoredIn(messages, req[r], answer[r].seq)
        BY <1>3, <2>1 DEF IInv, Replies
    <3>2. req'[r] = req[r]
        BY <3>1, HandlerStep DEF RequestStep, IInv, Replies
    <3> QED
        BY <1>1, <2>1, <3>1, <3>2, StoredStays
  <2>2. CASE pc[r] = "reply" /\ req'[r] = req[r] /\ answer'[r] = Ok(result[r])
    <3>1. req[r] # NoPayload /\ StoredIn(messages, req[r], result[r])
        BY <2>2 DEF IInv, Replies, InFlight
    <3>2. answer'[r].seq = result[r]
        BY <2>2 DEF Ok
    <3> QED
        BY <1>1, <2>2, <3>1, <3>2, StoredStays
  <2> QED
      BY <1>3, <2>1, <2>2, HandlerStep DEF AnswerStep, IInv
<1> QED
    BY <1>2, <1>3, PendingStep DEF Replies

\* A payload that has arrived never changes.
LEMMA PayloadStays ==
    ASSUME IInv, [Next]_vars, NEW r \in Requests, req[r] # NoPayload
    PROVE  req'[r] = req[r]
BY HandlerStep DEF RequestStep, IInv, Replies

\* Runs keep the hash of what their agent submitted.
LEMMA RequestersStep ==
    ASSUME IInv, [Next]_vars
    PROVE  Requesters'
<1>1. ASSUME NEW k \in Runs
      PROVE  submissions'[k].hash \in {{}, {RunHash(k)}}
  <2>1. k \in Keys /\ submissions[k].hash \in {{}, {RunHash(k)}}
      BY DEF IInv, Requesters, Keys
  <2>2. ASSUME NEW r \in Requests, PreparePending(r), req[r].key = k
        PROVE  RequestHash(req[r]) = RunHash(k)
    <3>1. req[r] # NoPayload
        BY <2>2 DEF PreparePending, InFlight, IInv, Replies
    <3>2. \/ RequestHash(req[r]) = RunHash(k)
          \/ submissions[k].hash # {}
        BY <2>2, <3>1 DEF IInv, Requesters
    <3>3. submissions[k].hash \in {{}, {RequestHash(req[r])}}
        BY <2>2 DEF PreparePending, Refusal
    <3> QED
        BY <2>1, <3>2, <3>3
  <2> QED
      BY <2>1, <2>2, SubmissionStep DEF HashStep, IInv
<1>2. ASSUME NEW r \in Requests, req'[r] # NoPayload
      PROVE  /\ req'[r].key \in UserKeys => req'[r].sender = User
             /\ req'[r].key \in Runs =>
                   \/ RequestHash(req'[r]) = RunHash(req'[r].key)
                   \/ req'[r].sender = User /\ submissions'[req'[r].key].hash # {}
             /\ req'[r].sender = User => req'[r].expected = AnySeq
             /\ req'[r].sender # User => req'[r].expected # AnySeq
  <2>1. CASE req'[r] = req[r]
    <3>1. req[r] # NoPayload
        BY <1>2, <2>1
    <3>2. req[r].key \in Runs => (submissions'[req[r].key].hash = {} =>
                                  submissions[req[r].key].hash = {})
        BY SubmissionStep DEF StatusStep, IInv, Keys
    <3> QED
        BY <2>1, <3>1, <3>2 DEF IInv, Requesters
  <2>2. CASE UserPost(r) \/ RetryPost(r) \/ AgentPost(r)
    <3> DEFINE q == req'[r]
    <3>1. submissions' = submissions
        BY <2>2, ArrivedPayload DEF IInv
    <3>2. CASE q.key \in UserKeys /\ q.sender = User /\ q.expected = AnySeq
        BY <3>2, SequencerAssumption
    <3>3. CASE submissions[q.key].hash # {} /\ q.sender = User /\ q.expected = AnySeq
        BY <3>1, <3>3
    <3>4. CASE /\ q.key \in Runs
               /\ RequestHash(q) = RunHash(q.key)
               /\ q.expected \in Nat
      <4>1. q.sender \in Agents /\ q.sender # User /\ q.key \notin UserKeys
          BY <3>4, RunTypes, SequencerAssumption DEF RequestHash, RunHash
      <4> QED
          BY <3>4, <4>1 DEF AnySeq
    <3> QED
        BY <2>2, <3>2, <3>3, <3>4, ArrivedPayload DEF IInv
  <2> QED
      BY <2>1, <2>2, HandlerStep DEF RequestStep, IInv
<1> QED
    BY <1>1, <1>2 DEF Requesters, RequestHash, RunHash

\* A handler that commits holds a current checkpoint and an accepted payload.
LEMMA CommitPayload ==
    ASSUME IInv, NEW r \in Requests, FinalCommit(r)
    PROVE  /\ req[r] \in Payload /\ req[r] # NoPayload /\ LastSeq \in Nat
           /\ req[r].expected \in {AnySeq, LastSeq}
           /\ TargetsExist(req[r])
           /\ submissions[req[r].key].hash = {RequestHash(req[r])}
<1>1. pc[r] \in InFlight /\ Prepared(r)
    BY DEF FinalCommit, InFlight, Prepared
<1> QED
    BY <1>1, HasPayload, SequencerAssumption
    DEF IInv, Checkpoints, Hashes, Numbering, FinalCommit, CheckpointCurrent

\* A commit leaves no message between an agent's view and its message.
LEMMA AgentSawStep ==
    ASSUME IInv, [Next]_vars
    PROVE  AgentSawEverythingBefore'
<1> SUFFICES ASSUME NEW m \in messages', m.sender \in Agents
             PROVE  \E r \in Requests :
                        /\ req'[r] # NoPayload
                        /\ req'[r].key = m.key
                        /\ req'[r].sender = m.sender
                        /\ req'[r].expected + 1 = m.seq
    BY DEF AgentSawEverythingBefore
<1>1. CASE m \in messages
    BY <1>1, PayloadStays DEF IInv, AgentSawEverythingBefore
<1>2. ASSUME NEW r \in Requests, FinalCommit(r), m = NewMessage(r)
      PROVE  /\ req'[r] # NoPayload /\ req'[r].key = m.key
             /\ req'[r].sender = m.sender /\ req'[r].expected + 1 = m.seq
  <2>1. req[r].expected = LastSeq
      BY <1>2, CommitPayload, SequencerAssumption DEF NewMessage, IInv, Requesters
  <2> QED
      BY <1>2, <2>1, CommitPayload, CommitStores DEF NewMessage
<1> QED
    BY <1>1, <1>2, MessageStep

\* A commit stores what a run submitted under its agent's name.
LEMMA RunsSpeakStep ==
    ASSUME IInv, [Next]_vars
    PROVE  RunsSpeakForThemselves'
<1> SUFFICES ASSUME NEW m \in messages'
             PROVE  m.sender = IF m.key \in Runs THEN RunOf[m.key].agent ELSE User
    BY DEF RunsSpeakForThemselves
<1>1. CASE m \in messages
    BY <1>1 DEF IInv, RunsSpeakForThemselves
<1>2. ASSUME NEW r \in Requests, FinalCommit(r), m = NewMessage(r)
      PROVE  m.sender = IF m.key \in Runs THEN RunOf[m.key].agent ELSE User
  <2>1. m.key = req[r].key /\ m.sender = req[r].sender
      BY <1>2 DEF NewMessage
  <2>2. CASE m.key \in Runs
    <3>1. submissions[m.key].hash \in {{}, {RunHash(m.key)}}
        BY <2>2 DEF IInv, Requesters
    <3>2. RequestHash(req[r]) = RunHash(m.key)
        BY <1>2, <2>1, <3>1, CommitPayload
    <3> QED
        BY <2>1, <2>2, <3>2 DEF RequestHash, RunHash
  <2>3. CASE m.key \notin Runs
      BY <1>2, <2>1, <2>3, CommitPayload DEF IInv, Requesters, Payload, Keys
  <2> QED
      BY <2>2, <2>3
<1> QED
    BY <1>1, <1>2, MessageStep

\* A commit comes after the messages it replies to.
LEMMA TargetsStep ==
    ASSUME IInv, [Next]_vars
    PROVE  RepliesFollowTargets'
<1> SUFFICES ASSUME NEW m \in messages', NEW k \in ReplyTarget[m.key]
             PROVE  \E t \in messages' : t.key = k /\ t.seq < m.seq
    BY DEF RepliesFollowTargets
<1>1. messages \subseteq messages'
    BY TranscriptGrows DEF IInv
<1>2. CASE m \in messages
    BY <1>1, <1>2 DEF IInv, RepliesFollowTargets
<1>3. ASSUME NEW r \in Requests, FinalCommit(r), m = NewMessage(r)
      PROVE  \E t \in messages' : t.key = k /\ t.seq < m.seq
  <2>1. PICK t \in messages : t.key = k
      BY <1>3, CommitPayload DEF TargetsExist, NewMessage
  <2>2. t.seq \in 1..LastSeq /\ LastSeq \in Nat
      BY DEF IInv, Numbering, Seqs
  <2> QED
      BY <1>1, <1>3, <2>1, <2>2 DEF NewMessage
<1> QED
    BY <1>2, <1>3, MessageStep

\* A committed submission gets and keeps its message.
LEMMA CommittedStep ==
    ASSUME IInv, [Next]_vars
    PROVE  CommittedSubmissionHasItsMessage'
<1> SUFFICES ASSUME NEW k \in Keys, submissions'[k].status = "committed"
             PROVE  \E m \in messages' :
                        /\ m.key = k
                        /\ m.seq = submissions'[k].seq
                        /\ submissions'[k].hash = {[body |-> m.body, sender |-> m.sender]}
    BY DEF CommittedSubmissionHasItsMessage
<1>1. CASE submissions'[k] = submissions[k]
    BY <1>1, TranscriptGrows DEF IInv, CommittedSubmissionHasItsMessage
<1>2. ASSUME NEW r \in Requests, FinalCommit(r), req[r].key = k
      PROVE  /\ NewMessage(r) \in messages'
             /\ NewMessage(r).key = k
             /\ NewMessage(r).seq = submissions'[k].seq
             /\ submissions'[k].hash = {[body |-> NewMessage(r).body,
                                         sender |-> NewMessage(r).sender]}
  <2>1. submissions'[k].seq = LastSeq + 1 /\ submissions'[k].hash = submissions[k].hash
      BY <1>2 DEF FinalCommit, CommitRows, IInv, TypeOK, Submission
  <2> QED
      BY <1>2, <2>1, CommitStores, CommitPayload DEF NewMessage, RequestHash
<1> QED
    BY <1>1, <1>2, SubmissionStep DEF StatusStep, IInv
-----------------------------------------------------------------------------
(* The invariant, and what follows from it *)

\* The invariant holds of an empty transcript.
LEMMA InitIInv == Init => IInv
<1> SUFFICES ASSUME Init PROVE IInv
    OBVIOUS
<1>1. LastSeq = 0 /\ Seqs = {}
  <2>1. Seqs = 1..0
      BY DEF Init, Seqs
  <2>2. LastSeq = 0
      BY <2>1, MaxPrefix DEF LastSeq, Seqs
  <2> QED
      BY <2>1, <2>2
<1>2. TypeOK
    BY DEF Init, TypeOK, Submission, NoSubmission, Budget, Checkpoint, NoCheckpoint,
       Answer, NoAnswer
<1>3. Numbering
    BY <1>1 DEF Init, Numbering
<1>4. Checkpoints /\ Hashes /\ Requesters
    BY DEF Init, Checkpoints, Hashes, Requesters, Prepared, NoSubmission, Keys
<1>5. Replies
    BY DEF Init, Replies, InFlight, NoAnswer
<1>6. /\ AgentSawEverythingBefore /\ RunsSpeakForThemselves
      /\ RepliesFollowTargets /\ CommittedSubmissionHasItsMessage
    BY DEF Init, AgentSawEverythingBefore, RunsSpeakForThemselves,
       RepliesFollowTargets, CommittedSubmissionHasItsMessage, NoSubmission
<1> QED
    BY <1>2, <1>3, <1>4, <1>5, <1>6 DEF IInv

\* Every step preserves it.
LEMMA StepIInv == IInv /\ [Next]_vars => IInv'
<1> SUFFICES ASSUME IInv, [Next]_vars PROVE IInv'
    OBVIOUS
<1>1. TypeOK'
    BY TypeStep
<1>2. Numbering'
    BY TranscriptGrows DEF IInv
<1>3. Checkpoints' /\ Hashes' /\ Replies' /\ Requesters'
    BY CheckpointsStep, HashesStep, RepliesStep, RequestersStep
<1>4. /\ AgentSawEverythingBefore' /\ RunsSpeakForThemselves'
      /\ RepliesFollowTargets' /\ CommittedSubmissionHasItsMessage'
    BY AgentSawStep, RunsSpeakStep, TargetsStep, CommittedStep
<1> QED
    BY <1>1, <1>2, <1>3, <1>4 DEF IInv

\* The inductive invariant: what the rows and the handlers between two of their
\* transactions always have in common, for any number of requests.
THEOREM Invariance == Spec => []IInv
    BY InitIInv, StepIInv, PTL DEF Spec

\* Every row, checkpoint and answer of commit_message has its declared shape,
\* for any set of requests, keys, agents and episodes.
THEOREM TypeCorrect == Spec => []TypeOK
<1>1. IInv => TypeOK
    BY DEF IInv
<1> QED
    BY <1>1, Invariance, PTL

\* commit_message numbers the messages 1, 2, 3, ... and stores no
\* client_message_id twice, however many handlers race.
THEOREM TotalOrder == Spec => []GaplessAndOnce
<1>1. IInv => GaplessAndOnce
    BY DEF IInv, Numbering, GaplessAndOnce
<1> QED
    BY <1>1, Invariance, PTL

\* The projection revision of a message was computed from exactly the messages
\* before it, although the projection runs outside every lock.
THEOREM ProjectionCurrent == Spec => []ProjectionCoversTranscript
<1>1. ASSUME IInv PROVE ProjectionCoversTranscript
  <2>1. LastRev = LastSeq /\ Snapshot = Seqs
      BY <1>1, LatestRevision DEF IInv, Numbering
  <2>2. ASSUME NEW m \in messages
        PROVE  [rev |-> m.rev, covered |-> m.seq, refs |-> 1..m.seq] \in revisions
    <3>1. m.seq \in {v.rev : v \in revisions} /\ m.rev = m.seq
        BY <1>1 DEF IInv, Numbering, Seqs
    <3>2. PICK v \in revisions : v.rev = m.seq
        BY <3>1
    <3>3. v \in Revision /\ v.covered = v.rev /\ v.refs = 1..v.rev
        BY <1>1 DEF IInv, TypeOK, Numbering
    <3>4. v = [rev |-> m.rev, covered |-> m.seq, refs |-> 1..m.seq]
        BY <3>1, <3>2, <3>3 DEF Revision
    <3> QED
        BY <3>4
  <2> QED
      BY <2>1, <2>2 DEF ProjectionCoversTranscript
<1> QED
    BY <1>1, Invariance, PTL

\* An "ok" names the place where the caller's own message is stored for good,
\* through failed projections, stale checkpoints, replays and crashes.
THEOREM AcknowledgementsHold == Spec => []AcknowledgedIsStored
<1>1. IInv => AcknowledgedIsStored
    BY DEF IInv, Replies, StoredIn, AcknowledgedIsStored
<1> QED
    BY <1>1, Invariance, PTL

\* The optimistic concurrency control of agent actions: nothing is committed
\* between what an agent had seen and what it says.
THEOREM AgentsUpToDate == Spec => []AgentSawEverythingBefore
<1>1. IInv => AgentSawEverythingBefore
    BY DEF IInv
<1> QED
    BY <1>1, Invariance, PTL

\* retry_submission cannot publish what an agent submitted as the user's.
THEOREM RunsKeepTheirName == Spec => []RunsSpeakForThemselves
<1>1. IInv => RunsSpeakForThemselves
    BY DEF IInv
<1> QED
    BY <1>1, Invariance, PTL

\* Replies are stored after the messages they reply to, although the check
\* and the insert are in two transactions.
THEOREM RepliesOrdered == Spec => []RepliesFollowTargets
<1>1. IInv => RepliesFollowTargets
    BY DEF IInv
<1> QED
    BY <1>1, Invariance, PTL

\* A submission that is shown as committed has its message, with its content.
THEOREM CommittedHasMessage == Spec => []CommittedSubmissionHasItsMessage
<1>1. IInv => CommittedSubmissionHasItsMessage
    BY DEF IInv
<1> QED
    BY <1>1, Invariance, PTL
\* The messages are as many as the number of the last one says.
LEMMA MessagesCounted ==
    ASSUME Numbering
    PROVE  IsFiniteSet(messages) /\ Cardinality(messages) = LastSeq
<1> DEFINE f == [m \in messages |-> m.seq]
<1>1. LastSeq \in Nat /\ {m.seq : m \in messages} = 1..LastSeq
    BY DEF Numbering, Seqs
<1>2. f \in [messages -> 1..LastSeq]
    BY <1>1
<1>3. f \in Injection(messages, 1..LastSeq)
    BY <1>2 DEF Numbering, Injection, IsInjective
<1>4. f \in Surjection(messages, 1..LastSeq)
  <2>1. ASSUME NEW n \in 1..LastSeq PROVE \E m \in messages : f[m] = n
    <3>1. n \in {m.seq : m \in messages}
        BY <1>1
    <3> QED BY <3>1
  <2> QED BY <1>2, <2>1 DEF Surjection
<1>5. IsFiniteSet(1..LastSeq) /\ Cardinality(1..LastSeq) = LastSeq
    BY <1>1, FS_Interval
<1> HIDE DEF f
<1> QED BY <1>3, <1>4, <1>5, FS_Injection


\* Only the final transaction writes to the ledger.
LEMMA OnlyCommitCounts ==
    ASSUME [Next]_vars
    PROVE  \/ UNCHANGED <<messages, ledger>>
           \/ \E r \in Requests : FinalCommit(r)
BY DEF Next, Handle, vars, db, UserPost, RetryPost, RetryUnknown, AgentPost, Arrive,
       PrepareRefuse, PrepareReplay, PreparePending, ProjectionDone,
       ProjectionError, ProjectionFailed, FinalStartOver, FinalStale,
       FinalIntegrityError, Respond, Crash

\* What prepare has found within the budget still is, as long as the checkpoint
\* is current: a row of the ledger changes only with a new message.
LEMMA BudgetsStep ==
    ASSUME IInv, Budgets, [Next]_vars
    PROVE  Budgets'
<1> SUFFICES ASSUME NEW r \in Requests, Prepared(r)', ckpt'[r].seq = LastSeq'
             PROVE  ~OverBudget(req[r])'
    BY DEF Budgets
<1>1. CASE UNCHANGED <<messages, ledger>>
  <2>1. LastSeq' = LastSeq /\ \A p : OverBudget(p)' <=> OverBudget(p)
      BY <1>1 DEF OverBudget, LastSeq
  <2>2. CASE Prepared(r) /\ req'[r] = req[r] /\ ckpt'[r] = ckpt[r]
      BY <2>1, <2>2 DEF Budgets, OverBudget
  <2>3. CASE PreparePending(r)
      BY <2>1, <2>3 DEF PreparePending, Refusal, OverBudget
  <2> QED
      BY <2>2, <2>3, HandlerStep DEF PreparedStep, IInv
<1>2. ASSUME NEW q \in Requests, FinalCommit(q) PROVE FALSE
  <2>1. LastSeq' = LastSeq + 1 /\ LastSeq \in Nat
      BY <1>2, CommitAppends DEF IInv, Numbering
  <2>2. Prepared(r) /\ ckpt'[r] = ckpt[r]
      BY <1>2 DEF FinalCommit, IInv, TypeOK, Prepared
  <2>3. ckpt[r].seq <= LastSeq /\ ckpt[r].seq \in Nat
      BY <2>2 DEF IInv, Checkpoints, TypeOK, Checkpoint
  <2> QED
      BY <2>1, <2>2, <2>3
<1> QED
    BY <1>1, <1>2, OnlyCommitCounts

\* The row of an episode counts a message that its budget allowed.
LEMMA BudgetCounts ==
    ASSUME NEW row \in Budget, NEW a \in Agents, NEW hop \in Nat
    PROVE  LET new == BudgetAfter(row, a, hop) IN
           /\ new.total = row.total + 1
           /\ new.by[a] = row.by[a] + 1
           /\ \A b \in Agents \ {a} : new.by[b] = row.by[b]
           /\ new.hop \in {row.hop, hop} /\ new.hop >= row.hop /\ new.hop >= hop
<1>1. Max({row.hop, hop}) \in {row.hop, hop}
    BY MaxPair DEF Budget
<1> QED
    BY <1>1, MaxPair DEF BudgetAfter, Budget

\* Messages of users count for no episode.
LEMMA CommitCounts ==
    ASSUME IInv, Budgets, HopsHold, EpisodeBudgetHolds,
           NEW r \in Requests, FinalCommit(r)
    PROVE  EpisodeBudgetHolds' /\ HopsHold'
<1> DEFINE p == req[r]
           m == NewMessage(r)
<1>1. p \in Payload /\ messages' = messages \cup {m} /\ m \notin messages
  <2>1. m.seq = LastSeq + 1 /\ LastSeq \in Nat
      BY DEF NewMessage, IInv, Numbering
  <2>2. \A x \in messages : x.seq \in 1..LastSeq
      BY DEF IInv, Numbering, Seqs
  <2>3. messages' = messages \cup {m}
      BY DEF FinalCommit, CommitRows, NewMessage
  <2>4. p \in Payload
      BY CommitPayload
  <2> HIDE DEF m
  <2> QED
      BY <2>1, <2>2, <2>3, <2>4
<1>2. m.sender = p.sender /\ m.key = p.key
    BY DEF NewMessage
<1>3. IsFiniteSet(messages)
    BY MessagesCounted DEF IInv
<1> HIDE DEF m
<1> SUFFICES ASSUME NEW e \in Episodes
             PROVE  (/\ ledger[e].hop <= MaxHops
                     /\ ledger[e].total = Cardinality(EpisodeMessages(e))
                     /\ ledger[e].total <= MaxActions
                     /\ \A a \in Agents :
                           /\ ledger[e].by[a] =
                                 Cardinality({x \in EpisodeMessages(e) : x.sender = a})
                           /\ ledger[e].by[a] <= MaxPerAgent
                     /\ \A x \in EpisodeMessages(e) :
                           RunOf[x.key].hop <= ledger[e].hop /\ ledger[e].hop <= MaxHops)'
    BY DEF EpisodeBudgetHolds, HopsHold
<1>4. CASE p.sender \in Agents /\ RunOf[p.key].episode = e
  <2> DEFINE hop == RunOf[p.key].hop
             row == ledger[e]
  <2>1. hop \in Nat /\ row \in Budget /\ p.key \in Runs
      BY <1>1, <1>4, AgentKeys, RunTypes DEF IInv, TypeOK
  <2>2. ledger'[e] = BudgetAfter(row, p.sender, hop)
      BY <1>4 DEF FinalCommit, RecordBudget, IInv, TypeOK
  <2>3. ~OverBudget(p)
      BY DEF Budgets, FinalCommit, CheckpointCurrent, Prepared
  <2>4. /\ hop <= MaxHops /\ row.total + 1 <= MaxActions
        /\ row.by[p.sender] + 1 <= MaxPerAgent
    <3>1. row.total \in Nat /\ row.by[p.sender] \in Nat
        BY <1>4, <2>1 DEF Budget
    <3> QED
        BY <1>4, <2>1, <2>3, <3>1, SequencerAssumption DEF OverBudget
  <2>5. EpisodeMessages(e)' = EpisodeMessages(e) \cup {m} /\ m \notin EpisodeMessages(e)
      BY <1>1, <1>2, <1>4 DEF EpisodeMessages
  <2>6. IsFiniteSet(EpisodeMessages(e))
      BY <1>3, FS_Subset DEF EpisodeMessages
  <2>7. Cardinality(EpisodeMessages(e)') = Cardinality(EpisodeMessages(e)) + 1
      BY <2>5, <2>6, FS_AddElement
  <2>8. ASSUME NEW a \in Agents
        PROVE  /\ ledger'[e].by[a] =
                     Cardinality({x \in EpisodeMessages(e)' : x.sender = a})
               /\ ledger'[e].by[a] <= MaxPerAgent
    <3> DEFINE A == {x \in EpisodeMessages(e) : x.sender = a}
    <3>1. row.by[a] = Cardinality(A) /\ row.by[a] <= MaxPerAgent
        BY DEF EpisodeBudgetHolds
    <3>2. IsFiniteSet(A)
        BY <2>6, FS_Subset
    <3>3. CASE a = p.sender
      <4>1. {x \in EpisodeMessages(e)' : x.sender = a} = A \cup {m} /\ m \notin A
          BY <1>2, <2>5, <3>3
      <4>2. Cardinality(A \cup {m}) = Cardinality(A) + 1
          BY <3>2, <4>1, FS_AddElement
      <4>3. ledger'[e].by[a] = row.by[a] + 1
          BY <1>4, <2>1, <2>2, <3>3, BudgetCounts
      <4> QED
          BY <2>4, <3>1, <3>3, <4>1, <4>2, <4>3
    <3>4. CASE a # p.sender
      <4>1. {x \in EpisodeMessages(e)' : x.sender = a} = A
          BY <1>2, <2>5, <3>4
      <4>2. ledger'[e].by[a] = row.by[a]
          BY <1>4, <2>1, <2>2, <3>4, BudgetCounts
      <4> QED
          BY <3>1, <4>1, <4>2
    <3> QED
        BY <3>3, <3>4
  <2>9. ASSUME NEW x \in EpisodeMessages(e)'
        PROVE  RunOf[x.key].hop <= ledger'[e].hop /\ ledger'[e].hop <= MaxHops
    <3>1. /\ ledger'[e].hop \in {row.hop, hop}
          /\ ledger'[e].hop >= row.hop /\ ledger'[e].hop >= hop
        BY <1>4, <2>1, <2>2, BudgetCounts
    <3>2. row.hop \in Nat
        BY <2>1 DEF Budget
    <3>3. CASE x = m
      <4>1. RunOf[x.key].hop = hop
          BY <1>2, <3>3
      <4>2. hop <= MaxHops /\ row.hop <= MaxHops
          BY <2>4 DEF HopsHold
      <4> HIDE DEF hop, row
      <4> QED
          BY <2>1, <3>1, <3>2, <4>1, <4>2
    <3>4. CASE x \in EpisodeMessages(e)
      <4>1. RunOf[x.key].hop <= row.hop /\ row.hop <= MaxHops
          BY <3>4 DEF EpisodeBudgetHolds
      <4>2. RunOf[x.key].hop \in Nat
        <5>1. x \in messages /\ x.sender \in Agents
            BY <3>4 DEF EpisodeMessages
        <5>2. x.key \in Runs
            BY <5>1, SequencerAssumption DEF IInv, RunsSpeakForThemselves
        <5> QED
            BY <5>2, RunTypes
      <4>3. ledger'[e].hop <= MaxHops
          BY <2>4, <3>1, <4>1
      <4>4. ledger'[e].hop \in Nat
          BY <2>1, <3>1, <3>2
      <4> HIDE DEF hop, row
      <4> QED
          BY <3>1, <3>2, <4>1, <4>2, <4>3, <4>4
    <3> QED
        BY <2>5, <3>3, <3>4
  <2>10. ledger'[e].total = row.total + 1 /\ row.total = Cardinality(EpisodeMessages(e))
      BY <1>4, <2>1, <2>2, BudgetCounts DEF EpisodeBudgetHolds
  <2>11. ledger'[e].hop <= MaxHops
      BY <1>4, <2>1, <2>2, <2>4, BudgetCounts DEF HopsHold
  <2> QED
      BY <2>4, <2>7, <2>8, <2>9, <2>10, <2>11
<1>5. CASE ~(p.sender \in Agents /\ RunOf[p.key].episode = e)
  <2>1. EpisodeMessages(e)' = EpisodeMessages(e)
      BY <1>1, <1>2, <1>5 DEF EpisodeMessages
  <2>2. ledger'[e] = ledger[e]
      BY <1>5 DEF FinalCommit, RecordBudget, IInv, TypeOK
  <2> QED
      BY <2>1, <2>2 DEF EpisodeBudgetHolds, HopsHold
<1> QED
    BY <1>4, <1>5

\* Nothing has been counted when the conversation starts.
LEMMA InitEpisodes == Init => EpisodeInv
<1> SUFFICES ASSUME Init PROVE EpisodeInv
    OBVIOUS
<1>1. \A e \in Episodes : EpisodeMessages(e) = {}
    BY DEF Init, EpisodeMessages
<1>2. \A e \in Episodes : Cardinality(EpisodeMessages(e)) = 0
    BY <1>1, FS_EmptySet
<1>3. \A e \in Episodes, a \in Agents : Cardinality({x \in EpisodeMessages(e) : x.sender = a}) = 0
  <2>1. \A e \in Episodes, a \in Agents : {x \in EpisodeMessages(e) : x.sender = a} = {}
      BY <1>1
  <2> QED
      BY <2>1, FS_EmptySet
<1>4. EpisodeBudgetHolds
    BY <1>1, <1>2, <1>3, SequencerAssumption DEF Init, EpisodeBudgetHolds
<1>5. HopsHold
    BY SequencerAssumption DEF Init, HopsHold
<1> QED
    BY <1>4, <1>5 DEF Init, EpisodeInv, Budgets, Prepared

\* The budgets of the episodes and the counts of the ledger are kept together.
LEMMA StepEpisodes == IInv /\ EpisodeInv /\ [Next]_vars => EpisodeInv'
<1> SUFFICES ASSUME IInv, EpisodeInv, [Next]_vars PROVE EpisodeInv'
    OBVIOUS
<1>1. Budgets /\ HopsHold /\ EpisodeBudgetHolds
    BY DEF EpisodeInv
<1>2. Budgets'
    BY <1>1, BudgetsStep
<1>3. EpisodeBudgetHolds' /\ HopsHold'
  <2>1. ASSUME UNCHANGED <<messages, ledger>> PROVE EpisodeBudgetHolds' /\ HopsHold'
    <3>1. \A e : EpisodeMessages(e)' = EpisodeMessages(e)
        BY <2>1 DEF EpisodeMessages
    <3> QED
        BY <1>1, <2>1, <3>1 DEF EpisodeBudgetHolds, HopsHold
  <2>2. ASSUME NEW r \in Requests, FinalCommit(r) PROVE EpisodeBudgetHolds' /\ HopsHold'
      BY <1>1, <2>2, CommitCounts
  <2> QED
      BY <2>1, <2>2, OnlyCommitCounts
<1> QED
    BY <1>2, <1>3 DEF EpisodeInv

\* The two agents may race, restart and be retried: enforce_episode_budget and
\* record_episode_budget, in two transactions, keep every episode within its
\* limits and count its messages exactly.
THEOREM EpisodesWithinBudget == Spec => []EpisodeBudgetHolds
<1>1. EpisodeInv => EpisodeBudgetHolds
    BY DEF EpisodeInv
<1> QED
    BY <1>1, InitEpisodes, StepEpisodes, Invariance, PTL DEF Spec
-----------------------------------------------------------------------------
(* The refinement of MessageLog *)

\* The transcript that rows of messages stand for, and the entries that payloads
\* ask for: the refinement mapping of Log.
TranscriptOf(rows) ==
    [n \in 1..Cardinality(rows) |-> Entry(CHOOSE m \in rows : m.seq = n)]
AskedBy(payloads) ==
    [r \in Requests |-> IF payloads[r] = NoPayload THEN NoPayload ELSE Entry(payloads[r])]

\* Rows numbered from 1 to n stand for a transcript that has each at its number.
LEMMA RowsInOrder ==
    ASSUME NEW rows, NEW n \in Nat, Cardinality(rows) = n,
           {m.seq : m \in rows} = 1..n,
           \A m, k \in rows : m.seq = k.seq => m = k
    PROVE  /\ DOMAIN TranscriptOf(rows) = 1..n
           /\ \A m \in rows : m.seq \in 1..n /\ TranscriptOf(rows)[m.seq] = Entry(m)
           /\ \A i \in 1..n : \E m \in rows : m.seq = i
<1>1. \A m \in rows : m.seq \in 1..n
    OBVIOUS
<1>2. ASSUME NEW m \in rows PROVE TranscriptOf(rows)[m.seq] = Entry(m)
  <2>1. (CHOOSE k \in rows : k.seq = m.seq) = m
      OBVIOUS
  <2> QED
      BY <1>1, <2>1 DEF TranscriptOf
<1>3. ASSUME NEW i \in 1..n PROVE \E m \in rows : m.seq = i
  <2>1. i \in {m.seq : m \in rows}
      OBVIOUS
  <2> QED
      BY <2>1
<1> QED
    BY <1>1, <1>2, <1>3 DEF TranscriptOf

\* The database stands for a sequence of entries, one per message.
LEMMA TranscriptInOrder ==
    ASSUME TypeOK, Numbering
    PROVE  /\ LastSeq \in Nat
           /\ DOMAIN TranscriptOf(messages) = 1..LastSeq
           /\ \A m \in messages :
                 m.seq \in 1..LastSeq /\ TranscriptOf(messages)[m.seq] = Entry(m)
           /\ \A i \in 1..LastSeq : \E m \in messages : m.seq = i
BY MessagesCounted, RowsInOrder DEF Numbering, Seqs

\* An arriving request asks for its entry.
LEMMA ArriveAsks ==
    ASSUME IInv, NEW r \in Requests, NEW p \in Payload, Arrive(r, p)
    PROVE  Log!LogNext
<1>1. req[r] = NoPayload /\ req' = [req EXCEPT ![r] = p] /\ p # NoPayload
    BY SequencerAssumption DEF Arrive, IInv, Replies
<1>2. AskedBy(req)[r] = NoPayload /\ AskedBy(req') = [AskedBy(req) EXCEPT ![r] = Entry(p)]
    BY <1>1 DEF AskedBy, IInv, TypeOK
<1>3. Log!Ask(r, Entry(p))
    BY <1>2 DEF Arrive, db, Log!Ask, AskedBy
<1>4. Entry(p) \in [key : Keys, body : Bodies, sender : Senders]
    BY DEF Entry, Payload
<1> QED
    BY <1>3, <1>4 DEF Log!LogNext

\* An error answers a request that nobody has answered yet.
LEMMA RejectRefuses ==
    ASSUME NEW r \in Requests, NEW c \in Refusals, answer[r] = NoAnswer,
           answer' = [answer EXCEPT ![r] = Refused(c)], UNCHANGED <<messages, req>>
    PROVE  Log!LogNext
<1>1. TranscriptOf(messages') = TranscriptOf(messages) /\ AskedBy(req') = AskedBy(req)
    OBVIOUS
<1>2. Log!Refuse(r)
    BY <1>1 DEF Log!Refuse, TranscriptOf, AskedBy, Log!NoAnswer, NoAnswer,
                Log!Refused, Refused
<1> QED
    BY <1>2 DEF Log!LogNext

\* A final transaction appends its entry.
LEMMA CommitCommits ==
    ASSUME IInv, IInv', NEW r \in Requests, FinalCommit(r)
    PROVE  Log!LogNext
<1> DEFINE p == req[r]
           t == TranscriptOf(messages)
           new == TranscriptOf(messages')
           n == LastSeq
<1>1. /\ p \in Payload /\ p # NoPayload /\ answer[r] = NoAnswer
      /\ Entry(p) # NoPayload /\ AskedBy(req)[r] = Entry(p)
  <2>1. p \in Payload /\ p # NoPayload
      BY CommitPayload
  <2>2. Entry(p) \in [key : Keys, body : Bodies, sender : Senders]
      BY <2>1 DEF Entry, Payload
  <2>3. answer[r] = NoAnswer
      BY DEF FinalCommit, IInv, Replies, InFlight
  <2> QED
      BY <2>1, <2>2, <2>3, SequencerAssumption DEF AskedBy
<1>2. /\ n \in Nat /\ DOMAIN t = 1..n
      /\ \A m \in messages : m.seq \in 1..n /\ t[m.seq] = Entry(m)
      /\ \A i \in 1..n : \E m \in messages : m.seq = i
    BY TranscriptInOrder DEF IInv
<1>3. /\ LastSeq' = n + 1 /\ DOMAIN new = 1..(n + 1)
      /\ \A m \in messages' : m.seq \in 1..(n + 1) /\ new[m.seq] = Entry(m)
  <2>1. TypeOK' /\ Numbering'
      BY DEF IInv
  <2>2. (TypeOK /\ Numbering =>
            /\ DOMAIN TranscriptOf(messages) = 1..LastSeq
            /\ \A m \in messages :
                  m.seq \in 1..LastSeq /\ TranscriptOf(messages)[m.seq] = Entry(m))'
      BY TranscriptInOrder, PTL
  <2>3. LastSeq' = n + 1
      BY CommitAppends DEF IInv
  <2> QED
      BY <2>1, <2>2, <2>3
<1>4. messages' = messages \cup {NewMessage(r)}
    BY DEF FinalCommit, CommitRows, NewMessage
<1>5. \A i \in 1..n : t[i].key # Entry(p).key
  <2>1. \A m \in messages : m.key # p.key
      BY DEF FinalCommit, Storable
  <2>2. \A m \in messages : Entry(m).key # Entry(p).key
      BY <2>1 DEF Entry
  <2> HIDE DEF p, t, n
  <2> QED
      BY <1>2, <2>2
<1>6. new = Append(t, Entry(p))
  <2>1. \A i \in 1..n : new[i] = t[i]
    <3> HIDE DEF n, t, new
    <3> QED BY <1>2, <1>3, <1>4
  <2>2. new[n + 1] = Entry(p)
    <3> DEFINE m == NewMessage(r)
    <3>1. m.seq = n + 1 /\ Entry(m) = Entry(p) /\ m \in messages'
        BY <1>4 DEF NewMessage, Entry
    <3> HIDE DEF m, n, new, p
    <3> QED BY <1>3, <3>1
  <2>3. new = [i \in 1..(n + 1) |-> IF i = n + 1 THEN Entry(p) ELSE t[i]]
    <3>1. new = [i \in 1..(n + 1) |-> new[i]]
        BY <1>3 DEF TranscriptOf
    <3> HIDE DEF n, t, new
    <3> QED BY <2>1, <2>2, <3>1, <1>2
  <2>4. t \in Seq([key : Keys, body : Bodies, sender : Senders]) /\ Len(t) = n
    <3>1. \A i \in 1..n : t[i] \in [key : Keys, body : Bodies, sender : Senders]
      <4>1. \A m \in messages : Entry(m) \in [key : Keys, body : Bodies, sender : Senders]
          BY DEF IInv, TypeOK, Message, Entry
      <4> HIDE DEF n, t
      <4> QED BY <1>2, <4>1
    <3>2. t = [i \in 1..n |-> t[i]]
        BY <1>2 DEF TranscriptOf
    <3> HIDE DEF n, t
    <3> DEFINE S == [key : Keys, body : Bodies, sender : Senders]
    <3>3. t \in [1..n -> S]
        BY <3>1, <3>2
    <3> HIDE DEF S
    <3>4. t \in Seq(S) /\ Len(t) = n
        BY <1>2, <3>3
    <3> QED
        BY <3>4 DEF S
  <2>5. Append(t, Entry(p)) = [i \in 1..(n + 1) |-> IF i = n + 1 THEN Entry(p) ELSE t[i]]
    <3> HIDE DEF t, n
    <3> QED BY <1>2, <2>4
  <2> QED
      BY <2>3, <2>5
<1>7. Log!Commit(r)
  <2>1. UNCHANGED <<req, answer>>
      BY DEF FinalCommit
  <2> QED
    BY <1>1, <1>2, <1>5, <1>6, <2>1
    DEF Log!Commit, TranscriptOf, AskedBy, Log!NoAnswer, NoAnswer
<1> QED
    BY <1>7 DEF Log!LogNext

\* An answer names the position of the entry the request asked for.
LEMMA RespondAcknowledges ==
    ASSUME IInv, NEW r \in Requests, Respond(r)
    PROVE  Log!LogNext
<1>1. answer[r] = NoAnswer /\ req[r] # NoPayload /\ StoredIn(messages, req[r], result[r])
    BY DEF Respond, IInv, Replies, InFlight
<1>2. PICK m \in messages :
          /\ m.seq = result[r] /\ m.key = req[r].key
          /\ m.body = req[r].body /\ m.sender = req[r].sender
    BY <1>1 DEF StoredIn
<1>3. m.seq \in DOMAIN TranscriptOf(messages) /\ TranscriptOf(messages)[m.seq] = Entry(m)
    BY TranscriptInOrder DEF IInv
<1>4. Entry(m) = AskedBy(req)[r]
    BY <1>1, <1>2 DEF Entry, AskedBy
<1>5. answer' = [answer EXCEPT ![r] = Ok(m.seq)] /\ UNCHANGED <<messages, req>>
    BY <1>2 DEF Respond, db
<1>6. TranscriptOf(messages') = TranscriptOf(messages) /\ AskedBy(req') = AskedBy(req)
    BY <1>5
<1>7. Log!Acknowledge(r)
    BY <1>1, <1>3, <1>4, <1>5, <1>6
    DEF Log!Acknowledge, TranscriptOf, AskedBy, Log!NoAnswer, NoAnswer, Log!Ok, Ok
<1> QED
    BY <1>7 DEF Log!LogNext

\* A step of the sequencer is a step of the log or none at all.
LEMMA StepImplements ==
    ASSUME IInv, IInv', [Next]_vars
    PROVE  [Log!LogNext]_Log!mvars
<1>1. ASSUME UNCHANGED <<messages, req, answer>> PROVE UNCHANGED Log!mvars
    BY <1>1 DEF Log!mvars
<1>2. ASSUME NEW r \in Requests, UserPost(r) \/ RetryPost(r) \/ AgentPost(r)
      PROVE  Log!LogNext
  <2>1. req'[r] \in Payload
      BY <1>2, ArrivedPayload DEF IInv
  <2>2. Arrive(r, req'[r])
      BY <1>2 DEF UserPost, RetryPost, AgentPost, Arrive, IInv, TypeOK
  <2> QED
      BY <2>1, <2>2, ArriveAsks
<1>3. ASSUME NEW r \in Requests,
             \/ RetryUnknown(r) \/ PrepareRefuse(r) \/ ProjectionFailed(r)
             \/ FinalStale(r) \/ FinalIntegrityError(r)
      PROVE  Log!LogNext
  <2>1. answer[r] = NoAnswer
      BY <1>3 DEF RetryUnknown, PrepareRefuse, ProjectionFailed, FinalStale,
                  FinalIntegrityError, InFlight, IInv, Replies
  <2>2. \E c \in Refusals : answer' = [answer EXCEPT ![r] = Refused(c)]
    <3>1. CASE PrepareRefuse(r)
      <4>1. Refusal(req[r]) \in Refusals
          BY <3>1 DEF PrepareRefuse, Refusal, Refusals
      <4> QED
          BY <3>1, <4>1 DEF PrepareRefuse, Reject
    <3> QED
        BY <1>3, <3>1 DEF RetryUnknown, ProjectionFailed, FinalStale,
                          FinalIntegrityError, Reject, Refusals
  <2>3. UNCHANGED <<messages, req>>
      BY <1>3 DEF RetryUnknown, PrepareRefuse, ProjectionFailed, FinalStale,
                  FinalIntegrityError, db
  <2> QED
      BY <2>1, <2>2, <2>3, RejectRefuses
<1>4. ASSUME NEW r \in Requests,
             \/ PrepareReplay(r) \/ PreparePending(r) \/ ProjectionDone(r)
             \/ ProjectionError(r) \/ FinalStartOver(r)
      PROVE  UNCHANGED <<messages, req, answer>>
    BY <1>4 DEF PrepareReplay, PreparePending, ProjectionDone, ProjectionError,
                FinalStartOver, db
<1>5. ASSUME Crash \/ UNCHANGED vars PROVE UNCHANGED <<messages, req, answer>>
    BY <1>5 DEF Crash, db, vars
<1> QED
    BY <1>1, <1>2, <1>3, <1>4, <1>5, CommitCommits, RespondAcknowledges DEF Next, Handle

\* The initial states map to the empty log.
LEMMA InitImplements == Init => Log!LogInit
<1> SUFFICES ASSUME Init PROVE Log!LogInit
    OBVIOUS
<1>1. Cardinality(messages) = 0
    BY FS_EmptySet DEF Init
<1>2. TranscriptOf(messages) = <<>>
    BY <1>1 DEF TranscriptOf
<1> QED
    BY <1>2 DEF Init, Log!LogInit, TranscriptOf, Log!NoAnswer, NoAnswer

\* commit_message with its two transactions, its retries and its lost handlers
\* is to its callers an atomic append to a log that holds each key once.
THEOREM Refinement == Spec => ImplementsMessageLog
<1>1. IInv /\ IInv' /\ [Next]_vars => [Log!LogNext]_Log!mvars
    BY StepImplements
<1> QED
    BY <1>1, InitImplements, Invariance, PTL DEF Spec, ImplementsMessageLog, Log!LogSpec
=============================================================================
