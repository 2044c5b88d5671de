---------------------------- MODULE SequencerInv ----------------------------
(***************************************************************************)
(* The inductive invariant of Sequencer.  Its parts say what the safety    *)
(* properties need to know about the rows of the database and about the    *)
(* handlers between two of their transactions.                             *)
(***************************************************************************)
EXTENDS Sequencer

\* Message n, revision n and the snapshot of the first n messages belong
\* together, so MAX(conversation_seq) counts the messages.
Numbering ==
    /\ LastSeq \in Nat
    /\ Seqs = 1..LastSeq
    /\ {v.rev : v \in revisions} = 1..LastSeq
    /\ \A m \in messages : m.rev = m.seq
    /\ \A v \in revisions : v.covered = v.rev /\ v.refs = 1..v.rev
    /\ \A m, n \in messages : (m.seq = n.seq \/ m.key = n.key) => m = n

\* The handlers that prepared successfully and have not finished.
Prepared(r) == pc[r] \in {"project", "fail", "final"}

\* A checkpoint was the end of the transcript when it was taken.
Checkpoints ==
    \A r \in Requests : Prepared(r) =>
        /\ ckpt[r].seq <= LastSeq
        /\ ckpt[r].rev = ckpt[r].seq
        /\ ckpt[r].refs = 1..ckpt[r].seq
        /\ req[r].expected \in {AnySeq, ckpt[r].seq}
        /\ TargetsExist(req[r])

\* The request_hash of a submission never changes once it is there.
Hashes ==
    \A r \in Requests : Prepared(r) =>
        submissions[req[r].key].hash = {RequestHash(req[r])}

\* A handler about to answer "ok", and an answer "ok", stand for a stored message.
StoredIn(rows, p, n) ==
    \E m \in rows :
        m.seq = n /\ m.key = p.key /\ m.body = p.body /\ m.sender = p.sender

Replies ==
    \A r \in Requests :
        /\ pc[r] = "idle" => req[r] = NoPayload /\ answer[r] = NoAnswer
        /\ pc[r] \in InFlight => req[r] # NoPayload /\ answer[r] = NoAnswer
        /\ pc[r] = "reply" => StoredIn(messages, req[r], result[r])
        /\ answer[r].code = "ok" =>
              req[r] # NoPayload /\ StoredIn(messages, req[r], answer[r].seq)

\* Who may ask for what: users for their keys, workers for their runs, and
\* retries for whatever has been submitted before.
RunHash(k) == [body |-> RunOf[k].body, sender |-> RunOf[k].agent]
Requesters ==
    /\ \A k \in Runs : submissions[k].hash \in {{}, {RunHash(k)}}
    /\ \A r \in Requests : req[r] # NoPayload =>
          /\ req[r].key \in UserKeys => req[r].sender = User
          /\ req[r].key \in Runs =>
                \/ RequestHash(req[r]) = RunHash(req[r].key)
                \/ req[r].sender = User /\ submissions[req[r].key].hash # {}
          /\ req[r].sender = User => req[r].expected = AnySeq
          /\ req[r].sender # User => req[r].expected # AnySeq

IInv ==
    /\ TypeOK
    /\ Numbering
    /\ Checkpoints
    /\ Hashes
    /\ Replies
    /\ Requesters
    /\ AgentSawEverythingBefore
    /\ RunsSpeakForThemselves
    /\ RepliesFollowTargets
    /\ CommittedSubmissionHasItsMessage

\* What prepare has found within the budget still is, as long as the checkpoint
\* is current: nothing counts for an episode but a new message.
Budgets ==
    \A r \in Requests :
        Prepared(r) /\ ckpt[r].seq = LastSeq => ~OverBudget(req[r])

\* Of an episode without a message too.
HopsHold == \A e \in Episodes : ledger[e].hop <= MaxHops

EpisodeInv == Budgets /\ HopsHold /\ EpisodeBudgetHolds
=============================================================================
