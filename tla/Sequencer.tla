----------------------------- MODULE Sequencer ------------------------------
(***************************************************************************)
(* The public message sequencer of one conversation: commit_message and    *)
(* retry_submission of sequence_runtime.py, as run by the HTTP handlers    *)
(* post_conversation_message, post_retry_submission and                    *)
(* post_internal_agent_action of app.py.                                   *)
(*                                                                         *)
(* commit_message is an optimistic transaction in three parts: a prepare   *)
(* transaction takes a checkpoint of the transcript, the projection model  *)
(* runs outside every lock, and a final transaction commits only if the    *)
(* checkpoint is still current.  Each transaction holds the process lock   *)
(* of the conversation and BEGIN IMMEDIATE, so each is one action here;    *)
(* handlers interleave between them.                                       *)
(***************************************************************************)
EXTENDS Integers, Sequences, FiniteSets, FiniteSetsExt

CONSTANTS
    Requests,       \* the HTTP requests; each is sent at most once
    UserKeys,       \* client_message_ids that browsers choose
    Runs,           \* agent run ids, the client_message_id of agent messages
    Bodies,         \* message contents
    FailingBodies,  \* contents for which the projection script fails
    Agents,         \* the two agents of the profile
    NoPayload,      \* stands for the payload of a request not sent yet
    User,           \* sender of browser messages and of every retry
    Episodes,       \* causal episodes
    RunOf,          \* [Runs -> [agent, episode, hop, body]]: what a run submits
    ReplyTarget,    \* [UserKeys \cup Runs -> SUBSET keys]: messages it replies to
    MaxActions,     \* max_agent_actions_per_episode
    MaxPerAgent,    \* max_actions_per_agent_per_episode
    MaxHops         \* max_consecutive_agent_hops

Keys == UserKeys \cup Runs
Senders == Agents \cup {User}

AnySeq == -1        \* expected_conversation_seq is None

Payload == [key : Keys, body : Bodies, sender : Senders,
            expected : Nat \cup {AnySeq}]

ASSUME SequencerAssumption ==
    /\ IsFiniteSet(Requests)
    /\ UserKeys \cap Runs = {}
    /\ User \notin Agents
    /\ FailingBodies \subseteq Bodies
    /\ RunOf \in [Runs -> [agent : Agents, episode : Episodes, hop : Nat, body : Bodies]]
    /\ ReplyTarget \in [Keys -> SUBSET Keys]
    /\ NoPayload \notin Payload \cup [key : Keys, body : Bodies, sender : Senders]
    /\ MaxActions \in Nat /\ MaxPerAgent \in Nat /\ MaxHops \in Nat

VARIABLES
    \* the transcript database
    messages,       \* rows of messages
    revisions,      \* rows of cp_revisions, refs = seqs of the referenced messages
    submissions,    \* rows of submissions; hash stands for request_hash
    ledger,         \* rows of causal_episode_budget
    outbox,         \* rows of outbox_events, in rowid order
    \* one handler per request
    pc,
    req,            \* the payload of each request, once it has arrived
    ckpt,           \* the checkpoint its prepare transaction took
    result,         \* seq of the message it is about to return
    answer,         \* what the caller was told
    feed            \* message.committed events pushed to the workers, in order

db == <<messages, revisions, submissions, ledger, outbox>>
vars == <<messages, revisions, submissions, ledger, outbox,
          pc, req, ckpt, result, answer, feed>>
-----------------------------------------------------------------------------
Message == [seq : Nat, key : Keys, body : Bodies, sender : Senders, rev : Nat]
Revision == [rev : Nat, covered : Nat, refs : SUBSET Nat]
Hash == [body : Bodies, sender : Senders]
Submission == [status : {"absent", "pending", "failed", "committed"},
               hash : SUBSET Hash, seq : Nat]
Budget == [total : Nat, by : [Agents -> Nat], hop : Nat]
OutboxRow == [type : {"submission.status_changed", "message.committed",
                      "cp.revision_committed"},
              key : Keys, seq : Nat]
Checkpoint == [seq : Nat, rev : Nat, refs : SUBSET Nat]
Refusals == {"stale_sequence", "idempotency_conflict", "reply_target_not_found",
             "budget_exhausted", "projection_failed", "projection_stale",
             "submission_not_found", "internal_error"}
Resendable == {"stale_sequence", "projection_stale", "projection_failed",
               "idempotency_conflict"}
Answer == [code : Refusals \cup {"none", "ok"}, seq : Nat]

NoSubmission == [status |-> "absent", hash |-> {}, seq |-> 0]
NoCheckpoint == [seq |-> 0, rev |-> 0, refs |-> {}]
NoAnswer == [code |-> "none", seq |-> 0]
Ok(n) == [code |-> "ok", seq |-> n]
Refused(c) == [code |-> c, seq |-> 0]

InFlight == {"prepare", "project", "fail", "final", "reply"}

TypeOK ==
    /\ messages \in SUBSET Message
    /\ revisions \in SUBSET Revision
    /\ submissions \in [Keys -> Submission]
    /\ ledger \in [Episodes -> Budget]
    /\ outbox \in Seq(OutboxRow)
    /\ pc \in [Requests -> InFlight \cup {"idle", "done", "lost"}]
    /\ req \in [Requests -> Payload \cup {NoPayload}]
    /\ ckpt \in [Requests -> Checkpoint]
    /\ result \in [Requests -> Nat]
    /\ answer \in [Requests -> Answer]
    /\ feed \in Seq(Nat)

\* A conversation just started: empty transcript, no request yet.
Init ==
    /\ messages = {}
    /\ revisions = {}
    /\ submissions = [k \in Keys |-> NoSubmission]
    /\ ledger = [e \in Episodes |->
                    [total |-> 0, by |-> [a \in Agents |-> 0], hop |-> 0]]
    /\ outbox = <<>>
    /\ pc = [r \in Requests |-> "idle"]
    /\ req = [r \in Requests |-> NoPayload]
    /\ ckpt = [r \in Requests |-> NoCheckpoint]
    /\ result = [r \in Requests |-> 0]
    /\ answer = [r \in Requests |-> NoAnswer]
    /\ feed = <<>>
-----------------------------------------------------------------------------
\* SELECT COALESCE(MAX(conversation_seq), 0) FROM messages
LastSeq == Max({m.seq : m \in messages} \cup {0})

\* fetch_latest_cp_snapshot: the highest revision and what it references.
LastRev == Max({v.rev : v \in revisions} \cup {0})
Snapshot == UNION {v.refs : v \in {w \in revisions : w.rev = LastRev}}

\* Mutant: a request_hash without the sender.
RequestHashNoSender(p) == [body |-> p.body, sender |-> User]

RequestHash(p) == [body |-> p.body, sender |-> p.sender]

\* Mutant: a schema without UNIQUE(client_message_id).
StorableAnyKey(seq, key) == \A m \in messages : m.seq # seq

\* The UNIQUE constraints on messages.conversation_seq and client_message_id.
\* An agent message's idempotency_key is its run id again.
Storable(seq, key) == \A m \in messages : m.seq # seq /\ m.key # key

\* validate_message_payload: every message replied to must exist.
TargetsExist(p) == \A k \in ReplyTarget[p.key] : \E m \in messages : m.key = k

\* Mutant: off by one, and the limit per agent is forgotten.
OverBudgetLate(p) ==
    /\ p.sender \in Agents
    /\ \/ RunOf[p.key].hop > MaxHops
       \/ ledger[RunOf[p.key].episode].total > MaxActions

\* enforce_episode_budget; it does not look at messages of users.
OverBudget(p) ==
    /\ p.sender \in Agents
    /\ LET run == RunOf[p.key]
           row == ledger[run.episode]
       IN  \/ run.hop > MaxHops
           \/ row.total + 1 > MaxActions
           \/ row.by[p.sender] + 1 > MaxPerAgent

\* Mutants of the next operator: each leaves a test out, or moves it.
RefusalLater(p) ==
    IF submissions[p.key].status = "committed" THEN "none"
    ELSE IF ~TargetsExist(p) THEN "reply_target_not_found"
    ELSE IF OverBudget(p) THEN "budget_exhausted"
    ELSE "none"
RefusalNoSequence(p) ==
    IF submissions[p.key].hash \notin {{}, {RequestHash(p)}}
    THEN "idempotency_conflict" ELSE RefusalLater(p)
RefusalNoConflict(p) ==
    IF p.expected \notin {AnySeq, LastSeq} THEN "stale_sequence"
    ELSE RefusalLater(p)
RefusalReplayFirst(p) ==
    IF p.expected \notin {AnySeq, LastSeq} THEN "stale_sequence"
    ELSE IF submissions[p.key].status = "committed" THEN "none"
    ELSE RefusalNoSequence(p)

\* The early errors of _prepare_commit, in the order the code tests them.
Refusal(p) ==
    IF p.expected \notin {AnySeq, LastSeq} THEN "stale_sequence"
    ELSE IF submissions[p.key].hash \notin {{}, {RequestHash(p)}}
         THEN "idempotency_conflict"
    ELSE IF submissions[p.key].status = "committed" THEN "none"
    ELSE IF ~TargetsExist(p) THEN "reply_target_not_found"
    ELSE IF OverBudget(p) THEN "budget_exhausted"
    ELSE "none"
-----------------------------------------------------------------------------
(* Requests arrive *)

Arrive(r, p) ==
    /\ pc[r] = "idle"
    /\ pc' = [pc EXCEPT ![r] = "prepare"]
    /\ req' = [req EXCEPT ![r] = p]
    /\ UNCHANGED <<db, ckpt, result, answer, feed>>

\* A browser posts a message, possibly one it has posted before: it retries
\* when the response is lost or late, with the first attempt still running.
UserPost(r) ==
    \E k \in UserKeys, b \in Bodies :
        Arrive(r, [key |-> k, body |-> b, sender |-> User, expected |-> AnySeq])

\* retry_submission of a known submission rebuilds the payload from its row,
\* but always as a message of the user and without an expected sequence.
RetryPost(r) ==
    \E k \in Keys : \E h \in submissions[k].hash :
        Arrive(r, [key |-> k, body |-> h.body, sender |-> User, expected |-> AnySeq])

\* Answered before a payload exists.
RetryUnknown(r) ==
    /\ pc[r] = "idle"
    /\ \E k \in Keys : submissions[k] = NoSubmission
    /\ pc' = [pc EXCEPT ![r] = "done"]
    /\ answer' = [answer EXCEPT ![r] = Refused("submission_not_found")]
    /\ UNCHANGED <<db, req, ckpt, result, feed>>

\* The submit loop of a worker: one request at a time per run, sent again
\* only after a refusal its loop continues on, with a sequence it has learnt.  A worker
\* whose request is lost dies with its run.
AgentPost(r) ==
    \E run \in Runs :
        /\ \A q \in Requests :
              (req[q] # NoPayload /\ req[q].key = run /\ req[q].sender # User) =>
                  pc[q] = "done" /\ answer[q].code \in Resendable
        /\ \E n \in 0..LastSeq :
              Arrive(r, [key |-> run, body |-> RunOf[run].body,
                         sender |-> RunOf[run].agent, expected |-> n])
-----------------------------------------------------------------------------
(* The prepare transaction *)

Reject(r, code) ==
    /\ pc' = [pc EXCEPT ![r] = "done"]
    /\ answer' = [answer EXCEPT ![r] = Refused(code)]

\* An AppError inside the transaction rolls it back.
PrepareRefuse(r) ==
    /\ pc[r] = "prepare"
    /\ Refusal(req[r]) # "none"
    /\ Reject(r, Refusal(req[r]))
    /\ UNCHANGED <<db, req, ckpt, result, feed>>

\* Mutant: the latest message is returned instead.
PrepareReplayLatest(r) ==
    /\ pc[r] = "prepare"
    /\ Refusal(req[r]) = "none"
    /\ submissions[req[r].key].status = "committed"
    /\ pc' = [pc EXCEPT ![r] = "reply"]
    /\ result' = [result EXCEPT ![r] = LastSeq]
    /\ UNCHANGED <<db, req, ckpt, answer, feed>>

\* The submission is committed already: return the message it points to.
PrepareReplay(r) ==
    /\ pc[r] = "prepare"
    /\ Refusal(req[r]) = "none"
    /\ submissions[req[r].key].status = "committed"
    /\ pc' = [pc EXCEPT ![r] = "reply"]
    /\ result' = [result EXCEPT ![r] = submissions[req[r].key].seq]
    /\ UNCHANGED <<db, req, ckpt, answer, feed>>

\* Upsert the submission as pending (message_id keeps its value) and take
\* the checkpoint.
PreparePending(r) ==
    /\ pc[r] = "prepare"
    /\ Refusal(req[r]) = "none"
    /\ submissions[req[r].key].status # "committed"
    /\ submissions' = [submissions EXCEPT
                          ![req[r].key].status = "pending",
                          ![req[r].key].hash = {RequestHash(req[r])}]
    /\ ckpt' = [ckpt EXCEPT ![r] = [seq |-> LastSeq, rev |-> LastRev,
                                    refs |-> Snapshot]]
    /\ pc' = [pc EXCEPT ![r] = "project"]
    /\ UNCHANGED <<messages, revisions, ledger, outbox, req, result, answer, feed>>
-----------------------------------------------------------------------------
(* The projection, outside the lock *)

\* The model call succeeded, or the attempt ledger (LlmLedger) refused its
\* admission and the degraded APPEND_CURRENT took its place, whatever the
\* script says: next_revision and a new snapshot either way.
ProjectionDone(r) ==
    /\ pc[r] = "project"
    /\ pc' = [pc EXCEPT ![r] = "final"]
    /\ UNCHANGED <<db, req, ckpt, result, answer, feed>>

ProjectionError(r) ==
    /\ pc[r] = "project"
    /\ req[r].body \in FailingBodies
    /\ pc' = [pc EXCEPT ![r] = "fail"]
    /\ UNCHANGED <<db, req, ckpt, result, answer, feed>>

\* The update does not look at the status it overwrites.
MarkSubmissionFailed(k) ==
    submissions' = [submissions EXCEPT ![k].status = "failed"]

ProjectionFailed(r) ==
    /\ pc[r] = "fail"
    /\ MarkSubmissionFailed(req[r].key)
    /\ Reject(r, "projection_failed")
    /\ UNCHANGED <<messages, revisions, ledger, outbox, req, ckpt, result, feed>>
-----------------------------------------------------------------------------
(* The final transaction *)

\* Mutant: the projection is stored without checking its checkpoint again.
CheckpointTrusted(r) == TRUE

CheckpointCurrent(r) == ckpt[r].seq = LastSeq /\ ckpt[r].rev = LastRev

FinalStartOver(r) ==
    /\ pc[r] = "final"
    /\ ~CheckpointCurrent(r)
    /\ req[r].expected = AnySeq
    /\ pc' = [pc EXCEPT ![r] = "prepare"]
    /\ UNCHANGED <<db, req, ckpt, result, answer, feed>>

FinalStale(r) ==
    /\ pc[r] = "final"
    /\ ~CheckpointCurrent(r)
    /\ req[r].expected # AnySeq
    /\ MarkSubmissionFailed(req[r].key)
    /\ Reject(r, "projection_stale")
    /\ UNCHANGED <<messages, revisions, ledger, outbox, req, ckpt, result, feed>>

\* record_episode_budget
BudgetAfter(row, agent, hop) ==
    [total |-> row.total + 1,
     by |-> [row.by EXCEPT ![agent] = @ + 1],
     hop |-> Max({row.hop, hop})]

RecordBudget(p) ==
    IF p.sender \in Agents
    THEN LET e == RunOf[p.key].episode IN
         ledger' = [ledger EXCEPT
                       ![e] = BudgetAfter(ledger[e], p.sender, RunOf[p.key].hop)]
    ELSE UNCHANGED ledger

CommitRows(r, p, seq, rev) ==
    /\ messages' = messages \cup
          {[seq |-> seq, key |-> p.key, body |-> p.body, sender |-> p.sender,
            rev |-> rev]}
    /\ revisions' = revisions \cup
          {[rev |-> rev, covered |-> seq, refs |-> ckpt[r].refs \cup {seq}]}
    /\ submissions' = [submissions EXCEPT ![p.key].status = "committed",
                                          ![p.key].seq = seq]
    /\ outbox' = outbox \o
          <<[type |-> "submission.status_changed", key |-> p.key, seq |-> 0],
            [type |-> "message.committed", key |-> p.key, seq |-> seq],
            [type |-> "cp.revision_committed", key |-> p.key, seq |-> seq]>>

FinalCommit(r) ==
    LET seq == LastSeq + 1 IN
    /\ pc[r] = "final"
    /\ CheckpointCurrent(r)
    /\ Storable(seq, req[r].key)
    /\ CommitRows(r, req[r], seq, ckpt[r].rev + 1)
    /\ RecordBudget(req[r])
    /\ result' = [result EXCEPT ![r] = seq]
    /\ pc' = [pc EXCEPT ![r] = "reply"]
    /\ UNCHANGED <<req, ckpt, answer, feed>>

\* Mutant: the integrity error is handled like a stale checkpoint.
IntegrityErrorStartsOver(r) ==
    /\ pc[r] = "final"
    /\ CheckpointCurrent(r)
    /\ ~Storable(LastSeq + 1, req[r].key)
    /\ pc' = [pc EXCEPT ![r] = "prepare"]
    /\ UNCHANGED <<db, req, ckpt, result, answer, feed>>

\* The INSERT violates a UNIQUE constraint: rolled back, answered with a 500.
FinalIntegrityError(r) ==
    /\ pc[r] = "final"
    /\ CheckpointCurrent(r)
    /\ ~Storable(LastSeq + 1, req[r].key)
    /\ Reject(r, "internal_error")
    /\ UNCHANGED <<db, req, ckpt, result, feed>>

\* After the commit, outside the lock: push the message to the workers and
\* answer.  A replayed message is pushed again.
Respond(r) ==
    /\ pc[r] = "reply"
    /\ feed' = Append(feed, result[r])
    /\ answer' = [answer EXCEPT ![r] = Ok(result[r])]
    /\ pc' = [pc EXCEPT ![r] = "done"]
    /\ UNCHANGED <<db, req, ckpt, result>>
-----------------------------------------------------------------------------
\* The server process dies: every handler is gone, the database remains.
Crash ==
    /\ \E r \in Requests : pc[r] \in InFlight
    /\ pc' = [r \in Requests |-> IF pc[r] \in InFlight THEN "lost" ELSE pc[r]]
    /\ UNCHANGED <<db, req, ckpt, result, answer, feed>>

Handle(r) ==
    \/ PrepareRefuse(r)
    \/ PrepareReplay(r)
    \/ PreparePending(r)
    \/ ProjectionDone(r)
    \/ ProjectionError(r)
    \/ ProjectionFailed(r)
    \/ FinalStartOver(r)
    \/ FinalStale(r)
    \/ FinalCommit(r)
    \/ FinalIntegrityError(r)
    \/ Respond(r)

Next ==
    \/ \E r \in Requests :
          \/ UserPost(r)
          \/ RetryPost(r)
          \/ RetryUnknown(r)
          \/ AgentPost(r)
          \/ Handle(r)
    \/ Crash

Spec == Init /\ [][Next]_vars

\* The thread pool runs every handler; nothing obliges a client to send.
FairSpec == Spec /\ \A r \in Requests : WF_vars(Handle(r))
-----------------------------------------------------------------------------
(* Safety *)

Seqs == {m.seq : m \in messages}

\* The transcript is totally ordered without gaps and a client_message_id is
\* in it at most once, however often and concurrently it is submitted.
GaplessAndOnce ==
    /\ Seqs = 1..LastSeq
    /\ \A m, n \in messages : (m.seq = n.seq \/ m.key = n.key) => m = n

\* Every message has a projection revision of its own, computed from exactly
\* the messages before it: a projection that ran on an outdated checkpoint
\* never reaches the database.
ProjectionCoversTranscript ==
    /\ LastRev = LastSeq
    /\ Snapshot = Seqs
    /\ \A m \in messages :
          [rev |-> m.rev, covered |-> m.seq, refs |-> 1..m.seq] \in revisions

\* A caller that was told "ok" was told the position at which its own message,
\* with its own content, is stored; nothing takes it away again.
AcknowledgedIsStored ==
    \A r \in Requests : answer[r].code = "ok" =>
        \E m \in messages :
            /\ m.seq = answer[r].seq
            /\ m.key = req[r].key
            /\ m.body = req[r].body
            /\ m.sender = req[r].sender

\* No message stands between what an agent had seen when it submitted and its
\* own message.
AgentSawEverythingBefore ==
    \A m \in messages : m.sender \in Agents =>
        \E r \in Requests :
            /\ req[r] # NoPayload
            /\ req[r].key = m.key
            /\ req[r].sender = m.sender
            /\ req[r].expected + 1 = m.seq

\* However the two agents race, the messages of an episode stay within the
\* limits of the budget module, and the ledger counts them exactly.
EpisodeMessages(e) ==
    {m \in messages : m.sender \in Agents /\ RunOf[m.key].episode = e}
EpisodeBudgetHolds ==
    \A e \in Episodes :
        /\ ledger[e].total = Cardinality(EpisodeMessages(e))
        /\ ledger[e].total <= MaxActions
        /\ \A a \in Agents :
              /\ ledger[e].by[a] =
                    Cardinality({m \in EpisodeMessages(e) : m.sender = a})
              /\ ledger[e].by[a] <= MaxPerAgent
        /\ \A m \in EpisodeMessages(e) :
              RunOf[m.key].hop <= ledger[e].hop /\ ledger[e].hop <= MaxHops

\* What a run submitted is only ever published under the agent's name, even
\* when somebody retries its failed submission through the browser's API.
RunsSpeakForThemselves ==
    \A m \in messages :
        m.sender = IF m.key \in Runs THEN RunOf[m.key].agent ELSE User

\* A message is later in the transcript than everything it replies to.
RepliesFollowTargets ==
    \A m \in messages : \A k \in ReplyTarget[m.key] :
        \E t \in messages : t.key = k /\ t.seq < m.seq

\* A submission shown as committed points at the message with its content.
CommittedSubmissionHasItsMessage ==
    \A k \in Keys : submissions[k].status = "committed" =>
        \E m \in messages :
            /\ m.key = k
            /\ m.seq = submissions[k].seq
            /\ submissions[k].hash = {[body |-> m.body, sender |-> m.sender]}

\* docs/architecture.md:767: a duplicate request, concurrent ones included,
\* gets the original response.  Once its message is there, a request with the
\* same payload is not answered with an error.
DuplicateGetsOriginalResponse ==
    [][\A r \in Requests :
          (/\ answer[r] = NoAnswer
           /\ req[r] # NoPayload
           /\ answer'[r] # NoAnswer
           /\ \E m \in messages :
                 /\ m.key = req[r].key
                 /\ m.body = req[r].body
                 /\ m.sender = req[r].sender)
          => answer'[r].code = "ok"]_vars

(* Liveness *)

\* Every request that arrived is answered unless the server dies under it:
\* starting over ends, and no error path leaves the handler hanging.
HandlersFinish ==
    \A r \in Requests : pc[r] \in InFlight ~> pc[r] \in {"done", "lost"}
-----------------------------------------------------------------------------
(* Refinement *)

Entry(p) == [key |-> p.key, body |-> p.body, sender |-> p.sender]

Log == INSTANCE MessageLog WITH
    Entries <- [key : Keys, body : Bodies, sender : Senders],
    Nothing <- NoPayload,
    transcript <- [n \in 1..Cardinality(messages) |->
                      Entry(CHOOSE m \in messages : m.seq = n)],
    asked <- [r \in Requests |->
                 IF req[r] = NoPayload THEN NoPayload ELSE Entry(req[r])]

\* The optimistic transaction behaves like an atomic append to an idempotent
\* log, through every interleaving, failure and crash.
ImplementsMessageLog == Log!LogSpec
=============================================================================
