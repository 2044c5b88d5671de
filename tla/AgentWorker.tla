---------------------------- MODULE AgentWorker -----------------------------
(***************************************************************************)
(* The worker process of one agent (worker_main.py), with what it talks    *)
(* to: the transcript, the socket on which the server hands it messages    *)
(* and control events, the record that the server keeps of it              *)
(* (RunAuthority) and the supervisor that restarts it.  Users and the      *)
(* other agent of the conversation are its environment.                    *)
(*                                                                         *)
(* The process is one loop.  It looks at its socket only between runs, in  *)
(* the pause before a draft is sent and in the backoff of a failed model   *)
(* call.  A step here ends where the loop waits for the server, which      *)
(* answers model calls and stores messages as MessageLog says.             *)
(***************************************************************************)
EXTENDS RunAuthority, FiniteSets, FiniteSetsExt, SequencesExt

CONSTANTS
    Me, Peer,        \* the agent of this worker and the other one
    User,            \* whoever posts from a browser
    UserMentions,    \* who user messages mention
    PeerMentions,    \* who messages of the other agent mention
    RelayOwner,      \* the agent that answers handoffs: first of the sorted ids
    MaxMessages,     \* bound on the transcript
    MaxRuns,         \* bound on the runs
    MaxRetries,      \* retries of a model call (the schedule has two)
    MaxSubmitRetries,\* all_mention_submit_retries, 3 in the code
    MaxPauses,       \* bound on pauses
    MaxFaults        \* bound on crashes, signals and restarts

Agents == {Me, Peer}

ASSUME WorkerAssumption ==
    /\ Me # Peer /\ User \notin Agents
    /\ UserMentions \subseteq SUBSET Agents /\ PeerMentions \subseteq SUBSET {Me}
    /\ RelayOwner \in Agents
    /\ MaxMessages \in Nat /\ MaxRuns \in Nat
    /\ MaxRetries \in Nat /\ MaxSubmitRetries \in Nat
    /\ MaxPauses \in Nat /\ MaxFaults \in Nat

VARIABLES
    log,         \* rows of messages
    conv,        \* status of the conversation
    coming,      \* messages on their way: not published or not processed
    registered,  \* _connections has a socket for the agent
    closing,     \* a handler has to notice that a dead worker's socket closed
    replay,      \* what the ws handler has to send before it only waits
    wire,        \* control events sent to the worker and not processed
    row, runs,   \* agent_runtime_state and agent_runs of the agent
    saved,       \* reliable_seq of the row
    requests,    \* agent-actions the server has not answered
    pc,          \* where the loop of the worker is
    w,           \* its WorkerState
    reply,       \* the answer to its last submission
    pauses, faults

server == <<log, conv, coming, requests>>
socket == <<registered, closing, replay, wire>>
record == <<row, runs, saved>>
vars == <<server, socket, record, pc, w, reply, pauses, faults>>
-----------------------------------------------------------------------------
(* State *)

NoEpisode == 0
Message == [from : Agents \cup {User}, mentions : SUBSET Agents, episode : Nat,
            cause : Nat, hop : Nat, run : Nat]

\* observed is not stored: the messages that the run answers.
Run == [observed : SUBSET Nat, cause : Nat, episode : Nat, hop : Nat,
        status : RunStatus]

Status == {"running", "paused"}

Places == {"down", "gone", "starting", "connecting", "idle", "deciding", "acting",
           "waiting", "reconsidering", "backoff", "submitting"}

Worker == [after : Nat, reliable : Nat, active : Nat, expected : Nat,
           dirty : Nat, pending : Seq(Nat), roots : Seq(Nat),
           everyone : BOOLEAN, direct : BOOLEAN, rooted : SUBSET Nat,
           paused : BOOLEAN, typing : BOOLEAN, stop : BOOLEAN,
           phase : {"deciding", "acting", "reconsidering"},
           retries : Nat, submits : Nat,
           known : Nat,        \* history: how far the run has taken the transcript
                               \* into account
           retried : BOOLEAN]  \* history: a reconsideration of it was tried again

NewWorker(seq) ==
    [after |-> seq, reliable |-> seq, active |-> NoRun, expected |-> 0,
     dirty |-> 0, pending |-> <<>>, roots |-> <<>>, everyone |-> FALSE,
     direct |-> FALSE, rooted |-> {}, paused |-> FALSE, typing |-> FALSE,
     stop |-> FALSE, phase |-> "deciding", retries |-> 0, submits |-> 0,
     known |-> 0, retried |-> FALSE]

Reply == [type : {"none", "stored", "conflict", "notRunning", "budget", "projection"},
          seq : Nat]
NoReply == [type |-> "none", seq |-> 0]

\* A post to agent-actions, before and after the status was looked at.
Request == [run : Nat, expected : Nat, checked : BOOLEAN]

Unqueried == -1
NoReplay == [next |-> 1, upto |-> 0]
NothingSaved == -1

Alive == pc \notin {"down", "gone", "starting", "connecting"}

TypeOK ==
    /\ log \in Seq(Message)
    /\ conv \in Status
    /\ coming \subseteq Nat
    /\ registered \in BOOLEAN /\ closing \in BOOLEAN
    /\ replay \in [next : Nat, upto : Nat \cup {Unqueried}]
    /\ wire \in Seq(Status)
    /\ row \in Rows
    /\ runs \in Seq(Run)
    /\ saved \in Nat \cup {NothingSaved}
    /\ requests \subseteq Request
    /\ pc \in Places
    /\ w \in Worker
    /\ reply \in Reply
    /\ pauses \in Nat /\ faults \in Nat

Init ==
    /\ log = <<>>
    /\ conv = "running"
    /\ coming = {}
    /\ registered = FALSE /\ closing = FALSE
    /\ replay = NoReplay
    /\ wire = <<>>
    /\ row = NoRow /\ runs = <<>> /\ saved = NothingSaved
    /\ requests = {}
    /\ pc = "starting"
    /\ w = NewWorker(0)
    /\ reply = NoReply
    /\ pauses = 0 /\ faults = 0

-----------------------------------------------------------------------------
(* The conversation: users, the other agent, pauses *)

\* A message is stored; its handler publishes it afterwards.
Commit(m) ==
    /\ Len(log) < MaxMessages
    /\ log' = Append(log, m)
    /\ coming' = coming \cup {Len(log) + 1}

\* post_conversation_message.  It looked at the status before it computed the
\* projection, so the message may come after a pause; so may those of the peer.
UserPosts ==
    /\ \E mentions \in UserMentions :
          Commit([from |-> User, mentions |-> mentions, episode |-> NoEpisode,
                   cause |-> 0, hop |-> 0, run |-> NoRun])
    /\ UNCHANGED <<conv, requests, socket, record, pc, w, reply, pauses, faults>>

\* The episode and the hop of a run that answers message s, by whether the
\* worker still holds s for a root.
EpisodeFor(s, root) == IF root THEN s ELSE log[s].episode
HopFor(s, root) == IF root THEN 0 ELSE log[s].hop + 1

\* The worker of the other agent, abstracted to what it may store.
PeerPosts ==
    /\ \E s \in DOMAIN log, mentions \in PeerMentions :
          /\ log[s].from # Peer
          /\ \E root \in {FALSE, log[s].from = User} :
                Commit([from |-> Peer, mentions |-> mentions,
                         episode |-> EpisodeFor(s, root), cause |-> s,
                         hop |-> HopFor(s, root), run |-> NoRun])
    /\ UNCHANGED <<conv, requests, socket, record, pc, w, reply, pauses, faults>>

\* pause and resume change the status and publish it.
ChangeStatus(from, to) ==
    /\ conv = from
    /\ conv' = to
    /\ wire' = IF registered /\ Alive THEN Append(wire, to) ELSE wire
    /\ UNCHANGED <<log, coming, requests, registered, closing, replay, record,
                   pc, w, reply, faults>>

Pause ==
    /\ pauses < MaxPauses
    /\ pauses' = pauses + 1
    /\ ChangeStatus("running", "paused")

Resume ==
    /\ UNCHANGED pauses
    /\ ChangeStatus("paused", "running")

\* A message is published while no worker has a socket, or its socket dies.
Unheard ==
    /\ ~registered \/ ~Alive
    /\ \E s \in coming : coming' = coming \ {s}
    /\ UNCHANGED <<log, conv, requests, socket, record, pc, w, reply, pauses, faults>>
-----------------------------------------------------------------------------
(* Start of a process and its socket *)

\* The snapshot of the server says where the process takes up.
Boot ==
    /\ pc = "starting"
    /\ pc' = "connecting"
    /\ w' = NewWorker(IF saved = NothingSaved THEN Len(log) ELSE saved)
    /\ UNCHANGED <<server, socket, record, reply, pauses, faults>>

\* replay_events sends what has a greater number than the process began with.
\* Mutant: the replay starts one too late.
FirstMissedSkipsOne == w.after + 2
FirstMissed == w.after + 1

\* internal_agent_stream registers the socket first and then reads what the
\* worker has missed.
Register ==
    /\ pc = "connecting"
    /\ pc' = "idle"
    /\ registered' = TRUE
    /\ replay' = [next |-> FirstMissed, upto |-> Unqueried]
    /\ UNCHANGED <<server, closing, wire, record, w, reply, pauses, faults>>

ReplayQuery ==
    /\ replay.upto = Unqueried
    /\ replay' = [replay EXCEPT !.upto = Len(log)]
    /\ UNCHANGED <<server, registered, closing, wire, record, pc, w, reply, pauses, faults>>

\* The handler of a socket whose process has died removes the registration of
\* the agent, which may be that of the next process by now.
SocketClosed ==
    /\ closing
    /\ closing' = FALSE /\ registered' = FALSE
    /\ UNCHANGED <<server, replay, wire, record, pc, w, reply, pauses, faults>>
-----------------------------------------------------------------------------
(* Posts of the worker *)

\* Every status post stores the worker's reliable_seq.
Post(newRow, newRuns) == row' = newRow /\ runs' = newRuns /\ saved' = w'.reliable

WithStatus(r, status) == [runs EXCEPT ![r].status = status]

\* The end of a run: its last status, typing off, LISTENING.
Finish(status) ==
    LET r == w.active
        stopped == TypingStop(StatusPost(row, r, status, w.phase), r)
    IN  Post(StatePost(stopped, "LISTENING"), WithStatus(r, status))

\* What the loop forgets with a run, whose other fields are its locals.
\* Mutant: the worker forgets to reset active_run_id after a run.
SilencedStillActive == [w EXCEPT !.dirty = 0, !.typing = FALSE]
Silenced == [w EXCEPT !.active = NoRun, !.dirty = 0, !.typing = FALSE,
                      !.everyone = FALSE, !.direct = FALSE,
                      !.phase = "deciding", !.retries = 0, !.submits = 0,
                      !.known = 0, !.retried = FALSE]
Cleared == [Silenced EXCEPT !.expected = 0, !.roots = <<>>]

EndRun ==
    /\ w' = Cleared
    /\ pc' = "idle"
    /\ Finish("ENDED")
-----------------------------------------------------------------------------
(* Events: process_runtime_event *)

\* A peer that answers the root message of an episode this worker takes part in.
Handoff(m) == m.episode \in w.rooted /\ m.cause = m.episode /\ m.hop = 0

ShouldQueue(m) ==
    \/ m.from = User /\ (m.mentions = {} \/ Me \in m.mentions)
    \/ m.from = Peer /\ Me \in m.mentions /\ (Handoff(m) => RelayOwner = Me)

ReceiveMessage(s) ==
    LET m == log[s]
        queued == ShouldQueue(m)
    IN  /\ w' = [w EXCEPT
                  !.reliable = Max({@, s}),
                  !.pending = IF queued THEN Append(@, s) ELSE @,
                  !.roots = IF queued /\ m.from = User THEN Append(@, s) ELSE @,
                  !.dirty = IF w.active # NoRun /\ m.from # Me THEN s ELSE @]
        /\ UNCHANGED record

\* The run is given up, and every post of it acknowledges the pause.
ReceivePause ==
    LET r == w.active
        quiet == IF w.typing THEN TypingStop(row, r) ELSE row
    IN  /\ w' = [w EXCEPT !.paused = TRUE, !.typing = FALSE, !.active = NoRun]
        /\ IF r = NoRun
           THEN Post(StatePost(quiet, "PAUSED"), runs)
           ELSE Post(StatePost(StatusPost(quiet, r, "ENDED", "PAUSED"), "PAUSED"),
                     WithStatus(r, "ENDED"))

ReceiveResume ==
    /\ w' = [w EXCEPT !.paused = FALSE]
    /\ Post(StatePost(row, "LISTENING"), runs)

\* pump_events of the idle loop and advance_with_pump of a pause.
Pumping ==
    \/ pc = "idle"
    \/ pc \in {"backoff", "waiting"} /\ ~w.paused /\ w.active # NoRun

\* The next thing on the socket.  Handlers publish messages in any order, and
\* the replay mixes with what is published meanwhile.
Receive ==
    /\ Pumping /\ ~w.stop
    /\ \/ \E s \in coming : /\ registered
                            /\ coming' = coming \ {s}
                            /\ ReceiveMessage(s)
                            /\ UNCHANGED <<replay, wire>>
       \/ /\ replay.next <= replay.upto
          /\ replay' = [replay EXCEPT !.next = @ + 1]
          /\ ReceiveMessage(replay.next)
          /\ UNCHANGED <<coming, wire>>
       \/ /\ wire # <<>> /\ wire' = Tail(wire)
          /\ IF Head(wire) = "paused" THEN ReceivePause ELSE ReceiveResume
          /\ UNCHANGED <<coming, replay>>
    /\ UNCHANGED <<log, conv, requests, registered, closing, pc, reply, pauses, faults>>
-----------------------------------------------------------------------------
(* A run *)

\* The elements of s other than x, in their order.
Without(s, x) ==
    LET kept == {i \in DOMAIN s : s[i] # x}
        place(i) == Cardinality({j \in kept : j <= i})
    IN  [k \in 1..Cardinality(kept) |-> s[CHOOSE i \in kept : place(i) = k]]

\* The first pending message that is a root goes alone; the others stay.
RootsPending == {i \in DOMAIN w.pending : w.pending[i] \in ToSet(w.roots)}
Batch == IF RootsPending = {} THEN w.pending ELSE <<w.pending[Min(RootsPending)]>>
\* Mutant: what is left of a batch is not put back.
DeferredDropped == <<>>
Deferred == IF RootsPending = {} THEN <<>> ELSE Without(w.pending, Batch[1])
\* Mutant: pending_roots is not restricted to the batch.
BatchRootsUnfiltered == w.roots
BatchRoots == IF RootsPending = {} THEN <<>> ELSE Batch

\* The snapshot that the run fetches has every message that is stored by then.
StartRun ==
    LET s == Last(Batch)
        m == log[s]
        root == BatchRoots # <<>>
        r == Len(runs) + 1
        first == IF Handoff(m) THEN Max({w.reliable, s}) ELSE s
        everyone == Agents \subseteq m.mentions
    IN  /\ pc = "idle" /\ ~w.stop /\ ~w.paused /\ r <= MaxRuns
        /\ w.active = NoRun /\ w.pending # <<>>
        /\ pc' = "deciding"
        /\ w' = [w EXCEPT
                  !.pending = Deferred, !.roots = BatchRoots, !.active = r,
                  !.expected = first, !.everyone = everyone,
                  !.direct = Me \in m.mentions, !.typing = Me \in m.mentions,
                  !.rooted = IF root THEN @ \cup {s} ELSE @,
                  !.phase = "deciding", !.retries = 0, !.submits = 0,
                  !.known = Len(log)]
        /\ LET posted == StatusPost(row, r, "RUNNING", "DECIDING")
           IN  Post(IF Me \in m.mentions THEN TypingStart(posted, r) ELSE posted,
                    Append(runs, [observed |-> ToSet(Batch), cause |-> s,
                                  episode |-> EpisodeFor(s, root), hop |-> HopFor(s, root),
                                  status |-> "RUNNING"]))
        /\ UNCHANGED <<server, socket, reply, pauses, faults>>

\* A model call is under way.
Calling == pc \in {"deciding", "acting", "reconsidering"}
Elsewhere == <<server, socket, reply, pauses, faults>>

Phase(p) == /\ pc' = p
            /\ w' = [w EXCEPT !.phase = p, !.retries = 0, !.typing = TRUE]
            /\ row' = TypingStart(row, w.active)
            /\ UNCHANGED <<runs, saved>>

DecideToReply ==
    /\ pc = "deciding" /\ ~w.stop
    /\ Phase("acting")
    /\ UNCHANGED Elsewhere

\* SILENT leaves the roots behind (and the expected number, which StartRun sets).
DecideSilence ==
    /\ pc = "deciding" /\ ~w.stop /\ ~w.direct
    /\ pc' = "idle"
    /\ w' = [Silenced EXCEPT !.expected = 0]
    /\ Finish("ENDED")
    /\ UNCHANGED Elsewhere

DraftIsReady ==
    /\ pc = "acting" /\ ~w.stop
    /\ pc' = "waiting"
    /\ UNCHANGED <<w, record, Elsewhere>>

\* The loop sees the signal after the call and leaves the run to Exit.
StoppedInCall ==
    /\ pc \in {"deciding", "acting"} /\ w.stop
    /\ pc' = "idle"
    /\ UNCHANGED <<w, record, Elsewhere>>

\* A call is refused for the budget, or fails for good.
CallFails ==
    /\ Calling
    /\ EndRun
    /\ UNCHANGED Elsewhere

CallRetries ==
    /\ Calling /\ w.retries < MaxRetries
    /\ pc' = "backoff"
    /\ w' = [w EXCEPT !.retries = @ + 1]
    /\ UNCHANGED <<record, Elsewhere>>

Interrupted == w.stop \/ w.paused \/ w.active = NoRun

\* The next try, or PhaseExecutionError.  Only the handler of a
\* reconsideration does not ask whether there still is a run to end.
BackoffOver ==
    /\ pc = "backoff"
    /\ \/ /\ ~Interrupted
          /\ pc' = w.phase
          /\ w' = [w EXCEPT !.retried = @ \/ w.phase = "reconsidering"]
          /\ UNCHANGED record
       \/ /\ Interrupted /\ w.active # NoRun
          /\ EndRun
       \/ /\ w.active = NoRun /\ w.phase # "reconsidering"
          /\ pc' = "idle"
          /\ UNCHANGED <<w, record>>
       \/ /\ w.active = NoRun /\ w.phase = "reconsidering"
          /\ pc' = "idle"
          /\ w' = Cleared
          /\ Post(StatePost(StatusPost(row, NoRun, "ENDED", "RECONSIDERING"),
                            "LISTENING"), runs)
    /\ UNCHANGED Elsewhere
-----------------------------------------------------------------------------
(* Submission *)

Stale == w.dirty > w.expected /\ ~w.everyone

\* The post of the draft: w' is what the worker goes on with.
Send(worker) ==
    /\ pc' = "submitting"
    /\ w' = worker
    /\ requests' = requests \cup
          {[run |-> worker.active, expected |-> worker.expected, checked |-> FALSE]}
    /\ reply' = NoReply

\* The request is made once, for the numbers the worker has heard of by then.
ReconsiderWith(worker) ==
    /\ pc' = "reconsidering"
    /\ w' = [worker EXCEPT !.phase = "reconsidering", !.retries = 0,
                           !.known = Max({@, worker.reliable, worker.dirty})]
    /\ reply' = NoReply
    /\ UNCHANGED <<requests, record>>

Abandon ==
    /\ EndRun
    /\ reply' = NoReply
    /\ UNCHANGED requests

WaitOver ==
    /\ pc = "waiting"
    /\ \/ /\ w.active = NoRun
          /\ pc' = "idle"
          /\ w' = Cleared
          /\ UNCHANGED <<requests, record, reply>>
       \/ w.active # NoRun /\ Stale /\ ReconsiderWith(w)
       \/ w.active # NoRun /\ ~Stale /\ w.stop /\ Abandon
       \/ w.active # NoRun /\ ~Stale /\ ~w.stop /\ Send(w) /\ UNCHANGED record
    /\ UNCHANGED <<log, conv, coming, socket, pauses, faults>>

DropDraft ==
    /\ pc = "reconsidering"
    /\ Abandon
    /\ UNCHANGED <<log, conv, coming, socket, pauses, faults>>

KeepDraft ==
    /\ pc = "reconsidering"
    /\ Send([w EXCEPT !.expected = Max({w.reliable, w.dirty, w.expected}), !.dirty = 0])
    /\ UNCHANGED <<log, conv, coming, socket, record, pauses, faults>>

\* post_internal_agent_action looks at the status before it stores anything.
\* A worker that has died does not stop its handler.
\* Mutant: a request is handled twice, as by a transport that sends it again.
AnswerAgain(q, type, seq) ==
    /\ requests' = requests
    /\ reply' = IF pc = "submitting" /\ w.active = q.run
                THEN [type |-> type, seq |-> seq] ELSE reply

Answer(q, type, seq) ==
    /\ requests' = requests \ {q}
    /\ reply' = IF pc = "submitting" /\ w.active = q.run
                THEN [type |-> type, seq |-> seq] ELSE reply

CheckStatus ==
    /\ \E q \in {x \in requests : ~x.checked} :
          IF conv = "running"
          THEN /\ requests' = (requests \ {q}) \cup {[q EXCEPT !.checked = TRUE]}
               /\ UNCHANGED reply
          ELSE Answer(q, "notRunning", 0)
    /\ UNCHANGED <<log, conv, coming, socket, record, pc, w, pauses, faults>>

\* commit_message, as MessageLog promises it.
Store ==
    /\ \E q \in {x \in requests : x.checked} :
          LET run == runs[q.run]
          IN  \/ /\ q.expected = Len(log)
                 /\ Commit([from |-> Me, mentions |-> {}, episode |-> run.episode,
                             cause |-> run.cause, hop |-> run.hop, run |-> q.run])
                 /\ Answer(q, "stored", Len(log) + 1)
              \/ /\ q.expected # Len(log)
                 /\ Answer(q, "conflict", Len(log))
                 /\ UNCHANGED <<log, coming>>
              \/ /\ q.expected = Len(log) /\ run.episode # NoEpisode
                 /\ Answer(q, "budget", 0)
                 /\ UNCHANGED <<log, coming>>
              \/ /\ q.expected = Len(log)
                 /\ Answer(q, "projection", 0)
                 /\ UNCHANGED <<log, coming>>
    /\ UNCHANGED <<conv, socket, record, pc, w, pauses, faults>>

\* A run that answers @all does not reconsider, it submits again.
SubmitAgain(seq) ==
    IF w.submits < MaxSubmitRetries
    THEN Send([w EXCEPT !.submits = @ + 1, !.expected = seq]) /\ UNCHANGED record
    ELSE Abandon

\* Mutant: every run submits again after a conflict.
AfterConflictBlind(seq) == SubmitAgain(seq)

AfterConflict(seq) ==
    IF w.everyone THEN SubmitAgain(seq) ELSE ReconsiderWith([w EXCEPT !.dirty = seq])

Submitted ==
    /\ pc = "submitting"
    /\ \/ /\ reply.type = "stored"
          /\ w' = [Cleared EXCEPT !.reliable = reply.seq]
          /\ pc' = "idle"
          /\ Finish("COMMITTED")
          /\ reply' = NoReply
          /\ UNCHANGED requests
       \/ reply.type = "conflict" /\ AfterConflict(reply.seq)
       \/ reply.type \in {"notRunning", "budget"} /\ Abandon
       \/ reply.type = "projection" /\ IF w.everyone THEN SubmitAgain(Len(log)) ELSE Abandon
    /\ UNCHANGED <<log, conv, coming, socket, pauses, faults>>
-----------------------------------------------------------------------------
(* The end of a process *)

\* SIGTERM, or a listener that has lost the socket.
Signal ==
    /\ Alive /\ ~w.stop /\ faults < MaxFaults
    /\ faults' = faults + 1
    /\ w' = [w EXCEPT !.stop = TRUE]
    /\ UNCHANGED <<server, socket, record, pc, reply, pauses>>

Dies ==
    /\ pc' = "down"
    /\ w' = NewWorker(0)
    /\ closing' = TRUE
    /\ wire' = <<>> /\ replay' = NoReplay /\ reply' = NoReply
    /\ UNCHANGED <<server, registered, pauses>>

Exit ==
    /\ pc = "idle" /\ w.stop
    /\ Dies
    /\ IF w.active = NoRun
       THEN UNCHANGED record
       ELSE /\ row' = StatusPost(row, w.active, "ENDED", "SHUTDOWN")
            /\ runs' = WithStatus(w.active, "ENDED")
            /\ saved' = w.reliable
    /\ UNCHANGED faults

Crash ==
    /\ Alive /\ faults < MaxFaults
    /\ faults' = faults + 1
    /\ Dies
    /\ UNCHANGED record

\* The monitor thread of the supervisor records the exit and starts a process,
\* unless the exit was fatal or the restart limit has been reached.
RecordExit ==
    /\ pc = "down"
    /\ \E fatal \in BOOLEAN :
          /\ row' = ExitedRow(row, fatal)
          /\ runs' = IF row.active = NoRun THEN runs
                     ELSE WithStatus(row.active, "ENDED")
          /\ \/ pc' = "gone"
             \/ pc' = "starting" /\ ~fatal
    /\ UNCHANGED <<server, socket, saved, w, reply, pauses, faults>>
-----------------------------------------------------------------------------
Environment == UserPosts \/ PeerPosts \/ Pause \/ Resume \/ Signal \/ Crash

Handlers == Unheard \/ ReplayQuery \/ SocketClosed \/ CheckStatus \/ Store
Supervision == RecordExit
Running == Boot \/ Register \/ Receive \/ StartRun \/ DecideToReply \/ DecideSilence
           \/ DraftIsReady \/ StoppedInCall \/ CallFails \/ CallRetries \/ BackoffOver
           \/ WaitOver \/ DropDraft \/ KeepDraft \/ Submitted \/ Exit

Next == Environment \/ Handlers \/ Supervision \/ Running

Spec == Init /\ [][Next]_vars

\* Handlers and the loop of the worker go on by themselves.
FairSpec == Spec /\ WF_vars(Handlers) /\ WF_vars(Running)
-----------------------------------------------------------------------------
(* Properties *)

Answers(s) == {r \in DOMAIN runs : s \in runs[r].observed}

StillToSend(s) ==
    \/ s \in coming
    \/ s >= replay.next /\ (s <= replay.upto \/ replay.upto = Unqueried)

\* While a worker has its socket, no user message for it that was stored after
\* the place where it took up is lost: it is on its way, it waits, or a run
\* has taken it up (the queue of process_runtime_event, the deferred part of a
\* batch, the replay of internal_agent_stream).
NothingForgotten ==
    Alive /\ registered =>
        \A s \in DOMAIN log :
            s > w.after /\ log[s].from = User /\ ShouldQueue(log[s]) =>
                StillToSend(s) \/ s \in ToSet(w.pending) \/ Answers(s) # {}

\* What the server shows of the agent is what the worker is doing, and nothing
\* is left of a worker that has exited: the supervisor and the posts of the next
\* process never leave a run open (post_internal_agent_run_status and
\* _record_process_exit).
ServerKnowsTheRun ==
    /\ Alive => /\ row.active = w.active
                /\ row.typing = IF w.typing THEN w.active ELSE NoRun
    /\ pc \in {"gone", "starting", "connecting"} => row.active = NoRun /\ row.typing = NoRun
    /\ \A r \in DOMAIN runs : runs[r].status = "RUNNING" => row.active = r

\* A run belongs to the episode of what it answers, which starts with a user
\* message: hop 0 for the message itself and one more than the message answered
\* otherwise, whatever messages arrived, were deferred or left unanswered.
EpisodesAreRooted ==
    \A r \in DOMAIN runs :
        LET e == runs[r].episode
            m == log[runs[r].cause]
        IN  e # NoEpisode =>
                /\ e \in DOMAIN log /\ log[e].from = User
                /\ \/ runs[r].cause = e /\ runs[r].hop = 0
                   \/ m.episode = e /\ runs[r].hop = m.hop + 1

\* The number with which a draft is sent covers only messages that were in the
\* transcript its run fetched (fetch_recent_messages), or that the worker had
\* heard of, from its socket or from a conflict, when it asked the model to
\* reconsider the draft: nothing that comes in later is stored over unless a
\* reconsideration was called for it.  A run that answers @all does not ask.  A
\* reconsideration that had to be tried again is excepted: its request does not
\* have what came in the backoff, but its answer is taken to cover it.
SubmissionsAreFresh ==
    pc = "submitting" /\ ~w.everyone /\ ~w.retried => w.expected <= w.known

\* A run stores one message at most, a run that is COMMITTED has stored one,
\* and the message of a run that has not crashed is not shown as given up.
RunsMatchMessages ==
    /\ \A s, t \in DOMAIN log : log[s].run = log[t].run => s = t \/ log[s].run = NoRun
    /\ \A r \in DOMAIN runs :
          runs[r].status = "COMMITTED" => \E s \in DOMAIN log : log[s].run = r
    /\ faults = 0 => \A s \in DOMAIN log :
          log[s].run # NoRun => runs[log[s].run].status = "COMMITTED"
                                \/ log[s].run = w.active

\* A message that waits in a live, unpaused worker gets its run.
PendingIsTakenUp ==
    \A s \in 1..MaxMessages :
        s \in ToSet(w.pending) ~>
            Answers(s) # {} \/ w.paused \/ w.stop \/ ~Alive \/ Len(runs) = MaxRuns

\* Every answer to a user message belongs to an episode, whose budget bounds
\* the chain of answers (test_h07).
UserMessagesOpenEpisodes ==
    \A r \in DOMAIN runs : log[runs[r].cause].from = User => runs[r].episode # NoEpisode
=============================================================================
