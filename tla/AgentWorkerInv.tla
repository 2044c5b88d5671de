--------------------------- MODULE AgentWorkerInv ---------------------------
(***************************************************************************)
(* Two inductive invariants.  IInv is behind ServerKnowsTheRun and         *)
(* RunsMatchMessages and says nothing of the queues of the worker, on      *)
(* which neither depends.  QueueInv is behind NothingForgotten,            *)
(* EpisodesAreRooted and SubmissionsAreFresh and rests on IInv.            *)
(***************************************************************************)
EXTENDS AgentWorker

Phases == {"deciding", "acting", "reconsidering"}

\* The parts of TypeOK that the steps on rows, runs and requests need.
Shapes ==
    /\ row \in Rows
    /\ runs \in Seq(Range(runs)) /\ \A r \in DOMAIN runs : "status" \in DOMAIN runs[r]
    /\ log \in Seq(Range(log)) /\ \A s \in DOMAIN log : "run" \in DOMAIN log[s]
    /\ \A q \in requests : "run" \in DOMAIN q
    /\ pc \in Places
    /\ DOMAIN w = DOMAIN NewWorker(0)
    /\ w.active \in 0..Len(runs)
    /\ w.typing \in BOOLEAN /\ w.stop \in BOOLEAN /\ w.phase \in Phases
    /\ faults \in Nat

\* Where the loop has a run, and that a process that is gone has left nothing.
WorkerHasItsRun ==
    /\ w.typing => w.active # NoRun
    /\ Calling \/ pc = "submitting" => w.active # NoRun
    /\ ~Alive => w.active = NoRun
    /\ faults = 0 => ~w.stop /\ pc \notin {"down", "gone"}

\* The row before its first post, and the flags of a run that has died.
RowsAreConsistent ==
    /\ row.active \in 0..Len(runs)
    /\ row.state = "none" => row = NoRow
    /\ row.typing \in {NoRun, row.active}

Stored(r) == \E s \in DOMAIN log : log[s].run = r
Requested(r) == \E q \in requests : q.run = r

\* A run has one request at most, and none when its message is stored.
RequestsAreOpen ==
    /\ \A q \in requests : q.run \in DOMAIN runs /\ ~Stored(q.run)
    /\ \A p, q \in requests : p.run = q.run => p = q
    /\ \A s \in DOMAIN log : log[s].run \in 0..Len(runs)
    /\ faults = 0 => \A q \in requests : pc = "submitting" /\ q.run = w.active

\* What the worker may conclude from the answer it has or has not.
AnswersAreTrue ==
    /\ pc # "submitting" /\ w.active # NoRun =>
           ~Stored(w.active) /\ ~Requested(w.active)
    /\ pc = "submitting" =>
           /\ reply.type = "none" => Requested(w.active)
           /\ reply.type # "none" => ~Requested(w.active)
           /\ reply.type = "stored" => Stored(w.active)
           /\ reply.type \notin {"none", "stored"} => ~Stored(w.active)

IInv ==
    /\ Shapes
    /\ WorkerHasItsRun
    /\ RowsAreConsistent
    /\ RequestsAreOpen
    /\ AnswersAreTrue
    /\ ServerKnowsTheRun
    /\ RunsMatchMessages
-----------------------------------------------------------------------------
(* The queues *)

\* What queues, the replay and runs name is in the transcript, and a root is a
\* message of the user.
MessagesExist ==
    /\ coming \subseteq DOMAIN log
    /\ ToSet(w.pending) \subseteq DOMAIN log
    /\ \A s \in ToSet(w.roots) : s \in DOMAIN log /\ log[s].from = User
    /\ replay.next > 0 /\ replay.upto <= Len(log)
    /\ \A r \in DOMAIN runs : runs[r].cause \in DOMAIN log

\* An episode that a message belongs to starts with a message of the user.
EpisodesOpen ==
    \A s \in DOMAIN log :
        LET e == log[s].episode
        IN  e # NoEpisode => e \in DOMAIN log /\ log[e].from = User

\* How far the worker and the record of the server have come.
NumbersSeen ==
    /\ w.reliable <= Len(log) /\ saved <= Len(log)
    /\ \A s \in ToSet(w.pending) : s <= w.reliable
    /\ pc = "submitting" /\ reply.type = "stored" =>
           w.reliable <= reply.seq /\ reply.seq <= Len(log)

\* A run that is no answer to @all expects what it has taken into account, and
\* what it would expect after a reconsideration was named when that was asked.
ExpectsWhatIsKnown ==
    w.active # NoRun /\ ~w.retried =>
        /\ ~w.everyone => w.expected <= w.known
        /\ pc = "reconsidering" => w.reliable <= w.known /\ w.dirty <= w.known

QueueInv ==
    /\ TypeOK
    /\ MessagesExist
    /\ EpisodesOpen
    /\ EpisodesAreRooted
    /\ NumbersSeen
    /\ ExpectsWhatIsKnown
    /\ NothingForgotten
=============================================================================
