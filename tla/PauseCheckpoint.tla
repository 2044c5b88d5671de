---------------------------- MODULE PauseCheckpoint ----------------------------
(***************************************************************************)
(* How a running conversation is paused and resumed while its workers      *)
(* work, post their state, crash and are replaced (worker_supervisor.py,   *)
(* the lifecycle and run status handlers of app.py).  A pause is answered  *)
(* when every worker has acknowledged it; the acknowledgement is a mark on *)
(* a post of the worker's state, which the handler gives to whatever       *)
(* process the agent has in the table at that moment.                      *)
(*                                                                         *)
(* WorkerSupervisor has the start and the end of the workers, AgentWorker  *)
(* what a worker does between two posts.                                   *)
(***************************************************************************)
EXTENDS RunAuthority, FiniteSets

CONSTANTS
    Agents,
    Handlers,       \* requests that can be served at the same time
    RestartLimit,   \* worker_restart_limit
    MaxRequests,    \* bound: requests served
    NoAgent         \* the monitor looks after no agent

ASSUME PauseAssumption == RestartLimit \in Nat /\ MaxRequests \in Nat /\ NoAgent \notin Agents

VARIABLES
    status,     \* of the conversation
    req,        \* the requests
    served,     \* how many there have been
    procs,      \* the processes of each agent, the last one is the youngest
    table,      \* _handles
    sockets,    \* InternalWorkerSocketManager: whose socket an agent has
    mon,        \* the monitor thread
    rows,       \* the rows of agent_runtime_state
    held,       \* history: the processes an answered pause vouches for
    late        \* history: an exit was recorded ahead of a post of the process

vars == <<status, req, served, procs, table, sockets, mon, rows, held, late>>
-----------------------------------------------------------------------------
None == 0

\* Posts of a worker: a run begins, a run ends, a run is given up for a pause,
\* PAUSED and LISTENING.
Posts == {"run", "end", "halt", "pause", "listen"}

Process == [life : {"up", "crashed", "fatal"},
            token : BOOLEAN,                  \* it is in _auth
            ack : BOOLEAN,                    \* pause_ack of its handle
            link : {"none", "open", "closing"},
            wire : Seq({"paused", "running"}),\* control events on their way
            paused : BOOLEAN, run : BOOLEAN,  \* its WorkerState
            posts : Seq(Posts),
            verified : BOOLEAN,     \* the first of the posts has passed verify
            recorded : BOOLEAN]     \* history: its exit has been recorded

NewProcess ==
    [life |-> "up", token |-> TRUE, ack |-> FALSE, link |-> "none", wire |-> <<>>,
     paused |-> FALSE, run |-> FALSE, posts |-> <<>>, verified |-> FALSE,
     recorded |-> FALSE]

\* A request has taken the handles in snap; crossed is history: an earlier pause
\* was still on its way to them.
Request == [op : {"pause", "resume"}, at : {"ask", "publish", "wait"},
            snap : [Agents -> Nat], crossed : BOOLEAN]
Idle == [op |-> "none", at |-> "idle", snap |-> [a \in Agents |-> None], crossed |-> FALSE]

Monitor == [at : {"noticed", "recorded", "spawned"}, agent : Agents]
Looking == [at |-> "look", agent |-> NoAgent]

TypeOK ==
    /\ status \in {"running", "paused"}
    /\ req \in [Handlers -> Request \cup {Idle}]
    /\ served \in Nat
    /\ procs \in [Agents -> Seq(Process)]
    /\ table \in [Agents -> Nat] /\ \A a \in Agents : table[a] \in DOMAIN procs[a]
    /\ sockets \in [Agents -> Nat]
    /\ \A a \in Agents : sockets[a] \in DOMAIN procs[a] \cup {None}
    /\ mon \in Monitor \cup {Looking}
    /\ rows \in [Agents -> Rows]
    /\ held \in SUBSET (Agents \X Nat)
    /\ late \in BOOLEAN

Init ==
    /\ status = "running"
    /\ req = [h \in Handlers |-> Idle]
    /\ served = 0
    /\ procs = [a \in Agents |-> <<NewProcess>>]
    /\ table = [a \in Agents |-> 1]
    /\ sockets = [a \in Agents |-> None]
    /\ mon = Looking
    /\ rows = [a \in Agents |-> NoRow]
    /\ held = {}
    /\ late = FALSE
-----------------------------------------------------------------------------
(* Requests *)

At(h, o, where) == req[h].op = o /\ req[h].at = where
Done(h) == req' = [req EXCEPT ![h] = Idle]

\* pause_conversation and resume_conversation
Begin(h, o) ==
    /\ req[h] = Idle
    /\ served < MaxRequests /\ served' = served + 1
    /\ status = IF o = "pause" THEN "running" ELSE "paused"
    /\ status' = IF o = "pause" THEN "paused" ELSE "running"
    /\ req' = [req EXCEPT ![h] = [Idle EXCEPT !.op = o,
                                              !.at = IF o = "pause" THEN "ask" ELSE "publish"]]
    /\ UNCHANGED <<procs, table, sockets, mon, rows, held, late>>

\* An earlier pause is not behind this process yet.
Undigested(p) ==
    \/ \E i \in DOMAIN p.wire : p.wire[i] = "paused"
    \/ \E i \in DOMAIN p.posts : p.posts[i] \in {"halt", "pause"}

\* Mutant: the acknowledgements of an earlier pause are left standing.
AskForPauseUncleared(h) ==
    /\ At(h, "pause", "ask")
    /\ req' = [req EXCEPT ![h].at = "publish", ![h].snap = table,
                          ![h].crossed = \E a \in Agents : Undigested(procs[a][table[a]])]
    /\ UNCHANGED <<status, served, procs, table, sockets, mon, rows, held, late>>

\* pause_workers takes the handles it will wait for and clears their events.
AskForPause(h) ==
    /\ At(h, "pause", "ask")
    /\ req' = [req EXCEPT ![h].at = "publish", ![h].snap = table,
                          ![h].crossed = \E a \in Agents : Undigested(procs[a][table[a]])]
    /\ procs' = [a \in Agents |-> [procs[a] EXCEPT ![table[a]].ack = FALSE]]
    /\ UNCHANGED <<status, served, table, sockets, mon, rows, held, late>>

\* publish_control reaches the sockets that are registered at that moment.
Publish(control) ==
    procs' = [a \in Agents |->
                [n \in DOMAIN procs[a] |->
                    IF n = sockets[a] /\ procs[a][n].life = "up"
                    THEN [procs[a][n] EXCEPT !.wire = Append(@, control)]
                    ELSE procs[a][n]]]

PublishPause(h) ==
    /\ At(h, "pause", "publish")
    /\ Publish("paused")
    /\ req' = [req EXCEPT ![h].at = "wait"]
    /\ UNCHANGED <<status, served, table, sockets, mon, rows, held, late>>

PauseAcknowledged(h) ==
    /\ At(h, "pause", "wait")
    /\ \A a \in Agents : procs[a][req[h].snap[a]].ack
    /\ held' = IF req[h].crossed THEN held
               ELSE held \cup {<<a, req[h].snap[a]>> : a \in Agents}
    /\ Done(h)
    /\ UNCHANGED <<status, served, procs, table, sockets, mon, rows, late>>

PauseTimeout(h) ==
    /\ At(h, "pause", "wait")
    /\ Done(h)
    /\ UNCHANGED <<status, served, procs, table, sockets, mon, rows, held, late>>

\* resume_workers; what a pause has reached is not held any longer.
PublishResume(h) ==
    /\ At(h, "resume", "publish")
    /\ Publish("running")
    /\ held' = {}
    /\ req' = [g \in Handlers |-> IF g = h THEN Idle
                                  ELSE [req[g] EXCEPT !.crossed = @ \/ req[g].op = "pause"]]
    /\ UNCHANGED <<status, served, table, sockets, mon, rows, late>>
-----------------------------------------------------------------------------
(* A worker, here process n of agent a *)

Is(a, n, x) == procs' = [procs EXCEPT ![a][n] = x]

\* The socket takes the place of an older one.
OpenSocket(a, n) ==
    /\ procs[a][n].life = "up" /\ procs[a][n].link = "none"
    /\ procs' = [procs EXCEPT ![a][n].link = "open"]
    /\ sockets' = [sockets EXCEPT ![a] = n]
    /\ UNCHANGED <<status, req, served, table, mon, rows, held, late>>

\* The handler of a closed socket removes the agent's, whosever it is.
CloseSocket(a, n) ==
    /\ procs[a][n].link = "closing"
    /\ procs' = [procs EXCEPT ![a][n].link = "none"]
    /\ sockets' = [sockets EXCEPT ![a] = None]
    /\ UNCHANGED <<status, req, served, table, mon, rows, held, late>>

\* The post under way is the only one that outlives the process.
Exit(a, n, how) ==
    /\ procs[a][n].life = "up"
    /\ Is(a, n, [procs[a][n] EXCEPT !.life = how, !.wire = <<>>, !.run = FALSE,
                    !.link = IF @ = "open" THEN "closing" ELSE @,
                    !.posts = IF @ = <<>> THEN <<>> ELSE <<Head(@)>>])
    /\ UNCHANGED <<status, req, served, table, sockets, mon, rows, held, late>>

\* The loop waits for nobody's answer.
Quiet(p) == p.life = "up" /\ p.link = "open" /\ p.posts = <<>>

\* process_runtime_event
TakeControl(a, n) ==
    LET p == procs[a][n] IN
    /\ Quiet(p) /\ p.wire # <<>>
    /\ IF Head(p.wire) = "paused"
       THEN Is(a, n, [p EXCEPT !.wire = Tail(@), !.paused = TRUE, !.run = FALSE,
                        !.posts = IF p.run THEN <<"halt", "pause">> ELSE <<"pause">>])
       ELSE Is(a, n, [p EXCEPT !.wire = Tail(@), !.paused = FALSE, !.posts = <<"listen">>])
    /\ UNCHANGED <<status, req, served, table, sockets, mon, rows, held, late>>

BeginRun(a, n) ==
    /\ Quiet(procs[a][n]) /\ ~procs[a][n].paused /\ ~procs[a][n].run
    /\ Is(a, n, [procs[a][n] EXCEPT !.run = TRUE, !.posts = <<"run">>])
    /\ UNCHANGED <<status, req, served, table, sockets, mon, rows, held, late>>

EndRun(a, n) ==
    /\ Quiet(procs[a][n]) /\ procs[a][n].run
    /\ Is(a, n, [procs[a][n] EXCEPT !.run = FALSE, !.posts = <<"end">>])
    /\ UNCHANGED <<status, req, served, table, sockets, mon, rows, held, late>>

\* post_status sends the mark with everything while pause_requested is set.
Acknowledges(post) == post \in {"halt", "pause"}

\* verify and record_checkpoint_ack.  A post without a valid token is refused.
VerifyPost(a, n) ==
    LET p == procs[a][n] IN
    /\ p.posts # <<>> /\ ~p.verified
    /\ procs' = IF p.token
                THEN [procs EXCEPT ![a][n].verified = TRUE,
                                   ![a][table[a]].ack = @ \/ Acknowledges(Head(p.posts))]
                ELSE [procs EXCEPT ![a][n].posts = <<>>]
    /\ UNCHANGED <<status, req, served, table, sockets, mon, rows, held, late>>

\* The run of a process goes by the number of the process.
Posted(row, n, post) ==
    CASE post = "run" -> StatusPost(row, n, "RUNNING", "DECIDING")
      [] post = "end" -> StatusPost(row, n, "COMMITTED", "LISTENING")
      [] post = "halt" -> StatusPost(row, n, "ENDED", "PAUSED")
      [] post = "pause" -> StatePost(row, "PAUSED")
      [] OTHER -> StatePost(row, "LISTENING")

\* The rest of that handler.  Between its read and its write only the exit of
\* the process can be recorded, after which it writes the same.
WriteRow(a, n) ==
    LET p == procs[a][n] IN
    /\ p.verified
    /\ rows' = [rows EXCEPT ![a] = Posted(@, n, Head(p.posts))]
    /\ Is(a, n, [p EXCEPT !.verified = FALSE, !.posts = Tail(@)])
    /\ UNCHANGED <<status, req, served, table, sockets, mon, held, late>>
-----------------------------------------------------------------------------
(* The monitor thread *)

Step(where, a) == mon' = [at |-> where, agent |-> a]

\* Mutant: the token of a process that has exited stays valid.
MonitorNoticeKeepsToken(a) ==
    /\ mon = Looking
    /\ procs[a][table[a]].life # "up"
    /\ Step("noticed", a)
    /\ UNCHANGED <<status, req, served, procs, table, sockets, rows, held, late>>

\* A process has exited: its token is withdrawn.  A fatal one, or one that was
\* restarted too often, comes back in every round.
MonitorNotice(a) ==
    /\ mon = Looking
    /\ procs[a][table[a]].life # "up"
    /\ procs' = [procs EXCEPT ![a][table[a]].token = FALSE]
    /\ Step("noticed", a)
    /\ UNCHANGED <<status, req, served, table, sockets, rows, held, late>>

\* _record_process_exit
MonitorRecord ==
    LET a == mon.agent
        p == procs[a][table[a]]
    IN
    /\ mon.at = "noticed"
    /\ rows' = [rows EXCEPT ![a] = ExitedRow(@, p.life = "fatal")]
    /\ procs' = [procs EXCEPT ![a][table[a]].recorded = TRUE]
    /\ late' = (late \/ p.verified)
    /\ IF p.life = "fatal" \/ table[a] > RestartLimit THEN mon' = Looking
       ELSE Step("recorded", a)
    /\ UNCHANGED <<status, req, served, table, sockets, held>>

MonitorSpawn ==
    /\ mon.at = "recorded"
    /\ procs' = [procs EXCEPT ![mon.agent] = Append(@, NewProcess)]
    /\ Step("spawned", mon.agent)
    /\ UNCHANGED <<status, req, served, table, sockets, rows, held, late>>

MonitorStore ==
    /\ mon.at = "spawned"
    /\ table' = [table EXCEPT ![mon.agent] = Len(procs[mon.agent])]
    /\ mon' = Looking
    /\ UNCHANGED <<status, req, served, procs, sockets, rows, held, late>>
-----------------------------------------------------------------------------
RequestStep(h) ==
    \/ AskForPause(h) \/ PublishPause(h) \/ PauseAcknowledged(h) \/ PauseTimeout(h)
    \/ PublishResume(h)

WorkerStep(a, n) ==
    \/ OpenSocket(a, n) \/ CloseSocket(a, n)
    \/ Exit(a, n, "crashed") \/ Exit(a, n, "fatal")
    \/ TakeControl(a, n) \/ BeginRun(a, n) \/ EndRun(a, n)
    \/ VerifyPost(a, n) \/ WriteRow(a, n)

Next ==
    \/ \E h \in Handlers : Begin(h, "pause") \/ Begin(h, "resume") \/ RequestStep(h)
    \/ \E a \in Agents : \/ \E n \in DOMAIN procs[a] : WorkerStep(a, n)
                         \/ MonitorNotice(a)
    \/ MonitorRecord \/ MonitorSpawn \/ MonitorStore

Spec == Init /\ [][Next]_vars
-----------------------------------------------------------------------------
\* After a pause was answered with success and until the next resume, the
\* processes that pause_workers waited for are paused and have no run.  This
\* needs that no earlier pause was still on its way: its acknowledgement would
\* be taken for the one of this pause.
PauseHolds ==
    \A x \in held :
        LET p == procs[x[1]][x[2]] IN p.life = "up" => p.paused /\ ~p.run

\* Once the exit of a process is recorded, the row of its agent never shows a
\* run of it again, unless a post had passed verify when the exit was recorded.
DeadRunsAreClosed ==
    ~late => \A a \in Agents :
        rows[a].active # NoRun => ~procs[a][rows[a].active].recorded
=============================================================================
