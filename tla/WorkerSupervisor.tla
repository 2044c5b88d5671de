--------------------------- MODULE WorkerSupervisor ---------------------------
(***************************************************************************)
(* The worker processes of one conversation (worker_supervisor.py) and the *)
(* requests that start and stop them.  A request runs in a thread of its   *)
(* own, a monitor is another thread, and the lock is held for single       *)
(* accesses of the table of handles only.  A process is known by its       *)
(* number; its record joins the process, its handle and the context of its *)
(* token, which are made together.  PauseCheckpoint has the requests that  *)
(* pause and resume workers, and what workers post.                        *)
(***************************************************************************)
EXTENDS Naturals, Sequences, FiniteSets

CONSTANTS
    Agents,
    Handlers,       \* requests that can be served at the same time
    Threads,        \* monitor threads that can live at the same time
    RestartLimit,   \* worker_restart_limit
    MaxProcesses,   \* bound: processes spawned
    NoAgent         \* a monitor that looks after no agent

VARIABLES
    status,       \* of the conversation; "ready" is draft or validated
    procs,        \* the processes spawned so far
    table,        \* _handles: the process of each agent, or None
    stopping,     \* the conversation is in _stopping
    registered,   \* the conversation is in _monitors
    mon,          \* the monitor threads
    req,          \* the requests
    raced,        \* history, of this server process: a stop or a start came while
                  \* another thread was about to change the table
    doubled,      \* history, likewise: a monitor was started while one of an
                  \* earlier start had not ended
    failed        \* history, since a monitor was started: an exception ended one

vars == <<status, procs, table, stopping, registered, mon, req, raced, doubled, failed>>
-----------------------------------------------------------------------------
None == 0
Pids == 1 .. Len(procs)
Nobody == [a \in Agents |-> None]
Empty == table = Nobody
Listed(handles) == {handles[a] : a \in Agents} \ {None}

Process == [agent : Agents, count : Nat,
            life : {"up", "crashed", "fatal", "killed"},
            token : BOOLEAN,    \* it is in _auth
            marked : BOOLEAN,   \* it has asked for its stream
            connected : BOOLEAN, stopped : BOOLEAN]

NewProcess(a, n) ==
    [agent |-> a, count |-> n, life |-> "up", token |-> TRUE, marked |-> FALSE,
     connected |-> FALSE, stopped |-> FALSE]

Up(p) == procs[p].life = "up"
Serving(p) == Up(p) /\ procs[p].token

Request == [op : {"start", "end"},
            at : {"check", "spawn", "store", "monitor", "wait", "stop", "kill", "clear"},
            snap : [Agents -> Nat]]   \* the handles it has in hand
Idle == [op |-> "none", at |-> "idle", snap |-> Nobody]

Monitor == [at : {"off", "look", "visit", "noticed", "spawn", "store"},
            seen : [Agents -> Nat],   \* its copy of the table
            todo : SUBSET Agents, agent : Agents \cup {NoAgent}, new : Nat]
Off == [at |-> "off", seen |-> Nobody, todo |-> {}, agent |-> NoAgent, new |-> None]

TypeOK ==
    /\ status \in {"ready", "running", "ended"}
    /\ procs \in Seq(Process)
    /\ table \in [Agents -> Pids \cup {None}]
    /\ stopping \in BOOLEAN /\ registered \in BOOLEAN
    /\ mon \in [Threads -> Monitor]
    /\ req \in [Handlers -> Request \cup {Idle}]
    /\ raced \in BOOLEAN /\ doubled \in BOOLEAN /\ failed \in BOOLEAN

Init ==
    /\ status = "ready"
    /\ procs = <<>>
    /\ table = Nobody
    /\ stopping = FALSE
    /\ registered = FALSE
    /\ mon = [m \in Threads |-> Off]
    /\ req = [h \in Handlers |-> Idle]
    /\ raced = FALSE /\ doubled = FALSE /\ failed = FALSE
-----------------------------------------------------------------------------
At(h, where) == req[h].at = where
Goto(h, where) == req' = [req EXCEPT ![h].at = where]
Done(h) == req' = [req EXCEPT ![h] = Idle]
Others(h) == Handlers \ {h}

\* A start that may still put processes into the table.
Starting(h) == req[h].op = "start" /\ req[h].at \in {"check", "spawn", "store", "monitor"}
\* A monitor that has decided to replace a process, or is about to.
Replacing(m) == mon[m].at \in {"noticed", "spawn", "store"}

\* start_conversation, whose races with other requests are in CatalogLifecycle
BeginStart(h) ==
    /\ req[h] = Idle
    /\ status = "ready"
    /\ status' = "running"
    /\ req' = [req EXCEPT ![h] = [Idle EXCEPT !.op = "start", !.at = "check"]]
    /\ UNCHANGED <<procs, table, stopping, registered, mon, raced, doubled, failed>>

\* end_conversation.  It may also be called while the conversation is paused,
\* which makes no difference to the supervisor.
BeginEnd(h) ==
    /\ req[h] = Idle
    /\ status = "running"
    /\ status' = "ended"
    /\ req' = [req EXCEPT ![h] = [Idle EXCEPT !.op = "end", !.at = "stop"]]
    /\ UNCHANGED <<procs, table, stopping, registered, mon, raced, doubled, failed>>

\* validate_conversation does not ask for the status.
Validate ==
    /\ status # "ready"
    /\ status' = "ready"
    /\ UNCHANGED <<procs, table, stopping, registered, mon, req, raced, doubled, failed>>

\* Another request spawns workers, or stops them.
Crossing(h) == \E g \in Others(h) : req[g].at \in {"spawn", "store", "kill", "clear"}

\* Mutant: the table is not looked at.
CheckTableBlind(h) ==
    /\ At(h, "check")
    /\ Goto(h, "spawn")
    /\ raced' = (raced \/ Crossing(h))
    /\ UNCHANGED <<status, procs, table, stopping, registered, mon, doubled, failed>>

\* start_workers
CheckTable(h) ==
    /\ At(h, "check")
    /\ IF Empty THEN Goto(h, "spawn") ELSE Done(h)
    /\ raced' = (raced \/ Crossing(h))
    /\ UNCHANGED <<status, procs, table, stopping, registered, mon, doubled, failed>>

\* One _spawn_worker after the other; none of them is in the table.
SpawnWorker(h) ==
    /\ At(h, "spawn")
    /\ Len(procs) < MaxProcesses
    /\ \E a \in Agents :
        /\ req[h].snap[a] = None
        /\ procs' = Append(procs, NewProcess(a, 0))
        /\ req' = [req EXCEPT ![h].snap[a] = Len(procs) + 1,
                              ![h].at = IF \A b \in Agents \ {a} : req[h].snap[b] # None
                                        THEN "store" ELSE "spawn"]
    /\ UNCHANGED <<status, table, stopping, registered, mon, raced, doubled, failed>>

StoreHandles(h) ==
    /\ At(h, "store")
    /\ table' = req[h].snap
    /\ Goto(h, "monitor")
    /\ UNCHANGED <<status, procs, stopping, registered, mon, raced, doubled, failed>>

\* _start_monitor.  stop_workers forgets a monitor without waiting for its
\* thread, which may be in the middle of its round, or asleep until it looks
\* again and finds the table filled by this start.
StartMonitor(h) ==
    /\ At(h, "monitor")
    /\ IF registered THEN UNCHANGED <<mon, doubled, failed>>
       ELSE /\ \E m \in Threads : /\ mon[m] = Off
                                 /\ mon' = [mon EXCEPT ![m].at = "look"]
            /\ doubled' = (doubled \/ \E m \in Threads : mon[m] # Off)
            /\ failed' = FALSE
    /\ registered' = TRUE
    /\ Goto(h, "wait")
    /\ UNCHANGED <<status, procs, table, stopping, raced>>

AllConnected(h) ==
    /\ At(h, "wait")
    /\ \A a \in Agents : procs[req[h].snap[a]].connected
    /\ Done(h)
    /\ UNCHANGED <<status, procs, table, stopping, registered, mon, raced, doubled, failed>>

StartTimeout(h) ==
    /\ At(h, "wait")
    /\ req' = [req EXCEPT ![h].at = "stop", ![h].snap = Nobody]
    /\ UNCHANGED <<status, procs, table, stopping, registered, mon, raced, doubled, failed>>

\* Mutant: the handles are taken out without being marked.
PopHandlesUnmarked(h) ==
    /\ At(h, "stop")
    /\ UNCHANGED procs
    /\ stopping' = TRUE
    /\ table' = Nobody
    /\ req' = [req EXCEPT ![h].snap = table, ![h].at = IF Empty THEN "clear" ELSE "kill"]
    /\ raced' = (raced \/ (\E g \in Others(h) : Starting(g)) \/ (\E m \in Threads : Replacing(m)))
    /\ UNCHANGED <<status, registered, mon, doubled, failed>>

\* stop_workers, its first critical section
PopHandles(h) ==
    /\ At(h, "stop")
    /\ procs' = [p \in Pids |-> IF p \in Listed(table)
                                THEN [procs[p] EXCEPT !.stopped = TRUE] ELSE procs[p]]
    /\ stopping' = TRUE
    /\ table' = Nobody
    /\ req' = [req EXCEPT ![h].snap = table, ![h].at = IF Empty THEN "clear" ELSE "kill"]
    /\ raced' = (raced \/ (\E g \in Others(h) : Starting(g)) \/ (\E m \in Threads : Replacing(m)))
    /\ UNCHANGED <<status, registered, mon, doubled, failed>>

\* Withdraw the token, terminate and wait.  This was the last use of the handle,
\* so what had become of the process is forgotten with it.
KillWorker(h) ==
    /\ At(h, "kill")
    /\ \E a \in Agents :
        /\ req[h].snap[a] # None
        /\ procs' = [procs EXCEPT ![req[h].snap[a]] =
                        [@ EXCEPT !.life = "killed", !.token = FALSE, !.marked = FALSE,
                                  !.connected = FALSE]]
        /\ req' = [req EXCEPT ![h].snap[a] = None,
                              ![h].at = IF \A b \in Agents \ {a} : req[h].snap[b] = None
                                        THEN "clear" ELSE "kill"]
    /\ UNCHANGED <<status, table, stopping, registered, mon, raced, doubled, failed>>

\* Mutant: the monitor stays registered.
ClearStoppingKeepsMonitor(h) ==
    /\ At(h, "clear")
    /\ stopping' = FALSE
    /\ Done(h)
    /\ UNCHANGED <<status, procs, table, registered, mon, raced, doubled, failed>>

\* Its last critical section.
ClearStopping(h) ==
    /\ At(h, "clear")
    /\ stopping' = FALSE
    /\ registered' = FALSE
    /\ Done(h)
    /\ UNCHANGED <<status, procs, table, mon, raced, doubled, failed>>
-----------------------------------------------------------------------------
(* The monitor thread *)

\* A process that lives, or that stop_workers has marked, is passed over.
Passed(p) == Up(p) \/ procs[p].stopped

\* A copy of the table.  The thread copies it every 0.1 s; a copy in which it
\* finds nothing to do, and on which it does not act, is left out.
MonitorLook(m) ==
    /\ mon[m].at = "look"
    /\ Empty \/ \E p \in Listed(table) : ~Passed(p)
    /\ mon' = [mon EXCEPT ![m] = IF Empty THEN Off
                                 ELSE [Off EXCEPT !.at = "visit", !.seen = table,
                                                  !.todo = Agents]]
    /\ UNCHANGED <<status, procs, table, stopping, registered, req, raced, doubled, failed>>

\* On to the other handles of the copy.
Leave(m) == mon' = [mon EXCEPT ![m].at = "visit", ![m].agent = NoAgent, ![m].new = None]

MonitorPass(m) ==
    /\ mon[m].at = "visit"
    /\ \A a \in mon[m].todo : Passed(mon[m].seen[a])
    /\ mon' = [mon EXCEPT ![m] = [Off EXCEPT !.at = "look"]]
    /\ UNCHANGED <<status, procs, table, stopping, registered, req, raced, doubled, failed>>

\* A process has exited: its token is withdrawn.
MonitorNotice(m) ==
    /\ mon[m].at = "visit"
    /\ \E a \in mon[m].todo :
        LET p == mon[m].seen[a] IN
        /\ ~Passed(p)
        /\ mon' = [mon EXCEPT ![m].todo = @ \ {a}, ![m].agent = a, ![m].at = "noticed"]
        /\ procs' = [procs EXCEPT ![p].connected = FALSE, ![p].token = FALSE]
    /\ UNCHANGED <<status, table, stopping, registered, req, raced, doubled, failed>>

MonitorAsk(m) ==
    /\ mon[m].at = "noticed"
    /\ IF stopping THEN Leave(m) ELSE mon' = [mon EXCEPT ![m].at = "spawn"]
    /\ UNCHANGED <<status, procs, table, stopping, registered, req, raced, doubled, failed>>

Restarts(p) == procs[p].life # "fatal" /\ procs[p].count < RestartLimit

\* _record_process_exit, whose effect on the rows is in PauseCheckpoint, and
\* _spawn_worker.  A handle that is not replaced stays, and is recorded again in
\* the next round.
MonitorSpawn(m) ==
    LET a == mon[m].agent
        p == mon[m].seen[a]
    IN
    /\ mon[m].at = "spawn"
    /\ IF Restarts(p)
       THEN /\ Len(procs) < MaxProcesses
            /\ procs' = Append(procs, NewProcess(a, procs[p].count + 1))
            /\ mon' = [mon EXCEPT ![m].at = "store", ![m].new = Len(procs) + 1]
       ELSE Leave(m) /\ UNCHANGED procs
    /\ UNCHANGED <<status, table, stopping, registered, req, raced, doubled, failed>>

\* _record_process_exit or _spawn_worker raises: the thread is gone, and is still
\* the one that is registered.
MonitorFails(m) ==
    /\ mon[m].at = "spawn"
    /\ mon' = [mon EXCEPT ![m] = Off]
    /\ failed' = TRUE
    /\ UNCHANGED <<status, procs, table, stopping, registered, req, raced, doubled>>

\* The handles that a start waits for are those of the table itself, no copy.
Shares(h) == req[h].at \in {"monitor", "wait"} /\ req[h].snap = table

MonitorStore(m) ==
    /\ mon[m].at = "store"
    /\ table' = IF Empty THEN table ELSE [table EXCEPT ![mon[m].agent] = mon[m].new]
    /\ req' = [h \in Handlers |-> IF Shares(h) THEN [req[h] EXCEPT !.snap = table']
                                               ELSE req[h]]
    /\ Leave(m)
    /\ UNCHANGED <<status, procs, stopping, registered, raced, doubled, failed>>
-----------------------------------------------------------------------------
(* Worker processes, as far as they concern the supervisor *)

\* mark_connected: the event is that of the agent's current handle.
MarkConnected(p) ==
    LET q == table[procs[p].agent] IN
    /\ Serving(p) /\ ~procs[p].marked
    /\ procs' = [x \in Pids |-> [procs[x] EXCEPT !.marked = @ \/ x = p,
                                                 !.connected = @ \/ x = q]]
    /\ UNCHANGED <<status, table, stopping, registered, mon, req, raced, doubled, failed>>

\* A process crashes, is killed from outside, or exits because a post of it was
\* refused.  Exit code 91 is "fatal".
Exit(p, how) ==
    /\ Up(p)
    /\ procs' = [procs EXCEPT ![p].life = how, ![p].marked = FALSE]
    /\ UNCHANGED <<status, table, stopping, registered, mon, req, raced, doubled, failed>>

\* The server dies.  All tokens and handles are lost, and the workers exit when
\* they find their stream closed: nothing of them matters to the next server.
ServerCrash ==
    /\ procs' = <<>>
    /\ table' = Nobody
    /\ stopping' = FALSE /\ registered' = FALSE
    /\ mon' = [m \in Threads |-> Off]
    /\ req' = [h \in Handlers |-> Idle]
    /\ raced' = FALSE /\ doubled' = FALSE /\ failed' = FALSE
    /\ UNCHANGED status

HandlerStep(h) ==
    \/ CheckTable(h) \/ SpawnWorker(h) \/ StoreHandles(h) \/ StartMonitor(h)
    \/ AllConnected(h) \/ StartTimeout(h)
    \/ PopHandles(h) \/ KillWorker(h) \/ ClearStopping(h)

MonitorStep(m) ==
    \/ MonitorLook(m) \/ MonitorPass(m) \/ MonitorNotice(m) \/ MonitorAsk(m)
    \/ MonitorSpawn(m) \/ MonitorFails(m) \/ MonitorStore(m)

Next ==
    \/ \E h \in Handlers : BeginStart(h) \/ BeginEnd(h) \/ HandlerStep(h)
    \/ Validate
    \/ \E m \in Threads : MonitorStep(m)
    \/ \E p \in Pids : MarkConnected(p) \/ Exit(p, "crashed") \/ Exit(p, "fatal")
    \/ ServerCrash

Spec == Init /\ [][Next]_vars
-----------------------------------------------------------------------------
(* The code promises nothing when a start crosses a start or a stop, or a stop *)
(* finds the monitor in the middle of a restart: each of them leaves a process *)
(* that no table holds.  Nor does it when two monitors live, the one of this   *)
(* start and one of an earlier start that has not ended yet: both replace the  *)
(* same dead process.  No two requests need to meet for that: a stop and then  *)
(* a start within the 0.1 s that the earlier monitor sleeps are enough.        *)
Undisturbed == ~raced /\ ~doubled

\* At most one process of an agent is up with a valid token, through starts that
\* time out, restarts, ends and starts after that: start_workers asks the table
\* before it spawns, and the monitor withdraws a token before it replaces.
OneWorkerPerAgent ==
    Undisturbed => \A p, q \in Pids :
        Serving(p) /\ Serving(q) /\ procs[p].agent = procs[q].agent => p = q

\* When a conversation has ended and no request is under way, none of its
\* processes can post any more, and the table is empty: stop_workers reached all
\* of them, and the monitor has not put one back.
EndStopsWorkers ==
    Undisturbed /\ status = "ended" /\ (\A h \in Handlers : req[h] = Idle) =>
        Empty /\ \A p \in Pids : ~Serving(p)

\* Handles in the table are looked after by a monitor, unless an exception ended
\* it: _start_monitor starts none when one is registered, so stop_workers has to
\* forget the registered one before the next start, and a monitor that finds the
\* table empty and ends must not be the one that the next start relies on.  It
\* may be more than one; the leftover of an earlier start is no reason for this
\* start to have none.
TableIsWatched ==
    ~raced /\ ~failed /\ ~Empty /\ (\A h \in Handlers : ~At(h, "monitor")) =>
        \E m \in Threads : mon[m] # Off
=============================================================================
