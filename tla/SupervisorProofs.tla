--------------------------- MODULE SupervisorProofs ---------------------------
(***************************************************************************)
(* One worker per agent and none after an end, for any number of agents,  *)
(* requests, restarts and crashes, as long as no start crosses a start or  *)
(* a stop, no stop finds the monitor in a restart, and no monitor of an    *)
(* earlier start lives on beside that of the next one; and a monitor for   *)
(* every table, whether or not one lives on.                               *)
(*                                                                         *)
(* Without a crossing one thread at a time has processes in its hands that *)
(* the table does not show: a start that spawns and a stop that kills find *)
(* the table empty, a monitor that replaces, if it is the only one, finds  *)
(* it filled.                                                              *)
(***************************************************************************)
EXTENDS WorkerSupervisor, SequenceTheorems, TLAPS

(* What holds whatever crosses *)

\* A handle of agent a is that of a process of a.
Of(p, a) == p \in Pids /\ procs[p].agent = a

Active == {"visit", "noticed", "spawn", "store"}

Places ==
    /\ Empty \/ \A a \in Agents : table[a] # None
    /\ \A a \in Agents : table[a] # None => Of(table[a], a)
    /\ \A h \in Handlers :
        /\ req[h].at \in {"check", "spawn", "store", "monitor", "wait"} => req[h].op = "start"
        /\ req[h].at = "store" => /\ \A a \in Agents : req[h].snap[a] # None
                                  /\ Agents # {}
        /\ \A a \in Agents : req[h].snap[a] # None => Of(req[h].snap[a], a)
    /\ \A m \in Threads :
        /\ mon[m].at \in Active => \A a \in Agents : mon[m].seen[a] \in Pids
        /\ Replacing(m) => mon[m].agent \in Agents /\ mon[m].agent \notin mon[m].todo
        /\ mon[m].at = "store" => Of(mon[m].new, mon[m].agent)

(* What holds as long as nothing has crossed; the last conjuncts of IInv need *)
(* the monitor to be alone as well.                                           *)

Making == {"spawn", "store", "monitor"}

OneAtATime ==
    \A h, g \in Handlers : h # g =>
        /\ req[h].at \in Making => req[g].at \notin Making \cup {"kill", "clear"}
        /\ req[h].at = "kill" => req[g].at # "kill"

HandsOrTable ==
    \A h \in Handlers :
        /\ req[h].at \in {"spawn", "store", "kill"} => Empty
        /\ req[h].at = "monitor" => ~Empty
        /\ req[h].at \in Making => ~registered

RegisteredForATable ==
    registered => ~Empty \/ \E h \in Handlers : req[h].at \in {"kill", "clear"}

OneMonitor == \A m, n \in Threads : m # n /\ mon[m] # Off => mon[n] = Off

Watched ==
    ~Empty => \/ \E h \in Handlers : At(h, "monitor")
              \/ \E m \in Threads : mon[m] # Off
              \/ failed

\* What is left of the monitor's copy is still true, or is marked.
CopyIsCurrent ==
    \A m \in Threads : mon[m].at \in Active =>
        \A a \in mon[m].todo :
            mon[m].seen[a] = table[a] \/ procs[mon[m].seen[a]].stopped

ReplacesTheDead ==
    \A m \in Threads : Replacing(m) =>
        LET a == mon[m].agent IN
        table[a] = mon[m].seen[a] /\ ~Up(table[a]) /\ ~procs[table[a]].token

InHand(p) == \E h \in Handlers : /\ req[h].at \in {"spawn", "store", "kill"}
                                 /\ p \in Listed(req[h].snap)
Coming(p) == \E m \in Threads : mon[m].at = "store" /\ mon[m].new = p

ServingIsKnown == \A p \in Pids : Serving(p) => p \in Listed(table) \/ InHand(p) \/ Coming(p)

EndIsThrough ==
    status = "ended" => \/ \E h \in Handlers : At(h, "stop")
                        \/ Empty /\ \A h \in Handlers : ~Starting(h)

\* What holds whether or not a second monitor lives.
Loose == OneAtATime /\ HandsOrTable /\ RegisteredForATable /\ Watched /\ EndIsThrough
\* What only one monitor can keep.
Tight == OneMonitor /\ CopyIsCurrent /\ ReplacesTheDead /\ ServingIsKnown

IInv == TypeOK /\ Places /\ (~raced => Loose) /\ (Undisturbed => Tight)
-----------------------------------------------------------------------------
(* What may become of the processes in any step but a crash of the server.   *)

Evolves ==
    /\ procs' \in Seq(Process) /\ Len(procs') \in Nat /\ Len(procs) <= Len(procs')
    /\ \A p \in Pids : /\ procs'[p].agent = procs[p].agent
                       /\ procs'[p].life = "up" => procs[p].life = "up"
                       /\ procs'[p].token => procs[p].token
                       /\ procs[p].stopped => procs'[p].stopped

\* No process is added.
SamePids == Len(procs') = Len(procs)

LEMMA Numbers ==
    ASSUME TypeOK
    PROVE  /\ Len(procs) \in Nat /\ DOMAIN procs = Pids /\ procs \in Seq(Process)
           /\ \A p \in Pids : procs[p] \in Process /\ p \in Nat /\ p # None
BY DEF TypeOK, Pids, None

LEMMA MorePids ==
    ASSUME TypeOK, Evolves
    PROVE  /\ Pids \subseteq Pids'
           /\ \A p \in Nat : \A a \in Agents : Of(p, a) => Of(p, a)'
           /\ SamePids => Pids' = Pids
BY Numbers DEF Evolves, Pids, Of, SamePids

LEMMA StillEvolves ==
    ASSUME TypeOK, UNCHANGED procs
    PROVE  Evolves /\ SamePids
BY Numbers DEF Evolves, SamePids

LEMMA OneChanges ==
    ASSUME TypeOK, NEW p \in Pids, NEW x \in Process, procs' = [procs EXCEPT ![p] = x],
           x.agent = procs[p].agent,
           x.life = "up" => procs[p].life = "up",
           x.token => procs[p].token,
           procs[p].stopped => x.stopped
    PROVE  /\ Evolves /\ SamePids
           /\ procs'[p] = x /\ \A q \in Pids \ {p} : procs'[q] = procs[q]
<1>1. procs' \in Seq(Process) /\ Len(procs') = Len(procs)
    BY Numbers, ExceptSeq DEF Pids
<1>2. procs'[p] = x /\ \A q \in Pids \ {p} : procs'[q] = procs[q]
    BY Numbers
<1> QED BY <1>1, <1>2, Numbers DEF Evolves, SamePids

LEMMA NewIsOne == ASSUME NEW a \in Agents, NEW n \in Nat PROVE NewProcess(a, n) \in Process
BY DEF NewProcess, Process

LEMMA OneAdded ==
    ASSUME TypeOK, NEW a \in Agents, NEW n \in Nat, procs' = Append(procs, NewProcess(a, n))
    PROVE  /\ Evolves
           /\ Pids' = Pids \cup {Len(procs) + 1}
           /\ procs'[Len(procs) + 1].agent = a
           /\ \A q \in Pids : procs'[q] = procs[q]
<1>1. /\ procs' \in Seq(Process) /\ Len(procs') = Len(procs) + 1
      /\ procs'[Len(procs) + 1] = NewProcess(a, n)
      /\ \A q \in Pids : procs'[q] = procs[q]
    BY Numbers, NewIsOne, AppendProperties DEF Pids
<1>2. Pids' = Pids \cup {Len(procs) + 1}
    BY <1>1, Numbers DEF Pids
<1>3. NewProcess(a, n).agent = a
    BY DEF NewProcess
<1>4. Evolves
    BY <1>1, Numbers DEF Evolves
<1> QED BY <1>1, <1>2, <1>3, <1>4
-----------------------------------------------------------------------------
(* Types and places, action by action.  Most actions change one request or   *)
(* one monitor and leave the table alone.                                    *)

Fits(r) ==
    /\ r \in Request \cup {Idle}
    /\ r.at \in {"check", "spawn", "store", "monitor", "wait"} => r.op = "start"
    /\ r.at = "store" => (\A a \in Agents : r.snap[a] # None) /\ Agents # {}
    /\ \A a \in Agents : r.snap[a] # None => Of(r.snap[a], a)

MonitorFits(x) ==
    /\ x \in Monitor
    /\ x.at \in Active => \A a \in Agents : x.seen[a] \in Pids
    /\ x.at \in {"noticed", "spawn", "store"} => x.agent \in Agents /\ x.agent \notin x.todo
    /\ x.at = "store" => Of(x.new, x.agent)

TableFits ==
    /\ table \in [Agents -> Pids \cup {None}]
    /\ Empty \/ \A a \in Agents : table[a] # None
    /\ \A a \in Agents : table[a] # None => Of(table[a], a)

\* The same as TypeOK and Places, request by request.
Fitting ==
    /\ status \in {"ready", "running", "ended"} /\ stopping \in BOOLEAN
    /\ registered \in BOOLEAN
    /\ raced \in BOOLEAN /\ doubled \in BOOLEAN /\ failed \in BOOLEAN
    /\ procs \in Seq(Process)
    /\ TableFits
    /\ req = [h \in Handlers |-> req[h]]
    /\ \A h \in Handlers : Fits(req[h])
    /\ mon = [m \in Threads |-> mon[m]]
    /\ \A m \in Threads : MonitorFits(mon[m])

LEMMA FittingIsPlaced == Fitting <=> TypeOK /\ Places
<1>1. Fitting => TypeOK
    BY DEF Fitting, TypeOK, TableFits, Fits, MonitorFits
<1>2. Fitting => Places
    BY DEF Fitting, TableFits, Places, Fits, MonitorFits, Replacing
<1>3. TypeOK /\ Places => Fitting
    BY DEF Fitting, TableFits, TypeOK, Places, Fits, MonitorFits, Replacing
<1> QED BY <1>1, <1>2, <1>3

LEMMA IdleFits == Fits(Idle) /\ MonitorFits(Off) /\ Idle.snap = Nobody /\ Idle.at = "idle" /\ Off.at = "off"
BY DEF Fits, Idle, MonitorFits, Off, Monitor, Nobody, None, Active

\* What fits goes on fitting when the processes evolve.
LEMMA GoesOnFitting ==
    ASSUME TypeOK, Evolves
    PROVE  /\ \A r : Fits(r) => Fits(r)'
           /\ \A x : MonitorFits(x) => MonitorFits(x)'
           /\ \A a \in Agents : \A p \in Pids \cup {None} : p # None /\ Of(p, a) => Of(p, a)'
BY MorePids, Numbers DEF Fits, MonitorFits, Of, Request, Idle, Monitor

LEMMA TableStays ==
    ASSUME Fitting, Evolves, UNCHANGED table
    PROVE  TableFits'
<1>1. Pids \subseteq Pids' /\ TypeOK
    BY MorePids, FittingIsPlaced
<1> QED BY <1>1, GoesOnFitting DEF Fitting, TableFits, Empty, Of

LEMMA KeepsFitting ==
    ASSUME Fitting, Evolves, TableFits',
           status' \in {"ready", "running", "ended"}, stopping' \in BOOLEAN,
           registered' \in BOOLEAN,
           raced' \in BOOLEAN, doubled' \in BOOLEAN, failed' \in BOOLEAN,
           req' = [h \in Handlers |-> req'[h]], mon' = [m \in Threads |-> mon'[m]],
           \A h \in Handlers : req'[h] = req[h] \/ Fits(req[h])',
           \A m \in Threads : mon'[m] = mon[m] \/ MonitorFits(mon[m])'
    PROVE  Fitting'
<1>1. TypeOK
    BY FittingIsPlaced
<1>2. \A h \in Handlers : Fits(req[h])'
    BY <1>1, GoesOnFitting DEF Fitting, Fits
<1>3. \A m \in Threads : MonitorFits(mon[m])'
    BY <1>1, GoesOnFitting DEF Fitting, MonitorFits
<1>4. procs' \in Seq(Process)
    BY DEF Evolves
<1> QED BY <1>2, <1>3, <1>4 DEF Fitting

\* One request changes, or one monitor, and nothing of the table.
LEMMA RequestFits ==
    ASSUME Fitting, Evolves, UNCHANGED <<table, mon>>, NEW h \in Handlers,
           status' \in {"ready", "running", "ended"}, stopping' \in BOOLEAN,
           registered' \in BOOLEAN,
           raced' \in BOOLEAN, doubled' \in BOOLEAN, failed' \in BOOLEAN,
           req' = [g \in Handlers |-> req'[g]],
           \A g \in Handlers \ {h} : req'[g] = req[g], Fits(req[h])'
    PROVE  Fitting'
<1>1. mon' = [m \in Threads |-> mon'[m]] /\ \A m \in Threads : mon'[m] = mon[m]
    BY DEF Fitting
<1>2. \A g \in Handlers : req'[g] = req[g] \/ Fits(req[g])'
    OBVIOUS
<1> QED BY <1>1, <1>2, TableStays, KeepsFitting

LEMMA MonitorsFit ==
    ASSUME Fitting, Evolves,
           UNCHANGED <<table, req, status, stopping, registered, raced, doubled, failed>>,
           NEW m \in Threads, mon' = [n \in Threads |-> mon'[n]],
           \A n \in Threads \ {m} : mon'[n] = mon[n], MonitorFits(mon[m])'
    PROVE  Fitting'
<1>1. req' = [h \in Handlers |-> req'[h]] /\ \A h \in Handlers : req'[h] = req[h]
    BY DEF Fitting
<1>2. \A n \in Threads : mon'[n] = mon[n] \/ MonitorFits(mon[n])'
    OBVIOUS
<1>3. status' \in {"ready", "running", "ended"} /\ stopping' \in BOOLEAN
      /\ registered' \in BOOLEAN
      /\ raced' \in BOOLEAN /\ doubled' \in BOOLEAN /\ failed' \in BOOLEAN
    BY DEF Fitting
<1> QED BY <1>1, <1>2, <1>3, TableStays, KeepsFitting

\* What becomes of a request whose handles are given back, kept or not there.
LEMMA BeginStartFits ==
    ASSUME Fitting, NEW h \in Handlers, BeginStart(h)
    PROVE  Fitting'
<1> DEFINE r == [Idle EXCEPT !.op = "start", !.at = "check"]
<1>1. /\ req' = [req EXCEPT ![h] = r]
      /\ UNCHANGED <<procs, table, stopping, registered, mon, raced, doubled, failed>>
      /\ status' = "running"
    BY DEF BeginStart
<1>2. r.at = "check" /\ r.op = "start" /\ r.snap = Nobody /\ r \in Request
    BY DEF Idle, Request, Nobody, None
<1>3. req'[h] = r /\ req' = [g \in Handlers |-> req'[g]] /\ \A g \in Handlers \ {h} : req'[g] = req[g]
    BY <1>1 DEF Fitting
<1> HIDE DEF r
<1>4. Fits(req[h])'
    BY <1>2, <1>3 DEF Fits, Nobody
<1>5. Evolves
    BY <1>1, StillEvolves, FittingIsPlaced
<1> QED BY <1>1, <1>3, <1>4, <1>5, RequestFits DEF Fitting

LEMMA BeginEndFits ==
    ASSUME Fitting, NEW h \in Handlers, BeginEnd(h)
    PROVE  Fitting'
<1> DEFINE r == [Idle EXCEPT !.op = "end", !.at = "stop"]
<1>1. /\ req' = [req EXCEPT ![h] = r]
      /\ UNCHANGED <<procs, table, stopping, registered, mon, raced, doubled, failed>>
      /\ status' = "ended"
    BY DEF BeginEnd
<1>2. r.at = "stop" /\ r.snap = Nobody /\ r \in Request
    BY DEF Idle, Request, Nobody, None
<1>3. req'[h] = r /\ req' = [g \in Handlers |-> req'[g]] /\ \A g \in Handlers \ {h} : req'[g] = req[g]
    BY <1>1 DEF Fitting
<1> HIDE DEF r
<1>4. Fits(req[h])'
    BY <1>2, <1>3 DEF Fits, Nobody
<1>5. Evolves
    BY <1>1, StillEvolves, FittingIsPlaced
<1> QED BY <1>1, <1>3, <1>4, <1>5, RequestFits DEF Fitting

\* A request goes on with the handles it has, or is done.
LEMMA GoesFits ==
    ASSUME Fitting, Evolves, NEW h \in Handlers,
           NEW to \in {"spawn", "monitor", "wait", "clear"}, req[h].at # "idle",
           to \in {"spawn", "monitor", "wait"} => req[h].op = "start",
           Goto(h, to) \/ Done(h),
           UNCHANGED <<status, table, mon>>, stopping' \in BOOLEAN,
           registered' \in BOOLEAN,
           raced' \in BOOLEAN, doubled' \in BOOLEAN, failed' \in BOOLEAN
    PROVE  Fitting'
<1> DEFINE r == [req[h] EXCEPT !.at = to]
<1>1. req[h] \in Request /\ \A a \in Agents : req[h].snap[a] # None => Of(req[h].snap[a], a)
    BY DEF Fitting, Fits, Idle
<1>2. r \in Request /\ r.at = to /\ r.op = req[h].op /\ r.snap = req[h].snap
    BY <1>1 DEF Request
<1>3. /\ req'[h] \in {r, Idle} /\ req' = [g \in Handlers |-> req'[g]]
      /\ \A g \in Handlers \ {h} : req'[g] = req[g]
    BY DEF Fitting, Goto, Done
<1> HIDE DEF r
<1>4. \A a \in Agents : req[h].snap[a] # None =>
          req[h].snap[a] \in Pids' /\ procs'[req[h].snap[a]].agent = a
    <2>1. \A p \in Nat : \A a \in Agents : Of(p, a) => p \in Pids' /\ procs'[p].agent = a
        BY MorePids, FittingIsPlaced DEF Of
    <2> QED BY <1>1, <2>1 DEF Request
<1>5. CASE req'[h] = r
    <2>1. Fits(req[h])'
        BY <1>2, <1>4, <1>5 DEF Fits, Of
    <2> QED BY <1>3, <2>1, RequestFits DEF Fitting
<1>6. CASE req'[h] = Idle
    <2>1. Fits(req[h])'
        BY <1>6, IdleFits, GoesOnFitting, FittingIsPlaced DEF Fits, Nobody
    <2> QED BY <1>3, <2>1, RequestFits DEF Fitting
<1> QED BY <1>3, <1>5, <1>6

LEMMA SpawnFits ==
    ASSUME Fitting, NEW h \in Handlers, NEW a \in Agents, At(h, "spawn"),
           req[h].snap[a] = None,
           procs' = Append(procs, NewProcess(a, 0)),
           req' = [req EXCEPT ![h].snap[a] = Len(procs) + 1,
                              ![h].at = IF \A b \in Agents \ {a} : req[h].snap[b] # None
                                        THEN "store" ELSE "spawn"],
           UNCHANGED <<status, table, stopping, registered, mon, raced, doubled, failed>>
    PROVE  Fitting' /\ Evolves
<1> DEFINE where == IF \A b \in Agents \ {a} : req[h].snap[b] # None THEN "store" ELSE "spawn"
           s == [req[h].snap EXCEPT ![a] = Len(procs) + 1]
           r == [[req[h] EXCEPT !.snap = s] EXCEPT !.at = where]
<1>1. /\ Evolves /\ Pids' = Pids \cup {Len(procs) + 1}
      /\ procs'[Len(procs) + 1].agent = a
      /\ \A q \in Pids : procs'[q] = procs[q]
      /\ Len(procs) \in Nat
    <2>1. TypeOK /\ 0 \in Nat
        BY FittingIsPlaced
    <2> QED BY <2>1, OneAdded, Numbers
<1>2. req[h] \in Request /\ req[h].op = "start"
      /\ \A b \in Agents : req[h].snap[b] # None => Of(req[h].snap[b], b)
    <2>1. Fits(req[h]) /\ req[h].at = "spawn"
        BY DEF Fitting, At
    <2> QED BY <2>1 DEF Fits, Idle
<1>3. req'[h] = r /\ \A g \in Handlers \ {h} : req'[g] = req[g]
    BY <1>2 DEF Fitting, Request
<1>4. req' = [g \in Handlers |-> req'[g]]
    BY DEF Fitting
<1>5. /\ s \in [Agents -> Nat] /\ s[a] = Len(procs) + 1
      /\ \A b \in Agents \ {a} : s[b] = req[h].snap[b]
    BY <1>1, <1>2 DEF Request
<1>6. where \in {"store", "spawn"} /\ (where = "store" => \A b \in Agents : s[b] # None)
    BY <1>1, <1>5 DEF None
<1> HIDE DEF s, where
<1>7. r \in Request /\ r.at = where /\ r.op = "start" /\ r.snap = s
    BY <1>2, <1>5, <1>6 DEF Request
<1> HIDE DEF r
<1>8. \A b \in Agents : s[b] # None => s[b] \in Pids' /\ procs'[s[b]].agent = b
    <2> SUFFICES ASSUME NEW b \in Agents, s[b] # None
                 PROVE  s[b] \in Pids' /\ procs'[s[b]].agent = b
        OBVIOUS
    <2>1. CASE b = a
        BY <1>1, <1>5, <2>1
    <2>2. CASE b # a
        <3>1. s[b] = req[h].snap[b]
            BY <1>5, <2>2
        <3>2. s[b] \in Pids /\ procs[s[b]].agent = b
            BY <1>2, <3>1 DEF Of
        <3> QED BY <1>1, <3>2
    <2> QED BY <2>1, <2>2
<1>9. Fits(req[h])'
    BY <1>3, <1>6, <1>7, <1>8 DEF Fits, Of
<1>10. status \in {"ready", "running", "ended"} /\ stopping \in BOOLEAN
      /\ registered \in BOOLEAN
      /\ raced \in BOOLEAN /\ doubled \in BOOLEAN /\ failed \in BOOLEAN
    BY DEF Fitting
<1> QED BY <1>1, <1>3, <1>4, <1>9, <1>10, RequestFits

LEMMA StoreFits ==
    ASSUME Fitting, NEW h \in Handlers, StoreHandles(h)
    PROVE  Fitting' /\ Evolves
<1> DEFINE r == [req[h] EXCEPT !.at = "monitor"]
<1>1. /\ table' = req[h].snap /\ req' = [req EXCEPT ![h] = r] /\ req[h].at = "store"
      /\ UNCHANGED <<status, procs, stopping, registered, mon, raced, doubled, failed>>
    BY DEF StoreHandles, At, Goto
<1>2. Evolves /\ TypeOK /\ SamePids
    BY <1>1, StillEvolves, FittingIsPlaced
<1>3. req[h] \in Request /\ req[h].op = "start" /\ Agents # {}
      /\ \A a \in Agents : req[h].snap[a] # None /\ Of(req[h].snap[a], a)
    BY <1>1 DEF Fitting, Fits, Idle
<1>4. r \in Request /\ r.at = "monitor" /\ r.op = "start" /\ r.snap = req[h].snap
    BY <1>3 DEF Request
<1>5. /\ req'[h] = r /\ req' = [g \in Handlers |-> req'[g]]
      /\ \A g \in Handlers \ {h} : req'[g] = req[g]
    BY <1>1 DEF Fitting
<1> HIDE DEF r
<1>6. Fits(req[h])'
    BY <1>1, <1>3, <1>4, <1>5 DEF Fits, Of, Pids
<1>7. TableFits'
    BY <1>1, <1>3 DEF TableFits, Of, Pids, Request
<1>8. mon' = [m \in Threads |-> mon'[m]]
    BY <1>1 DEF Fitting
<1>9. \A g \in Handlers : req'[g] = req[g] \/ Fits(req[g])'
    BY <1>5, <1>6
<1> QED BY <1>1, <1>2, <1>5, <1>7, <1>8, <1>9, KeepsFitting DEF Fitting

LEMMA StartMonitorFits ==
    ASSUME Fitting, NEW h \in Handlers, StartMonitor(h)
    PROVE  Fitting' /\ Evolves
<1> DEFINE r == [req[h] EXCEPT !.at = "wait"]
           x == [Off EXCEPT !.at = "look"]
<1>1. /\ req' = [req EXCEPT ![h] = r] /\ req[h].at = "monitor" /\ registered' = TRUE
      /\ raced' \in BOOLEAN /\ doubled' \in BOOLEAN /\ failed' \in BOOLEAN
      /\ mon' = mon \/ \E m \in Threads : mon[m] = Off /\ mon' = [mon EXCEPT ![m].at = "look"]
      /\ UNCHANGED <<status, procs, table, stopping>>
    BY DEF StartMonitor, At, Goto, Fitting
<1>2. Evolves /\ TypeOK
    BY <1>1, StillEvolves, FittingIsPlaced
<1>3. req[h] \in Request /\ req[h].op = "start"
      /\ \A a \in Agents : req[h].snap[a] # None => Of(req[h].snap[a], a)
    BY <1>1 DEF Fitting, Fits, Idle
<1>4. r \in Request /\ r.at = "wait" /\ r.op = "start" /\ r.snap = req[h].snap
    BY <1>3 DEF Request
<1>5. /\ req'[h] = r /\ req' = [g \in Handlers |-> req'[g]]
      /\ \A g \in Handlers \ {h} : req'[g] = req[g]
    BY <1>1 DEF Fitting
<1> HIDE DEF r
<1>6. Fits(req[h])'
    BY <1>1, <1>3, <1>4, <1>5 DEF Fits, Of, Pids
<1>7. x \in Monitor /\ x.at = "look"
    BY DEF Off, Monitor, Nobody, None
<1>8. \A m \in Threads : mon'[m] = mon[m] \/ mon'[m] = x
    BY <1>1 DEF Fitting
<1>9. mon' = [m \in Threads |-> mon'[m]]
    BY <1>1 DEF Fitting
<1> HIDE DEF x
<1>10. \A m \in Threads : mon'[m] = mon[m] \/ MonitorFits(mon[m])'
    BY <1>7, <1>8 DEF MonitorFits, Active
<1>11. \A g \in Handlers : req'[g] = req[g] \/ Fits(req[g])'
    BY <1>5, <1>6
<1>12. TableFits'
    BY <1>1, <1>2, TableStays
<1> QED BY <1>1, <1>2, <1>5, <1>9, <1>10, <1>11, <1>12, KeepsFitting DEF Fitting

LEMMA TimeoutFits ==
    ASSUME Fitting, NEW h \in Handlers, StartTimeout(h)
    PROVE  Fitting' /\ Evolves
<1> DEFINE r == [req[h] EXCEPT !.at = "stop", !.snap = Nobody]
<1>1. /\ req' = [req EXCEPT ![h] = r] /\ req[h].at = "wait"
      /\ UNCHANGED <<status, procs, table, stopping, registered, mon, raced, doubled, failed>>
    BY DEF StartTimeout, At
<1>2. Evolves /\ TypeOK
    BY <1>1, StillEvolves, FittingIsPlaced
<1>3. req[h] \in Request /\ Nobody \in [Agents -> Nat]
    BY <1>1 DEF Fitting, Fits, Idle, Nobody, None
<1>4. r \in Request /\ r.at = "stop" /\ r.snap = Nobody
    BY <1>3 DEF Request
<1>5. /\ req'[h] = r /\ req' = [g \in Handlers |-> req'[g]]
      /\ \A g \in Handlers \ {h} : req'[g] = req[g]
    BY <1>1 DEF Fitting
<1> HIDE DEF r
<1>6. Fits(req[h])'
    BY <1>4, <1>5 DEF Fits, Nobody
<1> QED BY <1>1, <1>2, <1>5, <1>6, RequestFits DEF Fitting

LEMMA KillFits ==
    ASSUME Fitting, NEW h \in Handlers, NEW a \in Agents, At(h, "kill"),
           req[h].snap[a] # None,
           procs' = [procs EXCEPT ![req[h].snap[a]] =
                        [@ EXCEPT !.life = "killed", !.token = FALSE, !.marked = FALSE,
                                  !.connected = FALSE]],
           req' = [req EXCEPT ![h].snap[a] = None,
                              ![h].at = IF \A b \in Agents \ {a} : req[h].snap[b] = None
                                        THEN "clear" ELSE "kill"],
           UNCHANGED <<status, table, stopping, registered, mon, raced, doubled, failed>>
    PROVE  /\ Fitting' /\ Evolves /\ SamePids
           /\ \A q \in Pids \ {req[h].snap[a]} : procs'[q] = procs[q]
           /\ procs'[req[h].snap[a]].life = "killed"
<1> DEFINE where == IF \A b \in Agents \ {a} : req[h].snap[b] = None THEN "clear" ELSE "kill"
           s == [req[h].snap EXCEPT ![a] = None]
           p == req[h].snap[a]
           r == [[req[h] EXCEPT !.snap = s] EXCEPT !.at = where]
           x == [procs[p] EXCEPT !.life = "killed", !.token = FALSE, !.marked = FALSE,
                                 !.connected = FALSE]
<1>1. req[h] \in Request
      /\ \A b \in Agents : req[h].snap[b] # None => Of(req[h].snap[b], b)
    <2>1. Fits(req[h]) /\ req[h].at = "kill"
        BY DEF Fitting, At
    <2> QED BY <2>1 DEF Fits, Idle
<1>2. TypeOK /\ p \in Pids /\ procs[p] \in Process /\ procs' = [procs EXCEPT ![p] = x]
    BY <1>1, FittingIsPlaced, Numbers DEF Of
<1>3. /\ x \in Process /\ x.agent = procs[p].agent /\ x.life = "killed" /\ ~x.token
      /\ x.stopped = procs[p].stopped
    BY <1>2 DEF Process
<1>4. req'[h] = r /\ \A g \in Handlers \ {h} : req'[g] = req[g]
    BY <1>1 DEF Fitting, Request
<1>5. req' = [g \in Handlers |-> req'[g]]
    BY DEF Fitting
<1>6. /\ s \in [Agents -> Nat] /\ s[a] = None
      /\ \A b \in Agents \ {a} : s[b] = req[h].snap[b]
    BY <1>1 DEF Request, None
<1>7. where \in {"clear", "kill"}
    OBVIOUS
<1> HIDE DEF s, where, x
<1>8. /\ Evolves /\ SamePids /\ procs'[p] = x
      /\ \A q \in Pids \ {p} : procs'[q] = procs[q]
    BY <1>2, <1>3, OneChanges
<1> HIDE DEF p
<1>9. r \in Request /\ r.at = where /\ r.snap = s
    BY <1>1, <1>6, <1>7 DEF Request
<1> HIDE DEF r
<1>10. \A b \in Agents : s[b] # None => s[b] \in Pids' /\ procs'[s[b]].agent = b
    BY <1>1, <1>2, <1>3, <1>6, <1>8, MorePids DEF Of
<1>11. Fits(req[h])'
    BY <1>4, <1>7, <1>9, <1>10 DEF Fits, Of
<1>12. status \in {"ready", "running", "ended"} /\ stopping \in BOOLEAN
      /\ registered \in BOOLEAN
      /\ raced \in BOOLEAN /\ doubled \in BOOLEAN /\ failed \in BOOLEAN
    BY DEF Fitting
<1>13. Fitting'
    BY <1>4, <1>5, <1>8, <1>11, <1>12, RequestFits
<1> QED BY <1>3, <1>8, <1>13 DEF p

LEMMA PopFits ==
    ASSUME Fitting, NEW h \in Handlers, PopHandles(h)
    PROVE  /\ Fitting' /\ Evolves /\ SamePids
           /\ req'[h].snap = table /\ req'[h].at = (IF Empty THEN "clear" ELSE "kill")
           /\ \A g \in Handlers \ {h} : req'[g] = req[g]
           /\ \A p \in Pids : /\ procs'[p].life = procs[p].life
                              /\ procs'[p].token = procs[p].token
                              /\ p \in Listed(table) => procs'[p].stopped
<1> DEFINE where == IF Empty THEN "clear" ELSE "kill"
           r == [[req[h] EXCEPT !.snap = table] EXCEPT !.at = where]
           x(p) == IF p \in Listed(table) THEN [procs[p] EXCEPT !.stopped = TRUE] ELSE procs[p]
<1>1. /\ At(h, "stop") /\ procs' = [p \in Pids |-> x(p)]
      /\ table' = Nobody /\ stopping' = TRUE
      /\ raced' \in BOOLEAN /\ doubled' \in BOOLEAN /\ failed' \in BOOLEAN
      /\ req' = [req EXCEPT ![h].snap = table, ![h].at = where]
      /\ UNCHANGED <<status, registered, mon>>
    BY DEF PopHandles, Fitting
<1>2. TypeOK /\ Len(procs) \in Nat
    BY FittingIsPlaced, Numbers
<1>3. \A p \in Pids : /\ x(p) \in Process /\ x(p).agent = procs[p].agent
                      /\ x(p).life = procs[p].life /\ x(p).token = procs[p].token
                      /\ procs[p].stopped => x(p).stopped
                      /\ p \in Listed(table) => x(p).stopped
    BY <1>2, Numbers DEF Process
<1>4. procs' \in Seq(Process) /\ Len(procs') = Len(procs) /\ \A p \in Pids : procs'[p] = x(p)
    <2>1. \A p \in Pids : x(p) \in Process
        BY <1>3
    <2> HIDE DEF x
    <2>2. procs' = [p \in 1 .. Len(procs) |-> x(p)]
        BY <1>1 DEF Pids
    <2>3. \A p \in 1 .. Len(procs) : x(p) \in Process
        BY <2>1 DEF Pids
    <2> QED BY <1>2, <2>2, <2>3 DEF Pids
<1>5. Evolves /\ SamePids
    <2> HIDE DEF x
    <2> QED BY <1>2, <1>3, <1>4 DEF Evolves, SamePids, Pids
<1>6. req[h] \in Request
    <2>1. Fits(req[h]) /\ req[h].at = "stop"
        BY <1>1 DEF Fitting, At
    <2> QED BY <2>1 DEF Fits, Idle
<1>7. req'[h] = r /\ \A g \in Handlers \ {h} : req'[g] = req[g]
    BY <1>1, <1>6 DEF Fitting, Request
<1>8. req' = [g \in Handlers |-> req'[g]]
    BY <1>1 DEF Fitting
<1>9. where \in {"clear", "kill"} /\ table \in [Agents -> Nat]
    BY <1>2, Numbers DEF TypeOK, None
<1> HIDE DEF where, x
<1>10. r \in Request /\ r.at = where /\ r.snap = table
    BY <1>6, <1>9 DEF Request
<1> HIDE DEF r
<1>11. \A a \in Agents : table[a] # None => table[a] \in Pids' /\ procs'[table[a]].agent = a
    BY <1>2, <1>3, <1>4, <1>5, MorePids DEF Fitting, TableFits, Of
<1>12. Fits(req[h])'
    BY <1>7, <1>9, <1>10, <1>11 DEF Fits, Of
<1>13. TableFits'
    BY <1>1 DEF TableFits, Empty, Nobody
<1>14. mon' = [m \in Threads |-> mon'[m]]
    BY <1>1 DEF Fitting
<1>15. \A g \in Handlers : req'[g] = req[g] \/ Fits(req[g])'
    BY <1>7, <1>12
<1>16. Fitting'
    BY <1>1, <1>5, <1>8, <1>13, <1>14, <1>15, KeepsFitting DEF Fitting
<1> QED BY <1>3, <1>4, <1>5, <1>7, <1>10, <1>16 DEF where

LEMMA CalmRequestsFit ==
    ASSUME Fitting, NEW h \in Handlers, CheckTable(h) \/ AllConnected(h) \/ ClearStopping(h)
    PROVE  Fitting' /\ Evolves
<1>1. UNCHANGED <<status, procs, table, mon>> /\ registered' \in BOOLEAN
      /\ stopping' \in BOOLEAN
      /\ raced' \in BOOLEAN /\ doubled' \in BOOLEAN /\ failed' \in BOOLEAN
    BY DEF CheckTable, AllConnected, ClearStopping, Fitting
<1>2. Evolves
    BY <1>1, StillEvolves, FittingIsPlaced
<1>3. \/ req[h].at = "check" /\ (Goto(h, "spawn") \/ Done(h))
      \/ req[h].at \in {"wait", "clear"} /\ Done(h)
    <2>1. CASE CheckTable(h)
        BY <2>1 DEF CheckTable, At
    <2>2. CASE AllConnected(h)
        BY <2>2 DEF AllConnected, At
    <2>3. CASE ClearStopping(h)
        BY <2>3 DEF ClearStopping, At
    <2> QED BY <2>1, <2>2, <2>3
<1>4. req[h].at = "check" => req[h].op = "start"
    BY DEF Fitting, Fits
<1> QED BY <1>1, <1>2, <1>3, <1>4, GoesFits

LEMMA ProcessesFit ==
    ASSUME Fitting, Evolves,
           UNCHANGED <<status, table, stopping, registered, mon, req, raced, doubled, failed>>
    PROVE  Fitting'
<1>1. req' = [h \in Handlers |-> req'[h]] /\ mon' = [m \in Threads |-> mon'[m]]
    BY DEF Fitting
<1>2. TableFits'
    BY TableStays
<1> QED BY <1>1, <1>2, KeepsFitting DEF Fitting

LEMMA ExitFits ==
    ASSUME Fitting, NEW p \in Pids, NEW how \in {"crashed", "fatal"}, Exit(p, how)
    PROVE  /\ Fitting' /\ Evolves /\ SamePids
           /\ \A q \in Pids : procs'[q].stopped = procs[q].stopped
<1> DEFINE x == [procs[p] EXCEPT !.life = how, !.marked = FALSE]
<1>1. /\ TypeOK /\ procs[p] \in Process /\ procs' = [procs EXCEPT ![p] = x]
      /\ UNCHANGED <<status, table, stopping, registered, mon, req, raced, doubled, failed>>
    BY FittingIsPlaced, Numbers DEF Exit
<1>2. /\ x \in Process /\ x.agent = procs[p].agent /\ x.life # "up"
      /\ x.token = procs[p].token /\ x.stopped = procs[p].stopped
    BY <1>1 DEF Process
<1> HIDE DEF x
<1>3. /\ Evolves /\ SamePids /\ procs'[p] = x /\ \A q \in Pids \ {p} : procs'[q] = procs[q]
    BY <1>1, <1>2, OneChanges
<1> QED BY <1>1, <1>2, <1>3, ProcessesFit

LEMMA MarkFits ==
    ASSUME Fitting, NEW p \in Pids, MarkConnected(p)
    PROVE  /\ Fitting' /\ Evolves /\ SamePids
           /\ \A q \in Pids : procs'[q].stopped = procs[q].stopped
<1> DEFINE c == table[procs[p].agent]
           x(q) == [procs[q] EXCEPT !.marked = @ \/ q = p, !.connected = @ \/ q = c]
<1>1. /\ TypeOK /\ Len(procs) \in Nat /\ procs' = [q \in Pids |-> x(q)]
      /\ UNCHANGED <<status, table, stopping, registered, mon, req, raced, doubled, failed>>
    BY FittingIsPlaced, Numbers DEF MarkConnected
<1>2. \A q \in Pids : /\ x(q) \in Process /\ x(q).agent = procs[q].agent
                      /\ x(q).life = procs[q].life /\ x(q).token = procs[q].token
                      /\ x(q).stopped = procs[q].stopped
    <2> HIDE DEF c
    <2> QED BY <1>1, Numbers DEF Process
<1>3. procs' \in Seq(Process) /\ Len(procs') = Len(procs) /\ \A q \in Pids : procs'[q] = x(q)
    <2>1. \A q \in Pids : x(q) \in Process
        BY <1>2
    <2> HIDE DEF x
    <2>2. procs' = [q \in 1 .. Len(procs) |-> x(q)]
        BY <1>1 DEF Pids
    <2>3. \A q \in 1 .. Len(procs) : x(q) \in Process
        BY <2>1 DEF Pids
    <2> QED BY <1>1, <2>2, <2>3 DEF Pids
<1> HIDE DEF x
<1>4. Evolves /\ SamePids
    BY <1>1, <1>2, <1>3 DEF Evolves, SamePids, Pids
<1> QED BY <1>1, <1>2, <1>3, <1>4, ProcessesFit

LEMMA ValidateFits ==
    ASSUME Fitting, Validate
    PROVE  Fitting' /\ Evolves
<1>1. /\ status' = "ready"
      /\ UNCHANGED <<procs, table, stopping, registered, mon, req, raced, doubled, failed>>
    BY DEF Validate
<1>2. Evolves
    BY <1>1, StillEvolves, FittingIsPlaced
<1>3. req' = [h \in Handlers |-> req'[h]] /\ mon' = [m \in Threads |-> mon'[m]]
    BY <1>1 DEF Fitting
<1>4. TableFits'
    BY <1>1, <1>2, TableStays
<1> QED BY <1>1, <1>2, <1>3, <1>4, KeepsFitting DEF Fitting

LEMMA CrashFits ==
    ASSUME Fitting, ServerCrash
    PROVE  Fitting'
<1>1. /\ procs' = <<>> /\ table' = Nobody /\ stopping' = FALSE /\ registered' = FALSE
      /\ mon' = [m \in Threads |-> Off] /\ req' = [h \in Handlers |-> Idle]
      /\ raced' = FALSE /\ doubled' = FALSE /\ failed' = FALSE /\ UNCHANGED status
    BY DEF ServerCrash
<1>2. TableFits'
    BY <1>1 DEF TableFits, Empty, Nobody
<1>3. Fits(Idle)' /\ MonitorFits(Off)'
    BY DEF Fits, Idle, MonitorFits, Off, Monitor, Nobody, None, Active
<1>4. (\A h \in Handlers : Fits(req[h])') /\ (\A m \in Threads : MonitorFits(mon[m])')
    BY <1>1, <1>3
<1>5. procs' \in Seq(Process)
    BY <1>1
<1> QED BY <1>1, <1>2, <1>4, <1>5 DEF Fitting
-----------------------------------------------------------------------------
\* A monitor goes on with the same copy, or has none.
LEMMA MonitorHasFit ==
    ASSUME Fitting, NEW m \in Threads, mon[m].at \in Active
    PROVE  /\ mon[m] \in Monitor /\ \A a \in Agents : mon[m].seen[a] \in Pids
           /\ Replacing(m) => mon[m].agent \in Agents /\ mon[m].agent \notin mon[m].todo
           /\ mon[m].at = "store" => Of(mon[m].new, mon[m].agent)
BY DEF Fitting, MonitorFits, Active, Replacing

LEMMA LookFits ==
    ASSUME Fitting, NEW m \in Threads, MonitorLook(m)
    PROVE  /\ Fitting' /\ Evolves /\ \A n \in Threads \ {m} : mon'[n] = mon[n]
           /\ IF Empty THEN mon'[m] = Off
              ELSE mon'[m].at = "visit" /\ mon'[m].seen = table
<1> DEFINE x == [Off EXCEPT !.at = "visit", !.seen = table, !.todo = Agents]
<1>1. /\ mon' = [mon EXCEPT ![m] = IF Empty THEN Off ELSE x]
      /\ UNCHANGED <<status, procs, table, stopping, registered, req, raced, doubled, failed>>
    BY DEF MonitorLook
<1>2. TypeOK /\ Evolves /\ Pids' = Pids
    BY <1>1, StillEvolves, FittingIsPlaced DEF Pids
<1>3. table \in [Agents -> Nat] /\ (~Empty => \A a \in Agents : table[a] \in Pids)
    BY <1>2, Numbers DEF Fitting, TableFits, None
<1>4. x \in Monitor /\ x.at = "visit" /\ x.seen = table
    BY <1>3 DEF Off, Monitor, None, Nobody
<1>5. /\ mon'[m] = IF Empty THEN Off ELSE x
      /\ mon' = [n \in Threads |-> mon'[n]] /\ \A n \in Threads \ {m} : mon'[n] = mon[n]
    BY <1>1 DEF Fitting
<1> HIDE DEF x
<1>6. MonitorFits(mon[m])'
    <2>1. CASE Empty
        BY <2>1, <1>5 DEF MonitorFits, Off, Monitor, Nobody, None, Active
    <2>2. CASE ~Empty
        BY <2>2, <1>2, <1>3, <1>4, <1>5 DEF MonitorFits
    <2> QED BY <2>1, <2>2
<1>7. Fitting'
    BY <1>1, <1>2, <1>5, <1>6, MonitorsFit
<1> QED BY <1>2, <1>4, <1>5, <1>7

LEMMA PassFits ==
    ASSUME Fitting, NEW m \in Threads, MonitorPass(m)
    PROVE  /\ Fitting' /\ Evolves /\ \A n \in Threads \ {m} : mon'[n] = mon[n]
           /\ mon'[m].at = "look"
<1> DEFINE x == [Off EXCEPT !.at = "look"]
<1>1. /\ mon' = [mon EXCEPT ![m] = x]
      /\ UNCHANGED <<status, procs, table, stopping, registered, req, raced, doubled, failed>>
    BY DEF MonitorPass
<1>2. TypeOK /\ Evolves
    BY <1>1, StillEvolves, FittingIsPlaced
<1>3. x \in Monitor /\ x.at = "look"
    BY DEF Off, Monitor, None, Nobody
<1>4. /\ mon'[m] = x /\ mon' = [n \in Threads |-> mon'[n]]
      /\ \A n \in Threads \ {m} : mon'[n] = mon[n]
    BY <1>1 DEF Fitting
<1> HIDE DEF x
<1>5. MonitorFits(mon[m])'
    BY <1>3, <1>4 DEF MonitorFits, Active
<1> QED BY <1>1, <1>2, <1>3, <1>4, <1>5, MonitorsFit

\* The monitor leaves the agent as it is.
LEMMA LeaveFits ==
    ASSUME Fitting, NEW m \in Threads, Leave(m), mon[m].at \in Active, Evolves,
           UNCHANGED <<status, stopping, registered, raced, doubled, failed>>, TableFits',
           req' = [h \in Handlers |-> req'[h]],
           \A h \in Handlers : req'[h] = req[h] \/ Fits(req[h])'
    PROVE  /\ Fitting' /\ \A n \in Threads \ {m} : mon'[n] = mon[n]
           /\ mon'[m].at = "visit" /\ mon'[m].seen = mon[m].seen /\ mon'[m].todo = mon[m].todo
<1> DEFINE x == [mon[m] EXCEPT !.at = "visit", !.agent = NoAgent, !.new = None]
<1>1. mon[m] \in Monitor /\ \A a \in Agents : mon[m].seen[a] \in Pids
    BY MonitorHasFit
<1>2. x \in Monitor /\ x.at = "visit" /\ x.seen = mon[m].seen /\ x.todo = mon[m].todo
    BY <1>1 DEF Monitor, None
<1>3. /\ mon'[m] = x /\ mon' = [n \in Threads |-> mon'[n]]
      /\ \A n \in Threads \ {m} : mon'[n] = mon[n]
    BY DEF Leave, Fitting
<1>4. \A a \in Agents : mon[m].seen[a] \in Pids'
    BY <1>1, MorePids, FittingIsPlaced
<1> HIDE DEF x
<1>5. MonitorFits(mon[m])'
    BY <1>2, <1>3, <1>4 DEF MonitorFits
<1>6. \A n \in Threads : mon'[n] = mon[n] \/ MonitorFits(mon[n])'
    BY <1>3, <1>5
<1>7. status' \in {"ready", "running", "ended"} /\ stopping' \in BOOLEAN
      /\ registered' \in BOOLEAN
      /\ raced' \in BOOLEAN /\ doubled' \in BOOLEAN /\ failed' \in BOOLEAN
    BY DEF Fitting
<1>8. Fitting'
    BY <1>3, <1>6, <1>7, KeepsFitting
<1> QED BY <1>2, <1>3, <1>8

\* MonitorNotice with process p of agent a.
Notices(m, a, p) ==
    /\ a \in mon[m].todo /\ mon[m].at = "visit" /\ p = mon[m].seen[a] /\ ~Passed(p)
    /\ mon' = [mon EXCEPT ![m].todo = @ \ {a}, ![m].agent = a, ![m].at = "noticed"]
    /\ procs' = [procs EXCEPT ![p].connected = FALSE, ![p].token = FALSE]
    /\ UNCHANGED <<status, table, stopping, registered, req, raced, doubled, failed>>

LEMMA NoticeFits ==
    ASSUME Fitting, NEW m \in Threads, NEW a, NEW p, Notices(m, a, p)
    PROVE  /\ Fitting' /\ Evolves /\ SamePids /\ \A n \in Threads \ {m} : mon'[n] = mon[n]
           /\ a \in Agents /\ p \in Pids
           /\ mon'[m].at = "noticed" /\ mon'[m].seen = mon[m].seen /\ mon'[m].agent = a
           /\ mon'[m].todo = mon[m].todo \ {a}
           /\ procs'[p].life # "up" /\ ~procs'[p].token
           /\ \A q \in Pids : procs'[q].stopped = procs[q].stopped
<1> DEFINE x == [[procs[p] EXCEPT !.connected = FALSE] EXCEPT !.token = FALSE]
           y == [mon[m] EXCEPT !.todo = @ \ {a}, !.agent = a, !.at = "noticed"]
<1>1. /\ a \in mon[m].todo /\ mon[m].at = "visit" /\ p = mon[m].seen[a] /\ ~Passed(p)
      /\ mon' = [mon EXCEPT ![m].todo = @ \ {a}, ![m].agent = a, ![m].at = "noticed"]
      /\ procs' = [procs EXCEPT ![p].connected = FALSE, ![p].token = FALSE]
      /\ UNCHANGED <<status, table, stopping, registered, req, raced, doubled, failed>>
    BY DEF Notices
<1>2. /\ mon[m] \in Monitor /\ \A b \in Agents : mon[m].seen[b] \in Pids
    BY <1>1, MonitorHasFit DEF Active
<1>3. a \in Agents /\ p \in Pids /\ TypeOK /\ procs[p] \in Process /\ procs[p].life # "up"
    BY <1>1, <1>2, FittingIsPlaced, Numbers DEF Monitor, Passed, Up
<1>4. procs' = [procs EXCEPT ![p] = x]
    BY <1>1, <1>3, Numbers
<1>5. /\ x \in Process /\ x.agent = procs[p].agent /\ x.life # "up" /\ ~x.token
      /\ x.stopped = procs[p].stopped
    BY <1>3 DEF Process
<1>6. /\ y \in Monitor /\ y.at = "noticed" /\ y.agent = a /\ y.todo = mon[m].todo \ {a}
      /\ y.seen = mon[m].seen
    BY <1>2, <1>3 DEF Monitor
<1>7. /\ mon'[m] = y /\ mon' = [n \in Threads |-> mon'[n]]
      /\ \A n \in Threads \ {m} : mon'[n] = mon[n]
    BY <1>1, <1>2 DEF Fitting, Monitor
<1> HIDE DEF x, y
<1>8. /\ Evolves /\ SamePids /\ procs'[p] = x /\ \A q \in Pids \ {p} : procs'[q] = procs[q]
    BY <1>3, <1>4, <1>5, OneChanges
<1>9. \A b \in Agents : mon[m].seen[b] \in Pids'
    BY <1>2, <1>3, <1>8, MorePids
<1>10. MonitorFits(mon[m])'
    BY <1>1, <1>3, <1>6, <1>7, <1>9 DEF MonitorFits
<1>11. Fitting'
    BY <1>1, <1>7, <1>8, <1>10, MonitorsFit
<1> QED BY <1>3, <1>5, <1>6, <1>7, <1>8, <1>11

LEMMA AskFits ==
    ASSUME Fitting, NEW m \in Threads, MonitorAsk(m)
    PROVE  /\ Fitting' /\ Evolves /\ \A n \in Threads \ {m} : mon'[n] = mon[n]
           /\ mon[m].at = "noticed" /\ mon'[m].at \in {"visit", "spawn"}
           /\ mon'[m].seen = mon[m].seen /\ mon'[m].todo = mon[m].todo
           /\ mon'[m].at = "spawn" => mon'[m].agent = mon[m].agent
<1> DEFINE x == [mon[m] EXCEPT !.at = "spawn"]
<1>1. /\ mon[m].at = "noticed"
      /\ Leave(m) \/ mon' = [mon EXCEPT ![m].at = "spawn"]
      /\ UNCHANGED <<status, procs, table, stopping, registered, req, raced, doubled, failed>>
    BY DEF MonitorAsk
<1>2. Evolves /\ TableFits' /\ mon[m].at \in Active
    <2>1. Evolves
        BY <1>1, StillEvolves, FittingIsPlaced
    <2> QED BY <1>1, <2>1, TableStays DEF Active
<1>3. CASE Leave(m)
    <2>1. /\ Fitting' /\ \A n \in Threads \ {m} : mon'[n] = mon[n]
          /\ mon'[m].at = "visit" /\ mon'[m].seen = mon[m].seen /\ mon'[m].todo = mon[m].todo
        BY <1>1, <1>2, <1>3, LeaveFits DEF Fitting
    <2> QED BY <1>1, <1>2, <2>1
<1>4. CASE mon' = [mon EXCEPT ![m].at = "spawn"]
    <2>1. /\ mon[m] \in Monitor /\ (\A a \in Agents : mon[m].seen[a] \in Pids)
          /\ mon[m].agent \in Agents /\ mon[m].agent \notin mon[m].todo
        BY <1>1, <1>2, MonitorHasFit DEF Replacing
    <2>2. /\ x \in Monitor /\ x.at = "spawn" /\ x.seen = mon[m].seen /\ x.todo = mon[m].todo
          /\ x.agent = mon[m].agent
        BY <2>1 DEF Monitor
    <2>3. /\ mon'[m] = x /\ mon' = [n \in Threads |-> mon'[n]]
          /\ \A n \in Threads \ {m} : mon'[n] = mon[n]
        BY <1>4 DEF Fitting
    <2>4. Pids' = Pids
        BY <1>1 DEF Pids
    <2> HIDE DEF x
    <2>5. MonitorFits(mon[m])'
        BY <2>1, <2>2, <2>3, <2>4 DEF MonitorFits
    <2>6. Fitting'
        BY <1>1, <1>2, <2>3, <2>5, MonitorsFit
    <2> QED BY <1>1, <1>2, <2>2, <2>3, <2>6
<1> QED BY <1>1, <1>3, <1>4

\* The monitor spawns a process for the agent, or leaves it.
LEMMA MonitorSpawnFits ==
    ASSUME Fitting, NEW m \in Threads, MonitorSpawn(m)
    PROVE  /\ Fitting' /\ Evolves /\ \A n \in Threads \ {m} : mon'[n] = mon[n]
           /\ \A q \in Pids : procs'[q] = procs[q]
           /\ mon'[m].seen = mon[m].seen /\ mon'[m].todo = mon[m].todo
           /\ \/ mon'[m].at = "visit" /\ Pids' = Pids
              \/ /\ mon'[m].at = "store" /\ mon'[m].agent = mon[m].agent
                 /\ Pids' = Pids \cup {mon'[m].new} /\ procs'[mon'[m].new].agent = mon[m].agent
                 /\ mon'[m].new \notin Pids
<1>1. mon[m].at = "spawn" /\ mon[m].at \in Active /\ TypeOK
    BY FittingIsPlaced DEF MonitorSpawn, Active
<1>2. /\ mon[m] \in Monitor /\ (\A a \in Agents : mon[m].seen[a] \in Pids)
      /\ mon[m].agent \in Agents /\ mon[m].agent \notin mon[m].todo
    BY <1>1, MonitorHasFit DEF Replacing
<1>3. UNCHANGED <<status, table, stopping, registered, req, raced, doubled, failed>>
    BY DEF MonitorSpawn
<1>4. CASE Leave(m) /\ UNCHANGED procs
    <2>1. Evolves
        BY <1>1, <1>4, StillEvolves
    <2>2. TableFits' /\ Pids' = Pids
        BY <1>3, <1>4, <2>1, TableStays DEF Pids
    <2>3. /\ Fitting' /\ \A n \in Threads \ {m} : mon'[n] = mon[n]
          /\ mon'[m].at = "visit" /\ mon'[m].seen = mon[m].seen /\ mon'[m].todo = mon[m].todo
        BY <1>1, <1>3, <1>4, <2>1, <2>2, LeaveFits DEF Fitting
    <2> QED BY <1>4, <2>1, <2>2, <2>3
<1>5. CASE ~(Leave(m) /\ UNCHANGED procs)
    <2> DEFINE a == mon[m].agent
               k == procs[mon[m].seen[a]].count + 1
               x == [[mon[m] EXCEPT !.at = "store"] EXCEPT !.new = Len(procs) + 1]
    <2>1. /\ procs' = Append(procs, NewProcess(a, k))
          /\ mon' = [mon EXCEPT ![m].at = "store", ![m].new = Len(procs) + 1]
        BY <1>5 DEF MonitorSpawn
    <2>2. k \in Nat /\ a \in Agents /\ Len(procs) \in Nat
        BY <1>1, <1>2, Numbers DEF Process
    <2>3. /\ x \in Monitor /\ x.at = "store" /\ x.agent = a /\ x.new = Len(procs) + 1
          /\ x.seen = mon[m].seen /\ x.todo = mon[m].todo
        <3> DEFINE i == Len(procs) + 1
        <3>1. i \in Nat
            BY <2>2
        <3> HIDE DEF i, k
        <3>2. x = [[mon[m] EXCEPT !.at = "store"] EXCEPT !.new = i]
            BY DEF i
        <3> HIDE DEF x
        <3> QED BY <1>2, <3>1, <3>2 DEF Monitor, i
    <2>4. /\ mon'[m] = x /\ mon' = [n \in Threads |-> mon'[n]]
          /\ \A n \in Threads \ {m} : mon'[n] = mon[n]
        BY <1>2, <2>1 DEF Fitting, Monitor
    <2> HIDE DEF k, x
    <2>5. /\ Evolves /\ Pids' = Pids \cup {Len(procs) + 1}
          /\ procs'[Len(procs) + 1].agent = a
          /\ \A q \in Pids : procs'[q] = procs[q]
        BY <1>1, <2>1, <2>2, OneAdded
    <2>6. Len(procs) + 1 \notin Pids
        BY <2>2 DEF Pids
    <2> HIDE DEF a
    <2>7. MonitorFits(mon[m])'
        BY <1>2, <2>2, <2>3, <2>4, <2>5 DEF MonitorFits, Of, a
    <2>8. Fitting'
        BY <1>3, <2>4, <2>5, <2>7, MonitorsFit
    <2> QED BY <2>3, <2>4, <2>5, <2>6, <2>8 DEF a
<1> QED BY <1>4, <1>5

LEMMA FailsFits ==
    ASSUME Fitting, NEW m \in Threads, MonitorFails(m)
    PROVE  /\ Fitting' /\ Evolves /\ \A n \in Threads \ {m} : mon'[n] = mon[n]
           /\ mon'[m] = Off
<1>1. /\ mon' = [mon EXCEPT ![m] = Off] /\ failed' = TRUE
      /\ UNCHANGED <<status, procs, table, stopping, registered, req, raced, doubled>>
    BY DEF MonitorFails
<1>2. TypeOK /\ Evolves
    BY <1>1, StillEvolves, FittingIsPlaced
<1>3. /\ mon'[m] = Off /\ mon' = [n \in Threads |-> mon'[n]]
      /\ \A n \in Threads \ {m} : mon'[n] = mon[n]
    BY <1>1 DEF Fitting
<1>4. MonitorFits(Off)'
    BY <1>2, IdleFits, GoesOnFitting
<1>5. \A n \in Threads : mon'[n] = mon[n] \/ MonitorFits(mon[n])'
    BY <1>3, <1>4
<1>6. TableFits'
    BY <1>1, <1>2, TableStays
<1>7. \A h \in Handlers : req'[h] = req[h]
    BY <1>1
<1>8. Fitting'
    BY <1>1, <1>2, <1>3, <1>5, <1>6, <1>7, KeepsFitting DEF Fitting
<1> QED BY <1>2, <1>3, <1>8

LEMMA MonitorStoreFits ==
    ASSUME Fitting, NEW m \in Threads, MonitorStore(m)
    PROVE  /\ Fitting' /\ Evolves /\ \A n \in Threads \ {m} : mon'[n] = mon[n]
           /\ mon[m].at = "store" /\ mon[m].agent \in Agents /\ mon[m].agent \notin mon[m].todo
           /\ Of(mon[m].new, mon[m].agent)
           /\ mon'[m].at = "visit" /\ mon'[m].seen = mon[m].seen /\ mon'[m].todo = mon[m].todo
           /\ IF Empty THEN table' = table
              ELSE table' = [table EXCEPT ![mon[m].agent] = mon[m].new]
           /\ \A h \in Handlers :
                /\ req'[h].at = req[h].at /\ req'[h].op = req[h].op
                /\ req[h].at \notin {"monitor", "wait"} => req'[h] = req[h]
<1>1. mon[m].at = "store" /\ mon[m].at \in Active /\ TypeOK /\ Leave(m)
    BY FittingIsPlaced DEF MonitorStore, Active
<1>2. /\ mon[m] \in Monitor /\ (\A a \in Agents : mon[m].seen[a] \in Pids)
      /\ mon[m].agent \in Agents /\ mon[m].agent \notin mon[m].todo
      /\ Of(mon[m].new, mon[m].agent)
    BY <1>1, MonitorHasFit DEF Replacing
<1>3. /\ UNCHANGED <<status, procs, stopping, registered, raced, doubled, failed>>
      /\ table' = IF Empty THEN table ELSE [table EXCEPT ![mon[m].agent] = mon[m].new]
      /\ req' = [h \in Handlers |-> IF Shares(h) THEN [req[h] EXCEPT !.snap = table'] ELSE req[h]]
    BY DEF MonitorStore
<1>4. Evolves /\ Pids' = Pids
    BY <1>1, <1>3, StillEvolves DEF Pids
<1>5. TableFits'
    <2>1. CASE Empty
        <3>1. UNCHANGED table
            BY <1>3, <2>1
        <3> QED BY <1>4, <3>1, TableStays
    <2>2. CASE ~Empty
        <3>1. mon[m].new # None
            BY <1>1, <1>2, Numbers DEF Of
        <3>2. table' = [table EXCEPT ![mon[m].agent] = mon[m].new]
            BY <1>3, <2>2
        <3> QED BY <1>2, <1>3, <1>4, <2>2, <3>1, <3>2 DEF Fitting, TableFits, Of
    <2> QED BY <2>1, <2>2
<1>6. ASSUME NEW h \in Handlers
      PROVE  /\ req'[h] = req[h] \/ Fits(req[h])'
             /\ req'[h].at = req[h].at /\ req'[h].op = req[h].op
             /\ req[h].at \notin {"monitor", "wait"} => req'[h] = req[h]
    <2>1. CASE Shares(h)
        <3> DEFINE r == [req[h] EXCEPT !.snap = table']
        <3>1. req'[h] = r /\ req[h].at \in {"monitor", "wait"}
            BY <1>3, <2>1 DEF Shares
        <3>2. req[h] \in Request /\ req[h].op = "start"
            BY <3>1 DEF Fitting, Fits, Idle
        <3>3. table' \in [Agents -> Nat]
            BY <1>1, <1>4, <1>5, Numbers DEF TableFits, None
        <3>4. r \in Request /\ r.at = req[h].at /\ r.op = req[h].op /\ r.snap = table'
            BY <3>2, <3>3 DEF Request
        <3> HIDE DEF r
        <3>5. Fits(req[h])'
            BY <1>5, <3>1, <3>2, <3>4 DEF Fits, TableFits, Of
        <3> QED BY <3>1, <3>4, <3>5
    <2>2. CASE ~Shares(h)
        BY <1>3, <2>2
    <2> QED BY <2>1, <2>2
<1>7. req' = [h \in Handlers |-> req'[h]]
    BY <1>3
<1>8. /\ Fitting' /\ \A n \in Threads \ {m} : mon'[n] = mon[n]
      /\ mon'[m].at = "visit" /\ mon'[m].seen = mon[m].seen /\ mon'[m].todo = mon[m].todo
    BY <1>1, <1>3, <1>4, <1>5, <1>6, <1>7, LeaveFits
<1> QED BY <1>1, <1>2, <1>3, <1>4, <1>6, <1>8
-----------------------------------------------------------------------------
LEMMA HandsAreProcesses ==
    ASSUME Fitting
    PROVE  /\ \A a \in Agents : table[a] # None => Of(table[a], a)
           /\ \A a \in Agents : table[a] \in Pids => table[a] # None
           /\ \A h \in Handlers :
                /\ req[h].at \in {"check", "spawn", "store", "monitor", "wait"} => req[h].op = "start"
                /\ \A a \in Agents : req[h].snap[a] # None => Of(req[h].snap[a], a)
           /\ \A m \in Threads : mon[m].at \in Active =>
                /\ \A a \in Agents : mon[m].seen[a] \in Pids
                /\ mon[m].todo \subseteq Agents
                /\ Replacing(m) => mon[m].agent \in Agents
BY FittingIsPlaced, Numbers DEF Fitting, TableFits, Fits, MonitorFits, Replacing, Monitor, Off
-----------------------------------------------------------------------------
(* The loose part, action by action.  It says nothing of what monitors do,   *)
(* but for one being there.  Every action but a crash of the server keeps    *)
(* raced or sets it, so it may be taken to be false before as well.          *)

\* Nothing changes but processes, and monitors that do not end.
LEMMA StaysLoose ==
    ASSUME Loose, UNCHANGED <<status, table, registered, req>>, failed => failed',
           \A m \in Threads : mon[m] # Off => mon'[m] # Off \/ Empty \/ failed'
    PROVE  Loose'
<1>1. OneAtATime' /\ HandsOrTable' /\ RegisteredForATable' /\ EndIsThrough'
    BY DEF Loose, OneAtATime, HandsOrTable, RegisteredForATable, EndIsThrough, Empty, At, Starting
<1>2. Watched'
    BY DEF Loose, Watched, Empty, At
<1> QED BY <1>1, <1>2 DEF Loose

LEMMA RoundsLoose ==
    ASSUME Fitting, Loose, NEW m \in Threads,
           MonitorLook(m) \/ MonitorPass(m) \/ MonitorNotice(m) \/ MonitorAsk(m)
               \/ MonitorSpawn(m) \/ MonitorFails(m)
    PROVE  Loose'
<1>1. CASE MonitorFails(m)
    BY <1>1, StaysLoose DEF MonitorFails
<1>2. CASE ~MonitorFails(m)
    <2>1. /\ UNCHANGED <<status, table, registered, req, failed>>
          /\ \A n \in Threads \ {m} : mon'[n] = mon[n]
          /\ Empty \/ mon'[m].at # "off"
        <3>1. CASE MonitorLook(m)
            BY <3>1, LookFits DEF MonitorLook
        <3>2. CASE MonitorPass(m)
            BY <3>2, PassFits DEF MonitorPass
        <3>3. CASE MonitorNotice(m)
            <4>1. \E a \in mon[m].todo : Notices(m, a, mon[m].seen[a])
                BY <3>3 DEF MonitorNotice, Notices
            <4>2. PICK a, p : Notices(m, a, p)
                BY <4>1
            <4> QED BY <3>3, <4>2, NoticeFits DEF MonitorNotice
        <3>4. CASE MonitorAsk(m)
            BY <3>4, AskFits DEF MonitorAsk
        <3>5. CASE MonitorSpawn(m)
            BY <3>5, MonitorSpawnFits DEF MonitorSpawn
        <3> QED BY <1>2, <3>1, <3>2, <3>3, <3>4, <3>5
    <2>2. Empty \/ mon'[m] # Off
        BY <2>1, IdleFits
    <2> QED BY <2>1, <2>2, StaysLoose
<1> QED BY <1>1, <1>2

LEMMA MonitorStoreLoose ==
    ASSUME Fitting, Loose, NEW m \in Threads, MonitorStore(m)
    PROVE  Loose'
<1>1. /\ Of(mon[m].new, mon[m].agent) /\ mon[m].agent \in Agents
      /\ \A n \in Threads \ {m} : mon'[n] = mon[n]
      /\ mon'[m].at = "visit"
      /\ IF Empty THEN table' = table
         ELSE table' = [table EXCEPT ![mon[m].agent] = mon[m].new]
      /\ \A h \in Handlers : req'[h].at = req[h].at /\ req'[h].op = req[h].op
    BY MonitorStoreFits
<1>2. UNCHANGED <<status, registered, failed>>
    BY DEF MonitorStore
<1>3. Empty' <=> Empty
    <2>1. CASE Empty
        BY <1>1, <2>1 DEF Empty, Nobody
    <2>2. CASE ~Empty
        <3>1. table'[mon[m].agent] = mon[m].new
            BY <1>1, <2>2 DEF Fitting, TableFits
        <3>2. mon[m].new # None
            BY <1>1, FittingIsPlaced, Numbers DEF Of
        <3> QED BY <1>1, <2>2, <3>1, <3>2 DEF Empty, Nobody
    <2> QED BY <2>1, <2>2
<1>4. OneAtATime' /\ HandsOrTable' /\ RegisteredForATable' /\ EndIsThrough'
    BY <1>1, <1>2, <1>3 DEF Loose, OneAtATime, HandsOrTable, RegisteredForATable, EndIsThrough,
           At, Starting
<1>5. mon'[m] # Off
    BY <1>1, IdleFits
<1>6. Watched'
    BY <1>5 DEF Watched
<1> QED BY <1>4, <1>6 DEF Loose

LEMMA ValidateLoose ==
    ASSUME Loose, Validate
    PROVE  Loose'
BY DEF Validate, Loose, OneAtATime, HandsOrTable, RegisteredForATable, Watched, EndIsThrough,
       Empty, At

LEMMA MovesLoose ==
    ASSUME Fitting, Loose, NEW h \in Handlers,
           BeginStart(h) \/ BeginEnd(h) \/ AllConnected(h) \/ StartTimeout(h) \/ ClearStopping(h)
    PROVE  Loose'
<1>1. /\ UNCHANGED <<procs, table, mon, failed>> /\ \A g \in Handlers \ {h} : req'[g] = req[g]
      /\ registered' => registered
    BY DEF BeginStart, BeginEnd, AllConnected, StartTimeout, ClearStopping, Done, Fitting
<1>2. /\ req[h].at \in {"idle", "wait", "clear"} /\ req'[h].at \in {"check", "stop", "idle"}
      /\ req[h].at = "clear" => ~registered'
      /\ status' = "ended" => req'[h].at = "stop" \/ (req'[h].at = "idle" /\ status = "ended")
    <2>1. Fits(req[h])
        BY DEF Fitting
    <2>2. req[h].at = "wait" => req[h] \in Request
        BY <2>1 DEF Fits, Idle
    <2>3. CASE BeginStart(h)
        <3>1. /\ req[h] = Idle /\ req'[h] = [Idle EXCEPT !.op = "start", !.at = "check"]
              /\ status' = "running"
            BY <2>3 DEF BeginStart, Fitting
        <3>2. [Idle EXCEPT !.op = "start", !.at = "check"].at = "check" /\ Idle.at = "idle"
            BY DEF Idle
        <3> QED BY <3>1, <3>2
    <2>4. CASE BeginEnd(h)
        <3>1. req[h] = Idle /\ req'[h] = [Idle EXCEPT !.op = "end", !.at = "stop"]
            BY <2>4 DEF BeginEnd, Fitting
        <3>2. [Idle EXCEPT !.op = "end", !.at = "stop"].at = "stop" /\ Idle.at = "idle"
            BY DEF Idle
        <3> QED BY <3>1, <3>2
    <2>5. CASE AllConnected(h)
        BY <2>5 DEF AllConnected, At, Done, Idle, Fitting
    <2>6. CASE StartTimeout(h)
        BY <2>2, <2>6 DEF StartTimeout, At, Fitting, Request
    <2>7. CASE ClearStopping(h)
        BY <2>7 DEF ClearStopping, At, Done, Idle, Fitting
    <2> QED BY <2>3, <2>4, <2>5, <2>6, <2>7
<1>3. OneAtATime'
    BY <1>1, <1>2 DEF Loose, OneAtATime, Making
<1>4. HandsOrTable'
    BY <1>1, <1>2 DEF Loose, HandsOrTable, Making, Empty
<1>5. RegisteredForATable'
    BY <1>1, <1>2 DEF Loose, RegisteredForATable, Empty
<1>6. EndIsThrough'
    BY <1>1, <1>2 DEF Loose, EndIsThrough, Empty, At, Starting
<1>7. Watched'
    BY <1>1, <1>2 DEF Loose, Watched, Empty, At
<1> QED BY <1>3, <1>4, <1>5, <1>6, <1>7 DEF Loose

LEMMA CheckLoose ==
    ASSUME Fitting, Loose, NEW h \in Handlers, CheckTable(h), ~raced'
    PROVE  Loose'
<1>1. /\ UNCHANGED <<status, procs, table, registered, mon, failed>>
      /\ \A g \in Handlers \ {h} : req'[g] = req[g]
      /\ \A g \in Handlers \ {h} : req[g].at \notin {"spawn", "store", "kill", "clear"}
      /\ req[h].at = "check" /\ req[h].op = "start"
    <2>1. req[h].at = "check" /\ (Goto(h, "spawn") \/ Done(h)) /\ ~Crossing(h)
        BY DEF CheckTable, At
    <2>2. req[h].op = "start"
        BY <2>1, HandsAreProcesses
    <2> QED BY <2>1, <2>2 DEF CheckTable, Crossing, Others, Goto, Done, Fitting
<1>2. req'[h].at = IF Empty THEN "spawn" ELSE "idle"
    <2>1. req[h] \in Request
        BY <1>1 DEF Fitting, Fits, Idle
    <2> QED BY <2>1 DEF CheckTable, Goto, Done, Idle, Fitting, Request
<1>3. Empty => \A g \in Handlers \ {h} : req[g].at # "monitor"
    BY DEF Loose, HandsOrTable
<1>4. OneAtATime'
    BY <1>1, <1>2, <1>3 DEF Loose, OneAtATime, Making
<1>5. Empty => ~registered
    BY <1>1 DEF Loose, RegisteredForATable
<1>6. HandsOrTable'
    BY <1>1, <1>2, <1>5 DEF Loose, HandsOrTable, Making, Empty
<1>7. RegisteredForATable'
    BY <1>1, <1>2 DEF Loose, RegisteredForATable, Empty
<1>8. EndIsThrough'
    BY <1>1, <1>2 DEF Loose, EndIsThrough, Empty, At, Starting
<1>9. Watched'
    BY <1>1 DEF Loose, Watched, Empty, At
<1> QED BY <1>4, <1>6, <1>7, <1>8, <1>9 DEF Loose

LEMMA SpawnLoose ==
    ASSUME Fitting, Loose, NEW h \in Handlers, SpawnWorker(h)
    PROVE  Loose'
<1>1. req[h].at = "spawn" /\ req[h] \in Request
      /\ UNCHANGED <<status, table, registered, mon, failed>>
    <2>1. req[h].at = "spawn" /\ Fits(req[h])
        BY DEF SpawnWorker, At, Fitting
    <2> QED BY <2>1 DEF SpawnWorker, Fits, Idle
<1>2. /\ \A g \in Handlers \ {h} : req'[g] = req[g]
      /\ req'[h].at \in {"spawn", "store"} /\ req'[h].op = req[h].op
    <2>1. PICK a \in Agents :
            req' = [req EXCEPT ![h].snap[a] = Len(procs) + 1,
                               ![h].at = IF \A b \in Agents \ {a} : req[h].snap[b] # None
                                         THEN "store" ELSE "spawn"]
        BY DEF SpawnWorker
    <2> QED BY <1>1, <2>1 DEF Fitting, Request
<1>3. OneAtATime' /\ HandsOrTable' /\ RegisteredForATable'
    BY <1>1, <1>2 DEF Loose, OneAtATime, HandsOrTable, RegisteredForATable, Making, Empty
<1>4. Watched' /\ EndIsThrough'
    BY <1>1, <1>2 DEF Loose, Watched, EndIsThrough, Empty, At, Starting
<1> QED BY <1>3, <1>4 DEF Loose

LEMMA StoreLoose ==
    ASSUME Fitting, Loose, NEW h \in Handlers, StoreHandles(h)
    PROVE  Loose' /\ ~Empty'
<1>1. /\ req[h].at = "store" /\ req[h].op = "start" /\ req[h] \in Request /\ Agents # {}
      /\ \A a \in Agents : req[h].snap[a] # None
    <2>1. req[h].at = "store" /\ Fits(req[h])
        BY DEF StoreHandles, At, Fitting
    <2> QED BY <2>1 DEF Fits, Idle
<1>2. /\ UNCHANGED <<status, registered>>
      /\ table' = req[h].snap /\ req'[h].at = "monitor"
      /\ \A g \in Handlers \ {h} : req'[g] = req[g]
    BY <1>1 DEF StoreHandles, Goto, Fitting, Request
<1>3. ~Empty'
    BY <1>1, <1>2 DEF Empty, Nobody
<1>4. \A g \in Handlers \ {h} : req[g].at \notin {"spawn", "store", "monitor", "kill", "clear"}
    BY <1>1 DEF Loose, OneAtATime, Making
<1>5. OneAtATime' /\ HandsOrTable'
    BY <1>1, <1>2, <1>3, <1>4 DEF Loose, OneAtATime, HandsOrTable, Making
<1>6. RegisteredForATable' /\ Watched'
    BY <1>2, <1>3 DEF RegisteredForATable, Watched, At
<1>7. EndIsThrough'
    BY <1>1, <1>2 DEF Loose, EndIsThrough, At, Starting
<1> QED BY <1>3, <1>5, <1>6, <1>7 DEF Loose

LEMMA StartMonitorLoose ==
    ASSUME Fitting, Loose, NEW h \in Handlers, StartMonitor(h)
    PROVE  /\ Loose' /\ UNCHANGED <<status, procs, table, stopping>> /\ ~registered
           /\ req[h].at = "monitor" /\ req'[h].at = "wait"
           /\ \A g \in Handlers \ {h} : req'[g] = req[g]
<1>1. req[h].at = "monitor" /\ req[h].op = "start" /\ req[h] \in Request
    <2>1. req[h].at = "monitor" /\ Fits(req[h])
        BY DEF StartMonitor, At, Fitting
    <2> QED BY <2>1 DEF Fits, Idle
<1>2. ~registered /\ ~Empty
    BY <1>1 DEF Loose, HandsOrTable, Making
<1>3. PICK m \in Threads : mon[m] = Off /\ mon' = [mon EXCEPT ![m].at = "look"]
    BY <1>2 DEF StartMonitor
<1>4. mon'[m] # Off
    <2>1. mon'[m] = [Off EXCEPT !.at = "look"]
        BY <1>3 DEF Fitting
    <2> QED BY <2>1 DEF Off
<1>5. /\ UNCHANGED <<status, procs, table, stopping>> /\ req'[h].at = "wait"
      /\ \A g \in Handlers \ {h} : req'[g] = req[g]
    BY <1>1 DEF StartMonitor, Goto, Fitting, Request
<1>6. \A g \in Handlers \ {h} : req[g].at \notin {"spawn", "store", "monitor", "kill", "clear"}
    BY <1>1 DEF Loose, OneAtATime, Making
<1>7. OneAtATime' /\ HandsOrTable'
    BY <1>5, <1>6 DEF OneAtATime, HandsOrTable, Making
<1>8. RegisteredForATable' /\ Watched'
    BY <1>2, <1>4, <1>5 DEF RegisteredForATable, Watched, Empty
<1>9. EndIsThrough'
    BY <1>1, <1>5 DEF Loose, EndIsThrough, At, Starting
<1> QED BY <1>1, <1>2, <1>5, <1>7, <1>8, <1>9 DEF Loose

LEMMA PopLoose ==
    ASSUME Fitting, Loose, NEW h \in Handlers, PopHandles(h), ~raced'
    PROVE  Loose'
<1>1. /\ req'[h].at = (IF Empty THEN "clear" ELSE "kill")
      /\ \A g \in Handlers \ {h} : req'[g] = req[g]
    BY PopFits
<1>2. /\ req[h].at = "stop" /\ Empty' /\ UNCHANGED <<status, registered>>
      /\ \A g \in Handlers \ {h} : ~Starting(g)
    BY DEF PopHandles, At, Empty, Others
<1>3. \A g \in Handlers \ {h} : req[g].at \notin {"check", "spawn", "store", "monitor"}
    BY <1>2, HandsAreProcesses DEF Starting
<1>4. ~Empty => \A g \in Handlers : req[g].at # "kill"
    BY DEF Loose, HandsOrTable
<1>5. OneAtATime'
    BY <1>1, <1>3, <1>4 DEF Loose, OneAtATime, Making
<1>6. HandsOrTable' /\ RegisteredForATable' /\ Watched'
    BY <1>1, <1>2, <1>3 DEF HandsOrTable, RegisteredForATable, Watched, Making
<1>7. EndIsThrough'
    BY <1>1, <1>2, <1>3 DEF EndIsThrough, Starting
<1> QED BY <1>5, <1>6, <1>7 DEF Loose

LEMMA KillLoose ==
    ASSUME Fitting, Loose, NEW h \in Handlers, KillWorker(h)
    PROVE  Loose'
<1>1. req[h].at = "kill" /\ req[h] \in Request
      /\ UNCHANGED <<status, table, registered, mon, failed>>
    <2>1. req[h].at = "kill" /\ Fits(req[h])
        BY DEF KillWorker, At, Fitting
    <2> QED BY <2>1 DEF KillWorker, Fits, Idle
<1>2. /\ \A g \in Handlers \ {h} : req'[g] = req[g]
      /\ req'[h].at \in {"clear", "kill"}
    BY <1>1 DEF KillWorker, Fitting, Request
<1>3. \A g \in Handlers \ {h} : req[g].at \notin {"spawn", "store", "monitor", "kill"}
    BY <1>1 DEF Loose, OneAtATime, Making
<1>4. OneAtATime' /\ HandsOrTable'
    BY <1>1, <1>2, <1>3 DEF Loose, OneAtATime, HandsOrTable, Making, Empty
<1>5. RegisteredForATable' /\ Watched'
    BY <1>1, <1>2 DEF Loose, HandsOrTable, RegisteredForATable, Watched, Empty
<1>6. EndIsThrough'
    BY <1>1, <1>2 DEF Loose, EndIsThrough, Empty, At, Starting
<1> QED BY <1>4, <1>5, <1>6 DEF Loose

LEMMA HandlerLoose ==
    ASSUME Fitting, Loose, NEW h \in Handlers, HandlerStep(h), ~raced'
    PROVE  Loose'
BY CheckLoose, SpawnLoose, StoreLoose, StartMonitorLoose, MovesLoose, PopLoose, KillLoose
   DEF HandlerStep
-----------------------------------------------------------------------------
(* What only one monitor can keep, action by action. *)

Calm == Fitting /\ Loose /\ Tight

\* A monitor that replaces finds the table filled.
LEMMA ReplacingIsFilled ==
    ASSUME Calm, NEW m \in Threads, Replacing(m)
    PROVE  ~Empty /\ table[mon[m].agent] \in Pids
<1>1. mon[m].at \in Active /\ mon[m].agent \in Agents /\ mon[m].seen[mon[m].agent] \in Pids
    BY HandsAreProcesses DEF Calm, Replacing, Active
<1>2. table[mon[m].agent] = mon[m].seen[mon[m].agent]
    BY DEF Calm, Tight, ReplacesTheDead
<1> QED BY <1>1, <1>2, HandsAreProcesses DEF Empty, Nobody, Calm

\* Only what becomes of the processes changes.
LEMMA ProcessesTight ==
    ASSUME Calm, Evolves, SamePids, UNCHANGED <<table, mon, req>>
    PROVE  Tight'
<1>1. /\ Pids' = Pids /\ \A p \in Pids : /\ procs'[p].life = "up" => procs[p].life = "up"
                                         /\ procs'[p].token => procs[p].token
                                         /\ procs[p].stopped => procs'[p].stopped
    BY MorePids, FittingIsPlaced DEF Evolves, Calm
<1>2. OneMonitor'
    BY DEF Calm, Tight, OneMonitor
<1>3. CopyIsCurrent'
    BY <1>1, HandsAreProcesses DEF Calm, Tight, CopyIsCurrent
<1>4. ReplacesTheDead'
    BY <1>1, ReplacingIsFilled DEF Calm, Tight, ReplacesTheDead, Replacing, Up
<1>5. ServingIsKnown'
    BY <1>1 DEF Calm, Tight, ServingIsKnown, Serving, Up, InHand, Coming, Listed
<1> QED BY <1>2, <1>3, <1>4, <1>5 DEF Tight

\* A request moves that has no processes in its hands.
LEMMA MoveTight ==
    ASSUME Calm, NEW h \in Handlers, UNCHANGED <<procs, table, mon>>,
           \A g \in Handlers \ {h} : req'[g] = req[g],
           req[h].at \in {"idle", "check", "wait", "clear"}
    PROVE  Tight'
<1>1. OneMonitor' /\ CopyIsCurrent' /\ ReplacesTheDead'
    BY DEF Calm, Tight, OneMonitor, CopyIsCurrent, ReplacesTheDead, Replacing, Up
<1>2. ServingIsKnown'
    <2>1. Pids' = Pids /\ \A p \in Pids : Serving(p)' => Serving(p)
        BY DEF Pids, Serving, Up
    <2>2. \A p \in Pids : (p \in Listed(table) => p \in Listed(table)') /\ (Coming(p) => Coming(p)')
        BY DEF Listed, Coming
    <2>3. \A p \in Pids : InHand(p) => InHand(p)'
        BY DEF InHand, Listed
    <2> QED BY <2>1, <2>2, <2>3 DEF Calm, Tight, ServingIsKnown
<1> QED BY <1>1, <1>2 DEF Tight

LEMMA CalmMovesTight ==
    ASSUME Calm, NEW h \in Handlers,
           BeginStart(h) \/ BeginEnd(h) \/ CheckTable(h) \/ AllConnected(h) \/ StartTimeout(h)
               \/ ClearStopping(h)
    PROVE  Tight'
<1>1. UNCHANGED <<procs, table, mon>> /\ \A g \in Handlers \ {h} : req'[g] = req[g]
    BY DEF BeginStart, BeginEnd, CheckTable, AllConnected, StartTimeout, ClearStopping, Goto, Done,
           Calm, Fitting
<1>2. req[h].at \in {"idle", "check", "wait", "clear"}
    BY IdleFits DEF BeginStart, BeginEnd, CheckTable, AllConnected, StartTimeout, ClearStopping, At
<1> QED BY <1>1, <1>2, MoveTight

LEMMA SpawnTight ==
    ASSUME Calm, NEW h \in Handlers, SpawnWorker(h)
    PROVE  Tight'
<1>1. PICK a \in Agents :
        /\ req[h].snap[a] = None
        /\ procs' = Append(procs, NewProcess(a, 0))
        /\ req' = [req EXCEPT ![h].snap[a] = Len(procs) + 1,
                              ![h].at = IF \A b \in Agents \ {a} : req[h].snap[b] # None
                                        THEN "store" ELSE "spawn"]
    BY DEF SpawnWorker
<1>2. req[h].at = "spawn" /\ req[h].op = "start" /\ req[h] \in Request
      /\ UNCHANGED <<status, table, stopping, registered, mon, raced, doubled, failed>>
    <2>1. req[h].at = "spawn" /\ Fits(req[h])
        BY DEF SpawnWorker, At, Calm, Fitting
    <2> QED BY <2>1 DEF SpawnWorker, Fits, Idle
<1>3. /\ Len(procs) \in Nat /\ Pids' = Pids \cup {Len(procs) + 1}
      /\ \A p \in Pids : procs'[p] = procs[p]
    <2>1. TypeOK /\ 0 \in Nat
        BY FittingIsPlaced DEF Calm
    <2> QED BY <1>1, <2>1, OneAdded, Numbers
<1>4. /\ \A g \in Handlers \ {h} : req'[g] = req[g]
      /\ req'[h].at \in {"spawn", "store"} /\ req'[h].op = "start"
      /\ req'[h].snap[a] = Len(procs) + 1
      /\ \A b \in Agents \ {a} : req'[h].snap[b] = req[h].snap[b]
    BY <1>1, <1>2, <1>3 DEF Calm, Fitting, Request
<1>5. OneMonitor'
    BY <1>2 DEF Calm, Tight, OneMonitor
<1>6. CopyIsCurrent'
    BY <1>2, <1>3, HandsAreProcesses DEF Calm, Tight, CopyIsCurrent
<1>7. ReplacesTheDead'
    BY <1>2, <1>3, ReplacingIsFilled DEF Calm, Tight, ReplacesTheDead, Replacing, Up
<1>8. ServingIsKnown'
    <2>1. \A p \in Pids : (p \in Listed(table) => p \in Listed(table)') /\ (Coming(p) => Coming(p)')
        BY <1>2 DEF Listed, Coming
    <2>2. \A p \in Pids : InHand(p) => InHand(p)'
        <3> SUFFICES ASSUME NEW p \in Pids, InHand(p) PROVE InHand(p)'
            OBVIOUS
        <3>1. PICK g \in Handlers : req[g].at \in {"spawn", "store", "kill"} /\ p \in Listed(req[g].snap)
            BY DEF InHand
        <3>2. req'[g].at \in {"spawn", "store", "kill"}
            BY <1>2, <1>4, <3>1
        <3>3. PICK b \in Agents : p = req[g].snap[b] /\ p # None
            BY <3>1 DEF Listed
        <3>4. req'[g].snap[b] = p
            BY <1>1, <1>4, <3>3
        <3> QED BY <3>2, <3>3, <3>4 DEF InHand, Listed
    <2>3. \A p : p = Len(procs) + 1 => InHand(p)'
        <3> SUFFICES ASSUME NEW p, p = Len(procs) + 1 PROVE InHand(p)'
            OBVIOUS
        <3>1. p # None /\ req'[h].snap[a] = p
            BY <1>3, <1>4 DEF None
        <3> QED BY <1>4, <3>1 DEF InHand, Listed
    <2>4. \A p \in Pids : Serving(p)' => Serving(p)
        BY <1>3 DEF Serving, Up
    <2>5. \A p \in Pids : Serving(p)' => p \in Listed(table)' \/ InHand(p)' \/ Coming(p)'
        BY <2>1, <2>2, <2>4 DEF Calm, Tight, ServingIsKnown
    <2> QED BY <1>3, <2>3, <2>5 DEF ServingIsKnown
<1> QED BY <1>5, <1>6, <1>7, <1>8 DEF Tight

LEMMA StoreTight ==
    ASSUME Calm, NEW h \in Handlers, StoreHandles(h)
    PROVE  Tight'
<1>1. /\ req[h].at = "store" /\ req[h].op = "start" /\ req[h] \in Request /\ Agents # {}
      /\ \A a \in Agents : req[h].snap[a] # None
    <2>1. req[h].at = "store" /\ Fits(req[h])
        BY DEF StoreHandles, At, Calm, Fitting
    <2> QED BY <2>1 DEF Fits, Idle
<1>2. /\ UNCHANGED <<procs, mon>>
      /\ table' = req[h].snap /\ req'[h].at = "monitor"
      /\ \A g \in Handlers \ {h} : req'[g] = req[g]
    BY <1>1 DEF StoreHandles, Goto, Calm, Fitting, Request
<1>3. Empty /\ ~Empty'
    BY <1>1, <1>2 DEF Calm, Loose, HandsOrTable, Empty, Nobody
<1>4. \A g \in Handlers \ {h} : req[g].at \notin {"spawn", "store", "monitor", "kill", "clear"}
    BY <1>1 DEF Calm, Loose, OneAtATime, Making
<1>5. \A m \in Threads : ~Replacing(m)
    BY <1>3, ReplacingIsFilled
<1>6. OneMonitor' /\ ReplacesTheDead'
    BY <1>2, <1>5 DEF Calm, Tight, OneMonitor, ReplacesTheDead, Replacing
<1>7. CopyIsCurrent'
    <2>1. \A m \in Threads : mon[m].at \in Active =>
              \A a \in mon[m].todo : procs[mon[m].seen[a]].stopped
        BY <1>3, HandsAreProcesses DEF Calm, Tight, CopyIsCurrent, Empty, Nobody
    <2> QED BY <1>2, <2>1 DEF CopyIsCurrent
<1>8. ServingIsKnown'
    <2>1. \A p \in Pids : ~Coming(p)
        BY <1>5 DEF Coming, Replacing
    <2>2. \A p \in Pids : p \notin Listed(table)
        BY <1>3 DEF Listed, Empty, Nobody
    <2>3. \A p \in Pids : InHand(p) => p \in Listed(req[h].snap)
        BY <1>4 DEF InHand
    <2> QED BY <1>2, <2>1, <2>2, <2>3 DEF Calm, Tight, ServingIsKnown, Serving, Up, Pids, Listed
<1> QED BY <1>6, <1>7, <1>8 DEF Tight

\* The new monitor is alone: none of an earlier start is left.
LEMMA StartMonitorTight ==
    ASSUME Calm, NEW h \in Handlers, StartMonitor(h), ~doubled'
    PROVE  Tight'
<1>1. /\ UNCHANGED <<procs, table>> /\ ~registered
      /\ req[h].at = "monitor" /\ req'[h].at = "wait"
      /\ \A g \in Handlers \ {h} : req'[g] = req[g]
    BY StartMonitorLoose DEF Calm
<1>2. \A m \in Threads : mon[m] = Off
    BY <1>1 DEF StartMonitor
<1>3. PICK m \in Threads : mon' = [mon EXCEPT ![m].at = "look"]
    BY <1>1 DEF StartMonitor
<1>4. mon'[m].at = "look" /\ \A n \in Threads \ {m} : mon'[n] = Off
    <2>1. mon'[m] = [Off EXCEPT !.at = "look"] /\ \A n \in Threads \ {m} : mon'[n] = mon[n]
        BY <1>2, <1>3 DEF Calm, Fitting
    <2>2. [Off EXCEPT !.at = "look"].at = "look"
        BY DEF Off
    <2> QED BY <1>2, <2>1, <2>2
<1>5. OneMonitor'
    BY <1>4 DEF OneMonitor
<1>6. CopyIsCurrent' /\ ReplacesTheDead'
    <2>1. \A n \in Threads : mon'[n].at \in {"look", "off"}
        BY <1>4 DEF Off
    <2> QED BY <2>1 DEF CopyIsCurrent, ReplacesTheDead, Replacing, Active
<1>7. ServingIsKnown'
    <2>1. \A p \in Pids : ~Coming(p)
        BY <1>2 DEF Coming, Off
    <2>2. \A p \in Pids : p \in Listed(table) => p \in Listed(table)'
        BY <1>1 DEF Listed
    <2>3. \A p \in Pids : InHand(p) => InHand(p)'
        BY <1>1 DEF InHand, Listed
    <2> QED BY <1>1, <2>1, <2>2, <2>3 DEF Calm, Tight, ServingIsKnown, Serving, Up, Pids
<1> QED BY <1>5, <1>6, <1>7 DEF Tight

LEMMA PopTight ==
    ASSUME Calm, NEW h \in Handlers, PopHandles(h), ~raced'
    PROVE  Tight'
<1>1. /\ req'[h].snap = table /\ req'[h].at = (IF Empty THEN "clear" ELSE "kill")
      /\ \A g \in Handlers \ {h} : req'[g] = req[g]
      /\ Evolves /\ SamePids
      /\ \A p \in Pids : /\ procs'[p].life = procs[p].life /\ procs'[p].token = procs[p].token
                         /\ p \in Listed(table) => procs'[p].stopped
    BY PopFits DEF Calm
<1>2. /\ Pids' = Pids /\ \A p \in Pids : procs[p].stopped => procs'[p].stopped
    BY <1>1, MorePids, FittingIsPlaced DEF Evolves, Calm
<1>3. /\ req[h].at = "stop" /\ Empty' /\ UNCHANGED mon
      /\ \A m \in Threads : ~Replacing(m)
    BY DEF PopHandles, At, Empty
<1>4. OneMonitor' /\ ReplacesTheDead'
    BY <1>3 DEF Calm, Tight, OneMonitor, ReplacesTheDead, Replacing
<1>5. CopyIsCurrent'
    <2> SUFFICES ASSUME NEW m \in Threads, mon[m].at \in Active, NEW a \in mon[m].todo
                 PROVE  procs'[mon[m].seen[a]].stopped
        BY <1>3 DEF CopyIsCurrent
    <2>1. a \in Agents /\ mon[m].seen[a] \in Pids
        BY HandsAreProcesses DEF Calm
    <2>2. CASE mon[m].seen[a] = table[a]
        BY <1>1, <2>1, <2>2, HandsAreProcesses DEF Listed, Calm
    <2>3. CASE procs[mon[m].seen[a]].stopped
        BY <1>2, <2>1, <2>3
    <2> QED BY <2>2, <2>3 DEF Calm, Tight, CopyIsCurrent
<1>6. ServingIsKnown'
    <2> SUFFICES ASSUME NEW p \in Pids, Serving(p) PROVE InHand(p)'
        BY <1>1, <1>2 DEF ServingIsKnown, Serving, Up
    <2>1. p \in Listed(table) \/ InHand(p)
        BY <1>3 DEF Calm, Tight, ServingIsKnown, Coming, Replacing
    <2>2. CASE p \in Listed(table)
        <3>1. ~Empty
            BY <2>2 DEF Listed, Empty, Nobody
        <3> QED BY <1>1, <2>2, <3>1 DEF InHand, Listed
    <2>3. CASE InHand(p)
        BY <1>1, <1>3, <2>3 DEF InHand, Listed
    <2> QED BY <2>1, <2>2, <2>3
<1> QED BY <1>4, <1>5, <1>6 DEF Tight

LEMMA KillTight ==
    ASSUME Calm, NEW h \in Handlers, KillWorker(h)
    PROVE  Tight'
<1>1. PICK a \in Agents :
        /\ req[h].snap[a] # None
        /\ procs' = [procs EXCEPT ![req[h].snap[a]] =
                        [@ EXCEPT !.life = "killed", !.token = FALSE, !.marked = FALSE,
                                  !.connected = FALSE]]
        /\ req' = [req EXCEPT ![h].snap[a] = None,
                              ![h].at = IF \A b \in Agents \ {a} : req[h].snap[b] = None
                                        THEN "clear" ELSE "kill"]
    BY DEF KillWorker
<1>2. req[h].at = "kill" /\ req[h] \in Request
      /\ UNCHANGED <<status, table, stopping, registered, mon, raced, doubled, failed>>
    <2>1. req[h].at = "kill" /\ Fits(req[h])
        BY DEF KillWorker, At, Calm, Fitting
    <2> QED BY <2>1 DEF KillWorker, Fits, Idle
<1>3. /\ Evolves /\ SamePids /\ procs'[req[h].snap[a]].life = "killed"
    BY <1>1, <1>2, KillFits DEF Calm, At
<1>4. /\ Pids' = Pids /\ \A p \in Pids : /\ procs'[p].life = "up" => procs[p].life = "up"
                                         /\ procs'[p].token => procs[p].token
                                         /\ procs[p].stopped => procs'[p].stopped
    BY <1>3, MorePids, FittingIsPlaced DEF Evolves, Calm
<1>5. /\ \A g \in Handlers \ {h} : req'[g] = req[g]
      /\ req'[h].at = IF \A b \in Agents \ {a} : req[h].snap[b] = None THEN "clear" ELSE "kill"
      /\ \A b \in Agents \ {a} : req'[h].snap[b] = req[h].snap[b]
    BY <1>1, <1>2 DEF Calm, Fitting, Request
<1>6. \A g \in Handlers \ {h} : req[g].at \notin {"spawn", "store", "monitor", "kill"}
    BY <1>2 DEF Calm, Loose, OneAtATime, Making
<1>7. OneMonitor' /\ CopyIsCurrent' /\ ReplacesTheDead'
    <2>1. OneMonitor'
        BY <1>2 DEF Calm, Tight, OneMonitor
    <2>2. CopyIsCurrent'
        BY <1>2, <1>4, HandsAreProcesses DEF Calm, Tight, CopyIsCurrent
    <2>3. ReplacesTheDead'
        BY <1>2, <1>4, ReplacingIsFilled DEF Calm, Tight, ReplacesTheDead, Replacing, Up
    <2> QED BY <2>1, <2>2, <2>3
<1>8. ServingIsKnown'
    <2> SUFFICES ASSUME NEW p \in Pids, Serving(p)'
                 PROVE  p \in Listed(table)' \/ InHand(p)' \/ Coming(p)'
        BY <1>4 DEF ServingIsKnown
    <2>1. Serving(p) /\ p # req[h].snap[a]
        BY <1>3, <1>4 DEF Serving, Up
    <2>2. CASE p \in Listed(table)
        BY <1>2, <2>2 DEF Listed
    <2>3. CASE Coming(p)
        BY <1>2, <2>3 DEF Coming
    <2>4. CASE InHand(p)
        <3>1. PICK g \in Handlers : req[g].at \in {"spawn", "store", "kill"} /\ p \in Listed(req[g].snap)
            BY <2>4 DEF InHand
        <3>2. g = h
            BY <1>6, <3>1
        <3>3. PICK b \in Agents : p = req[h].snap[b] /\ p # None
            BY <3>1, <3>2 DEF Listed
        <3>4. req'[h].at = "kill" /\ req'[h].snap[b] = p
            BY <1>5, <2>1, <3>3
        <3> QED BY <3>3, <3>4 DEF InHand, Listed
    <2> QED BY <2>1, <2>2, <2>3, <2>4 DEF Calm, Tight, ServingIsKnown
<1> QED BY <1>7, <1>8 DEF Tight
-----------------------------------------------------------------------------
\* A monitor makes a step on its copy.  Only one lives, so all of what is said of
\* monitors is said of it.
LEMMA RoundTight ==
    ASSUME Calm, NEW m \in Threads, mon[m].at # "off", Evolves,
           UNCHANGED <<table, req>>,
           \A n \in Threads \ {m} : mon'[n] = mon[n],
           mon'[m].at \in Active => \A a \in mon'[m].todo :
               mon'[m].seen[a] = table[a] \/ procs'[mon'[m].seen[a]].stopped,
           mon'[m].at \in {"noticed", "spawn", "store"} =>
               /\ table[mon'[m].agent] = mon'[m].seen[mon'[m].agent]
               /\ procs'[table[mon'[m].agent]].life # "up"
               /\ ~procs'[table[mon'[m].agent]].token,
           \A p \in Pids' : Serving(p)' => (p \in Pids /\ Serving(p)) \/ Coming(p)',
           \A p \in Pids : Coming(p) => Coming(p)'
    PROVE  Tight'
<1>1. mon[m] # Off /\ \A n \in Threads \ {m} : mon[n] = Off
    <2>1. mon[m] # Off
        BY IdleFits
    <2> QED BY <2>1 DEF Calm, Tight, OneMonitor
<1>2. OneMonitor'
    BY <1>1 DEF OneMonitor
<1>3. \A n \in Threads \ {m} : mon'[n].at = "off"
    BY <1>1, IdleFits
<1>4. CopyIsCurrent' /\ ReplacesTheDead'
    BY <1>3 DEF CopyIsCurrent, ReplacesTheDead, Replacing, Active, Up
<1>5. ServingIsKnown'
    <2> SUFFICES ASSUME NEW p \in Pids', Serving(p)'
                 PROVE  p \in Listed(table)' \/ InHand(p)' \/ Coming(p)'
        BY DEF ServingIsKnown
    <2>1. CASE p \in Pids /\ Serving(p)
        <3>1. p \in Listed(table) \/ InHand(p) \/ Coming(p)
            BY <2>1 DEF Calm, Tight, ServingIsKnown
        <3>2. p \in Listed(table) => p \in Listed(table)'
            BY DEF Listed
        <3>3. InHand(p) => InHand(p)'
            BY DEF InHand, Listed
        <3> QED BY <2>1, <3>1, <3>2, <3>3
    <2> QED BY <2>1
<1> QED BY <1>2, <1>4, <1>5 DEF Tight

LEMMA SameServe ==
    ASSUME Calm, Evolves, SamePids
    PROVE  \A p \in Pids' : Serving(p)' => p \in Pids /\ Serving(p)
BY MorePids, FittingIsPlaced DEF Evolves, Calm, Serving, Up

LEMMA LookTight ==
    ASSUME Calm, NEW m \in Threads, MonitorLook(m)
    PROVE  Tight'
<1>1. /\ Evolves /\ \A n \in Threads \ {m} : mon'[n] = mon[n]
      /\ IF Empty THEN mon'[m] = Off ELSE mon'[m].at = "visit" /\ mon'[m].seen = table
    BY LookFits DEF Calm
<1>2. mon[m].at = "look" /\ UNCHANGED <<status, procs, table, registered, req>> /\ SamePids
    BY DEF MonitorLook, SamePids
<1>3. Off.at = "off"
    BY IdleFits
<1>4. \A p \in Pids' : Serving(p)' => (p \in Pids /\ Serving(p)) \/ Coming(p)'
    BY <1>1, <1>2, SameServe
<1>5. \A p \in Pids : Coming(p) => Coming(p)'
    BY <1>1, <1>2 DEF Coming
<1>6. mon'[m].at \in Active => \A a \in mon'[m].todo :
          mon'[m].seen[a] = table[a] \/ procs'[mon'[m].seen[a]].stopped
    BY <1>1, <1>3 DEF Active
<1>7. mon'[m].at \in {"off", "visit"} /\ (~Empty => mon'[m].at # "off") /\ mon[m].at # "off"
    BY <1>1, <1>2, <1>3
<1> QED BY <1>1, <1>2, <1>4, <1>5, <1>6, <1>7, RoundTight

LEMMA PassTight ==
    ASSUME Calm, NEW m \in Threads, MonitorPass(m)
    PROVE  Tight'
<1>1. /\ Evolves /\ (\A n \in Threads \ {m} : mon'[n] = mon[n]) /\ mon'[m].at = "look"
    BY PassFits DEF Calm
<1>2. mon[m].at = "visit" /\ UNCHANGED <<status, procs, table, registered, req>> /\ SamePids
    BY DEF MonitorPass, SamePids
<1>3. \A p \in Pids' : Serving(p)' => (p \in Pids /\ Serving(p)) \/ Coming(p)'
    BY <1>1, <1>2, SameServe
<1>4. \A p \in Pids : Coming(p) => Coming(p)'
    BY <1>1, <1>2 DEF Coming
<1>5. mon'[m].at \notin Active
    BY <1>1 DEF Active
<1> QED BY <1>1, <1>2, <1>3, <1>4, <1>5, RoundTight DEF Active

LEMMA FailsTight ==
    ASSUME Calm, NEW m \in Threads, MonitorFails(m)
    PROVE  Tight'
<1>1. /\ Evolves /\ (\A n \in Threads \ {m} : mon'[n] = mon[n]) /\ mon'[m].at = "off"
    BY FailsFits, IdleFits DEF Calm
<1>2. mon[m].at = "spawn" /\ UNCHANGED <<procs, table, req>> /\ SamePids
    BY DEF MonitorFails, SamePids
<1>3. \A p \in Pids' : Serving(p)' => (p \in Pids /\ Serving(p)) \/ Coming(p)'
    BY <1>1, <1>2, SameServe
<1>4. \A p \in Pids : Coming(p) => Coming(p)'
    BY <1>1, <1>2 DEF Coming
<1> QED BY <1>1, <1>2, <1>3, <1>4, RoundTight DEF Active

\* A dead process that is in the copy and not marked is the one in the table.
LEMMA NoticeTight ==
    ASSUME Calm, NEW m \in Threads, MonitorNotice(m)
    PROVE  Tight'
<1>1. mon[m].at = "visit" /\ UNCHANGED <<status, table, registered, req>>
    BY DEF MonitorNotice
<1>2. \E a \in mon[m].todo : Notices(m, a, mon[m].seen[a])
    BY DEF MonitorNotice, Notices
<1>3. PICK a, p : a \in mon[m].todo /\ Notices(m, a, p)
    BY <1>2
<1>4. p = mon[m].seen[a] /\ ~Passed(p)
    BY <1>3 DEF Notices
<1>5. /\ Evolves /\ SamePids /\ \A n \in Threads \ {m} : mon'[n] = mon[n]
      /\ a \in Agents /\ p \in Pids
      /\ mon'[m].at = "noticed" /\ mon'[m].seen = mon[m].seen /\ mon'[m].agent = a
      /\ mon'[m].todo = mon[m].todo \ {a}
      /\ procs'[p].life # "up" /\ ~procs'[p].token
      /\ \A q \in Pids : procs'[q].stopped = procs[q].stopped
    <2>1. Fitting
        BY DEF Calm
    <2> QED BY <1>1, <1>3, <1>4, <2>1, NoticeFits
<1>6. \A b \in mon[m].todo : /\ mon[m].seen[b] \in Pids
                             /\ mon[m].seen[b] = table[b] \/ procs[mon[m].seen[b]].stopped
    BY <1>1, HandsAreProcesses DEF Calm, Tight, CopyIsCurrent, Active
<1>7. table[a] = p
    BY <1>3, <1>4, <1>6 DEF Passed
<1>8. \A q \in Pids' : Serving(q)' => (q \in Pids /\ Serving(q)) \/ Coming(q)'
    BY <1>5, SameServe
<1>9. \A q \in Pids : Coming(q) => Coming(q)'
    BY <1>1, <1>5 DEF Coming
<1>10. \A b \in mon'[m].todo : mon'[m].seen[b] = table[b] \/ procs'[mon'[m].seen[b]].stopped
    BY <1>5, <1>6
<1>11. /\ table[mon'[m].agent] = mon'[m].seen[mon'[m].agent]
       /\ procs'[table[mon'[m].agent]].life # "up"
       /\ ~procs'[table[mon'[m].agent]].token
    BY <1>4, <1>5, <1>7
<1> QED BY <1>1, <1>5, <1>8, <1>9, <1>10, <1>11, RoundTight

\* What the monitor knows of a copy that it keeps.
LEMMA KeptCopy ==
    ASSUME Calm, NEW m \in Threads, mon[m].at \in Active, Evolves,
           mon'[m].seen = mon[m].seen, mon'[m].todo = mon[m].todo
    PROVE  \A a \in mon'[m].todo : mon'[m].seen[a] = table[a] \/ procs'[mon'[m].seen[a]].stopped
BY HandsAreProcesses DEF Calm, Tight, CopyIsCurrent, Evolves

LEMMA AskTight ==
    ASSUME Calm, NEW m \in Threads, MonitorAsk(m)
    PROVE  Tight'
<1>1. /\ Evolves /\ \A n \in Threads \ {m} : mon'[n] = mon[n]
      /\ mon[m].at = "noticed" /\ mon'[m].at \in {"visit", "spawn"}
      /\ mon'[m].seen = mon[m].seen /\ mon'[m].todo = mon[m].todo
      /\ mon'[m].at = "spawn" => mon'[m].agent = mon[m].agent
    BY AskFits DEF Calm
<1>2. UNCHANGED <<status, procs, table, registered, req>> /\ SamePids
    BY DEF MonitorAsk, SamePids
<1>3. \A p \in Pids' : Serving(p)' => (p \in Pids /\ Serving(p)) \/ Coming(p)'
    BY <1>1, <1>2, SameServe
<1>4. \A p \in Pids : Coming(p) => Coming(p)'
    BY <1>1, <1>2 DEF Coming
<1>5. \A a \in mon'[m].todo : mon'[m].seen[a] = table[a] \/ procs'[mon'[m].seen[a]].stopped
    BY <1>1, KeptCopy DEF Active
<1>6. mon'[m].at \in {"noticed", "spawn", "store"} =>
        /\ table[mon'[m].agent] = mon'[m].seen[mon'[m].agent]
        /\ procs'[table[mon'[m].agent]].life # "up"
        /\ ~procs'[table[mon'[m].agent]].token
    BY <1>1, <1>2 DEF Calm, Tight, ReplacesTheDead, Replacing, Up
<1> QED BY <1>1, <1>2, <1>3, <1>4, <1>5, <1>6, RoundTight

LEMMA MonitorSpawnTight ==
    ASSUME Calm, NEW m \in Threads, MonitorSpawn(m)
    PROVE  Tight'
<1>1. mon[m].at = "spawn" /\ UNCHANGED <<status, table, registered, req>>
    BY DEF MonitorSpawn
<1>2. /\ Evolves /\ \A n \in Threads \ {m} : mon'[n] = mon[n]
      /\ \A q \in Pids : procs'[q] = procs[q]
      /\ mon'[m].seen = mon[m].seen /\ mon'[m].todo = mon[m].todo
      /\ \/ mon'[m].at = "visit" /\ Pids' = Pids
         \/ /\ mon'[m].at = "store" /\ mon'[m].agent = mon[m].agent
            /\ Pids' = Pids \cup {mon'[m].new}
    BY MonitorSpawnFits DEF Calm
<1>3. \A p \in Pids' : Serving(p)' => (p \in Pids /\ Serving(p)) \/ Coming(p)'
    BY <1>2 DEF Serving, Up, Coming
<1>4. \A p \in Pids : Coming(p) => Coming(p)'
    BY <1>1, <1>2 DEF Coming
<1>5. \A a \in mon'[m].todo : mon'[m].seen[a] = table[a] \/ procs'[mon'[m].seen[a]].stopped
    BY <1>1, <1>2, KeptCopy DEF Active
<1>6. Replacing(m) /\ table[mon[m].agent] \in Pids
    BY <1>1, ReplacingIsFilled DEF Replacing
<1>7. mon'[m].at \in {"noticed", "spawn", "store"} =>
        /\ table[mon'[m].agent] = mon'[m].seen[mon'[m].agent]
        /\ procs'[table[mon'[m].agent]].life # "up"
        /\ ~procs'[table[mon'[m].agent]].token
    BY <1>2, <1>6 DEF Calm, Tight, ReplacesTheDead, Up
<1> QED BY <1>1, <1>2, <1>3, <1>4, <1>5, <1>7, RoundTight

LEMMA MonitorStoreTight ==
    ASSUME Calm, NEW m \in Threads, MonitorStore(m)
    PROVE  Tight'
<1>1. /\ Evolves /\ \A n \in Threads \ {m} : mon'[n] = mon[n]
      /\ mon[m].at = "store" /\ mon[m].agent \in Agents /\ mon[m].agent \notin mon[m].todo
      /\ Of(mon[m].new, mon[m].agent)
      /\ mon'[m].at = "visit" /\ mon'[m].seen = mon[m].seen /\ mon'[m].todo = mon[m].todo
      /\ IF Empty THEN table' = table
         ELSE table' = [table EXCEPT ![mon[m].agent] = mon[m].new]
      /\ \A h \in Handlers :
            req'[h].at = req[h].at /\ (req[h].at \notin {"monitor", "wait"} => req'[h] = req[h])
    BY MonitorStoreFits DEF Calm
<1>2. UNCHANGED procs
    BY DEF MonitorStore
<1>3. Replacing(m) /\ ~Empty
    BY <1>1, ReplacingIsFilled DEF Replacing
<1>4. /\ table' = [table EXCEPT ![mon[m].agent] = mon[m].new]
      /\ table'[mon[m].agent] = mon[m].new /\ mon[m].new # None
      /\ \A a \in Agents \ {mon[m].agent} : table'[a] = table[a]
    <2>1. table \in [Agents -> Pids \cup {None}]
        BY DEF Calm, Fitting, TableFits
    <2>2. mon[m].new # None
        BY <1>1, FittingIsPlaced, Numbers DEF Of, Calm
    <2> QED BY <1>1, <1>3, <2>1, <2>2
<1>5. mon[m] # Off /\ \A n \in Threads \ {m} : mon[n] = Off
    <2>1. mon[m] # Off
        BY <1>1, IdleFits
    <2> QED BY <2>1 DEF Calm, Tight, OneMonitor
<1>6. mon'[m] # Off /\ \A n \in Threads \ {m} : mon'[n] = Off /\ mon'[n].at = "off"
    BY <1>1, <1>5, IdleFits
<1>7. OneMonitor'
    BY <1>6 DEF OneMonitor
<1>8. CopyIsCurrent'
    <2>1. \A a \in mon'[m].todo : mon[m].seen[a] = table[a] \/ procs'[mon[m].seen[a]].stopped
        BY <1>1, KeptCopy DEF Active
    <2>2. mon[m].todo \subseteq Agents
        BY <1>1, HandsAreProcesses DEF Active, Calm
    <2> QED BY <1>1, <1>4, <1>6, <2>1, <2>2 DEF CopyIsCurrent, Active
<1>9. ReplacesTheDead'
    BY <1>1, <1>6 DEF ReplacesTheDead, Replacing
<1>10. ServingIsKnown'
    <2> SUFFICES ASSUME NEW p \in Pids, Serving(p) PROVE p \in Listed(table') \/ InHand(p)'
        BY <1>2 DEF ServingIsKnown, Serving, Up, Pids, Listed
    <2>1. CASE p \in Listed(table)
        <3>1. PICK a \in Agents : p = table[a] /\ p # None
            BY <2>1 DEF Listed
        <3>2. a # mon[m].agent
            BY <1>3, <3>1 DEF Calm, Tight, ReplacesTheDead, Serving, Up
        <3> QED BY <1>4, <3>1, <3>2 DEF Listed
    <2>2. CASE InHand(p)
        BY <1>1, <2>2 DEF InHand, Listed
    <2>3. CASE Coming(p)
        <3>1. p = mon[m].new
            BY <1>5, <2>3, IdleFits DEF Coming
        <3> QED BY <1>1, <1>4, <3>1 DEF Listed
    <2> QED BY <2>1, <2>2, <2>3 DEF Calm, Tight, ServingIsKnown
<1> QED BY <1>7, <1>8, <1>9, <1>10 DEF Tight
-----------------------------------------------------------------------------
LEMMA InitHolds == Init => IInv
<1> SUFFICES ASSUME Init PROVE IInv
    OBVIOUS
<1>1. /\ status = "ready" /\ procs = <<>> /\ table = Nobody
      /\ ~stopping /\ ~registered /\ ~raced /\ ~doubled
      /\ stopping \in BOOLEAN /\ registered \in BOOLEAN
      /\ raced \in BOOLEAN /\ doubled \in BOOLEAN /\ failed \in BOOLEAN
      /\ mon = [m \in Threads |-> Off] /\ req = [h \in Handlers |-> Idle]
    BY DEF Init
<1>2. Fitting
    <2>1. TableFits
        BY <1>1 DEF TableFits, Empty, Nobody
    <2>2. (\A h \in Handlers : Fits(req[h])) /\ (\A m \in Threads : MonitorFits(mon[m]))
        BY <1>1, IdleFits
    <2>3. procs \in Seq(Process)
        BY <1>1
    <2> QED BY <1>1, <2>1, <2>2, <2>3 DEF Fitting
<1>3. Pids = {} /\ Empty
    BY <1>1 DEF Pids, Empty
<1>4. (\A h \in Handlers : req[h].at = "idle") /\ (\A m \in Threads : mon[m] = Off /\ mon[m].at = "off")
    BY <1>1, IdleFits
<1>5. OneAtATime /\ HandsOrTable /\ RegisteredForATable /\ OneMonitor /\ Watched
    BY <1>1, <1>3, <1>4 DEF OneAtATime, HandsOrTable, RegisteredForATable, OneMonitor, Watched, Making
<1>6. CopyIsCurrent /\ ReplacesTheDead /\ ServingIsKnown /\ EndIsThrough
    BY <1>1, <1>3, <1>4 DEF CopyIsCurrent, ReplacesTheDead, ServingIsKnown, EndIsThrough, Replacing, Active
<1> QED BY <1>2, <1>5, <1>6, FittingIsPlaced DEF IInv, Loose, Tight

LEMMA CrashIsCalm ==
    ASSUME ServerCrash
    PROVE  Loose' /\ Tight'
<1>1. /\ procs' = <<>> /\ table' = Nobody /\ ~registered' /\ status' = status
      /\ mon' = [m \in Threads |-> Off] /\ req' = [h \in Handlers |-> Idle]
    BY DEF ServerCrash
<1>2. Pids' = {} /\ Empty'
    BY <1>1 DEF Pids, Empty, Nobody
<1>3. (\A h \in Handlers : req'[h].at = "idle") /\ (\A m \in Threads : mon'[m] = Off /\ mon'[m].at = "off")
    BY <1>1, IdleFits
<1>4. OneAtATime' /\ HandsOrTable' /\ RegisteredForATable' /\ OneMonitor' /\ Watched'
    BY <1>1, <1>2, <1>3 DEF OneAtATime, HandsOrTable, RegisteredForATable, OneMonitor, Watched, Making
<1>5. CopyIsCurrent' /\ ReplacesTheDead' /\ ServingIsKnown' /\ EndIsThrough'
    BY <1>2, <1>3 DEF CopyIsCurrent, ReplacesTheDead, ServingIsKnown, EndIsThrough, Replacing,
                      Active, Starting
<1> QED BY <1>4, <1>5 DEF Loose, Tight

LEMMA ValidateTight ==
    ASSUME Calm, Validate
    PROVE  Tight'
<1>1. UNCHANGED <<procs, table, mon, req>>
    BY DEF Validate
<1>2. Evolves /\ SamePids
    BY <1>1, StillEvolves, FittingIsPlaced DEF Calm
<1> QED BY <1>1, <1>2, ProcessesTight

\* The steps of requests.
LEMMA HandlerKeeps ==
    ASSUME Fitting, NEW h \in Handlers, HandlerStep(h)
    PROVE  Fitting' /\ (Loose /\ Tight /\ Undisturbed' => Tight')
<1>1. CASE CheckTable(h)
    BY <1>1, CalmRequestsFit, CalmMovesTight DEF Calm
<1>2. CASE SpawnWorker(h)
    <2>1. PICK a \in Agents :
            /\ req[h].snap[a] = None
            /\ procs' = Append(procs, NewProcess(a, 0))
            /\ req' = [req EXCEPT ![h].snap[a] = Len(procs) + 1,
                                  ![h].at = IF \A b \in Agents \ {a} : req[h].snap[b] # None
                                            THEN "store" ELSE "spawn"]
        BY <1>2 DEF SpawnWorker
    <2>2. /\ At(h, "spawn")
          /\ UNCHANGED <<status, table, stopping, registered, mon, raced, doubled, failed>>
        BY <1>2 DEF SpawnWorker
    <2>3. Fitting'
        BY <2>1, <2>2, SpawnFits
    <2> QED BY <1>2, <2>3, SpawnTight DEF Calm
<1>3. CASE StoreHandles(h)
    BY <1>3, StoreFits, StoreTight DEF Calm
<1>4. CASE StartMonitor(h)
    BY <1>4, StartMonitorFits, StartMonitorTight DEF Calm, Undisturbed
<1>5. CASE AllConnected(h)
    BY <1>5, CalmRequestsFit, CalmMovesTight DEF Calm
<1>6. CASE StartTimeout(h)
    BY <1>6, TimeoutFits, CalmMovesTight DEF Calm
<1>7. CASE PopHandles(h)
    BY <1>7, PopFits, PopTight DEF Calm, Undisturbed
<1>8. CASE KillWorker(h)
    <2>1. PICK a \in Agents :
            /\ req[h].snap[a] # None
            /\ procs' = [procs EXCEPT ![req[h].snap[a]] =
                            [@ EXCEPT !.life = "killed", !.token = FALSE, !.marked = FALSE,
                                      !.connected = FALSE]]
            /\ req' = [req EXCEPT ![h].snap[a] = None,
                                  ![h].at = IF \A b \in Agents \ {a} : req[h].snap[b] = None
                                            THEN "clear" ELSE "kill"]
        BY <1>8 DEF KillWorker
    <2>2. /\ At(h, "kill")
          /\ UNCHANGED <<status, table, stopping, registered, mon, raced, doubled, failed>>
        BY <1>8 DEF KillWorker
    <2>3. Fitting'
        BY <2>1, <2>2, KillFits
    <2> QED BY <1>8, <2>3, KillTight DEF Calm
<1>9. CASE ClearStopping(h)
    BY <1>9, CalmRequestsFit, CalmMovesTight DEF Calm
<1> QED BY <1>1, <1>2, <1>3, <1>4, <1>5, <1>6, <1>7, <1>8, <1>9 DEF HandlerStep

\* The steps of a monitor.
LEMMA MonitorKeeps ==
    ASSUME Fitting, NEW m \in Threads, MonitorStep(m)
    PROVE  Fitting' /\ (Loose => Loose') /\ (Loose /\ Tight => Tight')
<1>1. CASE MonitorLook(m)
    BY <1>1, LookFits, LookTight, RoundsLoose DEF Calm
<1>2. CASE MonitorPass(m)
    BY <1>2, PassFits, PassTight, RoundsLoose DEF Calm
<1>3. CASE MonitorNotice(m)
    <2>1. \E a \in mon[m].todo : Notices(m, a, mon[m].seen[a])
        BY <1>3 DEF MonitorNotice, Notices
    <2>2. PICK a, p : a \in mon[m].todo /\ Notices(m, a, p)
        BY <2>1
    <2>3. Fitting'
        BY <2>2, NoticeFits
    <2> QED BY <1>3, <2>3, NoticeTight, RoundsLoose DEF Calm
<1>4. CASE MonitorAsk(m)
    BY <1>4, AskFits, AskTight, RoundsLoose DEF Calm
<1>5. CASE MonitorSpawn(m)
    BY <1>5, MonitorSpawnFits, MonitorSpawnTight, RoundsLoose DEF Calm
<1>6. CASE MonitorStore(m)
    BY <1>6, MonitorStoreFits, MonitorStoreTight, MonitorStoreLoose DEF Calm
<1>7. CASE MonitorFails(m)
    BY <1>7, FailsFits, FailsTight, RoundsLoose DEF Calm
<1> QED BY <1>1, <1>2, <1>3, <1>4, <1>5, <1>6, <1>7 DEF MonitorStep

\* Nothing forgets that threads have crossed, or that two monitors live,
\* but a crash of the server.
LEMMA HistoryStays ==
    ASSUME [Next]_vars, ~ServerCrash
    PROVE  (~raced' => ~raced) /\ (~doubled' => ~doubled)
<1>1. CASE UNCHANGED vars
    BY <1>1 DEF vars
<1>2. ASSUME NEW h \in Handlers, BeginStart(h) \/ BeginEnd(h) \/ HandlerStep(h)
      PROVE  (~raced' => ~raced) /\ (~doubled' => ~doubled)
    <2>1. CASE StartMonitor(h)
        BY <2>1 DEF StartMonitor
    <2>2. CASE CheckTable(h) \/ PopHandles(h)
        <3>1. raced => raced'
            BY <2>2 DEF CheckTable, PopHandles
        <3>2. UNCHANGED doubled
            BY <2>2 DEF CheckTable, PopHandles
        <3> QED BY <3>1, <3>2
    <2>3. CASE ~(StartMonitor(h) \/ CheckTable(h) \/ PopHandles(h))
        <3>1. UNCHANGED <<raced, doubled>>
            BY <1>2, <2>3 DEF BeginStart, BeginEnd, HandlerStep, SpawnWorker, StoreHandles,
                AllConnected, StartTimeout, KillWorker, ClearStopping
        <3> QED BY <3>1
    <2> QED BY <2>1, <2>2, <2>3
<1>3. ASSUME NEW m \in Threads, MonitorStep(m)
      PROVE  UNCHANGED <<raced, doubled>>
    BY <1>3 DEF MonitorStep, MonitorLook, MonitorPass, MonitorNotice, MonitorAsk, MonitorSpawn,
        MonitorFails, MonitorStore
<1>4. ASSUME Validate \/ \E p \in Pids : MarkConnected(p) \/ Exit(p, "crashed") \/ Exit(p, "fatal")
      PROVE  UNCHANGED <<raced, doubled>>
    BY <1>4 DEF Validate, MarkConnected, Exit
<1> QED BY <1>1, <1>2, <1>3, <1>4 DEF Next

\* What the steps keep, except for a crash, after which all of it holds anew.
Kept ==
    /\ Fitting'
    /\ Loose /\ ~raced' => Loose'
    /\ Loose /\ Tight /\ Undisturbed' => Tight'

LEMMA NextKeeps ==
    ASSUME IInv, [Next]_vars
    PROVE  Kept
<1>1. Fitting
    BY FittingIsPlaced DEF IInv
<1>2. ASSUME NEW h \in Handlers, BeginStart(h)
      PROVE  Kept
    BY <1>1, <1>2, BeginStartFits, MovesLoose, CalmMovesTight DEF Calm, Kept
<1>3. ASSUME NEW h \in Handlers, BeginEnd(h)
      PROVE  Kept
    BY <1>1, <1>3, BeginEndFits, MovesLoose, CalmMovesTight DEF Calm, Kept
<1>4. ASSUME NEW h \in Handlers, HandlerStep(h)
      PROVE  Kept
    BY <1>1, <1>4, HandlerKeeps, HandlerLoose DEF Kept
<1>5. CASE Validate
    BY <1>1, <1>5, ValidateFits, ValidateLoose, ValidateTight DEF Calm, Kept
<1>6. ASSUME NEW m \in Threads, MonitorStep(m)
      PROVE  Kept
    BY <1>1, <1>6, MonitorKeeps DEF Kept
<1>7. ASSUME NEW p \in Pids, MarkConnected(p)
      PROVE  Kept
    <2>1. UNCHANGED <<status, table, registered, mon, req, failed>>
        BY <1>7 DEF MarkConnected
    <2> QED BY <1>1, <1>7, <2>1, MarkFits, StaysLoose, ProcessesTight DEF Calm, Kept
<1>8. ASSUME NEW p \in Pids, NEW how \in {"crashed", "fatal"}, Exit(p, how)
      PROVE  Kept
    <2>1. UNCHANGED <<status, table, registered, mon, req, failed>>
        BY <1>8 DEF Exit
    <2> QED BY <1>1, <1>8, <2>1, ExitFits, StaysLoose, ProcessesTight DEF Calm, Kept
<1>9. CASE ServerCrash
    BY <1>1, <1>9, CrashFits, CrashIsCalm DEF Kept
<1>10. CASE UNCHANGED vars
    <2>1. UNCHANGED <<status, procs, table, stopping, registered, mon, req, raced, doubled, failed>>
        BY <1>10 DEF vars
    <2>2. Evolves /\ SamePids
        BY <1>1, <2>1, StillEvolves, FittingIsPlaced
    <2> QED BY <1>1, <2>1, <2>2, ProcessesFit, StaysLoose, ProcessesTight DEF Calm, Kept
<1> QED BY <1>2, <1>3, <1>4, <1>5, <1>6, <1>7, <1>8, <1>9, <1>10 DEF Next

LEMMA NextHolds == IInv /\ [Next]_vars => IInv'
<1> SUFFICES ASSUME IInv, [Next]_vars PROVE IInv'
    OBVIOUS
<1>1. Kept
    BY NextKeeps
<1>2. (TypeOK /\ Places)'
    <2>1. (Fitting <=> TypeOK /\ Places)'
        BY FittingIsPlaced, PTL
    <2> QED BY <1>1, <2>1 DEF Kept
<1>3. CASE ServerCrash
    BY <1>2, <1>3, CrashIsCalm DEF IInv
<1>4. CASE ~ServerCrash
    <2>1. (~raced' => ~raced) /\ (~doubled' => ~doubled)
        BY <1>4, HistoryStays
    <2> QED BY <1>1, <1>2, <2>1 DEF IInv, Kept, Undisturbed
<1> QED BY <1>3, <1>4
-----------------------------------------------------------------------------
\* The types, where processes are, and what holds of them as long as no start
\* crosses a start or a stop and no stop a restart, in part only as long as one
\* monitor lives.
THEOREM Invariance == Spec => []IInv
<1> QED BY InitHolds, NextHolds, PTL DEF Spec

\* A process that is up with a token is where ServingIsKnown says, and no two of
\* an agent can be.
LEMMA OneEach == IInv => OneWorkerPerAgent
<1> SUFFICES ASSUME IInv, Undisturbed, NEW p \in Pids, NEW q \in Pids, Serving(p), Serving(q),
                    procs[p].agent = procs[q].agent
             PROVE  p = q
    BY DEF OneWorkerPerAgent
<1>1. Calm /\ Loose /\ Tight /\ Fitting
    BY FittingIsPlaced DEF IInv, Calm, Undisturbed
<1>2. \A r \in Pids : Serving(r) => r \in Listed(table) \/ InHand(r) \/ Coming(r)
    BY <1>1 DEF Tight, ServingIsKnown
<1>3. \A r \in Pids : r \in Listed(table) => table[procs[r].agent] = r /\ ~Empty
    BY <1>1, HandsAreProcesses DEF Listed, Of, Empty, Nobody
<1>4. \A r \in Pids : InHand(r) => Empty
    BY <1>1 DEF InHand, Loose, HandsOrTable
<1>5. \A r \in Pids : Coming(r) =>
        ~Empty /\ ~Up(table[procs[r].agent]) /\ \E m \in Threads : mon[m] # Off /\ mon[m].new = r
    <2> SUFFICES ASSUME NEW r \in Pids, NEW m \in Threads, mon[m].at = "store", mon[m].new = r
                 PROVE  ~Empty /\ ~Up(table[procs[r].agent]) /\ mon[m] # Off
        BY DEF Coming
    <2>1. Replacing(m) /\ Of(r, mon[m].agent) /\ mon[m] # Off
        BY <1>1, MonitorHasFit, IdleFits DEF Replacing, Active
    <2> QED BY <1>1, <2>1, ReplacingIsFilled DEF Tight, ReplacesTheDead, Of
<1>6. CASE InHand(p) /\ InHand(q)
    <2>1. PICK g \in Handlers : req[g].at \in {"spawn", "store", "kill"} /\ p \in Listed(req[g].snap)
        BY <1>6 DEF InHand
    <2>2. PICK h \in Handlers : req[h].at \in {"spawn", "store", "kill"} /\ q \in Listed(req[h].snap)
        BY <1>6 DEF InHand
    <2>3. g = h
        BY <1>1, <2>1, <2>2 DEF Loose, OneAtATime, Making
    <2> QED BY <1>1, <2>1, <2>2, <2>3, HandsAreProcesses DEF Listed, Of
<1>7. CASE Coming(p) /\ Coming(q)
    BY <1>1, <1>5, <1>7 DEF Tight, OneMonitor
<1> QED BY <1>2, <1>3, <1>4, <1>5, <1>6, <1>7 DEF Serving

\* One worker per agent: see OneWorkerPerAgent.
THEOREM OneWorker == Spec => []OneWorkerPerAgent
<1> QED BY Invariance, OneEach, PTL

\* An end stops all workers: see EndStopsWorkers.
THEOREM EndStops == Spec => []EndStopsWorkers
<1>1. IInv => EndStopsWorkers
    <2> SUFFICES ASSUME IInv, Undisturbed, status = "ended", \A h \in Handlers : req[h] = Idle
                 PROVE  Empty /\ \A p \in Pids : ~Serving(p)
        BY DEF EndStopsWorkers
    <2>1. Calm /\ Loose /\ Tight
        BY FittingIsPlaced DEF IInv, Calm, Undisturbed
    <2>2. \A h \in Handlers : req[h].at = "idle"
        BY IdleFits
    <2>3. Empty
        BY <2>1, <2>2 DEF Loose, EndIsThrough, At
    <2>4. \A p \in Pids : p \notin Listed(table) /\ ~InHand(p)
        BY <2>2, <2>3 DEF Listed, Empty, Nobody, InHand
    <2>5. \A p \in Pids : ~Coming(p)
        BY <2>1, <2>3, ReplacingIsFilled DEF Coming, Replacing
    <2> QED BY <2>1, <2>3, <2>4, <2>5 DEF Tight, ServingIsKnown
<1> QED BY <1>1, Invariance, PTL

\* A table has a monitor, whether or not a second one lives: see TableIsWatched.
THEOREM TableWatched == Spec => []TableIsWatched
<1>1. IInv => TableIsWatched
    BY DEF IInv, Loose, Watched, TableIsWatched
<1> QED BY <1>1, Invariance, PTL
=============================================================================
