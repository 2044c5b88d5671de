------------------------------ MODULE PauseProofs ------------------------------
(***************************************************************************)
(* An answered pause holds and a recorded exit is final, for any number of *)
(* agents, requests, restarts and crashes.                                 *)
(*                                                                         *)
(* Both need that a token is good for the process in the table only: the   *)
(* monitor withdraws it before it spawns.  A pause that met no other one   *)
(* then relies on this: behind a "paused" on its way to a process no       *)
(* "running" is sent until the next resume, so what acknowledges the pause *)
(* stays paused (Calm, Firm).                                              *)
(***************************************************************************)
EXTENDS PauseCheckpoint, SequenceTheorems, TLAPS

Dead(p) == p.life # "up" /\ ~p.token

NoRunning(w) == \A i \in 1 .. Len(w) : w[i] # "running"
InOrder(w) == \A i, j \in 1 .. Len(w) : i < j /\ w[i] = "paused" => w[j] # "running"
Given(posts) == \E i \in 1 .. Len(posts) : posts[i] \in {"halt", "pause"}

\* A process that is paused and will stay so: nothing on its way resumes it.
Firm(p) == p.life = "up" => p.paused /\ ~p.run /\ NoRunning(p.wire)

\* A process that is firm as soon as it has acknowledged.
Calm(p) == InOrder(p.wire) /\ (p.ack \/ Given(p.posts) => Firm(p))

TableIsYoungest ==
    \A a \in Agents :
        /\ Len(procs[a]) = IF mon.at = "spawned" /\ mon.agent = a THEN table[a] + 1
                           ELSE table[a]
        /\ \A n \in DOMAIN procs[a] : n < table[a] => Dead(procs[a][n])
        /\ mon.agent = a => Dead(procs[a][table[a]])

Records ==
    \A a \in Agents :
        /\ rows[a].state = "none" => rows[a].active = NoRun
        /\ rows[a].active # NoRun => rows[a].active \in DOMAIN procs[a]
        /\ \A n \in DOMAIN procs[a] :
            /\ procs[a][n].recorded => Dead(procs[a][n])
            /\ procs[a][n].verified => procs[a][n].posts # <<>>
            /\ ~late /\ procs[a][n].recorded => ~procs[a][n].verified

Held ==
    \A x \in held : x[2] \in DOMAIN procs[x[1]] /\ Firm(procs[x[1]][x[2]])

Waiting ==
    \A h \in Handlers : req[h].op = "pause" /\ req[h].at \in {"publish", "wait"} =>
        \A a \in Agents : /\ req[h].snap[a] \in DOMAIN procs[a]
                          /\ ~req[h].crossed => Calm(procs[a][req[h].snap[a]])

IInv == TypeOK /\ TableIsYoungest /\ Records /\ DeadRunsAreClosed /\ Held /\ Waiting
-----------------------------------------------------------------------------
(* What may become of a process in a step that replaces none and sends no    *)
(* "running".                                                                *)

Follows(p, q) ==
    /\ q.token => p.token
    /\ q.life = "up" => p.life = "up"

Reports(p, q) ==
    /\ q.recorded = p.recorded
    /\ q.verified => q.posts # <<>> /\ (p.verified \/ p.token)

Settles(p, q) == (Firm(p) => Firm(q)) /\ (Calm(p) => Calm(q))

\* All of this for every process.
Lives ==
    /\ procs' \in [Agents -> Seq(Process)]
    /\ \A a \in Agents : /\ Len(procs'[a]) = Len(procs[a])
                         /\ \A n \in DOMAIN procs[a] : Follows(procs[a][n], procs'[a][n])

Logs == \A a \in Agents : \A n \in DOMAIN procs[a] : Reports(procs[a][n], procs'[a][n])
Calms == \A a \in Agents : \A n \in DOMAIN procs[a] : Settles(procs[a][n], procs'[a][n])

Steady == Lives /\ Logs /\ Calms

LEMMA Domains ==
    ASSUME TypeOK, NEW a \in Agents
    PROVE  /\ procs[a] \in Seq(Process) /\ Len(procs[a]) \in Nat
           /\ DOMAIN procs[a] = 1 .. Len(procs[a])
           /\ \A n \in DOMAIN procs[a] : procs[a][n] \in Process
           /\ table[a] \in DOMAIN procs[a]
BY DEF TypeOK

LEMMA SameDomains ==
    ASSUME TypeOK, Lives, NEW a \in Agents
    PROVE  DOMAIN procs'[a] = DOMAIN procs[a]
BY Domains DEF Lives

LEMMA StillIsSteady ==
    ASSUME IInv, UNCHANGED procs
    PROVE  Steady
BY DEF IInv, TypeOK, Records, Steady, Lives, Logs, Calms, Follows, Reports, Settles

LEMMA KeepsTable ==
    ASSUME IInv, Lives, UNCHANGED <<table, mon>>
    PROVE  TableIsYoungest'
<1> SUFFICES ASSUME NEW a \in Agents
             PROVE  /\ Len(procs'[a]) = IF mon.at = "spawned" /\ mon.agent = a THEN table[a] + 1
                                        ELSE table[a]
                    /\ \A n \in DOMAIN procs'[a] : n < table[a] => Dead(procs'[a][n])
                    /\ mon.agent = a => Dead(procs'[a][table[a]])
    BY DEF TableIsYoungest
<1>1. DOMAIN procs'[a] = DOMAIN procs[a] /\ table[a] \in DOMAIN procs[a]
    BY SameDomains, Domains DEF IInv
<1>2. \A n \in DOMAIN procs[a] : Dead(procs[a][n]) => Dead(procs'[a][n])
    BY DEF Lives, Follows, Dead
<1> QED BY <1>1, <1>2 DEF IInv, TableIsYoungest, Lives

LEMMA KeepsRecords ==
    ASSUME IInv, Lives, Logs, UNCHANGED <<rows, late>>
    PROVE  Records' /\ DeadRunsAreClosed'
<1>1. \A a \in Agents : DOMAIN procs'[a] = DOMAIN procs[a]
    BY SameDomains DEF IInv
<1>2. ASSUME NEW a \in Agents, NEW n \in DOMAIN procs[a]
      PROVE  /\ procs'[a][n].recorded = procs[a][n].recorded
             /\ procs'[a][n].recorded => Dead(procs'[a][n])
             /\ procs'[a][n].verified => procs'[a][n].posts # <<>>
             /\ ~late /\ procs'[a][n].recorded => ~procs'[a][n].verified
    BY <1>2 DEF IInv, Records, Lives, Logs, Follows, Reports, Dead
<1> QED BY <1>1, <1>2 DEF IInv, Records, DeadRunsAreClosed

LEMMA KeepsHeld ==
    ASSUME IInv, Lives, Calms, UNCHANGED held
    PROVE  Held'
<1> SUFFICES ASSUME NEW x \in held
             PROVE  x[2] \in DOMAIN procs'[x[1]] /\ Firm(procs'[x[1]][x[2]])
    BY DEF Held
<1>1. x[1] \in Agents
    BY DEF IInv, TypeOK
<1> QED BY <1>1, SameDomains DEF IInv, Held, Calms, Settles

LEMMA KeepsWaiting ==
    ASSUME IInv, Lives, Calms, UNCHANGED req
    PROVE  Waiting'
BY SameDomains DEF IInv, Waiting, Calms, Settles
-----------------------------------------------------------------------------
(* Steps of one process                                                      *)

Control == {"paused", "running"}

LEMMA WireShrinks ==
    ASSUME NEW w \in Seq(Control), w # <<>>
    PROVE  /\ Tail(w) \in Seq(Control)
           /\ NoRunning(w) => NoRunning(Tail(w)) /\ Head(w) = "paused"
           /\ InOrder(w) => InOrder(Tail(w))
           /\ InOrder(w) /\ Head(w) = "paused" => NoRunning(Tail(w))
BY DEF NoRunning, InOrder, Control

LEMMA WireGrows ==
    ASSUME NEW w \in Seq(Control)
    PROVE  /\ Append(w, "paused") \in Seq(Control)
           /\ Append(w, "running") \in Seq(Control)
           /\ NoRunning(w) => NoRunning(Append(w, "paused"))
           /\ InOrder(w) => InOrder(Append(w, "paused"))
BY DEF NoRunning, InOrder, Control

LEMMA PostsShrink ==
    ASSUME NEW posts \in Seq(Posts), posts # <<>>
    PROVE  /\ Tail(posts) \in Seq(Posts) /\ Head(posts) \in Posts
           /\ Given(Tail(posts)) => Given(posts)
           /\ Acknowledges(Head(posts)) => Given(posts)
           /\ <<Head(posts)>> \in Seq(Posts)
BY DEF Given, Acknowledges

LEMMA Written ==
    /\ <<"run">> \in Seq(Posts) /\ <<"end">> \in Seq(Posts) /\ <<"listen">> \in Seq(Posts)
    /\ <<"pause">> \in Seq(Posts) /\ <<"halt", "pause">> \in Seq(Posts)
    /\ <<>> \in Seq(Posts) /\ <<>> \in Seq(Control)
BY DEF Posts, Control

LEMMA OneAgent ==
    ASSUME IInv, NEW a \in Agents, NEW s \in Seq(Process), Len(s) = Len(procs[a]),
           procs' = [procs EXCEPT ![a] = s],
           \A k \in DOMAIN procs[a] : Follows(procs[a][k], s[k])
    PROVE  /\ Lives
           /\ (\A k \in DOMAIN procs[a] : Reports(procs[a][k], s[k])) => Logs
           /\ (\A k \in DOMAIN procs[a] : Settles(procs[a][k], s[k])) => Calms
<1>1. procs'[a] = s /\ \A b \in Agents \ {a} : procs'[b] = procs[b]
    BY DEF IInv, TypeOK
<1>2. procs' \in [Agents -> Seq(Process)]
    BY DEF IInv, TypeOK
<1>3. \A b \in Agents : \A k \in DOMAIN procs[b] :
          Follows(procs[b][k], procs[b][k]) /\ Reports(procs[b][k], procs[b][k])
          /\ Settles(procs[b][k], procs[b][k])
    BY DEF IInv, Records, Follows, Reports, Settles
<1>4. Lives
    BY <1>1, <1>2, <1>3 DEF Lives
<1>5. (\A k \in DOMAIN procs[a] : Reports(procs[a][k], s[k])) => Logs
    BY <1>1, <1>3 DEF Logs
<1>6. (\A k \in DOMAIN procs[a] : Settles(procs[a][k], s[k])) => Calms
    BY <1>1, <1>3 DEF Calms
<1> QED BY <1>4, <1>5, <1>6

LEMMA OneCell ==
    ASSUME IInv, NEW a \in Agents, NEW n \in DOMAIN procs[a], NEW x \in Process,
           procs' = [procs EXCEPT ![a][n] = x],
           Follows(procs[a][n], x), Settles(procs[a][n], x)
    PROVE  /\ Lives /\ Calms
           /\ Reports(procs[a][n], x) => Steady
           /\ procs'[a][n] = x
           /\ \A k \in DOMAIN procs[a] \ {n} : procs'[a][k] = procs[a][k]
           /\ \A b \in Agents \ {a} : procs'[b] = procs[b]
<1> DEFINE s == [procs[a] EXCEPT ![n] = x]
<1>1. procs' = [procs EXCEPT ![a] = s]
    OBVIOUS
<1>2. s \in Seq(Process) /\ Len(s) = Len(procs[a])
    BY Domains, ExceptSeq DEF IInv
<1>3. s[n] = x /\ \A k \in DOMAIN procs[a] \ {n} : s[k] = procs[a][k]
    OBVIOUS
<1>4. \A k \in DOMAIN procs[a] : /\ Follows(procs[a][k], s[k])
                                 /\ Settles(procs[a][k], s[k])
                                 /\ Reports(procs[a][n], x) => Reports(procs[a][k], s[k])
    BY <1>3 DEF IInv, Records, Follows, Reports, Settles
<1> HIDE DEF s
<1>5. /\ Lives
      /\ (\A k \in DOMAIN procs[a] : Reports(procs[a][k], s[k])) => Logs
      /\ (\A k \in DOMAIN procs[a] : Settles(procs[a][k], s[k])) => Calms
    BY <1>1, <1>2, <1>4, OneAgent
<1>6. Lives /\ Calms /\ (Reports(procs[a][n], x) => Steady)
    BY <1>4, <1>5 DEF Steady
<1>7. procs'[a] = s /\ \A b \in Agents \ {a} : procs'[b] = procs[b]
    BY <1>1 DEF IInv, TypeOK
<1> QED BY <1>3, <1>6, <1>7

\* What a worker does between two posts leaves it firm or calm if it was.
LEMMA WorkerSteady ==
    ASSUME IInv, NEW a \in Agents, NEW n \in DOMAIN procs[a],
           \/ OpenSocket(a, n) \/ CloseSocket(a, n)
           \/ Exit(a, n, "crashed") \/ Exit(a, n, "fatal")
           \/ TakeControl(a, n) \/ BeginRun(a, n) \/ EndRun(a, n)
    PROVE  Steady
<1> DEFINE p == procs[a][n]
<1>p. p \in Process
    BY Domains DEF IInv
<1>r. p.verified => p.posts # <<>>
    BY DEF IInv, Records
<1>w. p.wire \in Seq(Control) /\ p.posts \in Seq(Posts)
    BY <1>p DEF Process, Control
<1>1. CASE OpenSocket(a, n)
    <2> DEFINE q == [p EXCEPT !.link = "open"]
    <2>1. q \in Process /\ procs' = [procs EXCEPT ![a][n] = q]
        BY <1>1, <1>p DEF OpenSocket, Process
    <2>2. Follows(p, q) /\ Settles(p, q) /\ Reports(p, q)
        BY <1>p, <1>r DEF Follows, Settles, Reports, Firm, Calm, Process
    <2> QED BY <2>1, <2>2, OneCell
<1>2. CASE CloseSocket(a, n)
    <2> DEFINE q == [p EXCEPT !.link = "none"]
    <2>1. q \in Process /\ procs' = [procs EXCEPT ![a][n] = q]
        BY <1>2, <1>p DEF CloseSocket, Process
    <2>2. Follows(p, q) /\ Settles(p, q) /\ Reports(p, q)
        BY <1>p, <1>r DEF Follows, Settles, Reports, Firm, Calm, Process
    <2> QED BY <2>1, <2>2, OneCell
<1>3. ASSUME NEW how \in {"crashed", "fatal"}, Exit(a, n, how) PROVE Steady
    <2> DEFINE q == [p EXCEPT !.life = how, !.wire = <<>>, !.run = FALSE,
                        !.link = IF @ = "open" THEN "closing" ELSE @,
                        !.posts = IF @ = <<>> THEN <<>> ELSE <<Head(@)>>]
    <2>t. /\ <<>> \in Seq({"paused", "running"}) /\ <<>> \in Seq(Posts)
          /\ p.posts # <<>> => <<Head(p.posts)>> \in Seq(Posts)
        BY <1>w, PostsShrink, Written DEF Control
    <2>1. q \in Process
        BY <1>p, <2>t DEF Process
    <2>2. procs' = [procs EXCEPT ![a][n] = q]
        BY <1>3 DEF Exit, Is
    <2>3. q.life = how /\ q.wire = <<>> /\ q.token = p.token /\ q.recorded = p.recorded
          /\ q.verified = p.verified /\ (q.posts = <<>> => p.posts = <<>>)
        BY <1>p DEF Process
    <2>4. Firm(q) /\ InOrder(q.wire) /\ p.life = "up"
        BY <1>3, <2>3 DEF Firm, InOrder, Exit
    <2>5. Follows(p, q) /\ Settles(p, q) /\ Reports(p, q)
        BY <2>3, <2>4, <1>r DEF Follows, Settles, Reports, Calm
    <2> QED BY <2>1, <2>2, <2>5, OneCell
<1>4. CASE TakeControl(a, n)
    <2>1. p.life = "up" /\ p.posts = <<>> /\ p.wire # <<>> /\ ~p.verified
        BY <1>4, <1>r DEF TakeControl, Quiet
    <2>2. CASE Head(p.wire) = "paused"
        <3> DEFINE q == [p EXCEPT !.wire = Tail(@), !.paused = TRUE, !.run = FALSE,
                            !.posts = IF p.run THEN <<"halt", "pause">> ELSE <<"pause">>]
        <3>t. Tail(p.wire) \in Seq({"paused", "running"})
            BY <1>w, <2>1, WireShrinks DEF Control
        <3>1. q \in Process
            BY <1>p, <3>t, Written DEF Process
        <3>2. procs' = [procs EXCEPT ![a][n] = q]
            BY <1>4, <2>2 DEF TakeControl, Is
        <3>3. q.life = p.life /\ q.token = p.token /\ q.recorded = p.recorded /\ ~q.verified
              /\ q.wire = Tail(p.wire) /\ q.paused /\ ~q.run
            BY <1>p, <2>1 DEF Process
        <3>4. Follows(p, q) /\ Settles(p, q) /\ Reports(p, q)
            BY <1>w, <2>1, <2>2, <3>3, WireShrinks DEF Follows, Settles, Reports, Firm, Calm
        <3> QED BY <3>1, <3>2, <3>4, OneCell
    <2>3. CASE Head(p.wire) # "paused"
        <3> DEFINE q == [p EXCEPT !.wire = Tail(@), !.paused = FALSE, !.posts = <<"listen">>]
        <3>t. Tail(p.wire) \in Seq({"paused", "running"})
            BY <1>w, <2>1, WireShrinks DEF Control
        <3>1. q \in Process
            BY <1>p, <3>t, Written DEF Process
        <3>2. procs' = [procs EXCEPT ![a][n] = q]
            BY <1>4, <2>3 DEF TakeControl, Is
        <3>3. q.life = p.life /\ q.token = p.token /\ q.recorded = p.recorded /\ ~q.verified
              /\ q.wire = Tail(p.wire) /\ q.ack = p.ack /\ q.posts = <<"listen">>
            BY <1>p, <2>1 DEF Process
        <3>4. ~Firm(p) /\ ~Given(q.posts)
            BY <1>w, <2>1, <2>3, <3>3, WireShrinks DEF Firm, Given
        <3>5. Follows(p, q) /\ Settles(p, q) /\ Reports(p, q)
            BY <1>w, <2>1, <3>3, <3>4, WireShrinks DEF Follows, Settles, Reports, Calm
        <3> QED BY <3>1, <3>2, <3>5, OneCell
    <2> QED BY <2>2, <2>3
<1>5. CASE BeginRun(a, n)
    <2> DEFINE q == [p EXCEPT !.run = TRUE, !.posts = <<"run">>]
    <2>1. q \in Process
        BY <1>p, Written DEF Process
    <2>2. procs' = [procs EXCEPT ![a][n] = q]
        BY <1>5 DEF BeginRun, Is
    <2>3. p.life = "up" /\ ~p.paused /\ p.posts = <<>> /\ ~p.verified
        BY <1>5, <1>r DEF BeginRun, Quiet
    <2>4. q.life = p.life /\ q.token = p.token /\ q.recorded = p.recorded /\ ~q.verified
          /\ q.wire = p.wire /\ q.ack = p.ack /\ q.posts = <<"run">>
        BY <1>p, <2>3 DEF Process
    <2>5. ~Firm(p) /\ ~Given(q.posts)
        BY <2>3, <2>4 DEF Firm, Given
    <2>6. Follows(p, q) /\ Settles(p, q) /\ Reports(p, q)
        BY <2>3, <2>4, <2>5 DEF Follows, Settles, Reports, Calm
    <2> QED BY <2>1, <2>2, <2>6, OneCell
<1>6. CASE EndRun(a, n)
    <2> DEFINE q == [p EXCEPT !.run = FALSE, !.posts = <<"end">>]
    <2>1. q \in Process
        BY <1>p, Written DEF Process
    <2>2. procs' = [procs EXCEPT ![a][n] = q]
        BY <1>6 DEF EndRun, Is
    <2>3. p.life = "up" /\ p.run /\ p.posts = <<>> /\ ~p.verified
        BY <1>6, <1>r DEF EndRun, Quiet
    <2>4. q.life = p.life /\ q.token = p.token /\ q.recorded = p.recorded /\ ~q.verified
          /\ q.wire = p.wire /\ q.ack = p.ack /\ q.posts = <<"end">>
        BY <1>p, <2>3 DEF Process
    <2>5. ~Firm(p) /\ ~Given(q.posts)
        BY <2>3, <2>4 DEF Firm, Given
    <2>6. Follows(p, q) /\ Settles(p, q) /\ Reports(p, q)
        BY <2>3, <2>4, <2>5 DEF Follows, Settles, Reports, Calm
    <2> QED BY <2>1, <2>2, <2>6, OneCell
<1> QED BY <1>1, <1>2, <1>3, <1>4, <1>5, <1>6

\* Nothing but the processes changes: what is left to show of such a step.
LEMMA SteadyKeeps ==
    ASSUME IInv, Steady, UNCHANGED <<status, req, served, table, mon, rows, held, late>>,
           sockets' \in [Agents -> Nat],
           \A a \in Agents : sockets'[a] \in DOMAIN procs[a] \cup {None}
    PROVE  IInv'
<1>1. TypeOK'
    BY SameDomains DEF IInv, TypeOK, Steady, Lives
<1> QED BY <1>1, KeepsTable, KeepsRecords, KeepsHeld, KeepsWaiting DEF IInv, Steady

LEMMA WorkerKeeps ==
    ASSUME IInv, NEW a \in Agents, NEW n \in DOMAIN procs[a],
           \/ OpenSocket(a, n) \/ CloseSocket(a, n)
           \/ Exit(a, n, "crashed") \/ Exit(a, n, "fatal")
           \/ TakeControl(a, n) \/ BeginRun(a, n) \/ EndRun(a, n)
    PROVE  IInv'
<1>1. UNCHANGED <<status, req, served, table, mon, rows, held, late>>
    BY DEF OpenSocket, CloseSocket, Exit, TakeControl, BeginRun, EndRun
<1>2. n \in Nat /\ None \in Nat
    BY Domains DEF IInv, None
<1>3. \/ sockets' = sockets \/ sockets' = [sockets EXCEPT ![a] = n]
      \/ sockets' = [sockets EXCEPT ![a] = None]
    BY DEF OpenSocket, CloseSocket, Exit, TakeControl, BeginRun, EndRun
<1>4. sockets' \in [Agents -> Nat]
    BY <1>2, <1>3 DEF IInv, TypeOK
<1>5. \A b \in Agents : sockets'[b] \in DOMAIN procs[b] \cup {None}
    BY <1>3 DEF IInv, TypeOK
<1> QED BY <1>1, <1>4, <1>5, WorkerSteady, SteadyKeeps

\* An acknowledgement is noted for the process in the table.  When another process
\* may still post, that one is dead.
LEMMA VerifySteady ==
    ASSUME IInv, NEW a \in Agents, NEW n \in DOMAIN procs[a], VerifyPost(a, n)
    PROVE  Steady
<1> DEFINE p == procs[a][n]
           t == procs[a][table[a]]
           ok == Acknowledges(Head(p.posts))
<1>p. p \in Process /\ t \in Process /\ table[a] \in DOMAIN procs[a]
    BY Domains DEF IInv
<1>r. p.verified => p.posts # <<>>
    BY DEF IInv, Records
<1>v. p.posts # <<>> /\ ~p.verified
    BY DEF VerifyPost
<1>w. p.posts \in Seq(Posts) /\ <<>> \in Seq(Posts) /\ (ok => Given(p.posts)) /\ ok \in BOOLEAN
    BY <1>p, <1>v, PostsShrink, Written DEF Process, Acknowledges
<1>1. CASE ~p.token
    <2> DEFINE q == [p EXCEPT !.posts = <<>>]
    <2>1. procs' = [procs EXCEPT ![a][n] = q]
        BY <1>1 DEF VerifyPost
    <2>2. q \in Process
        BY <1>p, <1>w DEF Process
    <2>3. q.life = p.life /\ q.token = p.token /\ q.recorded = p.recorded /\ ~q.verified
          /\ q.wire = p.wire /\ q.ack = p.ack /\ q.posts = <<>> /\ q.paused = p.paused
          /\ q.run = p.run
        BY <1>p, <1>v DEF Process
    <2>4. ~Given(q.posts)
        BY <2>3 DEF Given
    <2>5. Follows(p, q) /\ Settles(p, q) /\ Reports(p, q)
        BY <2>3, <2>4 DEF Follows, Settles, Reports, Firm, Calm
    <2> QED BY <2>1, <2>2, <2>5, OneCell
<1>2. CASE p.token /\ n = table[a]
    <2> DEFINE q == [p EXCEPT !.verified = TRUE, !.ack = @ \/ ok]
    <2>1. procs' = [procs EXCEPT ![a][n] = q]
        BY <1>2, <1>p DEF VerifyPost, IInv, TypeOK, Process
    <2>2. q \in Process
        BY <1>p, <1>w DEF Process
    <2>3. q.life = p.life /\ q.token = p.token /\ q.recorded = p.recorded
          /\ q.wire = p.wire /\ (q.ack => p.ack \/ ok) /\ q.posts = p.posts
          /\ q.paused = p.paused /\ q.run = p.run
        BY <1>p, <1>w DEF Process
    <2>5. Follows(p, q) /\ Settles(p, q) /\ Reports(p, q)
        BY <1>2, <1>v, <1>w, <2>3 DEF Follows, Settles, Reports, Firm, Calm
    <2> QED BY <2>1, <2>2, <2>5, OneCell
<1>3. CASE p.token /\ n # table[a]
    <2> DEFINE q == [p EXCEPT !.verified = TRUE]
               u == [t EXCEPT !.ack = @ \/ ok]
               s == [[procs[a] EXCEPT ![n] = q] EXCEPT ![table[a]] = u]
    <2>1. procs' = [procs EXCEPT ![a] = s]
        BY <1>3, <1>p DEF VerifyPost, IInv, TypeOK, Process
    <2>2. q \in Process /\ u \in Process
        BY <1>p, <1>w DEF Process
    <2>3. s \in Seq(Process) /\ Len(s) = Len(procs[a])
        BY <1>p, <2>2, Domains, ExceptSeq DEF IInv
    <2>4. s[n] = q /\ s[table[a]] = u
          /\ \A k \in DOMAIN procs[a] \ {n, table[a]} : s[k] = procs[a][k]
        BY <1>3, <1>p
    <2>5. Dead(t)
        BY <1>3, <1>p, Domains DEF IInv, TableIsYoungest, Dead
    <2>6. q.life = p.life /\ q.token = p.token /\ q.recorded = p.recorded
          /\ q.wire = p.wire /\ q.ack = p.ack /\ q.posts = p.posts
          /\ q.paused = p.paused /\ q.run = p.run
        BY <1>p DEF Process
    <2>7. Follows(p, q) /\ Settles(p, q) /\ Reports(p, q)
        BY <1>3, <1>v, <2>6 DEF Follows, Settles, Reports, Firm, Calm
    <2>8. u.life = t.life /\ u.token = t.token /\ u.recorded = t.recorded
          /\ u.wire = t.wire /\ u.posts = t.posts /\ u.verified = t.verified
        BY <1>p DEF Process
    <2>9. t.verified => t.posts # <<>>
        BY <1>p DEF IInv, Records
    <2>10. Follows(t, u) /\ Settles(t, u) /\ Reports(t, u)
        BY <2>5, <2>8, <2>9 DEF Follows, Settles, Reports, Firm, Calm, Dead
    <2>11. \A k \in DOMAIN procs[a] :
              /\ Follows(procs[a][k], s[k]) /\ Reports(procs[a][k], s[k])
              /\ Settles(procs[a][k], s[k])
        <3> HIDE DEF q, u, s
        <3>1. \A k \in DOMAIN procs[a] :
                 /\ Follows(procs[a][k], procs[a][k]) /\ Reports(procs[a][k], procs[a][k])
                 /\ Settles(procs[a][k], procs[a][k])
            BY DEF IInv, Records, Follows, Reports, Settles
        <3> QED BY <2>4, <2>7, <2>10, <3>1
    <2> HIDE DEF s
    <2> QED BY <2>1, <2>3, <2>11, OneAgent DEF Steady
<1> QED BY <1>1, <1>2, <1>3

LEMMA VerifyKeeps ==
    ASSUME IInv, NEW a \in Agents, NEW n \in DOMAIN procs[a], VerifyPost(a, n)
    PROVE  IInv'
<1>1. UNCHANGED <<status, req, served, table, mon, rows, held, late, sockets>>
    BY DEF VerifyPost
<1> QED BY <1>1, VerifySteady, SteadyKeeps DEF IInv, TypeOK

LEMMA PostedRow ==
    ASSUME NEW row \in Rows, NEW n \in Nat \ {0}, NEW post \in Posts,
           row.state = "none" => row.active = NoRun
    PROVE  /\ Posted(row, n, post) \in Rows
           /\ Posted(row, n, post).active \in {NoRun, row.active, n}
           /\ Posted(row, n, post).state # "none"
BY DEF Rows, Posted, Posts, StatusPost, StatePost, Applies, Terminal, NoRun, WorkerStates

LEMMA WriteKeeps ==
    ASSUME IInv, NEW a \in Agents, NEW n \in DOMAIN procs[a], WriteRow(a, n)
    PROVE  IInv'
<1> DEFINE p == procs[a][n]
           q == [p EXCEPT !.verified = FALSE, !.posts = Tail(@)]
           row == Posted(rows[a], n, Head(p.posts))
<1>p. p \in Process /\ n \in Nat \ {0}
    BY Domains DEF IInv
<1>1. p.verified /\ p.posts # <<>> /\ p.posts \in Seq(Posts) /\ (~late => ~p.recorded)
    BY <1>p DEF WriteRow, IInv, Records, Process
<1>2. procs' = [procs EXCEPT ![a][n] = q]
    BY DEF WriteRow, Is
<1>3. q \in Process
    BY <1>p, <1>1, PostsShrink DEF Process
<1>4. q.life = p.life /\ q.token = p.token /\ q.recorded = p.recorded /\ ~q.verified
      /\ q.wire = p.wire /\ q.ack = p.ack /\ q.posts = Tail(p.posts) /\ q.paused = p.paused
      /\ q.run = p.run
    BY <1>p DEF Process
<1>5. Follows(p, q) /\ Settles(p, q) /\ Reports(p, q)
    BY <1>1, <1>4, PostsShrink DEF Follows, Settles, Reports, Firm, Calm
<1>6. Steady
    BY <1>2, <1>3, <1>5, OneCell
<1>7. row \in Rows /\ row.active \in {NoRun, rows[a].active, n} /\ row.state # "none"
    BY <1>p, <1>1, PostsShrink, PostedRow DEF IInv, TypeOK, Records
<1>8. rows' = [rows EXCEPT ![a] = row]
      /\ UNCHANGED <<status, req, served, table, sockets, mon, held, late>>
    BY DEF WriteRow
<1> HIDE DEF row
<1>9. TypeOK'
    BY <1>6, <1>7, <1>8, SameDomains DEF IInv, TypeOK, Steady, Lives
<1>10. \A b \in Agents : DOMAIN procs'[b] = DOMAIN procs[b]
    BY <1>6, SameDomains DEF IInv, Steady
<1>11. ASSUME NEW b \in Agents, NEW k \in DOMAIN procs[b]
       PROVE  /\ procs'[b][k].recorded = procs[b][k].recorded
              /\ procs'[b][k].recorded => Dead(procs'[b][k])
              /\ procs'[b][k].verified => procs'[b][k].posts # <<>>
              /\ ~late /\ procs'[b][k].recorded => ~procs'[b][k].verified
    BY <1>6, <1>11 DEF IInv, Records, Steady, Lives, Logs, Follows, Reports, Dead
<1>12. Records' /\ DeadRunsAreClosed'
    <2> SUFFICES ASSUME NEW b \in Agents
                 PROVE  /\ rows'[b].state = "none" => rows'[b].active = NoRun
                        /\ rows'[b].active # NoRun => rows'[b].active \in DOMAIN procs[b]
                        /\ ~late /\ rows'[b].active # NoRun =>
                               ~procs[b][rows'[b].active].recorded
        BY <1>8, <1>10, <1>11 DEF Records, DeadRunsAreClosed
    <2>1. CASE b = a
        BY <1>1, <1>7, <1>8, <2>1 DEF IInv, TypeOK, Records, DeadRunsAreClosed
    <2>2. CASE b # a
        BY <1>8, <2>2 DEF IInv, TypeOK, Records, DeadRunsAreClosed
    <2> QED BY <2>1, <2>2
<1> QED BY <1>6, <1>8, <1>9, <1>12, KeepsTable, KeepsHeld, KeepsWaiting DEF IInv, Steady
-----------------------------------------------------------------------------
(* Requests                                                                  *)

\* A request moves on and its handles stay: the others are as they were.
LEMMA BeginKeeps ==
    ASSUME IInv, NEW h \in Handlers, NEW o \in {"pause", "resume"}, Begin(h, o)
    PROVE  IInv'
<1> DEFINE r == [Idle EXCEPT !.op = o, !.at = IF o = "pause" THEN "ask" ELSE "publish"]
<1>1. UNCHANGED <<procs, table, sockets, mon, rows, held, late>>
      /\ req' = [req EXCEPT ![h] = r] /\ served' \in Nat /\ status' \in {"running", "paused"}
    BY DEF Begin, IInv, TypeOK
<1>2. r \in Request /\ ~(r.op = "pause" /\ r.at \in {"publish", "wait"})
    BY DEF Request, Idle, None
<1>3. TypeOK'
    BY <1>1, <1>2 DEF IInv, TypeOK
<1>4. Waiting'
    BY <1>1, <1>2 DEF IInv, TypeOK, Waiting
<1> QED BY <1>1, <1>3, <1>4, StillIsSteady, KeepsTable, KeepsRecords, KeepsHeld DEF IInv, Steady

LEMMA AskKeeps ==
    ASSUME IInv, NEW h \in Handlers, AskForPause(h)
    PROVE  IInv'
<1> DEFINE new(a) == [procs[a] EXCEPT ![table[a]].ack = FALSE]
           met == \E a \in Agents : Undigested(procs[a][table[a]])
           r == [req[h] EXCEPT !.at = "publish", !.snap = table, !.crossed = met]
<1>1. /\ procs' = [a \in Agents |-> new(a)]
      /\ req' = [req EXCEPT ![h] = r]
      /\ req[h].op = "pause"
      /\ UNCHANGED <<status, served, table, sockets, mon, rows, held, late>>
    BY DEF AskForPause, At, IInv, TypeOK
<1>2. ASSUME NEW a \in Agents
      PROVE  /\ new(a) \in Seq(Process) /\ Len(new(a)) = Len(procs[a])
             /\ new(a)[table[a]] = [procs[a][table[a]] EXCEPT !.ack = FALSE]
             /\ \A n \in DOMAIN procs[a] \ {table[a]} : new(a)[n] = procs[a][n]
    <2> DEFINE t == [procs[a][table[a]] EXCEPT !.ack = FALSE]
    <2>p. procs[a][table[a]] \in Process
        BY Domains DEF IInv
    <2>1. t \in Process
        BY <2>p DEF Process
    <2>2. new(a) = [procs[a] EXCEPT ![table[a]] = t]
        OBVIOUS
    <2> HIDE DEF t
    <2>3. [procs[a] EXCEPT ![table[a]] = t] \in Seq(Process)
          /\ Len([procs[a] EXCEPT ![table[a]] = t]) = Len(procs[a])
        BY <2>1, Domains, ExceptSeq DEF IInv
    <2>4. new(a)[table[a]] = t /\ \A n \in DOMAIN procs[a] \ {table[a]} : new(a)[n] = procs[a][n]
        BY <2>2, Domains DEF IInv
    <2> QED BY <2>2, <2>3, <2>4 DEF t
<1>3. ASSUME NEW a \in Agents
      PROVE  LET p == procs[a][table[a]]
                 q == new(a)[table[a]]
             IN  /\ q.life = p.life /\ q.token = p.token /\ q.recorded = p.recorded
                 /\ q.wire = p.wire /\ ~q.ack /\ q.posts = p.posts /\ q.verified = p.verified
                 /\ q.paused = p.paused /\ q.run = p.run
    BY <1>2, Domains DEF IInv, Process
<1> HIDE DEF new
<1>4. ASSUME NEW a \in Agents, NEW n \in DOMAIN procs[a]
      PROVE  Follows(procs[a][n], new(a)[n]) /\ Reports(procs[a][n], new(a)[n])
             /\ Settles(procs[a][n], new(a)[n])
    <2>1. procs[a][n].verified => procs[a][n].posts # <<>>
        BY DEF IInv, Records
    <2>2. CASE n = table[a]
        BY <1>3, <2>1, <2>2 DEF Follows, Reports, Settles, Firm, Calm
    <2>3. CASE n # table[a]
        BY <1>2, <2>1, <2>3 DEF Follows, Reports, Settles
    <2> QED BY <2>2, <2>3
<1>5. Steady
    BY <1>1, <1>2, <1>4 DEF Steady, Lives, Logs, Calms
<1>6. ASSUME ~met, NEW a \in Agents
      PROVE  Calm(procs'[a][table[a]])
    <2> DEFINE p == procs[a][table[a]]
    <2>1. p \in Process /\ ~Undigested(p)
        BY <1>6, Domains DEF IInv
    <2>2. p.wire \in Seq(Control) /\ p.posts \in Seq(Posts)
        BY <2>1 DEF Process, Control
    <2>3. InOrder(p.wire) /\ ~Given(p.posts)
        BY <2>1, <2>2 DEF Undigested, InOrder, Given
    <2> QED BY <1>1, <1>3, <2>3 DEF Calm
<1>7. r \in Request /\ r.op = "pause" /\ r.snap = table /\ r.crossed = met
    <2>1. req[h] \in Request
        BY <1>1 DEF IInv, TypeOK, Idle
    <2>2. met \in BOOLEAN /\ table \in [Agents -> Nat]
        BY DEF IInv, TypeOK
    <2> HIDE DEF met
    <2> QED BY <1>1, <2>1, <2>2 DEF Request
<1> HIDE DEF r
<1>8. TypeOK'
    BY <1>1, <1>5, <1>7, SameDomains DEF IInv, TypeOK, Steady, Lives
<1>9. Waiting'
    <2> SUFFICES ASSUME NEW g \in Handlers, req'[g].op = "pause",
                        req'[g].at \in {"publish", "wait"}, NEW a \in Agents
                 PROVE  /\ req'[g].snap[a] \in DOMAIN procs'[a]
                        /\ ~req'[g].crossed => Calm(procs'[a][req'[g].snap[a]])
        BY DEF Waiting
    <2>1. CASE g = h
        BY <1>1, <1>5, <1>6, <1>7, <2>1, SameDomains, Domains DEF IInv, TypeOK, Steady
    <2>2. CASE g # h
        BY <1>1, <1>5, <2>2, SameDomains DEF IInv, TypeOK, Waiting, Steady, Calms, Settles
    <2> QED BY <2>1, <2>2
<1> QED BY <1>1, <1>5, <1>8, <1>9, KeepsTable, KeepsRecords, KeepsHeld DEF IInv, Steady

\* What publish does to each process.
LEMMA Published ==
    ASSUME IInv, NEW control \in Control, Publish(control)
    PROVE  /\ Lives /\ Logs
           /\ control = "paused" => Calms
<1> DEFINE q(a, n) == IF n = sockets[a] /\ procs[a][n].life = "up"
                      THEN [procs[a][n] EXCEPT !.wire = Append(@, control)]
                      ELSE procs[a][n]
<1>1. ASSUME NEW a \in Agents, NEW n \in DOMAIN procs[a]
      PROVE  /\ q(a, n) \in Process
             /\ Follows(procs[a][n], q(a, n)) /\ Reports(procs[a][n], q(a, n))
             /\ control = "paused" => Settles(procs[a][n], q(a, n))
    <2> DEFINE p == procs[a][n]
    <2>1. p \in Process /\ (p.verified => p.posts # <<>>)
        BY Domains DEF IInv, Records
    <2>2. p.wire \in Seq(Control)
        BY <2>1 DEF Process, Control
    <2>3. Append(p.wire, control) \in Seq({"paused", "running"})
        BY <2>2 DEF Control
    <2>4. [p EXCEPT !.wire = Append(@, control)] \in Process
        BY <2>1, <2>3 DEF Process
    <2>5. LET x == [p EXCEPT !.wire = Append(@, control)]
          IN  /\ x.life = p.life /\ x.token = p.token /\ x.recorded = p.recorded
              /\ x.wire = Append(p.wire, control) /\ x.ack = p.ack /\ x.posts = p.posts
              /\ x.verified = p.verified /\ x.paused = p.paused /\ x.run = p.run
        BY <2>1 DEF Process
    <2>6. q(a, n) \in {p, [p EXCEPT !.wire = Append(@, control)]}
        OBVIOUS
    <2> HIDE DEF q
    <2> QED BY <2>1, <2>2, <2>4, <2>5, <2>6, WireGrows
            DEF Follows, Reports, Settles, Firm, Calm
<1>2. procs' = [a \in Agents |-> [n \in DOMAIN procs[a] |-> q(a, n)]]
    BY DEF Publish
<1> HIDE DEF q
<1>3. ASSUME NEW a \in Agents
      PROVE  /\ procs'[a] \in Seq(Process) /\ Len(procs'[a]) = Len(procs[a])
             /\ \A n \in DOMAIN procs[a] : procs'[a][n] = q(a, n)
    <2>1. procs'[a] = [n \in 1 .. Len(procs[a]) |-> q(a, n)] /\ Len(procs[a]) \in Nat
        BY <1>2, <1>3, Domains DEF IInv
    <2>2. \A n \in 1 .. Len(procs[a]) : q(a, n) \in Process
        BY <1>1, <1>3, Domains DEF IInv
    <2> QED BY <1>2, <2>1, <2>2, IsASeq
<1>4. Lives
    BY <1>1, <1>2, <1>3 DEF Lives
<1>5. Logs
    BY <1>1, <1>3 DEF Logs
<1>6. control = "paused" => Calms
    BY <1>1, <1>3 DEF Calms
<1> QED BY <1>4, <1>5, <1>6

LEMMA PublishPauseKeeps ==
    ASSUME IInv, NEW h \in Handlers, PublishPause(h)
    PROVE  IInv'
<1> DEFINE r == [req[h] EXCEPT !.at = "wait"]
<1>1. /\ Publish("paused") /\ req' = [req EXCEPT ![h] = r]
      /\ req[h].op = "pause" /\ req[h].at = "publish"
      /\ UNCHANGED <<status, served, table, sockets, mon, rows, held, late>>
    BY DEF PublishPause, At
<1>2. Steady
    BY <1>1, Published DEF Control, Steady
<1>3. req[h] \in Request
    BY <1>1 DEF IInv, TypeOK, Idle
<1>4. r \in Request /\ r.snap = req[h].snap /\ r.crossed = req[h].crossed /\ r.op = "pause"
    BY <1>1, <1>3 DEF Request
<1> HIDE DEF r
<1>5. TypeOK'
    BY <1>1, <1>2, <1>4, SameDomains DEF IInv, TypeOK, Steady, Lives
<1>6. Waiting'
    <2> SUFFICES ASSUME NEW g \in Handlers, req'[g].op = "pause",
                        req'[g].at \in {"publish", "wait"}, NEW a \in Agents
                 PROVE  /\ req'[g].snap[a] \in DOMAIN procs'[a]
                        /\ ~req'[g].crossed => Calm(procs'[a][req'[g].snap[a]])
        BY DEF Waiting
    <2>1. /\ req[g].op = "pause" /\ req[g].at \in {"publish", "wait"}
          /\ req'[g].snap = req[g].snap /\ req'[g].crossed = req[g].crossed
        BY <1>1, <1>4 DEF IInv, TypeOK
    <2> QED BY <1>2, <2>1, SameDomains DEF IInv, Waiting, Steady, Calms, Settles
<1> QED BY <1>1, <1>2, <1>5, <1>6, KeepsTable, KeepsRecords, KeepsHeld DEF IInv, Steady

\* Everybody has acknowledged, and who is calm and has acknowledged is firm.
LEMMA AcknowledgedKeeps ==
    ASSUME IInv, NEW h \in Handlers, PauseAcknowledged(h)
    PROVE  IInv'
<1>1. /\ req[h].op = "pause" /\ req[h].at = "wait"
      /\ \A a \in Agents : procs[a][req[h].snap[a]].ack
      /\ req' = [req EXCEPT ![h] = Idle]
      /\ UNCHANGED <<status, served, procs, table, sockets, mon, rows, late>>
    BY DEF PauseAcknowledged, At, Done
<1>2. req[h] \in Request
    BY <1>1 DEF IInv, TypeOK, Idle
<1>3. \A x \in held' : x \in held \/ \E a \in Agents : ~req[h].crossed /\ x = <<a, req[h].snap[a]>>
    BY DEF PauseAcknowledged
<1>4. TypeOK'
    <2>1. held' \in SUBSET (Agents \X Nat)
        BY <1>2, <1>3 DEF IInv, TypeOK, Request
    <2> QED BY <1>1, <2>1 DEF IInv, TypeOK
<1>5. Waiting'
    BY <1>1 DEF IInv, TypeOK, Waiting, Idle
<1>6. Held'
    <2> SUFFICES ASSUME NEW x \in held'
                 PROVE  x[2] \in DOMAIN procs[x[1]] /\ Firm(procs[x[1]][x[2]])
        BY <1>1 DEF Held
    <2>1. CASE x \in held
        BY <2>1 DEF IInv, Held
    <2>2. ASSUME NEW a \in Agents, ~req[h].crossed, x = <<a, req[h].snap[a]>>
          PROVE  x[2] \in DOMAIN procs[x[1]] /\ Firm(procs[x[1]][x[2]])
        <3>1. x[1] = a /\ x[2] = req[h].snap[a]
            BY <2>2
        <3>2. req[h].snap[a] \in DOMAIN procs[a] /\ Calm(procs[a][req[h].snap[a]])
            BY <1>1, <2>2 DEF IInv, Waiting
        <3> QED BY <1>1, <3>1, <3>2 DEF Calm
    <2> QED BY <1>3, <2>1, <2>2
<1> QED BY <1>1, <1>4, <1>5, <1>6, StillIsSteady, KeepsTable, KeepsRecords DEF IInv, Steady

LEMMA TimeoutKeeps ==
    ASSUME IInv, NEW h \in Handlers, PauseTimeout(h)
    PROVE  IInv'
<1>1. /\ req' = [req EXCEPT ![h] = Idle]
      /\ UNCHANGED <<status, served, procs, table, sockets, mon, rows, held, late>>
    BY DEF PauseTimeout, Done
<1>2. TypeOK' /\ Waiting'
    BY <1>1 DEF IInv, TypeOK, Waiting, Idle
<1> QED BY <1>1, <1>2, StillIsSteady, KeepsTable, KeepsRecords, KeepsHeld DEF IInv, Steady

\* A resume ends what was promised, and every pause under way has crossed it.
LEMMA ResumeKeeps ==
    ASSUME IInv, NEW h \in Handlers, PublishResume(h)
    PROVE  IInv'
<1>1. /\ Publish("running") /\ held' = {}
      /\ req' = [g \in Handlers |-> IF g = h THEN Idle
                                    ELSE [req[g] EXCEPT !.crossed = @ \/ req[g].op = "pause"]]
      /\ UNCHANGED <<status, served, table, sockets, mon, rows, late>>
    BY DEF PublishResume
<1>2. Lives /\ Logs
    BY <1>1, Published DEF Control
<1>3. ASSUME NEW g \in Handlers
      PROVE  /\ req'[g] \in Request \cup {Idle}
             /\ req'[g].op = "pause" => /\ req[g].op = "pause" /\ req'[g].crossed
                                        /\ req'[g].at = req[g].at /\ req'[g].snap = req[g].snap
    <2>1. CASE g = h
        BY <1>1, <2>1 DEF Idle
    <2>2. CASE g # h /\ req[g] = Idle
        <3>1. req'[g] = [Idle EXCEPT !.crossed = @ \/ Idle.op = "pause"]
            BY <1>1, <2>2
        <3>2. (Idle.crossed \/ Idle.op = "pause") = FALSE /\ Idle.op = "none"
            BY DEF Idle
        <3>3. Idle \in [op : {"none"}, at : {"idle"}, snap : [Agents -> Nat], crossed : {FALSE}]
            BY DEF Idle, None
        <3>4. [Idle EXCEPT !.crossed = FALSE] = Idle
            BY <3>3
        <3> QED BY <3>1, <3>2, <3>4
    <2>3. CASE g # h /\ req[g] \in Request
        BY <1>1, <2>3 DEF Request
    <2> QED BY <2>1, <2>2, <2>3 DEF IInv, TypeOK
<1>4. req' \in [Handlers -> Request \cup {Idle}]
    BY <1>1, <1>3
<1>5. TypeOK'
    BY <1>1, <1>2, <1>4, SameDomains DEF IInv, TypeOK, Lives
<1>6. Waiting'
    BY <1>2, <1>3, SameDomains DEF IInv, Waiting
<1>7. Held'
    BY <1>1 DEF Held
<1> QED BY <1>1, <1>2, <1>5, <1>6, <1>7, KeepsTable, KeepsRecords DEF IInv
-----------------------------------------------------------------------------
(* The monitor                                                               *)

LEMMA NoticeKeeps ==
    ASSUME IInv, NEW a \in Agents, MonitorNotice(a)
    PROVE  IInv'
<1> DEFINE p == procs[a][table[a]]
           q == [p EXCEPT !.token = FALSE]
<1>1. /\ mon = Looking /\ p.life # "up" /\ mon' = [at |-> "noticed", agent |-> a]
      /\ procs' = [procs EXCEPT ![a][table[a]] = q]
      /\ UNCHANGED <<status, req, served, table, sockets, rows, held, late>>
    BY DEF MonitorNotice, Step
<1>2. p \in Process /\ table[a] \in DOMAIN procs[a]
    BY Domains DEF IInv
<1>3. q \in Process
    BY <1>2 DEF Process
<1>4. q.life = p.life /\ ~q.token /\ q.recorded = p.recorded
      /\ q.wire = p.wire /\ q.ack = p.ack /\ q.posts = p.posts /\ q.verified = p.verified
      /\ q.paused = p.paused /\ q.run = p.run
    BY <1>2 DEF Process
<1>5. p.verified => p.posts # <<>>
    BY <1>2 DEF IInv, Records
<1>6. Follows(p, q) /\ Settles(p, q) /\ Reports(p, q)
    BY <1>4, <1>5 DEF Follows, Settles, Reports, Firm, Calm
<1> HIDE DEF q
<1>7. /\ Steady /\ procs'[a][table[a]] = q
    BY <1>1, <1>2, <1>3, <1>6, OneCell
<1>8. TypeOK'
    BY <1>1, <1>7, SameDomains DEF IInv, TypeOK, Steady, Lives, Monitor
<1>9. TableIsYoungest'
    <2> SUFFICES ASSUME NEW b \in Agents
                 PROVE  /\ Len(procs'[b]) = table[b]
                        /\ \A n \in DOMAIN procs[b] : n < table[b] => Dead(procs'[b][n])
                        /\ b = a => Dead(procs'[b][table[b]])
        BY <1>1, <1>7, SameDomains DEF IInv, TableIsYoungest, Steady
    <2>1. Len(procs[b]) = table[b]
        BY <1>1 DEF IInv, TableIsYoungest, Looking
    <2>2. \A n \in DOMAIN procs[b] : Dead(procs[b][n]) => Dead(procs'[b][n])
        BY <1>7 DEF Steady, Lives, Follows, Dead
    <2>3. b = a => Dead(procs'[b][table[b]])
        BY <1>1, <1>4, <1>7 DEF Dead
    <2> QED BY <1>7, <2>1, <2>2, <2>3 DEF IInv, TableIsYoungest, Steady, Lives
<1> QED BY <1>1, <1>7, <1>8, <1>9, KeepsRecords, KeepsHeld, KeepsWaiting DEF IInv, Steady

\* The token is gone, so that only a post that had passed verify can still come.
LEMMA RecordKeeps ==
    ASSUME IInv, NEW a \in Agents, mon.agent = a, MonitorRecord
    PROVE  IInv'
<1> DEFINE p == procs[a][table[a]]
           q == [p EXCEPT !.recorded = TRUE]
           row == ExitedRow(rows[a], p.life = "fatal")
<1>1. /\ mon.at = "noticed"
      /\ procs' = [procs EXCEPT ![a][table[a]] = q]
      /\ rows' = [rows EXCEPT ![a] = row]
      /\ late' = (late \/ p.verified)
      /\ mon' \in {Looking, [at |-> "recorded", agent |-> a]}
      /\ UNCHANGED <<status, req, served, table, sockets, held>>
    BY DEF MonitorRecord, Step
<1>2. NoAgent \notin Agents
    BY PauseAssumption
<1>3. p \in Process /\ table[a] \in DOMAIN procs[a]
    BY <1>2, Domains DEF IInv
<1>4. q \in Process
    BY <1>3 DEF Process
<1>5. q.life = p.life /\ q.token = p.token /\ q.recorded
      /\ q.wire = p.wire /\ q.ack = p.ack /\ q.posts = p.posts /\ q.verified = p.verified
      /\ q.paused = p.paused /\ q.run = p.run
    BY <1>3 DEF Process
<1>6. Dead(p) /\ Dead(q) /\ (p.verified => p.posts # <<>>)
    BY <1>2, <1>3, <1>5 DEF IInv, TableIsYoungest, Records, Dead
<1>7. Follows(p, q) /\ Settles(p, q)
    BY <1>5 DEF Follows, Settles, Firm, Calm
<1>8. row \in Rows /\ row.active = NoRun
    BY <1>2 DEF IInv, TypeOK, Records, ExitedRow, Rows, WorkerStates, NoRun
<1> HIDE DEF q, row
<1>w. procs' = [procs EXCEPT ![a][table[a]] = q]
    BY <1>1
<1>l. Lives /\ Calms
    <2> DEFINE n == table[a]
    <2>1. n \in DOMAIN procs[a] /\ procs' = [procs EXCEPT ![a][n] = q]
          /\ Follows(procs[a][n], q) /\ Settles(procs[a][n], q)
        BY <1>3, <1>7, <1>w
    <2> HIDE DEF n
    <2> QED BY <1>4, <2>1, OneCell
<1>9. /\ procs'[a][table[a]] = q
      /\ \A k \in DOMAIN procs[a] \ {table[a]} : procs'[a][k] = procs[a][k]
      /\ \A b \in Agents \ {a} : procs'[b] = procs[b]
    BY <1>3, <1>w DEF IInv, TypeOK
<1>10. TypeOK'
    <2>1. late' \in BOOLEAN
        BY <1>1, <1>3 DEF IInv, TypeOK, Process
    <2>2. mon' \in Monitor \cup {Looking}
        BY <1>1, <1>2 DEF Monitor
    <2> QED BY <1>1, <1>8, <1>9, <1>l, <2>1, <2>2, SameDomains DEF IInv, TypeOK, Lives
<1>11. TableIsYoungest'
    <2> SUFFICES ASSUME NEW b \in Agents
                 PROVE  /\ Len(procs'[b]) = table[b]
                        /\ \A n \in DOMAIN procs[b] : n < table[b] => Dead(procs'[b][n])
                        /\ mon'.agent = b => Dead(procs'[b][table[b]])
        BY <1>1, <1>9, <1>l, SameDomains DEF IInv, TableIsYoungest, Looking
    <2>1. Len(procs[b]) = table[b]
        BY <1>1 DEF IInv, TableIsYoungest
    <2>2. \A n \in DOMAIN procs[b] : Dead(procs[b][n]) => Dead(procs'[b][n])
        BY <1>l DEF Lives, Follows, Dead
    <2>3. mon'.agent = b => b = a
        BY <1>1, <1>2 DEF Looking
    <2> QED BY <1>6, <1>9, <1>l, <2>1, <2>2, <2>3 DEF IInv, TableIsYoungest, Lives
<1>12. Records' /\ DeadRunsAreClosed'
    <2> SUFFICES ASSUME NEW b \in Agents
                 PROVE  /\ rows'[b].state = "none" => rows'[b].active = NoRun
                        /\ rows'[b].active # NoRun => rows'[b].active \in DOMAIN procs[b]
                        /\ ~late' /\ rows'[b].active # NoRun =>
                               ~procs'[b][rows'[b].active].recorded
                        /\ \A n \in DOMAIN procs[b] :
                            /\ procs'[b][n].recorded => Dead(procs'[b][n])
                            /\ procs'[b][n].verified => procs'[b][n].posts # <<>>
                            /\ ~late' /\ procs'[b][n].recorded => ~procs'[b][n].verified
        BY <1>9, <1>l, SameDomains DEF IInv, Records, DeadRunsAreClosed
    <2>1. CASE b = a
        BY <1>1, <1>5, <1>6, <1>8, <1>9, <2>1 DEF IInv, TypeOK, Records
    <2>2. CASE b # a
        BY <1>1, <1>9, <2>2 DEF IInv, TypeOK, Records, DeadRunsAreClosed
    <2> QED BY <2>1, <2>2
<1> QED BY <1>1, <1>l, <1>10, <1>11, <1>12, KeepsHeld, KeepsWaiting DEF IInv

LEMMA NewProcessIsOne == NewProcess \in Process /\ ~NewProcess.recorded /\ ~NewProcess.verified
<1>1. <<>> \in Seq({"paused", "running"}) /\ <<>> \in Seq(Posts)
    OBVIOUS
<1> QED BY <1>1 DEF NewProcess, Process

LEMMA SpawnKeeps ==
    ASSUME IInv, NEW a \in Agents, mon.agent = a, MonitorSpawn
    PROVE  IInv'
<1> DEFINE s == Append(procs[a], NewProcess)
<1>1. /\ mon.at = "recorded" /\ procs' = [procs EXCEPT ![a] = s]
      /\ mon' = [at |-> "spawned", agent |-> a]
      /\ UNCHANGED <<status, req, served, table, sockets, rows, held, late>>
    BY DEF MonitorSpawn, Step
<1>2. s \in Seq(Process) /\ Len(s) = Len(procs[a]) + 1 /\ Len(procs[a]) = table[a]
      /\ s[Len(procs[a]) + 1] = NewProcess
      /\ \A n \in DOMAIN procs[a] : n \in DOMAIN s /\ s[n] = procs[a][n]
      /\ DOMAIN s = 1 .. Len(procs[a]) + 1
    BY <1>1, Domains, NewProcessIsOne, AppendProperties DEF IInv, TableIsYoungest
<1>3. procs'[a] = s /\ \A b \in Agents \ {a} : procs'[b] = procs[b]
    BY <1>1 DEF IInv, TypeOK
<1>4. procs' \in [Agents -> Seq(Process)]
    BY <1>1, <1>2 DEF IInv, TypeOK
<1> HIDE DEF s
<1>5. \A b \in Agents : \A n \in DOMAIN procs[b] :
          n \in DOMAIN procs'[b] /\ procs'[b][n] = procs[b][n]
    BY <1>2, <1>3
<1>6. \A b \in Agents : \A n \in DOMAIN procs'[b] :
          n \in DOMAIN procs[b] \/ (b = a /\ n = table[a] + 1 /\ procs'[b][n] = NewProcess)
    BY <1>2, <1>3, Domains DEF IInv
<1>7. TypeOK'
    BY <1>1, <1>4, <1>5 DEF IInv, TypeOK, Monitor
<1>8. TableIsYoungest'
    <2> SUFFICES ASSUME NEW b \in Agents
                 PROVE  /\ Len(procs'[b]) = IF b = a THEN table[b] + 1 ELSE table[b]
                        /\ \A n \in DOMAIN procs'[b] : n < table[b] => Dead(procs'[b][n])
                        /\ b = a => Dead(procs'[b][table[b]])
        BY <1>1 DEF TableIsYoungest
    <2>1. Len(procs'[b]) = IF b = a THEN table[b] + 1 ELSE table[b]
        BY <1>1, <1>2, <1>3 DEF IInv, TableIsYoungest
    <2>2. \A n \in DOMAIN procs'[b] : n < table[b] => Dead(procs'[b][n])
        BY <1>5, <1>6 DEF IInv, TypeOK, TableIsYoungest
    <2>3. b = a => Dead(procs'[b][table[b]])
        BY <1>5, Domains DEF IInv, TableIsYoungest
    <2> QED BY <2>1, <2>2, <2>3
<1>9. Records' /\ DeadRunsAreClosed'
    BY <1>1, <1>5, <1>6, NewProcessIsOne DEF IInv, Records, DeadRunsAreClosed
<1>10. Held'
    <2> SUFFICES ASSUME NEW x \in held
                 PROVE  x[2] \in DOMAIN procs'[x[1]] /\ Firm(procs'[x[1]][x[2]])
        BY <1>1 DEF Held
    <2>1. x[1] \in Agents
        BY DEF IInv, TypeOK
    <2> QED BY <1>5, <2>1 DEF IInv, Held
<1>11. Waiting'
    BY <1>1, <1>5 DEF IInv, Waiting
<1> QED BY <1>7, <1>8, <1>9, <1>10, <1>11 DEF IInv

LEMMA StoreKeeps ==
    ASSUME IInv, NEW a \in Agents, mon.agent = a, MonitorStore
    PROVE  IInv'
<1>1. /\ mon.at = "spawned" /\ table' = [table EXCEPT ![a] = Len(procs[a])]
      /\ mon' = Looking
      /\ UNCHANGED <<status, req, served, procs, sockets, rows, held, late>>
    BY DEF MonitorStore
<1>2. Len(procs[a]) = table[a] + 1 /\ table[a] \in Nat /\ Len(procs[a]) \in DOMAIN procs[a]
    BY <1>1, Domains DEF IInv, TypeOK, TableIsYoungest
<1>3. NoAgent \notin Agents
    BY PauseAssumption
<1>4. TypeOK'
    BY <1>1, <1>2 DEF IInv, TypeOK
<1>5. TableIsYoungest'
    <2> SUFFICES ASSUME NEW b \in Agents
                 PROVE  /\ Len(procs[b]) = table'[b]
                        /\ \A n \in DOMAIN procs[b] : n < table'[b] => Dead(procs[b][n])
        BY <1>1, <1>3 DEF TableIsYoungest, Looking
    <2>1. CASE b = a
        <3>1. table'[a] = table[a] + 1
            BY <1>1, <1>2 DEF IInv, TypeOK
        <3>2. Dead(procs[a][table[a]])
            BY DEF IInv, TableIsYoungest
        <3>3. ASSUME NEW n \in DOMAIN procs[a], n < table[a] + 1 PROVE Dead(procs[a][n])
            <4>1. n \in Nat
                BY Domains DEF IInv
            <4>2. n < table[a] \/ n = table[a]
                BY <1>2, <3>3, <4>1
            <4> QED BY <3>2, <4>2 DEF IInv, TableIsYoungest
        <3> QED BY <1>2, <2>1, <3>1, <3>3
    <2>2. CASE b # a
        BY <1>1, <2>2 DEF IInv, TypeOK, TableIsYoungest
    <2> QED BY <2>1, <2>2
<1> QED BY <1>1, <1>4, <1>5, StillIsSteady, KeepsRecords, KeepsHeld, KeepsWaiting
        DEF IInv, Steady
-----------------------------------------------------------------------------
LEMMA InitHolds == Init => IInv
<1> SUFFICES ASSUME Init PROVE IInv
    OBVIOUS
<1>1. NoAgent \notin Agents
    BY PauseAssumption
<1>2. procs \in [Agents -> Seq(Process)]
      /\ \A a \in Agents : Len(procs[a]) = 1 /\ DOMAIN procs[a] = {1} /\ procs[a][1] = NewProcess
    BY NewProcessIsOne DEF Init
<1>3. NoRow \in Rows
    BY DEF NoRow, Rows, WorkerStates, NoRun
<1>4. TypeOK
    BY <1>2, <1>3 DEF Init, TypeOK, None
<1>5. TableIsYoungest
    BY <1>1, <1>2 DEF Init, TableIsYoungest, Looking
<1>6. Records /\ DeadRunsAreClosed
    BY <1>2, NewProcessIsOne DEF Init, Records, DeadRunsAreClosed, NoRow, NoRun
<1>7. Held /\ Waiting
    BY DEF Init, Held, Waiting, Idle
<1> QED BY <1>4, <1>5, <1>6, <1>7 DEF IInv

LEMMA StepHolds == IInv /\ [Next]_vars => IInv'
<1> SUFFICES ASSUME IInv, [Next]_vars PROVE IInv'
    OBVIOUS
<1>1. CASE UNCHANGED vars
    BY <1>1 DEF IInv, TypeOK, TableIsYoungest, Records, DeadRunsAreClosed, Held, Waiting, vars
<1>2. ASSUME NEW h \in Handlers, Begin(h, "pause") \/ Begin(h, "resume") PROVE IInv'
    BY <1>2, BeginKeeps
<1>3. ASSUME NEW h \in Handlers, RequestStep(h) PROVE IInv'
    BY <1>3, AskKeeps, PublishPauseKeeps, AcknowledgedKeeps, TimeoutKeeps, ResumeKeeps
       DEF RequestStep
<1>4. ASSUME NEW a \in Agents, NEW n \in DOMAIN procs[a], WorkerStep(a, n) PROVE IInv'
    BY <1>4, WorkerKeeps, VerifyKeeps, WriteKeeps DEF WorkerStep
<1>5. ASSUME NEW a \in Agents, MonitorNotice(a) PROVE IInv'
    BY <1>5, NoticeKeeps
<1>6. CASE MonitorRecord \/ MonitorSpawn \/ MonitorStore
    <2>1. mon.agent \in Agents
        BY <1>6 DEF IInv, TypeOK, Monitor, Looking, MonitorRecord, MonitorSpawn, MonitorStore
    <2>2. PICK a \in Agents : mon.agent = a
        BY <2>1
    <2> QED BY <1>6, <2>2, RecordKeeps, SpawnKeeps, StoreKeeps
<1> QED BY <1>1, <1>2, <1>3, <1>4, <1>5, <1>6 DEF Next

\* The types, the order of the processes of an agent, what acknowledgements mean
\* and both properties form an inductive invariant.
THEOREM Invariance == Spec => []IInv
<1>1. Init => IInv
    BY InitHolds
<1>2. IInv /\ [Next]_vars => IInv'
    BY StepHolds
<1> QED BY <1>1, <1>2, PTL DEF Spec

\* An answered pause that met no earlier one holds until the next resume: what
\* pause_workers waited for has no run and begins none (worker_supervisor.py:200).
THEOREM PausesHold == Spec => []PauseHolds
<1>1. IInv => PauseHolds
    BY DEF IInv, Held, PauseHolds, Firm
<1> QED BY <1>1, Invariance, PTL

\* No post revives a run of a process whose exit is recorded, unless it had passed
\* verify before (worker_supervisor.py:388, app.py:1990).
THEOREM DeadStayClosed == Spec => []DeadRunsAreClosed
<1>1. IInv => DeadRunsAreClosed
    BY DEF IInv
<1> QED BY <1>1, Invariance, PTL
=============================================================================
