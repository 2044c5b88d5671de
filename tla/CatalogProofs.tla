---------------------------- MODULE CatalogProofs ---------------------------
(***************************************************************************)
(* Proofs about CatalogLifecycle for any number of conversations, profiles *)
(* and requests served at the same time.                                   *)
(***************************************************************************)
EXTENDS CatalogLifecycle, FiniteSetTheorems, TLAPS

\* A column keeps its type through an UPDATE.
LEMMA UpdatedIn ==
    ASSUME NEW S, NEW x \in S, NEW old, NEW new \in S
    PROVE  Updated(x, old, new) \in S
BY DEF Updated

LEMMA RequestFields ==
    ASSUME TypeOK, NEW h \in Handlers, req[h] # Idle
    PROVE  /\ req[h] \in Request
           /\ req[h].conv \in Conversations /\ req[h].op \in Ops
           /\ req[h].draft \in Profiles
           /\ req[h].status \in Statuses
           /\ req[h].locked \in Profiles \cup {NoProfile}
           /\ req[h].at \in {"check", "validate", "reload", "commit"}
BY DEF TypeOK, Request

\* A handler that moves on keeps its request, one that finishes drops it, and
\* the others are not concerned.
LEMMA GotoEffect ==
    ASSUME TypeOK, NEW h \in Handlers, req[h] # Idle,
           NEW where \in {"check", "validate", "reload", "commit"}, Goto(h, where)
    PROVE  /\ req' \in [Handlers -> Request \cup {Idle}]
           /\ req'[h] # Idle /\ req'[h].at = where
           /\ req'[h].op = req[h].op /\ req'[h].conv = req[h].conv
           /\ \A g \in Handlers : g # h => req'[g] = req[g]
<1>1. req[h] \in Request
    BY RequestFields
<1>2. [req[h] EXCEPT !.at = where] \in Request
    BY <1>1 DEF Request
<1>3. req' = [req EXCEPT ![h] = [req[h] EXCEPT !.at = where]]
    BY DEF Goto
<1>4. req'[h] = [req[h] EXCEPT !.at = where]
    BY <1>3 DEF TypeOK
<1>5. req'[h] # Idle
    BY <1>2, <1>4, CatalogAssumption
<1>6. req' \in [Handlers -> Request \cup {Idle}]
    BY <1>2, <1>3 DEF TypeOK
<1>7. \A g \in Handlers : g # h => req'[g] = req[g]
    BY <1>3 DEF TypeOK
<1>8. req'[h].at = where /\ req'[h].op = req[h].op /\ req'[h].conv = req[h].conv
    BY <1>1, <1>4 DEF Request
<1> QED
    BY <1>5, <1>6, <1>7, <1>8

LEMMA FinishEffect ==
    ASSUME TypeOK, NEW h \in Handlers, Finish(h)
    PROVE  /\ req' \in [Handlers -> Request \cup {Idle}]
           /\ req'[h] = Idle
           /\ \A g \in Handlers : g # h => req'[g] = req[g]
BY DEF Finish, TypeOK

\* An UPDATE of the status concerns the request's own conversation.
LEMMA SetStatusEffect ==
    ASSUME TypeOK, NEW h \in Handlers, req[h] # Idle, NEW new \in Statuses,
           SetStatus(h, new)
    PROVE  /\ status' \in [Conversations -> Statuses \cup {"absent"}]
           /\ \A c \in Conversations : c # req[h].conv => status'[c] = status[c]
           /\ status'[req[h].conv] \in {status[req[h].conv], new}
<1>1. req[h].conv \in Conversations
    BY RequestFields
<1>2. status' = [status EXCEPT ![req[h].conv] =
                    Updated(status[req[h].conv], req[h].status, new)]
    BY DEF SetStatus
<1>3. Updated(status[req[h].conv], req[h].status, new) \in {status[req[h].conv], new}
    BY DEF Updated
<1> QED
    BY <1>1, <1>2, <1>3 DEF TypeOK

-----------------------------------------------------------------------------
(* The types *)

LEMMA InitTypes == Init => TypeOK
BY DEF Init, TypeOK

LEMMA LoadEffect ==
    ASSUME TypeOK, NEW h \in Handlers, NEW c \in Conversations, NEW o \in Ops, Load(h, c, o)
    PROVE  /\ req' \in [Handlers -> Request \cup {Idle}]
           /\ req'[h].op = o /\ req'[h].conv = c /\ req'[h].locked = locked[c]
           /\ req'[h].at = IF o \in {"start", "resume"} THEN "check" ELSE "commit"
           /\ \A g \in Handlers : g # h => req'[g] = req[g]
<1> DEFINE new == [op |-> o, conv |-> c,
                   at |-> IF o \in {"start", "resume"} THEN "check" ELSE "commit",
                   status |-> status[c], draft |-> draft[c], locked |-> locked[c]]
<1>1. status[c] \in Statuses
    BY DEF Load, TypeOK
<1>2. new \in Request
    BY <1>1 DEF Request, TypeOK
<1>3. req' = [req EXCEPT ![h] = new]
    BY DEF Load
<1>4. new.op = o /\ new.conv = c /\ new.locked = locked[c]
      /\ new.at = IF o \in {"start", "resume"} THEN "check" ELSE "commit"
    OBVIOUS
<1> HIDE DEF new
<1> QED
    BY <1>2, <1>3, <1>4 DEF TypeOK

LEMMA ReloadEffect ==
    ASSUME TypeOK, NEW h \in Handlers, StartReload(h),
           status[req[h].conv] \in Statuses
    PROVE  /\ req' \in [Handlers -> Request \cup {Idle}]
           /\ req'[h] # Idle /\ req'[h].op = req[h].op /\ req'[h].conv = req[h].conv
           /\ req'[h].locked = locked[req[h].conv] /\ req'[h].at = "commit"
           /\ \A g \in Handlers : g # h => req'[g] = req[g]
<1> DEFINE c == req[h].conv
           new == [req[h] EXCEPT !.at = "commit", !.status = status[c],
                                 !.draft = draft[c], !.locked = locked[c]]
<1>1. req[h] \in Request /\ c \in Conversations
    BY RequestFields DEF StartReload, At
<1>2. new \in Request
    BY <1>1 DEF Request, TypeOK
<1>3. new # Idle
    BY <1>2, CatalogAssumption
<1>4. new.op = req[h].op /\ new.conv = c /\ new.locked = locked[c] /\ new.at = "commit"
    BY <1>1 DEF Request
<1>5. req' = [req EXCEPT ![h] = new]
    BY DEF StartReload
<1> HIDE DEF new
<1> QED
    BY <1>2, <1>3, <1>4, <1>5 DEF TypeOK

\* A step changes the conversation of the request it serves, and that is there.
LEMMA StepTypes ==
    ASSUME TypeOK, HandlersKnow, [Next]_vars
    PROVE  TypeOK'
<1>0. ASSUME NEW h \in Handlers, req[h] # Idle
      PROVE  status[req[h].conv] \in Statuses
    BY <1>0, RequestFields DEF HandlersKnow, TypeOK
<1>1. ASSUME NEW c \in Conversations, Create(c) PROVE TypeOK'
    BY <1>1 DEF Create, TypeOK, Statuses
<1>2. ASSUME NEW h \in Handlers, NEW c \in Conversations, NEW o \in Ops, Load(h, c, o)
      PROVE  TypeOK'
  <2>1. \A g \in Serving : req[g].conv \in Conversations
      BY RequestFields DEF Serving
  <2>2. met' \subseteq SUBSET Conversations
      BY <1>2, <2>1 DEF Load, TypeOK
  <2> QED
      BY <1>2, <2>2, LoadEffect DEF Load, row, TypeOK
<1>3. ASSUME NEW h \in Handlers, CheckOthers(h) PROVE TypeOK'
  <2>1. req' \in [Handlers -> Request \cup {Idle}]
      BY <1>3, GotoEffect, FinishEffect DEF CheckOthers, At
  <2> QED
      BY <1>3, <2>1 DEF CheckOthers, row, TypeOK
<1>4. ASSUME NEW h \in Handlers, StartValidate(h) PROVE TypeOK'
  <2>1. req' \in [Handlers -> Request \cup {Idle}]
      BY <1>4, GotoEffect, FinishEffect DEF StartValidate, At
  <2>2. status' \in [Conversations -> Statuses \cup {"absent"}]
      BY <1>4, SetStatusEffect DEF StartValidate, At, TypeOK, Statuses
  <2> QED
      BY <1>4, <2>1, <2>2 DEF StartValidate, TypeOK
<1>5. ASSUME NEW h \in Handlers, StartReload(h) PROVE TypeOK'
    BY <1>5, <1>0, ReloadEffect DEF StartReload, At, row, TypeOK
<1>6. ASSUME NEW h \in Handlers, Commit(h) PROVE TypeOK'
  <2>1. req[h] # Idle /\ req' \in [Handlers -> Request \cup {Idle}]
      BY <1>6, FinishEffect
         DEF Commit, CommitStart, CommitPause, CommitResume, CommitEnd, CommitValidate,
             CommitUpdate, CommitMessage, Committing, At
  <2>2. req[h].conv \in Conversations /\ req[h].draft \in Profiles
      BY <2>1, RequestFields
  <2>3. status' \in [Conversations -> Statuses \cup {"absent"}]
      BY <1>6, <2>1, SetStatusEffect
         DEF Commit, CommitStart, CommitPause, CommitResume, CommitEnd, CommitValidate,
             CommitUpdate, CommitMessage, row, TypeOK, Statuses
  <2>4. CASE CommitStart(h)
    <3>1. Updated(locked[req[h].conv], req[h].locked, req[h].draft)
              \in Profiles \cup {NoProfile}
        BY <2>2 DEF Updated, TypeOK
    <3> QED
        BY <2>1, <2>3, <2>4, <3>1 DEF CommitStart, TypeOK
  <2>5. CASE CommitUpdate(h)
    <3>1. ASSUME NEW p \in Profiles
          PROVE  Updated(draft[req[h].conv], req[h].draft, p) \in Profiles
        BY <2>2 DEF Updated, TypeOK
    <3> QED
        BY <2>1, <2>3, <2>5, <3>1 DEF CommitUpdate, TypeOK
  <2>6. CASE CommitMessage(h)
      BY <2>1, <2>6 DEF CommitMessage, row, TypeOK
  <2>7. CASE CommitPause(h) \/ CommitResume(h) \/ CommitEnd(h) \/ CommitValidate(h)
      BY <2>1, <2>3, <2>7
         DEF CommitPause, CommitResume, CommitEnd, CommitValidate, TypeOK
  <2> QED
      BY <1>6, <2>4, <2>5, <2>6, <2>7 DEF Commit
<1>7. CASE Crash
    BY <1>7 DEF Crash, row, TypeOK
<1>8. CASE UNCHANGED vars
    BY <1>8 DEF vars, row, TypeOK
<1> QED
    BY <1>1, <1>2, <1>3, <1>4, <1>5, <1>6, <1>7, <1>8 DEF Next
-----------------------------------------------------------------------------
(* Nothing is undone *)

\* What a row has got it keeps: it stays there, started and locked.
LEMMA RowsOnlyGain ==
    ASSUME TypeOK, [Next]_vars, NEW c \in Conversations
    PROVE  /\ status[c] # "absent" => status'[c] # "absent"
           /\ started[c] => started'[c]
           /\ locked[c] # NoProfile => locked'[c] # NoProfile
<1>1. ASSUME NEW d \in Conversations, Create(d) PROVE status[c] # "absent" => status'[c] # "absent"
    BY <1>1 DEF Create, TypeOK
<1>2. ASSUME NEW h \in Handlers, StartValidate(h) \/ Commit(h)
      PROVE  /\ status[c] # "absent" => status'[c] # "absent"
             /\ started[c] => started'[c]
             /\ locked[c] # NoProfile => locked'[c] # NoProfile
  <2>1. req[h] # Idle
      BY <1>2 DEF Commit, StartValidate, CommitStart, CommitPause, CommitResume,
                  CommitEnd, CommitValidate, CommitUpdate, CommitMessage, Committing, At
  <2>2. req[h].conv \in Conversations /\ req[h].draft # NoProfile
      BY <2>1, RequestFields, CatalogAssumption
  <2>3. \/ status' = status
        \/ \E new \in Statuses : SetStatus(h, new)
      BY <1>2 DEF Commit, StartValidate, CommitStart, CommitPause, CommitResume,
                  CommitEnd, CommitValidate, CommitUpdate, CommitMessage, row, Statuses
  <2>4. status[c] # "absent" => status'[c] # "absent"
      BY <2>1, <2>3, SetStatusEffect DEF Statuses
  <2>5. /\ started' = started \/ started' = [started EXCEPT ![req[h].conv] = TRUE]
        /\ \/ locked' = locked
           \/ locked' = [locked EXCEPT ![req[h].conv] =
                            Updated(locked[req[h].conv], req[h].locked, req[h].draft)]
      BY <1>2 DEF Commit, StartValidate, CommitStart, CommitPause, CommitResume,
                  CommitEnd, CommitValidate, CommitUpdate, CommitMessage, row
  <2>6. started[c] => started'[c]
      BY <2>2, <2>5 DEF TypeOK
  <2>7. locked[c] # NoProfile => locked'[c] # NoProfile
      BY <2>2, <2>5 DEF TypeOK, Updated
  <2> QED
      BY <2>4, <2>6, <2>7
<1> QED
    BY <1>1, <1>2
       DEF Next, vars, row, Create, Load, CheckOthers, StartReload, Crash

\* How a step may change the requests: one handler takes a request, moves on,
\* reloads or finishes; a crash drops them all.
LEMMA RequestStep ==
    ASSUME TypeOK, HandlersKnow, [Next]_vars, NEW g \in Handlers, req'[g] # Idle
    PROVE  \/ req'[g] = req[g]
           \/ /\ req[g] # Idle
              /\ req'[g].op = req[g].op /\ req'[g].conv = req[g].conv
              /\ req'[g].locked \in {req[g].locked, locked[req[g].conv]}
           \/ \E c \in Conversations, o \in Ops : Load(g, c, o)
<1>1. ASSUME NEW h \in Handlers, NEW c \in Conversations, NEW o \in Ops, Load(h, c, o)
      PROVE  req'[g] = req[g] \/ h = g
    BY <1>1, LoadEffect
<1>2. ASSUME NEW h \in Handlers, NEW where \in {"check", "validate", "reload", "commit"},
             req[h] # Idle, Goto(h, where)
      PROVE  \/ req'[g] = req[g]
             \/ /\ req[g] # Idle
                /\ req'[g].op = req[g].op /\ req'[g].conv = req[g].conv
                /\ req'[g].locked = req[g].locked
  <2>1. CASE g = h
    <3>1. req[h] \in Request
        BY <1>2, RequestFields
    <3>2. req'[h] = [req[h] EXCEPT !.at = where]
        BY <1>2 DEF Goto, TypeOK
    <3> QED
        BY <1>2, <2>1, <3>1, <3>2 DEF Request
  <2>2. CASE g # h
      BY <1>2, <2>2, GotoEffect
  <2> QED
      BY <2>1, <2>2
<1>3. ASSUME NEW h \in Handlers, Finish(h) PROVE req'[g] = req[g]
    BY <1>3, FinishEffect
<1>4. ASSUME NEW h \in Handlers, StartReload(h)
      PROVE  \/ req'[g] = req[g]
             \/ /\ req[g] # Idle
                /\ req'[g].op = req[g].op /\ req'[g].conv = req[g].conv
                /\ req'[g].locked = locked[req[g].conv]
  <2>1. req[h] # Idle
      BY <1>4 DEF StartReload, At
  <2>2. status[req[h].conv] \in Statuses
      BY <2>1, RequestFields DEF HandlersKnow, TypeOK
  <2> QED
      BY <1>4, <2>1, <2>2, ReloadEffect
<1>5. ASSUME NEW h \in Handlers, CheckOthers(h) \/ StartValidate(h)
      PROVE  /\ req[h] # Idle
             /\ \/ Finish(h)
                \/ \E where \in {"check", "validate", "reload", "commit"} : Goto(h, where)
    BY <1>5 DEF CheckOthers, StartValidate, At
<1>6. ASSUME NEW h \in Handlers, Commit(h) PROVE Finish(h)
    BY <1>6 DEF Commit, CommitStart, CommitPause, CommitResume, CommitEnd,
                CommitValidate, CommitUpdate, CommitMessage
<1>7. CASE Crash
    BY <1>7 DEF Crash
<1>8. CASE UNCHANGED req
    BY <1>8
<1> QED
    BY <1>1, <1>2, <1>3, <1>4, <1>5, <1>6, <1>7, <1>8 DEF Next, Create, vars, row

LEMMA StepHandlersKnow ==
    ASSUME TypeOK, RanMeansLocked, HandlersKnow, [Next]_vars
    PROVE  HandlersKnow'
<1> DEFINE Knows(g) ==
        req[g] # Idle =>
            LET c == req[g].conv IN
            /\ status[c] # "absent"
            /\ req[g].op \in {"pause", "resume", "end"} => started[c]
            /\ req[g].op \in {"pause", "resume", "end"} \/ req[g].locked # NoProfile =>
                   locked[c] # NoProfile
<1> SUFFICES ASSUME NEW g \in Handlers, req'[g] # Idle PROVE Knows(g)'
    BY DEF HandlersKnow
<1>1. Knows(g)
    BY DEF HandlersKnow
<1>2. CASE req[g] # Idle /\ req'[g].op = req[g].op /\ req'[g].conv = req[g].conv
           /\ req'[g].locked \in {req[g].locked, locked[req[g].conv]}
  <2>1. req[g].conv \in Conversations
      BY <1>2, RequestFields
  <2> QED
      BY <1>1, <1>2, <2>1, RowsOnlyGain
<1>3. ASSUME NEW c \in Conversations, NEW o \in Ops, Load(g, c, o) PROVE Knows(g)'
  <2>1. req'[g].op = o /\ req'[g].conv = c /\ req'[g].locked = locked[c]
      BY <1>3, LoadEffect
  <2>2. UNCHANGED row /\ status[c] # "absent"
      BY <1>3 DEF Load
  <2>3. o \in {"pause", "resume", "end"} => started[c] /\ locked[c] # NoProfile
      BY <1>3 DEF Load, Allowed, From, RanMeansLocked
  <2> QED
      BY <2>1, <2>2, <2>3 DEF row
<1> QED
    BY <1>2, <1>3, RequestStep

LEMMA StepRanMeansLocked ==
    ASSUME TypeOK, RanMeansLocked, HandlersKnow, [Next]_vars
    PROVE  RanMeansLocked'
<1> SUFFICES ASSUME NEW c \in Conversations, status'[c] \in {"running", "paused", "ended"}
             PROVE  started'[c] /\ locked'[c] # NoProfile
    BY DEF RanMeansLocked
<1>1. CASE status'[c] = status[c]
    BY <1>1, RowsOnlyGain DEF RanMeansLocked
<1>2. ASSUME NEW h \in Handlers, CommitStart(h), status'[c] # status[c]
      PROVE  started'[c] /\ locked'[c] # NoProfile
  <2>1. req[h] # Idle /\ req[h].conv = c
      BY <1>2, SetStatusEffect DEF CommitStart, Committing, At, Statuses
  <2>2. started'[c] = TRUE
      BY <1>2, <2>1 DEF CommitStart, TypeOK
  <2>3. locked'[c] = Updated(locked[c], req[h].locked, req[h].draft)
      BY <1>2, <2>1 DEF CommitStart, TypeOK
  <2>4. req[h].draft # NoProfile
      BY <2>1, RequestFields, CatalogAssumption
  <2>5. req[h].locked # NoProfile => locked[c] # NoProfile
      BY <2>1 DEF HandlersKnow
  <2> QED
      BY <2>2, <2>3, <2>4, <2>5 DEF Updated
<1>3. ASSUME NEW h \in Handlers, CommitPause(h) \/ CommitResume(h) \/ CommitEnd(h),
             status'[c] # status[c]
      PROVE  started'[c] /\ locked'[c] # NoProfile
  <2>1. req[h] # Idle /\ req[h].conv = c
      BY <1>3, SetStatusEffect
         DEF CommitPause, CommitResume, CommitEnd, Committing, At, Statuses
  <2>2. req[h].op \in {"pause", "resume", "end"}
      BY <1>3 DEF CommitPause, CommitResume, CommitEnd, Committing
  <2>3. started[c] /\ locked[c] # NoProfile
      BY <2>1, <2>2 DEF HandlersKnow
  <2> QED
      BY <2>3, RowsOnlyGain
<1>4. ASSUME NEW h \in Handlers,
             StartValidate(h) \/ CommitValidate(h) \/ CommitUpdate(h) \/ CommitMessage(h)
      PROVE  status'[c] = status[c]
  <2>1. \/ status' = status
        \/ req[h] # Idle /\ \E new \in {"validated", "draft"} : SetStatus(h, new)
      BY <1>4 DEF StartValidate, CommitValidate, CommitUpdate, CommitMessage,
                  Committing, At, row
  <2>2. ASSUME req[h] # Idle, NEW new \in {"validated", "draft"}, SetStatus(h, new),
               status'[c] # status[c]
        PROVE  FALSE
    <3>1. status'[c] = new
        BY <2>2, SetStatusEffect DEF Statuses
    <3> QED
        BY <3>1
  <2> QED
      BY <2>1, <2>2
<1>5. ASSUME NEW d \in Conversations, Create(d) PROVE status'[c] = status[c]
    BY <1>5 DEF Create, TypeOK
<1> QED
    BY <1>1, <1>2, <1>3, <1>4, <1>5
       DEF Next, Commit, Load, CheckOthers, StartReload, Crash, row, vars
-----------------------------------------------------------------------------
(* How many conversations can be active *)

\* A request that writes becomes no candidate: only one that is pending makes
\* its conversation active.
LEMMA WriteKeepsCandidates ==
    ASSUME TypeOK, NEW h \in Handlers, req[h] # Idle,
           \A g \in Handlers : g # h => req'[g] = req[g],
           Pending(h)' => Pending(h) /\ req'[h].conv = req[h].conv,
           \A c \in Conversations : c # req[h].conv => status'[c] = status[c],
           \/ status'[req[h].conv] = status[req[h].conv]
           \/ status'[req[h].conv] \notin {"running", "paused"}
           \/ Pending(h)
    PROVE  Candidates' \subseteq Candidates
<1>1. ASSUME NEW c \in Active' PROVE c \in Candidates
    BY <1>1 DEF Active, Candidates
<1>2. ASSUME NEW g \in Handlers, Pending(g)' PROVE req'[g].conv \in Candidates
  <2>1. Pending(g) /\ req'[g].conv = req[g].conv
      BY <1>2 DEF Pending
  <2> QED
      BY <2>1 DEF Candidates
<1> QED
    BY <1>1, <1>2 DEF Candidates

\* What is a candidate after a step was one before, unless a start or resume has
\* just found no other active conversation.
LEMMA CandidatesShrink ==
    ASSUME TypeOK, HandlersKnow, [Next]_vars
    PROVE  \/ Candidates' \subseteq Candidates
           \/ \E h \in Handlers : CheckOthers(h) /\ ~ActiveElsewhere(h)
<1>1. ASSUME NEW c \in Conversations, Create(c) PROVE Candidates' \subseteq Candidates
  <2>1. Active' \subseteq Active
      BY <1>1 DEF Create, Active, TypeOK
  <2>2. req' = req
      BY <1>1 DEF Create
  <2> QED
      BY <2>1, <2>2 DEF Candidates, Pending
<1>2. ASSUME NEW h \in Handlers, NEW c \in Conversations, NEW o \in Ops, Load(h, c, o)
      PROVE  Candidates' \subseteq Candidates
  <2>1. Active' = Active
      BY <1>2 DEF Load, row, Active
  <2>2. ASSUME NEW g \in Handlers, Pending(g)' PROVE req'[g].conv \in Candidates
    <3>1. CASE g # h
      <4>1. req'[g] = req[g]
          BY <1>2, <3>1, LoadEffect
      <4> QED
          BY <2>2, <4>1 DEF Candidates, Pending
    <3>2. CASE g = h
      <4>1. req'[g].op = o /\ req'[g].conv = c
            /\ req'[g].at = IF o \in {"start", "resume"} THEN "check" ELSE "commit"
          BY <1>2, <3>2, LoadEffect
      <4>2. o = "pause"
          BY <2>2, <4>1 DEF Pending
      <4>3. c \in Active
          BY <1>2, <4>2 DEF Load, Allowed, From, Active
      <4> QED
          BY <4>1, <4>3 DEF Candidates
    <3> QED
        BY <3>1, <3>2
  <2> QED
      BY <2>1, <2>2 DEF Candidates
<1>3. ASSUME NEW h \in Handlers, CheckOthers(h), ActiveElsewhere(h)
      PROVE  Candidates' \subseteq Candidates
  <2>1. req[h] # Idle /\ UNCHANGED status /\ Finish(h)
      BY <1>3 DEF CheckOthers, At, row
  <2>2. ~Pending(h)' /\ \A g \in Handlers : g # h => req'[g] = req[g]
      BY <2>1, FinishEffect DEF Pending
  <2> QED
      BY <2>1, <2>2 DEF Candidates, Pending, Active
<1>4. ASSUME NEW h \in Handlers, StartValidate(h)
      PROVE  Candidates' \subseteq Candidates
  <2>1. req[h] # Idle /\ req[h].at = "validate"
      BY <1>4 DEF StartValidate, At
  <2>2. /\ \A g \in Handlers : g # h => req'[g] = req[g]
        /\ req'[h] = Idle \/ (req'[h].op = req[h].op /\ req'[h].conv = req[h].conv)
      BY <1>4, <2>1, GotoEffect, FinishEffect DEF StartValidate
  <2>3. Pending(h)' => Pending(h) /\ req'[h].conv = req[h].conv
      BY <2>1, <2>2 DEF Pending
  <2>4. /\ \A c \in Conversations : c # req[h].conv => status'[c] = status[c]
        /\ status'[req[h].conv] \in {status[req[h].conv], "validated"}
    <3>1. status' = status \/ SetStatus(h, "validated")
        BY <1>4 DEF StartValidate
    <3> QED
        BY <3>1, <2>1, SetStatusEffect DEF Statuses
  <2>5. status'[req[h].conv] = status[req[h].conv]
        \/ status'[req[h].conv] \notin {"running", "paused"}
      BY <2>4
  <2> QED
      BY <2>1, <2>2, <2>3, <2>4, <2>5, WriteKeepsCandidates
<1>5. ASSUME NEW h \in Handlers, StartReload(h)
      PROVE  Candidates' \subseteq Candidates
  <2>1. req[h] # Idle /\ req[h].at = "reload" /\ UNCHANGED status
      BY <1>5 DEF StartReload, At, row
  <2>2. status[req[h].conv] \in Statuses
      BY <2>1, RequestFields DEF HandlersKnow, TypeOK
  <2>3. /\ \A g \in Handlers : g # h => req'[g] = req[g]
        /\ req'[h].op = req[h].op /\ req'[h].conv = req[h].conv
      BY <1>5, <2>2, ReloadEffect DEF StartReload, At
  <2>4. Pending(h)' => Pending(h) /\ req'[h].conv = req[h].conv
      BY <2>1, <2>3 DEF Pending
  <2> QED
      BY <2>1, <2>3, <2>4, WriteKeepsCandidates
<1>6. ASSUME NEW h \in Handlers, Commit(h) PROVE Candidates' \subseteq Candidates
  <2>1. /\ req[h] # Idle /\ Finish(h) /\ req[h].at = "commit"
      BY <1>6 DEF Commit, CommitStart, CommitPause, CommitResume, CommitEnd,
                  CommitValidate, CommitUpdate, CommitMessage, Committing, At
  <2>2. \/ status' = status
        \/ \E new \in {"draft", "validated", "ended"} : SetStatus(h, new)
        \/ Pending(h) /\ \E new \in {"running", "paused"} : SetStatus(h, new)
      BY <1>6, <2>1
         DEF Commit, CommitStart, CommitPause, CommitResume, CommitEnd,
             CommitValidate, CommitUpdate, CommitMessage, Committing, Pending, row
  <2>3. \A c \in Conversations : c # req[h].conv => status'[c] = status[c]
      BY <2>1, <2>2, SetStatusEffect DEF Statuses
  <2>4. \/ status'[req[h].conv] = status[req[h].conv]
        \/ status'[req[h].conv] \notin {"running", "paused"}
        \/ Pending(h)
    <3>1. ASSUME NEW new \in {"draft", "validated", "ended"}, SetStatus(h, new)
          PROVE  \/ status'[req[h].conv] = status[req[h].conv]
                 \/ status'[req[h].conv] \notin {"running", "paused"}
      <4>1. status'[req[h].conv] \in {status[req[h].conv], new}
          BY <2>1, <3>1, SetStatusEffect DEF Statuses
      <4> QED
          BY <4>1
    <3> QED
        BY <2>2, <3>1
  <2>5. req'[h] = Idle /\ \A g \in Handlers : g # h => req'[g] = req[g]
      BY <2>1, FinishEffect
  <2>6. Pending(h)' => Pending(h) /\ req'[h].conv = req[h].conv
      BY <2>5 DEF Pending
  <2> QED
      BY <2>1, <2>3, <2>4, <2>5, <2>6, WriteKeepsCandidates
<1>7. CASE Crash
    BY <1>7 DEF Crash, row, Candidates, Active, Pending
<1>8. CASE UNCHANGED vars
    BY <1>8 DEF vars, row, Candidates, Active, Pending
<1> QED
    BY <1>1, <1>2, <1>3, <1>4, <1>5, <1>6, <1>7, <1>8 DEF Next

\* After that only conversations of requests being served are candidates.
LEMMA CheckedCandidates ==
    ASSUME TypeOK, NEW h \in Handlers, CheckOthers(h), ~ActiveElsewhere(h)
    PROVE  Candidates' \subseteq {req'[g].conv : g \in Serving'}
<1>1. req[h] # Idle /\ UNCHANGED status
    BY DEF CheckOthers, At, row
<1>2. \E where \in {"validate", "commit"} : Goto(h, where)
    BY DEF CheckOthers
<1>3. req'[h] # Idle /\ req'[h].conv = req[h].conv
    BY <1>1, <1>2, GotoEffect
<1>4. Active' \subseteq {req'[h].conv}
    BY <1>1, <1>3 DEF Active, ActiveElsewhere
<1> QED
    BY <1>3, <1>4 DEF Candidates, Pending, Serving

LEMMA StepCandidates ==
    ASSUME TypeOK, HandlersKnow, CandidatesBounded, [Next]_vars
    PROVE  CandidatesBounded'
<1>1. /\ IsFiniteSet(Candidates) /\ Cardinality(Candidates) \in Nat
      /\ Cardinality(Handlers) \in Nat
      /\ Cardinality(Candidates) <= Cardinality(Handlers)
    BY CatalogAssumption, FS_CardinalityType DEF CandidatesBounded
<1>2. CASE Candidates' \subseteq Candidates
  <2>1. IsFiniteSet(Candidates') /\ Cardinality(Candidates') <= Cardinality(Candidates)
      BY <1>1, <1>2, FS_Subset
  <2>2. Cardinality(Candidates') \in Nat
      BY <2>1, FS_CardinalityType
  <2> QED
      BY <1>1, <2>1, <2>2 DEF CandidatesBounded
<1>3. ASSUME NEW h \in Handlers, CheckOthers(h), ~ActiveElsewhere(h)
      PROVE  CandidatesBounded'
  <2> DEFINE G == Serving'
             S == {req'[g].conv : g \in G}
             f == [g \in G |-> req'[g].conv]
  <2>1. G \in SUBSET Handlers /\ Candidates' \subseteq S
      BY <1>3, CheckedCandidates DEF Serving
  <2>2. IsFiniteSet(G) /\ Cardinality(G) <= Cardinality(Handlers)
      BY <2>1, CatalogAssumption, FS_Subset
  <2>3. f \in Surjection(G, S)
      BY DEF Surjection
  <2>4. IsFiniteSet(S) /\ Cardinality(S) <= Cardinality(G)
      BY <2>2, <2>3, FS_Surjection
  <2>5. IsFiniteSet(Candidates') /\ Cardinality(Candidates') <= Cardinality(S)
      BY <2>1, <2>4, FS_Subset
  <2>6. /\ Cardinality(Candidates') \in Nat /\ Cardinality(S) \in Nat
        /\ Cardinality(G) \in Nat
      BY <2>2, <2>4, <2>5, FS_CardinalityType
  <2>7. Cardinality(Candidates') <= Cardinality(Handlers)
      BY <1>1, <2>2, <2>4, <2>5, <2>6
  <2> QED
      BY <2>5, <2>7 DEF CandidatesBounded
<1> QED
    BY <1>2, <1>3, CandidatesShrink
-----------------------------------------------------------------------------
(* Requests that are alone with their conversation *)

\* The steps of a request after it has loaded its row.
Moves(h) == CheckOthers(h) \/ StartValidate(h) \/ StartReload(h) \/ Commit(h)

\* They concern their own conversation and no other request.
LEMMA MovesLocally ==
    ASSUME TypeOK, HandlersKnow, NEW h \in Handlers, Moves(h)
    PROVE  /\ req[h] # Idle /\ req[h] \in Request /\ met' = met
           /\ \A g \in Handlers : g # h => req'[g] = req[g]
           /\ req'[h] # Idle => req'[h].conv = req[h].conv
           /\ \A c \in Conversations : c # req[h].conv =>
                  /\ status'[c] = status[c] /\ started'[c] = started[c]
                  /\ draft'[c] = draft[c] /\ locked'[c] = locked[c] /\ late'[c] = late[c]
<1>1. req[h] # Idle /\ met' = met
    BY DEF Moves, CheckOthers, StartValidate, StartReload, Commit, CommitStart, CommitPause,
           CommitResume, CommitEnd, CommitValidate, CommitUpdate, CommitMessage,
           Committing, At
<1>2. req[h] \in Request /\ req[h].conv \in Conversations
    BY <1>1, RequestFields
<1>3. /\ \A g \in Handlers : g # h => req'[g] = req[g]
      /\ req'[h] # Idle => req'[h].conv = req[h].conv
  <2>1. status[req[h].conv] \in Statuses
      BY <1>1, <1>2 DEF HandlersKnow, TypeOK
  <2>2. CASE StartReload(h)
      BY <2>1, <2>2, ReloadEffect
  <2>3. ASSUME NEW where \in {"check", "validate", "reload", "commit"}, Goto(h, where)
        PROVE  <1>3!1 /\ <1>3!2
      BY <1>1, <2>3, GotoEffect
  <2>4. CASE Finish(h)
      BY <2>4, FinishEffect
  <2> QED
      BY <2>2, <2>3, <2>4
         DEF Moves, CheckOthers, StartValidate, Commit, CommitStart, CommitPause,
             CommitResume, CommitEnd, CommitValidate, CommitUpdate, CommitMessage
<1>4. ASSUME NEW c \in Conversations, c # req[h].conv PROVE status'[c] = status[c]
  <2>1. status' = status \/ \E new \in Statuses : SetStatus(h, new)
      BY DEF Moves, CheckOthers, StartValidate, StartReload, Commit, CommitStart, CommitPause,
             CommitResume, CommitEnd, CommitValidate, CommitUpdate, CommitMessage, row, Statuses
  <2> QED
      BY <1>1, <1>4, <2>1, SetStatusEffect
<1>5. ASSUME NEW c \in Conversations, c # req[h].conv
      PROVE  /\ started'[c] = started[c] /\ draft'[c] = draft[c]
             /\ locked'[c] = locked[c] /\ late'[c] = late[c]
    BY <1>5 DEF Moves, CheckOthers, StartValidate, StartReload, Commit, CommitStart,
                CommitPause, CommitResume, CommitEnd, CommitValidate, CommitUpdate,
                CommitMessage, row, TypeOK
<1> QED
    BY <1>1, <1>2, <1>3, <1>4, <1>5

\* The other steps, as what they do to the rows.
LEMMA StepKinds ==
    ASSUME [Next]_vars
    PROVE  \/ \E h \in Handlers : Moves(h)
           \/ \E h \in Handlers, c \in Conversations, o \in Ops : Load(h, c, o)
           \/ \E c \in Conversations : Create(c)
           \/ Crash
           \/ UNCHANGED vars
BY DEF Next, Moves

LEMMA StepOverlaps ==
    ASSUME TypeOK, HandlersKnow, Overlaps, [Next]_vars
    PROVE  Overlaps' /\ met \subseteq met'
<1>1. ASSUME NEW h \in Handlers, Moves(h) PROVE Overlaps' /\ met \subseteq met'
    BY <1>1, MovesLocally DEF Overlaps, Serving
<1>2. ASSUME NEW h \in Handlers, NEW c \in Conversations, NEW o \in Ops, Load(h, c, o)
      PROVE  Overlaps' /\ met \subseteq met'
  <2>1. met' = met \cup {{c, req[g].conv} : g \in Serving} /\ req[h] = Idle
      BY <1>2 DEF Load
  <2>2. req'[h].conv = c /\ \A g \in Handlers : g # h => req'[g] = req[g]
      BY <1>2, LoadEffect
  <2>3. ASSUME NEW g \in Serving', NEW k \in Serving', g # k
        PROVE  {req'[g].conv, req'[k].conv} \in met'
    <3>1. CASE g # h /\ k # h
        BY <2>1, <2>2, <2>3, <3>1 DEF Overlaps, Serving
    <3>2. CASE g = h
      <4>1. k \in Serving /\ req'[k] = req[k]
          BY <2>2, <2>3, <3>2 DEF Serving
      <4> QED
          BY <2>1, <2>2, <3>2, <4>1
    <3>3. CASE k = h
      <4>1. g \in Serving /\ req'[g] = req[g]
          BY <2>2, <2>3, <3>3 DEF Serving
      <4>2. {req'[g].conv, req'[k].conv} = {c, req[g].conv}
          BY <2>2, <3>3, <4>1
      <4> QED
          BY <2>1, <4>1, <4>2
    <3> QED
        BY <3>1, <3>2, <3>3
  <2> QED
      BY <2>1, <2>3 DEF Overlaps
<1>3. CASE Crash
    BY <1>3 DEF Crash, Overlaps, Serving
<1>4. ASSUME UNCHANGED <<req, met>> PROVE Overlaps' /\ met \subseteq met'
    BY <1>4 DEF Overlaps, Serving
<1> QED
    BY <1>1, <1>2, <1>3, <1>4, StepKinds DEF Create, vars

\* Two candidates have met: whichever passed its check last found no active
\* conversation but its own, so the other was pending.
LEMMA StepCandidatesMet ==
    ASSUME TypeOK, HandlersKnow, Overlaps, CandidatesMet, [Next]_vars
    PROVE  CandidatesMet'
<1>1. Overlaps' /\ met \subseteq met'
    BY StepOverlaps
<1>2. CASE Candidates' \subseteq Candidates
    BY <1>1, <1>2 DEF CandidatesMet
<1>3. ASSUME NEW h \in Handlers, CheckOthers(h), ~ActiveElsewhere(h)
      PROVE  CandidatesMet'
  <2>1. Candidates' \subseteq {req'[g].conv : g \in Serving'}
      BY <1>3, CheckedCandidates
  <2> QED
      BY <1>1, <2>1 DEF CandidatesMet, Overlaps
<1> QED
    BY <1>2, <1>3, CandidatesShrink

\* The parts of Snapshots that speak of one request.
View(r) ==
    /\ r.at # "reload" =>
          /\ status[r.conv] = r.status /\ draft[r.conv] = r.draft
          /\ locked[r.conv] = r.locked
    /\ r.at \in {"validate", "reload"} => r.op = "start"
    /\ r.op = "start" =>
          status[r.conv] \in IF r.at \in {"check", "validate"} THEN From.start
                             ELSE {"validated"}
    /\ r.op = "start" /\ r.at \in {"reload", "commit"} => draft[r.conv] \in Valid
    /\ r.op \in {"pause", "resume", "end"} => status[r.conv] \in From[r.op]
    /\ r.op = "update" => ~started[r.conv]
    /\ r.op = "message" => status[r.conv] = "running"

LEMMA ViewsAreSnapshots ==
    Snapshots <=> \A h \in Serving : Alone(req[h].conv) => View(req[h])
BY DEF Snapshots, View

\* The row of c and a request that has it loaded stay as they are.
LEMMA ViewStays ==
    ASSUME NEW g \in Handlers, View(req[g]), req'[g] = req[g],
           status'[req[g].conv] = status[req[g].conv],
           started'[req[g].conv] = started[req[g].conv],
           draft'[req[g].conv] = draft[req[g].conv],
           locked'[req[g].conv] = locked[req[g].conv]
    PROVE  View(req[g])'
BY DEF View

LEMMA LoadedView ==
    ASSUME TypeOK, NEW h \in Handlers, NEW c \in Conversations, NEW o \in Ops, Load(h, c, o)
    PROVE  View(req[h])'
<1>1. req'[h] = [op |-> o, conv |-> c,
                 at |-> IF o \in {"start", "resume"} THEN "check" ELSE "commit",
                 status |-> status[c], draft |-> draft[c], locked |-> locked[c]]
    BY DEF Load, TypeOK
<1>2. UNCHANGED row /\ Allowed(o, c)
    BY DEF Load
<1> QED
    BY <1>1, <1>2 DEF View, Allowed, From, row

\* The request that moves and is still there afterwards.
LEMMA MovedView ==
    ASSUME TypeOK, NEW h \in Handlers, Moves(h), View(req[h]), req'[h] # Idle,
           req[h] \in Request, req[h] # Idle
    PROVE  View(req[h])'
<1>0. req[h].conv \in Conversations
    BY DEF Request
<1>1. CASE CheckOthers(h)
  <2>1. /\ req' = [req EXCEPT ![h].at = IF req[h].op = "start" THEN "validate" ELSE "commit"]
        /\ req[h].at = "check" /\ UNCHANGED row
      BY <1>1, FinishEffect DEF CheckOthers, Goto, At
  <2>2. req'[h] = [req[h] EXCEPT !.at = IF req[h].op = "start" THEN "validate" ELSE "commit"]
      BY <2>1 DEF TypeOK
  <2> QED
      BY <2>1, <2>2 DEF View, Request, row
<1>2. CASE StartValidate(h)
  <2>1. /\ req[h].draft \in Valid /\ SetStatus(h, "validated") /\ req[h].at = "validate"
        /\ req' = [req EXCEPT ![h].at = "reload"] /\ UNCHANGED <<draft, locked, started>>
      BY <1>2, FinishEffect DEF StartValidate, Goto, At
  <2>2. req'[h] = [req[h] EXCEPT !.at = "reload"]
      BY <2>1 DEF TypeOK
  <2>3. status'[req[h].conv] = Updated(status[req[h].conv], req[h].status, "validated")
      BY <1>0, <2>1 DEF SetStatus, TypeOK
  <2>4. status'[req[h].conv] = "validated"
      BY <2>1, <2>3 DEF View, Updated
  <2> QED
      BY <2>1, <2>2, <2>4 DEF View, Request
<1>3. CASE StartReload(h)
  <2> DEFINE c == req[h].conv
  <2>1. req'[h] = [req[h] EXCEPT !.at = "commit", !.status = status[c],
                                 !.draft = draft[c], !.locked = locked[c]]
      BY <1>3 DEF StartReload, TypeOK
  <2>2. req[h].at = "reload" /\ UNCHANGED row
      BY <1>3 DEF StartReload, At
  <2> QED
      BY <2>1, <2>2 DEF View, Request, row
<1>4. CASE Commit(h)
    BY <1>4, FinishEffect
       DEF Commit, CommitStart, CommitPause, CommitResume, CommitEnd, CommitValidate,
           CommitUpdate, CommitMessage
<1> QED
    BY <1>1, <1>2, <1>3, <1>4 DEF Moves

LEMMA StepSnapshots ==
    ASSUME TypeOK, HandlersKnow, Overlaps, Snapshots, [Next]_vars
    PROVE  Snapshots'
<1> SUFFICES ASSUME NEW g \in Handlers, req'[g] # Idle, Alone(req[g].conv)'
             PROVE  View(req[g])'
    BY ViewsAreSnapshots DEF Snapshots, View, Serving
<1>1. ASSUME req'[g] = req[g] PROVE Alone(req[g].conv) /\ View(req[g])
    BY <1>1, StepOverlaps DEF Alone, Snapshots, View, Serving
<1>2. ASSUME NEW h \in Handlers, Moves(h) PROVE View(req[g])'
  <2>1. CASE g = h
    <3>1. req[h] # Idle /\ req[h] \in Request /\ met' = met /\ req'[h].conv = req[h].conv
        BY <1>2, <2>1, MovesLocally
    <3>2. View(req[h])
        BY <2>1, <3>1 DEF Alone, Snapshots, View, Serving
    <3> QED
        BY <1>2, <2>1, <3>1, <3>2, MovedView
  <2>2. CASE g # h
    <3>1. req'[g] = req[g] /\ req[h] # Idle /\ met' = met
        BY <1>2, <2>2, MovesLocally
    <3>2. req[g].conv # req[h].conv
        BY <2>2, <3>1 DEF Overlaps, Alone, Serving
    <3>3. req[g].conv \in Conversations
        BY <3>1, RequestFields
    <3> QED
        BY <1>1, <1>2, <3>1, <3>2, <3>3, MovesLocally, ViewStays
  <2> QED
      BY <2>1, <2>2
<1>3. ASSUME NEW h \in Handlers, NEW c \in Conversations, NEW o \in Ops, Load(h, c, o)
      PROVE  View(req[g])'
  <2>1. CASE g = h
      BY <1>3, <2>1, LoadedView
  <2>2. CASE g # h
    <3>1. req'[g] = req[g] /\ UNCHANGED row
        BY <1>3, <2>2, LoadEffect DEF Load
    <3> QED
        BY <1>1, <3>1 DEF View, row
  <2> QED
      BY <2>1, <2>2
<1>4. ASSUME NEW c \in Conversations, Create(c) PROVE View(req[g])'
  <2>1. req'[g] = req[g] /\ UNCHANGED <<started, draft, locked>>
      BY <1>4 DEF Create
  <2>2. status'[req[g].conv] = status[req[g].conv]
      BY <1>4, <2>1 DEF Create, HandlersKnow, TypeOK
  <2> QED
      BY <1>1, <2>1, <2>2, ViewStays
<1>5. CASE UNCHANGED vars
    BY <1>1, <1>5 DEF vars, row, View
<1> QED
    BY <1>2, <1>3, <1>4, <1>5, StepKinds DEF Crash

\* Who is alone with a conversation locks the profile it has loaded and
\* validated, edits only before a start, and stores messages while it runs.
LEMMA MoveAlone ==
    ASSUME TypeOK, HandlersKnow, NEW h \in Handlers, Moves(h), View(req[h]),
           NEW c \in Conversations, req[h].conv = c,
           started[c] => locked[c] = draft[c],
           locked[c] \in Valid \cup {NoProfile}, ~late[c]
    PROVE  /\ started'[c] => locked'[c] = draft'[c]
           /\ locked'[c] \in Valid \cup {NoProfile}
           /\ ~late'[c]
<1>1. CASE CommitStart(h)
  <2>1. /\ req[h].op = "start" /\ req[h].at = "commit"
        /\ locked' = [locked EXCEPT ![c] = Updated(locked[c], req[h].locked, req[h].draft)]
        /\ UNCHANGED <<draft, late>>
      BY <1>1 DEF CommitStart, Committing, At
  <2>2. locked'[c] = Updated(locked[c], req[h].locked, req[h].draft)
      BY <2>1 DEF TypeOK
  <2>3. locked'[c] = draft[c] /\ draft[c] \in Valid
      BY <2>1, <2>2 DEF View, Updated
  <2> QED
      BY <2>1, <2>3
<1>2. CASE CommitUpdate(h)
  <2>1. ~started[c] /\ UNCHANGED <<started, locked, late>>
      BY <1>2 DEF CommitUpdate, Committing, At, View
  <2> QED
      BY <2>1
<1>3. CASE CommitMessage(h)
  <2>1. /\ status[c] = "running" /\ UNCHANGED row
        /\ late' = [late EXCEPT ![c] = late[c] \/ status[c] # "running"]
      BY <1>3 DEF CommitMessage, Committing, At, View
  <2> QED
      BY <2>1 DEF row, TypeOK
<1>4. CASE ~CommitStart(h) /\ ~CommitUpdate(h) /\ ~CommitMessage(h)
  <2>1. UNCHANGED <<started, draft, locked, late>>
      BY <1>4 DEF Moves, CheckOthers, StartValidate, StartReload, Commit, CommitPause,
                  CommitResume, CommitEnd, CommitValidate, row
  <2> QED
      BY <2>1
<1> QED
    BY <1>1, <1>2, <1>3, <1>4

LEMMA StepAlone ==
    ASSUME TypeOK, HandlersKnow, Overlaps, Snapshots, [Next]_vars,
           ProfileLocked, LockedProfileIsValid, MessagesOnlyWhileRunning
    PROVE  ProfileLocked' /\ LockedProfileIsValid' /\ MessagesOnlyWhileRunning'
<1> SUFFICES ASSUME NEW c \in Conversations, Alone(c)'
             PROVE  /\ started'[c] => locked'[c] = draft'[c]
                    /\ locked'[c] \in Valid \cup {NoProfile}
                    /\ ~late'[c]
    BY DEF ProfileLocked, LockedProfileIsValid, MessagesOnlyWhileRunning
<1>1. Alone(c)
    BY StepOverlaps DEF Alone
<1>2. /\ started[c] => locked[c] = draft[c]
      /\ locked[c] \in Valid \cup {NoProfile}
      /\ ~late[c]
    BY <1>1 DEF ProfileLocked, LockedProfileIsValid, MessagesOnlyWhileRunning
<1>3. ASSUME NEW h \in Handlers, Moves(h)
      PROVE  /\ started'[c] => locked'[c] = draft'[c]
             /\ locked'[c] \in Valid \cup {NoProfile}
             /\ ~late'[c]
  <2>1. CASE req[h].conv # c
      BY <1>2, <1>3, <2>1, MovesLocally
  <2>2. CASE req[h].conv = c
    <3>1. View(req[h])
        BY <1>1, <1>3, <2>2, MovesLocally DEF Snapshots, View, Serving
    <3> QED
        BY <1>2, <1>3, <2>2, <3>1, MoveAlone
  <2> QED
      BY <2>1, <2>2
<1>4. CASE UNCHANGED <<started, draft, locked, late>>
    BY <1>2, <1>4
<1> QED
    BY <1>3, <1>4, StepKinds DEF Load, Create, Crash, vars, row

\* Only validate takes a conversation out of ended when nobody else is at it.
LEMMA StepEnded ==
    ASSUME TypeOK, HandlersKnow, RanMeansLocked, Snapshots, [Next]_vars,
           NEW c \in Conversations, status[c] = "ended", status'[c] # "ended", Alone(c)
    PROVE  \E h \in Serving : req[h].conv = c /\ req[h].op = "validate"
<1>1. ASSUME NEW h \in Handlers, Moves(h)
      PROVE  \E k \in Serving : req[k].conv = c /\ req[k].op = "validate"
  <2>1. req[h].conv = c /\ h \in Serving
      BY <1>1, MovesLocally DEF Serving
  <2>2. View(req[h])
      BY <2>1 DEF Snapshots, View, Serving
  <2>3. started[c]
      BY DEF RanMeansLocked
  <2>4. ~StartValidate(h)
      BY <2>1, <2>2 DEF StartValidate, At, View, From
  <2>5. ~CommitStart(h) /\ ~CommitPause(h) /\ ~CommitResume(h) /\ ~CommitEnd(h)
        /\ ~CommitUpdate(h)
      BY <2>1, <2>2, <2>3
         DEF CommitStart, CommitPause, CommitResume, CommitEnd, CommitUpdate, Committing,
             At, View, From
  <2>6. CASE CommitValidate(h)
      BY <2>1, <2>6 DEF CommitValidate, Committing
  <2> QED
      BY <1>1, <2>4, <2>5, <2>6
         DEF Moves, Commit, CheckOthers, StartReload, CommitMessage, row
<1> QED
    BY <1>1, StepKinds DEF Load, Create, Crash, vars, row, TypeOK
-----------------------------------------------------------------------------
LEMMA InitInvariant == Init => IInv
<1> SUFFICES ASSUME Init PROVE IInv
    OBVIOUS
<1>1. Candidates = {}
    BY DEF Init, Candidates, Active, Pending
<1>2. Cardinality(Handlers) \in Nat
    BY CatalogAssumption, FS_CardinalityType
<1>3. CandidatesBounded
    BY <1>1, <1>2, FS_EmptySet DEF CandidatesBounded
<1>4. RanMeansLocked /\ HandlersKnow
    BY DEF Init, RanMeansLocked, HandlersKnow
<1>5. Overlaps /\ CandidatesMet /\ Snapshots
    BY <1>1 DEF Init, Overlaps, CandidatesMet, Snapshots, Serving
<1>6. ProfileLocked /\ LockedProfileIsValid /\ MessagesOnlyWhileRunning
    BY DEF Init, ProfileLocked, LockedProfileIsValid, MessagesOnlyWhileRunning
<1> QED
    BY <1>3, <1>4, <1>5, <1>6, InitTypes DEF IInv

\* The types, the bound on candidates, who has met whom and what requests know of
\* the rows they have loaded are an inductive invariant.
THEOREM Invariance == Spec => []IInv
<1>1. IInv /\ [Next]_vars => IInv'
    BY StepTypes, StepCandidates, StepRanMeansLocked, StepHandlersKnow, StepOverlaps,
       StepCandidatesMet, StepSnapshots, StepAlone DEF IInv
<1> QED
    BY <1>1, InitInvariant, PTL DEF Spec

\* Rows and requests have their types.
THEOREM TypeCorrect == Spec => []TypeOK
<1>1. IInv => TypeOK
    BY DEF IInv
<1> QED
    BY <1>1, Invariance, PTL

\* A conversation that is running, paused or ended has its start time and its
\* locked profile, although all updates race.
THEOREM RanLocked == Spec => []RanMeansLocked
<1>1. IInv => RanMeansLocked
    BY DEF IInv
<1> QED
    BY <1>1, Invariance, PTL

\* There are never more active conversations than requests served at a time.
THEOREM ActiveLimited == Spec => []ActiveBounded
<1>1. IInv => ActiveBounded
  <2> SUFFICES ASSUME IInv PROVE ActiveBounded
      OBVIOUS
  <2>1. Active \in SUBSET Candidates
      BY DEF Candidates
  <2>2. IsFiniteSet(Candidates) /\ Cardinality(Candidates) <= Cardinality(Handlers)
      BY DEF IInv, CandidatesBounded
  <2>3. IsFiniteSet(Active) /\ Cardinality(Active) <= Cardinality(Candidates)
      BY <2>1, <2>2, FS_Subset
  <2>4. /\ Cardinality(Active) \in Nat /\ Cardinality(Candidates) \in Nat
        /\ Cardinality(Handlers) \in Nat
      BY <2>2, <2>3, CatalogAssumption, FS_CardinalityType
  <2> QED
      BY <2>2, <2>3, <2>4 DEF ActiveBounded
<1> QED
    BY <1>1, Invariance, PTL

\* Two conversations are running or paused only when requests for these two have
\* overlapped.
THEOREM OneActiveUnlessMet == Spec => []OneActive
<1>1. IInv => OneActive
    BY DEF IInv, CandidatesMet, Candidates, OneActive
<1> QED
    BY <1>1, Invariance, PTL

\* Without an overlapping request for the conversation its profile stays what was
\* locked.
THEOREM ProfileStaysLocked == Spec => []ProfileLocked
<1>1. IInv => ProfileLocked
    BY DEF IInv
<1> QED
    BY <1>1, Invariance, PTL

\* Nor is a profile locked that has not been validated.
THEOREM LockedIsValid == Spec => []LockedProfileIsValid
<1>1. IInv => LockedProfileIsValid
    BY DEF IInv
<1> QED
    BY <1>1, Invariance, PTL

\* Nor is a message stored while the conversation is not running.
THEOREM MessagesWhileRunning == Spec => []MessagesOnlyWhileRunning
<1>1. IInv => MessagesOnlyWhileRunning
    BY DEF IInv
<1> QED
    BY <1>1, Invariance, PTL

\* An ended conversation stays ended, unless it is validated again or requests
\* for it overlap.
THEOREM EndedIsFinal == Spec => EndedStaysEnded
<1> DEFINE A == \A c \in Conversations :
                    status[c] = "ended" /\ status'[c] # "ended" /\ Alone(c) =>
                        \E h \in Serving : req[h].conv = c /\ req[h].op = "validate"
<1>1. IInv /\ [Next]_vars => [A]_vars
    BY StepEnded DEF IInv
<1>2. Spec => [][A]_vars
    BY <1>1, Invariance, PTL DEF Spec
<1> QED
    BY <1>2 DEF EndedStaysEnded
=============================================================================
