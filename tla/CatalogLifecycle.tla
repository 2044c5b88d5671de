-------------------------- MODULE CatalogLifecycle --------------------------
(***************************************************************************)
(* The rows of conversations and the requests that move them through their *)
(* lifecycle (services.py and the handlers of app.py).  Every request has  *)
(* a session of its own: it loads the row with one SELECT, decides, and    *)
(* writes with an UPDATE in a later transaction, without a version check.  *)
(* The UPDATE names only the columns whose value differs from the loaded   *)
(* one.  A refused request changes nothing and is left out, unless it has  *)
(* written before.                                                         *)
(***************************************************************************)
EXTENDS Naturals, FiniteSets

CONSTANTS
    Conversations,
    Handlers,    \* requests that can be served at the same time
    Profiles,    \* versions of a draft profile
    Valid,       \* those validate_profile accepts
    NoProfile,   \* NULL
    Idle         \* a handler without a request

VARIABLES
    status,    \* "absent" before the row is inserted
    started,   \* started_at is set
    ended,     \* ended_at is set
    draft,     \* draft_profile_json
    locked,    \* locked_profile_json, with profile_hash
    late,      \* a message was stored while the conversation was not running
    met,       \* {c, d} when requests for c and d were served at the same time
    req        \* the request a handler serves, with the row it has loaded

row == <<status, started, ended, draft, locked>>
vars == <<row, late, met, req>>
-----------------------------------------------------------------------------
Statuses == {"draft", "validated", "running", "paused", "ended"}
Active == {c \in Conversations : status[c] \in {"running", "paused"}}
Serving == {h \in Handlers : req[h] # Idle}

\* TRANSITION_RULES of the actions that check them
From == [start |-> {"draft", "validated"}, pause |-> {"running"},
         resume |-> {"paused"}, end |-> {"running", "paused"}]
Ops == {"start", "pause", "resume", "end", "validate", "update", "message"}

Request == [op : Ops, conv : Conversations,
            at : {"check", "validate", "reload", "commit"},
            status : Statuses, draft : Profiles, locked : Profiles \cup {NoProfile}]

ASSUME CatalogAssumption ==
    /\ IsFiniteSet(Handlers)
    /\ Valid \subseteq Profiles
    /\ NoProfile \notin Profiles
    /\ Idle \notin Request

TypeOK ==
    /\ status \in [Conversations -> Statuses \cup {"absent"}]
    /\ started \in [Conversations -> BOOLEAN]
    /\ ended \in [Conversations -> BOOLEAN]
    /\ draft \in [Conversations -> Profiles]
    /\ locked \in [Conversations -> Profiles \cup {NoProfile}]
    /\ late \in [Conversations -> BOOLEAN]
    /\ met \subseteq SUBSET Conversations
    /\ req \in [Handlers -> Request \cup {Idle}]

Init ==
    /\ status = [c \in Conversations |-> "absent"]
    /\ started = [c \in Conversations |-> FALSE]
    /\ ended = [c \in Conversations |-> FALSE]
    /\ draft \in [Conversations -> Profiles]
    /\ locked = [c \in Conversations |-> NoProfile]
    /\ late = [c \in Conversations |-> FALSE]
    /\ met = {}
    /\ req = [h \in Handlers |-> Idle]
-----------------------------------------------------------------------------
\* The value of a column after the UPDATE of a session that loaded old and
\* assigned new: an assignment that changes nothing is not in the UPDATE.
Updated(column, old, new) == IF new = old THEN column ELSE new

SetStatus(h, new) ==
    status' = [status EXCEPT ![req[h].conv] = Updated(@, req[h].status, new)]

At(h, where) == req[h] # Idle /\ req[h].at = where
Goto(h, where) == req' = [req EXCEPT ![h].at = where]
Finish(h) == req' = [req EXCEPT ![h] = Idle]

Committing(h, o) == At(h, "commit") /\ req[h].op = o

Create(c) ==
    /\ status[c] = "absent"
    /\ status' = [status EXCEPT ![c] = "draft"]
    /\ UNCHANGED <<started, ended, draft, locked, late, met, req>>

\* Mutant: the actions do not look at the current status.
AllowedAnywhere(o, c) ==
    CASE o = "update" -> ~started[c]
      [] o = "message" -> status[c] = "running"
      [] OTHER -> TRUE

\* Mutant: a draft can be replaced until the conversation runs.
AllowedUpdate(o, c) ==
    CASE o \in DOMAIN From -> status[c] \in From[o]
      [] o = "update" -> status[c] # "running"
      [] o = "message" -> status[c] = "running"
      [] OTHER -> TRUE

\* Mutant: a paused conversation takes messages.
AllowedPaused(o, c) ==
    CASE o \in DOMAIN From -> status[c] \in From[o]
      [] o = "update" -> ~started[c]
      [] o = "message" -> status[c] \in {"running", "paused"}
      [] OTHER -> TRUE

\* ensure_transition_allowed, the check of started_at in update_draft_profile,
\* ensure_conversation_write_allowed; validate_conversation checks nothing.
Allowed(o, c) ==
    CASE o \in DOMAIN From -> status[c] \in From[o]
      [] o = "update" -> ~started[c]
      [] o = "message" -> status[c] = "running"
      [] OTHER -> TRUE

\* A request loads its conversation and passes the checks on that row.
Load(h, c, o) ==
    /\ req[h] = Idle
    /\ status[c] # "absent"
    /\ Allowed(o, c)
    /\ req' = [req EXCEPT ![h] =
                  [op |-> o, conv |-> c,
                   at |-> IF o \in {"start", "resume"} THEN "check" ELSE "commit",
                   status |-> status[c], draft |-> draft[c], locked |-> locked[c]]]
    /\ met' = met \cup {{c, req[g].conv} : g \in Serving}
    /\ UNCHANGED <<row, late>>

\* Mutant: only running conversations count as active.
ActiveElsewhereRunning(h) == \E c \in Active \ {req[h].conv} : status[c] = "running"

ActiveElsewhere(h) == Active \ {req[h].conv} # {}

\* ensure_no_other_active_conversation, for start and resume
CheckOthers(h) ==
    /\ At(h, "check")
    /\ IF ActiveElsewhere(h) THEN Finish(h)
       ELSE Goto(h, IF req[h].op = "start" THEN "validate" ELSE "commit")
    /\ UNCHANGED <<row, late, met>>

\* Mutant: start goes on whatever validation says.
StartValidateAlways(h) ==
    /\ At(h, "validate")
    /\ SetStatus(h, "validated")
    /\ Goto(h, "reload")
    /\ UNCHANGED <<started, ended, draft, locked, late, met>>

\* start_conversation validates the profile it has loaded, in a transaction of
\* its own.
StartValidate(h) ==
    /\ At(h, "validate")
    /\ IF req[h].draft \in Valid
       THEN SetStatus(h, "validated") /\ Goto(h, "reload")
       ELSE UNCHANGED status /\ Finish(h)
    /\ UNCHANGED <<started, ended, draft, locked, late, met>>

\* That commit has expired the session's row; the next access selects it anew.
StartReload(h) ==
    LET c == req[h].conv IN
    /\ At(h, "reload")
    /\ req' = [req EXCEPT ![h].at = "commit", ![h].status = status[c],
                          ![h].draft = draft[c], ![h].locked = locked[c]]
    /\ UNCHANGED <<row, late, met>>

CommitStart(h) ==
    LET c == req[h].conv IN
    /\ Committing(h, "start")
    /\ SetStatus(h, "running")
    /\ started' = [started EXCEPT ![c] = TRUE]
    /\ locked' = [locked EXCEPT ![c] = Updated(@, req[h].locked, req[h].draft)]
    /\ Finish(h)
    /\ UNCHANGED <<ended, draft, late, met>>

CommitPause(h) ==
    /\ Committing(h, "pause")
    /\ SetStatus(h, "paused")
    /\ Finish(h)
    /\ UNCHANGED <<started, ended, draft, locked, late, met>>

CommitResume(h) ==
    /\ Committing(h, "resume")
    /\ SetStatus(h, "running")
    /\ Finish(h)
    /\ UNCHANGED <<started, ended, draft, locked, late, met>>

CommitEnd(h) ==
    /\ Committing(h, "end")
    /\ SetStatus(h, "ended")
    /\ ended' = [ended EXCEPT ![req[h].conv] = TRUE]
    /\ Finish(h)
    /\ UNCHANGED <<started, draft, locked, late, met>>

CommitValidate(h) ==
    /\ Committing(h, "validate")
    /\ IF req[h].draft \in Valid THEN SetStatus(h, "validated") ELSE UNCHANGED status
    /\ Finish(h)
    /\ UNCHANGED <<started, ended, draft, locked, late, met>>

CommitUpdate(h) ==
    /\ Committing(h, "update")
    /\ \E p \in Profiles :
           draft' = [draft EXCEPT ![req[h].conv] = Updated(@, req[h].draft, p)]
    /\ SetStatus(h, "draft")
    /\ Finish(h)
    /\ UNCHANGED <<started, ended, locked, late, met>>

\* commit_message does not look at the status again.
CommitMessage(h) ==
    LET c == req[h].conv IN
    /\ Committing(h, "message")
    /\ late' = [late EXCEPT ![c] = @ \/ status[c] # "running"]
    /\ Finish(h)
    /\ UNCHANGED <<row, met>>

\* The server dies with the requests it was serving.
Crash ==
    /\ \E h \in Handlers : req[h] # Idle
    /\ req' = [h \in Handlers |-> Idle]
    /\ UNCHANGED <<row, late, met>>

Commit(h) ==
    \/ CommitStart(h)
    \/ CommitPause(h)
    \/ CommitResume(h)
    \/ CommitEnd(h)
    \/ CommitValidate(h)
    \/ CommitUpdate(h)
    \/ CommitMessage(h)

Next ==
    \/ \E c \in Conversations : Create(c)
    \/ \E h \in Handlers :
           \/ \E c \in Conversations, o \in Ops : Load(h, c, o)
           \/ CheckOthers(h)
           \/ StartValidate(h)
           \/ StartReload(h)
           \/ Commit(h)
    \/ Crash

Spec == Init /\ [][Next]_vars
-----------------------------------------------------------------------------
\* Conversations that are active or that a request is about to make active:
\* it has passed its checks and has yet to write.  A pause can make active what
\* another request has ended in the meantime.
Pending(h) ==
    /\ req[h] # Idle
    /\ req[h].op \in {"start", "resume", "pause"}
    /\ req[h].at # "check"
Candidates == Active \cup {req[h].conv : h \in {g \in Handlers : Pending(g)}}

\* The inductive part: the check of start and resume counts as many
\* conversations as there are requests that have passed it.
CandidatesBounded ==
    IsFiniteSet(Candidates) /\ Cardinality(Candidates) <= Cardinality(Handlers)

\* Requests that overlap can start two conversations, but never more than there
\* are requests at the same time, however long the races go on.
ActiveBounded == Cardinality(Active) <= Cardinality(Handlers)

\* A conversation that has run has its profile locked, whoever raced whom.
RanMeansLocked ==
    \A c \in Conversations :
        status[c] \in {"running", "paused", "ended"} => started[c] /\ locked[c] # NoProfile

\* The strengthening of RanMeansLocked: what a handler has loaded about its
\* conversation is still so when it writes, although the status may not be.
HandlersKnow ==
    \A h \in Handlers : req[h] # Idle =>
        LET c == req[h].conv IN
        /\ status[c] # "absent"
        /\ req[h].op \in {"pause", "resume", "end"} => started[c]
        /\ req[h].op \in {"pause", "resume", "end"} \/ req[h].locked # NoProfile =>
               locked[c] # NoProfile

\* No two requests for c have been served at the same time.
Alone(c) == {c} \notin met

\* services.py:578: "Only one conversation may be running or paused at a time."
\* Two are active together only after requests for these two overlapped, which
\* the check of a start or resume does not exclude.
OneActive == \A c, d \in Active : c # d => {c, d} \in met

\* services.py:536: "Profile is locked after start."  Only an edit that overlaps
\* a start can make the draft differ from what is locked.
ProfileLocked ==
    \A c \in Conversations : Alone(c) /\ started[c] => locked[c] = draft[c]

\* What runs has been validated: start validates and locks one and the same
\* profile, although it reads it twice.
LockedProfileIsValid ==
    \A c \in Conversations : Alone(c) => locked[c] \in Valid \cup {NoProfile}

\* app.py:365: "Conversation must be running before accepting messages."
MessagesOnlyWhileRunning == \A c \in Conversations : Alone(c) => ~late[c]

\* app.py:360: "Ended conversations are read-only."  TRANSITION_RULES leads
\* nowhere from ended.  What does lead out of it is validate, or requests that
\* overlap.
EndedStaysEnded ==
    [][\A c \in Conversations :
          status[c] = "ended" /\ status'[c] # "ended" /\ Alone(c) =>
              \E h \in Serving : req[h].conv = c /\ req[h].op = "validate"]_vars

\* Why these hold: requests for one conversation that overlap have met, so a
\* request that is alone with its conversation sees the row as it has loaded it,
\* and the row still allows what it is about to do.
Overlaps ==
    \A g, h \in Serving : g # h => {req[g].conv, req[h].conv} \in met
CandidatesMet == \A c, d \in Candidates : c # d => {c, d} \in met
Snapshots ==
    \A h \in Serving : Alone(req[h].conv) =>
        LET r == req[h]  c == r.conv IN
        /\ r.at # "reload" =>
              status[c] = r.status /\ draft[c] = r.draft /\ locked[c] = r.locked
        /\ r.at \in {"validate", "reload"} => r.op = "start"
        /\ r.op = "start" =>
              status[c] \in IF r.at \in {"check", "validate"} THEN From.start ELSE {"validated"}
        /\ r.op = "start" /\ r.at \in {"reload", "commit"} => draft[c] \in Valid
        /\ r.op \in {"pause", "resume", "end"} => status[c] \in From[r.op]
        /\ r.op = "update" => ~started[c]
        /\ r.op = "message" => status[c] = "running"

IInv ==
    /\ TypeOK
    /\ CandidatesBounded
    /\ RanMeansLocked
    /\ HandlersKnow
    /\ Overlaps
    /\ CandidatesMet
    /\ Snapshots
    /\ ProfileLocked
    /\ LockedProfileIsValid
    /\ MessagesOnlyWhileRunning
=============================================================================
