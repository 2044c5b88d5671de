------------------------------ MODULE BrowserView ------------------------------
(***************************************************************************)
(* The web client (apps/web/src/App.tsx, state.ts): what it shows of the   *)
(* conversations, the socket on which events come in, the loads that       *)
(* replace the whole view, and the timers that reconnect.  The scripts of  *)
(* a page run one after the other; a step here is one event of the page    *)
(* with the effects that React runs because of it.                         *)
(*                                                                         *)
(* The server is its environment: it stores messages and publishes them in *)
(* order (OutboxDispatch has why), and a new socket gets a snapshot, a     *)
(* replay and, from its registration on, what is published.                *)
(***************************************************************************)
EXTENDS Integers, Sequences, FiniteSets

CONSTANTS
    Conversations,
    First,          \* the one that is selected when the page opens
    NoConversation,
    Stored,         \* how many messages there are when the page opens
    MaxMessages,    \* bound: messages in a conversation
    MaxLoads,       \* bound: loads under way at the same time
    MaxActs         \* bound: acts of the user and failures of the network

ASSUME BrowserAssumption ==
    /\ First \in Conversations /\ NoConversation \notin Conversations
    /\ Stored \in [Conversations -> 0 .. MaxMessages]
    /\ MaxMessages \in Nat /\ MaxLoads \in Nat /\ MaxActs \in Nat

VARIABLES
    log,        \* how many messages a conversation has
    published,  \* how many of them have been published
    selected,   \* selectedConversationId
    shown,      \* conversation: whose details were loaded last
    view,       \* runtimeState.messages: conversation and number
    latest,     \* runtimeState.latestSeq
    seen,       \* runtimeState.seenEventIds: of the message events
    review,     \* reviewState is set
    resync,     \* needsReviewResync
    sock,       \* the socket of socketRef
    dying,      \* sockets closed by the page whose close event is to come
    timer,      \* the timer in reconnectTimerRef, by the conversation it loads
    strays,     \* timers that were overwritten there and run on
    loads,      \* refreshConversation calls under way
    failed,     \* history: a load failed, and none has been answered since
    acts        \* how many acts and failures there have been

backend == <<log, published>>
state == <<view, latest, seen>>
pageVars == <<backend, selected, shown, state, review, resync, sock, dying, timer, strays,
              loads, failed, acts>>
-----------------------------------------------------------------------------
Message == Conversations \X (1 .. MaxMessages)
Messages(c, n) == {c} \X (1 .. n)

Unread == -1
Load == [conv : Conversations, got : {Unread} \cup 0 .. MaxMessages]
NewLoad(c) == [conv |-> c, got |-> Unread]

Event == [type : {"snapshot"}, upto : 0 .. MaxMessages]
         \cup [type : {"message"}, message : Message]

\* How far the handler of the socket has come.  "lost": the connection is gone.
Socket == [conv : Conversations, after : 0 .. MaxMessages,
           at : {"opening", "registered", "live", "lost"},
           stream : Seq(Event)]
NewSocket(c, after) == [conv |-> c, after |-> after, at |-> "opening", stream |-> <<>>]

PageTypeOK ==
    /\ log \in [Conversations -> 0 .. MaxMessages]
    /\ published \in [Conversations -> 0 .. MaxMessages]
    /\ selected \in Conversations
    /\ shown \in Conversations \cup {NoConversation}
    /\ view \subseteq Message /\ latest \in 0 .. MaxMessages /\ seen \subseteq Message
    /\ review \in BOOLEAN /\ resync \in BOOLEAN
    /\ sock \in Socket
    /\ dying \subseteq Conversations
    /\ timer \in Conversations \cup {NoConversation}
    /\ strays \subseteq Conversations
    /\ loads \subseteq Load
    /\ failed \in BOOLEAN
    /\ acts \in 0 .. MaxActs

\* The page has selected a conversation; both of its effects have run.
PageInit ==
    /\ log = Stored /\ published = Stored
    /\ selected = First /\ shown = NoConversation
    /\ view = {} /\ latest = 0 /\ seen = {}
    /\ review = FALSE /\ resync = FALSE
    /\ sock = NewSocket(First, 0)
    /\ dying = {} /\ timer = NoConversation /\ strays = {}
    /\ loads = {NewLoad(First)}
    /\ failed = FALSE
    /\ acts = 0
-----------------------------------------------------------------------------
(* The server *)

Commit(c) ==
    /\ log[c] < MaxMessages
    /\ log' = [log EXCEPT ![c] = @ + 1]
    /\ UNCHANGED <<published, selected, shown, state, review, resync, sock, dying, timer,
                   strays, loads, acts, failed>>

Send(event) == sock' = [sock EXCEPT !.stream = Append(@, event)]

Publish(c) ==
    /\ published[c] < log[c]
    /\ published' = [published EXCEPT ![c] = @ + 1]
    /\ IF sock.conv = c /\ sock.at \in {"registered", "live"}
       THEN Send([type |-> "message", message |-> <<c, published[c] + 1>>])
       ELSE UNCHANGED sock
    /\ UNCHANGED <<log, selected, shown, state, review, resync, dying, timer, strays, loads,
                   acts, failed>>

\* conversation_socket: connect and session_snapshot.  A live event between the
\* two changes nothing, as the snapshot only raises a number.
Register ==
    /\ sock.at = "opening"
    /\ sock' = [sock EXCEPT !.at = "registered",
                            !.stream = <<[type |-> "snapshot", upto |-> log[sock.conv]]>>]
    /\ UNCHANGED <<backend, selected, shown, state, review, resync, dying, timer, strays, loads,
                   acts, failed>>

\* replay_events
Replay ==
    LET missed == log[sock.conv] - sock.after
        events == [i \in 1 .. (IF missed > 0 THEN missed ELSE 0) |->
                      [type |-> "message", message |-> <<sock.conv, sock.after + i>>]]
    IN
    /\ sock.at = "registered"
    /\ sock' = [sock EXCEPT !.at = "live", !.stream = @ \o events]
    /\ UNCHANGED <<backend, selected, shown, state, review, resync, dying, timer, strays, loads,
                   acts, failed>>

\* A load reads the messages that are stored at that moment.
LoadReads(l) ==
    /\ l.got = Unread
    /\ loads' = (loads \ {l}) \cup {[l EXCEPT !.got = log[l.conv]]}
    /\ UNCHANGED <<backend, selected, shown, state, review, resync, sock, dying, timer, strays,
                   acts, failed>>
-----------------------------------------------------------------------------
(* The effect that owns the socket *)

\* The effect runs again: its cleanup clears the timer and closes the socket,
\* whose close event is still to come; a socket for the selected conversation is
\* opened behind the last number.
Reopen(c, after) ==
    /\ dying' = IF sock.at = "lost" THEN dying ELSE dying \cup {sock.conv}
    /\ timer' = NoConversation
    /\ sock' = NewSocket(c, after)

\* refreshConversation is called.
CanLoad == Cardinality(loads) < MaxLoads
Loads(c) == CanLoad /\ loads' = loads \cup {NewLoad(c)}

\* The close handler sets a timer, whoever closed the socket.
Closed(c) ==
    /\ timer' = c
    /\ strays' = IF timer = NoConversation THEN strays ELSE strays \cup {timer}

\* The close event of a socket that the cleanup has closed.
CloseEvent(c) ==
    /\ c \in dying
    /\ dying' = dying \ {c}
    /\ Closed(c)
    /\ UNCHANGED <<backend, selected, shown, state, review, resync, sock, loads, acts, failed>>

\* Mutant: the gap is left to the replay.
TimerFiresWithoutLoad(c) ==
    /\ c = timer \/ c \in strays
    /\ Reopen(selected, latest)
    /\ strays' = IF c = timer THEN strays ELSE strays \ {c}
    /\ UNCHANGED <<backend, selected, shown, state, review, resync, loads, acts, failed>>

\* Five seconds later: a load, of the conversation that the handler was made for,
\* and a new socket, of the one that is selected.
TimerFires(c) ==
    /\ c = timer \/ c \in strays
    /\ Loads(c)
    /\ Reopen(selected, latest)
    /\ strays' = IF c = timer THEN strays ELSE strays \ {c}
    /\ UNCHANGED <<backend, selected, shown, state, review, resync, acts, failed>>
-----------------------------------------------------------------------------
(* What comes in *)

\* applySocketPayload for a message
Apply(message) ==
    /\ seen' = seen \cup {message}
    /\ IF review \/ message \in seen THEN UNCHANGED <<view, latest>>
       ELSE /\ view' = view \cup {message}
            /\ latest' = IF message[2] > latest THEN message[2] ELSE latest

Receive ==
    /\ sock.stream # <<>>
    /\ LET event == Head(sock.stream) IN
       IF event.type = "snapshot"
       THEN /\ latest' = IF event.upto > latest THEN event.upto ELSE latest
            /\ UNCHANGED <<view, seen>>
       ELSE Apply(event.message)
    /\ sock' = [sock EXCEPT !.stream = Tail(@)]
    /\ resync' = (resync \/ review)
    /\ UNCHANGED <<backend, selected, shown, review, dying, timer, strays, loads, acts, failed>>

\* The answer to a load: syncRuntimeConversation replaces everything, whatever is
\* selected by now.  Another conversation has another archive, on which the effect
\* of the socket depends.
LoadAnswers(l) ==
    /\ l \in loads /\ l.got # Unread
    /\ loads' = loads \ {l}
    /\ shown' = l.conv
    /\ view' = Messages(l.conv, l.got)
    /\ latest' = l.got
    /\ seen' = {}
    /\ failed' = FALSE
    /\ IF l.conv # shown THEN Reopen(selected, l.got) ELSE UNCHANGED <<sock, dying, timer>>
    /\ UNCHANGED <<backend, selected, review, resync, strays, acts>>
-----------------------------------------------------------------------------
(* The user and the network *)

Act == acts < MaxActs /\ acts' = acts + 1

\* handleConversationSelect and its two effects
Select(c) ==
    /\ Act
    /\ c # selected
    /\ selected' = c
    /\ Loads(c)
    /\ Reopen(c, latest)
    /\ UNCHANGED <<backend, shown, state, review, resync, strays, failed>>

\* After a message was sent or an action was taken, the shown conversation is
\* loaded.
Refresh ==
    /\ Act
    /\ shown # NoConversation
    /\ Loads(shown)
    /\ UNCHANGED <<backend, selected, shown, state, review, resync, sock, dying, timer, strays,
                   failed>>

EnterReview ==
    /\ Act
    /\ ~review /\ shown # NoConversation
    /\ review' = TRUE
    /\ Reopen(selected, latest)
    /\ UNCHANGED <<backend, selected, shown, state, resync, strays, loads, failed>>

\* Mutant: what was dropped is not loaded.
ExitReviewAsItIs ==
    /\ review
    /\ review' = FALSE /\ resync' = FALSE
    /\ Reopen(selected, latest)
    /\ UNCHANGED <<backend, selected, shown, state, strays, loads, acts, failed>>

\* exitReview
ExitReview ==
    /\ review
    /\ review' = FALSE /\ resync' = FALSE
    /\ IF resync THEN Loads(selected) ELSE UNCHANGED loads
    /\ Reopen(selected, latest)
    /\ UNCHANGED <<backend, selected, shown, state, strays, acts, failed>>

\* The connection breaks; events under way are lost.
Disconnect ==
    /\ Act
    /\ sock.at # "lost"
    /\ sock' = [sock EXCEPT !.at = "lost", !.stream = <<>>]
    /\ Closed(sock.conv)
    /\ UNCHANGED <<backend, selected, shown, state, review, resync, dying, loads, failed>>

\* The error is swallowed or shown; nobody tries again.
LoadFails(l) ==
    /\ Act
    /\ loads' = loads \ {l}
    /\ failed' = TRUE
    /\ UNCHANGED <<backend, selected, shown, state, review, resync, sock, dying, timer, strays>>
-----------------------------------------------------------------------------
PageNext ==
    \/ \E c \in Conversations : Commit(c) \/ Publish(c) \/ Select(c)
                                \/ CloseEvent(c) \/ TimerFires(c)
    \/ Register \/ Replay \/ Receive
    \/ \E l \in loads : LoadReads(l) \/ LoadAnswers(l) \/ LoadFails(l)
    \/ Refresh \/ EnterReview \/ ExitReview \/ Disconnect

PageSpec == PageInit /\ [][PageNext]_pageVars

\* The server answers, and the browser delivers close events and timers.
FairPageSpec ==
    /\ PageSpec
    /\ WF_pageVars(Register \/ Replay) /\ WF_pageVars(Receive)
    /\ \A c \in Conversations : /\ WF_pageVars(Publish(c)) /\ WF_pageVars(CloseEvent(c))
                                /\ SF_pageVars(TimerFires(c))
    /\ \A l \in Load : WF_pageVars(l \in loads /\ (LoadReads(l) \/ LoadAnswers(l)))
-----------------------------------------------------------------------------
Complete == shown = selected /\ view = Messages(selected, log[selected])

\* A client that goes on reconnecting repairs whatever it has lost or never asked
\* for, by snapshots that move latestSeq ahead, broken sockets, replays from a
\* wrong place, loads that fail or answer late, and changes of the selection: it
\* ends up with the whole of the selected conversation and stays there.  It goes
\* on reconnecting once the close event of a socket that the page has closed
\* itself has set a timer; without that, each of these losses can stay.
CatchesUp == []<>(timer = selected) => <>[]Complete

\* The id of an event that was dropped in a review does not keep its message out
\* later: outside of a review, an event that counts as seen is in the view, or a
\* load that forgets what was seen is under way or has failed.
SeenIsShown ==
    ~review /\ loads = {} /\ ~failed => seen \subseteq view
=============================================================================
