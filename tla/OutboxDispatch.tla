--------------------------- MODULE OutboxDispatch ---------------------------
(***************************************************************************)
(* How events reach browsers.  A handler writes rows of outbox_events in   *)
(* the transaction of what they announce and signals the dispatcher after  *)
(* the commit.  The dispatcher thread (outbox_dispatcher.py) takes the     *)
(* signalled conversations, publishes their pending rows to the registered *)
(* sockets inside a transaction and marks the rows when it commits.  The   *)
(* handler of a new socket registers it, then sends a replay of the rows   *)
(* after the sequence number the browser has.                              *)
(*                                                                         *)
(* BEGIN IMMEDIATE keeps writers of a conversation out while its rows are  *)
(* being dispatched.  Readers are never blocked.                           *)
(***************************************************************************)
EXTENDS Integers, FiniteSets, Sequences, FiniteSetsExt

CONSTANTS
    Conversations,
    Writers,    \* handlers that write events
    Sockets,    \* browser connections, each used once
    ConvOf,     \* [Sockets -> Conversations]
    NoConv,     \* no conversation is being dispatched
    MaxRows,    \* [Conversations -> Nat]: bound on the rows
    MaxFaults   \* bound on crashes, failed dispatches and lost catalogs

ASSUME OutboxAssumption ==
    /\ ConvOf \in [Sockets -> Conversations]
    /\ NoConv \notin Conversations
    /\ MaxRows \in [Conversations -> Nat]
    /\ MaxFaults \in Nat

VARIABLES
    last,     \* MAX(conversation_seq) of the messages
    rows,     \* conversation_seq of the rows of outbox_events, 0 for NULL
    marked,   \* rows whose dispatched_at is set
    unsent,   \* conversation each writer has committed to and not signalled
    pending,  \* OutboxDispatcher._pending
    batch,    \* what _next_batch returned and _run has not reached
    pc,       \* where the dispatcher thread is
    cur,      \* the conversation it dispatches
    todo,     \* selected rows that are not published yet
    socks,    \* one ws handler and its registration
    faults    \* faults so far

transcript == <<last, rows, marked>>
dispatcher == <<pending, batch, pc, cur, todo>>
vars == <<transcript, unsent, dispatcher, socks, faults>>
-----------------------------------------------------------------------------
Rows(c) == DOMAIN rows[c]

\* A registered socket: the rows handed to it live, and those of its replay,
\* sent one after the other unless it breaks.
Socket == [at : {"away", "registered", "replaying", "gone"}, after : Nat,
           live : SUBSET Nat, replay : SUBSET Nat]
Idle(at, after) == [at |-> at, after |-> after, live |-> {}, replay |-> {}]
Away == Idle("away", 0)
Gone == Idle("gone", 0)
Registered(s) == socks[s].at \in {"registered", "replaying"}

TypeOK ==
    /\ last \in [Conversations -> Nat]
    /\ rows \in [Conversations -> Seq(Nat)]
    /\ marked \in [Conversations -> SUBSET Nat]
    /\ unsent \in [Writers -> Conversations \cup {NoConv}]
    /\ pending \subseteq Conversations
    /\ batch \subseteq Conversations
    /\ pc \in {"wait", "next", "open", "begin", "publish", "observe", "retry", "dead"}
    /\ cur \in Conversations \cup {NoConv}
    /\ todo \subseteq Nat
    /\ socks \in [Sockets -> Socket]
    /\ faults \in Nat

\* Startup signals every conversation that has an archive.
Init ==
    /\ last = [c \in Conversations |-> 0]
    /\ rows = [c \in Conversations |-> <<>>]
    /\ marked = [c \in Conversations |-> {}]
    /\ unsent = [w \in Writers |-> NoConv]
    /\ pending = Conversations /\ batch = {}
    /\ pc = "wait" /\ cur = NoConv /\ todo = {}
    /\ socks = [s \in Sockets |-> Away]
    /\ faults = 0
-----------------------------------------------------------------------------
\* The write lock of the transcript is held from BEGIN IMMEDIATE to the commit.
Dispatching(c) == pc = "publish" /\ cur = c

Write(w, c, new) ==
    /\ unsent[w] = NoConv
    /\ ~Dispatching(c)
    /\ Len(rows[c]) + Len(new) <= MaxRows[c]
    /\ rows' = [rows EXCEPT ![c] = @ \o new]
    /\ unsent' = [unsent EXCEPT ![w] = c]
    /\ UNCHANGED <<marked, dispatcher, socks, faults>>

\* commit_message announces the message and the revision of its projection.
WriteMessage(w, c) ==
    /\ last' = [last EXCEPT ![c] = @ + 1]
    /\ Write(w, c, <<last[c] + 1, last[c] + 1>>)

\* Typing, run updates and guardrails carry no sequence number.  A status post
\* signals whether or not it has queued an event.
WriteNotice(w, c) ==
    /\ \E new \in {<<>>, <<0>>} : Write(w, c, new)
    /\ UNCHANGED last

Signal(w) ==
    /\ unsent[w] # NoConv
    /\ pending' = pending \cup {unsent[w]}
    /\ unsent' = [unsent EXCEPT ![w] = NoConv]
    /\ UNCHANGED <<transcript, batch, pc, cur, todo, socks, faults>>
-----------------------------------------------------------------------------
Fault == faults < MaxFaults /\ faults' = faults + 1

TakeBatch ==
    /\ pc = "wait" /\ pending # {}
    /\ batch' = pending /\ pending' = {}
    /\ pc' = "next"
    /\ UNCHANGED <<transcript, unsent, cur, todo, socks, faults>>

NextOfBatch ==
    /\ pc = "next"
    /\ IF batch = {}
       THEN pc' = "wait" /\ cur' = NoConv /\ UNCHANGED batch
       ELSE \E c \in batch :
               cur' = c /\ batch' = batch \ {c} /\ pc' = "open"
    /\ UNCHANGED <<transcript, unsent, pending, todo, socks, faults>>

\* _dispatch_one reads the catalog.
OpenCatalog ==
    /\ pc = "open"
    /\ pc' = "begin"
    /\ UNCHANGED <<transcript, unsent, pending, batch, cur, todo, socks, faults>>

\* The read is outside of its try: an exception ends the thread.
CatalogFails ==
    /\ pc = "open"
    /\ Fault
    /\ pc' = "dead"
    /\ UNCHANGED <<transcript, unsent, pending, batch, cur, todo, socks>>

\* Mutant: forgets dispatched_at IS NULL.
SelectedAll(c) == Rows(c)

Selected(c) == Rows(c) \ marked[c]

Select ==
    /\ pc = "begin"
    /\ todo' = Selected(cur)
    /\ pc' = "publish"
    /\ UNCHANGED <<transcript, unsent, pending, batch, cur, socks, faults>>

\* Mutant: ORDER BY rowid the other way round.
NextRowLatest == Max(todo)

NextRow == Min(todo)

\* ConversationSocketManager.publish hands the event to the loop of every
\* socket that is registered at this moment.
Publish ==
    /\ pc = "publish" /\ todo # {}
    /\ socks' = [s \in Sockets |->
                   IF Registered(s) /\ ConvOf[s] = cur
                   THEN [socks[s] EXCEPT !.live = @ \cup {NextRow}]
                   ELSE socks[s]]
    /\ todo' = todo \ {NextRow}
    /\ UNCHANGED <<transcript, unsent, pending, batch, pc, cur, faults>>

Commit ==
    /\ pc = "publish" /\ todo = {}
    /\ marked' = [marked EXCEPT ![cur] = Rows(cur)]
    /\ pc' = "observe"
    /\ UNCHANGED <<last, rows, unsent, pending, batch, cur, todo, socks, faults>>

\* observations.ndjson is written after the commit.
Observed ==
    /\ pc = "observe"
    /\ pc' = "next"
    /\ UNCHANGED <<transcript, unsent, pending, batch, cur, todo, socks, faults>>

\* An exception of dispatch_pending_outbox: what the transaction marked is
\* rolled back, what it published stays published.
DispatchFails ==
    /\ pc \in {"begin", "publish", "observe"}
    /\ Fault
    /\ pc' = "retry"
    /\ todo' = {}
    /\ UNCHANGED <<transcript, unsent, pending, batch, cur, socks>>

\* Mutant: a failed conversation is not signalled again.
RetryForgets ==
    /\ pc = "retry"
    /\ pc' = "next"
    /\ UNCHANGED <<transcript, unsent, pending, batch, cur, todo, socks, faults>>

Retry ==
    /\ pc = "retry"
    /\ pending' = pending \cup {cur}
    /\ pc' = "next"
    /\ UNCHANGED <<transcript, unsent, batch, cur, todo, socks, faults>>
-----------------------------------------------------------------------------
\* The browser asks for what follows the sequence number it has reached.
Connect(s) ==
    /\ socks[s].at = "away"
    /\ \E after \in 0 .. last[ConvOf[s]] :
           socks' = [socks EXCEPT ![s] = Idle("registered", after)]
    /\ UNCHANGED <<transcript, unsent, dispatcher, faults>>

After(s) == {i \in Rows(ConvOf[s]) : rows[ConvOf[s]][i] > socks[s].after}

\* Mutant: replays only what has been marked as dispatched.
ReadReplayMarked(s) ==
    /\ socks[s].at = "registered"
    /\ socks' = [socks EXCEPT ![s].at = "replaying",
                             ![s].replay = After(s) \cap marked[ConvOf[s]]]
    /\ UNCHANGED <<transcript, unsent, dispatcher, faults>>

ReadReplay(s) ==
    /\ socks[s].at = "registered"
    /\ socks' = [socks EXCEPT ![s].at = "replaying", ![s].replay = After(s)]
    /\ UNCHANGED <<transcript, unsent, dispatcher, faults>>

\* A send that fails, or the browser leaving, takes the socket off the list.
Disconnect(s) ==
    /\ Registered(s)
    /\ socks' = [socks EXCEPT ![s] = Gone]
    /\ UNCHANGED <<transcript, unsent, dispatcher, faults>>

\* Only the rows survive.  The lifespan of the new process starts a thread
\* and signals every conversation.
Restart ==
    /\ Fault
    /\ unsent' = [w \in Writers |-> NoConv]
    /\ pending' = Conversations /\ batch' = {}
    /\ pc' = "wait" /\ cur' = NoConv /\ todo' = {}
    /\ socks' = [s \in Sockets |-> IF Registered(s) THEN Gone ELSE socks[s]]
    /\ UNCHANGED transcript

DispatcherStep ==
    \/ TakeBatch
    \/ NextOfBatch
    \/ OpenCatalog
    \/ Select
    \/ Publish
    \/ Commit
    \/ Observed
    \/ Retry

Next ==
    \/ \E w \in Writers, c \in Conversations : WriteMessage(w, c) \/ WriteNotice(w, c)
    \/ \E w \in Writers : Signal(w)
    \/ DispatcherStep
    \/ CatalogFails
    \/ DispatchFails
    \/ \E s \in Sockets : Connect(s) \/ ReadReplay(s) \/ Disconnect(s)
    \/ Restart

Spec == Init /\ [][Next]_vars

\* The dispatcher is a thread that never waits while something is pending, and
\* a handler that has committed goes on to signal.
FairSpec ==
    /\ Spec
    /\ WF_vars(DispatcherStep)
    /\ \A w \in Writers : WF_vars(Signal(w))
-----------------------------------------------------------------------------
\* What a socket is sent without any further event.
Got(s) == socks[s].live \cup socks[s].replay

\* A marked row will not be published again, so by then every socket that
\* asked for it must have it or be about to get it: from the live events or
\* from the replay, whatever the order of registering, reading and publishing.
NoGapAfterReplay ==
    \A s \in Sockets : socks[s].at = "replaying" =>
        After(s) \cap marked[ConvOf[s]] \subseteq Got(s)

\* A live event never overtakes one the socket still misses: whatever was asked
\* for and written before it has come, or is in the replay, also when a failed
\* dispatch is repeated or the socket came in the middle of one.
NoOvertaking ==
    \A s \in Sockets : socks[s].at = "replaying" =>
        \A i \in socks[s].live : \A j \in After(s) :
            j < i => j \in Got(s)

\* What both rest on: a row that a socket asked for and has not got was written
\* after its replay was read, so it is still to be dispatched, and published
\* before anything later is.
StillToCome ==
    \A s \in Sockets : socks[s].at = "replaying" =>
        \A j \in After(s) \ Got(s) :
            /\ j \notin marked[ConvOf[s]]
            /\ Dispatching(ConvOf[s]) => j \in todo
            /\ \A i \in socks[s].live : i < j

\* Nothing but rows is marked, selected or sent.
RowsExist ==
    /\ \A c \in Conversations : marked[c] \subseteq Rows(c)
    /\ \A s \in Sockets : socks[s].live \subseteq Rows(ConvOf[s])
    /\ pc \in {"open", "begin", "publish", "observe", "retry"} => cur \in Conversations
    /\ pc = "publish" => todo \subseteq Rows(cur) \ marked[cur]

\* The inductive invariant behind NoGapAfterReplay and NoOvertaking.
IInv == TypeOK /\ RowsExist /\ StillToCome

\* A row that is marked is never handed to a socket that has not got it.
MarkedIsNotRepublished ==
    [][\A s \in Sockets :
          Registered(s) => (socks'[s].live \ socks[s].live) \cap marked[ConvOf[s]] = {}]_vars

\* An event is dispatched in the end, through lost signals, failed attempts
\* and restarts, unless the dispatcher thread has died.
EventsAreDispatched ==
    \A c \in Conversations : \A i \in 1 .. MaxRows[c] :
        i \in Rows(c) ~> (i \in marked[c] \/ pc = "dead")
=============================================================================
