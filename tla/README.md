# A verification development for pal-chat

pal-chat runs multi-agent chat experiments: a FastAPI server
(`apps/server/src/pal_chat_server`), one worker process per agent started by
that server, and a React client (`apps/web/src`).  A conversation is a SQLite
file (`transcript.sqlite`); a catalog database lists the conversations.  All
server code runs in one process and on many threads: request handlers in the
thread pool, the outbox dispatcher, the supervisor's monitor, export jobs.

This directory holds TLA+ models of the server's protocols, the TLC runs that
check them and TLAPS proofs about them.  `PROJECT.json` lists the runs, which
source lines every definition stands for, the hazards and the findings.

## 1. Inventory

Paths are below `apps/server/src/pal_chat_server` unless they say otherwise.

| Component | State | Operations | Talks to | What is hard | What makes it correct |
| --- | --- | --- | --- | --- | --- |
| Message sequencer (`sequence_runtime.py`, handlers in `app.py`) | `messages`, `cp_revisions`, `submissions`, `causal_episode_budget`, `outbox_events` of the transcript | `commit_message`, `retry_submission` | browsers, workers, attempt ledger, outbox | two transactions around a model call outside the lock; concurrent duplicates; crashes in between | gapless order, at most once, projection of exactly the prefix, optimistic concurrency of agents, budgets |
| Attempt ledger (`attempts.py`, internal endpoints of `app.py`) | `llm_attempts`, `llm_admission_events`, `conversation_budget_ledger` | `admit_attempt`, `finalize_attempt`, `invoke_model`, `mark_run_attempts_crashed` | workers, sequencer, supervisor | reservations of calls in flight, crashed runs, late finalisation, restarts | calls and tokens within the guardrails, every reservation released once |
| Conversation catalog (`services.py`, lifecycle handlers of `app.py`) | `conversations` rows, manifests | create, validate, start, pause, resume, end, delete, guardrails | supervisor, sequencer | check-then-act between sessions, two effects without a transaction | one active conversation, no way back from `ended`, nothing written when not running |
| Outbox (`sequence_runtime.py:1288`, `outbox_dispatcher.py`) | `outbox_events.status`, dispatcher sets `_pending`, `_active` | enqueue, dispatch, recover on startup | sequencer, sockets | publish before commit, crash, signal while active | every event reaches connected clients at least once, in order |
| Browser sockets (`ConversationSocketManager`, `app.py` ws handler) | connections per conversation | connect, replay after a sequence, publish | outbox, client | replay races with live events | no gap after a reconnect |
| Run and typing authority (`app.py:1979`) | `agent_runs`, `agent_runtime_state` | status, typing, worker-state posts | workers, supervisor | autocommit reads before writes, late posts after a crash | a finished run stays finished, no dead active run |
| Worker supervisor (`worker_supervisor.py`) | handles, processes, restart counts | start, stop, pause, resume, monitor | catalog, workers, run authority | monitor thread against start/stop, acks with a timeout | at most one live worker per agent, bounded restarts, pause really pauses |
| Agent worker (`worker_main.py`) | reliable seq, active run, dirty seq, pending messages | receive, decide, act, submit, reconsider | all internal endpoints | reordered or duplicated events, conflicts, restart | one message per run, nothing received is forgotten while it lives |
| Agent memory (`private_runtime.py`) | `mem-N.json`, `current.json` | stage, commit operations | worker | commit after the public message | revisions are a chain |
| Analysis export (`analysis.py:476`) | `job-*.json`, `*.zip`, one thread per job, a lock | create, run, resume at startup, report | catalog, browsers | files written in place, crash at any write, startup over what it left | what was reported ready can be downloaded, every job ends |
| Web client (`apps/web/src/state.ts`, `App.tsx`) | messages, seen event ids, drafts | reduce events, reconnect, refresh, send, retry | sockets, HTTP API | duplicates and reordering, refresh against live events, timers of closed sockets | the view equals the transcript of the selected conversation |
| Monitoring, registry, contracts, credential store, scripted adapter, trace | read-only or configuration | | | | |
| Agent runtime manager (`agent_runtime.py`) | | | | not constructed by the server any more | |

### How they interact

A browser message goes through `commit_message`; the projection calls the model
through the attempt ledger.  After the commit the handler pushes
`message.committed` to the worker sockets, and signals the outbox dispatcher,
which publishes the stored events to browser sockets.  A worker that decides to
speak admits its model calls in the ledger, posts its run's status to the run
authority, and submits through `post_internal_agent_action` with the sequence
number it has seen.  A 409 makes it reconsider.  The supervisor restarts
workers that die and repairs the rows they left.

## 2. Modules

| Module | Role |
| --- | --- |
| `MessageLog` | abstract: an idempotent, append-only log with requests that may get lost |
| `Sequencer` | the sequencer, refining `MessageLog` |
| `SequencerInv`, `SequencerProofs` | its inductive invariant and the proofs |
| `LlmLedger`, `LlmLedgerProofs` | the attempt ledger |
| `CatalogLifecycle`, `CatalogProofs` | rows of `conversations` and the requests on them |
| `OutboxDispatch`, `OutboxProofs` | outbox rows, dispatcher thread, browser sockets |
| `RunAuthority` | the server's record of an agent: runtime row and runs, as operators |
| `AgentWorker` | one worker process with its socket, its record, its restarts and the rest of the conversation |
| `AgentWorkerInv`, `AgentWorkerProofs` | its inductive invariants and the proofs |
| `WorkerSupervisor`, `SupervisorProofs` | processes, handles, the monitor thread, and the requests that start and stop workers |
| `PauseCheckpoint`, `PauseProofs` | pauses and resumes over working, crashing and restarted workers; extends `RunAuthority` |
| `BrowserView` | the page: its view, loads, socket and timers, over the server as `OutboxDispatch` promises it |
| `AnalysisExport` | export jobs, their files and threads, crashes and startups |
| `BrowserProofs` | the proofs of `AnalysisExport` and `BrowserView`; it extends both, hence `PageSpec` |
| `MC...` | constants of the instances TLC checks |

The worker is cut in three along what its parts share.  `AgentWorker` is one
agent in full and whatever its surroundings may do to it; `WorkerSupervisor` is
all processes of a conversation and nothing of what they do; `PauseCheckpoint`
is where the two meet, with a worker reduced to the posts it makes.
`RunAuthority` is used by the first and the third, so both check the same record.

Definitions marked "Mutant" are plausible bugs of the definition that follows
them.  No specification uses them; each property has one that breaks it.

### 2.1 Sequencer

`commit_message` takes a checkpoint in a first transaction (`Prepare...`),
calls the model outside of every lock (`Projection...`) and commits in a final
transaction if the checkpoint still holds (`Final...`).  Both transactions hold
the conversation's lock and `BEGIN IMMEDIATE`, so each of their outcomes is one
action.  One handler per request has a program counter: idle, prepare, project,
fail, final, reply, done, and lost when the server dies under it.  `messages`, `revisions`,
`submissions`, `ledger` and `outbox` are the tables; they survive a crash,
handlers do not.  Message content is a member of `Bodies`, some of which make
the projection fail.  The content of a projection is the set of messages it
refers to.

Not in the model: mentions (a duplicate mention would violate a primary key);
the `unknown_agent` refusal, which the handlers' authentication makes
unreachable; agent messages without a causal episode, which the code does not
budget; the attempt ledger, which `ProjectionDone` and `ProjectionError`
abstract to success and failure.

What is shown: messages are numbered without gaps and each key at most once
(`GaplessAndOnce`); the latest projection covers exactly the transcript
(`ProjectionCoversTranscript`); who was told "ok" has its message at that place
for ever (`AcknowledgedIsStored`); an agent's message follows directly what the
agent had seen (`AgentSawEverythingBefore`); episodes stay within their budget
although it is checked two transactions before it is recorded
(`EpisodeBudgetHolds`); and more of this kind.  The sequencer implements
`MessageLog` (`ImplementsMessageLog`) and its handlers end (`HandlersFinish`).

### 2.2 LlmLedger

A call is one request for an answer: of a run of a worker (`RunOf`), through
`post_internal_model_invocation` with its repair call, or through the register
and finalize endpoints (`Direct`), or a projection (`NoRun`).  `Admit` and
`Reject` are `admit_attempt`; `Succeed`, `Raise`, `InvalidRepair`,
`InvalidGiveUp` and `PostFinalize` are the ends of a call; `RunExit` is
`mark_run_attempts_crashed`; `PatchGuardrails` changes the limits, which
handlers keep as they have loaded them (`seen`).  Tokens are small numbers.

What is shown: the ledger is the sum of the attempts at any moment
(`LedgerMatchesAttempts`); attempts settle once (`SettledAttemptsAreFinal`);
the call limit holds with all callers together and with stale guardrails
(`CallLimitHolds`).

The token limit does not hold.  A finalization books whatever total it is given
(`Totals`): the estimate is a quarter of the prompt's length
(`worker_main.py:599`), the scripted adapter reports all of it
(`scripted_adapter.py:123`), and the output is not capped.  So the code bounds the
overshoot by nothing but what the calls really cost, and what admission does grant
is that reservations do not overlap: `OnlyExcessOvershoots` says that used and
reserved tokens exceed the largest limit there has been by no more than the sum of
what each call has cost beyond its own reservation (`Excess`).
`docs/architecture.md:321` promises more, that estimated input and maximal output
are reserved, so that calls which keep to both do not exceed the budget between
them.  The code reserves the input only (section 5).

When the server dies, the attempts of its calls stay open and reserved, so
`ReservationsEnd` is about a server that lives.  `docs/architecture.md:471` has the
next start release them, which nothing in the code does.

### 2.3 CatalogLifecycle

A request loads its row (`Load`), checks what it checks, and commits.  It has a
session of its own, and SQLAlchemy's UPDATE names only the columns that have
changed against the loaded row (`Updated`), so requests that overlap mix.  `start` commits twice: the
validated profile, then the status.  `late` records that a message was accepted
for a conversation that was no longer running.

Each promise of the code (`OneActive`, `ProfileLocked`, `LockedProfileIsValid`,
`MessagesOnlyWhileRunning`, `EndedStaysEnded`) can be broken when two requests
overlap: two starts make two conversations running, an edit that loaded its row
before a start changes a locked profile, a message whose handler has passed the
guard before a pause is stored after it.  `met` records which conversations had
requests that overlapped, and the properties say that nothing else breaks the
promises: they hold for every conversation that is `Alone`, whatever happens to
the others.  `RanMeansLocked` and the bound `ActiveBounded`, which is proved,
hold in any case.

So these properties say what a single request can do and that nothing but an
overlap does worse; the races themselves are outside of their premise, and
`EndedStaysEnded` excepts the validation in addition.  The model contains both,
and section 5 lists them.

Not in the model: manifests (they are read only to rebuild a lost catalog),
templates and titles, deletion, and the workers that the lifecycle handlers
start and stop, which is in `WorkerSupervisor` and `PauseCheckpoint`.

### 2.4 OutboxDispatch

`Write...` is a transaction that queues events, `Signal` the call after its
commit.  `TakeBatch`, `NextOfBatch`, `OpenCatalog` and `Retry` are the thread of
`OutboxDispatcher`; `Select`, `Publish`, `Commit` and `Observed` are
`dispatch_pending_outbox`; `DispatchFails` is an exception in it and
`CatalogFails` one outside of the `try`, which ends the thread.  `Connect` and
`ReadReplay` are the ws handler: it registers the socket first and reads the
replay afterwards.  A socket is used once; a browser that reconnects is another
socket with another `after`.  `Restart` is the death of the server with the
`lifespan` of the next one.

What is shown: whatever the order of registering, reading and publishing, a
socket gets all it asked for (`NoGapAfterReplay`), and no live event comes ahead
of an earlier one that is still missing, also when a dispatch fails after it
has published and is repeated (`NoOvertaking`).  A marked row is not published
again (`MarkedIsNotRepublished`), and every row is marked in the end unless the
thread has died (`EventsAreDispatched`).  Events without a sequence number are
not replayed, so the first two properties say nothing of them.

`_active` and `snapshot()` serve monitoring only and are left out, as is the
stop flag, after which the process ends.

### 2.5 RunAuthority and AgentWorker

`RunAuthority` has the handlers that change the row of `agent_runtime_state`, as
functions from row to row: a status post, a typing post, the exit of a process.
`AgentWorker` is the loop of `worker_main.py` with all it talks to.  The loop is
one thread, so a step ends where it waits for the server:

* `pc` is the place in the loop: `idle` is the top of it, `deciding`, `acting`
  and `reconsidering` are model calls, `backoff` the pause before such a call is
  tried again, `waiting` the pause before a draft is sent, `submitting` the post
  to agent-actions; `starting` and `connecting` come before the loop, `down` is
  an exited process and `gone` one that is not started again.
* `w` is `WorkerState` with the locals of a batch.  `Receive` is
  `process_runtime_event`, possible only where the loop pumps events.
* `coming` holds messages whose handler has not published them (they come in any
  order), `replay` what `internal_agent_stream` still sends, `wire` the control
  events, `closing` a dead socket whose handler has not noticed.
* `requests` and `reply` are the submissions.  `CheckStatus` and `Store` are
  `post_internal_agent_action`, with the result of `commit_message` as `MessageLog`
  promises it: stored when the expected number is the last one, else a conflict,
  or a refusal by budget or projection.  A handler goes on when its worker dies.
* The other agent is reduced to what its worker may store: an answer to any
  message of others, inside the episode that message belongs to or opens.

What is shown: while a process has its socket, a user message for it is on its way,
pending, or in a run (`NothingForgotten`); the row on the server shows the run and
the typing of the worker, and nothing of one whose exit is recorded
(`ServerKnowsTheRun`); runs and stored messages match one to one
(`RunsMatchMessages`); episodes start with a user message and hops count up
(`EpisodesAreRooted`); and what waits gets its run (`PendingIsTakenUp`).

`SubmissionsAreFresh` is about what a run knew of the transcript.  `w.known` is the
number up to which it did: all that was stored when it fetched the transcript
(`StartRun`; the code fetches from 30 messages before the answered one on,
`worker_main.py:855`, and what is older counts as known), raised to what the worker had heard of whenever the model is asked to
reconsider (`ReconsiderWith`).  A draft is never sent with a greater expected number
than that, whichever order messages arrive in.  When message 2 arrives ahead of
message 1, a run that answers 2 expects 2, and its transcript has both, as 1 was
stored before 2; if 1 arrives during the run, `dirty > expected` overlooks it, which
does no harm to this draft, and it stays queued for a run of its own.  After a
conflict the request of the reconsideration names the worker's `reliable_seq`, not
the number the server gave (`worker_main.py:671`), so the model is told that the
draft is stale but not shown what made it so; `known` counts that message as one
it was asked about.  Two cases are excepted: a run that answers @all submits again without asking,
and a reconsideration that failed and was tried again (`retried`).  The latter is
a flaw of the code: the request is built once, messages that come in the backoff are
not in it, and the answer is taken to cover them (section 5).

Abstractions.  `ENDED` stands for `BUDGET_EXHAUSTED`, `FATAL`, `INVALIDATED` and
`SILENT`, which the handlers treat alike.  The posts at the end of a run are one
step, as are the change of status and its publication in a pause.  A message
published while no socket is registered, or to a dead one, is lost (`Unheard`).
Whether a process that has exited is started again is a free choice, so the
restart limit is covered without a count.  A restarted process does not know of
a pause, as in the code, where nothing tells it.

Not in the model: the end of a conversation; posts that fail; a post of a dead
process that is still being handled, which is in `PauseCheckpoint`; memory
operations; a retry of a run's submission by a browser, which `Sequencer` has.

### 2.6 WorkerSupervisor

A process, its handle and its token are one record of `procs`, numbered in the
order they were spawned.  `table` is `_handles`.  Requests (`req`) and monitor
threads (`mon`) are threads of the server, and the supervisor's lock is held for
single accesses only, so each access is an action: `CheckTable`, `SpawnWorker`,
`StoreHandles`, `StartMonitor` and the wait are `start_workers` with its timeout;
`PopHandles`, `KillWorker` and `ClearStopping` are `stop_workers`; `MonitorLook`
to `MonitorStore` are a round of the monitor over its copy of the table.

Three histories record what the code does not guard against:

* `raced`: a start crossed another start or a stop, or a stop found the monitor
  between its look at `_stopping` and the store of a replacement.  The lock
  protects none of these, and each leaves a process that no table holds, alive
  and with a valid token.
* `doubled`: a start found a leftover monitor thread when it started its own.
  `stop_workers` forgets the monitor (line 243) and does not wait for its thread,
  which may be asleep (line 413) or in the middle of its round.  A new start within
  that time fills the table again, so the old thread goes on beside the new
  one, both replace the same dead process, and the table keeps one of the two.
  No two requests overlap here: an end, a validation and a start one after the other
  are enough.
* `failed`: `_record_process_exit` or `_spawn_worker` has raised in the monitor
  (`MonitorFails`), which ends its thread and leaves it registered.

A start that starts its own monitor thread takes `failed` back, and a crash of the
server all three; nothing else does.  One worker per agent is served
(`OneWorkerPerAgent`) and an end reaches all of them (`EndStopsWorkers`) under
`Undisturbed`, which is `~raced /\ ~doubled`; a failed monitor does not
matter to them.  TLC finds each of the cases in which they break when the constraint
is taken out of the cfg and one of the two out of `Undisturbed`.  `TableIsWatched`
needs `~raced` and `~failed` only: whatever leftover threads there are, a
table has a monitor.  It does not say that there is exactly one, as the code
does not ensure that.

The dict that `start_workers` waits on is the one it has put into the table, so a
replacement that the monitor stores is waited for too (`Shares`).

Not in the model: the environment of a process, graceful termination before the
kill, and two conversations, which share only the lock; the exception of the second
`_spawn_worker` of a start, which leaves the first process outside of the table.
Any order of the two spawns is allowed, where the code has one.

### 2.7 PauseCheckpoint

`AskForPause` and `PublishPause` are `pause_workers` up to the wait,
`PauseAcknowledged` and `PauseTimeout` its ends, `PublishResume` is
`resume_workers`.  A worker takes a control event (`TakeControl`), begins and ends
runs, and posts; a post is verified first (`VerifyPost`, which also records the
acknowledgement, on the handle the table has at that moment) and written later
(`WriteRow`).  The process may die in between.  The monitor notices, records the
exit, spawns and stores.

`held` are the processes an answered pause vouches for: until the next resume they
are paused and have no run (`PauseHolds`).  A pause is left out of this when an
earlier one had not been digested (`crossed`), because its acknowledgement would be
taken for the one of the later pause.  `DeadRunsAreClosed` says that an exit that
was recorded is final in the row, with one exception the code has: a post that had
passed `verify` (`late`).

### 2.8 BrowserView

One action is one event of the page with the effects React runs after it: the
socket's effect (`Reopen`) runs whenever the selection, the review, the archive or
the nonce changes.  `shown`, `view`, `latest`, `seen` are `conversation` and
`runtimeState`; `dying` are sockets the page has closed whose close event is to
come; `timer` and `strays` are reconnect timers, as a second close overwrites the
id of the first.  `loads` are calls of `refreshConversation`: each reads the
server at some moment and replaces the whole view when it is answered.

`SeenIsShown`: the id of an event that a review dropped does not keep its message
out later, because leaving the review loads.  `CatchesUp`: a page that goes on
reconnecting ends with the whole of the selected conversation.  The premise is
that the reconnect timer is set again and again.  It is, once the close event of
a socket that the page itself has closed has set it (section 5); a page
whose only socket has never broken is not promised anything, and there each of
the losses of section 5 can stay.

Not in the model: run and typing events, optimistic messages, forms.

### 2.9 AnalysisExport

`file` is the status in `job-*.json`, which `_json_write` truncates before it
writes, so it is `"torn"` in between; `archive` is the zip; `runner` is the place
of the thread of a job.  `Crash` may fall on any step, `Start` to `Started` are
`lifespan` with `resume_analysis_export_jobs`.  `ReportedIsDownloadable`: what a
browser was told is ready is there as a whole, through crashes and startups.
`EveryJobEnds`: a job whose file was written ends, unless a crash has torn a file.

## 3. Runs

| Run | Instance | Shows |
| --- | --- | --- |
| `sequencer` | three requests for two user messages and four runs of one episode, of which one fails its projection and one is beyond the hop limit | all safety properties, the refinement of `MessageLog`, and that handlers answer, with crashes, duplicates and retries |
| `duplicate_request` | three requests, one user message, two runs | **violation**: a duplicate gets an error although its message is stored |
| `ledger` | two calls of one run, one of them direct, and a projection, limits 2 and 3 | accounting, limit of calls, what exceeds that of tokens, settled attempts, end of reservations |
| `catalog` | two conversations, two overlapping requests, a good and a bad profile | what breaks a promise of the lifecycle is an overlap, or a validation |
| `outbox` | one writer, one socket, three rows, two faults, a second conversation in the batches | delivery, order, eventual dispatch |
| `agent_worker` | three messages to nobody or to all, answers of the other agent, two runs, one repeated submission | batches, conflicts, reconsiderations, episodes, one message per run |
| `agent_worker_faults` | two messages, two runs, a crash or signal, a pause, a retried model call | the server's record, replay after a restart, eventual answers |
| `worker_episode` | two messages, two runs | **violation**: the answer to a message that arrived during a run belongs to no episode |
| `supervisor` | two agents, two requests, two monitor threads, five processes, one restart per agent | one worker per agent and none after an end, while nothing crosses and no leftover monitor lives beside a new one; a table has a monitor, also beside a leftover one, unless an exception has ended it |
| `control` | one agent, two requests at a time, three in all, one restart | an answered pause holds, a recorded exit is final |
| `browser` | two conversations of one message, one stored before and one while the page is open, two loads at a time, three acts of the user or the network | nothing stays dropped, a page that reconnects catches up |
| `export` | two jobs, two crashes | what is reported can be downloaded, jobs end |

### Bounds

Sequencer: a message is disturbed by another commit, by a copy of itself and by a
retry.  Three requests reach any two of these at once; a fourth would only add what
the proofs cover, as the safety properties and the refinement are proved for any
number of requests.  The episode's limits of 1 and 2 are reached by the runs there
are and exceeded by what they ask for.

Ledger: the limits are below what all callers ask for, so admission is refused in
some behaviours, and one prompt is estimated at 0 to reach the minimum of 1.
A call costs 0, 1 or 3 (`Totals`): less than, as much as and more than what is
reserved for it.
Catalog: two overlapping requests are the smallest case of every race, and a
property speaks of two conversations at most.  Outbox: three rows allow a message,
whose two events share a sequence number, and a notice; two faults allow a restart
after a failed dispatch.

Worker: three messages (`MaxMessages`) are the root of a run, one that
arrives during it and one that conflicts with its draft; two runs (`MaxRuns`) let
a run start from what another left; one retry of a call and of a submission
(`MaxRetries`, `MaxSubmitRetries`, 2 and 3 in the code) take every branch that more
of them take; one pause (`MaxPauses`) and one crash or signal (`MaxFaults`) can
fall on any step.  Between them the two instances take every branch of the loop.

Supervisor: five processes (`MaxProcesses`) are a start of two agents, a restart and
a second start.  The constraint `Interesting` cuts behaviours after a
crossing.  The properties are implications from it; `raced` and `doubled` are
taken back by a crash of the server only, which goes to a state without processes
that is reachable otherwise, so nothing is lost.  Beside a leftover monitor only
`TableIsWatched` says something, and that asks whether there are handles and not
whose: there the fifth process is cut (`MaxDoubled`).  Control: a pause, a resume and a second pause (`MaxRequests`), two
of them at a time, are what an acknowledgement can be mistaken in; agents do
not influence each other's process or row, so one shows what there is, and the proof
covers any number.  Browser: one message per conversation is shown or not shown;
an act (`MaxActs`) is a change of the selection, a refresh, a review, a broken
connection or a failed load, and three of them include a review around a break and
two changes of the selection.  Export: two jobs compete for the lock, and
with two crashes (`MaxCrashes`) one can hit the startup after the other.

Symmetry is used where only safety is checked.  The proofs below have no bounds.

`CHECK_DEADLOCK FALSE` is set because every instance comes to an end: requests,
calls and sockets are used once, and rows, messages, runs, processes and faults
are bounded.

### Fairness

* Sequencer: every handler that has arrived goes on (weak fairness per
  handler).  The thread pool runs it, and model calls end, if only by the
  adapter's timeout.  Arrivals, failures and crashes are not fair.
* Ledger: weak fairness of the handlers of calls for the same reason.  Nothing
  obliges a worker to post what it has registered, so `ReservationsEnd` leaves
  `Direct` calls out.
* Outbox: weak fairness of the dispatcher thread, whose wait times out every
  half second, and of the signal after a commit.  Faults are not fair, and
  `MaxFaults` bounds them: a dispatch that failed for ever would never end.
* Worker: weak fairness of the handlers and of the loop, which is a process of
  its own that nothing disables for ever.  Users, the other agent, pauses,
  crashes and the supervisor's restarts are not fair, so `PendingIsTakenUp`
  promises a run only to a worker that lives, is not paused and not told to stop.
* Browser: weak fairness of what the server and the browser's event loop do by
  themselves: publishing, registering, replaying, answering a load, handing an
  event of the socket to the page, the close event of a socket.  A timer is
  strongly fair, as it is cleared and set again by whatever reopens the socket, and
  `CatchesUp` is about a page that leaves it alone again and again.  The user, new
  messages and failures are not fair, and `MaxActs` bounds them.
* Export: weak fairness of the startup (whoever runs the server starts it again)
  and of the browser's timer; strong fairness of the threads, as each waits for the
  lock that the others take and release.  Crashes are not fair.
* Supervisor and control state no liveness: whether a worker connects or
  acknowledges in time is not the server's to decide, and both waits end by a
  timeout.

## 4. Proofs

All theorems are for any value of the constants that satisfies the named
assumptions of the modules (`SequencerAssumption`, `LedgerAssumption`,
`CatalogAssumption`, `OutboxAssumption`, `WorkerAssumption`, `PauseAssumption`,
`ExportAssumption`; the proof about the page needs none).  Each proof module shows that
`IInv` holds initially and is kept by every action, and that it implies the property.
Where a property needs more, a second invariant is proved on top of the first, which
it may then use in both states of a step.  TLC agrees with each of these invariants when
it is added to the invariants of the module's run.  With them every invariant and every
action property that a passing run checks is a theorem.

* **Sequencer.**  The properties are not inductive: the final transaction is
  right only because of what the first has seen.  `IInv` adds `Numbering`
  (messages, revisions and snapshots are all 1..n), `Checkpoints` (a checkpoint
  was the end of the transcript and its number decides whether it still is),
  `Hashes` (the hash of a submission never changes), `Replies` and `Requesters`.
  Proved: all safety properties of the run `sequencer`, and
  that a message is stored after those it replies to.
  `EpisodeBudgetHolds` needs a second invariant, `EpisodeInv`: the budget that prepare
  has found is still there as long as the checkpoint is current (`Budgets`), because
  only a new message counts for an episode, and a new message makes every
  checkpoint stale.  `Refinement` takes each step to a step of `MessageLog`
  or a stutter: only arrivals, refusals, a final transaction that stores, and an answer
  are visible, a crash is not.  The
  mapping picks the row of each number from a set, so `RowsInOrder` first shows that
  rows numbered without gaps stand for one transcript, and that the next row appends.
* **Ledger.**  `IInv` says what each handler may find in the table
  (`HandlersKnowTheirAttempts`), and that the ledger counts the attempts and
  stays within a limit that has been in force.  Proved: `CallLimitHolds`,
  `SettledAttemptsAreFinal`, and that a caller that has its answer has left no
  attempt open.  The tokens are sums over the attempts, and `TokenInv` is about these:
  an open attempt is the current one of its handler, holds what was reserved for it
  and has not been charged (`OpenAttempts`).  The ledger is exact
  (`LedgerMatchesAttempts`) because each handler changes one attempt and the ledger
  by the same amount.  `OnlyExcessOvershoots` follows step by step: an admission
  leaves used and reserved within the limit it has seen, and a settlement replaces a
  reservation by a charge, of which what goes beyond it is added to the excess
  (`ExcessGrows`).  Nothing is assumed of what calls cost.
  That a sum changes by what one summand changes is proved by a minimal
  counterexample: proper subsets of a finite set are well-founded.
* **Catalog.**  A request that is alone with its conversation sees the row as it
  loaded it, and the row still allows what the request is about to do
  (`Snapshots`); requests that overlap have met (`Overlaps`).  Two conversations can
  both be active, or about to be made active, only if they have met
  (`CandidatesMet`): the check of a start looks at the others when no other request
  is under way, or meets it.  All six properties of the run are proved.  The
  bound `ActiveBounded` needs a count that a race cannot change:
  `CandidatesBounded` counts the active conversations together with those a request
  has passed its checks for.  `HandlersKnow` carries `RanMeansLocked` over stale
  rows.
* **Outbox.**  `StillToCome` is the reason for both safety properties: a row a
  socket misses was written after its replay was read.  So it is unmarked, it is
  in the selection of a dispatch that is under way, and it is later than all the
  socket has got live.  `MarkedIsNotRepublished` is about what a step hands to a
  registered socket live: only a publication does (`LiveGrows`), and what a dispatch
  has selected is unmarked until it commits.
* **Worker.**  Two invariants.  For the server's record (`ServerKnowsTheRun`,
  `RunsMatchMessages`) `IInv` says which requests may be open
  (`RequestsAreOpen`: one per run at most, and none once its message is stored),
  what the worker may conclude from the answer it has or has not
  (`AnswersAreTrue`: that a COMMITTED run has its message depends on what an answer
  means), where the loop has a run (`WorkerHasItsRun`) and what a row can
  look like (`RowsAreConsistent`).  Queues do not appear in it, as neither
  property depends on what is received, and in which order.  Steps that change
  the same things share a lemma (`CalmKeeps`, `EndingKeeps`, `DyingKeeps`,
  `SendKeeps`, `GrantKeeps`, ...), and each action has one that applies them.
  `QueueInv` is about the queues, for `NothingForgotten`, `EpisodesAreRooted` and
  `SubmissionsAreFresh`.  All that is queued, replayed or being answered is in the
  transcript (`MessagesExist`) and its episodes start with a user message
  (`EpisodesOpen`), so a new batch joins or opens a proper one.  `NumbersSeen` relates what
  the worker has received, what it has posted and what is stored, and
  `ExpectsWhatIsKnown` says that a run expects no more than it
  knew of when it was given its transcript or was asked to reconsider, and that while
  it reconsiders nothing is received, unless the request is tried again after a
  backoff (`retried`).  Pending
  messages are filtered by `Without`, which takes one element out of a sequence;
  `WithoutKeeps` says that it loses no other.
* **Pause.**  A token is good for the youngest process only (`TableIsYoungest`), so an
  acknowledgement is that of the process in the table.  What acknowledges must then
  stay paused: behind a "paused" on its way to a process no "running" is sent until
  the next resume (`InOrder`), so a process that has acknowledged, or is about to, is
  `Firm`: paused, without a run, and nothing on its way resumes it.  `Waiting` says so
  of the processes a pause waits for, unless it is crossed, `Held` of those an
  answered pause vouches for.  `Records` relates rows, runs and recorded exits.
* **Supervisor.**  `IInv` has two layers, for what breaks under different conditions.
  `Loose` needs `~raced`: one thread at a time has
  processes in its hands that the table does not show: a start that spawns and a
  stop that kills find the table empty (`OneAtATime`, `HandsOrTable`), a monitor
  is registered only with a table or a stop under way (`RegisteredForATable`), so the
  next start starts its own, and a table has a living one unless it failed
  (`Watched`), as a monitor ends by itself only when it finds the table empty; `EndIsThrough` says where an ended conversation's stop is.  Leftover
  monitors may be among the threads.  `Tight` needs `Undisturbed`, so one
  monitor (`OneMonitor`): a monitor that replaces finds the dead process it replaces
  still in the table (`CopyIsCurrent`, `ReplacesTheDead`), so a process that can post
  is in the table, in hand or coming (`ServingIsKnown`), and no two of these hold of
  one agent.  `Places` says which processes threads and table refer to.
* **Export.**  A file says ready only when the archive is whole and no thread has the
  job (`ReadyIsFinal`), and neither startup nor a thread opens such a job again.
* **Page.**  Only a review takes an id without its message, and then owes a load
  (`resync`), which forgets what was seen.  `ResyncIsDue` adds to `SeenIsShown` that
  the debt exists in a review only, because leaving it loads at once.

Only model-checked: liveness (`HandlersFinish`, `ReservationsEnd`,
`EventsAreDispatched`, `PendingIsTakenUp`, `CatchesUp`, `EveryJobEnds`).  It rests on
fairness, and so on `ENABLED`, which the provers do not handle.  The two violations
of section 5 are counterexamples and need no proof.

## 5. Findings

Two properties that the repository states are violated; `PROJECT.json` quotes the
lines.

* `duplicate_request`: a concurrent duplicate may be told that its message failed
  although it is stored, and a later retry ends in a 500.
  `docs/architecture.md` calls itself a proposed baseline, so this is a
  disagreement of code and plan.
* `worker_episode`: a user message that arrives during a run loses its place in
  `pending_roots` when that run ends, so its answers have no episode and no budget.

The properties of the other runs are stated around the following, which the
models contain as the code has them.

* Ledger.  The maximal output is not reserved, against `docs/architecture.md:321`, so
  calls that keep to what they asked for can exceed the token limit together, and
  even one alone.  Reservations of calls that died with the server are never
  released, against `docs/architecture.md:471`: only the monitor of a living server
  calls `mark_run_attempts_crashed` (`worker_supervisor.py:469`).
* Lifecycle.  Two starts that overlap can make two conversations active
  (`services.py:578` has "Only one conversation may be running or paused at a time").
  An edit that overlaps a start can change a locked profile, and a message
  that overlaps a pause or an end is stored after it.  The properties except requests
  that overlap, so these races are in the model and no property catches them.
  `validate` writes its status whatever the status was
  (`services.py:559`), so it takes an ended conversation back to validated, from where
  it can be started again; `EndedStaysEnded` excepts it.  A start whose workers do not
  connect in time stops them and leaves the status at running, without workers.
* Worker.  `run_reconsideration` builds its request once (`worker_main.py:669`), and
  `run_model_phase` repeats it after a backoff in which messages are received.  With
  the answer the expected number is raised to what has been received by then (728),
  so the draft is sent over a message nobody was asked about.  The gate H-06
  (`tests/test_phase3_worker_processes.py:442`) tests an interruption at another
  moment.  `SubmissionsAreFresh` excepts it (`retried`).
* Supervisor.  Each crossing that `raced` records leaves a process that no table holds.
  A start that comes while a stop is under way can find the old monitor still
  registered; the stop then forgets it and the new workers may have none.  A monitor
  thread that outlives its stop goes on beside the next one, and both replace the same
  worker (`doubled`).  One that was ended by an exception stays registered, and
  nothing restarts the workers any more (`failed`).  A stop
  kills a worker in the middle of a run, whose row stays RUNNING.  After the death
  of the server, `lifespan` neither starts the workers of running
  conversations nor finishes their runs, for which `docs/ux-spec.md:365` and
  `docs/architecture.md:771` expect `failed/server_restart`.
* Pause.  An acknowledgement carries no number, so that of a pause that has timed out
  counts for the next one.  Two requests can publish in another order than they
  wrote their status, so a late resume wakes the workers of a paused conversation.
  A worker that is started again does not know of a pause (`worker_main.py:346`), and
  a control event that falls between `mark_connected` and the registration of
  the socket is lost.  A pause in the backoff of a reconsideration is acknowledged,
  and then `run_reconsideration` takes the interruption for a fatal error
  and posts LISTENING over PAUSED (`worker_main.py:702`), where
  `tests/test_phase3_worker_processes.py:752` expects PAUSED after a pause at another
  moment.  A post that has passed `verify` when the exit is recorded revives the run
  of the dead process.
* Page.  The close handler does not ask who closed the socket (`App.tsx:619`), so the first
  load and every change of the selection set a timer, whose reconnect closes a socket
  and sets the next one: the page reloads and reconnects every five seconds.  This is also what repairs the following: an initial load that fails
  is not tried again; a load that is answered late replaces newer messages or shows
  another conversation (`App.tsx:527`); `after_seq` can stem from a snapshot whose replay
  was lost or from the conversation shown before (`App.tsx:608`, `state.ts:68`); an old
  timer loads the conversation it was made for (`App.tsx:621`).  `docs/ux-spec.md:614`
  promises no missing message after a reconnect, which `CatchesUp` grants in the
  end only.
* Export.  `_json_write` (`analysis.py:57`) writes in place.  A crash in the middle leaves a
  file that `json.loads` refuses at every later startup (`app.py:219`), and the server
  does not start any more (`Blocked`).  The page stops asking for a job at the first
  error (`App.tsx:762`).

## 6. Plan

Done: 2.1 to 2.9.  Next, most important behaviour first:

1. `AgentWorker`, extended by memory revisions after the public commit and the end
   of a conversation; two workers in one module instead of the abstract peer.
2. `CatalogLifecycle`, extended by deletion and by the manifests from which a lost
   catalog is rebuilt.
3. `BrowserView`, extended by run and typing events and optimistic messages.

To prove next: that what `AgentWorker` assumes of the commit, its `Store`, is what
`MessageLog` promises, and what `BrowserView` assumes of the socket is what
`OutboxDispatch` does; type correctness of the modules whose invariants do without it.

## 7. Not modelled

* Agent memory (`private_runtime.py`): revisions are written by one request after the
  public commit and read by prompts, whose content is abstracted.
* Archive and conversation files, monitoring, registry and contracts, credential
  store, configuration: sequential file I/O, read-only queries and static tables.
* Metrics and statistics of `analysis.py`: pure functions of files others write.
* The scripted adapter and the performance trace: tests and measurements.
* `agent_runtime.py`: the in-process manager, of which the server uses only the
  check of the settings, `is_agent_runtime_enabled`.
* Deletion, templates, titles and tags of conversations; run and typing events in the page.
