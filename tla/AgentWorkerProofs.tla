------------------------- MODULE AgentWorkerProofs -------------------------
(***************************************************************************)
(* Proofs about AgentWorker for any messages, runs, retries, pauses and    *)
(* faults: IInv is inductive, the server knows the run of the worker, and  *)
(* the runs agree with the transcript; QueueInv is inductive with it, no   *)
(* message is forgotten, runs keep to their episode and drafts are fresh.  *)
(***************************************************************************)
EXTENDS AgentWorkerInv, SequenceTheorems, FiniteSetTheorems, WellFoundedInduction, TLAPS

\* A function on 1..n is a sequence.
LEMMA Listed ==
    ASSUME NEW S, NEW n \in Nat, NEW f \in [1..n -> S]
    PROVE  f \in Seq(S) /\ Len(f) = n /\ DOMAIN f = 1..n
OBVIOUS

\* A new status changes the run and nothing else.
LEMMA StatusSet ==
    ASSUME Shapes, NEW r \in DOMAIN runs, NEW status, runs' = WithStatus(r, status)
    PROVE  /\ runs' \in Seq(Range(runs')) /\ Len(runs') = Len(runs)
           /\ Len(runs) \in Nat
           /\ DOMAIN runs' = 1..Len(runs) /\ DOMAIN runs = 1..Len(runs)
           /\ \A x \in DOMAIN runs : "status" \in DOMAIN runs'[x]
           /\ runs'[r].status = status
           /\ \A x \in DOMAIN runs \ {r} : runs'[x] = runs[x]
<1>1. Len(runs) \in Nat /\ DOMAIN runs = 1..Len(runs)
    BY LenProperties DEF Shapes
<1>2. DOMAIN runs' = 1..Len(runs)
    BY <1>1 DEF WithStatus
<1>3. runs' \in [1..Len(runs) -> Range(runs')]
    BY <1>2 DEF Range, WithStatus
<1>4. runs' \in Seq(Range(runs')) /\ Len(runs') = Len(runs)
    BY <1>1, <1>3, Listed
<1>5. /\ \A x \in DOMAIN runs : "status" \in DOMAIN runs'[x]
      /\ runs'[r].status = status
      /\ \A x \in DOMAIN runs \ {r} : runs'[x] = runs[x]
    BY DEF Shapes, WithStatus
<1> QED
    BY <1>1, <1>2, <1>4, <1>5

\* A message is added at the end of the transcript.
LEMMA LogGrows ==
    ASSUME Shapes, NEW m, log' = Append(log, m)
    PROVE  /\ log' \in Seq(Range(log'))
           /\ Len(log) \in Nat /\ DOMAIN log = 1..Len(log)
           /\ Len(log') = Len(log) + 1 /\ DOMAIN log' = 1..(Len(log) + 1)
           /\ \A i \in DOMAIN log : log'[i] = log[i]
           /\ log'[Len(log) + 1] = m
<1> DEFINE S == Range(log) \cup {m}
<1>1. log \in Seq(S)
    BY LenProperties, SeqDef DEF Shapes
<1>2. /\ log' \in Seq(S)
      /\ Len(log') = Len(log) + 1
      /\ \A i \in 1..Len(log) : log'[i] = log[i]
      /\ log'[Len(log) + 1] = m
    BY <1>1, AppendProperties
<1>3. /\ Len(log) \in Nat /\ DOMAIN log = 1..Len(log)
      /\ Len(log') \in Nat /\ DOMAIN log' = 1..Len(log') /\ log' \in [1..Len(log') -> S]
    BY <1>1, <1>2, LenProperties
<1>4. log' \in [1..Len(log') -> Range(log')]
    BY <1>3 DEF Range
<1>5. log' \in Seq(Range(log'))
    BY <1>3, <1>4, Listed
<1> QED
    BY <1>2, <1>3, <1>5

\* A run is added after the others.
LEMMA RunsGrow ==
    ASSUME Shapes, NEW run, runs' = Append(runs, run)
    PROVE  /\ runs' \in Seq(Range(runs'))
           /\ Len(runs) \in Nat /\ DOMAIN runs = 1..Len(runs)
           /\ Len(runs') = Len(runs) + 1 /\ DOMAIN runs' = 1..(Len(runs) + 1)
           /\ \A i \in DOMAIN runs : runs'[i] = runs[i]
           /\ runs'[Len(runs) + 1] = run
<1> DEFINE S == Range(runs) \cup {run}
<1>1. runs \in Seq(S)
    BY LenProperties, SeqDef DEF Shapes
<1>2. /\ runs' \in Seq(S)
      /\ Len(runs') = Len(runs) + 1
      /\ \A i \in 1..Len(runs) : runs'[i] = runs[i]
      /\ runs'[Len(runs) + 1] = run
    BY <1>1, AppendProperties
<1>3. /\ Len(runs) \in Nat /\ DOMAIN runs = 1..Len(runs)
      /\ Len(runs') \in Nat /\ DOMAIN runs' = 1..Len(runs') /\ runs' \in [1..Len(runs') -> S]
    BY <1>1, <1>2, LenProperties
<1>4. runs' \in [1..Len(runs') -> Range(runs')]
    BY <1>3 DEF Range
<1>5. runs' \in Seq(Range(runs'))
    BY <1>3, <1>4, Listed
<1> QED
    BY <1>2, <1>3, <1>5

\* The three posts at the end of a run leave nothing of it in the row.
LEMMA FinishedRow ==
    ASSUME NEW old \in Rows, NEW r \in Nat \ {NoRun}, NEW phase,
           NEW status \in Terminal,
           old.active = r, old.typing \in {NoRun, r}
    PROVE  StatePost(TypingStop(StatusPost(old, r, status, phase), r), "LISTENING")
             = [state |-> "LISTENING", active |-> NoRun, typing |-> NoRun]
BY DEF StatePost, TypingStop, StatusPost, Applies, Terminal, Rows, NoRun

\* The state before the first process runs.
LEMMA InitIInv == Init => IInv
<1> SUFFICES ASSUME Init PROVE IInv
    OBVIOUS
<1> USE DEF Init, NoRow, NoRun, NewWorker
<1>1. Shapes
    BY DEF Shapes, Rows, WorkerStates, Places, Range, Phases
<1>2. WorkerHasItsRun /\ RowsAreConsistent
    BY DEF WorkerHasItsRun, RowsAreConsistent, Calling, Alive
<1>3. RequestsAreOpen /\ AnswersAreTrue
    BY DEF RequestsAreOpen, AnswersAreTrue
<1>4. ServerKnowsTheRun /\ RunsMatchMessages
    BY DEF ServerKnowsTheRun, RunsMatchMessages, Alive
<1> QED
    BY <1>1, <1>2, <1>3, <1>4 DEF IInv
-----------------------------------------------------------------------------
(* What steps do to the invariant, by what they change *)

\* The run, its row and its requests stay; the loop may move on, but not into
\* or out of a submission that has no refusal yet.
LEMMA CalmKeeps ==
    ASSUME IInv,
           runs' = runs, log' = log, requests' = requests,
           row' \in Rows, row'.active = row.active, row'.typing = row.typing,
           row'.state = "none" => row' = NoRow,
           DOMAIN w' = DOMAIN w,
           w'.active = w.active, w'.typing = w.typing, w'.stop \in BOOLEAN, w'.phase \in Phases,
           pc' \in Places, faults' \in Nat,
           faults' = 0 => faults = 0 /\ ~w'.stop /\ pc' \notin {"down", "gone"},
           \/ pc' = pc /\ reply' = reply
           \/ /\ pc' # "submitting"
              /\ pc = "submitting" => reply.type \notin {"none", "stored"},
           Alive' => Alive \/ pc \in {"starting", "connecting"},
           ~Alive' => pc \in {pc', "starting", "connecting"} /\ ~Alive,
           Calling' => w.active # NoRun
    PROVE  IInv'
<1>1. Shapes'
    BY DEF IInv, Shapes
<1>2. WorkerHasItsRun'
    BY DEF IInv, WorkerHasItsRun
<1>3. RowsAreConsistent'
    BY DEF IInv, RowsAreConsistent
<1>4. RequestsAreOpen'
    BY DEF IInv, RequestsAreOpen, AnswersAreTrue, Stored, Requested
<1>5. AnswersAreTrue'
    BY DEF IInv, AnswersAreTrue, Stored, Requested
<1>6. ServerKnowsTheRun'
    BY DEF IInv, ServerKnowsTheRun, Alive, WorkerHasItsRun
<1>7. RunsMatchMessages'
    BY DEF IInv, RunsMatchMessages
<1> QED
    BY <1>1, <1>2, <1>3, <1>4, <1>5, <1>6, <1>7 DEF IInv

\* A run gets its last status, and row and worker forget it.
LEMMA EndingKeeps ==
    ASSUME IInv, w.active # NoRun, Alive,
           NEW status \in Terminal,
           runs' = WithStatus(w.active, status), log' = log, requests' = requests,
           row' \in Rows, row'.state # "none",
           row'.active = NoRun, row'.typing = NoRun,
           DOMAIN w' = DOMAIN w,
           w'.active = NoRun, w'.typing = FALSE, w'.stop \in BOOLEAN,
           w'.phase \in Phases,
           pc' \in {"idle", "backoff", "waiting", "down"}, faults' = faults,
           faults = 0 => ~w'.stop /\ pc' # "down",
           status = "ENDED" => (pc = "submitting" => reply.type \notin {"none", "stored"}),
           status = "COMMITTED" => pc = "submitting" /\ reply.type = "stored"
    PROVE  IInv'
<1> DEFINE r == w.active
<1>1. r \in DOMAIN runs
  <2>1. Len(runs) \in Nat /\ DOMAIN runs = 1..Len(runs)
      BY LenProperties DEF IInv, Shapes
  <2> QED
      BY <2>1 DEF IInv, Shapes, NoRun
<1>2. /\ runs' \in Seq(Range(runs')) /\ Len(runs') = Len(runs)
      /\ Len(runs) \in Nat
      /\ DOMAIN runs' = 1..Len(runs) /\ DOMAIN runs = 1..Len(runs)
      /\ \A x \in DOMAIN runs : "status" \in DOMAIN runs'[x]
      /\ runs'[r].status = status
      /\ \A x \in DOMAIN runs \ {r} : runs'[x] = runs[x]
    BY <1>1, StatusSet DEF IInv
<1>4. Shapes'
  <2>1. /\ row' \in Rows /\ pc' \in Places /\ faults' \in Nat
        /\ DOMAIN w' = DOMAIN NewWorker(0)
        /\ w'.typing \in BOOLEAN /\ w'.stop \in BOOLEAN /\ w'.phase \in Phases
      BY DEF IInv, Shapes, Places
  <2>2. w'.active \in 0..Len(runs')
      BY <1>2 DEF NoRun
  <2>3. /\ log' \in Seq(Range(log')) /\ \A s \in DOMAIN log' : "run" \in DOMAIN log'[s]
        /\ \A q \in requests' : "run" \in DOMAIN q
      BY DEF IInv, Shapes
  <2> QED
      BY <1>2, <2>1, <2>2, <2>3 DEF Shapes
<1>5. WorkerHasItsRun'
    BY DEF IInv, WorkerHasItsRun, Calling, Alive
<1>6. RowsAreConsistent'
    BY <1>2 DEF RowsAreConsistent, NoRun
<1>7. ~Requested(r) /\ (faults = 0 => requests = {})
    BY DEF IInv, AnswersAreTrue, RequestsAreOpen, Requested, Terminal
<1>8. RequestsAreOpen'
    BY <1>2, <1>7 DEF IInv, RequestsAreOpen, Stored
<1>9. AnswersAreTrue'
    BY DEF AnswersAreTrue
<1>10. ServerKnowsTheRun'
    BY <1>2 DEF IInv, ServerKnowsTheRun, Terminal, Alive
<1>11. status = "ENDED" => ~Stored(r)
    BY DEF IInv, AnswersAreTrue
<1>12. status = "COMMITTED" => Stored(r)
    BY DEF IInv, AnswersAreTrue
<1>13. RunsMatchMessages'
  <2>1. \A x \in DOMAIN runs' : runs'[x].status = "COMMITTED" => Stored(x)
      BY <1>2, <1>12 DEF IInv, RunsMatchMessages, Stored, Terminal
  <2>2. ASSUME faults = 0, NEW s \in DOMAIN log, log[s].run # NoRun
        PROVE  runs'[log[s].run].status = "COMMITTED"
    <3>1. log[s].run \in DOMAIN runs
        BY <1>2, <2>2 DEF IInv, RequestsAreOpen, NoRun
    <3>2. CASE log[s].run = r
        BY <1>2, <1>11, <3>2 DEF Stored, Terminal
    <3>3. CASE log[s].run # r
        BY <1>2, <2>2, <3>1, <3>3 DEF IInv, RunsMatchMessages
    <3> QED
        BY <3>2, <3>3
  <2> QED
      BY <1>2, <2>1, <2>2 DEF IInv, RunsMatchMessages, Stored
<1> QED
    BY <1>4, <1>5, <1>6, <1>8, <1>9, <1>10, <1>13 DEF IInv

\* The process is gone, and what it has posted stays.
LEMMA DyingKeeps ==
    ASSUME IInv, Alive, runs' = runs, log' = log, requests' = requests, row' = row,
           pc' = "down", w' = NewWorker(0), faults' \in Nat \ {0}
    PROVE  IInv'
<1>1. Shapes'
    BY LenProperties DEF IInv, Shapes, NewWorker, Places, Phases, NoRun
<1>2. WorkerHasItsRun'
    BY DEF WorkerHasItsRun, NewWorker, Calling
<1>3. RowsAreConsistent'
    BY DEF IInv, RowsAreConsistent
<1>4. RequestsAreOpen' /\ AnswersAreTrue'
    BY DEF IInv, RequestsAreOpen, AnswersAreTrue, Stored, Requested, NewWorker
<1>5. ServerKnowsTheRun' /\ RunsMatchMessages'
    BY DEF IInv, ServerKnowsTheRun, RunsMatchMessages, Alive
<1> QED
    BY <1>1, <1>2, <1>3, <1>4, <1>5 DEF IInv

\* Users and the other agent add messages that belong to no run of the worker.
LEMMA OthersPostKeeps ==
    ASSUME IInv, NEW m, "run" \in DOMAIN m, m.run = NoRun, log' = Append(log, m),
           UNCHANGED <<runs, requests, row, pc, w, reply, faults>>
    PROVE  IInv'
<1>1. log \in Seq(Range(log)) /\ runs \in Seq(Range(runs))
    BY DEF IInv, Shapes
<1>2. /\ log' \in Seq(Range(log'))
      /\ Len(log) \in Nat /\ DOMAIN log = 1..Len(log)
      /\ DOMAIN log' = 1..(Len(log) + 1)
      /\ \A s \in DOMAIN log : log'[s] = log[s]
      /\ log'[Len(log) + 1] = m
    BY LogGrows DEF IInv
<1>3. Len(runs) \in Nat /\ DOMAIN runs = 1..Len(runs)
    BY <1>1, LenProperties
<1>4. \A r : r # NoRun => (Stored(r)' <=> Stored(r))
    BY <1>2 DEF Stored
<1>5. Shapes'
    BY <1>2 DEF IInv, Shapes
<1>6. WorkerHasItsRun' /\ RowsAreConsistent' /\ ServerKnowsTheRun'
    BY DEF IInv, WorkerHasItsRun, RowsAreConsistent, ServerKnowsTheRun, Calling, Alive
<1>7. RequestsAreOpen'
    BY <1>2, <1>3, <1>4 DEF IInv, RequestsAreOpen, NoRun
<1>8. AnswersAreTrue'
    BY <1>4 DEF IInv, AnswersAreTrue, WorkerHasItsRun, Requested
<1>9. RunsMatchMessages'
    BY <1>2, <1>3 DEF IInv, RunsMatchMessages, NoRun
<1> QED
    BY <1>5, <1>6, <1>7, <1>8, <1>9 DEF IInv

\* A request is refused: nothing is stored for its run.
LEMMA RefusalKeeps ==
    ASSUME IInv, NEW q \in requests, NEW type, type \notin {"none", "stored"}, NEW seq,
           Answer(q, type, seq),
           UNCHANGED <<log, runs, row, pc, w, faults>>
    PROVE  IInv'
<1>1. Shapes' /\ WorkerHasItsRun' /\ RowsAreConsistent'
    BY DEF IInv, Shapes, WorkerHasItsRun, RowsAreConsistent, Answer, Calling, Alive
<1>2. ServerKnowsTheRun' /\ RunsMatchMessages'
    BY DEF IInv, ServerKnowsTheRun, RunsMatchMessages, Alive
<1>3. RequestsAreOpen'
    BY DEF IInv, RequestsAreOpen, Stored, Answer
<1>4. AnswersAreTrue'
  <2>1. ~Stored(q.run) /\ \A p \in requests : p.run = q.run => p = q
      BY DEF IInv, RequestsAreOpen
  <2>2. CASE pc = "submitting" /\ w.active = q.run
      BY <2>1, <2>2 DEF AnswersAreTrue, Answer, Stored, Requested
  <2>3. CASE ~(pc = "submitting" /\ w.active = q.run)
      BY <2>3 DEF IInv, AnswersAreTrue, Answer, Stored, Requested
  <2> QED
      BY <2>2, <2>3
<1> QED
    BY <1>1, <1>2, <1>3, <1>4 DEF IInv

\* A request is granted: the first message of its run.
LEMMA GrantKeeps ==
    ASSUME IInv, NEW q \in requests, NEW seq, NEW m,
           "run" \in DOMAIN m, m.run = q.run, log' = Append(log, m),
           Answer(q, "stored", seq),
           UNCHANGED <<runs, row, pc, w, faults>>
    PROVE  IInv'
<1>1. log \in Seq(Range(log)) /\ runs \in Seq(Range(runs))
    BY DEF IInv, Shapes
<1>2. /\ log' \in Seq(Range(log'))
      /\ Len(log) \in Nat /\ DOMAIN log = 1..Len(log)
      /\ DOMAIN log' = 1..(Len(log) + 1)
      /\ \A s \in DOMAIN log : log'[s] = log[s]
      /\ log'[Len(log) + 1] = m
    BY LogGrows DEF IInv
<1>3. Len(runs) \in Nat /\ DOMAIN runs = 1..Len(runs)
    BY <1>1, LenProperties
<1>4. \A r : Stored(r)' <=> Stored(r) \/ r = q.run
    BY <1>2 DEF Stored
<1>5. /\ q.run \in DOMAIN runs /\ ~Stored(q.run)
      /\ \A p \in requests : p.run = q.run => p = q
      /\ requests' = requests \ {q}
    BY DEF IInv, RequestsAreOpen, Answer
<1>6. Shapes'
    BY <1>2, <1>5 DEF IInv, Shapes
<1>7. WorkerHasItsRun' /\ RowsAreConsistent' /\ ServerKnowsTheRun'
    BY DEF IInv, WorkerHasItsRun, RowsAreConsistent, ServerKnowsTheRun, Calling, Alive
<1>8. RequestsAreOpen'
    BY <1>2, <1>3, <1>4, <1>5 DEF IInv, RequestsAreOpen
<1>9. AnswersAreTrue'
  <2>1. CASE pc = "submitting" /\ w.active = q.run
      BY <1>4, <1>5, <2>1 DEF AnswersAreTrue, Answer, Requested
  <2>2. CASE pc = "submitting" /\ w.active # q.run
      BY <1>4, <1>5, <2>2 DEF IInv, AnswersAreTrue, Answer, Requested
  <2>3. CASE pc # "submitting"
    <3>1. w.active # NoRun => w.active # q.run
        BY <2>3 DEF IInv, AnswersAreTrue, Requested
    <3> QED
        BY <1>4, <1>5, <2>3, <3>1 DEF IInv, AnswersAreTrue, Requested
  <2> QED
      BY <2>1, <2>2, <2>3
<1>10. RunsMatchMessages'
  <2>1. \A s, t \in DOMAIN log' : log'[s].run = log'[t].run => s = t \/ log'[s].run = NoRun
      BY <1>2, <1>5 DEF IInv, RunsMatchMessages, Stored
  <2>2. \A r \in DOMAIN runs :
            runs[r].status = "COMMITTED" => \E s \in DOMAIN log' : log'[s].run = r
      BY <1>2 DEF IInv, RunsMatchMessages
  <2>3. faults = 0 => q.run = w.active
      BY DEF IInv, RequestsAreOpen
  <2>4. faults = 0 => \A s \in DOMAIN log' :
            log'[s].run # NoRun => runs[log'[s].run].status = "COMMITTED"
                                  \/ log'[s].run = w.active
      BY <1>2, <2>3 DEF IInv, RunsMatchMessages
  <2> QED
      BY <2>1, <2>2, <2>4 DEF RunsMatchMessages
<1> QED
    BY <1>6, <1>7, <1>8, <1>9, <1>10 DEF IInv

\* The status has been looked at; the request stays open.
LEMMA CheckedKeeps ==
    ASSUME IInv, NEW q \in requests,
           requests' = (requests \ {q}) \cup {[q EXCEPT !.checked = TRUE]},
           UNCHANGED <<log, runs, row, pc, w, reply, faults>>
    PROVE  IInv'
<1> DEFINE c == [q EXCEPT !.checked = TRUE]
<1>1. "run" \in DOMAIN q /\ "run" \in DOMAIN c /\ c.run = q.run
    BY DEF IInv, Shapes
<1> HIDE DEF c
<1>2. \A r : Requested(r)' <=> Requested(r)
    BY <1>1 DEF Requested, c
<1>3. Shapes' /\ WorkerHasItsRun' /\ RowsAreConsistent'
    BY <1>1 DEF IInv, Shapes, WorkerHasItsRun, RowsAreConsistent, Calling, Alive, c
<1>4. requests' = (requests \ {q}) \cup {c}
    BY DEF c
<1>5. RequestsAreOpen'
    BY <1>1, <1>4 DEF IInv, RequestsAreOpen, Stored
<1>6. AnswersAreTrue'
    BY <1>2 DEF IInv, AnswersAreTrue, Stored
<1>7. ServerKnowsTheRun' /\ RunsMatchMessages'
    BY DEF IInv, ServerKnowsTheRun, RunsMatchMessages, Alive
<1> QED
    BY <1>3, <1>5, <1>6, <1>7 DEF IInv

\* A draft is sent for a run that has neither a message nor a request.
LEMMA SendKeeps ==
    ASSUME IInv, w.active # NoRun, Alive,
           pc = "submitting" => reply.type \notin {"none", "stored"},
           NEW worker, DOMAIN worker = DOMAIN w, worker.active = w.active,
           worker.typing = w.typing, worker.stop = w.stop,
           worker.phase = w.phase,
           Send(worker),
           UNCHANGED <<log, runs, row, faults>>
    PROVE  IInv'
<1> DEFINE q == [run |-> worker.active, expected |-> worker.expected, checked |-> FALSE]
<1>1. /\ pc' = "submitting" /\ w' = worker /\ reply'.type = "none"
      /\ requests' = requests \cup {q}
    BY DEF Send, NoReply
<1>2. q.run = w.active /\ "run" \in DOMAIN q
    OBVIOUS
<1> HIDE DEF q
<1>3. ~Stored(w.active) /\ ~Requested(w.active)
    BY DEF IInv, AnswersAreTrue
<1>4. w.active \in DOMAIN runs
    BY LenProperties DEF IInv, Shapes, NoRun
<1>5. Shapes'
    BY <1>1, <1>2 DEF IInv, Shapes, Places
<1>6. WorkerHasItsRun' /\ RowsAreConsistent'
    BY <1>1 DEF IInv, WorkerHasItsRun, RowsAreConsistent, Calling, Alive
<1>7. RequestsAreOpen'
    BY <1>1, <1>2, <1>3, <1>4 DEF IInv, RequestsAreOpen, Stored, Requested
<1>8. AnswersAreTrue'
    BY <1>1, <1>2 DEF AnswersAreTrue, Requested
<1>9. ServerKnowsTheRun' /\ RunsMatchMessages'
    BY <1>1 DEF IInv, ServerKnowsTheRun, RunsMatchMessages, Alive
<1> QED
    BY <1>5, <1>6, <1>7, <1>8, <1>9 DEF IInv

\* Typing is shown for a run that the worker has.
LEMMA TypingKeeps ==
    ASSUME IInv, w.active # NoRun, Alive, pc # "submitting",
           row' = TypingStart(row, w.active),
           DOMAIN w' = DOMAIN w, w'.active = w.active, w'.typing = TRUE, w'.stop = w.stop,
           w'.phase \in Phases,
           pc' \in {"deciding", "acting"},
           UNCHANGED <<log, runs, requests, reply, faults>>
    PROVE  IInv'
<1>1. row.active = w.active /\ row.typing = IF w.typing THEN w.active ELSE NoRun
    BY DEF IInv, ServerKnowsTheRun
<1>2. row' \in Rows /\ row'.active = w.active /\ row'.typing = w.active /\ row'.state = row.state
    BY <1>1 DEF IInv, Shapes, TypingStart, Rows
<1>3. row.state # "none"
    BY <1>1 DEF IInv, RowsAreConsistent, NoRow
<1>4. Shapes' /\ WorkerHasItsRun' /\ RowsAreConsistent'
    BY <1>1, <1>2, <1>3 DEF IInv, Shapes, WorkerHasItsRun, RowsAreConsistent, Calling,
                            Alive, Places
<1>5. RequestsAreOpen' /\ AnswersAreTrue'
    BY DEF IInv, RequestsAreOpen, AnswersAreTrue, Stored, Requested
<1>6. ServerKnowsTheRun' /\ RunsMatchMessages'
    BY <1>1, <1>2 DEF IInv, ServerKnowsTheRun, RunsMatchMessages, Alive
<1> QED
    BY <1>4, <1>5, <1>6 DEF IInv

\* A run is started: neither a message nor a request of it exists yet.
LEMMA StartKeeps ==
    ASSUME IInv, w.active = NoRun, Alive, pc # "submitting",
           NEW run, "status" \in DOMAIN run, run.status = "RUNNING",
           runs' = Append(runs, run), log' = log, requests' = requests,
           NEW shown \in BOOLEAN,
           LET posted == StatusPost(row, Len(runs) + 1, "RUNNING", "DECIDING")
           IN  row' = IF shown THEN TypingStart(posted, Len(runs) + 1) ELSE posted,
           DOMAIN w' = DOMAIN w, w'.active = Len(runs) + 1, w'.typing = shown,
           w'.stop = w.stop, w'.phase \in Phases, pc' = "deciding", faults' = faults
    PROVE  IInv'
<1> DEFINE r == Len(runs) + 1
<1>1. /\ runs' \in Seq(Range(runs'))
      /\ Len(runs) \in Nat /\ DOMAIN runs = 1..Len(runs)
      /\ Len(runs') = r /\ DOMAIN runs' = 1..r
      /\ \A i \in DOMAIN runs : runs'[i] = runs[i]
      /\ runs'[r] = run
    BY RunsGrow DEF IInv
<1>2. r # NoRun /\ r \in Nat /\ r \notin DOMAIN runs
    BY <1>1 DEF NoRun
<1>3. row.active = NoRun /\ row.typing = NoRun /\ row \in Rows
    BY DEF IInv, ServerKnowsTheRun, Shapes
<1>4. row' = [state |-> "DECIDING", active |-> r, typing |-> IF shown THEN r ELSE NoRun]
    BY <1>2, <1>3 DEF StatusPost, TypingStart, Applies, Terminal, Rows
<1>5. ~Stored(r) /\ ~Requested(r)
    BY <1>1, <1>2 DEF IInv, RequestsAreOpen, Stored, Requested
<1>6. Shapes'
    BY <1>1, <1>2, <1>4 DEF IInv, Shapes, Rows, WorkerStates, Places, NoRun
<1>7. WorkerHasItsRun' /\ RowsAreConsistent'
    BY <1>1, <1>2, <1>4 DEF IInv, WorkerHasItsRun, RowsAreConsistent, Calling, Alive, NoRun
<1>8. RequestsAreOpen' /\ AnswersAreTrue'
    BY <1>1, <1>2, <1>5 DEF IInv, RequestsAreOpen, AnswersAreTrue, Stored, Requested
<1>9. ServerKnowsTheRun'
  <2>1. \A x \in DOMAIN runs : runs[x].status # "RUNNING"
      BY <1>1, <1>3 DEF IInv, ServerKnowsTheRun, NoRun
  <2>2. row'.active = w'.active /\ row'.typing = IF w'.typing THEN w'.active ELSE NoRun
      BY <1>4
  <2> QED
      BY <1>1, <1>2, <1>4, <2>1, <2>2 DEF ServerKnowsTheRun
<1>10. RunsMatchMessages'
  <2>1. \A s \in DOMAIN log : log[s].run # NoRun => log[s].run \in DOMAIN runs
      BY <1>1 DEF IInv, RequestsAreOpen, NoRun
  <2> QED
      BY <1>1, <1>2, <2>1 DEF IInv, RunsMatchMessages
<1> QED
    BY <1>6, <1>7, <1>8, <1>9, <1>10 DEF IInv

\* The supervisor ends the run that the row still shows.
LEMMA ExitRecordedKeeps ==
    ASSUME IInv, pc = "down", NEW fatal \in BOOLEAN,
           row' = ExitedRow(row, fatal),
           runs' = IF row.active = NoRun THEN runs ELSE WithStatus(row.active, "ENDED"),
           pc' \in {"gone", "starting"},
           UNCHANGED <<log, requests, w, reply, faults>>
    PROVE  IInv'
<1>1. faults # 0 /\ w.active = NoRun
    BY DEF IInv, WorkerHasItsRun, Alive
<1>2. row' \in Rows /\ row'.active = NoRun /\ row'.typing = NoRun
      /\ (row'.state = "none" => row' = NoRow)
    BY DEF IInv, Shapes, RowsAreConsistent, ExitedRow, Rows, WorkerStates, NoRow, NoRun
<1>3. /\ runs' \in Seq(Range(runs')) /\ Len(runs') = Len(runs)
      /\ Len(runs) \in Nat /\ DOMAIN runs' = DOMAIN runs /\ DOMAIN runs = 1..Len(runs)
      /\ \A x \in DOMAIN runs : "status" \in DOMAIN runs'[x]
      /\ \A x \in DOMAIN runs :
            runs'[x].status = IF x = row.active THEN "ENDED" ELSE runs[x].status
  <2>1. Len(runs) \in Nat /\ DOMAIN runs = 1..Len(runs)
      BY LenProperties DEF IInv, Shapes
  <2>2. CASE row.active = NoRun
      BY <2>1, <2>2 DEF IInv, Shapes, NoRun
  <2>3. CASE row.active # NoRun
    <3>1. row.active \in DOMAIN runs
        BY <2>1, <2>3 DEF IInv, RowsAreConsistent, NoRun
    <3> QED
        BY <2>1, <2>3, <3>1, StatusSet DEF IInv
  <2> QED
      BY <2>2, <2>3
<1>4. Shapes'
    BY <1>2, <1>3 DEF IInv, Shapes, Places
<1>5. WorkerHasItsRun' /\ RowsAreConsistent'
    BY <1>1, <1>2, <1>3 DEF IInv, WorkerHasItsRun, RowsAreConsistent, Calling, Alive, NoRun
<1>6. RequestsAreOpen' /\ AnswersAreTrue'
    BY <1>1, <1>3 DEF IInv, RequestsAreOpen, AnswersAreTrue, Stored, Requested
<1>7. ServerKnowsTheRun'
    BY <1>2, <1>3 DEF IInv, ServerKnowsTheRun, Alive
<1>8. RunsMatchMessages'
    BY <1>1, <1>3 DEF IInv, RunsMatchMessages
<1> QED
    BY <1>4, <1>5, <1>6, <1>7, <1>8 DEF IInv
-----------------------------------------------------------------------------
(* The actions *)

\* Steps of queues and of the status do not touch what the invariant is about.
LEMMA Untouched ==
    ASSUME IInv, UNCHANGED <<log, requests, row, runs, pc, w, reply, faults>>
    PROVE  IInv'
BY DEF IInv, Shapes, WorkerHasItsRun, RowsAreConsistent, RequestsAreOpen, AnswersAreTrue,
       ServerKnowsTheRun, RunsMatchMessages, Stored, Requested, Calling, Alive

\* What the invariant says of the row while the worker is connected.
LEMMA RowOfWorker ==
    ASSUME IInv, Alive
    PROVE  /\ row \in Rows /\ row.active = w.active
           /\ row.typing = IF w.typing THEN w.active ELSE NoRun
           /\ w.active \in Nat
           /\ w.typing => w.active # NoRun
           /\ w.active # NoRun => row.state # "none"
           /\ faults = 0 => ~w.stop
           /\ DOMAIN w = DOMAIN NewWorker(0) /\ w.stop \in BOOLEAN /\ w.phase \in Phases
           /\ pc \in Places /\ faults \in Nat
<1>1. Len(runs) \in Nat
    BY LenProperties DEF IInv, Shapes
<1>2. w.active \in Nat
    BY <1>1 DEF IInv, Shapes
<1>3. w.active # NoRun => row.state # "none"
    BY DEF IInv, ServerKnowsTheRun, RowsAreConsistent, NoRow
<1> QED
    BY <1>2, <1>3 DEF IInv, Shapes, ServerKnowsTheRun, WorkerHasItsRun

\* The loop moves on with the same run and the same record.
LEMMA LoopMoves ==
    ASSUME IInv, Alive, UNCHANGED <<log, requests, row, runs, faults>>,
           DOMAIN w' = DOMAIN w, w'.active = w.active, w'.typing = w.typing, w'.stop = w.stop,
           w'.phase \in Phases,
           \/ pc' = pc /\ reply' = reply
           \/ /\ pc' \in {"idle", "deciding", "acting", "waiting", "reconsidering", "backoff"}
              /\ pc = "submitting" => reply.type \notin {"none", "stored"},
           pc' \in {"deciding", "acting", "reconsidering"} => w.active # NoRun
    PROVE  IInv'
<1>1. /\ row' \in Rows /\ (row'.state = "none" => row' = NoRow)
      /\ w'.stop \in BOOLEAN /\ w'.phase \in Phases /\ pc' \in Places /\ faults' \in Nat
    BY RowOfWorker DEF IInv, RowsAreConsistent, Places
<1>2. Alive'
    BY DEF Alive
<1>3. faults' = 0 => faults = 0 /\ ~w'.stop /\ pc' \notin {"down", "gone"}
    BY <1>2, RowOfWorker DEF Alive
<1> QED
    BY <1>1, <1>2, <1>3, CalmKeeps DEF Calling

\* A run ends with its last posts.
LEMMA FinishKeeps ==
    ASSUME IInv, Alive, w.active # NoRun, NEW status \in Terminal, Finish(status),
           UNCHANGED <<log, requests, faults>>,
           DOMAIN w' = DOMAIN w, w'.active = NoRun, w'.typing = FALSE, w'.stop = w.stop,
           w'.phase \in Phases,
           pc' = "idle",
           status = "ENDED" => (pc = "submitting" => reply.type \notin {"none", "stored"}),
           status = "COMMITTED" => pc = "submitting" /\ reply.type = "stored"
    PROVE  IInv'
<1>1. row.active = w.active /\ row.typing \in {NoRun, w.active} /\ row \in Rows
      /\ w.active \in Nat \ {NoRun} /\ (faults = 0 => ~w.stop) /\ w.stop \in BOOLEAN
    BY RowOfWorker
<1>2. row' = [state |-> "LISTENING", active |-> NoRun, typing |-> NoRun]
    BY <1>1, FinishedRow DEF Finish, Post
<1>3. runs' = WithStatus(w.active, status)
    BY DEF Finish, Post
<1>4. row' \in Rows /\ row'.state # "none" /\ row'.active = NoRun /\ row'.typing = NoRun
    BY <1>2 DEF Rows, WorkerStates, NoRun
<1> QED
    BY <1>1, <1>3, <1>4, EndingKeeps

\* A run is given up.
LEMMA EndRunKeeps ==
    ASSUME IInv, Alive, w.active # NoRun, EndRun, UNCHANGED <<log, requests, faults>>,
           pc = "submitting" => reply.type \notin {"none", "stored"}
    PROVE  IInv'
<1>1. DOMAIN w = DOMAIN NewWorker(0)
    BY RowOfWorker
<1>2. /\ DOMAIN w' = DOMAIN w /\ w'.active = NoRun /\ w'.typing = FALSE
      /\ w'.stop = w.stop /\ w'.phase \in Phases /\ pc' = "idle" /\ Finish("ENDED")
    BY <1>1 DEF EndRun, Cleared, Silenced, NewWorker, Phases
<1> QED
    BY <1>2, FinishKeeps DEF Terminal

\* A process takes up at the snapshot and connects.
LEMMA BootKeeps == ASSUME IInv, Boot \/ Register PROVE IInv'
<1>1. /\ row \in Rows /\ (row.state = "none" => row = NoRow) /\ faults \in Nat
      /\ w.stop \in BOOLEAN /\ w.phase \in Phases /\ DOMAIN w = DOMAIN NewWorker(0)
      /\ (faults = 0 => ~w.stop)
    BY DEF IInv, Shapes, RowsAreConsistent, WorkerHasItsRun
<1>2. CASE Boot
  <2>1. w.active = NoRun /\ w.typing = FALSE
      BY <1>2 DEF Boot, IInv, Shapes, WorkerHasItsRun, Alive
  <2>2. /\ DOMAIN w' = DOMAIN w /\ w'.active = w.active /\ w'.typing = w.typing
        /\ w'.stop = FALSE /\ w'.phase \in Phases /\ pc = "starting" /\ pc' = "connecting"
      BY <1>1, <1>2, <2>1 DEF Boot, NewWorker, Phases
  <2> QED
      BY <1>1, <1>2, <2>2, CalmKeeps
        DEF Boot, server, socket, record, Places, Alive, Calling
<1>3. CASE Register
    BY <1>1, <1>3, CalmKeeps DEF Register, server, socket, record, Places, Alive, Calling
<1> QED
    BY <1>2, <1>3

\* A message or a control event is processed.
LEMMA ReceiveKeeps == ASSUME IInv, Receive PROVE IInv'
<1> USE DEF Receive, server, socket, record
<1>1. Alive /\ ~(pc \in {"deciding", "acting", "reconsidering", "submitting"})
    BY DEF Pumping, Alive
<1>2. DOMAIN w = DOMAIN NewWorker(0) /\ w.phase \in Phases
    BY <1>1, RowOfWorker
<1>3. ASSUME NEW s, ReceiveMessage(s) PROVE IInv'
  <2>1. /\ DOMAIN w' = DOMAIN w /\ w'.active = w.active
        /\ w'.typing = w.typing /\ w'.stop = w.stop
        /\ w'.phase = w.phase
      BY <1>2, <1>3 DEF ReceiveMessage, NewWorker
  <2> QED
      BY <1>1, <1>2, <1>3, <2>1, LoopMoves DEF ReceiveMessage
<1>4. ASSUME ReceiveResume PROVE IInv'
  <2>1. /\ DOMAIN w' = DOMAIN w /\ w'.active = w.active
        /\ w'.typing = w.typing /\ w'.stop = w.stop
        /\ w'.phase = w.phase
      BY <1>2, <1>4 DEF ReceiveResume, NewWorker
  <2>2. /\ row' \in Rows /\ row'.active = row.active /\ row'.typing = row.typing
        /\ row'.state # "none"
      BY <1>1, <1>4, RowOfWorker
        DEF ReceiveResume, Post, StatePost, StatusPost, Applies, Terminal, Rows,
            WorkerStates, NoRun
  <2>3. runs' = runs
      BY <1>4 DEF ReceiveResume, Post
  <2> QED
      BY <1>1, <1>2, <2>1, <2>2, <2>3, RowOfWorker, CalmKeeps DEF Alive, Calling
<1>5. ASSUME ReceivePause PROVE IInv'
  <2>1. /\ DOMAIN w' = DOMAIN w /\ w'.active = NoRun
        /\ w'.typing = FALSE /\ w'.stop = w.stop
        /\ w'.phase = w.phase
      BY <1>2, <1>5 DEF ReceivePause, NewWorker
  <2>2. CASE w.active = NoRun
    <3>1. w.typing = FALSE /\ row.typing = NoRun
        BY <1>1, <2>2, RowOfWorker DEF IInv, Shapes
    <3>2. /\ row' \in Rows /\ row'.active = row.active /\ row'.typing = row.typing
          /\ row'.state # "none" /\ runs' = runs
        BY <1>1, <1>5, <2>2, <3>1, RowOfWorker
          DEF ReceivePause, Post, StatePost, StatusPost, Applies, Terminal, Rows,
              WorkerStates, NoRun
    <3> QED
        BY <1>1, <1>2, <2>1, <2>2, <3>1, <3>2, RowOfWorker, CalmKeeps DEF Alive, Calling
  <2>3. CASE w.active # NoRun
    <3> DEFINE quiet == IF w.typing THEN TypingStop(row, w.active) ELSE row
    <3>1. quiet \in Rows /\ quiet.active = w.active /\ quiet.typing = NoRun
        BY <1>1, RowOfWorker DEF TypingStop, Rows, NoRun
    <3> HIDE DEF quiet
    <3>2. row' = StatePost(StatusPost(quiet, w.active, "ENDED", "PAUSED"), "PAUSED")
        BY <1>5, <2>3 DEF ReceivePause, Post, quiet
    <3>3. row' = [state |-> "PAUSED", active |-> NoRun, typing |-> NoRun]
        BY <2>3, <3>1, <3>2 DEF StatePost, StatusPost, Applies, Terminal, Rows, NoRun
    <3>4. row' \in Rows /\ row'.state # "none" /\ row'.active = NoRun /\ row'.typing = NoRun
        BY <3>3 DEF Rows, WorkerStates, NoRun
    <3>5. runs' = WithStatus(w.active, "ENDED")
        BY <1>5, <2>3 DEF ReceivePause, Post
    <3>6. pc' \in {"idle", "backoff", "waiting", "down"} /\ pc' # "down"
        BY DEF Pumping
    <3> QED
        BY <1>1, <1>2, <2>1, <2>3, <3>4, <3>5, <3>6, RowOfWorker, EndingKeeps DEF Terminal
  <2> QED
      BY <2>2, <2>3
<1> QED
    BY <1>3, <1>4, <1>5

\* A run is registered for what is pending.
LEMMA StartRunKeeps == ASSUME IInv, StartRun PROVE IInv'
<1> DEFINE s == Last(Batch)
           r == Len(runs) + 1
           shown == Me \in log[s].mentions
           run == [observed |-> ToSet(Batch), cause |-> s,
                   episode |-> EpisodeFor(s, BatchRoots # <<>>),
                   hop |-> HopFor(s, BatchRoots # <<>>), status |-> "RUNNING"]
           posted == StatusPost(row, r, "RUNNING", "DECIDING")
<1>1. Alive /\ w.active = NoRun /\ pc # "submitting" /\ pc' = "deciding"
    BY DEF StartRun, Alive
<1>2. DOMAIN w = DOMAIN NewWorker(0) /\ w.phase \in Phases
    BY <1>1, RowOfWorker
<1>3. DOMAIN w' = DOMAIN w /\ w'.active = r /\ w'.typing = shown /\ w'.stop = w.stop
      /\ w'.phase \in Phases
    BY <1>2 DEF StartRun, NewWorker, Phases
<1>4. /\ runs' = Append(runs, run)
      /\ row' = IF shown THEN TypingStart(posted, r) ELSE posted
      /\ UNCHANGED <<log, requests, faults>>
    BY DEF StartRun, Post, server
<1>5. "status" \in DOMAIN run /\ run.status = "RUNNING" /\ shown \in BOOLEAN
    OBVIOUS
<1> HIDE DEF run, shown
<1> QED
    BY <1>1, <1>3, <1>4, <1>5, StartKeeps

\* A decision, a draft, a signal seen after a call, or the start of a backoff.
LEMMA CallKeeps ==
    ASSUME IInv, DecideToReply \/ DecideSilence \/ DraftIsReady \/ StoppedInCall
                 \/ CallFails \/ CallRetries
    PROVE  IInv'
<1> USE DEF Elsewhere, server, socket, record
<1>1. Calling /\ Alive /\ pc # "submitting"
    BY DEF DecideToReply, DecideSilence, DraftIsReady, StoppedInCall, CallFails,
           CallRetries, Calling, Alive
<1>2. w.active # NoRun /\ DOMAIN w = DOMAIN NewWorker(0) /\ w.phase \in Phases
    BY <1>1, RowOfWorker DEF IInv, WorkerHasItsRun
<1>3. CASE DecideToReply
  <2>1. DOMAIN w' = DOMAIN w /\ w'.active = w.active /\ w'.typing = TRUE /\ w'.stop = w.stop
        /\ w'.phase \in Phases
      BY <1>2, <1>3 DEF DecideToReply, Phase, NewWorker, Phases
  <2> QED
      BY <1>1, <1>2, <1>3, <2>1, TypingKeeps DEF DecideToReply, Phase
<1>4. CASE DecideSilence
  <2>1. DOMAIN w' = DOMAIN w /\ w'.active = NoRun /\ w'.typing = FALSE /\ w'.stop = w.stop
        /\ w'.phase \in Phases
      BY <1>2, <1>4 DEF DecideSilence, Silenced, NewWorker, Phases
  <2> QED
      BY <1>1, <1>2, <1>4, <2>1, FinishKeeps DEF DecideSilence, Terminal
<1>5. CASE DraftIsReady \/ StoppedInCall
    BY <1>1, <1>2, <1>5, LoopMoves DEF DraftIsReady, StoppedInCall
<1>6. CASE CallFails
    BY <1>1, <1>2, <1>6, EndRunKeeps DEF CallFails
<1>7. CASE CallRetries
  <2>1. DOMAIN w' = DOMAIN w /\ w'.active = w.active
        /\ w'.typing = w.typing /\ w'.stop = w.stop
        /\ w'.phase \in Phases
      BY <1>2, <1>7 DEF CallRetries, NewWorker, Phases
  <2> QED
      BY <1>1, <1>2, <1>7, <2>1, LoopMoves DEF CallRetries
<1> QED
    BY <1>3, <1>4, <1>5, <1>6, <1>7

\* After the backoff the call is tried again or the run is over.
LEMMA BackoffKeeps == ASSUME IInv, BackoffOver PROVE IInv'
<1> USE DEF Elsewhere, server, socket, record
<1>1. Alive /\ pc = "backoff"
    BY DEF BackoffOver, Alive
<1>2. DOMAIN w = DOMAIN NewWorker(0) /\ w.phase \in Phases
    BY <1>1, RowOfWorker
<1>3. CASE Interrupted /\ w.active # NoRun /\ EndRun
    BY <1>1, <1>3, EndRunKeeps DEF BackoffOver
<1>4. CASE /\ w.active = NoRun
           /\ pc' = "idle"
           /\ w' = Cleared
           /\ Post(StatePost(StatusPost(row, NoRun, "ENDED", "RECONSIDERING"),
                             "LISTENING"), runs)
  <2>1. w.typing = FALSE
      BY <1>1, <1>4, RowOfWorker DEF IInv, Shapes
  <2>2. /\ DOMAIN w' = DOMAIN w /\ w'.active = w.active
        /\ w'.typing = w.typing /\ w'.stop = w.stop
        /\ w'.phase \in Phases
      BY <1>2, <1>4, <2>1 DEF Cleared, Silenced, NewWorker, Phases
  <2>3. /\ row' \in Rows /\ row'.active = row.active /\ row'.typing = row.typing
        /\ row'.state # "none" /\ runs' = runs
      BY <1>1, <1>4, RowOfWorker
        DEF Post, StatePost, StatusPost, Applies, Terminal, Rows, WorkerStates, NoRun
  <2>4. pc' \in Places /\ Alive' /\ ~Calling' /\ pc' # "submitting"
      BY <1>4 DEF Places, Alive, Calling
  <2> QED
      BY <1>1, <1>4, <2>2, <2>3, <2>4, RowOfWorker, CalmKeeps DEF BackoffOver, Alive
<1>5. CASE /\ UNCHANGED <<row, runs>>
           /\ \/ /\ ~Interrupted /\ pc' = w.phase
                 /\ w' = [w EXCEPT !.retried = @ \/ w.phase = "reconsidering"]
              \/ pc' = "idle" /\ w' = w
  <2>0. /\ DOMAIN w' = DOMAIN w /\ w'.active = w.active
        /\ w'.typing = w.typing /\ w'.stop = w.stop
        /\ w'.phase = w.phase
      BY <1>2, <1>5 DEF NewWorker
  <2>1. pc' \in {"idle", "deciding", "acting", "reconsidering"}
        /\ (pc' # "idle" => w.active # NoRun)
      BY <1>2, <1>5 DEF Interrupted, Phases
  <2> QED
      BY <1>1, <1>2, <1>5, <2>0, <2>1, LoopMoves DEF BackoffOver
<1> QED
    BY <1>3, <1>4, <1>5 DEF BackoffOver

\* Before a draft is sent, after the wait or after a reconsideration.
LEMMA DraftKeeps == ASSUME IInv, WaitOver \/ DropDraft \/ KeepDraft PROVE IInv'
<1> USE DEF socket, record
<1>1. Alive /\ pc \in {"waiting", "reconsidering"}
    BY DEF WaitOver, DropDraft, KeepDraft, Alive
<1>2. DOMAIN w = DOMAIN NewWorker(0) /\ w.phase \in Phases
    BY <1>1, RowOfWorker
<1>3. pc = "reconsidering" => w.active # NoRun
    BY DEF IInv, WorkerHasItsRun, Calling
<1>4. CASE WaitOver
  <2>1. CASE w.active = NoRun /\ pc' = "idle" /\ w' = Cleared /\ UNCHANGED <<requests, record>>
    <3>1. w.typing = FALSE
        BY <1>1, <2>1, RowOfWorker DEF IInv, Shapes
    <3>2. /\ DOMAIN w' = DOMAIN w /\ w'.active = w.active /\ w'.phase \in Phases
          /\ w'.typing = w.typing /\ w'.stop = w.stop
        BY <1>2, <2>1, <3>1 DEF Cleared, Silenced, NewWorker, Phases
    <3> QED
        BY <1>1, <1>4, <2>1, <3>2, LoopMoves DEF WaitOver
  <2>2. CASE w.active # NoRun /\ ReconsiderWith(w)
    <3>1. /\ DOMAIN w' = DOMAIN w /\ w'.active = w.active /\ w'.phase \in Phases
          /\ w'.typing = w.typing /\ w'.stop = w.stop
        BY <1>2, <2>2 DEF ReconsiderWith, NewWorker, Phases
    <3> QED
        BY <1>1, <1>4, <2>2, <3>1, LoopMoves DEF WaitOver, ReconsiderWith
  <2>3. CASE w.active # NoRun /\ Abandon
      BY <1>1, <1>4, <2>3, EndRunKeeps DEF WaitOver, Abandon
  <2>4. CASE w.active # NoRun /\ Send(w) /\ UNCHANGED record
      BY <1>1, <1>4, <2>4, SendKeeps DEF WaitOver
  <2> QED
      BY <1>4, <2>1, <2>2, <2>3, <2>4 DEF WaitOver
<1>5. CASE DropDraft
    BY <1>1, <1>3, <1>5, EndRunKeeps DEF DropDraft, Abandon
<1>6. CASE KeepDraft
  <2> DEFINE worker == [w EXCEPT !.expected = Max({w.reliable, w.dirty, w.expected}),
                                 !.dirty = 0]
  <2>1. /\ DOMAIN worker = DOMAIN w /\ worker.active = w.active /\ worker.phase = w.phase
        /\ worker.typing = w.typing /\ worker.stop = w.stop
      BY <1>2 DEF NewWorker
  <2>2. Send(worker) /\ UNCHANGED <<log, runs, row, faults>> /\ w.active # NoRun
      BY <1>3, <1>6 DEF KeepDraft
  <2> HIDE DEF worker
  <2> QED
      BY <1>1, <2>1, <2>2, SendKeeps
<1> QED
    BY <1>4, <1>5, <1>6

\* The server looks at the status, then answers.
LEMMA AnswerKeeps == ASSUME IInv, CheckStatus \/ Store PROVE IInv'
<1> USE DEF socket, record
<1>1. CASE CheckStatus
  <2>1. PICK q \in requests :
            \/ requests' = (requests \ {q}) \cup {[q EXCEPT !.checked = TRUE]}
               /\ UNCHANGED reply
            \/ Answer(q, "notRunning", 0)
      BY <1>1 DEF CheckStatus
  <2> QED
      BY <1>1, <2>1, CheckedKeeps, RefusalKeeps DEF CheckStatus
<1>2. CASE Store
  <2>1. PICK q \in requests :
            \/ /\ Commit([from |-> Me, mentions |-> {}, episode |-> runs[q.run].episode,
                          cause |-> runs[q.run].cause, hop |-> runs[q.run].hop,
                          run |-> q.run])
               /\ Answer(q, "stored", Len(log) + 1)
            \/ Answer(q, "conflict", Len(log)) /\ UNCHANGED log
            \/ Answer(q, "budget", 0) /\ UNCHANGED log
            \/ Answer(q, "projection", 0) /\ UNCHANGED log
      BY <1>2 DEF Store
  <2>2. UNCHANGED <<runs, row, pc, w, faults>>
      BY <1>2 DEF Store
  <2> DEFINE m == [from |-> Me, mentions |-> {}, episode |-> runs[q.run].episode,
                   cause |-> runs[q.run].cause, hop |-> runs[q.run].hop, run |-> q.run]
  <2>3. CASE log' = Append(log, m) /\ Answer(q, "stored", Len(log) + 1)
    <3>1. "run" \in DOMAIN m /\ m.run = q.run
        OBVIOUS
    <3> HIDE DEF m
    <3> QED
        BY <2>2, <2>3, <3>1, GrantKeeps
  <2>4. CASE UNCHANGED log /\ \E type \in {"conflict", "budget", "projection"} :
                                  \E seq : Answer(q, type, seq)
      BY <2>2, <2>4, RefusalKeeps
  <2> QED
      BY <2>1, <2>3, <2>4 DEF Commit
<1> QED
    BY <1>1, <1>2

\* The worker goes on with the answer to its submission.
LEMMA SubmittedKeeps == ASSUME IInv, Submitted PROVE IInv'
<1> USE DEF socket, record
<1>1. Alive /\ pc = "submitting" /\ w.active # NoRun
    BY DEF Submitted, Alive, IInv, WorkerHasItsRun
<1>2. DOMAIN w = DOMAIN NewWorker(0) /\ w.phase \in Phases
    BY <1>1, RowOfWorker
<1>3. UNCHANGED <<log, faults>>
    BY DEF Submitted
<1>4. CASE /\ reply.type = "stored"
           /\ w' = [Cleared EXCEPT !.reliable = reply.seq]
           /\ pc' = "idle"
           /\ Finish("COMMITTED")
           /\ UNCHANGED requests
  <2>1. /\ DOMAIN w' = DOMAIN w /\ w'.active = NoRun /\ w'.typing = FALSE
        /\ w'.stop = w.stop /\ w'.phase \in Phases
      BY <1>2, <1>4 DEF Cleared, Silenced, NewWorker, Phases
  <2> QED
      BY <1>1, <1>3, <1>4, <2>1, FinishKeeps DEF Terminal
<1>5. CASE reply.type \in {"notRunning", "budget", "conflict", "projection"} /\ Abandon
    BY <1>1, <1>3, <1>5, EndRunKeeps DEF Abandon
<1>6. CASE /\ reply.type \in {"conflict", "projection"}
           /\ \E seq : Send([w EXCEPT !.submits = @ + 1, !.expected = seq])
           /\ UNCHANGED record
  <2>1. PICK seq : Send([w EXCEPT !.submits = @ + 1, !.expected = seq])
      BY <1>6
  <2> DEFINE worker == [w EXCEPT !.submits = @ + 1, !.expected = seq]
  <2>2. /\ DOMAIN worker = DOMAIN w /\ worker.active = w.active /\ worker.phase = w.phase
        /\ worker.typing = w.typing /\ worker.stop = w.stop
      BY <1>2 DEF NewWorker
  <2>3. Send(worker)
      BY <2>1
  <2> HIDE DEF worker
  <2> QED
      BY <1>1, <1>3, <1>6, <2>2, <2>3, SendKeeps
<1>7. CASE reply.type = "conflict" /\ ReconsiderWith([w EXCEPT !.dirty = reply.seq])
  <2>1. /\ DOMAIN w' = DOMAIN w /\ w'.active = w.active /\ w'.phase \in Phases
        /\ w'.typing = w.typing /\ w'.stop = w.stop
      BY <1>2, <1>7 DEF ReconsiderWith, NewWorker, Phases
  <2> QED
      BY <1>1, <1>3, <1>7, <2>1, LoopMoves DEF ReconsiderWith
<1> QED
    BY <1>4, <1>5, <1>6, <1>7 DEF Submitted, AfterConflict, SubmitAgain

\* A signal, the end of the process, and what the supervisor makes of it.
LEMMA EndKeeps == ASSUME IInv, Signal \/ Exit \/ Crash \/ RecordExit PROVE IInv'
<1> USE DEF server, socket, record
<1>1. CASE Signal
  <2>1. Alive /\ DOMAIN w = DOMAIN NewWorker(0) /\ w.phase \in Phases
      BY <1>1, RowOfWorker DEF Signal
  <2>2. /\ DOMAIN w' = DOMAIN w /\ w'.active = w.active /\ w'.phase \in Phases
        /\ w'.typing = w.typing /\ w'.stop = TRUE
      BY <1>1, <2>1 DEF Signal, NewWorker
  <2>3. /\ row \in Rows /\ (row.state = "none" => row = NoRow) /\ pc \in Places
        /\ faults' \in Nat /\ faults' # 0 /\ (Calling => w.active # NoRun)
      BY <1>1, <2>1, RowOfWorker DEF Signal, IInv, RowsAreConsistent, WorkerHasItsRun
  <2> QED
      BY <1>1, <2>1, <2>2, <2>3, CalmKeeps DEF Signal, Alive, Calling
<1>2. CASE Exit
  <2>1. Alive /\ faults # 0 /\ faults \in Nat /\ pc = "idle"
      BY <1>2, RowOfWorker DEF Exit, Alive
  <2>2. CASE w.active = NoRun
      BY <1>2, <2>1, <2>2, DyingKeeps DEF Exit, Dies
  <2>3. CASE w.active # NoRun
    <3>1. /\ w.active \in Nat /\ row.active = w.active
          /\ row.typing \in {NoRun, w.active} /\ row \in Rows
        BY <2>1, RowOfWorker
    <3>2. row' = [state |-> "LISTENING", active |-> NoRun, typing |-> NoRun]
        BY <1>2, <2>3, <3>1 DEF Exit, StatusPost, Applies, Terminal, Rows, NoRun
    <3>3. row' \in Rows /\ row'.state # "none" /\ row'.active = NoRun /\ row'.typing = NoRun
        BY <3>2 DEF Rows, WorkerStates, NoRun
    <3>4. /\ w' = NewWorker(0) /\ w'.active = NoRun /\ w'.typing = FALSE
          /\ w'.stop \in BOOLEAN /\ w'.phase \in Phases
        BY <1>2 DEF Exit, Dies, NewWorker, Phases
    <3>5. DOMAIN w' = DOMAIN w
        BY <2>1, <3>4, RowOfWorker
    <3> QED
        BY <1>2, <2>1, <2>3, <3>3, <3>4, <3>5, EndingKeeps DEF Exit, Dies, Terminal
  <2> QED
      BY <2>2, <2>3
<1>3. CASE Crash
  <2>1. Alive /\ faults' \in Nat \ {0}
      BY <1>3, RowOfWorker DEF Crash
  <2> QED
      BY <1>3, <2>1, DyingKeeps DEF Crash, Dies
<1>4. CASE RecordExit
    BY <1>4, ExitRecordedKeeps DEF RecordExit
<1> QED
    BY <1>1, <1>2, <1>3, <1>4

\* Users, the other agent and the handlers that only touch queues.
LEMMA SurroundingsKeep ==
    ASSUME IInv, UserPosts \/ PeerPosts \/ Pause \/ Resume \/ Unheard \/ ReplayQuery
                 \/ SocketClosed
    PROVE  IInv'
<1> USE DEF server, socket, record
<1>1. CASE UserPosts
  <2>1. PICK m : "run" \in DOMAIN m /\ m.run = NoRun /\ log' = Append(log, m)
      BY <1>1 DEF UserPosts, Commit
  <2> QED
      BY <1>1, <2>1, OthersPostKeeps DEF UserPosts
<1>2. CASE PeerPosts
  <2>1. PICK m : "run" \in DOMAIN m /\ m.run = NoRun /\ log' = Append(log, m)
      BY <1>2 DEF PeerPosts, Commit
  <2> QED
      BY <1>2, <2>1, OthersPostKeeps DEF PeerPosts
<1>3. CASE Pause \/ Resume
    BY <1>3, Untouched DEF Pause, Resume, ChangeStatus
<1>4. CASE Unheard \/ ReplayQuery \/ SocketClosed
    BY <1>4, Untouched DEF Unheard, ReplayQuery, SocketClosed
<1> QED
    BY <1>1, <1>2, <1>3, <1>4

\* Every step keeps the invariant.
LEMMA StepIInv == IInv /\ [Next]_vars => IInv'
<1> SUFFICES ASSUME IInv, [Next]_vars PROVE IInv'
    OBVIOUS
<1>1. CASE Environment
    BY <1>1, SurroundingsKeep, EndKeeps DEF Environment
<1>2. CASE Handlers
    BY <1>2, SurroundingsKeep, AnswerKeeps DEF Handlers
<1>3. CASE Supervision
    BY <1>3, EndKeeps DEF Supervision
<1>4. CASE Running
    BY <1>4, BootKeeps, ReceiveKeeps, StartRunKeeps, CallKeeps, BackoffKeeps, DraftKeeps,
       SubmittedKeeps, EndKeeps DEF Running
<1>5. CASE UNCHANGED vars
    BY <1>5, Untouched DEF vars, server, socket, record
<1> QED
    BY <1>1, <1>2, <1>3, <1>4, <1>5 DEF Next
-----------------------------------------------------------------------------
\* The invariant of the loop, the record and the requests holds in every
\* reachable state.
THEOREM Invariance == Spec => []IInv
<1>1. Init => IInv
    BY InitIInv
<1>2. IInv /\ [Next]_vars => IInv'
    BY StepIInv
<1> QED
    BY <1>1, <1>2, PTL DEF Spec

\* What the server shows of the agent is what the worker is doing, whatever
\* crashes, signals, pauses and restarts there are (post_internal_agent_run_status,
\* post_internal_agent_typing, _record_process_exit).
THEOREM ServerKnows == Spec => []ServerKnowsTheRun
<1>1. IInv => ServerKnowsTheRun
    BY DEF IInv
<1> QED
    BY <1>1, Invariance, PTL

\* A run stores one message at most, a COMMITTED run has stored one, and without
\* a crash no stored message is shown as given up (process_batch, commit_message).
THEOREM RunsMatch == Spec => []RunsMatchMessages
<1>1. IInv => RunsMatchMessages
    BY DEF IInv
<1> QED
    BY <1>1, Invariance, PTL
-----------------------------------------------------------------------------
(* What the operators on numbers and sequences return *)

\* The greater of two numbers is one of them.
LEMMA MaxOfPair ==
    ASSUME NEW i \in Nat, NEW j \in Nat
    PROVE  /\ Max({i, j}) \in {i, j} /\ Max({i, j}) \in Nat
           /\ Max({i, j}) >= i /\ Max({i, j}) >= j
<1> DEFINE S == {i, j}
           IsMax(x) == \A y \in S : x >= y
<1>1. \E x \in S : IsMax(x)
    OBVIOUS
<1>2. Max(S) \in S /\ IsMax(Max(S))
    BY <1>1 DEF Max
<1> QED
    BY <1>2

\* The greatest of three numbers is one of them.
LEMMA MaxOfThree ==
    ASSUME NEW i \in Nat, NEW j \in Nat, NEW k \in Nat
    PROVE  LET g == Max({i, j, k})
           IN  g \in {i, j, k} /\ g \in Nat /\ g >= i /\ g >= j /\ g >= k
<1> DEFINE S == {i, j, k}
           IsMax(x) == \A y \in S : x >= y
<1>1. \E x \in S : IsMax(x)
    OBVIOUS
<1>2. Max(S) \in S /\ IsMax(Max(S))
    BY <1>1 DEF Max
<1> QED
    BY <1>2

\* A set of naturals that is not empty has a least element.
LEMMA MinOfNaturals ==
    ASSUME NEW S \in SUBSET Nat, S # {}
    PROVE  Min(S) \in S
<1> DEFINE R == OpToRel(<, Nat)
           IsMin(x) == \A y \in S : x <= y
<1>1. IsWellFoundedOn(R, Nat)
    BY NatLessThanWellFounded
<1>2. PICK x \in S : \A y \in S : ~(<<y, x>> \in R)
    BY <1>1, WFMin, Zenon
<1>3. ASSUME NEW y \in S PROVE x <= y
  <2>1. x \in Nat /\ y \in Nat
      BY <1>2
  <2>2. ~(<<y, x>> \in R)
      BY <1>2
  <2>3. ~(y < x)
      BY <2>1, <2>2 DEF OpToRel
  <2> QED
      BY <2>1, <2>3
<1>4. IsMin(x)
    BY <1>3
<1> QED
    BY <1>4 DEF Min

\* Without takes out x and keeps every other element: a kept place is told by
\* the number of kept places up to it.
LEMMA WithoutKeeps ==
    ASSUME NEW s \in Seq(Nat), NEW x
    PROVE  /\ Without(s, x) \in Seq(Nat)
           /\ ToSet(Without(s, x)) = ToSet(s) \ {x}
<1> DEFINE kept == {i \in DOMAIN s : s[i] # x}
           n == Cardinality(kept)
           upto(i) == {j \in kept : j <= i}
           place == [i \in kept |-> Cardinality(upto(i))]
           at(k) == CHOOSE i \in kept : Cardinality(upto(i)) = k
           res == [k \in 1..n |-> s[at(k)]]
<1>1. Len(s) \in Nat /\ DOMAIN s = 1..Len(s) /\ \A i \in 1..Len(s) : s[i] \in Nat
    BY LenProperties, ElementOfSeq
<1>2. kept \subseteq 1..Len(s) /\ IsFiniteSet(kept) /\ n \in Nat
  <2>1. kept \subseteq 1..Len(s)
      BY <1>1
  <2>2. IsFiniteSet(1..Len(s))
      BY <1>1, FS_Interval
  <2> HIDE DEF kept
  <2>3. IsFiniteSet(kept)
      BY <2>1, <2>2, FS_Subset
  <2> QED
      BY <2>1, <2>3, FS_CardinalityType
<1>3. IsFiniteSet(1..n) /\ Cardinality(1..n) = n
    BY <1>2, FS_Interval
<1>4. ASSUME NEW i \in kept
      PROVE  /\ IsFiniteSet(upto(i)) /\ Cardinality(upto(i)) \in 1..n
             /\ \A j \in kept : j < i => Cardinality(upto(j)) < Cardinality(upto(i))
  <2>1. upto(i) \subseteq kept /\ i \in upto(i)
      BY <1>1
  <2>2. IsFiniteSet(upto(i)) /\ Cardinality(upto(i)) \in Nat /\ Cardinality(upto(i)) <= n
      BY <1>2, <2>1, FS_Subset, FS_CardinalityType
  <2>3. Cardinality(upto(i)) # 0
      BY <2>1, <2>2, FS_EmptySet
  <2>4. ASSUME NEW j \in kept, j < i
        PROVE  Cardinality(upto(j)) < Cardinality(upto(i))
    <3>1. upto(j) \subseteq upto(i) /\ i \notin upto(j)
        BY <1>1, <2>4
    <3>2. Cardinality(upto(j)) \in Nat /\ Cardinality(upto(j)) <= Cardinality(upto(i))
          /\ Cardinality(upto(j)) # Cardinality(upto(i))
        BY <2>1, <2>2, <3>1, FS_Subset, FS_CardinalityType
    <3> QED
        BY <2>2, <3>2
  <2> QED
      BY <1>2, <2>2, <2>3, <2>4
<1>5. place \in Injection(kept, 1..n)
  <2>1. place \in [kept -> 1..n]
      BY <1>4
  <2>2. ASSUME NEW i \in kept, NEW j \in kept, place[i] = place[j]
        PROVE  i = j
    <3>1. Cardinality(upto(i)) = Cardinality(upto(j))
          /\ Cardinality(upto(i)) \in 1..n /\ i \in Nat /\ j \in Nat
        BY <1>1, <1>2, <1>4, <2>2
    <3>2. i < j => Cardinality(upto(i)) < Cardinality(upto(j))
        BY <1>4
    <3>3. j < i => Cardinality(upto(j)) < Cardinality(upto(i))
        BY <1>4
    <3> HIDE DEF upto
    <3> QED
        BY <1>2, <3>1, <3>2, <3>3
  <2> QED
      BY <2>1, <2>2 DEF Injection, IsInjective
<1>6. place \in Surjection(kept, 1..n)
    BY <1>2, <1>3, <1>5, FS_Injection
<1>7. \A k \in 1..n : at(k) \in kept /\ place[at(k)] = k
  <2>1. \A k \in 1..n : \E i \in kept : Cardinality(upto(i)) = k
      BY <1>6 DEF Surjection
  <2> QED
      BY <2>1
<1>8. \A i \in kept : place[i] \in 1..n /\ at(place[i]) = i
    BY <1>4, <1>5, <1>7 DEF Injection, IsInjective
<1>9. Without(s, x) = res
    BY DEF Without
<1> HIDE DEF place, at, n
<1>10. res \in [1..n -> Nat]
    BY <1>1, <1>2, <1>7
<1>11. res \in Seq(Nat) /\ DOMAIN res = 1..n
    BY <1>2, <1>10, Listed
<1>12. ToSet(res) \subseteq ToSet(s) \ {x}
    BY <1>7, <1>11 DEF ToSet
<1>13. ToSet(s) \ {x} \subseteq ToSet(res)
    BY <1>8, <1>11 DEF ToSet
<1> QED
    BY <1>9, <1>11, <1>12, <1>13

-----------------------------------------------------------------------------
(* Types of what a step builds *)

\* The runs of next are those of runs up to their status.
SameRuns(next) ==
    /\ DOMAIN next = DOMAIN runs
    /\ \A x \in DOMAIN runs :
          /\ next[x].observed = runs[x].observed /\ next[x].cause = runs[x].cause
          /\ next[x].episode = runs[x].episode /\ next[x].hop = runs[x].hop

\* A new status keeps the type of the runs and all else about them.
LEMMA StatusIsTyped ==
    ASSUME runs \in Seq(Run), NEW r \in DOMAIN runs, NEW status \in RunStatus
    PROVE  WithStatus(r, status) \in Seq(Run) /\ SameRuns(WithStatus(r, status))
<1> DEFINE next == WithStatus(r, status)
<1>1. Len(runs) \in Nat /\ DOMAIN runs = 1..Len(runs)
      /\ \A x \in 1..Len(runs) : runs[x] \in Run
    BY LenProperties, ElementOfSeq
<1>2. \A x \in 1..Len(runs) : next[x] \in Run
    BY <1>1 DEF WithStatus, Run
<1>3. DOMAIN next = 1..Len(runs)
    BY <1>1 DEF WithStatus
<1>4. next \in Seq(Run)
  <2>1. next = [x \in 1..Len(runs) |-> next[x]]
      BY <1>1 DEF WithStatus
  <2> HIDE DEF next
  <2> QED
      BY <1>1, <1>2, <2>1, Listed
<1>5. SameRuns(next)
    BY <1>1 DEF WithStatus, Run, SameRuns
<1> QED
    BY <1>4, <1>5

\* The state of a new process.
LEMMA NewWorkerIsTyped ==
    ASSUME NEW n \in Nat
    PROVE  NewWorker(n) \in Worker
BY DEF NewWorker, Worker, NoRun

\* What a worker keeps when it forgets its run.
LEMMA ForgettingIsTyped ==
    ASSUME w \in Worker
    PROVE  /\ Silenced \in Worker /\ Cleared \in Worker
           /\ [Silenced EXCEPT !.expected = 0] \in Worker
           /\ \A v \in {Silenced, Cleared, [Silenced EXCEPT !.expected = 0]} :
                 /\ v.active = NoRun /\ v.after = w.after /\ v.reliable = w.reliable
                 /\ v.pending = w.pending /\ v.roots \in {w.roots, <<>>}
<1>1. <<>> \in Seq(Nat) /\ "deciding" \in Phases /\ NoRun \in Nat
    BY DEF Phases, NoRun
<1>2. Silenced \in Worker
    BY <1>1 DEF Worker, Silenced
<1>3. Cleared \in Worker
    BY <1>1, <1>2 DEF Worker, Cleared
<1>4. [Silenced EXCEPT !.expected = 0] \in Worker
    BY <1>2 DEF Worker
<1>5. /\ Silenced.active = NoRun /\ Silenced.after = w.after
      /\ Silenced.reliable = w.reliable
      /\ Silenced.pending = w.pending /\ Silenced.roots = w.roots
    BY DEF Worker, Silenced
<1> QED
    BY <1>2, <1>3, <1>4, <1>5 DEF Worker, Cleared

-----------------------------------------------------------------------------
(* What steps do to the queues, by what they change *)

\* The run goes on, with what it has taken into account.
KnowsTheSame ==
    /\ w.active # NoRun
    /\ w'.everyone = w.everyone /\ w'.retried = w.retried
    /\ w'.known = w.known /\ w'.expected = w.expected
    /\ w'.reliable = w.reliable /\ w'.dirty = w.dirty
    /\ pc' = "reconsidering" => pc = "reconsidering"

\* Then what it expects stays right, and so it does when the run is over.
LEMMA KnownStays ==
    ASSUME QueueInv, log' = log, w'.active # NoRun => KnowsTheSame
    PROVE  ExpectsWhatIsKnown'
BY DEF QueueInv, ExpectsWhatIsKnown, KnowsTheSame

\* The transcript stays and no message is queued: what the worker has taken
\* up, the record and the requests may change.
LEMMA NothingArrives ==
    ASSUME IInv', QueueInv, log' = log,
           conv' \in Status, coming' \subseteq coming,
           registered' \in BOOLEAN, closing' \in BOOLEAN,
           replay' \in {replay, NoReplay}, wire' \in Seq(Status),
           runs' \in Seq(Run), SameRuns(runs'),
           saved' \in {saved, w.reliable, w'.reliable},
           requests' \subseteq Request, w' \in Worker, reply' \in Reply, pauses' \in Nat,
           w'.roots \in {w.roots, <<>>},
           \/ w'.pending = w.pending /\ w'.reliable >= w.reliable
           \/ w'.pending = <<>> /\ w'.active = NoRun,
           w'.reliable <= Len(log),
           pc' = "submitting" /\ reply'.type = "stored" =>
               w'.reliable <= reply'.seq /\ reply'.seq <= Len(log),
           ExpectsWhatIsKnown',
           Alive' /\ registered' =>
               /\ Alive /\ registered /\ coming' = coming /\ replay' = replay
               /\ w'.pending = w.pending /\ w'.after = w.after
    PROVE  QueueInv'
<1> USE DEF QueueInv
<1>1. Len(log) \in Nat /\ w.reliable \in Nat /\ w'.reliable \in Nat
      /\ w.expected \in Nat /\ saved \in Nat \cup {NothingSaved}
    BY LenProperties DEF TypeOK, Worker
<1>2. TypeOK'
  <2>1. row' \in Rows /\ pc' \in Places /\ faults' \in Nat
      BY DEF IInv, Shapes
  <2>2. saved' \in Nat \cup {NothingSaved} /\ coming' \subseteq Nat
      BY <1>1 DEF TypeOK
  <2>3. replay' \in [next : Nat, upto : Nat \cup {Unqueried}]
      BY DEF TypeOK, NoReplay
  <2> QED
      BY <2>1, <2>2, <2>3 DEF TypeOK
<1>3. ToSet(w'.pending) \subseteq ToSet(w.pending) /\ ToSet(w'.roots) \subseteq ToSet(w.roots)
    BY DEF ToSet
<1>4. MessagesExist'
  <2>1. replay'.next > 0 /\ replay'.upto <= Len(log)
      BY <1>1 DEF MessagesExist, NoReplay
  <2>2. \A r \in DOMAIN runs' : runs'[r].cause \in DOMAIN log
      BY DEF MessagesExist, SameRuns
  <2> QED
      BY <1>3, <2>1, <2>2 DEF MessagesExist
<1>5. EpisodesOpen'
    BY DEF EpisodesOpen
<1>6. EpisodesAreRooted'
    BY DEF EpisodesAreRooted, SameRuns
<1>7. NumbersSeen'
  <2>1. saved' <= Len(log)
      BY <1>1 DEF NumbersSeen
  <2>2. ASSUME NEW s \in ToSet(w'.pending) PROVE s <= w'.reliable
    <3>1. w'.pending = w.pending /\ w'.reliable >= w.reliable
        BY <2>2 DEF ToSet
    <3>2. s <= w.reliable /\ s \in Nat
        BY <1>3, <2>2, LenProperties DEF NumbersSeen, MessagesExist, TypeOK
    <3> QED
        BY <1>1, <3>1, <3>2
  <2> QED
      BY <2>1, <2>2 DEF NumbersSeen
<1>8. NothingForgotten'
  <2> SUFFICES ASSUME Alive', registered'
               PROVE  NothingForgotten'
      BY DEF NothingForgotten
  <2>1. \A s : Answers(s)' = Answers(s)
      BY DEF Answers, SameRuns
  <2> QED
      BY <2>1 DEF NothingForgotten, StillToSend, ShouldQueue, Handoff
<1> QED
    BY <1>2, <1>4, <1>5, <1>6, <1>7, <1>8

\* Appending adds one element.
LEMMA AppendAdds ==
    ASSUME NEW S, NEW q \in Seq(S), NEW x \in S
    PROVE  Append(q, x) \in Seq(S) /\ ToSet(Append(q, x)) = ToSet(q) \cup {x}
<1> DEFINE a == Append(q, x)
<1>1. /\ a \in Seq(S) /\ Len(a) = Len(q) + 1
      /\ \A i \in 1..Len(q) : a[i] = q[i]
      /\ a[Len(q) + 1] = x
    BY AppendProperties
<1>2. Len(q) \in Nat /\ DOMAIN q = 1..Len(q) /\ DOMAIN a = 1..(Len(q) + 1)
    BY <1>1, LenProperties
<1>0. a = Append(q, x)
    OBVIOUS
<1> HIDE DEF a
<1>3. ToSet(a) \subseteq ToSet(q) \cup {x}
    BY <1>1, <1>2 DEF ToSet
<1>4. ToSet(q) \subseteq ToSet(a) /\ x \in ToSet(a)
    BY <1>1, <1>2 DEF ToSet
<1> QED
    BY <1>0, <1>1, <1>3, <1>4

\* A message is stored and its handler has yet to publish it.
LEMMA MessageStored ==
    ASSUME IInv', QueueInv, NEW m \in Message, Commit(m),
           m.episode # NoEpisode =>
               m.episode \in DOMAIN log /\ log[m.episode].from = User,
           UNCHANGED <<conv, socket, runs, saved, pc, w, pauses>>,
           requests' \subseteq Request, reply' \in Reply,
           pc = "submitting" /\ reply'.type = "stored" =>
               w.reliable <= reply'.seq /\ reply'.seq <= Len(log) + 1
    PROVE  QueueInv'
<1> USE DEF QueueInv, socket
<1>1. log \in Seq(Message) /\ w.reliable \in Nat /\ coming \subseteq Nat
      /\ saved \in Nat \cup {NothingSaved}
    BY DEF TypeOK, Worker
<1>2. /\ Len(log) \in Nat /\ DOMAIN log = 1..Len(log)
      /\ log' \in Seq(Message) /\ Len(log') = Len(log) + 1
      /\ DOMAIN log' = 1..(Len(log) + 1)
      /\ \A i \in DOMAIN log : log'[i] = log[i]
      /\ log'[Len(log) + 1] = m
      /\ coming' = coming \cup {Len(log) + 1}
    BY <1>1, LenProperties, AppendProperties DEF Commit
<1>3. TypeOK'
  <2>1. row' \in Rows /\ pc' \in Places /\ faults' \in Nat
      BY DEF IInv, Shapes
  <2>2. coming' \subseteq Nat
    <3>1. coming' = coming \cup {Len(log) + 1}
        BY <1>2
    <3>2. Len(log) + 1 \in Nat
        BY <1>2
    <3> QED
        BY <1>1, <3>1, <3>2, Zenon
  <2>3. UNCHANGED <<conv, registered, closing, replay, wire, runs, saved, w, pauses>>
      BY DEF socket
  <2>4. log' \in Seq(Message)
      BY <1>2
  <2> QED
      BY <2>1, <2>2, <2>3, <2>4 DEF TypeOK
<1>4. MessagesExist'
  <2>1. replay.upto <= Len(log) + 1
      BY <1>2 DEF MessagesExist, TypeOK, Unqueried
  <2> QED
      BY <1>2, <2>1 DEF MessagesExist
<1>5. EpisodesOpen'
  <2> SUFFICES ASSUME NEW s \in DOMAIN log', log'[s].episode # NoEpisode
               PROVE  /\ log'[s].episode \in DOMAIN log'
                      /\ log'[log'[s].episode].from = User
      BY DEF EpisodesOpen
  <2>1. log'[s].episode \in DOMAIN log /\ log[log'[s].episode].from = User
    <3>1. CASE s \in DOMAIN log
        BY <1>2, <3>1 DEF EpisodesOpen
    <3>2. CASE s = Len(log) + 1
        BY <1>2, <3>2
    <3> QED
        BY <1>2, <3>1, <3>2
  <2> QED
      BY <1>2, <2>1
<1>6. EpisodesAreRooted'
  <2>1. \A r \in DOMAIN runs : runs[r].cause \in DOMAIN log
      BY DEF MessagesExist
  <2> QED
      BY <1>2, <2>1 DEF EpisodesAreRooted
<1>7. NumbersSeen'
    BY <1>1, <1>2 DEF NumbersSeen
<1>8. ExpectsWhatIsKnown'
    BY DEF ExpectsWhatIsKnown
<1>9. NothingForgotten'
  <2> SUFFICES ASSUME Alive, registered, NEW s \in DOMAIN log', s > w.after,
                      log'[s].from = User, ShouldQueue(log'[s])
               PROVE  StillToSend(s)' \/ s \in ToSet(w.pending) \/ Answers(s) # {}
      BY DEF NothingForgotten, ShouldQueue, Handoff, Answers, Alive
  <2>1. CASE s \in DOMAIN log
      BY <1>2, <2>1 DEF NothingForgotten, StillToSend
  <2>2. CASE s = Len(log) + 1
      BY <1>2, <2>2 DEF StillToSend
  <2> QED
      BY <1>2, <2>1, <2>2
<1> QED
    BY <1>3, <1>4, <1>5, <1>6, <1>7, <1>8, <1>9

\* The socket is registered, or the replay has read how far it goes.
LEMMA ReplayKeeps ==
    ASSUME IInv', QueueInv, Register \/ ReplayQuery PROVE QueueInv'
<1> USE DEF QueueInv, server, socket, record
<1>1. Len(log) \in Nat /\ DOMAIN log = 1..Len(log) /\ w.after \in Nat
    BY LenProperties DEF TypeOK, Worker
<1>2. UNCHANGED <<log, conv, coming, requests, closing, wire, record, w, reply, pauses>>
    BY DEF Register, ReplayQuery
<1>3. replay' \in [next : Nat, upto : Nat \cup {Unqueried}]
      /\ replay'.next > 0 /\ replay'.upto <= Len(log)
    BY <1>1 DEF Register, ReplayQuery, FirstMissed, TypeOK, MessagesExist, Unqueried
<1>4. TypeOK'
  <2>1. row' \in Rows /\ pc' \in Places /\ faults' \in Nat
      BY DEF IInv, Shapes
  <2>2. registered' \in BOOLEAN
      BY DEF Register, ReplayQuery, TypeOK
  <2> QED
      BY <1>2, <1>3, <2>1, <2>2 DEF TypeOK
<1>5. pc' \notin {"submitting", "reconsidering"} \/ pc' = pc
    BY DEF Register, ReplayQuery
<1>6. MessagesExist' /\ EpisodesOpen' /\ EpisodesAreRooted'
    BY <1>2, <1>3 DEF MessagesExist, EpisodesOpen, EpisodesAreRooted
<1>7. NumbersSeen' /\ ExpectsWhatIsKnown'
    BY <1>2, <1>5 DEF NumbersSeen, ExpectsWhatIsKnown
<1>8. NothingForgotten'
  <2> SUFFICES ASSUME Alive', registered', NEW s \in DOMAIN log, s > w.after,
                      log[s].from = User, ShouldQueue(log[s])
               PROVE  StillToSend(s)' \/ s \in ToSet(w.pending) \/ Answers(s) # {}
      BY <1>2 DEF NothingForgotten, ShouldQueue, Handoff, Answers
  <2>1. CASE Register
      BY <1>1, <2>1 DEF Register, FirstMissed, StillToSend
  <2>2. CASE ReplayQuery
    <3>1. Alive /\ registered
        BY <2>2 DEF ReplayQuery, Alive
    <3> QED
        BY <1>1, <1>2, <2>2, <3>1 DEF NothingForgotten, ReplayQuery, StillToSend
  <2> QED
      BY <2>1, <2>2
<1> QED
    BY <1>4, <1>6, <1>7, <1>8

\* What the loop does with a message, seen from its state.
LEMMA MessageQueued ==
    ASSUME QueueInv, NEW s \in DOMAIN log, ReceiveMessage(s)
    PROVE  /\ w' \in Worker /\ w'.after = w.after /\ w'.active = w.active
           /\ w'.everyone = w.everyone /\ w'.retried = w.retried
           /\ w'.known = w.known /\ w'.expected = w.expected
           /\ w'.reliable \in {w.reliable, s} /\ w'.reliable >= w.reliable /\ w'.reliable >= s
           /\ ToSet(w'.pending) = IF ShouldQueue(log[s]) THEN ToSet(w.pending) \cup {s}
                                  ELSE ToSet(w.pending)
           /\ ToSet(w'.roots) = IF ShouldQueue(log[s]) /\ log[s].from = User
                                THEN ToSet(w.roots) \cup {s} ELSE ToSet(w.roots)
<1>1. w \in Worker /\ s \in Nat /\ w.reliable \in Nat /\ w.pending \in Seq(Nat)
      /\ w.roots \in Seq(Nat) /\ w.dirty \in Nat
    BY LenProperties DEF QueueInv, TypeOK, Worker
<1> DEFINE seen == Max({w.reliable, s})
           queued == ShouldQueue(log[s])
           pending == IF queued THEN Append(w.pending, s) ELSE w.pending
           roots == IF queued /\ log[s].from = User THEN Append(w.roots, s) ELSE w.roots
           dirty == IF w.active # NoRun /\ log[s].from # Me THEN s ELSE w.dirty
<1>2. w' = [w EXCEPT !.reliable = seen, !.pending = pending, !.roots = roots,
                     !.dirty = dirty]
    BY DEF ReceiveMessage
<1>3. seen \in Nat /\ seen \in {w.reliable, s} /\ seen >= w.reliable /\ seen >= s
    BY <1>1, MaxOfPair
<1>4. /\ Append(w.pending, s) \in Seq(Nat)
      /\ ToSet(Append(w.pending, s)) = ToSet(w.pending) \cup {s}
      /\ Append(w.roots, s) \in Seq(Nat)
      /\ ToSet(Append(w.roots, s)) = ToSet(w.roots) \cup {s}
    BY <1>1, AppendAdds
<1>5. /\ pending \in Seq(Nat)
      /\ ToSet(pending) = IF queued THEN ToSet(w.pending) \cup {s} ELSE ToSet(w.pending)
    BY <1>1, <1>4, Zenon
<1>6. /\ roots \in Seq(Nat)
      /\ ToSet(roots) = IF queued /\ log[s].from = User
                        THEN ToSet(w.roots) \cup {s} ELSE ToSet(w.roots)
    BY <1>1, <1>4, Zenon
<1>7. dirty \in Nat
    BY <1>1
<1>8. queued = ShouldQueue(log[s])
    OBVIOUS
<1> HIDE DEF seen, queued, pending, roots, dirty
<1>9. w' \in Worker
    BY <1>1, <1>2, <1>3, <1>5, <1>6, <1>7 DEF Worker
<1>10. /\ w'.after = w.after /\ w'.active = w.active
      /\ w'.everyone = w.everyone /\ w'.retried = w.retried
      /\ w'.known = w.known /\ w'.expected = w.expected /\ w'.reliable = seen
      /\ w'.pending = pending /\ w'.roots = roots
    BY <1>1, <1>2 DEF Worker
<1> QED
    BY <1>3, <1>5, <1>6, <1>8, <1>9, <1>10

\* A message is processed: it may be queued, and is not sent again.
LEMMA MessageReceived ==
    ASSUME IInv', QueueInv, NEW s \in DOMAIN log, ReceiveMessage(s),
           UNCHANGED <<log, conv, requests, registered, closing, wire, pc, reply, pauses>>,
           pc \notin {"submitting", "reconsidering"},
           \/ coming' = coming \ {s} /\ replay' = replay
           \/ /\ coming' = coming /\ s = replay.next
              /\ replay' = [replay EXCEPT !.next = @ + 1]
    PROVE  QueueInv'
<1> USE DEF QueueInv, record
<1>1. /\ Len(log) \in Nat /\ DOMAIN log = 1..Len(log) /\ s \in Nat
      /\ w.reliable \in Nat /\ saved \in Nat \cup {NothingSaved}
      /\ replay.next \in Nat /\ replay.upto \in Nat \cup {Unqueried}
      /\ replay \in [next : Nat, upto : Nat \cup {Unqueried}]
    BY LenProperties DEF TypeOK, Worker
<1>2. /\ w' \in Worker /\ w'.after = w.after /\ w'.active = w.active
      /\ w'.everyone = w.everyone /\ w'.retried = w.retried
      /\ w'.known = w.known /\ w'.expected = w.expected
      /\ w'.reliable \in {w.reliable, s} /\ w'.reliable >= w.reliable /\ w'.reliable >= s
      /\ ToSet(w'.pending) = IF ShouldQueue(log[s]) THEN ToSet(w.pending) \cup {s}
                             ELSE ToSet(w.pending)
      /\ ToSet(w'.roots) = IF ShouldQueue(log[s]) /\ log[s].from = User
                           THEN ToSet(w.roots) \cup {s} ELSE ToSet(w.roots)
    BY MessageQueued
<1>3. UNCHANGED <<row, runs, saved>>
    BY DEF ReceiveMessage
<1>4. coming' \subseteq coming /\ coming \subseteq coming' \cup {s}
    OBVIOUS
<1>5. /\ replay' \in [next : Nat, upto : Nat \cup {Unqueried}]
      /\ replay'.next > 0 /\ replay'.upto = replay.upto
      /\ replay'.next \in {replay.next, replay.next + 1}
      /\ replay'.next # replay.next => s = replay.next
    BY <1>1 DEF MessagesExist
<1>6. TypeOK'
  <2>1. row' \in Rows /\ pc' \in Places /\ faults' \in Nat
      BY DEF IInv, Shapes
  <2> QED
      BY <1>2, <1>3, <1>4, <1>5, <2>1 DEF TypeOK
<1>7. MessagesExist'
    BY <1>2, <1>3, <1>4, <1>5 DEF MessagesExist
<1>8. EpisodesOpen' /\ EpisodesAreRooted'
    BY <1>3 DEF EpisodesOpen, EpisodesAreRooted
<1>9. NumbersSeen'
  <2>1. w'.reliable <= Len(log)
      BY <1>1, <1>2 DEF NumbersSeen
  <2>2. ASSUME NEW x \in ToSet(w'.pending) PROVE x <= w'.reliable
    <3>1. x \in ToSet(w.pending) => x <= w.reliable /\ x \in Nat
        BY <1>1 DEF NumbersSeen, MessagesExist
    <3> QED
        BY <1>1, <1>2, <2>2, <3>1
  <2> QED
      BY <1>3, <2>1, <2>2 DEF NumbersSeen
<1>10. ExpectsWhatIsKnown'
    BY <1>2 DEF ExpectsWhatIsKnown
<1>11. NothingForgotten'
  <2> SUFFICES ASSUME Alive, registered, NEW x \in DOMAIN log, x > w.after,
                      log[x].from = User, ShouldQueue(log[x])
               PROVE  StillToSend(x)' \/ x \in ToSet(w'.pending) \/ Answers(x) # {}
      BY <1>2, <1>3 DEF NothingForgotten, ShouldQueue, Handoff, Answers, Alive
  <2>1. StillToSend(x) \/ x \in ToSet(w.pending) \/ Answers(x) # {}
      BY DEF NothingForgotten
  <2>2. CASE x = s
      BY <1>2, <2>2
  <2>3. CASE x # s
    <3>1. x \in coming => x \in coming'
        BY <1>4, <2>3
    <3>2. x >= replay.next => x >= replay'.next
        BY <1>1, <1>5, <2>3
    <3> QED
        BY <1>2, <1>5, <2>1, <3>1, <3>2 DEF StillToSend
  <2> QED
      BY <2>2, <2>3
<1> QED
    BY <1>6, <1>7, <1>8, <1>9, <1>10, <1>11
-----------------------------------------------------------------------------
\* What a run takes up and what it leaves.
LEMMA BatchAndRest ==
    ASSUME w \in Worker, w.pending # <<>>
    PROVE  /\ Last(Batch) \in ToSet(w.pending)
           /\ ToSet(Batch) \subseteq ToSet(w.pending) /\ ToSet(Batch) \subseteq Nat
           /\ Deferred \in Seq(Nat) /\ ToSet(Deferred) \subseteq ToSet(w.pending)
           /\ ToSet(w.pending) \subseteq ToSet(Batch) \cup ToSet(Deferred)
           /\ BatchRoots \in Seq(Nat) /\ ToSet(BatchRoots) \subseteq ToSet(w.roots)
           /\ BatchRoots # <<>> => Last(Batch) \in ToSet(w.roots)
<1>1. /\ w.pending \in Seq(Nat) /\ Len(w.pending) \in Nat
      /\ DOMAIN w.pending = 1..Len(w.pending) /\ Len(w.pending) # 0
      /\ \A i \in 1..Len(w.pending) : w.pending[i] \in Nat
    BY LenProperties, ElementOfSeq, EmptySeq DEF Worker
<1>2. CASE RootsPending = {}
  <2>1. Batch = w.pending /\ Deferred = <<>> /\ BatchRoots = <<>>
      BY <1>2 DEF Batch, Deferred, BatchRoots
  <2>2. Last(Batch) \in ToSet(w.pending)
      BY <1>1, <2>1 DEF Last, ToSet
  <2>3. <<>> \in Seq(Nat) /\ ToSet(<<>>) = {}
      BY DEF ToSet
  <2> QED
      BY <1>1, <2>1, <2>2, <2>3 DEF ToSet
<1>3. CASE RootsPending # {}
  <2> DEFINE x == w.pending[Min(RootsPending)]
  <2>1. RootsPending \in SUBSET Nat /\ RootsPending \subseteq 1..Len(w.pending)
      BY <1>1 DEF RootsPending
  <2>2. Min(RootsPending) \in RootsPending
      BY <1>3, <2>1, MinOfNaturals
  <2>3. x \in ToSet(w.pending) /\ x \in Nat /\ x \in ToSet(w.roots)
      BY <1>1, <2>1, <2>2 DEF RootsPending, ToSet
  <2>4. Batch = <<x>>
      BY <1>3 DEF Batch
  <2> HIDE DEF x
  <2>5. Batch \in Seq(Nat) /\ Batch # <<>> /\ ToSet(Batch) = {x}
        /\ Last(Batch) = x /\ Batch[1] = x
      BY <2>3, <2>4 DEF Last, ToSet
  <2>6. Deferred = Without(w.pending, x) /\ BatchRoots = Batch
      BY <1>3, <2>5 DEF Deferred, BatchRoots
  <2>7. Deferred \in Seq(Nat) /\ ToSet(Deferred) = ToSet(w.pending) \ {x}
      BY <1>1, <2>6, WithoutKeeps
  <2> QED
      BY <2>3, <2>5, <2>6, <2>7
<1> QED
    BY <1>2, <1>3

\* The loop starts a run for a batch.
LEMMA StartQueues == ASSUME IInv', QueueInv, StartRun PROVE QueueInv'
<1> USE DEF QueueInv, server, socket
<1> DEFINE s == Last(Batch)
           m == log[s]
           root == BatchRoots # <<>>
           r == Len(runs) + 1
           first == IF Handoff(m) THEN Max({w.reliable, s}) ELSE s
           everyone == Agents \subseteq m.mentions
           direct == Me \in m.mentions
           rooted == IF root THEN w.rooted \cup {s} ELSE w.rooted
           run == [observed |-> ToSet(Batch), cause |-> s,
                   episode |-> EpisodeFor(s, root), hop |-> HopFor(s, root),
                   status |-> "RUNNING"]
<1>1. /\ w \in Worker /\ w.reliable \in Nat /\ w.rooted \in SUBSET Nat
      /\ Len(log) \in Nat /\ DOMAIN log = 1..Len(log)
      /\ \A x \in DOMAIN log : log[x] \in Message
      /\ runs \in Seq(Run) /\ saved \in Nat \cup {NothingSaved}
    BY LenProperties, ElementOfSeq DEF TypeOK, Worker
<1>2. /\ s \in ToSet(w.pending)
      /\ ToSet(Batch) \subseteq ToSet(w.pending) /\ ToSet(Batch) \subseteq Nat
      /\ Deferred \in Seq(Nat) /\ ToSet(Deferred) \subseteq ToSet(w.pending)
      /\ ToSet(w.pending) \subseteq ToSet(Batch) \cup ToSet(Deferred)
      /\ BatchRoots \in Seq(Nat) /\ ToSet(BatchRoots) \subseteq ToSet(w.roots)
      /\ root => s \in ToSet(w.roots)
    BY <1>1, BatchAndRest DEF StartRun
<1>3. s \in DOMAIN log /\ s \in Nat /\ s <= w.reliable /\ m \in Message
      /\ (root => m.from = User)
    BY <1>1, <1>2 DEF MessagesExist, NumbersSeen
<1>4. first \in Nat /\ first <= w.reliable
    BY <1>1, <1>3, MaxOfPair
<1>5. everyone \in BOOLEAN /\ direct \in BOOLEAN /\ rooted \in SUBSET Nat
    BY <1>1, <1>3
<1>6. run \in Run
  <2>1. EpisodeFor(s, root) \in Nat /\ HopFor(s, root) \in Nat
      BY <1>3 DEF EpisodeFor, HopFor, Message
  <2> QED
      BY <1>2, <1>3, <2>1 DEF Run, RunStatus
<1>7. /\ Len(runs) \in Nat /\ DOMAIN runs = 1..Len(runs)
      /\ runs' \in Seq(Run) /\ DOMAIN runs' = 1..r
      /\ \A x \in DOMAIN runs : runs'[x] = runs[x]
      /\ runs'[r] = run
  <2>1. runs' = Append(runs, run)
      BY DEF StartRun, Post
  <2> HIDE DEF run
  <2> QED
      BY <1>1, <1>6, <2>1, AppendProperties, LenProperties
<1>8. /\ run.observed = ToSet(Batch) /\ run.cause = s
      /\ run.episode = (IF root THEN s ELSE m.episode)
      /\ run.hop = (IF root THEN 0 ELSE m.hop + 1)
    BY DEF EpisodeFor, HopFor
<1>9. w' = [w EXCEPT
             !.pending = Deferred, !.roots = BatchRoots, !.active = r,
             !.expected = first, !.everyone = everyone,
             !.direct = direct, !.typing = direct, !.rooted = rooted,
             !.phase = "deciding", !.retries = 0, !.submits = 0,
             !.known = Len(log)]
    BY DEF StartRun
<1>10. /\ UNCHANGED <<server, socket, reply, pauses>> /\ pc = "idle" /\ pc' = "deciding"
       /\ saved' = w'.reliable
    BY DEF StartRun, Post
<1> HIDE DEF s, root, r, first, everyone, direct, rooted, run
<1>11. w' \in Worker
  <2> DEFINE v == [w EXCEPT !.pending = Deferred, !.roots = BatchRoots, !.active = r,
                            !.expected = first]
  <2>1. r \in Nat
      BY <1>7 DEF r
  <2>2. v \in Worker
      BY <1>1, <1>2, <1>4, <2>1 DEF Worker
  <2> DEFINE u == [v EXCEPT !.everyone = everyone, !.direct = direct, !.typing = direct,
                            !.rooted = rooted]
  <2>3. w' = [u EXCEPT !.phase = "deciding", !.retries = 0, !.submits = 0,
                       !.known = Len(log)]
      BY <1>9
  <2> HIDE DEF v
  <2>4. u \in Worker
      BY <1>5, <2>2 DEF Worker
  <2> HIDE DEF u
  <2>5. Len(log) \in Nat
      BY <1>1
  <2> QED
      BY <2>3, <2>4, <2>5 DEF Worker
<1>12. /\ w'.pending = Deferred /\ w'.roots = BatchRoots /\ w'.expected = first
       /\ w'.reliable = w.reliable /\ w'.after = w.after /\ w'.known = Len(log)
    BY <1>1, <1>9 DEF Worker
<1>13. TypeOK'
  <2>1. row' \in Rows /\ pc' \in Places /\ faults' \in Nat
      BY DEF IInv, Shapes
  <2> QED
      BY <1>1, <1>7, <1>10, <1>11, <1>12, <2>1 DEF TypeOK
<1>14. MessagesExist'
  <2>1. \A x \in DOMAIN runs' : runs'[x].cause \in DOMAIN log
      BY <1>3, <1>7, <1>8 DEF MessagesExist, r
  <2> QED
      BY <1>2, <1>10, <1>12, <2>1 DEF MessagesExist
<1>15. EpisodesOpen'
    BY <1>10 DEF EpisodesOpen
<1>16. EpisodesAreRooted'
  <2> SUFFICES ASSUME NEW x \in DOMAIN runs', runs'[x].episode # NoEpisode
               PROVE  LET e == runs'[x].episode
                          c == log[runs'[x].cause]
                      IN  /\ e \in DOMAIN log /\ log[e].from = User
                          /\ \/ runs'[x].cause = e /\ runs'[x].hop = 0
                             \/ c.episode = e /\ runs'[x].hop = c.hop + 1
      BY <1>10 DEF EpisodesAreRooted
  <2>1. CASE x \in DOMAIN runs
      BY <1>7, <2>1 DEF EpisodesAreRooted
  <2>2. CASE x = r
      BY <1>3, <1>7, <1>8, <2>2 DEF EpisodesOpen
  <2> QED
      BY <1>7, <2>1, <2>2 DEF r
<1>17. NumbersSeen'
    BY <1>2, <1>10, <1>12 DEF NumbersSeen
<1>18. ExpectsWhatIsKnown'
  <2>1. first <= Len(log) /\ pc' # "reconsidering" /\ log' = log
      BY <1>1, <1>4, <1>10 DEF NumbersSeen
  <2> QED
      BY <1>1, <1>12, <2>1 DEF ExpectsWhatIsKnown
<1>19. NothingForgotten'
  <2> SUFFICES ASSUME Alive, registered, NEW x \in DOMAIN log, x > w.after,
                      log[x].from = User, ShouldQueue(log[x])
               PROVE  StillToSend(x)' \/ x \in ToSet(w'.pending) \/ Answers(x)' # {}
      BY <1>10, <1>12 DEF NothingForgotten, ShouldQueue, Handoff, Alive
  <2>1. StillToSend(x) \/ x \in ToSet(w.pending) \/ Answers(x) # {}
      BY DEF NothingForgotten
  <2>2. Answers(x) # {} => Answers(x)' # {}
      BY <1>7 DEF Answers, r
  <2>3. x \in ToSet(Batch) => r \in Answers(x)'
      BY <1>7, <1>8 DEF Answers, r
  <2> QED
      BY <1>2, <1>10, <1>12, <2>1, <2>2, <2>3 DEF StillToSend
<1> QED
    BY <1>13, <1>14, <1>15, <1>16, <1>17, <1>18, <1>19

-----------------------------------------------------------------------------
(* The steps one by one *)

\* The loop goes on with what it knows.
LEMMA LoopGoesOn ==
    ASSUME IInv', QueueInv, Alive,
           UNCHANGED <<log, conv, coming, socket, pauses>>,
           w' \in Worker, w'.pending = w.pending, w'.after = w.after,
           w'.reliable = w.reliable, w'.roots \in {w.roots, <<>>},
           runs' \in Seq(Run), SameRuns(runs'), saved' \in {saved, w.reliable},
           requests' \subseteq Request, reply' \in Reply,
           pc' # "submitting" \/ reply'.type # "stored",
           ExpectsWhatIsKnown'
    PROVE  QueueInv'
<1>1. /\ conv' \in Status /\ registered' \in BOOLEAN /\ closing' \in BOOLEAN
      /\ replay' = replay /\ wire' \in Seq(Status) /\ pauses' \in Nat
      /\ w.reliable \in Nat
    BY DEF QueueInv, TypeOK, socket, Worker
<1>2. w.reliable <= Len(log) /\ w'.reliable >= w.reliable
    BY <1>1 DEF QueueInv, NumbersSeen
<1> QED
    BY <1>1, <1>2, NothingArrives DEF socket

\* The record of the runs at the end of one.
LEMMA FinishIsTyped ==
    ASSUME IInv, QueueInv, w.active # NoRun, NEW status \in Terminal, Finish(status)
    PROVE  runs' \in Seq(Run) /\ SameRuns(runs') /\ saved' = w'.reliable
<1>1. w.active \in DOMAIN runs
    BY LenProperties DEF IInv, Shapes, NoRun
<1>2. runs' = WithStatus(w.active, status) /\ saved' = w'.reliable
    BY DEF Finish, Post
<1> QED
    BY <1>1, <1>2, StatusIsTyped DEF QueueInv, TypeOK, RunStatus

\* Runs that nobody touches.
LEMMA RunsAreTyped ==
    ASSUME QueueInv
    PROVE  runs \in Seq(Run) /\ SameRuns(runs)
BY DEF QueueInv, TypeOK, SameRuns

\* A run is given up: the queue stays.
LEMMA EndRunQueues ==
    ASSUME IInv, IInv', QueueInv, Alive, w.active # NoRun, EndRun,
           UNCHANGED <<log, conv, coming, socket, pauses>>,
           requests' \subseteq Request, reply' \in Reply
    PROVE  QueueInv'
<1>1. w \in Worker
    BY DEF QueueInv, TypeOK
<1>2. /\ w' \in Worker /\ w'.active = NoRun /\ w'.after = w.after
      /\ w'.reliable = w.reliable /\ w'.pending = w.pending /\ w'.roots \in {w.roots, <<>>}
    BY <1>1, ForgettingIsTyped DEF EndRun
<1>3. runs' \in Seq(Run) /\ SameRuns(runs') /\ saved' = w.reliable
    BY <1>2, FinishIsTyped DEF EndRun, Terminal
<1>4. pc' # "submitting"
    BY DEF EndRun
<1>5. ExpectsWhatIsKnown'
    BY <1>2, KnownStays
<1> QED
    BY <1>2, <1>3, <1>4, <1>5, LoopGoesOn

\* A model call ends, fails or is tried again.
LEMMA CallQueues ==
    ASSUME IInv, IInv', QueueInv,
           DecideToReply \/ DecideSilence \/ DraftIsReady \/ StoppedInCall
           \/ CallFails \/ CallRetries
    PROVE  QueueInv'
<1> USE DEF Elsewhere, server
<1>1. Calling /\ Alive /\ pc # "submitting"
    BY DEF DecideToReply, DecideSilence, DraftIsReady, StoppedInCall, CallFails,
           CallRetries, Calling, Alive
<1>2. w.active # NoRun
    BY <1>1 DEF IInv, WorkerHasItsRun
<1>3. w \in Worker /\ requests \subseteq Request /\ reply \in Reply /\ w.retries \in Nat
    BY DEF QueueInv, TypeOK, Worker
<1>4. runs \in Seq(Run) /\ SameRuns(runs)
    BY RunsAreTyped
<1>5. UNCHANGED <<log, conv, coming, socket, pauses>>
      /\ requests' \subseteq Request /\ reply' \in Reply
    BY <1>3 DEF DecideToReply, DecideSilence, DraftIsReady, StoppedInCall, CallFails, CallRetries
<1>6. CASE DecideToReply
  <2>1. w' = [w EXCEPT !.phase = "acting", !.retries = 0, !.typing = TRUE]
        /\ pc' = "acting" /\ UNCHANGED <<runs, saved>>
      BY <1>6 DEF DecideToReply, Phase
  <2>2. /\ w' \in Worker /\ w'.pending = w.pending /\ w'.after = w.after
        /\ w'.reliable = w.reliable /\ w'.roots = w.roots /\ w'.active = w.active
        /\ w'.active # NoRun => KnowsTheSame
      BY <1>2, <1>3, <2>1 DEF Worker, KnowsTheSame
  <2>3. ExpectsWhatIsKnown'
      BY <1>5, <2>2, KnownStays
  <2> QED
      BY <1>1, <1>4, <1>5, <2>1, <2>2, <2>3, LoopGoesOn
<1>7. CASE DecideSilence
  <2>1. w' = [Silenced EXCEPT !.expected = 0] /\ Finish("ENDED") /\ pc' = "idle"
      BY <1>7 DEF DecideSilence
  <2>2. /\ w' \in Worker /\ w'.active = NoRun /\ w'.after = w.after
        /\ w'.reliable = w.reliable /\ w'.pending = w.pending /\ w'.roots \in {w.roots, <<>>}
      BY <1>3, <2>1, ForgettingIsTyped
  <2>3. runs' \in Seq(Run) /\ SameRuns(runs') /\ saved' = w.reliable
      BY <1>2, <2>1, <2>2, FinishIsTyped DEF Terminal
  <2>4. ExpectsWhatIsKnown'
      BY <1>5, <2>2, KnownStays
  <2> QED
      BY <1>1, <1>5, <2>1, <2>2, <2>3, <2>4, LoopGoesOn
<1>8. CASE DraftIsReady \/ StoppedInCall
  <2>1. w' = w /\ pc' \in {"waiting", "idle"} /\ UNCHANGED record
      BY <1>8 DEF DraftIsReady, StoppedInCall
  <2>2. ExpectsWhatIsKnown'
      BY <1>2, <1>5, <2>1, KnownStays DEF KnowsTheSame
  <2>3. w.reliable \in Nat
      BY <1>3 DEF Worker
  <2> QED
      BY <1>1, <1>3, <1>4, <1>5, <2>1, <2>2, <2>3, LoopGoesOn DEF record
<1>9. CASE CallFails
    BY <1>1, <1>2, <1>5, <1>9, EndRunQueues DEF CallFails
<1>10. CASE CallRetries
  <2> DEFINE n == w.retries + 1
  <2>1. w' = [w EXCEPT !.retries = n] /\ n \in Nat
        /\ pc' = "backoff" /\ UNCHANGED <<runs, saved>>
      BY <1>3, <1>10 DEF CallRetries, record
  <2> HIDE DEF n
  <2>2. /\ w' \in Worker /\ w'.pending = w.pending /\ w'.after = w.after
        /\ w'.reliable = w.reliable /\ w'.roots = w.roots /\ w'.active = w.active
        /\ w'.active # NoRun => KnowsTheSame
      BY <1>2, <1>3, <2>1 DEF Worker, KnowsTheSame
  <2>3. ExpectsWhatIsKnown'
      BY <1>5, <2>2, KnownStays
  <2> QED
      BY <1>1, <1>4, <1>5, <2>1, <2>2, <2>3, LoopGoesOn
<1> QED
    BY <1>6, <1>7, <1>8, <1>9, <1>10

\* The backoff of a failed call is over.
LEMMA BackoffQueues == ASSUME IInv, IInv', QueueInv, BackoffOver PROVE QueueInv'
<1> USE DEF Elsewhere, server
<1>1. Alive /\ pc = "backoff"
    BY DEF BackoffOver, Alive
<1>2. w \in Worker /\ requests \subseteq Request /\ reply \in Reply
    BY DEF QueueInv, TypeOK
<1>3. runs \in Seq(Run) /\ SameRuns(runs)
    BY RunsAreTyped
<1>4. UNCHANGED <<log, conv, coming, socket, pauses>>
      /\ requests' \subseteq Request /\ reply' \in Reply
    BY <1>2 DEF BackoffOver
<1>5. CASE w.active # NoRun /\ EndRun
    BY <1>1, <1>4, <1>5, EndRunQueues
<1>6. CASE /\ ~Interrupted /\ pc' = w.phase /\ UNCHANGED record
           /\ w' = [w EXCEPT !.retried = @ \/ w.phase = "reconsidering"]
  <2>1. w.phase # "submitting" /\ w.active # NoRun
      BY <1>2, <1>6 DEF Worker, Interrupted
  <2> DEFINE b == w.retried \/ w.phase = "reconsidering"
  <2>2. w' = [w EXCEPT !.retried = b] /\ b \in BOOLEAN
      BY <1>6
  <2>3. b = (w.retried \/ w.phase = "reconsidering")
      OBVIOUS
  <2> HIDE DEF b
  <2>4. /\ w' \in Worker /\ w'.pending = w.pending /\ w'.after = w.after
        /\ w'.reliable = w.reliable /\ w'.roots = w.roots /\ w'.retried = b
        /\ w'.everyone = w.everyone /\ w'.known = w.known /\ w'.expected = w.expected
      BY <1>2, <2>2 DEF Worker
  <2>5. ExpectsWhatIsKnown'
      BY <1>4, <1>6, <2>1, <2>3, <2>4 DEF QueueInv, ExpectsWhatIsKnown
  <2> QED
      BY <1>1, <1>3, <1>4, <1>6, <2>1, <2>4, <2>5, LoopGoesOn DEF record
<1>7. CASE pc' = "idle" /\ w' = Cleared
           /\ Post(StatePost(StatusPost(row, NoRun, "ENDED", "RECONSIDERING"),
                             "LISTENING"), runs)
  <2>1. /\ w' \in Worker /\ w'.active = NoRun /\ w'.after = w.after
        /\ w'.reliable = w.reliable /\ w'.pending = w.pending /\ w'.roots \in {w.roots, <<>>}
      BY <1>2, <1>7, ForgettingIsTyped
  <2>2. runs' = runs /\ saved' = w.reliable
      BY <1>7, <2>1 DEF Post
  <2>3. ExpectsWhatIsKnown'
      BY <1>4, <2>1, KnownStays
  <2> QED
      BY <1>1, <1>3, <1>4, <1>7, <2>1, <2>2, <2>3, LoopGoesOn
<1>8. CASE w.active = NoRun /\ pc' = "idle" /\ UNCHANGED <<w, record>>
  <2>1. ExpectsWhatIsKnown'
      BY <1>4, <1>8, KnownStays
  <2>2. w.reliable \in Nat
      BY <1>2 DEF Worker
  <2> QED
      BY <1>1, <1>2, <1>3, <1>4, <1>8, <2>1, <2>2, LoopGoesOn DEF record
<1> QED
    BY <1>5, <1>6, <1>7, <1>8 DEF BackoffOver

\* The worker starts to reconsider, or posts its draft.
LEMMA ReconsiderQueues ==
    ASSUME IInv', QueueInv, Alive, NEW n \in Nat, w.active # NoRun,
           ReconsiderWith([w EXCEPT !.dirty = n]),
           UNCHANGED <<log, conv, coming, socket, pauses>>
    PROVE  QueueInv'
<1> DEFINE k == Max({w.known, w.reliable, n})
<1>1. /\ w \in Worker /\ requests \subseteq Request
      /\ w.known \in Nat /\ w.reliable \in Nat /\ w.expected \in Nat
    BY DEF QueueInv, TypeOK, Worker
<1>2. w' = [w EXCEPT !.dirty = n, !.phase = "reconsidering", !.retries = 0, !.known = k]
      /\ pc' = "reconsidering" /\ UNCHANGED <<requests, record>> /\ reply' = NoReply
    BY <1>1 DEF ReconsiderWith, Worker
<1>3. k \in {w.known, w.reliable, n} /\ k \in Nat /\ k >= w.known /\ k >= w.reliable /\ k >= n
    BY <1>1, MaxOfThree
<1> HIDE DEF k
<1>4. /\ w' \in Worker /\ w'.pending = w.pending /\ w'.after = w.after
      /\ w'.reliable = w.reliable /\ w'.roots = w.roots /\ w'.active = w.active
      /\ w'.everyone = w.everyone /\ w'.retried = w.retried
      /\ w'.expected = w.expected /\ w'.dirty = n /\ w'.known = k
    BY <1>1, <1>2, <1>3 DEF Worker
<1>5. ExpectsWhatIsKnown'
    BY <1>1, <1>3, <1>4 DEF QueueInv, ExpectsWhatIsKnown
<1>6. NoReply \in Reply
    BY DEF NoReply, Reply
<1> QED
    BY <1>1, <1>2, <1>4, <1>5, <1>6, RunsAreTyped, LoopGoesOn DEF record

\* The draft is posted.
LEMMA SendQueues ==
    ASSUME IInv', QueueInv, Alive, NEW v \in Worker, Send(v), UNCHANGED record,
           UNCHANGED <<log, conv, coming, socket, pauses>>,
           v.pending = w.pending, v.after = w.after,
           v.reliable = w.reliable, v.roots = w.roots,
           v.known = w.known,
           v.everyone \/ v.retried \/ v.expected <= w.known
    PROVE  QueueInv'
<1>1. w' = v /\ reply' = NoReply
      /\ requests' = requests \cup
            {[run |-> v.active, expected |-> v.expected, checked |-> FALSE]}
    BY DEF Send
<1>2. [run |-> v.active, expected |-> v.expected, checked |-> FALSE] \in Request
    BY DEF Worker, Request
<1>3. requests' \subseteq Request
    BY <1>1, <1>2 DEF QueueInv, TypeOK
<1>4. NoReply \in Reply /\ NoReply.type # "stored"
    BY DEF NoReply, Reply
<1>5. ExpectsWhatIsKnown'
    BY <1>1 DEF Send, ExpectsWhatIsKnown
<1> QED
    BY <1>1, <1>3, <1>4, <1>5, RunsAreTyped, LoopGoesOn DEF record

\* The wait before the post is over, or the draft has been reconsidered.
LEMMA DraftQueues ==
    ASSUME IInv, IInv', QueueInv, WaitOver \/ DropDraft \/ KeepDraft PROVE QueueInv'
<1>1. Alive /\ pc # "submitting"
    BY DEF WaitOver, DropDraft, KeepDraft, Alive
<1>2. /\ w \in Worker /\ requests \subseteq Request /\ reply \in Reply /\ NoReply \in Reply
      /\ w.reliable \in Nat /\ w.dirty \in Nat /\ w.expected \in Nat
    BY DEF QueueInv, TypeOK, Worker, NoReply, Reply
<1>3. UNCHANGED <<log, conv, coming, socket, pauses>>
    BY DEF WaitOver, DropDraft, KeepDraft
<1>4. CASE Abandon /\ w.active # NoRun
    BY <1>1, <1>2, <1>3, <1>4, EndRunQueues DEF Abandon
<1>5. CASE KeepDraft
  <2> DEFINE n == Max({w.reliable, w.dirty, w.expected})
             v == [w EXCEPT !.expected = n, !.dirty = 0]
  <2>1. n \in Nat /\ n \in {w.reliable, w.dirty, w.expected}
      BY <1>2, MaxOfThree
  <2>2. Send(v) /\ UNCHANGED record /\ pc = "reconsidering"
      BY <1>5 DEF KeepDraft
  <2>3. w.active # NoRun
      BY <2>2 DEF Calling, IInv, WorkerHasItsRun
  <2>4. w.retried \/ w.everyone \/ n <= w.known
      BY <2>1, <2>2, <2>3 DEF QueueInv, ExpectsWhatIsKnown
  <2> HIDE DEF n
  <2>5. /\ v \in Worker /\ v.pending = w.pending /\ v.after = w.after
        /\ v.reliable = w.reliable /\ v.roots = w.roots /\ v.retried = w.retried
        /\ v.known = w.known /\ v.everyone = w.everyone /\ v.expected = n
      BY <1>2, <2>1 DEF Worker
  <2> HIDE DEF v
  <2> QED
      BY <1>1, <1>3, <2>2, <2>4, <2>5, SendQueues
<1>6. CASE WaitOver /\ w.active = NoRun /\ pc' = "idle" /\ w' = Cleared
           /\ UNCHANGED <<requests, record, reply>>
  <2>1. /\ w' \in Worker /\ w'.active = NoRun /\ w'.after = w.after
        /\ w'.reliable = w.reliable /\ w'.pending = w.pending /\ w'.roots \in {w.roots, <<>>}
      BY <1>2, <1>6, ForgettingIsTyped
  <2>2. ExpectsWhatIsKnown'
      BY <1>3, <2>1, KnownStays
  <2> QED
      BY <1>1, <1>2, <1>3, <1>6, <2>1, <2>2, RunsAreTyped, LoopGoesOn DEF record
<1>7. CASE WaitOver /\ w.active # NoRun /\ ReconsiderWith(w)
  <2>1. w = [w EXCEPT !.dirty = w.dirty]
      BY <1>2 DEF Worker
  <2> QED
      BY <1>1, <1>2, <1>3, <1>7, <2>1, ReconsiderQueues
<1>8. CASE WaitOver /\ w.active # NoRun /\ Send(w) /\ UNCHANGED record
  <2>1. w.retried \/ w.everyone \/ w.expected <= w.known
      BY <1>8 DEF QueueInv, ExpectsWhatIsKnown
  <2> QED
      BY <1>1, <1>2, <1>3, <1>8, <2>1, SendQueues
<1>9. CASE DropDraft
  <2>1. w.active # NoRun
      BY <1>9 DEF DropDraft, Calling, IInv, WorkerHasItsRun
  <2> QED
      BY <1>4, <1>9, <2>1 DEF DropDraft
<1> QED
    BY <1>4, <1>5, <1>6, <1>7, <1>8, <1>9 DEF WaitOver

\* The worker reads the answer to its post.
LEMMA SubmittedQueues == ASSUME IInv, IInv', QueueInv, Submitted PROVE QueueInv'
<1>1. Alive /\ pc = "submitting" /\ w.active # NoRun
    BY DEF Submitted, Alive, IInv, WorkerHasItsRun
<1>2. /\ w \in Worker /\ requests \subseteq Request /\ reply \in Reply /\ NoReply \in Reply
      /\ w.submits \in Nat /\ reply.seq \in Nat /\ Len(log) \in Nat /\ w.reliable \in Nat
    BY LenProperties DEF QueueInv, TypeOK, Worker, NoReply, Reply
<1>3. UNCHANGED <<log, conv, coming, socket, pauses>>
    BY DEF Submitted
<1>4. CASE Abandon
    BY <1>1, <1>2, <1>3, <1>4, EndRunQueues DEF Abandon
<1>5. ASSUME NEW seq \in Nat, SubmitAgain(seq), w.everyone PROVE QueueInv'
  <2>1. CASE Abandon
      BY <1>4, <2>1
  <2>2. CASE Send([w EXCEPT !.submits = @ + 1, !.expected = seq]) /\ UNCHANGED record
    <3> DEFINE n == w.submits + 1
               v == [w EXCEPT !.submits = n, !.expected = seq]
    <3>1. n \in Nat /\ Send(v)
        BY <1>2, <2>2
    <3> HIDE DEF n
    <3>2. /\ v \in Worker /\ v.pending = w.pending /\ v.after = w.after
          /\ v.reliable = w.reliable /\ v.roots = w.roots /\ v.everyone /\ v.known = w.known
        BY <1>2, <1>5, <3>1 DEF Worker
    <3> HIDE DEF v
    <3> QED
        BY <1>1, <1>3, <2>2, <3>1, <3>2, SendQueues
  <2> QED
      BY <1>5, <2>1, <2>2 DEF SubmitAgain
<1>6. CASE reply.type = "stored" /\ w' = [Cleared EXCEPT !.reliable = reply.seq]
           /\ pc' = "idle" /\ Finish("COMMITTED") /\ reply' = NoReply /\ UNCHANGED requests
  <2>1. w.reliable <= reply.seq /\ reply.seq <= Len(log)
      BY <1>1, <1>6 DEF QueueInv, NumbersSeen
  <2>2. Cleared \in Worker /\ Cleared.active = NoRun /\ Cleared.after = w.after
        /\ Cleared.pending = w.pending /\ Cleared.roots \in {w.roots, <<>>}
      BY <1>2, ForgettingIsTyped
  <2>3. /\ w' \in Worker /\ w'.active = NoRun /\ w'.after = w.after
        /\ w'.reliable = reply.seq /\ w'.pending = w.pending /\ w'.roots \in {w.roots, <<>>}
      BY <1>2, <1>6, <2>2 DEF Worker
  <2>4. runs' \in Seq(Run) /\ SameRuns(runs') /\ saved' = w'.reliable
      BY <1>1, <1>6, FinishIsTyped DEF Terminal
  <2>5. /\ conv' \in Status /\ registered' \in BOOLEAN /\ closing' \in BOOLEAN
        /\ replay' = replay /\ registered' = registered /\ wire' \in Seq(Status)
        /\ pauses' \in Nat
      BY <1>3 DEF QueueInv, TypeOK, socket
  <2>6. ExpectsWhatIsKnown'
      BY <1>3, <2>3, KnownStays
  <2> QED
      BY <1>1, <1>2, <1>3, <1>6, <2>1, <2>3, <2>4, <2>5, <2>6, NothingArrives
<1>7. CASE reply.type = "conflict" /\ AfterConflict(reply.seq)
  <2>1. CASE w.everyone
      BY <1>2, <1>5, <1>7, <2>1 DEF AfterConflict
  <2>2. CASE ~w.everyone
      BY <1>1, <1>2, <1>3, <1>7, <2>2, ReconsiderQueues DEF AfterConflict
  <2> QED
      BY <2>1, <2>2
<1>8. CASE IF w.everyone THEN SubmitAgain(Len(log)) ELSE Abandon
    BY <1>2, <1>4, <1>5, <1>8
<1> QED
    BY <1>4, <1>6, <1>7, <1>8 DEF Submitted

\* The server answers a post of the worker.
LEMMA AnswerQueues ==
    ASSUME IInv, IInv', QueueInv, CheckStatus \/ Store PROVE QueueInv'
<1> USE DEF socket, record
<1>1. /\ w \in Worker /\ requests \subseteq Request /\ reply \in Reply
      /\ Len(log) \in Nat /\ w.reliable \in Nat /\ w.reliable <= Len(log)
    BY LenProperties DEF QueueInv, TypeOK, Worker, NumbersSeen
<1>2. UNCHANGED <<conv, socket, record, pc, w, pauses>>
    BY DEF CheckStatus, Store
<1>3. ASSUME log' = log, coming' = coming, requests' \subseteq Request,
             reply' \in Reply, reply' = reply \/ reply'.type # "stored"
      PROVE  QueueInv'
  <2>1. pc' = "submitting" /\ reply'.type = "stored" =>
            w'.reliable <= reply'.seq /\ reply'.seq <= Len(log)
      BY <1>2, <1>3 DEF QueueInv, NumbersSeen
  <2>2. /\ conv' \in Status /\ registered' \in BOOLEAN /\ closing' \in BOOLEAN
        /\ replay' = replay /\ registered' = registered /\ wire' \in Seq(Status)
        /\ pauses' \in Nat /\ saved' = saved /\ w' = w /\ (Alive' => Alive)
      BY <1>2 DEF QueueInv, TypeOK, Alive
  <2>3. runs' \in Seq(Run) /\ SameRuns(runs')
      BY <1>2, RunsAreTyped
  <2>4. ExpectsWhatIsKnown'
      BY <1>2, <1>3, KnownStays DEF KnowsTheSame
  <2> QED
      BY <1>1, <1>3, <2>1, <2>2, <2>3, <2>4, NothingArrives
<1>4. ASSUME NEW q \in requests, NEW type \in {"notRunning", "conflict", "budget", "projection"},
             NEW seq \in Nat, Answer(q, type, seq), log' = log, coming' = coming
      PROVE  QueueInv'
  <2>1. [type |-> type, seq |-> seq] \in Reply /\ type # "stored"
      BY DEF Reply
  <2>2. requests' \subseteq Request /\ reply' \in Reply
        /\ (reply' = reply \/ reply'.type # "stored")
      BY <1>1, <1>4, <2>1 DEF Answer
  <2> QED
      BY <1>3, <1>4, <2>2
<1>5. CASE CheckStatus
  <2>1. PICK q \in requests :
            IF conv = "running"
            THEN /\ requests' = (requests \ {q}) \cup {[q EXCEPT !.checked = TRUE]}
                 /\ reply' = reply
            ELSE Answer(q, "notRunning", 0)
      BY <1>5 DEF CheckStatus
  <2>2. log' = log /\ coming' = coming
      BY <1>5 DEF CheckStatus
  <2>3. CASE conv = "running"
    <3>1. [q EXCEPT !.checked = TRUE] \in Request
        BY <1>1 DEF Request
    <3> QED
        BY <1>1, <1>3, <2>1, <2>2, <2>3, <3>1
  <2>4. CASE conv # "running"
      BY <1>4, <2>1, <2>2, <2>4
  <2> QED
      BY <2>3, <2>4
<1>6. CASE Store
  <2>1. PICK q \in requests :
            LET run == runs[q.run]
            IN  \/ /\ Commit([from |-> Me, mentions |-> {}, episode |-> run.episode,
                               cause |-> run.cause, hop |-> run.hop, run |-> q.run])
                   /\ Answer(q, "stored", Len(log) + 1)
                \/ Answer(q, "conflict", Len(log)) /\ UNCHANGED <<log, coming>>
                \/ Answer(q, "budget", 0) /\ UNCHANGED <<log, coming>>
                \/ Answer(q, "projection", 0) /\ UNCHANGED <<log, coming>>
      BY <1>6 DEF Store
  <2> DEFINE run == runs[q.run]
             m == [from |-> Me, mentions |-> {}, episode |-> run.episode,
                   cause |-> run.cause, hop |-> run.hop, run |-> q.run]
  <2>2. CASE Commit(m) /\ Answer(q, "stored", Len(log) + 1)
    <3>1. q.run \in DOMAIN runs /\ q.run \in Nat
        BY <1>1 DEF IInv, RequestsAreOpen, Request
    <3>2. run \in Run
        BY <3>1, ElementOfSeq, LenProperties DEF QueueInv, TypeOK
    <3>3. m \in Message
        BY <3>1, <3>2, WorkerAssumption DEF Message, Run, Agents
    <3>4. run.episode # NoEpisode => run.episode \in DOMAIN log /\ log[run.episode].from = User
        BY <3>1 DEF QueueInv, EpisodesAreRooted
    <3>5. m.episode = run.episode
        OBVIOUS
    <3>6. [type |-> "stored", seq |-> Len(log) + 1] \in Reply
        BY <1>1 DEF Reply
    <3>7. requests' \subseteq Request /\ reply' \in Reply
          /\ (reply' = reply \/ reply' = [type |-> "stored", seq |-> Len(log) + 1])
        BY <1>1, <2>2, <3>6 DEF Answer
    <3>8. pc = "submitting" /\ reply'.type = "stored" =>
              w.reliable <= reply'.seq /\ reply'.seq <= Len(log) + 1
      <4>1. CASE reply' = reply
          BY <1>1, <4>1 DEF QueueInv, NumbersSeen, Reply
      <4>2. CASE reply' = [type |-> "stored", seq |-> Len(log) + 1]
          BY <1>1, <4>2
      <4> QED
          BY <3>7, <4>1, <4>2
    <3> HIDE DEF m, run
    <3> QED
        BY <1>2, <2>2, <3>3, <3>4, <3>5, <3>7, <3>8, MessageStored
  <2>3. CASE \E type \in {"conflict", "budget", "projection"}, seq \in Nat :
                 Answer(q, type, seq) /\ UNCHANGED <<log, coming>>
      BY <1>4, <2>3
  <2> QED
      BY <1>1, <2>1, <2>2, <2>3
<1> QED
    BY <1>5, <1>6

\* The loop takes something from its socket.
LEMMA ReceiveQueues == ASSUME IInv, IInv', QueueInv, Receive PROVE QueueInv'
<1> USE DEF socket
<1>1. Alive /\ pc \notin {"submitting", "reconsidering"}
    BY DEF Receive, Pumping, Alive
<1>2. /\ w \in Worker /\ requests \subseteq Request /\ reply \in Reply
      /\ replay \in [next : Nat, upto : Nat \cup {Unqueried}]
      /\ Len(log) \in Nat /\ DOMAIN log = 1..Len(log) /\ wire \in Seq(Status)
    BY LenProperties DEF QueueInv, TypeOK
<1>3. UNCHANGED <<log, conv, requests, registered, closing, pc, reply, pauses>>
    BY DEF Receive
<1>4. CASE \E s \in coming : /\ coming' = coming \ {s}
                             /\ ReceiveMessage(s)
                             /\ UNCHANGED <<replay, wire>>
  <2>1. PICK s \in coming : coming' = coming \ {s} /\ ReceiveMessage(s)
                            /\ UNCHANGED <<replay, wire>>
      BY <1>4
  <2>2. s \in DOMAIN log
      BY DEF QueueInv, MessagesExist
  <2> QED
      BY <1>1, <1>3, <2>1, <2>2, MessageReceived
<1>5. CASE /\ replay.next <= replay.upto
           /\ replay' = [replay EXCEPT !.next = @ + 1]
           /\ ReceiveMessage(replay.next)
           /\ UNCHANGED <<coming, wire>>
  <2>1. replay.next \in DOMAIN log
      BY <1>2, <1>5 DEF QueueInv, MessagesExist, Unqueried
  <2> QED
      BY <1>1, <1>3, <1>5, <2>1, MessageReceived
<1>6. CASE /\ wire # <<>> /\ wire' = Tail(wire)
           /\ IF Head(wire) = "paused" THEN ReceivePause ELSE ReceiveResume
           /\ UNCHANGED <<coming, replay>>
  <2>1. wire' \in Seq(Status)
      BY <1>2, <1>6, HeadTailProperties
  <2>2. /\ w' \in Worker /\ w'.pending = w.pending /\ w'.after = w.after
        /\ w'.reliable = w.reliable /\ w'.roots = w.roots /\ w'.active \in {w.active, NoRun}
        /\ w'.active # NoRun => KnowsTheSame
    <3>1. CASE ReceivePause
        BY <1>2, <3>1 DEF ReceivePause, Worker, NoRun, KnowsTheSame
    <3>2. CASE ReceiveResume
        BY <1>2, <1>3, <3>2 DEF ReceiveResume, Worker, KnowsTheSame
    <3> QED
        BY <1>6, <3>1, <3>2
  <2>3. saved' = w'.reliable
      BY <1>6 DEF ReceivePause, ReceiveResume, Post
  <2>4. runs' \in Seq(Run) /\ SameRuns(runs')
    <3>1. CASE runs' = runs
        BY <3>1, RunsAreTyped
    <3>2. CASE w.active # NoRun /\ runs' = WithStatus(w.active, "ENDED")
      <4>1. w.active \in DOMAIN runs
          BY <3>2, LenProperties DEF IInv, Shapes, NoRun
      <4> QED
          BY <3>2, <4>1, StatusIsTyped DEF QueueInv, TypeOK, RunStatus, Terminal
    <3> QED
        BY <1>6, <3>1, <3>2 DEF ReceivePause, ReceiveResume, Post
  <2>5. w.reliable <= Len(log) /\ w.reliable \in Nat
      BY <1>2 DEF QueueInv, NumbersSeen, Worker
  <2>6. /\ conv' \in Status /\ registered' \in BOOLEAN /\ closing' \in BOOLEAN /\ pauses' \in Nat
        /\ replay' = replay /\ coming' = coming /\ (Alive' => Alive)
      BY <1>3, <1>6 DEF QueueInv, TypeOK, Alive
  <2>7. ExpectsWhatIsKnown'
      BY <1>3, <2>2, KnownStays
  <2> QED
      BY <1>1, <1>2, <1>3, <2>1, <2>2, <2>3, <2>4, <2>5, <2>6, <2>7, NothingArrives
<1> QED
    BY <1>4, <1>5, <1>6 DEF Receive

\* Users and the other agent post.
LEMMA PostQueues ==
    ASSUME IInv', QueueInv, UserPosts \/ PeerPosts PROVE QueueInv'
<1>1. /\ requests \subseteq Request /\ reply \in Reply /\ Len(log) \in Nat
      /\ \A s \in DOMAIN log : log[s] \in Message /\ s \in Nat
    BY LenProperties, ElementOfSeq DEF QueueInv, TypeOK
<1>2. /\ UNCHANGED <<conv, socket, runs, saved, pc, w, pauses>>
      /\ requests' = requests /\ reply' = reply
    BY DEF UserPosts, PeerPosts, record
<1>3. pc = "submitting" /\ reply'.type = "stored" =>
          w.reliable <= reply'.seq /\ reply'.seq <= Len(log) + 1
    BY <1>1, <1>2 DEF QueueInv, NumbersSeen, Reply
<1>4. ASSUME NEW m \in Message, Commit(m),
             m.episode # NoEpisode => m.episode \in DOMAIN log /\ log[m.episode].from = User
      PROVE  QueueInv'
    BY <1>1, <1>2, <1>3, <1>4, MessageStored
<1>5. CASE UserPosts
  <2>1. PICK mentions \in UserMentions :
            Commit([from |-> User, mentions |-> mentions, episode |-> NoEpisode,
                     cause |-> 0, hop |-> 0, run |-> NoRun])
      BY <1>5 DEF UserPosts
  <2> DEFINE m == [from |-> User, mentions |-> mentions, episode |-> NoEpisode,
                   cause |-> 0, hop |-> 0, run |-> NoRun]
  <2>2. m \in Message /\ m.episode = NoEpisode
      BY WorkerAssumption DEF Message, NoEpisode, NoRun
  <2> QED
      BY <1>4, <2>1, <2>2
<1>6. CASE PeerPosts
  <2>1. PICK s \in DOMAIN log, mentions \in PeerMentions, root \in BOOLEAN :
            (root => log[s].from = User)
            /\ Commit([from |-> Peer, mentions |-> mentions,
                     episode |-> EpisodeFor(s, root), cause |-> s,
                     hop |-> HopFor(s, root), run |-> NoRun])
      BY <1>6 DEF PeerPosts
  <2> DEFINE m == [from |-> Peer, mentions |-> mentions,
                   episode |-> EpisodeFor(s, root), cause |-> s,
                   hop |-> HopFor(s, root), run |-> NoRun]
  <2>2. EpisodeFor(s, root) \in Nat /\ HopFor(s, root) \in Nat
      BY <1>1 DEF EpisodeFor, HopFor, Message
  <2>3. m \in Message /\ m.episode = EpisodeFor(s, root)
      BY <1>1, <2>2, WorkerAssumption DEF Message, NoRun, Agents
  <2>4. m.episode # NoEpisode => m.episode \in DOMAIN log /\ log[m.episode].from = User
      BY <2>1, <2>3 DEF QueueInv, EpisodesOpen, EpisodeFor
  <2> QED
      BY <1>4, <2>1, <2>3, <2>4
<1> QED
    BY <1>5, <1>6

\* Control events, a message nobody hears, and the end of a socket.
LEMMA AroundQueues ==
    ASSUME IInv', QueueInv, Pause \/ Resume \/ Unheard \/ SocketClosed PROVE QueueInv'
<1> USE DEF socket, record, server
<1>1. /\ w \in Worker /\ requests \subseteq Request /\ reply \in Reply
      /\ w.reliable \in Nat /\ w.reliable <= Len(log)
      /\ conv \in Status /\ registered \in BOOLEAN /\ closing \in BOOLEAN
      /\ wire \in Seq(Status) /\ pauses \in Nat
    BY DEF QueueInv, TypeOK, Worker, NumbersSeen
<1>2. UNCHANGED <<log, requests, replay, record, pc, w, reply>>
    BY DEF Pause, Resume, ChangeStatus, Unheard, SocketClosed
<1>3. coming' \subseteq coming /\ (Alive' /\ registered' => Alive /\ registered /\ coming' = coming)
    BY <1>1, <1>2 DEF Pause, Resume, ChangeStatus, Unheard, SocketClosed, Alive
<1>4. conv' \in Status /\ registered' \in BOOLEAN /\ closing' \in BOOLEAN /\ pauses' \in Nat
  <2>1. CASE Pause
      BY <1>1, <2>1 DEF Pause, ChangeStatus, Status
  <2>2. CASE Resume
      BY <1>1, <2>2 DEF Resume, ChangeStatus, Status
  <2>3. CASE Unheard \/ SocketClosed
      BY <1>1, <2>3 DEF Unheard, SocketClosed
  <2> QED
      BY <2>1, <2>2, <2>3
<1>5. wire' \in Seq(Status)
  <2>1. CASE wire' = wire
      BY <1>1, <2>1
  <2>2. CASE \E to \in Status : wire' = Append(wire, to)
      BY <1>1, <2>2, AppendProperties
  <2> QED
      BY <2>1, <2>2 DEF Pause, Resume, ChangeStatus, Unheard, SocketClosed, Status
<1>6. pc' = "submitting" /\ reply'.type = "stored" =>
          w'.reliable <= reply'.seq /\ reply'.seq <= Len(log)
    BY <1>2 DEF QueueInv, NumbersSeen
<1>7. runs' \in Seq(Run) /\ SameRuns(runs')
    BY <1>2, RunsAreTyped
<1>8. ExpectsWhatIsKnown'
    BY <1>2, KnownStays DEF KnowsTheSame
<1> QED
    BY <1>1, <1>2, <1>3, <1>4, <1>5, <1>6, <1>7, <1>8, NothingArrives

\* A process gets a signal, ends, is recorded as ended or starts.
LEMMA ProcessQueues ==
    ASSUME IInv, IInv', QueueInv, Signal \/ Exit \/ Crash \/ RecordExit \/ Boot PROVE QueueInv'
<1> USE DEF socket, record, server
<1>1. /\ w \in Worker /\ requests \subseteq Request /\ reply \in Reply
      /\ w.reliable \in Nat /\ w.reliable <= Len(log) /\ Len(log) \in Nat
      /\ saved \in Nat \cup {NothingSaved} /\ saved <= Len(log)
      /\ conv \in Status /\ registered \in BOOLEAN /\ closing \in BOOLEAN
      /\ wire \in Seq(Status) /\ pauses \in Nat
    BY LenProperties DEF QueueInv, TypeOK, Worker, NumbersSeen
<1>2. UNCHANGED <<log, conv, coming, requests, registered, pauses>>
    BY DEF Signal, Exit, Crash, Dies, RecordExit, Boot
<1>3. runs \in Seq(Run) /\ SameRuns(runs)
    BY RunsAreTyped
<1>4. CASE Signal
  <2>1. /\ w' \in Worker /\ w'.pending = w.pending /\ w'.after = w.after
        /\ w'.reliable = w.reliable /\ w'.roots = w.roots /\ w'.active = w.active
        /\ w'.active # NoRun => KnowsTheSame
      BY <1>1, <1>4 DEF Signal, Worker, KnowsTheSame
  <2>2. UNCHANGED <<closing, replay, wire, runs, saved, pc, reply>>
      BY <1>4 DEF Signal
  <2>3. pc' = "submitting" /\ reply'.type = "stored" =>
            w'.reliable <= reply'.seq /\ reply'.seq <= Len(log)
      BY <2>1, <2>2 DEF QueueInv, NumbersSeen
  <2>4. Alive' => Alive
      BY <2>2 DEF Alive
  <2>5. ExpectsWhatIsKnown'
      BY <1>2, <2>1, KnownStays
  <2> QED
      BY <1>1, <1>2, <1>3, <2>1, <2>2, <2>3, <2>4, <2>5, NothingArrives
<1>5. CASE Exit \/ Crash
  <2>1. w' = NewWorker(0) /\ w' \in Worker
      BY <1>5, NewWorkerIsTyped DEF Exit, Crash, Dies
  <2>2. w'.active = NoRun /\ w'.pending = <<>> /\ w'.roots = <<>> /\ w'.reliable = 0
      BY <2>1 DEF NewWorker
  <2>3. /\ replay' = NoReplay /\ wire' = <<>> /\ reply' = NoReply /\ closing' = TRUE
        /\ pc' = "down" /\ ~Alive'
      BY <1>5 DEF Exit, Crash, Dies, Alive
  <2>4. saved' \in {saved, w.reliable}
      BY <1>5 DEF Exit, Crash
  <2>5. runs' \in Seq(Run) /\ SameRuns(runs')
    <3>1. CASE runs' = runs
        BY <1>3, <3>1
    <3>2. CASE w.active # NoRun /\ runs' = WithStatus(w.active, "ENDED")
      <4>1. w.active \in DOMAIN runs
          BY <3>2, LenProperties DEF IInv, Shapes, NoRun
      <4> QED
          BY <1>3, <3>2, <4>1, StatusIsTyped DEF RunStatus, Terminal
    <3> QED
        BY <1>5, <3>1, <3>2 DEF Exit, Crash
  <2>6. NoReply \in Reply /\ <<>> \in Seq(Status)
      BY DEF NoReply, Reply
  <2>7. ExpectsWhatIsKnown'
      BY <1>2, <2>2, KnownStays
  <2> QED
      BY <1>1, <1>2, <2>1, <2>2, <2>3, <2>4, <2>5, <2>6, <2>7, NothingArrives
<1>6. CASE RecordExit
  <2>1. UNCHANGED <<closing, replay, wire, saved, w, reply>>
        /\ pc' \in {"gone", "starting"}
      BY <1>6 DEF RecordExit
  <2>2. runs' \in Seq(Run) /\ SameRuns(runs')
    <3>1. CASE runs' = runs
        BY <1>3, <3>1
    <3>2. CASE row.active # NoRun /\ runs' = WithStatus(row.active, "ENDED")
      <4>1. row.active \in DOMAIN runs
          BY <3>2, LenProperties DEF IInv, Shapes, RowsAreConsistent, NoRun
      <4> QED
          BY <1>3, <3>2, <4>1, StatusIsTyped DEF RunStatus, Terminal
    <3> QED
        BY <1>6, <3>1, <3>2 DEF RecordExit
  <2>3. ~Alive' /\ pc' # "submitting"
      BY <2>1 DEF Alive
  <2>4. ExpectsWhatIsKnown'
      BY <1>2, <2>1, <2>3, KnownStays DEF KnowsTheSame
  <2> QED
      BY <1>1, <1>2, <2>1, <2>2, <2>3, <2>4, NothingArrives
<1>7. CASE Boot
  <2> DEFINE n == IF saved = NothingSaved THEN Len(log) ELSE saved
  <2>1. w' = NewWorker(n) /\ n \in Nat /\ n <= Len(log)
      BY <1>1, <1>7 DEF Boot
  <2> HIDE DEF n
  <2>2. /\ w' \in Worker /\ w'.active = NoRun /\ w'.pending = <<>> /\ w'.roots = <<>>
        /\ w'.reliable = n
      BY <2>1, NewWorkerIsTyped DEF NewWorker
  <2>3. UNCHANGED <<closing, replay, wire, runs, saved, reply>> /\ pc' = "connecting"
      BY <1>7 DEF Boot
  <2>4. ~Alive'
      BY <2>3 DEF Alive
  <2>5. ExpectsWhatIsKnown'
      BY <1>2, <2>2, KnownStays
  <2> QED
      BY <1>1, <1>2, <1>3, <2>1, <2>2, <2>3, <2>4, <2>5, NothingArrives
<1> QED
    BY <1>4, <1>5, <1>6, <1>7

\* The state before the first process runs.
LEMMA InitQueues == Init => QueueInv
<1> SUFFICES ASSUME Init PROVE QueueInv
    OBVIOUS
<1> USE DEF Init
<1>1. w \in Worker /\ w.reliable = 0 /\ w.pending = <<>> /\ w.roots = <<>> /\ w.active = NoRun
    BY NewWorkerIsTyped DEF NewWorker
<1>2. TypeOK
  <2>1. row \in Rows /\ pc \in Places /\ faults \in Nat
      BY InitIInv DEF IInv, Shapes
  <2>2. NoReply \in Reply /\ NoReplay \in [next : Nat, upto : Nat \cup {Unqueried}]
      BY DEF NoReply, Reply, NoReplay
  <2>3. log \in Seq(Message) /\ runs \in Seq(Run) /\ wire \in Seq(Status)
      OBVIOUS
  <2>4. conv \in Status /\ saved \in Nat \cup {NothingSaved}
      BY DEF Status
  <2> QED
      BY <1>1, <2>1, <2>2, <2>3, <2>4 DEF TypeOK
<1>3. MessagesExist
    BY <1>1 DEF MessagesExist, NoReplay, ToSet
<1>4. EpisodesOpen /\ EpisodesAreRooted
    BY DEF EpisodesOpen, EpisodesAreRooted
<1>5. NumbersSeen
    BY <1>1 DEF NumbersSeen, ToSet, NothingSaved
<1>6. ExpectsWhatIsKnown /\ NothingForgotten
    BY <1>1 DEF ExpectsWhatIsKnown, NothingForgotten
<1> QED
    BY <1>2, <1>3, <1>4, <1>5, <1>6 DEF QueueInv

\* Nothing changes.
LEMMA QueuesUntouched ==
    ASSUME QueueInv, UNCHANGED vars PROVE QueueInv'
<1> USE DEF vars, server, socket, record
<1>1. TypeOK' /\ MessagesExist'
    BY DEF QueueInv, TypeOK, MessagesExist
<1>2. EpisodesOpen' /\ EpisodesAreRooted'
    BY DEF QueueInv, EpisodesOpen, EpisodesAreRooted
<1>3. NumbersSeen' /\ ExpectsWhatIsKnown'
    BY DEF QueueInv, NumbersSeen, ExpectsWhatIsKnown
<1>4. NothingForgotten'
    BY DEF QueueInv, NothingForgotten, StillToSend, ShouldQueue, Handoff, Answers, Alive
<1> QED
    BY <1>1, <1>2, <1>3, <1>4 DEF QueueInv

\* Every step keeps the queues.
LEMMA StepQueues == IInv /\ QueueInv /\ [Next]_vars => QueueInv'
<1> SUFFICES ASSUME IInv, QueueInv, [Next]_vars PROVE QueueInv'
    OBVIOUS
<1>1. IInv'
    BY StepIInv
<1>2. CASE Environment
    BY <1>1, <1>2, PostQueues, AroundQueues, ProcessQueues DEF Environment
<1>3. CASE Handlers
    BY <1>1, <1>3, AroundQueues, ReplayKeeps, AnswerQueues DEF Handlers
<1>4. CASE Supervision
    BY <1>1, <1>4, ProcessQueues DEF Supervision
<1>5. CASE Running
    BY <1>1, <1>5, ProcessQueues, ReplayKeeps, ReceiveQueues, StartQueues, CallQueues,
       BackoffQueues, DraftQueues, SubmittedQueues DEF Running
<1>6. CASE UNCHANGED vars
    BY <1>6, QueuesUntouched
<1> QED
    BY <1>2, <1>3, <1>4, <1>5, <1>6 DEF Next

\* The invariant of the queues holds in every reachable state.
THEOREM QueuesHold == Spec => []QueueInv
<1>1. Init => QueueInv
    BY InitQueues
<1>2. IInv /\ QueueInv /\ [Next]_vars => QueueInv'
    BY StepQueues
<1> QED
    BY <1>1, <1>2, Invariance, PTL DEF Spec

\* The transcript, the runs, the requests and the state of the worker have their
\* types (WorkerState, the tables of archive.py).
THEOREM TypeCorrect == Spec => []TypeOK
<1>1. QueueInv => TypeOK
    BY DEF QueueInv
<1> QED
    BY <1>1, QueuesHold, PTL

\* A user message for a connected worker is on its way, waits or has a run,
\* whatever else arrives and whatever fails (process_runtime_event,
\* internal_agent_stream).
THEOREM NoneForgotten == Spec => []NothingForgotten
<1>1. QueueInv => NothingForgotten
    BY DEF QueueInv
<1> QED
    BY <1>1, QueuesHold, PTL

\* A run belongs to the episode of what it answers, with the hop that follows
\* (run_worker, pending_roots).
THEOREM Rooted == Spec => []EpisodesAreRooted
<1>1. QueueInv => EpisodesAreRooted
    BY DEF QueueInv
<1> QED
    BY <1>1, QueuesHold, PTL

\* A draft is sent with a number that the transcript of its run, or the request
\* of a reconsideration, has covered (fetch_recent_messages, run_reconsideration).
THEOREM Fresh == Spec => []SubmissionsAreFresh
<1>1. IInv /\ QueueInv => SubmissionsAreFresh
    BY DEF IInv, QueueInv, WorkerHasItsRun, ExpectsWhatIsKnown, SubmissionsAreFresh
<1> QED
    BY <1>1, Invariance, QueuesHold, PTL
=============================================================================
