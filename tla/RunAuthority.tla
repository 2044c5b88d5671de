---------------------------- MODULE RunAuthority ----------------------------
(***************************************************************************)
(* The record that the server keeps of one agent: its row of               *)
(* agent_runtime_state and the rows of agent_runs.  A worker changes them  *)
(* with status and typing posts, the supervisor when the process has       *)
(* exited.  Each handler reads and writes them in one go as long as one    *)
(* process posts for the agent, so a handler is an operator from rows to   *)
(* rows.                                                                   *)
(***************************************************************************)
EXTENDS Integers, Sequences

NoRun == 0          \* active_run_id and typing_run_id are NULL or "-"

\* ENDED stands for BUDGET_EXHAUSTED, FATAL, INVALIDATED and SILENT, which the
\* handlers treat alike.
Terminal == {"COMMITTED", "ENDED"}
RunStatus == Terminal \cup {"RUNNING"}
WorkerStates == {"none", "LISTENING", "DECIDING", "PAUSED", "RESTARTING", "ERROR"}

Rows == [state : WorkerStates, active : Nat, typing : Nat]
NoRow == [state |-> "none", active |-> NoRun, typing |-> NoRun]

\* should_apply_runtime_state: another run is not disturbed.
Applies(row, run) ==
    \/ row.active = NoRun
    \/ run # NoRun /\ row.active = run

\* post_internal_agent_run_status for the row of the agent.
StatusPost(row, run, status, phase) ==
    [state |-> IF ~Applies(row, run) THEN row.state
               ELSE IF status \in Terminal THEN "LISTENING" ELSE phase,
     active |-> IF ~Applies(row, run) THEN row.active
                ELSE IF status \in Terminal THEN NoRun ELSE run,
     typing |-> IF run # NoRun /\ status \in Terminal /\ row.typing = run
                THEN NoRun ELSE row.typing]

\* A post of a state outside any run: its status is IDLE.
StatePost(row, phase) == StatusPost(row, NoRun, "IDLE", phase)

\* post_internal_agent_typing
TypingStart(row, run) ==
    IF row.active = run /\ row.typing = NoRun
    THEN [row EXCEPT !.typing = run] ELSE row

TypingStop(row, run) ==
    IF row.typing = run THEN [row EXCEPT !.typing = NoRun] ELSE row

\* Mutant: the exit handler leaves the typing flag behind.
ExitedRowKeepsTyping(row, fatal) ==
    [row EXCEPT !.state = IF fatal THEN "ERROR" ELSE "RESTARTING", !.active = NoRun]

\* _record_process_exit: there is nothing to update before the first post.
ExitedRow(row, fatal) ==
    IF row.state = "none" THEN row
    ELSE [state |-> IF fatal THEN "ERROR" ELSE "RESTARTING",
          active |-> NoRun, typing |-> NoRun]
=============================================================================
