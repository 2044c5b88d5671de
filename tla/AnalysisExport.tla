---------------------------- MODULE AnalysisExport ----------------------------
(***************************************************************************)
(* Export jobs of a conversation (analysis.py): each has a file with its   *)
(* status and a thread that makes its archive, one at a time under a lock. *)
(* Files are written in place, so for a moment they are empty, and a crash *)
(* can leave them so.  At startup unfinished jobs are queued again.  A     *)
(* browser asks for a job until it is told that the job has ended.         *)
(***************************************************************************)
EXTENDS Naturals, FiniteSets

CONSTANTS
    Jobs,
    NoJob,
    MaxCrashes    \* bound

ASSUME ExportAssumption == NoJob \notin Jobs /\ MaxCrashes \in Nat

VARIABLES
    file,      \* the status in a job's file; "torn" has been truncated only
    archive,   \* its zip file
    runner,    \* the thread of a job
    lock,      \* _EXPORT_LOCK
    server,    \* whether the server is up
    todo,      \* the jobs that startup has still to look at
    told,      \* what the browser knows of a job
    crashes

vars == <<file, archive, runner, lock, server, todo, told, crashes>>
-----------------------------------------------------------------------------
Ended == {"ready", "failed"}

TypeOK ==
    /\ file \in [Jobs -> {"none", "torn", "queued", "running"} \cup Ended]
    /\ archive \in [Jobs -> {"none", "partial", "whole"}]
    /\ runner \in [Jobs -> {"none", "creating", "created", "resuming", "waiting", "locked",
                            "marking", "zipping", "zipped", "broken", "closing"}]
    /\ lock \in Jobs \cup {NoJob}
    /\ server \in {"up", "starting", "down"}
    /\ todo \subseteq Jobs
    /\ told \in [Jobs -> {"nothing", "queued", "running", "lost"} \cup Ended]
    /\ crashes \in 0 .. MaxCrashes

Init ==
    /\ file = [j \in Jobs |-> "none"]
    /\ archive = [j \in Jobs |-> "none"]
    /\ runner = [j \in Jobs |-> "none"]
    /\ lock = NoJob
    /\ server = "up"
    /\ todo = {}
    /\ told = [j \in Jobs |-> "nothing"]
    /\ crashes = 0
-----------------------------------------------------------------------------
\* _write_job has opened the file, or has written it.
Step(j, from, to) == runner[j] = from /\ runner' = [runner EXCEPT ![j] = to]
Truncates(j) == file' = [file EXCEPT ![j] = "torn"]
Writes(j, status) == file' = [file EXCEPT ![j] = status]

\* create_analysis_export_job, and the thread it starts
Create(j) ==
    /\ server = "up" /\ file[j] = "none"
    /\ Step(j, "none", "creating")
    /\ Truncates(j)
    /\ UNCHANGED <<archive, lock, server, todo, told, crashes>>

Created(j) ==
    /\ Step(j, "creating", "created")
    /\ Writes(j, "queued")
    /\ UNCHANGED <<archive, lock, server, todo, told, crashes>>

Spawn(j) ==
    /\ Step(j, "created", "waiting")
    /\ told' = [told EXCEPT ![j] = "queued"]
    /\ UNCHANGED <<file, archive, lock, server, todo, crashes>>

\* _spawn_export_runner, _generate_analysis_zip
TakeLock(j) ==
    /\ lock = NoJob /\ lock' = j
    /\ Step(j, "waiting", "locked")
    /\ UNCHANGED <<file, archive, server, todo, told, crashes>>

\* The thread would leave a job alone that is ready, but none is ever started
\* for one.
MarkRunning(j) ==
    /\ Step(j, "locked", "marking")
    /\ Truncates(j)
    /\ UNCHANGED <<archive, lock, server, todo, told, crashes>>

BeginZip(j) ==
    /\ Step(j, "marking", "zipping")
    /\ Writes(j, "running")
    /\ archive' = [archive EXCEPT ![j] = "partial"]
    /\ UNCHANGED <<lock, server, todo, told, crashes>>

EndZip(j) ==
    /\ Step(j, "zipping", "zipped")
    /\ archive' = [archive EXCEPT ![j] = "whole"]
    /\ UNCHANGED <<file, lock, server, todo, told, crashes>>

ZipFails(j) ==
    /\ Step(j, "zipping", "broken")
    /\ UNCHANGED <<file, archive, lock, server, todo, told, crashes>>

Conclude(j) ==
    /\ Step(j, "zipped", "closing") \/ Step(j, "broken", "closing")
    /\ Truncates(j)
    /\ UNCHANGED <<archive, lock, server, todo, told, crashes>>

Concluded(j) ==
    /\ Step(j, "closing", "none")
    /\ Writes(j, IF archive[j] = "whole" THEN "ready" ELSE "failed")
    /\ lock' = NoJob
    /\ UNCHANGED <<archive, server, todo, told, crashes>>
-----------------------------------------------------------------------------
Crash ==
    /\ server # "down"
    /\ crashes < MaxCrashes /\ crashes' = crashes + 1
    /\ server' = "down"
    /\ runner' = [j \in Jobs |-> "none"]
    /\ lock' = NoJob
    /\ todo' = {}
    /\ UNCHANGED <<file, archive, told>>

\* lifespan
Start ==
    /\ server = "down"
    /\ server' = "starting"
    /\ todo' = {j \in Jobs : file[j] # "none"}
    /\ UNCHANGED <<file, archive, runner, lock, told, crashes>>

\* Mutant: a job whose thread had begun is not taken up again.
ResumesQueued(j) == file[j] = "queued"

\* Mutant: every job is taken up again.
ResumesAll(j) == file[j] # "torn"

Resumes(j) == file[j] \in {"queued", "running"}

\* resume_analysis_export_jobs
ResumeJob(j) ==
    /\ j \in todo /\ Resumes(j)
    /\ \A k \in todo : runner[k] = "none"
    /\ Step(j, "none", "resuming")
    /\ Truncates(j)
    /\ UNCHANGED <<archive, lock, server, todo, told, crashes>>

Resumed(j) ==
    /\ Step(j, "resuming", "waiting")
    /\ Writes(j, "queued")
    /\ todo' = todo \ {j}
    /\ UNCHANGED <<archive, lock, server, told, crashes>>

PassJob(j) ==
    /\ j \in todo /\ file[j] # "torn" /\ ~Resumes(j)
    /\ todo' = todo \ {j}
    /\ UNCHANGED <<file, archive, runner, lock, server, told, crashes>>

\* A file that is no JSON ends the startup.
StartFails ==
    /\ \E j \in todo : file[j] = "torn" /\ runner[j] = "none"
    /\ server' = "down"
    /\ runner' = [j \in Jobs |-> "none"]
    /\ lock' = NoJob
    /\ todo' = {}
    /\ UNCHANGED <<file, archive, told, crashes>>

Started ==
    /\ server = "starting" /\ todo = {}
    /\ server' = "up"
    /\ UNCHANGED <<file, archive, runner, lock, todo, told, crashes>>

\* The browser asks for the job; it gives up at the first error.
Poll(j) ==
    /\ told[j] \in {"queued", "running"}
    /\ told' = [told EXCEPT ![j] = IF server = "up" /\ file[j] # "torn" THEN file[j]
                                   ELSE "lost"]
    /\ UNCHANGED <<file, archive, runner, lock, server, todo, crashes>>

RunnerStep(j) ==
    \/ Created(j) \/ Spawn(j) \/ TakeLock(j) \/ MarkRunning(j) \/ BeginZip(j)
    \/ EndZip(j) \/ ZipFails(j) \/ Conclude(j) \/ Concluded(j)

StartupStep ==
    \/ Start \/ StartFails \/ Started
    \/ \E j \in Jobs : ResumeJob(j) \/ Resumed(j) \/ PassJob(j)

Next ==
    \/ \E j \in Jobs : Create(j) \/ RunnerStep(j) \/ Poll(j)
    \/ StartupStep \/ Crash

Spec == Init /\ [][Next]_vars

\* The threads run on, whoever wants the lock gets it, the server is started
\* again and the browser's timer fires.
FairSpec ==
    /\ Spec
    /\ WF_vars(StartupStep)
    /\ \A j \in Jobs : SF_vars(RunnerStep(j)) /\ WF_vars(Poll(j))
-----------------------------------------------------------------------------
\* Once a browser was told that its job is ready, there is a whole archive to
\* download, through all crashes, startups and other jobs.
ReportedIsDownloadable ==
    \A j \in Jobs : told[j] = "ready" => file[j] = "ready" /\ archive[j] = "whole"

\* The server cannot start: a crash has left a file torn.
Blocked == server # "up" /\ \E j \in Jobs : file[j] = "torn"

\* A job whose file was written ends, also when its thread was lost in a crash,
\* unless a crash has torn a file, which stops every startup from then on.
EveryJobEnds ==
    \A j \in Jobs : file[j] = "queued" ~> file[j] \in Ended \/ Blocked
=============================================================================
