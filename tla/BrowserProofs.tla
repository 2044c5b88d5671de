---------------------------- MODULE BrowserProofs ----------------------------
(***************************************************************************)
(* Two promises to a browser, each with the inductive invariant it needs.  *)
(*                                                                         *)
(* AnalysisExport: what it was told to be ready stays downloadable, for    *)
(* any number of jobs and crashes.  A thread works on a job only while its *)
(* file does not say ready, and startup starts none for a job that is:     *)
(* this, and not the lock, keeps a finished archive from being opened      *)
(* again.                                                                  *)
(*                                                                         *)
(* BrowserView: what its page counts as seen is shown, for any number of   *)
(* conversations, loads and failures, because a review in which anything   *)
(* came in ends with a load.                                               *)
(***************************************************************************)
EXTENDS AnalysisExport, BrowserView, TLAPS
-----------------------------------------------------------------------------
(* Exports *)

\* The file says ready only when the archive is whole and no thread has the job.
ReadyIsFinal ==
    \A j \in Jobs : file[j] = "ready" => archive[j] = "whole" /\ runner[j] = "none"

\* Whoever works on a job or asks for it finds its file.
FileExists ==
    \A j \in Jobs : told[j] # "nothing" \/ runner[j] # "none" => file[j] # "none"

IInv == TypeOK /\ ReadyIsFinal /\ FileExists /\ ReportedIsDownloadable

\* The state before any job.
LEMMA InitHolds == Init => IInv
BY ExportAssumption DEF Init, IInv, TypeOK, ReadyIsFinal, FileExists,
                ReportedIsDownloadable, Ended

-----------------------------------------------------------------------------
\* What a thread does from its creation to its end keeps the invariant.
LEMMA RunnerKeeps ==
    ASSUME IInv, NEW j \in Jobs, RunnerStep(j)
    PROVE  IInv'
<1>1. CASE Created(j)
    BY <1>1 DEF IInv, TypeOK, ReadyIsFinal, FileExists, ReportedIsDownloadable, Created,
                Step, Writes, Ended
<1>2. CASE Spawn(j)
    BY <1>2 DEF IInv, TypeOK, ReadyIsFinal, FileExists, ReportedIsDownloadable, Spawn,
                Step, Ended
<1>3. CASE TakeLock(j)
    BY <1>3 DEF IInv, TypeOK, ReadyIsFinal, FileExists, ReportedIsDownloadable, TakeLock,
                Step, Ended
<1>4. CASE MarkRunning(j)
    BY <1>4 DEF IInv, TypeOK, ReadyIsFinal, FileExists, ReportedIsDownloadable,
                MarkRunning, Step, Truncates,
                Ended
<1>5. CASE BeginZip(j)
    BY <1>5 DEF IInv, TypeOK, ReadyIsFinal, FileExists, ReportedIsDownloadable, BeginZip,
                Step, Writes, Ended
<1>6. CASE EndZip(j)
    BY <1>6 DEF IInv, TypeOK, ReadyIsFinal, FileExists, ReportedIsDownloadable, EndZip,
                Step, Ended
<1>7. CASE ZipFails(j)
    BY <1>7 DEF IInv, TypeOK, ReadyIsFinal, FileExists, ReportedIsDownloadable, ZipFails,
                Step, Ended
<1>8. CASE Conclude(j)
    BY <1>8 DEF IInv, TypeOK, ReadyIsFinal, FileExists, ReportedIsDownloadable, Conclude,
                Step, Truncates,
                Ended
<1>9. CASE Concluded(j)
    BY <1>9 DEF IInv, TypeOK, ReadyIsFinal, FileExists, ReportedIsDownloadable, Concluded,
                Step, Writes, Ended
<1> QED BY <1>1, <1>2, <1>3, <1>4, <1>5, <1>6, <1>7, <1>8, <1>9 DEF RunnerStep

\* So does a startup, which passes over what is ready.
LEMMA StartupKeeps ==
    ASSUME IInv, StartupStep
    PROVE  IInv'
<1>1. CASE Start
    BY <1>1 DEF IInv, TypeOK, ReadyIsFinal, FileExists, ReportedIsDownloadable, Start, Ended
<1>2. CASE StartFails
    BY <1>2 DEF IInv, TypeOK, ReadyIsFinal, FileExists, ReportedIsDownloadable, StartFails,
                Ended
<1>3. CASE Started
    BY <1>3 DEF IInv, TypeOK, ReadyIsFinal, FileExists, ReportedIsDownloadable, Started, Ended
<1>4. ASSUME NEW j \in Jobs, ResumeJob(j) PROVE IInv'
    BY <1>4 DEF IInv, TypeOK, ReadyIsFinal, FileExists, ReportedIsDownloadable, ResumeJob,
                Resumes, Step,
                Truncates, Ended
<1>5. ASSUME NEW j \in Jobs, Resumed(j) PROVE IInv'
    BY <1>5 DEF IInv, TypeOK, ReadyIsFinal, FileExists, ReportedIsDownloadable, Resumed,
                Step, Writes, Ended
<1>6. ASSUME NEW j \in Jobs, PassJob(j) PROVE IInv'
    BY <1>6 DEF IInv, TypeOK, ReadyIsFinal, FileExists, ReportedIsDownloadable, PassJob, Ended
<1> QED BY <1>1, <1>2, <1>3, <1>4, <1>5, <1>6 DEF StartupStep

\* Every step keeps it.
LEMMA StepHolds == IInv /\ [Next]_vars => IInv'
<1> SUFFICES ASSUME IInv, [Next]_vars PROVE IInv'
    OBVIOUS
<1>1. CASE UNCHANGED vars
    BY <1>1 DEF IInv, TypeOK, ReadyIsFinal, FileExists, ReportedIsDownloadable, vars
<1>2. ASSUME NEW j \in Jobs, Create(j) PROVE IInv'
    BY <1>2 DEF IInv, TypeOK, ReadyIsFinal, FileExists, ReportedIsDownloadable, Create,
                Step, Truncates, Ended
<1>3. ASSUME NEW j \in Jobs, RunnerStep(j) PROVE IInv'
    BY <1>3, RunnerKeeps
<1>4. ASSUME NEW j \in Jobs, Poll(j) PROVE IInv'
    BY <1>4 DEF IInv, TypeOK, ReadyIsFinal, FileExists, ReportedIsDownloadable, Poll, Ended
<1>5. CASE StartupStep
    BY <1>5, StartupKeeps
<1>6. CASE Crash
    BY <1>6, ExportAssumption DEF IInv, TypeOK, ReadyIsFinal, FileExists,
                ReportedIsDownloadable, Crash, Ended
<1> QED BY <1>1, <1>2, <1>3, <1>4, <1>5, <1>6 DEF Next

-----------------------------------------------------------------------------
\* The types, ReadyIsFinal, FileExists and ReportedIsDownloadable always hold.
THEOREM Invariance == Spec => []IInv
<1>1. Init => IInv
    BY InitHolds
<1>2. IInv /\ [Next]_vars => IInv'
    BY StepHolds
<1> QED BY <1>1, <1>2, PTL DEF Spec

\* Once a browser was told that a job is ready there is a whole archive to
\* download, through all crashes and startups (analysis.py:669 takes up queued and
\* running jobs only).
THEOREM ReadyIsDownloadable == Spec => []ReportedIsDownloadable
<1>1. IInv => ReportedIsDownloadable
    BY DEF IInv
<1> QED BY <1>1, Invariance, PTL
-----------------------------------------------------------------------------
(* The page *)

\* A resync is due only in a review; what is dropped meanwhile makes one due.
ResyncIsDue ==
    /\ resync => review
    /\ loads = {} /\ ~failed /\ ~resync => seen \subseteq view

\* The page has just been opened.
LEMMA PageStarts == PageInit => ResyncIsDue
BY DEF PageInit, ResyncIsDue

\* The server and the network: they send, or a load fails.
LEMMA ServerKeepsPage ==
    ASSUME ResyncIsDue,
           \/ \E c \in Conversations : Commit(c) \/ Publish(c)
           \/ Register \/ Replay \/ Disconnect
           \/ \E l \in loads : LoadReads(l) \/ LoadFails(l)
    PROVE  ResyncIsDue'
<1>1. UNCHANGED <<view, latest, seen, review, resync>>
    BY DEF Commit, Publish, Register, Replay, Disconnect,
           LoadReads, LoadFails, state
<1>2. loads' = {} /\ ~failed' => loads = {} /\ ~failed
    BY DEF Commit, Publish, Register, Replay, Disconnect,
           LoadReads, LoadFails
<1> QED
    BY <1>1, <1>2 DEF ResyncIsDue

\* The page reads an event or the answer to a load.
LEMMA ReadingKeepsPage ==
    ASSUME ResyncIsDue, Receive \/ \E l \in loads : LoadAnswers(l)
    PROVE  ResyncIsDue'
<1>1. CASE Receive
  <2>1. UNCHANGED <<review, loads, failed>> /\ resync' = (resync \/ review)
      BY <1>1 DEF Receive
  <2>2. CASE UNCHANGED <<view, seen>>
      BY <2>1, <2>2 DEF ResyncIsDue
  <2>3. ASSUME NEW message, Apply(message) PROVE ResyncIsDue'
    <3>1. CASE review
        BY <2>1, <3>1 DEF ResyncIsDue
    <3>2. CASE ~review
      <4>1. seen' = seen \cup {message} /\ (message \in seen \/ message \in view')
            /\ view \subseteq view'
          BY <2>3, <3>2 DEF Apply
      <4> QED
          BY <2>1, <3>2, <4>1 DEF ResyncIsDue
    <3> QED
        BY <3>1, <3>2
  <2> QED
      BY <1>1, <2>2, <2>3 DEF Receive
<1>2. CASE \E l \in loads : LoadAnswers(l)
    BY <1>2 DEF LoadAnswers, ResyncIsDue
<1> QED
    BY <1>1, <1>2

\* The user, a close event or a timer: a load may start, and a review that is
\* left with a resync due starts one.
LEMMA ActingKeepsPage ==
    ASSUME ResyncIsDue,
           \/ \E c \in Conversations : Select(c) \/ CloseEvent(c) \/ TimerFires(c)
           \/ Refresh \/ EnterReview \/ ExitReview
    PROVE  ResyncIsDue'
<1>1. UNCHANGED <<view, latest, seen, failed>>
    BY DEF Select, CloseEvent, TimerFires, Refresh, EnterReview,
           ExitReview, state
<1>2. loads' = loads \/ loads' # {}
    BY DEF Select, CloseEvent, TimerFires, Refresh, EnterReview,
           ExitReview, Loads
<1>3. CASE ExitReview
  <2>1. resync' = FALSE /\ (resync => loads' # {})
      BY <1>3 DEF ExitReview, Loads
  <2> QED
      BY <1>1, <1>2, <2>1 DEF ResyncIsDue
<1>4. CASE EnterReview
    BY <1>1, <1>4 DEF EnterReview, ResyncIsDue
<1>5. CASE UNCHANGED <<review, resync>>
    BY <1>1, <1>2, <1>5 DEF ResyncIsDue
<1> QED
    BY <1>3, <1>4, <1>5
      DEF Select, CloseEvent, TimerFires, Refresh

\* Every step of the page keeps it.
LEMMA PageStep == ResyncIsDue /\ [PageNext]_pageVars => ResyncIsDue'
<1> SUFFICES ASSUME ResyncIsDue, [PageNext]_pageVars PROVE ResyncIsDue'
    OBVIOUS
<1>1. CASE UNCHANGED pageVars
    BY <1>1 DEF pageVars, state, ResyncIsDue
<1>2. CASE PageNext
    BY <1>2, ServerKeepsPage, ReadingKeepsPage, ActingKeepsPage DEF PageNext
<1> QED
    BY <1>1, <1>2

\* Outside of a review, with no load under way or failed, an event that counts
\* as seen is in the view (applySocketPayload, exitReview).
THEOREM SeenStaysShown == PageSpec => []SeenIsShown
<1>1. PageInit => ResyncIsDue
    BY PageStarts
<1>2. ResyncIsDue /\ [PageNext]_pageVars => ResyncIsDue'
    BY PageStep
<1>3. ResyncIsDue => SeenIsShown
    BY DEF ResyncIsDue, SeenIsShown
<1> QED
    BY <1>1, <1>2, <1>3, PTL DEF PageSpec
==============================================================================
