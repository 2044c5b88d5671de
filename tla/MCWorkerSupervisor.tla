-------------------------- MODULE MCWorkerSupervisor --------------------------
(* The instances on which TLC checks WorkerSupervisor. *)
EXTENDS WorkerSupervisor, TLC

CONSTANTS A, B, h1, h2, m1, m2, MaxDoubled

Symmetry == Permutations(Handlers) \cup Permutations(Threads) \cup Permutations(Agents)

\* After a crossing nothing is promised, and beside a leftover monitor only
\* TableIsWatched, which no replacement of a process concerns.
Interesting == ~raced /\ (doubled => Len(procs) <= MaxDoubled)
=============================================================================
