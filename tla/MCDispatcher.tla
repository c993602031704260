---------------------------- MODULE MCDispatcher ----------------------------
(* Dispatcher over JobQueue on small instances for TLC. *)
EXTENDS Dispatcher

CONSTANTS j1, j2, j3, j4, t1, t2  \* jobs and threads

\* For safety runs in which all jobs have one priority.
Alike == Permutations(Job) \cup Permutations(Worker)
=============================================================================
