------------------------- MODULE JobQueueRefinement -------------------------
(***************************************************************************)
(* JobQueue with its log implements JobLifecycle, as long as no compaction *)
(* of the log falls while a job runs and the replay finds a queue long     *)
(* enough for what is pending.                                             *)
(***************************************************************************)
EXTENDS JobQueue

\* The phase of a request, seen from memory while the daemon is up and from
\* the log while it is down.  A request in neither is "lost": JobLifecycle
\* has no such phase.
PhaseOf(j) ==
  IF settled[j] # "none" THEN settled[j]
  ELSE IF j \notin accepted THEN "new"
  ELSE IF up /\ state[j] = "running" THEN "active"
  ELSE IF state[j] = "queued" \/ (~up /\ j \in Pending(wal)) THEN "waiting"
  ELSE "lost"

Phases == [j \in Job |-> PhaseOf(j)]
Cancelled == {j \in Job : cancelRequested[j]}

Life == INSTANCE JobLifecycle WITH
  Slots <- MaxInflight, phase <- Phases, cancelled <- Cancelled

\* Every behaviour of the queue, crashes and restarts included, is one of the
\* lifecycle: one outcome per request, no retry after an acknowledged cancel
\* within one life of the daemon, and a death of the daemon makes interrupted
\* requests wait again, those whose cancel was acknowledged included.
ImplementsLifecycle == Life!LifeSpec

\* _rewrite_wal_from_queue() keeps the queued jobs only; this is the case in
\* which that loses nothing: no job runs when an append compacts the log.
QuietCompaction == walOps + 1 >= CompactOps /\ disk' # disk => running' = {}

\* replay_from_wal() drops what does not fit in the queue; this is the case in
\* which everything does: the jobs that ran wait beside those that waited.
RoomToReplay == ~up => Cardinality(Pending(wal)) <= MaxDepth

\* The queue as long as both are the case.
QuietNext == QueueNext /\ QuietCompaction /\ RoomToReplay
QuietSpec == QueueInit /\ [][QuietNext]_queueVars

\* The log is never compacted at all, but by a restart.
NoCompaction == walOps + 1 < CompactOps
=============================================================================
