------------------------------ MODULE JobQueue ------------------------------
(***************************************************************************)
(* The job inventory of the vramd daemon (src/vramd/job_queue.py): the     *)
(* queue of accepted generation requests, the running set with its         *)
(* inflight counter, cancellation, the transient requeue, the purge of     *)
(* finished jobs and the write-ahead log (WAL) from which a restarted      *)
(* daemon rebuilds the queue.                                              *)
(*                                                                         *)
(* Every operation of the class runs under one lock, so each is one        *)
(* action.  Three things are not inside one critical section and are steps *)
(* of their own: the on_finish callback, which finish() calls after the    *)
(* lock is released; the loop of cancel_all(), whose WAL appends are        *)
(* separately durable, so that a crash can fall between two of them; and    *)
(* the death of the daemon with the replay of the WAL at its next start.   *)
(*                                                                         *)
(* A job stands for a request together with the identifier it was given;   *)
(* replay gives the request a fresh identifier, which is not modelled.     *)
(***************************************************************************)
EXTENDS Naturals, Sequences, FiniteSets, SequencesExt

CONSTANTS
  Job,               \* the requests clients may send, each at most once
  MaxDepth,          \* JobQueue.max_depth (MAX_QUEUE_DEPTH)
  MaxInflight,       \* the cap the dispatcher passes to take()
  MaxFinished,       \* _MAX_FINISHED_JOBS
  CompactOps,        \* _WAL_COMPACT_OPS
  WalEnabled,        \* wal_path is not None
  MaxVramRetries,    \* requeues the dispatcher asks for: MAX_VRAM_RETRIES
  MaxWorkerRetries,  \* and MAX_WORKER_DEAD_RETRIES
  TtlExpires,        \* bound: whether _FINISHED_TTL_SEC can pass in a behaviour
  MaxCrashes         \* bound: how often the daemon dies in a behaviour

ASSUME JobAssumption == IsFiniteSet(Job)
ASSUME BoundAssumption ==
  /\ MaxDepth \in Nat \ {0} /\ MaxInflight \in Nat \ {0}
  /\ MaxFinished \in Nat \ {0} /\ CompactOps \in Nat \ {0}
  /\ MaxVramRetries \in Nat /\ MaxWorkerRetries \in Nat /\ MaxCrashes \in Nat
  /\ WalEnabled \in BOOLEAN /\ TtlExpires \in BOOLEAN

VARIABLES
  up,               \* the daemon process is alive and has replayed its WAL
  state,            \* Job.state of the jobs in _jobs; "none" for the others
  queued,           \* _queued
  running,          \* _running_ids
  inflight,         \* _inflight
  cancelRequested,  \* Job.cancel_requested
  vramRetries,      \* Job.vram_retries
  workerRetries,    \* Job.worker_retries
  seq,              \* Job.seq
  nextSeq,          \* _seq
  finished,         \* the terminal jobs still in _jobs, oldest finish first
  toNotify,         \* finished, but the on_finish callback has not run yet
  flush,            \* the cancel_all() in progress: it holds the lock
  wal,              \* the records of the WAL file
  walOps,           \* _wal_ops_since_compact
  accepted,         \* history: jobs some enqueue() accepted
  settled,          \* history: the outcome the WAL recorded for a job
  notified,         \* history: on_finish callbacks run for a job
  acked,            \* history: whether a cancel of a job was acknowledged, and
                    \* whether the daemon died with nothing of it on disk
  crashes           \* history: deaths of the daemon so far

memory == <<state, queued, running, inflight, cancelRequested, vramRetries,
            workerRetries, seq, nextSeq, finished, toNotify, flush>>
disk == <<wal, walOps>>
history == <<accepted, settled, notified, acked, crashes>>
queueVars == <<up, memory, disk, history>>

Terminal == {"done", "failed", "cancelled"}
Live == {"queued", "running"}
WalOp == {"enqueue", "started", "requeue", "finished"}
Rec(o, j) == [op |-> o, job |-> j]
NoFlush == [on |-> FALSE, running |-> FALSE, cancelled |-> {}]

(***************************************************************************)
(* Helpers on the queue and on the log                                     *)
(***************************************************************************)

\* list.remove(job_id), under the test that the job is in the list; its
\* position is unique, no job is queued twice.
Without(q, j) ==
  IF j \in ToSet(q)
  THEN LET i == CHOOSE k \in DOMAIN q : q[k] = j IN RemoveAt(q, i)
  ELSE q

\* _rewrite_wal_from_queue keeps one "enqueue" record per *queued* job.
Compacted(q) == [i \in DOMAIN q |-> Rec("enqueue", q[i])]

LogStale(rec, q) ==
  IF ~WalEnabled THEN UNCHANGED disk
  ELSE IF walOps + 1 >= CompactOps
       THEN wal' = Compacted(queued) /\ walOps' = 0
       ELSE wal' = Append(wal, rec) /\ walOps' = walOps + 1

LogCompactsAlways(rec, q) ==
  IF ~WalEnabled THEN UNCHANGED disk ELSE wal' = Compacted(q) /\ walOps' = 0

\* _append_wal: q is _queued at the time of the call.  Every CompactOps-th
\* append replaces the whole file, the record just written included.
Log(rec, q) ==
  IF ~WalEnabled THEN UNCHANGED disk
  ELSE IF walOps + 1 >= CompactOps
       THEN wal' = Compacted(q) /\ walOps' = 0
       ELSE wal' = Append(wal, rec) /\ walOps' = walOps + 1

\* replay_from_wal ignores "requeue" records: the last of the others counts.
IsPhase(rec, j) == rec.job = j /\ rec.op # "requeue"

\* The first record of a job gives its place in the dict replay iterates.
FirstAt(w, i, j) ==
  IsPhase(w[i], j) /\ \A k \in 1..(i - 1) : ~IsPhase(w[k], j)

PendingQueuedOnly(w) ==
  {j \in Job : \E i \in DOMAIN w :
     /\ w[i] = Rec("enqueue", j)
     /\ \A k \in (i + 1)..Len(w) : ~IsPhase(w[k], j)}

\* The jobs replay re-enqueues: an "enqueue" record, and not finished last.
Pending(w) ==
  {j \in Job : /\ \E i \in DOMAIN w : w[i] = Rec("enqueue", j)
               /\ \E i \in DOMAIN w :
                    /\ IsPhase(w[i], j) /\ w[i].op # "finished"
                    /\ \A k \in (i + 1)..Len(w) : ~IsPhase(w[k], j)}

\* q is the queue replay builds: the pending jobs in the order of the log,
\* those beyond MaxDepth skipped (enqueue raises QueueFullError, swallowed).
IsReplay(w, q) ==
  LET Before(a, b) == \E i, k \in DOMAIN w :
                        i < k /\ FirstAt(w, i, a) /\ FirstAt(w, k, b)
  IN /\ ToSet(q) \subseteq Pending(w)
     /\ \A a, b \in DOMAIN q : a < b => Before(q[a], q[b])
     /\ \A j \in Pending(w) \ ToSet(q) :
          Len(q) = MaxDepth /\ \A a \in DOMAIN q : Before(q[a], j)

(***************************************************************************)
(* The operations                                                          *)
(***************************************************************************)
QueueInit ==
  /\ up = TRUE
  /\ state = [j \in Job |-> "none"]
  /\ queued = <<>> /\ running = {} /\ inflight = 0
  /\ cancelRequested = [j \in Job |-> FALSE]
  /\ vramRetries = [j \in Job |-> 0] /\ workerRetries = [j \in Job |-> 0]
  /\ seq = [j \in Job |-> 0] /\ nextSeq = 0
  /\ finished = <<>> /\ toNotify = {} /\ flush = NoFlush
  /\ wal = <<>> /\ walOps = 0
  /\ accepted = {} /\ settled = [j \in Job |-> "none"]
  /\ notified = [j \in Job |-> 0] /\ acked = [j \in Job |-> "no"]
  /\ crashes = 0

\* _lock is free: only cancel_all() holds it from one step to the next.
LockFree == up /\ ~flush.on

HasSlotTooMany == inflight <= MaxInflight

\* take(): the cap is checked again under the lock.
HasSlot == inflight < MaxInflight

StillQueuedUnchecked(j) == TRUE

\* take(): so is that nobody took or cancelled the job in the meantime.
StillQueued(j) == j \in ToSet(queued)

FreedNothing(n) == n

\* The inflight counter after a job gives its slot back.
Freed(n) == IF n > 0 THEN n - 1 ELSE 0

MayRequeueCancelled(j) == state[j] = "running"

\* requeue_running() returns True.
MayRequeue(j) == state[j] = "running" /\ ~cancelRequested[j]

CancelsTwice(j) == state[j] \in {"queued", "cancelled"}

\* cancel() takes its branch for queued jobs.
CancelsAtOnce(j) == state[j] = "queued"

\* enqueue(): a full queue raises QueueFullError and changes nothing.
Enqueue(j) ==
  /\ LockFree
  /\ j \notin accepted
  /\ Len(queued) < MaxDepth
  /\ state' = [state EXCEPT ![j] = "queued"]
  /\ queued' = Append(queued, j)
  /\ nextSeq' = nextSeq + 1
  /\ seq' = [seq EXCEPT ![j] = nextSeq + 1]
  /\ accepted' = accepted \cup {j}
  /\ Log(Rec("enqueue", j), Append(queued, j))
  /\ UNCHANGED <<up, running, inflight, cancelRequested, vramRetries,
                 workerRetries, finished, toNotify, flush, settled, notified,
                 acked, crashes>>

\* take(): its early return for a cancelled job is dead code as long as
\* QueueConsistent and CancelSticks hold.
Take(j) ==
  /\ LockFree
  /\ HasSlot
  /\ StillQueued(j)
  /\ ~cancelRequested[j]
  /\ queued' = Without(queued, j)
  /\ inflight' = inflight + 1
  /\ running' = running \cup {j}
  /\ state' = [state EXCEPT ![j] = "running"]
  /\ Log(Rec("started", j), Without(queued, j))
  /\ UNCHANGED <<up, cancelRequested, vramRetries, workerRetries, seq, nextSeq,
                 finished, toNotify, flush, history>>

\* _purge_finished_jobs drops the oldest terminal jobs: all beyond
\* MaxFinished, and those older than the TTL, here any longer prefix.
Purge(st, fin) ==
  \E k \in 0..Len(fin) :
    /\ Len(fin) - k <= MaxFinished
    /\ TtlExpires \/ k = 0 \/ Len(fin) - k = MaxFinished
    /\ finished' = SubSeq(fin, k + 1, Len(fin))
    /\ state' = [i \in Job |-> IF \E n \in 1..k : fin[n] = i
                               THEN "none" ELSE st[i]]

OutcomeRaw(result, cancel) == IF cancel THEN "cancelled" ELSE result

\* The terminal state finish() chooses: a cancel asked for during the run
\* turns success into "cancelled", and mark_finished() takes any error whose
\* text speaks of a cancel ("cancelError") for one.
Outcome(result, cancel) ==
  IF cancel \/ result = "cancelError" THEN "cancelled"
  ELSE IF result = "ok" THEN "done" ELSE "failed"

\* finish(): does nothing on a job that is already terminal.
Finish(j, result) ==
  LET outcome == Outcome(result, cancelRequested[j]) IN
  /\ LockFree
  /\ state[j] = "running"
  /\ running' = running \ {j}
  /\ inflight' = IF j \in running THEN Freed(inflight) ELSE inflight
  /\ settled' = [settled EXCEPT ![j] = outcome]
  /\ toNotify' = toNotify \cup {j}
  /\ Log(Rec("finished", j), queued)
  /\ Purge([state EXCEPT ![j] = outcome], Append(finished, j))
  /\ UNCHANGED <<up, queued, cancelRequested, vramRetries, workerRetries, seq,
                 nextSeq, flush, accepted, notified, acked, crashes>>

\* _notify_finish(), called by finish() and cancel_all() after the lock.
Notify(j) ==
  /\ up
  /\ j \in toNotify
  /\ toNotify' = toNotify \ {j}
  /\ notified' = [notified EXCEPT ![j] = @ + 1]
  /\ UNCHANGED <<up, state, queued, running, inflight, cancelRequested,
                 vramRetries, workerRetries, seq, nextSeq, finished, flush,
                 disk, accepted, settled, acked, crashes>>

\* requeue_running(): refused once a cancel was asked for; otherwise the job
\* goes to the front of the queue.
Requeue(j) ==
  /\ LockFree
  /\ MayRequeue(j)
  /\ running' = running \ {j}
  /\ inflight' = Freed(inflight)
  /\ state' = [state EXCEPT ![j] = "queued"]
  /\ queued' = <<j>> \o queued
  /\ Log(Rec("requeue", j), <<j>> \o queued)
  /\ UNCHANGED <<up, cancelRequested, seq, nextSeq, finished, toNotify, flush,
                 history>>

RequeueVram(j) ==
  /\ Requeue(j)
  /\ vramRetries' = [vramRetries EXCEPT ![j] = @ + 1]
  /\ UNCHANGED workerRetries

RequeueWorker(j) ==
  /\ Requeue(j)
  /\ workerRetries' = [workerRetries EXCEPT ![j] = @ + 1]
  /\ UNCHANGED vramRetries

\* cancel() of a queued job: final at once, on_finish included.
CancelQueued(j) ==
  /\ LockFree
  /\ CancelsAtOnce(j)
  /\ queued' = Without(queued, j)
  /\ cancelRequested' = [cancelRequested EXCEPT ![j] = TRUE]
  /\ settled' = [settled EXCEPT ![j] = "cancelled"]
  /\ notified' = [notified EXCEPT ![j] = @ + 1]
  /\ acked' = [acked EXCEPT ![j] = "kept"]
  /\ Log(Rec("finished", j), Without(queued, j))
  /\ Purge([state EXCEPT ![j] = "cancelled"], Append(finished, j))
  /\ UNCHANGED <<up, running, inflight, vramRetries, workerRetries, seq,
                 nextSeq, toNotify, flush, accepted, crashes>>

\* cancel() of a running job: only the flag, in memory; the worker finishes
\* the job, and the log learns of the cancel with its end.
CancelRunning(j) ==
  /\ LockFree
  /\ state[j] = "running"
  /\ cancelRequested' = [cancelRequested EXCEPT ![j] = TRUE]
  /\ acked' = [acked EXCEPT ![j] = "kept"]
  /\ UNCHANGED <<up, state, queued, running, inflight, vramRetries,
                 workerRetries, seq, nextSeq, finished, toNotify, flush, disk,
                 accepted, settled, notified, crashes>>

\* cancel_all(include_running): takes the lock ...
CancelAllBegin(includeRunning) ==
  /\ LockFree
  /\ flush' = [on |-> TRUE, running |-> includeRunning, cancelled |-> {}]
  /\ UNCHANGED <<up, state, queued, running, inflight, cancelRequested,
                 vramRetries, workerRetries, seq, nextSeq, finished, toNotify,
                 disk, history>>

\* ... cancels the queued jobs from the front, each with its own append ...
CancelAllStep ==
  /\ up /\ flush.on /\ queued # <<>>
  /\ LET j == Head(queued) IN
     /\ queued' = Tail(queued)
     /\ state' = [state EXCEPT ![j] = "cancelled"]
     /\ cancelRequested' = [cancelRequested EXCEPT ![j] = TRUE]
     /\ acked' = [acked EXCEPT ![j] = "kept"]
     /\ settled' = [settled EXCEPT ![j] = "cancelled"]
     /\ finished' = Append(finished, j)
     /\ flush' = [flush EXCEPT !.cancelled = @ \cup {j}]
     /\ Log(Rec("finished", j), Tail(queued))
  /\ UNCHANGED <<up, running, inflight, vramRetries, workerRetries, seq,
                 nextSeq, toNotify, accepted, notified, crashes>>

\* ... flags the running ones, purges, and leaves the callbacks for later.
CancelAllEnd ==
  /\ up /\ flush.on /\ queued = <<>>
  /\ cancelRequested' = [j \in Job |-> cancelRequested[j]
                                       \/ (flush.running /\ j \in running)]
  /\ acked' = [j \in Job |-> IF flush.running /\ j \in running THEN "kept"
                              ELSE acked[j]]
  /\ toNotify' = toNotify \cup flush.cancelled
  /\ flush' = NoFlush
  /\ Purge(state, finished)
  /\ UNCHANGED <<up, queued, running, inflight, vramRetries, workerRetries,
                 seq, nextSeq, disk, accepted, settled, notified, crashes>>

\* The daemon dies: memory is gone, the log file stays.  The cancel of a job
\* that was still running is gone with it.
Crash ==
  /\ up
  /\ crashes < MaxCrashes
  /\ up' = FALSE
  /\ state' = [j \in Job |-> "none"]
  /\ queued' = <<>> /\ running' = {} /\ inflight' = 0
  /\ cancelRequested' = [j \in Job |-> FALSE]
  /\ vramRetries' = [j \in Job |-> 0] /\ workerRetries' = [j \in Job |-> 0]
  /\ seq' = [j \in Job |-> 0] /\ nextSeq' = 0
  /\ finished' = <<>> /\ toNotify' = {} /\ flush' = NoFlush
  /\ walOps' = 0
  /\ acked' = [j \in Job |-> IF state[j] = "running" /\ cancelRequested[j]
                              THEN "forgotten" ELSE acked[j]]
  /\ crashes' = crashes + 1
  /\ UNCHANGED <<wal, accepted, settled, notified>>

\* replay_from_wal() at the next start, before the workers and the clients:
\* the log is rewritten last and in one piece, so a death during it is a
\* death before it.
Restart ==
  /\ ~up
  /\ up' = TRUE
  /\ \E n \in 0..MaxDepth : \E q \in [1..n -> Job] :
       /\ IsReplay(wal, q)
       /\ queued' = q
       /\ state' = [j \in Job |-> IF j \in ToSet(q) THEN "queued" ELSE "none"]
       /\ seq' = [j \in Job |-> IF j \in ToSet(q)
                                THEN CHOOSE i \in DOMAIN q : q[i] = j ELSE 0]
       /\ nextSeq' = n
       /\ wal' = IF WalEnabled THEN Compacted(q) ELSE wal
  /\ UNCHANGED <<running, inflight, cancelRequested, vramRetries,
                 workerRetries, finished, toNotify, flush, walOps, history>>

QueueNext ==
  \/ \E j \in Job : \/ Enqueue(j) \/ Take(j) \/ Notify(j)
                    \/ vramRetries[j] < MaxVramRetries /\ RequeueVram(j)
                    \/ workerRetries[j] < MaxWorkerRetries /\ RequeueWorker(j)
                    \/ CancelQueued(j) \/ CancelRunning(j)
                    \/ \E r \in {"ok", "error", "cancelError"} : Finish(j, r)
  \/ \E b \in BOOLEAN : CancelAllBegin(b)
  \/ CancelAllStep \/ CancelAllEnd
  \/ Crash \/ Restart

QueueSpec == QueueInit /\ [][QueueNext]_queueVars

(***************************************************************************)
(* Properties                                                              *)
(***************************************************************************)

\* Every variable keeps its type.
TypeOK ==
  /\ up \in BOOLEAN
  /\ state \in [Job -> {"none"} \cup Live \cup Terminal]
  /\ queued \in Seq(Job) /\ running \in SUBSET Job /\ inflight \in Nat
  /\ cancelRequested \in [Job -> BOOLEAN]
  /\ vramRetries \in [Job -> Nat] /\ workerRetries \in [Job -> Nat]
  /\ seq \in [Job -> Nat] /\ nextSeq \in Nat
  /\ finished \in Seq(Job) /\ toNotify \in SUBSET Job
  /\ flush \in [on : BOOLEAN, running : BOOLEAN, cancelled : SUBSET Job]
  /\ wal \in Seq([op : WalOp, job : Job]) /\ walOps \in Nat
  /\ accepted \in SUBSET Job
  /\ settled \in [Job -> {"none"} \cup Terminal]
  /\ notified \in [Job -> Nat] /\ crashes \in Nat
  /\ acked \in [Job -> {"no", "kept", "forgotten"}]

\* inflight counts exactly the running jobs and respects the cap, and the
\* queue holds exactly the jobs in state "queued", each once: no order of
\* take, requeue, finish and the two cancels leaks a slot or loses a job
\* (job_queue.py: "o cap deixava de bater com a realidade").
QueueConsistent ==
  /\ running = {j \in Job : state[j] = "running"}
  /\ inflight = Cardinality(running)
  /\ inflight <= MaxInflight
  /\ ToSet(queued) = {j \in Job : state[j] = "queued"}
  /\ IsInjective(queued)

\* A cancel that was acknowledged is undone by one thing only, the death of
\* the daemon while the job still ran: cancel() writes nothing to the log then,
\* and the replay queues the job again.  Every other cancel holds, over
\* requeues, results, compactions and later deaths and replays: the job is not
\* put back into the queue, and whatever its run returns it ends as cancelled.
CancelSticks ==
  \A j \in Job : acked[j] = "kept" =>
    /\ state[j] # "queued"
    /\ settled[j] \in {"none", "cancelled"}

\* Once the log recorded a job's end the job never runs again: it is neither
\* in the queue nor running, and no later replay can bring it back, across
\* compactions and restarts.
NoResurrection ==
  \A j \in Job : settled[j] # "none" =>
    state[j] \notin Live /\ j \notin Pending(wal)

\* The completion callback (the server's hooks) runs at most once per job,
\* although cancel() calls it under the lock, finish() and cancel_all() after
\* it, and a restart may rebuild the job.
NotifiedAtMostOnce ==
  \A j \in Job : /\ notified[j] + (IF j \in toNotify THEN 1 ELSE 0)
                      + (IF j \in flush.cancelled THEN 1 ELSE 0) <= 1
                 /\ notified[j] = 1 => settled[j] # "none"

\* No accepted job is lost: until its end is recorded it is queued or running
\* while the daemon is up, and the log always suffices to rebuild it.
NothingAcceptedIsLost ==
  \A j \in accepted : settled[j] = "none" =>
    /\ j \in Pending(wal)
    /\ up => state[j] \in Live

\* "Re-enfileira jobs pendentes/interrompidos a partir do WAL" (docstring of
\* replay_from_wal): the log always holds every queued or running job.
LogHoldsLiveJobs ==
  WalEnabled => \A j \in Job : state[j] \in Live => j \in Pending(wal)

\* The log keeps the order of arrival: live jobs have their enqueue records in
\* the order of their sequence numbers, so a restart renumbers them in that
\* order, however they were taken and requeued (to the front) before.
LogKeepsArrivalOrder ==
  \A a, b \in Job :
    state[a] \in Live /\ state[b] \in Live /\ seq[a] < seq[b] =>
      ~\E i, k \in DOMAIN wal :
         i < k /\ wal[i] = Rec("enqueue", b) /\ wal[k] = Rec("enqueue", a)

\* What a restart needs of the log: no accepted job is missing from it, and those that
\* are live stand in it in the order in which they came.
LogIsFaithful == NothingAcceptedIsLost /\ LogKeepsArrivalOrder
=============================================================================
