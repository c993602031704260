----------------------------- MODULE Dispatcher -----------------------------
(***************************************************************************)
(* The worker threads of the daemon (src/vramd/dispatcher.py) with the      *)
(* AffinityScheduler they share (src/vramd/scheduler.py), over JobQueue.    *)
(*                                                                         *)
(* Each thread loops: pick a job from a snapshot of the queue, check that  *)
(* it fits beside what already runs, take it, run it, and then finish it   *)
(* or give it back for a retry.  Only the queue's own operations are       *)
(* atomic; everything a thread decides between two of them may be out of   *)
(* date when it acts on it, and is a step of its own here.                 *)
(*                                                                         *)
(* What the threads ask of the rest of the daemon is left open: which jobs *)
(* are hot, whether a job fits the free VRAM, whether an eviction made     *)
(* progress, and what manager.generate() returns.                          *)
(***************************************************************************)
EXTENDS JobQueue

CONSTANTS
  Worker,       \* the threads start() creates, max_inflight of them
  NoJob,        \* a thread that holds none
  Interactive,  \* the jobs of priority "interactive"; the others are "batch"
  MaxCuts,      \* AffinityScheduler.max_cuts
  FlatMax,      \* VRAM_FLAT_RETRY_MAX
  Results,      \* what manager.generate() may do, a subset of GenerateResult
  MaxFlushes    \* bound: how often clients call cancel_all()

\* "dead": an error _is_worker_dead() recognises, "vram": one that
\* _is_vram_insufficient() does, "deadVram": both, "vramNever": the latter
\* with a peak above the total of the GPU, "aborted": GenerationAborted.
GenerateResult ==
  {"ok", "error", "cancelError", "dead", "vram", "deadVram", "vramNever",
   "aborted"}

ASSUME WorkerAssumption ==
  /\ IsFiniteSet(Worker) /\ Cardinality(Worker) = MaxInflight
  /\ NoJob \notin Job /\ Interactive \subseteq Job
  /\ MaxCuts \in Nat /\ FlatMax \in Nat \ {0} /\ MaxFlushes \in Nat
  /\ Results \subseteq GenerateResult

VARIABLES
  stopping,   \* the _stop event
  pc,         \* where each thread is
  cur,        \* the job it has picked or runs
  cutHead,    \* the head its pick jumps over
  result,     \* what its run returned
  cuts,       \* Job.affinity_cuts
  flat,       \* Job.vram_flat_retries
  flushes     \* history: calls of cancel_all()

threadVars == <<pc, cur, cutHead, result>>
vars == <<queueVars, stopping, threadVars, cuts, flat, flushes>>

Rank(j) == IF j \in Interactive THEN 0 ELSE 1  \* PRIORITY_RANK
IsWorkerDead(r) == r \in {"dead", "deadVram"}
IsVramInsufficient(r) == r \in {"vram", "deadVram", "vramNever"}
RetryWorthwhile(r) == r # "vramNever"

DispatcherInit ==
  /\ QueueInit
  /\ stopping = FALSE
  /\ pc = [t \in Worker |-> "loop"]
  /\ cur = [t \in Worker |-> NoJob] /\ cutHead = [t \in Worker |-> NoJob]
  /\ result = [t \in Worker |-> "none"]
  /\ cuts = [j \in Job |-> 0] /\ flat = [j \in Job |-> 0]
  /\ flushes = 0

Goto(t, l) == pc' = [pc EXCEPT ![t] = l]

\* The thread drops what it holds and loops.
Release(t) ==
  /\ Goto(t, "loop")
  /\ cur' = [cur EXCEPT ![t] = NoJob]
  /\ cutHead' = [cutHead EXCEPT ![t] = NoJob]
  /\ result' = [result EXCEPT ![t] = "none"]

(***************************************************************************)
(* _loop, _claim_next and pick_next                                        *)
(***************************************************************************)

\* The loop looks at _stop, then waits for work: a stop() during the wait is
\* seen only after the job claimed next.
FindsWork(t) ==
  /\ pc[t] = "loop" /\ ~stopping
  /\ LockFree
  /\ queued # <<>>
  /\ Goto(t, "claim")
  /\ UNCHANGED <<queueVars, stopping, cur, cutHead, result, cuts,
                 flat, flushes>>

Eligible == {j \in ToSet(queued) : ~cancelRequested[j]}
Band == {j \in Eligible : \A k \in Eligible : Rank(j) <= Rank(k)}

CutsAlmostExhausted(j) == cuts[j] > MaxCuts

\* The anti-starvation test of pick_next().
CutsExhausted(j) == cuts[j] >= MaxCuts

\* pick_next(): the head of the best band, unless it is cold and a later job
\* of the band is hot.  The head is not jumped after MaxCuts cuts, nor when
\* it has starved: waiting time is left open.
Pick(t) ==
  /\ pc[t] = "claim"
  /\ LockFree
  /\ HasSlot
  /\ \E head \in Band : \E hot \in SUBSET Band : \E starved \in BOOLEAN :
       /\ \A j \in Band : seq[head] <= seq[j]
       /\ IF head \in hot \/ CutsExhausted(head) \/ starved \/ hot = {}
          THEN /\ cur' = [cur EXCEPT ![t] = head]
               /\ Goto(t, "fits")
               /\ UNCHANGED cutHead
          ELSE \E c \in hot :
                 /\ \A j \in hot : seq[c] <= seq[j]
                 /\ cur' = [cur EXCEPT ![t] = c]
                 /\ cutHead' = [cutHead EXCEPT ![t] = head]
                 /\ Goto(t, "cut")
  /\ UNCHANGED <<queueVars, stopping, result, cuts, flat, flushes>>

PicksNothingAndExits(t) ==
  /\ pc[t] = "claim"
  /\ LockFree
  /\ ~HasSlot \/ Band = {}
  /\ Goto(t, "exited")
  /\ UNCHANGED <<queueVars, stopping, cur, cutHead, result, cuts,
                 flat, flushes>>

\* Nothing eligible, or no slot: the thread waits and loops.
PicksNothing(t) ==
  /\ pc[t] = "claim"
  /\ LockFree
  /\ ~HasSlot \/ Band = {}
  /\ Goto(t, "loop")
  /\ UNCHANGED <<queueVars, stopping, cur, cutHead, result, cuts,
                 flat, flushes>>

\* The increment alone is under the head's lock, the comparison above is not.
Cut(t) ==
  /\ pc[t] = "cut"
  /\ cuts' = [cuts EXCEPT ![cutHead[t]] = @ + 1]
  /\ Goto(t, "fits")
  /\ UNCHANGED <<queueVars, stopping, cur, cutHead, result, flat,
                 flushes>>

\* _fits_parallel(): nothing inflight, or enough free VRAM by its reckoning.
Fits(t) ==
  /\ pc[t] = "fits"
  /\ LockFree
  /\ inflight = 0 \/ MaxInflight > 1
  /\ Goto(t, "take")
  /\ UNCHANGED <<queueVars, stopping, cur, cutHead, result, cuts, flat, flushes>>

DoesNotFit(t) ==
  /\ pc[t] = "fits"
  /\ LockFree
  /\ inflight > 0
  /\ Release(t)
  /\ UNCHANGED <<queueVars, stopping, cuts, flat, flushes>>

\* take(): the job may be gone by now, or the last slot.
TakePicked(t) ==
  /\ pc[t] = "take"
  /\ Take(cur[t])
  /\ Goto(t, "run")
  /\ UNCHANGED <<stopping, cur, cutHead, result, cuts, flat, flushes>>

TakeFails(t) ==
  /\ pc[t] = "take"
  /\ LockFree
  /\ ~StillQueued(cur[t]) \/ ~HasSlot
  /\ Release(t)
  /\ UNCHANGED <<queueVars, stopping, cuts, flat, flushes>>

(***************************************************************************)
(* _run_job                                                                *)
(***************************************************************************)

\* A cancel that came between take() and the call of manager.generate().
RunCancelled(t) ==
  /\ pc[t] = "run"
  /\ cancelRequested[cur[t]]
  /\ result' = [result EXCEPT ![t] = "cancelError"]
  /\ Goto(t, "finish")
  /\ UNCHANGED <<queueVars, stopping, cur, cutHead, cuts, flat, flushes>>

RunStarts(t) ==
  /\ pc[t] = "run"
  /\ ~cancelRequested[cur[t]]
  /\ Goto(t, "generate")
  /\ UNCHANGED <<queueVars, stopping, cur, cutHead, result, cuts,
                 flat, flushes>>

\* manager.generate() returns or raises; it raises GenerationAborted only
\* when should_abort() saw the cancel.
GenerateReturns(t) ==
  /\ pc[t] = "generate"
  /\ \E r \in Results :
       /\ r = "aborted" => cancelRequested[cur[t]]
       /\ result' = [result EXCEPT ![t] =
            IF r = "aborted" \/ (r = "ok" /\ cancelRequested[cur[t]])
            THEN "cancelError" ELSE r]
       /\ Goto(t, IF r \in {"ok", "aborted"} THEN "finish" ELSE "retryWorker")
  /\ UNCHANGED <<queueVars, stopping, cur, cutHead, cuts, flat, flushes>>

\* The worker process is dead: evict the backend and requeue, a few times.
RetryWorker(t) ==
  LET j == cur[t] IN
  /\ pc[t] = "retryWorker"
  /\ IF IsWorkerDead(result[t]) /\ ~cancelRequested[j]
          /\ workerRetries[j] < MaxWorkerRetries
     THEN Goto(t, "requeueWorker")
     ELSE Goto(t, "retryVram")
  /\ UNCHANGED <<queueVars, stopping, cur, cutHead, result, cuts,
                 flat, flushes>>

MayRetryVramOnceMore(j) == vramRetries[j] <= MaxVramRetries /\ flat[j] < FlatMax

\* The two limits of the VRAM retries, as read before the eviction.
MayRetryVram(j) == vramRetries[j] < MaxVramRetries /\ flat[j] < FlatMax

FlatDecremented(f, progress) == IF progress THEN f - 1 ELSE f + 1

\* vram_flat_retries after an eviction.
FlatAfter(f, progress) == IF progress THEN 0 ELSE f + 1

IsFlatLate(f) == f > FlatMax

\* Too many fruitless evictions in a row: fail fast.
IsFlat(f) == f >= FlatMax

\* The VRAM did not suffice: evict everything, note whether that changed
\* anything, back off.  FlatMax fruitless evictions in a row end the retries.
RetryVram(t) ==
  LET j == cur[t] IN
  /\ pc[t] = "retryVram"
  /\ IF IsVramInsufficient(result[t]) /\ RetryWorthwhile(result[t])
          /\ ~cancelRequested[j]
          /\ MayRetryVram(j)
     THEN \E progress \in BOOLEAN :
            LET f == FlatAfter(flat[j], progress) IN
            /\ flat' = [flat EXCEPT ![j] = f]
            /\ Goto(t, IF IsFlat(f) THEN "giveUp" ELSE "backoff")
     ELSE Goto(t, "finish") /\ UNCHANGED flat
  /\ UNCHANGED <<queueVars, stopping, cur, cutHead, result, cuts,
                 flushes>>

\* _sleep_interruptible(): slept to the end, or cut short by a cancel or by
\* stop().
BackoffEnds(t) ==
  /\ pc[t] = "backoff"
  /\ ~cancelRequested[cur[t]]
  /\ Goto(t, "requeueVram")
  /\ UNCHANGED <<queueVars, stopping, cur, cutHead, result, cuts,
                 flat, flushes>>

BackoffInterrupted(t) ==
  /\ pc[t] = "backoff"
  /\ cancelRequested[cur[t]] \/ stopping
  /\ Goto(t, "giveUp")
  /\ UNCHANGED <<queueVars, stopping, cur, cutHead, result, cuts,
                 flat, flushes>>

\* requeue_running() returns True: the thread is done with the job.
RequeueSucceeds(t) ==
  /\ \/ pc[t] = "requeueVram" /\ RequeueVram(cur[t])
     \/ pc[t] = "requeueWorker" /\ RequeueWorker(cur[t])
  /\ Release(t)
  /\ UNCHANGED <<stopping, cuts, flat, flushes>>

RequeueRefusedReturns(t) ==
  /\ pc[t] \in {"requeueVram", "requeueWorker"}
  /\ LockFree
  /\ cancelRequested[cur[t]]
  /\ Release(t)
  /\ UNCHANGED <<queueVars, stopping, cuts, flat, flushes>>

\* ... or False, because a cancel came in.
RequeueRefused(t) ==
  /\ pc[t] \in {"requeueVram", "requeueWorker"}
  /\ LockFree
  /\ cancelRequested[cur[t]]
  /\ Goto(t, "giveUp")
  /\ UNCHANGED <<queueVars, stopping, cur, cutHead, result, cuts,
                 flat, flushes>>

\* The retry is off; a cancel seen by now replaces the error.
GiveUp(t) ==
  /\ pc[t] = "giveUp"
  /\ result' = [result EXCEPT ![t] =
       IF cancelRequested[cur[t]] THEN "cancelError" ELSE @]
  /\ Goto(t, "finish")
  /\ UNCHANGED <<queueVars, stopping, cur, cutHead, cuts, flat, flushes>>

FinishJob(t) ==
  /\ pc[t] = "finish"
  /\ Finish(cur[t], IF result[t] \in {"ok", "cancelError"} THEN result[t]
                    ELSE "error")
  /\ Goto(t, "notify")
  /\ UNCHANGED <<stopping, cur, cutHead, result, cuts, flat, flushes>>

NotifyJob(t) ==
  /\ pc[t] = "notify"
  /\ Notify(cur[t])
  /\ Release(t)
  /\ UNCHANGED <<stopping, cuts, flat, flushes>>

\* The loop condition fails after stop().
Exit(t) ==
  /\ pc[t] = "loop" /\ stopping
  /\ Goto(t, "exited")
  /\ UNCHANGED <<queueVars, stopping, cur, cutHead, result, cuts,
                 flat, flushes>>

ThreadStep(t) ==
  \/ FindsWork(t) \/ Pick(t) \/ PicksNothing(t) \/ Cut(t) \/ Fits(t) \/ DoesNotFit(t)
  \/ TakePicked(t) \/ TakeFails(t)
  \/ RunCancelled(t) \/ RunStarts(t) \/ GenerateReturns(t)
  \/ RetryWorker(t) \/ RetryVram(t) \/ BackoffEnds(t) \/ BackoffInterrupted(t)
  \/ RequeueSucceeds(t) \/ RequeueRefused(t) \/ GiveUp(t)
  \/ FinishJob(t) \/ NotifyJob(t) \/ Exit(t)

(***************************************************************************)
(* The clients                                                             *)
(***************************************************************************)
Submit(j) ==
  /\ Enqueue(j)
  /\ UNCHANGED <<stopping, threadVars, cuts, flat, flushes>>

Cancel(j) ==
  /\ CancelQueued(j) \/ (CancelRunning(j) /\ ~cancelRequested[j])
  /\ UNCHANGED <<stopping, threadVars, cuts, flat, flushes>>

\* Bound: at most MaxFlushes calls.
Flush ==
  /\ flushes < MaxFlushes
  /\ flushes' = flushes + 1
  /\ \E b \in BOOLEAN : CancelAllBegin(b)
  /\ UNCHANGED <<stopping, threadVars, cuts, flat>>

FlushStep ==
  /\ CancelAllStep \/ CancelAllEnd
  /\ UNCHANGED <<stopping, threadVars, cuts, flat, flushes>>

\* cancel_all() calls on_finish for what it cancelled.
FlushNotify(j) ==
  /\ \A t \in Worker : ~(pc[t] = "notify" /\ cur[t] = j)
  /\ Notify(j)
  /\ UNCHANGED <<stopping, threadVars, cuts, flat, flushes>>

\* stop(): the threads are only asked to leave their loop.
Stop ==
  /\ ~stopping /\ stopping' = TRUE
  /\ UNCHANGED <<queueVars, threadVars, cuts, flat, flushes>>

DispatcherNext ==
  \/ \E t \in Worker : ThreadStep(t)
  \/ \E j \in Job : Submit(j) \/ Cancel(j) \/ FlushNotify(j)
  \/ Flush \/ FlushStep \/ Stop

\* Each thread goes on: generate() returns because the worker pool gives up
\* on a silent worker, sleeps end, and the queue's lock is held only briefly.
DispatcherFairness ==
  /\ \A t \in Worker : WF_vars(ThreadStep(t))
  /\ WF_vars(FlushStep)

DispatcherSpec ==
  DispatcherInit /\ [][DispatcherNext]_vars /\ DispatcherFairness

(***************************************************************************)
(* Properties                                                              *)
(***************************************************************************)
Label == {"loop", "claim", "cut", "fits", "take", "run", "generate",
          "retryWorker", "retryVram", "backoff", "requeueVram", "requeueWorker", "giveUp",
          "finish", "notify", "exited"}
Holding == {"run", "generate", "retryWorker", "retryVram", "backoff",
            "requeueVram", "requeueWorker", "giveUp", "finish"}

\* Every variable of the threads and the scheduler keeps its type.
DispatcherTypeOK ==
  /\ stopping \in BOOLEAN
  /\ pc \in [Worker -> Label]
  /\ cur \in [Worker -> Job \cup {NoJob}]
  /\ cutHead \in [Worker -> Job \cup {NoJob}]
  /\ result \in [Worker -> GenerateResult \cup {"none"}]
  /\ cuts \in [Job -> Nat] /\ flat \in [Job -> Nat] /\ flushes \in Nat

\* A running job is held by exactly one thread: no interleaving of picks,
\* requeues and cancels runs a job twice at once, or leaves one in the
\* running set, and its slot taken, with no thread to finish it.
RunningHasOneThread ==
  \A j \in Job :
    LET holders == {t \in Worker : pc[t] \in Holding /\ cur[t] = j} IN
    Cardinality(holders) = IF state[j] = "running" THEN 1 ELSE 0

\* The threads and the queue agree at every step.
DispatcherConsistent == DispatcherTypeOK /\ RunningHasOneThread

\* The threads use the queue as JobQueue allows: every step is one of its
\* operations, and requeues stay within the two retry limits although a
\* thread checks the counters long before it requeues.
UsesQueue == QueueSpec

\* scheduler.py promises that a head is jumped at most max_cuts times.  What
\* holds is that each other thread can be one stale comparison late.
CutsWithinStaleMax ==
  \A j \in Job : cuts[j] <= MaxCuts + Cardinality(Worker) - 1

\* A job that FlatMax evictions in a row could not help is not retried.
FlatJobsAreNotRetried ==
  \A j \in Job : flat[j] >= FlatMax => state[j] # "queued"

\* Every accepted job gets an outcome unless the daemon is stopped: retries,
\* cuts and failed picks cannot go on for ever.
EveryJobSettles ==
  \A j \in Job : j \in accepted ~> (settled[j] # "none" \/ stopping)

\* A cancel of a running job takes effect, even during stop().
CancelTakesEffect ==
  \A j \in Job : cancelRequested[j] ~> settled[j] = "cancelled"
=============================================================================
