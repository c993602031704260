-------------------------- MODULE DispatcherProofs --------------------------
(***************************************************************************)
(* Proofs about the worker threads: for any number of threads and jobs a   *)
(* running job has exactly one thread, every step of the threads is one    *)
(* the queue allows, the retry limits hold although they are read long     *)
(* before they are used, and a head is jumped at most once too often per   *)
(* other thread.  The queue's own invariant comes from JobQueueProofs.     *)
(***************************************************************************)
EXTENDS Dispatcher, JobQueueProofs

\* Where a thread has a job in hand: picked, running, or just finished.
Busy == {"cut", "fits", "take", "notify"} \cup Holding

Holds(t, j) == pc[t] \in Holding /\ cur[t] = j

\* A thread that acts on a job knows which, and so does one that jumps a head.
JobsInHand ==
  \A t \in Worker : /\ pc[t] \in Busy => cur[t] \in Job
                    /\ pc[t] = "cut" => cutHead[t] \in Job

\* What a thread holds is running, no two hold the same job, and no running
\* job is forgotten: RunningHasOneThread without the counting.
HeldRuns == \A t \in Worker : pc[t] \in Holding => state[cur[t]] = "running"
HeldOnce ==
  \A t, u \in Worker :
    pc[t] \in Holding /\ pc[u] \in Holding /\ cur[t] = cur[u] => t = u
NoneForgotten ==
  \A j \in Job : state[j] = "running" => \E t \in Worker : Holds(t, j)

\* The counters a thread checked are still below their limits when it
\* requeues: only the thread that holds the job moves them.
RetriesLeft ==
  \A t \in Worker :
    /\ pc[t] = "requeueWorker" => workerRetries[cur[t]] < MaxWorkerRetries
    /\ pc[t] \in {"backoff", "requeueVram"} =>
         vramRetries[cur[t]] < MaxVramRetries

\* The job of a thread that may still give it back is not flat, ...
NotFlatYet ==
  \A t \in Worker :
    pc[t] \in Holding \ {"giveUp", "finish"} => flat[cur[t]] < FlatMax

\* ... and a flat one was accepted, and is not waiting.
FlatIsOver ==
  \A j \in Job : flat[j] >= FlatMax => j \in accepted /\ state[j] # "queued"

\* The inductive invariant behind DispatcherConsistent, UsesQueue and
\* FlatJobsAreNotRetried.
ThreadsInv ==
  /\ QueueInv /\ DispatcherTypeOK
  /\ JobsInHand /\ HeldRuns /\ HeldOnce /\ NoneForgotten
  /\ RetriesLeft /\ NotFlatYet /\ FlatIsOver

(***************************************************************************)
(* Every step of the threads is one of the queue                           *)
(***************************************************************************)

\* What the threads do to the queue between two of its own operations is
\* nothing, and the retry limits JobQueue sets hold when they requeue.
LEMMA StepUsesQueue ==
  ASSUME ThreadsInv, [DispatcherNext]_vars
  PROVE  [QueueNext]_queueVars
<1>0. /\ \A t \in Worker : pc[t] \in Busy => cur[t] \in Job
      /\ RetriesLeft
  BY DEF ThreadsInv, JobsInHand
<1>1. ASSUME NEW t \in Worker, ThreadStep(t)
      PROVE  [QueueNext]_queueVars
  <2>1. CASE TakePicked(t)
    <3>1. cur[t] \in Job /\ Take(cur[t])
      BY <1>0, <2>1 DEF TakePicked, Busy
    <3>2. QED
      BY <3>1 DEF QueueNext
  <2>2. CASE RequeueSucceeds(t)
    <3>1. CASE pc[t] = "requeueVram" /\ RequeueVram(cur[t])
      <4>1. cur[t] \in Job /\ vramRetries[cur[t]] < MaxVramRetries
        BY <1>0, <3>1 DEF Busy, Holding, RetriesLeft
      <4>2. QED
        BY <3>1, <4>1 DEF QueueNext
    <3>2. CASE pc[t] = "requeueWorker" /\ RequeueWorker(cur[t])
      <4>1. cur[t] \in Job /\ workerRetries[cur[t]] < MaxWorkerRetries
        BY <1>0, <3>2 DEF Busy, Holding, RetriesLeft
      <4>2. QED
        BY <3>2, <4>1 DEF QueueNext
    <3>3. QED
      BY <2>2, <3>1, <3>2 DEF RequeueSucceeds
  <2>3. CASE FinishJob(t)
    <3>1. PICK r \in {"ok", "error", "cancelError"} :
            cur[t] \in Job /\ Finish(cur[t], r)
      BY <1>0, <2>3 DEF FinishJob, Busy, Holding
    <3>2. QED
      BY <3>1 DEF QueueNext
  <2>4. CASE NotifyJob(t)
    <3>1. cur[t] \in Job /\ Notify(cur[t])
      BY <1>0, <2>4 DEF NotifyJob, Busy
    <3>2. QED
      BY <3>1 DEF QueueNext
  <2>5. CASE FindsWork(t) \/ Pick(t) \/ PicksNothing(t) \/ Cut(t) \/ Fits(t)
             \/ DoesNotFit(t) \/ TakeFails(t) \/ RunCancelled(t)
             \/ RunStarts(t) \/ GenerateReturns(t) \/ RetryWorker(t)
             \/ RetryVram(t) \/ BackoffEnds(t) \/ BackoffInterrupted(t)
             \/ RequeueRefused(t) \/ GiveUp(t) \/ Exit(t)
    <3>1. UNCHANGED queueVars
      BY <2>5
      DEF FindsWork, Pick, PicksNothing, Cut, Fits, DoesNotFit, TakeFails,
          RunCancelled, RunStarts, GenerateReturns, RetryWorker, RetryVram,
          BackoffEnds, BackoffInterrupted, RequeueRefused, GiveUp, Exit
    <3>2. QED
      BY <3>1
  <2>6. QED
    BY <1>1, <2>1, <2>2, <2>3, <2>4, <2>5 DEF ThreadStep
<1>2. ASSUME NEW j \in Job, Submit(j) \/ Cancel(j) \/ FlushNotify(j)
      PROVE  [QueueNext]_queueVars
  BY <1>2 DEF Submit, Cancel, FlushNotify, QueueNext
<1>3. CASE Flush \/ FlushStep
  BY <1>3 DEF Flush, FlushStep, QueueNext
<1>4. CASE Stop \/ UNCHANGED vars
  BY <1>4 DEF Stop, vars
<1>5. QED
  BY <1>1, <1>2, <1>3, <1>4 DEF DispatcherNext

\* Hence the queue's invariant survives the threads.
LEMMA QueueStays ==
  ASSUME ThreadsInv, [DispatcherNext]_vars
  PROVE  QueueInv'
<1>1. QueueInv /\ TypeOK /\ [QueueNext]_queueVars
  BY StepUsesQueue DEF ThreadsInv, QueueInv
<1>2. TypeOK'
  BY <1>1, QueueStepType
<1>3. QED
  BY <1>1, <1>2, QueueStepKeeps

(***************************************************************************)
(* Types                                                                   *)
(***************************************************************************)

\* Moving a thread to a label, or back to the top of its loop.
LEMMA GotoType ==
  ASSUME DispatcherTypeOK, NEW t \in Worker, NEW l \in Label, Goto(t, l)
  PROVE  /\ pc' \in [Worker -> Label] /\ pc'[t] = l
         /\ \A u \in Worker \ {t} : pc'[u] = pc[u]
BY DEF DispatcherTypeOK, Goto

LEMMA ReleaseType ==
  ASSUME DispatcherTypeOK, NEW t \in Worker, Release(t)
  PROVE  /\ pc' \in [Worker -> Label] /\ pc'[t] = "loop"
         /\ cur' \in [Worker -> Job \cup {NoJob}]
         /\ cutHead' \in [Worker -> Job \cup {NoJob}]
         /\ result' \in [Worker -> GenerateResult \cup {"none"}]
         /\ \A u \in Worker \ {t} : /\ pc'[u] = pc[u] /\ cur'[u] = cur[u]
                                    /\ cutHead'[u] = cutHead[u]
BY DEF DispatcherTypeOK, Release, Goto, Label

\* Every step of a thread or a client keeps the types.
LEMMA ThreadsStepType ==
  ASSUME ThreadsInv, [DispatcherNext]_vars
  PROVE  DispatcherTypeOK'
<1>0. /\ DispatcherTypeOK /\ JobsInHand
      /\ ToSet(queued) \subseteq Job
  BY DEF ThreadsInv, QueueInv, QueueConsistent
<1>a. \A t \in Worker : pc[t] \in Holding => cur[t] \in Job
  BY <1>0 DEF JobsInHand, Busy
<1> USE WorkerAssumption
<1>1. ASSUME NEW t \in Worker, ThreadStep(t)
      PROVE  DispatcherTypeOK'
  <2>1. CASE FindsWork(t) \/ PicksNothing(t) \/ Fits(t) \/ TakePicked(t)
             \/ RunStarts(t) \/ RetryWorker(t) \/ BackoffEnds(t)
             \/ BackoffInterrupted(t) \/ RequeueRefused(t) \/ FinishJob(t)
             \/ Exit(t)
    <3>1. /\ \E l \in Label : Goto(t, l)
          /\ UNCHANGED <<cur, cutHead, result, cuts, flat, flushes>>
          /\ UNCHANGED stopping
      BY <2>1
      DEF FindsWork, PicksNothing, Fits, TakePicked, RunStarts, RetryWorker,
          BackoffEnds, BackoffInterrupted, RequeueRefused, FinishJob, Exit,
          Label
    <3>2. QED
      BY <1>0, <3>1, GotoType DEF DispatcherTypeOK
  <2>2. CASE DoesNotFit(t) \/ TakeFails(t) \/ RequeueSucceeds(t) \/ NotifyJob(t)
    <3>1. Release(t) /\ UNCHANGED <<stopping, cuts, flat, flushes>>
      BY <2>2 DEF DoesNotFit, TakeFails, RequeueSucceeds, NotifyJob
    <3>2. QED
      BY <1>0, <3>1, ReleaseType DEF DispatcherTypeOK
  <2>3. CASE RunCancelled(t) \/ GiveUp(t)
    <3>1. /\ Goto(t, "finish")
          /\ \E r \in GenerateResult \cup {"none"} :
               result' = [result EXCEPT ![t] = r]
          /\ UNCHANGED <<stopping, cur, cutHead, cuts, flat, flushes>>
      BY <1>0, <2>3 DEF RunCancelled, GiveUp, GenerateResult, DispatcherTypeOK
    <3>2. pc' \in [Worker -> Label]
      BY <1>0, <3>1, GotoType DEF Label
    <3>3. QED
      BY ZenonT(60), <1>0, <3>1, <3>2 DEF DispatcherTypeOK
  <2>4. CASE GenerateReturns(t)
    <3>1. PICK r \in Results :
            /\ result' = [result EXCEPT ![t] =
                 IF r = "aborted" \/ (r = "ok" /\ cancelRequested[cur[t]])
                 THEN "cancelError" ELSE r]
            /\ Goto(t, IF r \in {"ok", "aborted"} THEN "finish"
                       ELSE "retryWorker")
      BY <2>4 DEF GenerateReturns
    <3>2. UNCHANGED <<stopping, cur, cutHead, cuts, flat, flushes>>
      BY <2>4 DEF GenerateReturns
    <3>3. result' \in [Worker -> GenerateResult \cup {"none"}]
      BY <1>0, <3>1 DEF DispatcherTypeOK, GenerateResult
    <3>4. \E l \in Label : Goto(t, l)
      BY <3>1 DEF Label
    <3>5. QED
      BY <1>0, <3>2, <3>3, <3>4, GotoType DEF DispatcherTypeOK
  <2>5. CASE Pick(t)
    <3>1. /\ \/ \E c \in Job : /\ cur' = [cur EXCEPT ![t] = c]
                               /\ Goto(t, "fits") /\ UNCHANGED cutHead
             \/ \E c, h \in Job : /\ cur' = [cur EXCEPT ![t] = c]
                                  /\ cutHead' = [cutHead EXCEPT ![t] = h]
                                  /\ Goto(t, "cut")
          /\ UNCHANGED <<stopping, result, cuts, flat, flushes>>
      BY <1>0, <2>5 DEF Pick, Band, Eligible
    <3>2. \E l \in Label : Goto(t, l)
      BY <3>1 DEF Label
    <3>3. pc' \in [Worker -> Label]
      BY <1>0, <3>2, GotoType
    <3>4. QED
      BY <1>0, <3>1, <3>3 DEF DispatcherTypeOK
  <2>6. CASE Cut(t)
    <3>1. /\ cutHead[t] \in Job
          /\ cuts' = [cuts EXCEPT ![cutHead[t]] = @ + 1]
          /\ Goto(t, "fits")
          /\ UNCHANGED <<stopping, cur, cutHead, result, flat, flushes>>
      BY <1>0, <2>6 DEF Cut, JobsInHand
    <3>2. pc' \in [Worker -> Label]
      BY <1>0, <3>1, GotoType DEF Label
    <3>3. QED
      BY <1>0, <3>1, <3>2 DEF DispatcherTypeOK
  <2>7. CASE RetryVram(t)
    <3>1. /\ UNCHANGED flat
             \/ \E p \in BOOLEAN :
                  flat' = [flat EXCEPT ![cur[t]] = FlatAfter(flat[cur[t]], p)]
          /\ \E l \in Label : Goto(t, l)
          /\ UNCHANGED <<stopping, cur, cutHead, result, cuts, flushes>>
      BY <2>7 DEF RetryVram, Label
    <3>2. cur[t] \in Job
      BY <1>a, <2>7 DEF RetryVram, Holding
    <3>3. flat' \in [Job -> Nat]
      BY <1>0, <3>1, <3>2 DEF DispatcherTypeOK, FlatAfter
    <3>4. QED
      BY <1>0, <3>1, <3>3, GotoType DEF DispatcherTypeOK
  <2>8. QED
    BY <1>1, <2>1, <2>2, <2>3, <2>4, <2>5, <2>6, <2>7 DEF ThreadStep
<1>2. CASE \/ \E j \in Job : Submit(j) \/ Cancel(j) \/ FlushNotify(j)
           \/ FlushStep \/ UNCHANGED vars
  <2>1. UNCHANGED <<stopping, threadVars, cuts, flat, flushes>>
    BY <1>2 DEF Submit, Cancel, FlushNotify, FlushStep, vars
  <2>2. QED
    BY <1>0, <2>1 DEF DispatcherTypeOK, threadVars
<1>3. CASE Flush
  BY <1>0, <1>3 DEF Flush, DispatcherTypeOK, threadVars
<1>4. CASE Stop
  BY <1>0, <1>4 DEF Stop, DispatcherTypeOK, threadVars
<1>5. QED
  BY <1>1, <1>2, <1>3, <1>4 DEF DispatcherNext

(***************************************************************************)
(* The invariant                                                           *)
(***************************************************************************)

\* A thread that moves on its own: it neither takes nor gives back a job, and
\* touches no count but the fruitless evictions of the job it holds.
LEMMA MovesAlone ==
  ASSUME ThreadsInv, QueueInv', DispatcherTypeOK', NEW t \in Worker,
         UNCHANGED <<state, accepted, vramRetries, workerRetries>>,
         \A u \in Worker \ {t} : /\ pc'[u] = pc[u] /\ cur'[u] = cur[u]
                                 /\ cutHead'[u] = cutHead[u],
         pc'[t] \in Busy => cur'[t] \in Job,
         pc'[t] = "cut" => cutHead'[t] \in Job,
         pc[t] \in Holding <=> pc'[t] \in Holding,
         pc[t] \in Holding => cur'[t] = cur[t],
         pc'[t] = "requeueWorker" =>
           workerRetries[cur[t]] < MaxWorkerRetries,
         pc'[t] \in {"backoff", "requeueVram"} =>
           vramRetries[cur[t]] < MaxVramRetries,
         pc'[t] \in Holding \ {"giveUp", "finish"} => flat'[cur[t]] < FlatMax,
         \A j \in Job : flat'[j] = flat[j] \/ Holds(t, j)
  PROVE  ThreadsInv'
<1>0. /\ JobsInHand /\ HeldRuns /\ HeldOnce /\ NoneForgotten
      /\ RetriesLeft /\ NotFlatYet /\ FlatIsOver /\ OnlyAccepted
  BY DEF ThreadsInv, QueueInv
<1>a. \A u \in Worker : pc[u] \in Holding => cur[u] \in Job
  BY <1>0 DEF JobsInHand, Busy
<1>b. /\ \A u \in Worker : pc'[u] \in Holding <=> pc[u] \in Holding
      /\ \A u \in Worker : pc[u] \in Holding => cur'[u] = cur[u]
  OBVIOUS
<1>1. JobsInHand'
  BY <1>0 DEF JobsInHand
<1>2. HeldRuns' /\ HeldOnce' /\ NoneForgotten'
  BY <1>0, <1>b DEF HeldRuns, HeldOnce, NoneForgotten, Holds
<1>3. RetriesLeft'
  <2> SUFFICES ASSUME NEW u \in Worker
               PROVE  /\ pc'[u] = "requeueWorker" =>
                           workerRetries[cur'[u]] < MaxWorkerRetries
                      /\ pc'[u] \in {"backoff", "requeueVram"} =>
                           vramRetries[cur'[u]] < MaxVramRetries
    BY DEF RetriesLeft
  <2>1. CASE u = t
    BY <1>b, <2>1 DEF Holding
  <2>2. CASE u # t
    BY <1>0, <2>2 DEF RetriesLeft
  <2>3. QED
    BY <2>1, <2>2
<1>4. NotFlatYet'
  <2> SUFFICES ASSUME NEW u \in Worker, pc'[u] \in Holding \ {"giveUp", "finish"}
               PROVE  flat'[cur'[u]] < FlatMax
    BY DEF NotFlatYet
  <2>1. CASE u = t
    BY <1>b, <2>1
  <2>2. CASE u # t
    <3>1. pc[u] \in Holding \ {"giveUp", "finish"} /\ cur'[u] = cur[u]
      BY <2>2
    <3>2. cur[u] \in Job /\ ~Holds(t, cur[u])
      BY <1>0, <1>a, <2>2, <3>1 DEF HeldOnce, Holds
    <3>3. QED
      BY <1>0, <3>1, <3>2 DEF NotFlatYet
  <2>3. QED
    BY <2>1, <2>2
<1>5. FlatIsOver'
  <2> SUFFICES ASSUME NEW j \in Job, flat'[j] >= FlatMax
               PROVE  j \in accepted /\ state[j] # "queued"
    BY DEF FlatIsOver
  <2>1. CASE Holds(t, j)
    <3>1. state[j] = "running"
      BY <1>0, <2>1 DEF Holds, HeldRuns
    <3>2. QED
      BY <1>0, <3>1 DEF OnlyAccepted
  <2>2. CASE flat'[j] = flat[j]
    BY <1>0, <2>2 DEF FlatIsOver
  <2>3. QED
    BY <2>1, <2>2
<1>6. QED
  BY <1>1, <1>2, <1>3, <1>4, <1>5 DEF ThreadsInv

\* What the clients do moves no thread: jobs come and go, but none starts or
\* stops running, and none comes back once it was flat.
LEMMA ClientsKeep ==
  ASSUME ThreadsInv, QueueInv', DispatcherTypeOK',
         UNCHANGED <<threadVars, flat, vramRetries, workerRetries>>,
         \A j \in Job : state'[j] = "running" <=> state[j] = "running",
         \A j \in Job : state'[j] = "queued" =>
                          state[j] = "queued" \/ j \notin accepted,
         accepted \subseteq accepted'
  PROVE  ThreadsInv'
<1>0. /\ JobsInHand /\ HeldRuns /\ HeldOnce /\ NoneForgotten
      /\ RetriesLeft /\ NotFlatYet /\ FlatIsOver
  BY DEF ThreadsInv
<1>a. \A u \in Worker : pc[u] \in Holding => cur[u] \in Job
  BY <1>0 DEF JobsInHand, Busy
<1>1. UNCHANGED <<pc, cur, cutHead>>
  BY DEF threadVars
<1>2. JobsInHand' /\ HeldOnce' /\ RetriesLeft' /\ NotFlatYet'
  BY <1>0, <1>1 DEF JobsInHand, HeldOnce, RetriesLeft, NotFlatYet
<1>3. HeldRuns' /\ NoneForgotten'
  BY <1>0, <1>a, <1>1 DEF HeldRuns, NoneForgotten, Holds
<1>4. FlatIsOver'
  BY <1>0 DEF FlatIsOver
<1>5. QED
  BY <1>2, <1>3, <1>4 DEF ThreadsInv

\* take(): the job was queued, so no thread held it.
LEMMA TakePickedKeeps ==
  ASSUME ThreadsInv, QueueInv', DispatcherTypeOK', NEW t \in Worker,
         TakePicked(t)
  PROVE  ThreadsInv'
<1>0. /\ JobsInHand /\ HeldRuns /\ HeldOnce /\ NoneForgotten
      /\ RetriesLeft /\ NotFlatYet /\ FlatIsOver /\ QueueConsistent
      /\ DispatcherTypeOK /\ TypeOK
  BY DEF ThreadsInv, QueueInv
<1> PICK c : c = cur[t]
  OBVIOUS
<1>1. /\ pc[t] = "take" /\ Take(c) /\ Goto(t, "run")
      /\ UNCHANGED <<cur, cutHead, flat>>
  BY DEF TakePicked
<1>2. c \in Job /\ state[c] = "queued"
  BY <1>0, <1>1 DEF JobsInHand, Busy, Take, StillQueued, QueueConsistent
<1>3. /\ \A j \in Job : state'[j] = IF j = c THEN "running" ELSE state[j]
      /\ UNCHANGED <<accepted, vramRetries, workerRetries>>
  BY <1>0, <1>1, <1>2 DEF Take, history, TypeOK
<1>4. /\ pc'[t] = "run" /\ pc[t] \notin Holding /\ "run" \in Holding
      /\ \A u \in Worker \ {t} : pc'[u] = pc[u]
  BY <1>0, <1>1, GotoType DEF Label, Holding
<1>5. \A u \in Worker : pc[u] \in Holding => cur[u] \in Job /\ cur[u] # c
  BY <1>0, <1>2 DEF JobsInHand, Busy, HeldRuns
<1>6. JobsInHand'
  BY <1>0, <1>1, <1>2, <1>4 DEF JobsInHand
<1>7. HeldRuns' /\ HeldOnce'
  BY <1>0, <1>1, <1>2, <1>3, <1>4, <1>5 DEF HeldRuns, HeldOnce
<1>8. NoneForgotten'
  <2> SUFFICES ASSUME NEW j \in Job, state'[j] = "running"
               PROVE  \E u \in Worker : pc'[u] \in Holding /\ cur'[u] = j
    BY DEF NoneForgotten, Holds
  <2>1. CASE j = c
    BY <1>1, <1>4, <2>1
  <2>2. CASE j # c
    <3>1. PICK u \in Worker : pc[u] \in Holding /\ cur[u] = j
      BY <1>0, <1>3, <2>2 DEF NoneForgotten, Holds
    <3>2. QED
      BY <1>1, <1>4, <3>1
  <2>3. QED
    BY <2>1, <2>2
<1>9. RetriesLeft'
  BY <1>0, <1>1, <1>3, <1>4 DEF RetriesLeft
<1>10. NotFlatYet'
  <2>1. flat[c] < FlatMax
    BY <1>0, <1>2, WorkerAssumption DEF FlatIsOver, DispatcherTypeOK
  <2>2. QED
    BY <1>0, <1>1, <1>4, <2>1 DEF NotFlatYet
<1>11. FlatIsOver'
  BY <1>0, <1>1, <1>3 DEF FlatIsOver
<1>12. QED
  BY <1>6, <1>7, <1>8, <1>9, <1>10, <1>11 DEF ThreadsInv

\* A thread that lets go of its job, which stops running: nobody else held
\* it, and if the job is back in the queue it was not flat.
LEMMA LetsGo ==
  ASSUME ThreadsInv, QueueInv', DispatcherTypeOK', NEW t \in Worker,
         NEW c \in Job, Holds(t, c), pc'[t] \notin Holding,
         pc'[t] \in Busy => cur'[t] \in Job, pc'[t] # "cut",
         \A u \in Worker \ {t} : /\ pc'[u] = pc[u] /\ cur'[u] = cur[u]
                                 /\ cutHead'[u] = cutHead[u],
         UNCHANGED <<flat, accepted>>,
         \A j \in Job \ {c} : /\ state'[j] = "running" <=> state[j] = "running"
                              /\ state'[j] = "queued" <=> state[j] = "queued"
                              /\ vramRetries'[j] = vramRetries[j]
                              /\ workerRetries'[j] = workerRetries[j],
         state'[c] # "running",
         state'[c] = "queued" => flat[c] < FlatMax
  PROVE  ThreadsInv'
<1>0. /\ JobsInHand /\ HeldRuns /\ HeldOnce /\ NoneForgotten
      /\ RetriesLeft /\ NotFlatYet /\ FlatIsOver /\ DispatcherTypeOK
  BY DEF ThreadsInv
<1>1. \A u \in Worker : pc'[u] \in Holding =>
        /\ u # t /\ pc[u] = pc'[u] /\ cur'[u] = cur[u]
        /\ cur[u] \in Job \ {c}
  BY <1>0 DEF JobsInHand, Busy, HeldOnce, Holds
<1>2. JobsInHand'
  BY <1>0 DEF JobsInHand
<1>3. HeldRuns' /\ HeldOnce'
  BY <1>0, <1>1 DEF HeldRuns, HeldOnce
<1>4. NoneForgotten'
  <2> SUFFICES ASSUME NEW j \in Job, state'[j] = "running"
               PROVE  \E u \in Worker : pc'[u] \in Holding /\ cur'[u] = j
    BY DEF NoneForgotten, Holds
  <2>1. j # c /\ state[j] = "running"
    OBVIOUS
  <2>2. PICK u \in Worker : pc[u] \in Holding /\ cur[u] = j
    BY <1>0, <2>1 DEF NoneForgotten, Holds
  <2>3. u # t
    BY <2>1, <2>2 DEF Holds
  <2>4. QED
    BY <2>2, <2>3
<1>5. RetriesLeft'
  <2> SUFFICES ASSUME NEW u \in Worker
               PROVE  /\ pc'[u] = "requeueWorker" =>
                           workerRetries'[cur'[u]] < MaxWorkerRetries
                      /\ pc'[u] \in {"backoff", "requeueVram"} =>
                           vramRetries'[cur'[u]] < MaxVramRetries
    BY DEF RetriesLeft
  <2>1. CASE pc'[u] \in Holding
    BY <1>0, <1>1, <2>1 DEF RetriesLeft
  <2>2. CASE pc'[u] \notin Holding
    BY <2>2 DEF Holding
  <2>3. QED
    BY <2>1, <2>2
<1>6. NotFlatYet'
  BY <1>0, <1>1 DEF NotFlatYet
<1>7. FlatIsOver'
  <2> SUFFICES ASSUME NEW j \in Job, flat[j] >= FlatMax
               PROVE  j \in accepted /\ state'[j] # "queued"
    BY DEF FlatIsOver
  <2>1. CASE j = c
    BY <1>0, <2>1, WorkerAssumption DEF FlatIsOver, DispatcherTypeOK
  <2>2. CASE j # c
    BY <1>0, <2>2 DEF FlatIsOver
  <2>3. QED
    BY <2>1, <2>2
<1>8. QED
  BY <1>2, <1>3, <1>4, <1>5, <1>6, <1>7 DEF ThreadsInv
\* requeue_running() returns True: the job waits again, with one retry less.
LEMMA RequeueSucceedsKeeps ==
  ASSUME ThreadsInv, QueueInv', DispatcherTypeOK', NEW t \in Worker,
         RequeueSucceeds(t)
  PROVE  ThreadsInv'
<1>0. /\ JobsInHand /\ NotFlatYet /\ DispatcherTypeOK /\ TypeOK
  BY DEF ThreadsInv, QueueInv
<1> PICK c : c = cur[t]
  OBVIOUS
<1>1. /\ pc[t] \in {"requeueVram", "requeueWorker"}
      /\ RequeueVram(c) \/ RequeueWorker(c)
      /\ Release(t) /\ UNCHANGED flat
  BY DEF RequeueSucceeds
<1>2. c \in Job /\ Holds(t, c) /\ flat[c] < FlatMax
  BY <1>0, <1>1 DEF JobsInHand, Busy, Holding, Holds, NotFlatYet
<1>3. /\ \A j \in Job : state'[j] = IF j = c THEN "queued" ELSE state[j]
      /\ UNCHANGED accepted
      /\ \A j \in Job \ {c} : /\ vramRetries'[j] = vramRetries[j]
                              /\ workerRetries'[j] = workerRetries[j]
  BY <1>0, <1>1, <1>2
  DEF RequeueVram, RequeueWorker, Requeue, history, TypeOK
<1>4. /\ pc'[t] = "loop"
      /\ \A u \in Worker \ {t} : /\ pc'[u] = pc[u] /\ cur'[u] = cur[u]
                                 /\ cutHead'[u] = cutHead[u]
  BY <1>0, <1>1, ReleaseType
<1>5. pc'[t] \notin Holding /\ pc'[t] \notin Busy /\ pc'[t] # "cut"
  BY <1>4 DEF Holding, Busy
<1>6. QED
  BY <1>1, <1>2, <1>3, <1>4, <1>5, LetsGo

\* finish(): the purge that follows forgets finished jobs only.
LEMMA FinishJobKeeps ==
  ASSUME ThreadsInv, QueueInv', DispatcherTypeOK', NEW t \in Worker,
         FinishJob(t)
  PROVE  ThreadsInv'
<1>0. /\ JobsInHand /\ DispatcherTypeOK /\ TypeOK /\ FinishedIsOver
  BY DEF ThreadsInv, QueueInv
<1> PICK c : c = cur[t]
  OBVIOUS
<1>1. PICK r \in {"ok", "error", "cancelError"} :
        /\ pc[t] = "finish" /\ Finish(c, r) /\ Goto(t, "notify")
        /\ UNCHANGED <<cur, cutHead, flat>>
  BY DEF FinishJob
<1>2. c \in Job /\ Holds(t, c)
  BY <1>0, <1>1 DEF JobsInHand, Busy, Holding, Holds
<1> DEFINE o == Outcome(r, cancelRequested[c])
           st == [state EXCEPT ![c] = o]
           fin == Append(finished, c)
<1>3. o \in Terminal /\ o \notin Live
  BY DEF Outcome, Terminal, Live
<1>4. Purge(st, fin)
  BY <1>1 DEF Finish
<1> HIDE DEF o
<1>5. /\ st \in [Job -> {"none"} \cup Live \cup Terminal]
      /\ \A j \in Job : st[j] = IF j = c THEN o ELSE state[j]
  BY <1>0, <1>2, <1>3 DEF TypeOK
<1>6. /\ fin \in Seq(Job) /\ ToSet(fin) = ToSet(finished) \cup {c}
      /\ ToSet(finished) \subseteq Job
  BY <1>0, <1>2, PushBackProperties, SeqRange DEF TypeOK
<1>7. \A j \in ToSet(fin) : st[j] \notin Live
  BY <1>0, <1>3, <1>5, <1>6 DEF FinishedIsOver
<1> HIDE DEF st, fin
<1>8. \A j \in Job : /\ state'[j] = "queued" <=> st[j] = "queued"
                     /\ state'[j] = "running" <=> st[j] = "running"
  BY <1>4, <1>5, <1>6, <1>7, PurgeKeepsLive
<1>9. state'[c] # "running" /\ state'[c] # "queued"
  BY <1>2, <1>3, <1>5, <1>8 DEF Live
<1>10. UNCHANGED <<accepted, vramRetries, workerRetries>>
  BY <1>1 DEF Finish
<1>11. /\ pc'[t] = "notify" /\ cur'[t] \in Job
       /\ \A u \in Worker \ {t} : pc'[u] = pc[u]
  BY <1>0, <1>1, <1>2, GotoType DEF Label
<1>12. pc'[t] \notin Holding /\ pc'[t] # "cut"
  BY <1>11 DEF Holding
<1>13. QED
  BY <1>1, <1>2, <1>5, <1>8, <1>9, <1>10, <1>11, <1>12, LetsGo

\* The eviction for lack of VRAM counts for the job the thread holds.
LEMMA RetryVramKeeps ==
  ASSUME ThreadsInv, QueueInv', DispatcherTypeOK', NEW t \in Worker,
         RetryVram(t)
  PROVE  ThreadsInv'
<1>0. /\ JobsInHand /\ NotFlatYet /\ DispatcherTypeOK /\ TypeOK
  BY DEF ThreadsInv, QueueInv
<1> PICK c : c = cur[t]
  OBVIOUS
<1>1. pc[t] = "retryVram" /\ UNCHANGED <<queueVars, cur, cutHead>>
  BY DEF RetryVram
<1>2. UNCHANGED <<state, accepted, vramRetries, workerRetries>>
  BY <1>1 DEF queueVars, memory, history
<1>3. c \in Job /\ Holds(t, c) /\ flat[c] < FlatMax
  BY <1>0, <1>1 DEF JobsInHand, Busy, Holding, Holds, NotFlatYet
<1>4. CASE UNCHANGED flat /\ Goto(t, "finish")
  <2>1. pc'[t] = "finish" /\ \A u \in Worker \ {t} : pc'[u] = pc[u]
    BY <1>0, <1>4, GotoType DEF Label
  <2>2. /\ pc'[t] \in Holding /\ pc[t] \in Holding
        /\ pc'[t] \notin Holding \ {"giveUp", "finish"}
    BY <1>1, <2>1 DEF Holding
  <2>3. QED
    BY <1>1, <1>2, <1>3, <1>4, <2>1, <2>2, MovesAlone
<1>5. CASE /\ MayRetryVram(c)
           /\ \E p \in BOOLEAN :
                /\ flat' = [flat EXCEPT ![c] = FlatAfter(flat[c], p)]
                /\ Goto(t, IF IsFlat(FlatAfter(flat[c], p)) THEN "giveUp"
                           ELSE "backoff")
  <2>1. PICK p \in BOOLEAN :
          /\ flat' = [flat EXCEPT ![c] = FlatAfter(flat[c], p)]
          /\ Goto(t, IF IsFlat(FlatAfter(flat[c], p)) THEN "giveUp"
                     ELSE "backoff")
    BY <1>5
  <2>2. /\ flat'[c] = FlatAfter(flat[c], p) /\ flat'[c] \in Nat
        /\ \A j \in Job : flat'[j] = flat[j] \/ Holds(t, j)
    BY <1>0, <1>3, <2>1 DEF DispatcherTypeOK, FlatAfter
  <2>3. /\ pc'[t] \in {"giveUp", "backoff"}
        /\ pc'[t] = "backoff" => ~(flat'[c] >= FlatMax)
        /\ \A u \in Worker \ {t} : pc'[u] = pc[u]
    <3>1. CASE IsFlat(FlatAfter(flat[c], p))
      BY <1>0, <2>1, <3>1, GotoType DEF Label
    <3>2. CASE ~IsFlat(FlatAfter(flat[c], p))
      BY <1>0, <2>1, <2>2, <3>2, GotoType DEF Label, IsFlat
    <3>3. QED
      BY <3>1, <3>2
  <2>4. pc'[t] = "backoff" => flat'[c] < FlatMax
    BY <2>2, <2>3, WorkerAssumption
  <2>5. vramRetries[c] < MaxVramRetries
    BY <1>5 DEF MayRetryVram
  <2>6. pc[t] \in Holding /\ pc'[t] \in Holding
    BY <1>1, <2>3 DEF Holding
  <2>7. /\ pc'[t] \in Holding \ {"giveUp", "finish"} => flat'[c] < FlatMax
        /\ pc'[t] # "requeueWorker" /\ pc'[t] # "cut" /\ cur'[t] \in Job
        /\ UNCHANGED <<cur, cutHead>> /\ c = cur[t]
    BY <1>1, <1>3, <2>3, <2>4
  <2>8. QED
    BY <1>2, <2>2, <2>3, <2>5, <2>6, <2>7, MovesAlone
<1>6. QED
  BY <1>4, <1>5 DEF RetryVram

\* The other steps of a thread leave the queue's jobs and all counts alone.
LEMMA LocalStepsKeep ==
  ASSUME ThreadsInv, QueueInv', DispatcherTypeOK', NEW t \in Worker,
         \/ FindsWork(t) \/ Pick(t) \/ PicksNothing(t) \/ Cut(t) \/ Fits(t)
         \/ DoesNotFit(t) \/ TakeFails(t) \/ RunCancelled(t) \/ RunStarts(t)
         \/ GenerateReturns(t) \/ RetryWorker(t) \/ BackoffEnds(t)
         \/ BackoffInterrupted(t) \/ RequeueRefused(t) \/ GiveUp(t)
         \/ NotifyJob(t) \/ Exit(t)
  PROVE  ThreadsInv'
<1>0. /\ JobsInHand /\ NotFlatYet /\ RetriesLeft /\ DispatcherTypeOK /\ TypeOK
      /\ ToSet(queued) \subseteq Job
  BY DEF ThreadsInv, QueueInv, QueueConsistent
<1>1. UNCHANGED <<state, accepted, vramRetries, workerRetries, flat>>
  <2>1. CASE NotifyJob(t)
    BY <2>1 DEF NotifyJob, Notify
  <2>2. CASE ~NotifyJob(t)
    <3>1. UNCHANGED <<queueVars, flat>>
      BY <2>2
      DEF FindsWork, Pick, PicksNothing, Cut, Fits, DoesNotFit, TakeFails,
          RunCancelled, RunStarts, GenerateReturns, RetryWorker, BackoffEnds,
          BackoffInterrupted, RequeueRefused, GiveUp, Exit
    <3>2. QED
      BY <3>1 DEF queueVars, memory, history
  <2>3. QED
    BY <2>1, <2>2
<1>2. CASE DoesNotFit(t) \/ TakeFails(t) \/ NotifyJob(t)
  <2>1. pc[t] \in {"fits", "take", "notify"} /\ Release(t)
    BY <1>2 DEF DoesNotFit, TakeFails, NotifyJob
  <2>2. /\ pc'[t] = "loop"
        /\ \A u \in Worker \ {t} : /\ pc'[u] = pc[u] /\ cur'[u] = cur[u]
                                   /\ cutHead'[u] = cutHead[u]
    BY <1>0, <2>1, ReleaseType
  <2>3. pc[t] \notin Holding /\ pc'[t] \notin Holding /\ pc'[t] \notin Busy
    BY <2>1, <2>2 DEF Holding, Busy
  <2>4. QED
    BY <1>1, <2>2, <2>3, MovesAlone
<1>3. CASE Pick(t)
  <2>1. /\ pc[t] = "claim"
        /\ \/ \E c \in Job : /\ cur' = [cur EXCEPT ![t] = c]
                             /\ Goto(t, "fits") /\ UNCHANGED cutHead
           \/ \E c, h \in Job : /\ cur' = [cur EXCEPT ![t] = c]
                                /\ cutHead' = [cutHead EXCEPT ![t] = h]
                                /\ Goto(t, "cut")
    BY <1>0, <1>3 DEF Pick, Band, Eligible
  <2>2. PICK l \in {"fits", "cut"} : Goto(t, l)
    BY <2>1
  <2>3. /\ pc'[t] \in {"fits", "cut"} /\ \A u \in Worker \ {t} : pc'[u] = pc[u]
    BY <1>0, <2>2, GotoType DEF Label
  <2>4. /\ cur'[t] \in Job
        /\ pc'[t] = "cut" => cutHead'[t] \in Job
        /\ \A u \in Worker \ {t} : cur'[u] = cur[u] /\ cutHead'[u] = cutHead[u]
    <3>1. "fits" # "cut" /\ "fits" \in Label /\ "cut" \in Label
      BY DEF Label
    <3>2. CASE Goto(t, "fits") /\ UNCHANGED cutHead
      BY <1>0, <2>1, <3>1, <3>2, GotoType DEF DispatcherTypeOK
    <3>3. CASE ~(Goto(t, "fits") /\ UNCHANGED cutHead)
      BY <1>0, <2>1, <3>3 DEF DispatcherTypeOK
    <3>4. QED
      BY <3>2, <3>3
  <2>5. pc[t] \notin Holding /\ pc'[t] \notin Holding
    BY <2>1, <2>3 DEF Holding
  <2>6. pc'[t] \notin {"requeueWorker", "backoff", "requeueVram"}
    BY <2>3
  <2>7. /\ pc'[t] \in Busy => cur'[t] \in Job
        /\ pc'[t] = "cut" => cutHead'[t] \in Job
        /\ pc[t] \in Holding <=> pc'[t] \in Holding
        /\ pc[t] \in Holding => cur'[t] = cur[t]
        /\ pc'[t] \in Holding \ {"giveUp", "finish"} => flat'[cur[t]] < FlatMax
        /\ \A j \in Job : flat'[j] = flat[j] \/ Holds(t, j)
        /\ \A u \in Worker \ {t} : /\ pc'[u] = pc[u] /\ cur'[u] = cur[u]
                                   /\ cutHead'[u] = cutHead[u]
    BY <1>1, <2>3, <2>4, <2>5
  <2>8. QED
    BY <1>1, <2>6, <2>7, MovesAlone
<1>4. CASE \/ FindsWork(t) \/ PicksNothing(t) \/ Cut(t) \/ Fits(t) \/ Exit(t)
  <2>1. /\ pc[t] \in {"loop", "claim", "cut", "fits"}
        /\ \E l \in {"claim", "loop", "fits", "take", "exited"} :
             /\ Goto(t, l)
             /\ l \in {"fits", "take"} => pc[t] \in {"cut", "fits"}
        /\ UNCHANGED <<cur, cutHead>>
    BY <1>4 DEF FindsWork, PicksNothing, Cut, Fits, Exit
  <2>2. PICK l \in {"claim", "loop", "fits", "take", "exited"} :
          Goto(t, l) /\ (l \in {"fits", "take"} => pc[t] \in {"cut", "fits"})
    BY <2>1
  <2>3. pc'[t] = l /\ \A u \in Worker \ {t} : pc'[u] = pc[u]
    BY <1>0, <2>2, GotoType DEF Label
  <2>4. /\ pc[t] \notin Holding /\ pc'[t] \notin Holding
        /\ pc'[t] \notin {"requeueWorker", "backoff", "requeueVram", "cut"}
    BY <2>1, <2>3 DEF Holding
  <2>5. pc'[t] \in Busy => cur'[t] \in Job
    BY <1>0, <2>1, <2>2, <2>3 DEF JobsInHand, Busy, Holding
  <2>6. QED
    BY <1>1, <2>1, <2>3, <2>4, <2>5, MovesAlone
<1>5. CASE \/ RunCancelled(t) \/ RunStarts(t) \/ GenerateReturns(t)
           \/ RetryWorker(t) \/ BackoffEnds(t) \/ BackoffInterrupted(t)
           \/ RequeueRefused(t) \/ GiveUp(t)
  <2>1. /\ pc[t] \in Holding \ {"finish"}
        /\ UNCHANGED <<cur, cutHead>>
        /\ \E l \in {"finish", "generate", "retryWorker", "requeueWorker",
                     "retryVram", "requeueVram", "giveUp"} :
             /\ Goto(t, l)
             /\ l \in {"giveUp", "finish"} \/ pc[t] # "giveUp"
             /\ l = "requeueVram" => pc[t] = "backoff"
             /\ l = "requeueWorker" => workerRetries[cur[t]] < MaxWorkerRetries
    BY <1>5
    DEF RunCancelled, RunStarts, GenerateReturns, RetryWorker, BackoffEnds,
        BackoffInterrupted, RequeueRefused, GiveUp, Holding
  <2>2. PICK l \in {"finish", "generate", "retryWorker", "requeueWorker",
                    "retryVram", "requeueVram", "giveUp"} :
             /\ Goto(t, l)
             /\ l \in {"giveUp", "finish"} \/ pc[t] # "giveUp"
             /\ l = "requeueVram" => pc[t] = "backoff"
             /\ l = "requeueWorker" => workerRetries[cur[t]] < MaxWorkerRetries
    BY <2>1
  <2>3. pc'[t] = l /\ \A u \in Worker \ {t} : pc'[u] = pc[u]
    BY <1>0, <2>2, GotoType DEF Label
  <2>4. /\ pc[t] \in Holding /\ pc'[t] \in Holding
        /\ pc'[t] # "cut" /\ pc'[t] # "backoff"
    BY <2>1, <2>3 DEF Holding
  <2>5. cur'[t] \in Job
    BY <1>0, <2>1 DEF JobsInHand, Busy
  <2>6. pc'[t] = "requeueVram" => vramRetries[cur[t]] < MaxVramRetries
    BY <1>0, <2>2, <2>3 DEF RetriesLeft
  <2>7. pc'[t] \in Holding \ {"giveUp", "finish"} => flat'[cur[t]] < FlatMax
    BY <1>0, <1>1, <2>1, <2>2, <2>3 DEF NotFlatYet
  <2>8. QED
    BY <1>1, <2>1, <2>2, <2>3, <2>4, <2>5, <2>6, <2>7, MovesAlone
<1>6. QED
  BY <1>2, <1>3, <1>4, <1>5
\* A cancel of a job, queued or running, by a client.
LEMMA CancelKeeps ==
  ASSUME ThreadsInv, QueueInv', DispatcherTypeOK', NEW j \in Job, Cancel(j)
  PROVE  ThreadsInv'
<1>0. TypeOK /\ FinishedIsOver
  BY DEF ThreadsInv, QueueInv
<1>1. UNCHANGED <<threadVars, flat>>
  BY DEF Cancel
<1>2. CASE CancelRunning(j)
  <2>1. UNCHANGED <<state, accepted, vramRetries, workerRetries>>
    BY <1>2 DEF CancelRunning, history
  <2>2. QED
    BY <1>1, <2>1, ClientsKeep
<1>3. CASE CancelQueued(j)
  <2> DEFINE st == [state EXCEPT ![j] = "cancelled"]
             fin == Append(finished, j)
  <2>1. /\ Purge(st, fin) /\ state[j] = "queued"
        /\ UNCHANGED <<accepted, vramRetries, workerRetries>>
    BY <1>3 DEF CancelQueued, CancelsAtOnce
  <2>2. /\ st \in [Job -> {"none"} \cup Live \cup Terminal]
        /\ \A i \in Job : st[i] = IF i = j THEN "cancelled" ELSE state[i]
    BY <1>0 DEF TypeOK, Terminal
  <2>3. /\ fin \in Seq(Job) /\ ToSet(fin) = ToSet(finished) \cup {j}
        /\ ToSet(finished) \subseteq Job
    BY <1>0, PushBackProperties, SeqRange DEF TypeOK
  <2>4. \A i \in ToSet(fin) : st[i] \notin Live
    BY <1>0, <2>2, <2>3 DEF FinishedIsOver, Live
  <2> HIDE DEF st, fin
  <2>5. \A i \in Job : /\ state'[i] = "queued" <=> st[i] = "queued"
                       /\ state'[i] = "running" <=> st[i] = "running"
    BY <2>1, <2>2, <2>3, <2>4, PurgeKeepsLive
  <2>6. /\ \A i \in Job : state'[i] = "running" <=> state[i] = "running"
        /\ \A i \in Job : state'[i] = "queued" => state[i] = "queued"
    BY <2>1, <2>2, <2>5
  <2>7. QED
    BY <1>1, <2>1, <2>6, ClientsKeep
<1>4. QED
  BY <1>2, <1>3 DEF Cancel

\* The loop of cancel_all().
LEMMA FlushStepKeeps ==
  ASSUME ThreadsInv, QueueInv', DispatcherTypeOK', FlushStep
  PROVE  ThreadsInv'
<1>0. /\ TypeOK /\ FinishedIsOver /\ QueueConsistent
  BY DEF ThreadsInv, QueueInv
<1>1. UNCHANGED <<threadVars, flat>>
  BY DEF FlushStep
<1>2. CASE CancelAllStep
  <2>1. PICK c : c = Head(queued)
    OBVIOUS
  <2>2. /\ queued # <<>> /\ state' = [state EXCEPT ![c] = "cancelled"]
        /\ UNCHANGED <<accepted, vramRetries, workerRetries>>
    BY <1>2, <2>1 DEF CancelAllStep
  <2>3. c \in Job /\ c \in ToSet(queued)
    BY <1>0, <2>1, <2>2, TailProperties DEF TypeOK, QueueConsistent
  <2>4. state[c] = "queued"
    BY <1>0, <2>3 DEF QueueConsistent
  <2>5. /\ \A i \in Job : state'[i] = "running" <=> state[i] = "running"
        /\ \A i \in Job : state'[i] = "queued" => state[i] = "queued"
    BY <1>0, <2>2, <2>3, <2>4 DEF TypeOK
  <2>6. QED
    BY <1>1, <2>2, <2>5, ClientsKeep
<1>3. CASE CancelAllEnd
  <2>1. /\ Purge(state, finished)
        /\ UNCHANGED <<accepted, vramRetries, workerRetries>>
    BY <1>3 DEF CancelAllEnd, history
  <2>2. /\ state \in [Job -> {"none"} \cup Live \cup Terminal]
        /\ finished \in Seq(Job)
        /\ \A i \in ToSet(finished) : state[i] \notin Live
    BY <1>0 DEF TypeOK, FinishedIsOver
  <2>3. \A i \in Job : /\ state'[i] = "queued" <=> state[i] = "queued"
                       /\ state'[i] = "running" <=> state[i] = "running"
    BY <2>1, <2>2, PurgeKeepsLive
  <2>4. QED
    BY <1>1, <2>1, <2>3, ClientsKeep
<1>4. QED
  BY <1>2, <1>3 DEF FlushStep

\* Every other step of the clients: a new job, a callback, the begin of a
\* cancel_all(), stop().
LEMMA ClientStepsKeep ==
  ASSUME ThreadsInv, QueueInv', DispatcherTypeOK',
         \/ \E j \in Job : Submit(j) \/ FlushNotify(j)
         \/ Flush \/ Stop \/ UNCHANGED vars
  PROVE  ThreadsInv'
<1>0. TypeOK /\ OnlyAccepted
  BY DEF ThreadsInv, QueueInv
<1>1. ASSUME NEW j \in Job, Submit(j) PROVE ThreadsInv'
  <2>1. /\ j \notin accepted /\ state' = [state EXCEPT ![j] = "queued"]
        /\ accepted' = accepted \cup {j}
        /\ UNCHANGED <<threadVars, flat, vramRetries, workerRetries>>
    BY <1>1 DEF Submit, Enqueue
  <2>2. state[j] = "none"
    BY <1>0, <2>1 DEF OnlyAccepted
  <2>3. \A i \in Job : state'[i] = IF i = j THEN "queued" ELSE state[i]
    BY <1>0, <2>1 DEF TypeOK
  <2>4. /\ \A i \in Job : state'[i] = "running" <=> state[i] = "running"
        /\ \A i \in Job : state'[i] = "queued" =>
                            state[i] = "queued" \/ i \notin accepted
    BY <2>1, <2>2, <2>3
  <2>5. QED
    BY <2>1, <2>4, ClientsKeep
<1>2. CASE \E j \in Job : FlushNotify(j)
  <2>1. UNCHANGED <<threadVars, flat, vramRetries, workerRetries, state,
                    accepted>>
    BY <1>2 DEF FlushNotify, Notify
  <2>2. QED
    BY <2>1, ClientsKeep
<1>3. CASE Flush \/ Stop \/ UNCHANGED vars
  <2>1. UNCHANGED <<threadVars, flat, vramRetries, workerRetries, state,
                    accepted>>
    BY <1>3
    DEF Flush, CancelAllBegin, Stop, vars, queueVars, memory, history
  <2>2. QED
    BY <2>1, ClientsKeep
<1>4. QED
  BY <1>1, <1>2, <1>3

(***************************************************************************)
(* The theorems                                                            *)
(***************************************************************************)

\* The invariant holds when the threads start ...
LEMMA ThreadsInitInv ==
  ASSUME DispatcherInit
  PROVE  ThreadsInv
<1>1. QueueInv
  BY QueueInitInv DEF DispatcherInit
<1>2. /\ pc = [t \in Worker |-> "loop"] /\ flat = [j \in Job |-> 0]
      /\ state = [j \in Job |-> "none"]
  BY DEF DispatcherInit, QueueInit
<1>3. DispatcherTypeOK
  BY DEF DispatcherInit, DispatcherTypeOK, Label
<1>4. /\ JobsInHand /\ HeldRuns /\ HeldOnce /\ NoneForgotten /\ RetriesLeft
      /\ NotFlatYet
  BY <1>2
  DEF JobsInHand, HeldRuns, HeldOnce, NoneForgotten, RetriesLeft, NotFlatYet,
      Busy, Holding
<1>5. FlatIsOver
  BY <1>2, WorkerAssumption DEF FlatIsOver
<1>6. QED
  BY <1>1, <1>3, <1>4, <1>5 DEF ThreadsInv

\* ... and no step of a thread, a client or cancel_all() breaks it.
LEMMA ThreadsStepKeeps ==
  ASSUME ThreadsInv, [DispatcherNext]_vars
  PROVE  ThreadsInv'
<1>1. QueueInv' /\ DispatcherTypeOK'
  BY QueueStays, ThreadsStepType
<1>2. ASSUME NEW t \in Worker, ThreadStep(t)
      PROVE  ThreadsInv'
  <2>1. CASE TakePicked(t)
    BY <1>1, <2>1, TakePickedKeeps
  <2>2. CASE RequeueSucceeds(t)
    BY <1>1, <2>2, RequeueSucceedsKeeps
  <2>3. CASE FinishJob(t)
    BY <1>1, <2>3, FinishJobKeeps
  <2>4. CASE RetryVram(t)
    BY <1>1, <2>4, RetryVramKeeps
  <2>5. QED
    BY <1>1, <1>2, <2>1, <2>2, <2>3, <2>4, LocalStepsKeep DEF ThreadStep
<1>3. ASSUME NEW j \in Job, Cancel(j)
      PROVE  ThreadsInv'
  BY <1>1, <1>3, CancelKeeps
<1>4. CASE FlushStep
  BY <1>1, <1>4, FlushStepKeeps
<1>5. CASE \/ \E j \in Job : Submit(j) \/ FlushNotify(j)
           \/ Flush \/ Stop \/ UNCHANGED vars
  BY <1>1, <1>5, ClientStepsKeep
<1>6. QED
  BY <1>2, <1>3, <1>4, <1>5 DEF DispatcherNext

\* The invariant behind the theorems below holds at every step.
LEMMA ThreadsInvariant == DispatcherSpec => []ThreadsInv
<1>1. DispatcherInit => ThreadsInv
  BY ThreadsInitInv
<1>2. ThreadsInv /\ [DispatcherNext]_vars => ThreadsInv'
  BY ThreadsStepKeeps
<1>3. QED
  BY <1>1, <1>2, PTL DEF DispatcherSpec

\* A running job has exactly one thread and every other job none, for any
\* number of threads and jobs, whatever manager.generate() returns and however
\* picks, requeues and cancels interleave (_loop, _run_job).
THEOREM OneThreadPerRunningJob == DispatcherSpec => []DispatcherConsistent
<1>1. ASSUME ThreadsInv
      PROVE  DispatcherConsistent
  <2>0. HeldRuns /\ HeldOnce /\ NoneForgotten /\ DispatcherTypeOK
    BY <1>1 DEF ThreadsInv
  <2> SUFFICES ASSUME NEW j \in Job
               PROVE  Cardinality({t \in Worker : pc[t] \in Holding /\ cur[t] = j})
                        = IF state[j] = "running" THEN 1 ELSE 0
    BY <2>0 DEF DispatcherConsistent, RunningHasOneThread
  <2> DEFINE H == {t \in Worker : pc[t] \in Holding /\ cur[t] = j}
  <2>1. CASE state[j] = "running"
    <3>1. PICK t \in Worker : pc[t] \in Holding /\ cur[t] = j
      BY <2>0, <2>1 DEF NoneForgotten, Holds
    <3>2. H = {t}
      BY <2>0, <3>1 DEF HeldOnce
    <3>3. Cardinality({t}) = 1
      BY FS_Singleton
    <3>4. QED
      BY <2>1, <3>2, <3>3
  <2>2. CASE state[j] # "running"
    <3>1. H = {}
      BY <2>0, <2>2 DEF HeldRuns
    <3>2. Cardinality({}) = 0
      BY FS_EmptySet
    <3>3. QED
      BY <2>2, <3>1, <3>2
  <2>3. QED
    BY <2>1, <2>2
<1>2. QED
  BY <1>1, ThreadsInvariant, PTL

\* The threads use the queue as JobQueue allows, retry limits included: what
\* is proved of the queue by itself holds under the dispatcher.
THEOREM ThreadsUseQueue == DispatcherSpec => UsesQueue
<1>1. DispatcherInit => QueueInit
  BY DEF DispatcherInit
<1>2. ThreadsInv /\ [DispatcherNext]_vars => [QueueNext]_queueVars
  BY StepUsesQueue
<1>3. QED
  BY <1>1, <1>2, ThreadsInvariant, PTL DEF DispatcherSpec, UsesQueue, QueueSpec

\* A job that FlatMax fruitless evictions in a row could not help never goes
\* back to the queue (VRAM_FLAT_RETRY_MAX).
THEOREM FlatJobsStayOut == DispatcherSpec => []FlatJobsAreNotRetried
<1>1. ThreadsInv => FlatJobsAreNotRetried
  BY DEF ThreadsInv, FlatIsOver, FlatJobsAreNotRetried
<1>2. QED
  BY <1>1, ThreadsInvariant, PTL

(***************************************************************************)
(* The affinity cuts                                                       *)
(***************************************************************************)

\* The threads that compared the head's cuts and have not counted theirs yet.
Cutters(j) == {t \in Worker : pc[t] = "cut" /\ cutHead[t] = j}

\* With them counted, no head is past the limit by more than the other threads.
CutsInv ==
  \A j \in Job :
    cuts[j] + Cardinality(Cutters(j)) <= MaxCuts + Cardinality(Worker) - 1

\* Threads are few, and those about to cut are some of them.
LEMMA CuttersFinite ==
  ASSUME NEW j
  PROVE  /\ IsFiniteSet(Cutters(j)) /\ Cardinality(Cutters(j)) \in Nat
         /\ Cardinality(Cutters(j)) <= Cardinality(Worker)
         /\ Cardinality(Worker) \in Nat \ {0}
<1>1. IsFiniteSet(Worker) /\ Cardinality(Worker) \in Nat \ {0}
  BY WorkerAssumption, BoundAssumption
<1>2. Cutters(j) \subseteq Worker
  BY DEF Cutters
<1>3. QED
  BY <1>1, <1>2, FS_Subset, FS_CardinalityType

\* pick_next() reads the count below the limit, and each thread that read the
\* same adds at most one: the inequality is inductive.
LEMMA CutsStep ==
  ASSUME ThreadsInv, ThreadsInv', CutsInv, [DispatcherNext]_vars
  PROVE  CutsInv'
<1>0. /\ DispatcherTypeOK /\ DispatcherTypeOK' /\ JobsInHand
      /\ ToSet(queued) \subseteq Job
  BY DEF ThreadsInv, QueueInv, QueueConsistent
<1> USE WorkerAssumption
<1>a. ASSUME UNCHANGED cuts, \A j \in Job : Cutters(j)' \subseteq Cutters(j)
      PROVE  CutsInv'
  <2> SUFFICES ASSUME NEW j \in Job
               PROVE  cuts'[j] + Cardinality(Cutters(j)')
                        <= MaxCuts + Cardinality(Worker) - 1
    BY DEF CutsInv
  <2> PICK new : new = Cutters(j)'
    OBVIOUS
  <2>1. /\ Cardinality(new) <= Cardinality(Cutters(j))
        /\ Cardinality(new) \in Nat
    BY <1>a, CuttersFinite, FS_Subset, FS_CardinalityType
  <2>2. /\ cuts[j] \in Nat /\ Cardinality(Cutters(j)) \in Nat
        /\ Cardinality(Worker) \in Nat /\ MaxCuts \in Nat
    BY <1>0, CuttersFinite DEF DispatcherTypeOK
  <2>3. cuts[j] + Cardinality(Cutters(j)) <= MaxCuts + Cardinality(Worker) - 1
    BY DEF CutsInv
  <2>4. QED
    BY <1>a, <2>1, <2>2, <2>3
<1>1. ASSUME NEW t \in Worker, Cut(t)
      PROVE  CutsInv'
  <2> PICK h : h = cutHead[t]
    OBVIOUS
  <2>1. /\ pc[t] = "cut" /\ h \in Job /\ cuts' = [cuts EXCEPT ![h] = @ + 1]
        /\ Goto(t, "fits") /\ UNCHANGED cutHead
    BY <1>0, <1>1 DEF Cut, JobsInHand
  <2>2. pc'[t] = "fits" /\ \A u \in Worker \ {t} : pc'[u] = pc[u]
    BY <1>0, <2>1, GotoType DEF Label
  <2>3. t \in Cutters(h)
    BY <2>1 DEF Cutters
  <2>4. Cutters(h)' = Cutters(h) \ {t}
    BY <2>1, <2>2 DEF Cutters
  <2>5. \A j \in Job \ {h} : Cutters(j)' = Cutters(j)
    BY <2>1, <2>2 DEF Cutters
  <2>6. Cardinality(Cutters(h) \ {t}) = Cardinality(Cutters(h)) - 1
    BY <2>3, CuttersFinite, FS_RemoveElement
  <2>7. ASSUME NEW j \in Job
        PROVE  cuts'[j] + Cardinality(Cutters(j)')
                 <= MaxCuts + Cardinality(Worker) - 1
    <3>1. /\ cuts[j] \in Nat /\ Cardinality(Cutters(j)) \in Nat
          /\ Cardinality(Worker) \in Nat /\ MaxCuts \in Nat
          /\ cuts[j] + Cardinality(Cutters(j)) <= MaxCuts + Cardinality(Worker) - 1
      BY <1>0, CuttersFinite DEF DispatcherTypeOK, CutsInv
    <3> PICK new : new = Cutters(j)'
      OBVIOUS
    <3>2. CASE j = h
      <4>1. Cardinality(new) = Cardinality(Cutters(j)) - 1
        BY <2>4, <2>6, <3>2
      <4>2. cuts'[j] = cuts[j] + 1
        BY <1>0, <2>1, <3>2 DEF DispatcherTypeOK
      <4>3. QED
        BY <3>1, <4>1, <4>2
    <3>3. CASE j # h
      <4>1. new = Cutters(j) /\ cuts'[j] = cuts[j]
        BY <1>0, <2>1, <2>5, <3>3 DEF DispatcherTypeOK
      <4>2. QED
        BY <3>1, <4>1
    <3>4. QED
      BY <3>2, <3>3
  <2>8. QED
    BY <2>7 DEF CutsInv
<1>2. ASSUME NEW t \in Worker, Pick(t)
      PROVE  CutsInv'
  <2>0. UNCHANGED cuts /\ pc[t] = "claim"
    BY <1>2 DEF Pick
  <2>1. PICK head \in Band :
          \/ Goto(t, "fits") /\ UNCHANGED cutHead
          \/ /\ ~CutsExhausted(head) /\ Goto(t, "cut")
             /\ cutHead' = [cutHead EXCEPT ![t] = head]
    BY <1>2 DEF Pick
  <2>2. head \in Job
    BY <1>0 DEF Band, Eligible
  <2>3. CASE Goto(t, "fits") /\ UNCHANGED cutHead
    <3>1. pc'[t] = "fits" /\ \A u \in Worker \ {t} : pc'[u] = pc[u]
      BY <1>0, <2>3, GotoType DEF Label
    <3>2. \A j \in Job : Cutters(j)' \subseteq Cutters(j)
      BY <2>3, <3>1 DEF Cutters
    <3>3. QED
      BY <1>a, <2>0, <3>2
  <2>4. CASE /\ ~CutsExhausted(head) /\ Goto(t, "cut")
             /\ cutHead' = [cutHead EXCEPT ![t] = head]
    <3>1. pc'[t] = "cut" /\ \A u \in Worker \ {t} : pc'[u] = pc[u]
      BY <1>0, <2>4, GotoType DEF Label
    <3>2. \A u \in Worker : cutHead'[u] = IF u = t THEN head ELSE cutHead[u]
      BY <1>0, <2>4 DEF DispatcherTypeOK
    <3>3. ASSUME NEW j \in Job
          PROVE  cuts'[j] + Cardinality(Cutters(j)')
                   <= MaxCuts + Cardinality(Worker) - 1
      <4>1. /\ cuts[j] \in Nat /\ Cardinality(Cutters(j)) \in Nat
            /\ Cardinality(Worker) \in Nat \ {0} /\ MaxCuts \in Nat
            /\ IsFiniteSet(Worker)
            /\ cuts[j] + Cardinality(Cutters(j))
                 <= MaxCuts + Cardinality(Worker) - 1
        BY <1>0, CuttersFinite DEF DispatcherTypeOK, CutsInv
      <4> PICK new : new = Cutters(j)'
        OBVIOUS
      <4>2. CASE j = head
        <5>1. new \subseteq Worker
          BY DEF Cutters
        <5>2. Cardinality(new) \in Nat /\ Cardinality(new) <= Cardinality(Worker)
          BY <4>1, <5>1, FS_Subset, FS_CardinalityType
        <5>3. cuts[j] < MaxCuts
          BY <2>4, <4>1, <4>2 DEF CutsExhausted
        <5>4. QED
          BY <2>0, <4>1, <5>2, <5>3
      <4>3. CASE j # head
        <5>1. new = Cutters(j)
          BY <2>0, <3>1, <3>2, <4>3 DEF Cutters
        <5>2. QED
          BY <2>0, <4>1, <5>1
      <4>4. QED
        BY <4>2, <4>3
    <3>4. QED
      BY <3>3 DEF CutsInv
  <2>5. QED
    BY <2>1, <2>3, <2>4
<1>3. ASSUME NEW t \in Worker, ThreadStep(t), ~Cut(t), ~Pick(t)
      PROVE  CutsInv'
  <2>1. UNCHANGED cuts
    BY <1>3
    DEF ThreadStep, FindsWork, PicksNothing, Fits, DoesNotFit, TakePicked,
        TakeFails, RunCancelled, RunStarts, GenerateReturns, RetryWorker,
        RetryVram, BackoffEnds, BackoffInterrupted, RequeueSucceeds,
        RequeueRefused, GiveUp, FinishJob, NotifyJob, Exit
  <2>2. \/ Release(t)
        \/ (\E l \in Label \ {"cut"} : Goto(t, l)) /\ UNCHANGED cutHead
    BY <1>3
    DEF ThreadStep, FindsWork, PicksNothing, Fits, DoesNotFit, TakePicked,
        TakeFails, RunCancelled, RunStarts, GenerateReturns, RetryWorker,
        RetryVram, BackoffEnds, BackoffInterrupted, RequeueSucceeds,
        RequeueRefused, GiveUp, FinishJob, NotifyJob, Exit, Label
  <2>3. /\ pc'[t] # "cut"
        /\ \A u \in Worker \ {t} : pc'[u] = pc[u] /\ cutHead'[u] = cutHead[u]
    <3>1. CASE Release(t)
      BY <1>0, <3>1, ReleaseType
    <3>2. CASE ~Release(t)
      BY <1>0, <2>2, <3>2, GotoType
    <3>3. QED
      BY <3>1, <3>2
  <2>4. \A j \in Job : Cutters(j)' \subseteq Cutters(j)
    BY <2>3 DEF Cutters
  <2>5. QED
    BY <1>a, <2>1, <2>4
<1>4. CASE \/ \E j \in Job : Submit(j) \/ Cancel(j) \/ FlushNotify(j)
           \/ Flush \/ FlushStep \/ Stop \/ UNCHANGED vars
  <2>1. UNCHANGED <<pc, cutHead, cuts>>
    BY <1>4
    DEF Submit, Cancel, FlushNotify, Flush, FlushStep, Stop, vars, threadVars
  <2>2. \A j \in Job : Cutters(j)' \subseteq Cutters(j)
    BY <2>1 DEF Cutters
  <2>3. QED
    BY <1>a, <2>1, <2>2
<1>5. QED
  BY <1>1, <1>2, <1>3, <1>4 DEF DispatcherNext

\* A head is jumped at most MaxCuts times plus once for each other thread,
\* whose comparison may be out of date when it counts its cut: the bound TLC
\* finds for two threads holds for any number of them (pick_next).
THEOREM CutsAreBounded == DispatcherSpec => []CutsWithinStaleMax
<1>1. DispatcherInit => CutsInv
  <2> SUFFICES ASSUME DispatcherInit, NEW j \in Job
               PROVE  cuts[j] + Cardinality(Cutters(j))
                        <= MaxCuts + Cardinality(Worker) - 1
    BY DEF CutsInv
  <2>1. Cutters(j) = {} /\ cuts[j] = 0
    BY DEF DispatcherInit, Cutters
  <2>2. Cardinality({}) = 0
    BY FS_EmptySet
  <2>3. QED
    BY <2>1, <2>2, CuttersFinite, WorkerAssumption
<1>2. ThreadsInv /\ ThreadsInv' /\ CutsInv /\ [DispatcherNext]_vars => CutsInv'
  BY CutsStep
<1>3. ThreadsInv /\ CutsInv => CutsWithinStaleMax
  <2> SUFFICES ASSUME ThreadsInv, CutsInv, NEW j \in Job
               PROVE  cuts[j] <= MaxCuts + Cardinality(Worker) - 1
    BY DEF CutsWithinStaleMax
  <2>1. cuts[j] \in Nat
    BY DEF ThreadsInv, DispatcherTypeOK
  <2>2. cuts[j] + Cardinality(Cutters(j)) <= MaxCuts + Cardinality(Worker) - 1
    BY DEF CutsInv
  <2>3. QED
    BY <2>1, <2>2, CuttersFinite, WorkerAssumption
<1>4. QED
  BY <1>1, <1>2, <1>3, ThreadsInvariant, PTL DEF DispatcherSpec
=============================================================================
