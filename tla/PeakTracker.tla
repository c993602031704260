---------------------------- MODULE PeakTracker ----------------------------
(***************************************************************************)
(* Learning of VRAM peaks (src/vramd/learn.py): the tracker thread samples *)
(* the worker of each running job, writes one observation per job to the   *)
(* store and to memory, and judges the declared peak of the backend by     *)
(* them.  It looks at the queue twice a second: jobs start, end, are tried *)
(* again and are purged between its looks, and a client's reset() or a     *)
(* restart may fall between any two of its steps.                          *)
(*                                                                         *)
(* One backend is modelled; observations of others go to other files.      *)
(***************************************************************************)
EXTENDS Integers, Sequences, FiniteSets, SequencesExt, PeakDrift

CONSTANTS
  LearnJobs,
  Readings,     \* the VRAM a sample may read, in MiB
  Declared,     \* the peak the admission declares for the backend, in MiB
  MinSamples,   \* min_samples
  RecentCap,    \* recents_per_backend
  StoreCap,     \* max_per_backend
  MaxRequeues, MaxUpsets  \* bounds

ASSUME LearnAssumption ==
  /\ IsFiniteSet(LearnJobs) /\ Readings \subseteq Nat \ {0} /\ Declared \in Nat
  /\ MinSamples \in Nat \ {0} /\ RecentCap \in Nat \ {0}
  /\ StoreCap \in Nat /\ StoreCap >= RecentCap
  /\ MaxRequeues \in Nat /\ MaxUpsets \in Nat

-----------------------------------------------------------------------------
VARIABLES
  job,       \* the queue's view of each job, or how it had ended when the queue forgot it
  active,    \* _active: what has been sampled of each job so far
  snap,      \* the running jobs of this tick
  tick,      \* where the tracker is
  cur,       \* the job it finalises or samples
  recents,   \* _recents of the backend
  store,     \* its JSONL file
  verdict,   \* _last_verdict
  torn,      \* history: a reset or a failed append parted memory and store
  requeues, resets, restarts

jobVars == <<job, requeues>>
learnVars == <<jobVars, active, snap, tick, cur, recents, store, verdict, torn, resets, restarts>>

\* old: history, a sample was taken before the last reset.
Untracked == [tracked |-> FALSE, peak |-> 0, old |-> FALSE]
NoCur == [j |-> "none", peak |-> 0, old |-> FALSE, obs |-> <<>>, verdict |-> "no_data"]

LearnInit ==
  /\ job = [j \in LearnJobs |-> "queued"]
  /\ active = [j \in LearnJobs |-> Untracked]
  /\ snap = {} /\ tick = "wait" /\ cur = NoCur
  /\ recents = <<>> /\ store = <<>> /\ verdict = "no_data"
  /\ torn = FALSE /\ requeues = 0 /\ resets = 0 /\ restarts = 0

\* Of a job it has purged the queue no longer tells how it ended.
Purged(end) == IF end = "done" THEN "done_purged" ELSE "error_purged"
Forgotten == {"done_purged", "error_purged"}

\* What the dispatcher and the queue do meanwhile.
JobMoves(j) ==
  /\ \/ job[j] = "queued" /\ job' = [job EXCEPT ![j] = "running"] /\ UNCHANGED requeues
     \/ job[j] = "running" /\ \E end \in {"done", "error"} : job' = [job EXCEPT ![j] = end]
        /\ UNCHANGED requeues
     \/ /\ job[j] = "running" /\ requeues < MaxRequeues
        /\ job' = [job EXCEPT ![j] = "queued"] /\ requeues' = requeues + 1
     \/ job[j] \in {"done", "error"} /\ job' = [job EXCEPT ![j] = Purged(job[j])] /\ UNCHANGED requeues
  /\ UNCHANGED <<active, snap, tick, cur, recents, store, verdict, torn, resets, restarts>>

\* _tick(): a snapshot of the running jobs; a failed one skips the tick.
TickBegins ==
  /\ tick = "wait"
  /\ snap' = {j \in LearnJobs : job[j] = "running"}
  /\ tick' = "finalize"
  /\ UNCHANGED <<jobVars, active, cur, recents, store, verdict, torn, resets, restarts>>

EndedKnown == {j \in LearnJobs : active[j].tracked /\ j \notin snap /\ job[j] \notin Forgotten}
Ended == {j \in LearnJobs : active[j].tracked /\ j \notin snap}

\* _finalize(): takes the job out of _active; one without samples is dropped ...
FinalizePops(j) ==
  /\ tick = "finalize" /\ j \in Ended
  /\ active' = [active EXCEPT ![j] = Untracked]
  /\ IF active[j].peak = 0
       THEN UNCHANGED <<tick, cur>>
       ELSE /\ tick' = "popped"
            /\ cur' = [NoCur EXCEPT !.j = j, !.peak = active[j].peak, !.old = active[j].old]
  /\ UNCHANGED <<jobVars, snap, recents, store, verdict, torn, resets, restarts>>

IsOkAlways(state) == TRUE
\* A job the queue has forgotten counts as done, however it ended.
IsOk(state) == state = "done" \/ state \in Forgotten

Capped(obs, cap) == IF Len(obs) > cap THEN SubSeq(obs, Len(obs) - cap + 1, Len(obs)) ELSE obs

\* History: what became of the run that was sampled; a failed job that is forgotten is
\* not seen to have failed.
EndOf(state) ==
  IF state \in {"queued", "running"} THEN "not_over"
  ELSE IF state \in {"done", "done_purged"} THEN "well"
  ELSE IF state = "error" THEN "failed" ELSE "failed_unseen"

FinalizePersistsAll ==
  /\ tick = "popped"
  /\ LET obs == [peak |-> cur.peak, old |-> cur.old,
                 ok |-> IsOk(job[cur.j]), end |-> EndOf(job[cur.j])] IN
     /\ cur' = [cur EXCEPT !.obs = obs]
     /\ \/ store' = Append(store, obs) /\ UNCHANGED torn
        \/ UNCHANGED store /\ torn' = TRUE
  /\ tick' = "persisted"
  /\ UNCHANGED <<jobVars, active, snap, recents, verdict, resets, restarts>>
\* ... its observation, with the state the job has by now, goes to the file,
\* where the append may fail ...
FinalizePersists ==
  /\ tick = "popped"
  /\ LET obs == [peak |-> cur.peak, old |-> cur.old,
                 ok |-> IsOk(job[cur.j]), end |-> EndOf(job[cur.j])] IN
     /\ cur' = [cur EXCEPT !.obs = obs]
     /\ \/ store' = Capped(Append(store, obs), StoreCap) /\ UNCHANGED torn
        \/ UNCHANGED store /\ torn' = TRUE
  /\ tick' = "persisted"
  /\ UNCHANGED <<jobVars, active, snap, recents, verdict, resets, restarts>>

\* ... and to memory.
Remembered == [cur.obs EXCEPT !.old = cur.old]
FinalizeRemembersAll ==
  /\ tick = "persisted"
  /\ recents' = Append(recents, Remembered)
  /\ tick' = "judge"
  /\ UNCHANGED <<jobVars, active, snap, cur, store, verdict, torn, resets, restarts>>
FinalizeRemembers ==
  /\ tick = "persisted"
  /\ recents' = Capped(Append(recents, Remembered), RecentCap)
  /\ tick' = "judge"
  /\ UNCHANGED <<jobVars, active, snap, cur, store, verdict, torn, resets, restarts>>

\* _maybe_drift(): the report is made, and then compared with the last verdict.
OkPeaks(obs) ==
  LET upTo[n \in 0..Len(obs)] ==
        IF n = 0 THEN <<>>
        ELSE IF obs[n].ok THEN Append(upTo[n - 1], obs[n].peak) ELSE upTo[n - 1]
  IN upTo[Len(obs)]
FinalizeReports ==
  /\ tick = "judge"
  /\ tick' = "tell"
  /\ cur' = [cur EXCEPT !.verdict = Drift(OkPeaks(recents), Declared, MinSamples).verdict]
  /\ UNCHANGED <<jobVars, active, snap, recents, store, verdict, torn, resets, restarts>>

FinalizeTells ==
  /\ tick = "tell"
  /\ verdict' = cur.verdict
  /\ tick' = "finalize" /\ cur' = NoCur
  /\ UNCHANGED <<jobVars, active, snap, recents, store, torn, resets, restarts>>

\* The running jobs, one by one: _begin() for a new one ...
ScanPicks(j) ==
  /\ \/ tick = "finalize" /\ Ended = {}
     \/ tick = "scan"
  /\ j \in snap
  /\ active' = [active EXCEPT ![j].tracked = TRUE]
  /\ tick' = "sample" /\ cur' = [NoCur EXCEPT !.j = j]
  /\ UNCHANGED <<jobVars, snap, recents, store, verdict, torn, resets, restarts>>

\* ... and a sample, which may fail (0), and which is lost when reset() has dropped
\* the job since.
Sample ==
  LET j == cur.j IN
  /\ tick = "sample"
  /\ \E mib \in Readings \cup {0} :
       active' = IF active[j].tracked /\ mib > active[j].peak
                 THEN [active EXCEPT ![j].peak = mib] ELSE active
  /\ snap' = snap \ {j} /\ tick' = "scan" /\ cur' = NoCur
  /\ UNCHANGED <<jobVars, recents, store, verdict, torn, resets, restarts>>

TickEnds ==
  /\ \/ tick = "finalize" /\ Ended = {} /\ snap = {}
     \/ tick = "scan" /\ snap = {}
  /\ tick' = "wait"
  /\ UNCHANGED <<jobVars, active, snap, cur, recents, store, verdict, torn, resets, restarts>>

\* reset(): a client forgets what was learned, in memory and on disk.  A job between
\* _active and the store escapes it.
MidFinalize == tick \in {"popped", "persisted", "judge", "tell"}
ResetKeepsActive ==
  /\ resets + restarts < MaxUpsets
  /\ recents' = <<>> /\ store' = <<>> /\ verdict' = "no_data"
  /\ active' = [j \in LearnJobs |-> [active[j] EXCEPT !.old = active[j].peak > 0]]
  /\ torn' = (torn \/ MidFinalize)
  /\ cur' = [cur EXCEPT !.old = TRUE]
  /\ resets' = resets + 1
  /\ UNCHANGED <<jobVars, snap, tick, restarts>>
ResetKeepsVerdict ==
  /\ resets + restarts < MaxUpsets
  /\ recents' = <<>> /\ store' = <<>>
  /\ active' = [j \in LearnJobs |-> Untracked]
  /\ torn' = (torn \/ MidFinalize)
  /\ cur' = [cur EXCEPT !.old = TRUE]
  /\ resets' = resets + 1
  /\ UNCHANGED <<jobVars, snap, tick, restarts, verdict>>
Reset ==
  /\ resets + restarts < MaxUpsets
  /\ recents' = <<>> /\ store' = <<>> /\ verdict' = "no_data"
  /\ active' = [j \in LearnJobs |-> Untracked]
  /\ torn' = (torn \/ MidFinalize)
  /\ cur' = [cur EXCEPT !.old = TRUE]
  /\ resets' = resets + 1
  /\ UNCHANGED <<jobVars, snap, tick, restarts>>

\* The supervisor dies and a new one reads the store.
LearnRestart ==
  /\ resets + restarts < MaxUpsets
  /\ active' = [j \in LearnJobs |-> Untracked]
  /\ snap' = {} /\ tick' = "wait" /\ cur' = NoCur
  /\ recents' = Capped(store, RecentCap) /\ verdict' = "no_data"
  /\ torn' = FALSE /\ restarts' = restarts + 1
  /\ UNCHANGED <<jobVars, store, resets>>

TrackerStep ==
  \/ TickBegins \/ FinalizePersists \/ FinalizeRemembers \/ FinalizeReports \/ FinalizeTells
  \/ Sample \/ TickEnds
  \/ \E j \in LearnJobs : FinalizePops(j) \/ ScanPicks(j)
LearnNext ==
  \/ TrackerStep
  \/ Reset \/ LearnRestart
  \/ \E j \in LearnJobs : JobMoves(j)
LearnSpec == LearnInit /\ [][LearnNext]_learnVars /\ WF_learnVars(TrackerStep)

-----------------------------------------------------------------------------
Observations == [peak : Readings, old : BOOLEAN, ok : BOOLEAN,
                 end : {"not_over", "well", "failed", "failed_unseen"}]

\* Every variable keeps its type, and no list grows past its cap.
LearnTypeOK ==
  /\ recents \in Seq(Observations) /\ Len(recents) <= RecentCap
  /\ store \in Seq(Observations) /\ Len(store) <= StoreCap
  /\ verdict \in {"no_data", "ok", "underprovisioned", "overprovisioned"}
  /\ snap \subseteq LearnJobs
  /\ \A j \in LearnJobs : active[j].peak \in Readings \cup {0}

\* Memory and disk tell the same story between two ticks: what the supervisor
\* judges by is what a restarted one would read, unless a reset or a failed
\* append fell into the finalising of a job.
RecentsAreStored == tick = "wait" /\ ~torn => recents = Capped(store, RecentCap)

\* What can be seen not to have ended well never speaks for the peak: a job that failed,
\* or that a stop or a failed batch put back on the queue while it was being sampled; and
\* what ended well always does.  Not every failure is seen: one that the queue has purged
\* before the tracker asks for its state judges like a success, which is not what the
\* comments on ok and on the verdict say (learn.py:72-73, 246-249).
SeenFailuresDoNotJudge ==
  \A i \in DOMAIN recents : recents[i].ok <=> recents[i].end \in {"well", "failed_unseen"}

\* reset() forgets: of all that was sampled before it, at most the one job that was
\* already between _active and the store is learned after it.
AtMostOneOld(obs) == \A i, k \in DOMAIN obs : obs[i].old /\ obs[k].old => i = k
OneEscapesReset ==
  /\ AtMostOneOld(recents)
  /\ resets = 0 => \A i \in DOMAIN recents : ~recents[i].old

\* The verdict the alarm compares with is the verdict on what is remembered: a
\* restarted tracker has none until its first observation, and no reset leaves
\* one behind that would swallow the next alarm.
VerdictIsCurrent ==
  tick = "wait" /\ ~torn =>
    \/ verdict = Drift(OkPeaks(recents), Declared, MinSamples).verdict
    \/ restarts > 0 /\ verdict = "no_data"

\* What the tracker has learned is what jobs showed since the last reset that could
\* not be seen to have failed: in memory, on disk, and in the verdict it compares with.
LearningConsistent ==
  LearnTypeOK /\ RecentsAreStored /\ SeenFailuresDoNotJudge /\ OneEscapesReset /\ VerdictIsCurrent

\* Every tracked job whose run is over is finalised, the purged ones too: _active
\* does not grow for ever.
EndedJobsAreObserved ==
  \A j \in LearnJobs :
    active[j].tracked /\ job[j] \in {"done", "error"} \cup Forgotten ~> ~active[j].tracked
=============================================================================
