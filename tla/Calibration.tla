---------------------------- MODULE Calibration ----------------------------
(***************************************************************************)
(* A calibration run (src/vramd/calibrate/runner.py, sampler.py): the      *)
(* runner takes a backend through load, generate, unload and shutdown and  *)
(* marks the phases, with a sample at each mark; a second thread samples   *)
(* all the while.  A sample reads the clock and the processes to follow,   *)
(* then the driver, and goes into the series when it gets the lock: two    *)
(* samples can pass each other.  Meanwhile the worker allocates and forks, *)
(* and other processes use the card.                                       *)
(***************************************************************************)
EXTENDS Measurement

CONSTANTS
  Repeats, Cycles,       \* of the specification of the run
  RefreshEvery,          \* DEFAULT_PID_REFRESH_EVERY
  DriverReports,         \* the driver tells the memory of each process
  Resident,              \* what a worker holds with its model
  LoadPeaks, GenPeaks, ChildMib, Residuals,
  Others, MaxForeign,    \* what other processes hold, and what a run tolerates of it
  Kwargs, Descriptors,   \* kwargs a backend is calibrated with, and what is declared of it
  MaxLoopSamples, MaxDisturbances  \* bounds

ASSUME CalibrationAssumption ==
  /\ {Repeats, Cycles, RefreshEvery} \subseteq Nat \ {0}
  /\ DriverReports \in BOOLEAN
  /\ {Resident, ChildMib, MaxForeign} \cup LoadPeaks \cup GenPeaks \cup Residuals \cup Others \subseteq Nat
  /\ {MaxLoopSamples, MaxDisturbances} \subseteq Nat

\* Kwargs are records of these fields; descriptors have at least those a measurement is laid over.
ASSUME RecordsAssumption ==
  /\ \A kw \in Kwargs : DOMAIN kw = DOMAIN NoKwargs
  /\ \A desc \in Descriptors :
       /\ {"vram_mib", "measured", "vram", "footprint", "load_keys", "profile"} \subseteq DOMAIN desc
       /\ {"quant_mode", "load_kwargs", "group_offload_with_memory_efficient", "unload_frees_vram"}
            \subseteq DOMAIN desc.profile

VARIABLES
  at,        \* the step of Program the runner is at; 0 in the preflight
  op,        \* a call of the pool: "idle", "begun" or "high"
  root,      \* VRAM of the worker, NoProcess without one
  child,     \* VRAM of a process it has forked, or NoProcess
  foreign,   \* VRAM of the others
  clock,     \* how often the clock was read
  samples,   \* _samples
  marks,     \* _marks
  sampling,  \* the samples under way, by thread: t and pids
  tracked,   \* _tracked
  since,     \* _since_refresh
  unloads,   \* unload_windows
  result,    \* how the run ended
  loopSamples, foreignMoves, faults

worldVars == <<root, child, foreign, foreignMoves>>
seriesVars == <<clock, samples, sampling, tracked, since, loopSamples, faults>>
calibrationVars == <<at, op, worldVars, seriesVars, marks, unloads, result>>

NoProcess == -1
NotSampling == [t |-> 0, pids |-> {}, at |-> 0]
Running == result = "running"
Undisturbed == faults + foreignMoves < MaxDisturbances
None == [confidence |-> "none"]

\* run(): its marks and, in between, the calls of the pool; the first cycle finds the model
\* loaded.
Opening == <<"baseline_start", "baseline_end", "load_start", "LOAD", "load_end", "loaded_settled_end">>
Repetition == <<"gen_start", "GENERATE", "gen_end", "settled_end">>
UnloadCycle == <<"LOAD", "unload_start", "UNLOAD", "unloaded_end">>
Closing == <<"shutdown_start", "SHUTDOWN", "post_shutdown_end">>
Program ==
  LET generated == 6 + 4 * Repeats
      cycled    == generated + 4 * Cycles - 1 IN
  [i \in 1..cycled + 3 |->
     IF i <= 6 THEN [name |-> Opening[i], n |-> 1]
     ELSE IF i <= generated
       THEN [name |-> Repetition[((i - 7) % 4) + 1], n |-> ((i - 7) \div 4) + 1]
     ELSE IF i <= cycled
       THEN [name |-> UnloadCycle[((i - generated) % 4) + 1], n |-> ((i - generated) \div 4) + 1]
     ELSE [name |-> Closing[i - cycled], n |-> 1]]
Calls == {"LOAD", "GENERATE", "UNLOAD", "SHUTDOWN"}
Step == Program[at]
AtMark == at \in 1..Len(Program) /\ Step.name \notin Calls
AtCall == at \in 1..Len(Program) /\ Step.name \in Calls
Over == at > Len(Program)

CalibrationInit ==
  /\ at = 0 /\ op = "idle"
  /\ root = NoProcess /\ child = NoProcess /\ foreign \in Others
  /\ clock = 0 /\ samples = <<>> /\ marks = <<>>
  /\ sampling = [th \in {"runner", "loop"} |-> NotSampling]
  /\ tracked = {} /\ since = 0 /\ unloads = <<>> /\ result = "running"
  /\ loopSamples = 0 /\ foreignMoves = 0 /\ faults = 0

-----------------------------------------------------------------------------
(* sample_now(). *)

Alive == {p \in {"root", "child"} : (IF p = "root" THEN root ELSE child) # NoProcess}

\* _resolve_pids(): the worker and its descendants, found anew when nothing is followed
\* or after so many samples.  When the pool cannot tell, the old set stays.
DueAgain == since + 1 >= RefreshEvery \/ tracked = {}
KeepsCount(pids) == tracked' = pids /\ since' = since + 1
Keeps(pids) == tracked' = pids /\ since' = 0
Resolves ==
  IF ~DueAgain
    THEN since' = since + 1 /\ UNCHANGED <<tracked, faults>>
    ELSE \/ Keeps(Alive) /\ UNCHANGED faults
         \/ Undisturbed /\ faults' = faults + 1 /\ Keeps(tracked)

SampleBegins(th) ==
  /\ sampling[th] = NotSampling
  /\ clock' = clock + 1
  /\ Resolves
  /\ sampling' = [sampling EXCEPT ![th] = [t |-> clock + 1, pids |-> tracked', at |-> at]]

\* What a probe tells: the worker's processes, and the rest.
Mib(p) == IF p = "root" THEN root ELSE child
Vram(procs) == (IF "root" \in procs THEN root ELSE 0) + (IF "child" \in procs THEN child ELSE 0)
Reading(s, ok) ==
  LET told == IF ok /\ DriverReports THEN {p \in Alive : Mib(p) > 0} ELSE {} IN
  [t |-> s.t, at |-> s.at,
   self |-> Vram(told \cap s.pids),
   foreign |-> Vram(told \ s.pids) + (IF ok THEN foreign ELSE 0),
   seen |-> told \cap s.pids # {}, tracked |-> s.pids # {},
   told |-> ok, real |-> Vram(Alive)]

\* The probe may fail, and then tells nothing.
SampleEnds(th) ==
  /\ sampling[th] # NotSampling
  /\ \/ samples' = Append(samples, Reading(sampling[th], TRUE)) /\ UNCHANGED faults
     \/ /\ Undisturbed /\ faults' = faults + 1
        /\ samples' = Append(samples, Reading(sampling[th], FALSE))
  /\ sampling' = [sampling EXCEPT ![th] = NotSampling]
  /\ UNCHANGED <<clock, tracked, since>>

\* The loop thread, until it is told to stop.  Bound: it begins only while the pool is
\* at work; in between, what there is to read are the readings of the marks.
LoopBegins ==
  /\ Running /\ op # "idle" /\ loopSamples < MaxLoopSamples
  /\ loopSamples' = loopSamples + 1
  /\ SampleBegins("loop")
  /\ UNCHANGED <<at, op, worldVars, samples, marks, unloads, result>>
LoopEnds ==
  /\ Running /\ SampleEnds("loop")
  /\ UNCHANGED <<at, op, worldVars, loopSamples, marks, unloads, result>>

-----------------------------------------------------------------------------
(* The runner. *)

\* wait_until_drained() and preflight(): a card in use stops the run, unless forced.
Preflight ==
  /\ Running /\ at = 0
  /\ \/ at' = 1 /\ UNCHANGED result
     \/ foreign > MaxForeign /\ result' = "blocked" /\ UNCHANGED at
  /\ UNCHANGED <<op, worldVars, seriesVars, marks, unloads>>

\* The window of an unload is cut out right after its second mark.
AfterUnload == at \in 2..Len(Program) + 1 /\ Program[at - 1].name = "unloaded_end"
Waits == AfterUnload /\ Len(unloads) < Program[at - 1].n
TimeOf(name, n) == (CHOOSE m \in ToSet(marks) : m.name = name /\ m.n = n).t
Window(from, to, n) == Slice(samples, TimeOf(from, n), TimeOf(to, n))
CutsUnload ==
  /\ Running /\ Waits
  /\ unloads' = Append(unloads, Window("unload_start", "unloaded_end", Program[at - 1].n))
  /\ UNCHANGED <<at, op, worldVars, seriesVars, marks, result>>

\* start() takes a sample before the first mark; mark() takes one and puts the mark at
\* its time.
LoopIsGone == Over /\ sampling["loop"] = NotSampling
RunnerSamples ==
  /\ Running /\ (AtMark \/ LoopIsGone) /\ ~Waits
  /\ SampleBegins("runner")
  /\ UNCHANGED <<at, op, worldVars, samples, loopSamples, marks, unloads, result>>

MarkedLate == [name |-> Step.name, n |-> Step.n, at |-> at,
               t |-> IF sampling["loop"] # NotSampling THEN sampling["loop"].t ELSE clock]
Marked == [name |-> Step.name, n |-> Step.n, at |-> at, t |-> sampling["runner"].t]
Starts == at = 1 /\ samples = <<>>
MarkEnds ==
  /\ Running /\ AtMark
  /\ SampleEnds("runner")
  /\ marks' = IF Starts THEN marks ELSE Append(marks, Marked)
  /\ at' = IF Starts THEN at ELSE at + 1
  /\ UNCHANGED <<op, worldVars, loopSamples, unloads, result>>

-----------------------------------------------------------------------------
(* The pool and its worker, as the runner uses them. *)

CallBegins ==
  /\ Running /\ AtCall /\ op = "idle" /\ ~Waits
  /\ op' = "begun"
  /\ root' = IF Step.name = "LOAD" /\ root = NoProcess THEN 0 ELSE root
  /\ UNCHANGED <<at, child, foreign, foreignMoves, seriesVars, marks, unloads, result>>

\* The peak of a load or of a generate, perhaps with a forked process.
CallPeaks ==
  /\ Running /\ op = "begun"
  /\ \/ Step.name = "LOAD" /\ root' \in LoadPeaks /\ UNCHANGED child
     \/ Step.name = "GENERATE" /\ root' \in GenPeaks /\ child' \in {NoProcess, ChildMib}
  /\ op' = "high"
  /\ UNCHANGED <<at, foreign, foreignMoves, seriesVars, marks, unloads, result>>

CallReturns ==
  /\ Running
  /\ \/ op = "high" /\ root' = Resident
     \/ op = "begun" /\ Step.name = "UNLOAD" /\ root' \in (IF root = NoProcess THEN {NoProcess} ELSE Residuals)
     \/ op = "begun" /\ Step.name = "SHUTDOWN" /\ root' = NoProcess
  /\ child' = NoProcess /\ op' = "idle" /\ at' = at + 1
  /\ UNCHANGED <<foreign, foreignMoves, seriesVars, marks, unloads, result>>

\* The loads of the further cycles, the unloads and the shutdown are made without looking:
\* when one fails the worker keeps what it has, or is gone.
CallIsLost ==
  /\ Running /\ op = "begun" /\ Undisturbed /\ faults' = faults + 1
  /\ Step.name \in {"UNLOAD", "SHUTDOWN"} \/ (Step.name = "LOAD" /\ Step.n > 1)
  /\ root' \in {root, NoProcess}
  /\ child' = NoProcess /\ op' = "idle" /\ at' = at + 1
  /\ UNCHANGED <<foreign, foreignMoves, clock, samples, sampling, tracked, since, loopSamples>>
  /\ UNCHANGED <<marks, unloads, result>>

\* A failed first load or generate ends the run without a result.
CallFails ==
  /\ Running /\ op # "idle" /\ Undisturbed /\ faults' = faults + 1
  /\ \/ Step.name = "GENERATE" \/ (Step.name = "LOAD" /\ Step.n = 1)
  /\ at' = Len(Program) + 1 /\ op' = "idle" /\ result' = "failed"
  /\ root' = NoProcess /\ child' = NoProcess
  /\ UNCHANGED <<foreign, foreignMoves, clock, samples, sampling, tracked, since, loopSamples, marks, unloads>>

ForeignMoves ==
  /\ Running /\ Undisturbed /\ foreignMoves' = foreignMoves + 1
  /\ \E mib \in Others : mib # foreign /\ foreign' = mib
  /\ UNCHANGED <<at, op, root, child, seriesVars, marks, unloads, result>>

-----------------------------------------------------------------------------
(* The end: stop() waits for the loop thread, with a limit, and takes a last sample when *)
(* that thread is gone; then the result.                                                  *)

StopsWhenFree ==
  /\ Running /\ Over /\ ~Waits
  /\ SampleEnds("runner")
  /\ result' = "measured"
  /\ UNCHANGED <<at, op, worldVars, loopSamples, marks, unloads>>
Stops ==
  /\ Running /\ Over /\ ~Waits
  /\ \/ SampleEnds("runner") /\ UNCHANGED loopSamples
     \/ sampling["loop"] # NotSampling /\ UNCHANGED seriesVars
  /\ result' = "measured"
  /\ UNCHANGED <<at, op, worldVars, marks, unloads>>

\* _build_windows(): the unload window with the least left over.
BestUnload ==
  LET left == [n \in DOMAIN unloads |-> Median(SelfOf(unloads[n]))] IN
  unloads[SelectInSeq(left, LAMBDA mib : mib = Min(ToSet(left)))]
Windows ==
  [baseline  |-> Window("baseline_start", "baseline_end", 1),
   load      |-> Window("load_start", "load_end", 1),
   loaded    |-> Window("load_end", "loaded_settled_end", 1),
   generates |-> [n \in 1..Repeats |-> Window("gen_start", "gen_end", n)],
   settled   |-> [n \in 1..Repeats |-> Window("gen_end", "settled_end", n)],
   unloaded  |-> BestUnload,
   shutdown  |-> Window("shutdown_start", "post_shutdown_end", 1)]

\* A worker that was never there to follow is not believed, whatever the rest says.
NeverObserved == \A i \in DOMAIN samples : ~samples[i].tracked /\ ~samples[i].seen
Calibrated ==
  IF NeverObserved THEN [Derive(Windows) EXCEPT !.confidence = "low"] ELSE Derive(Windows)

RunnerStep ==
  \/ Preflight \/ RunnerSamples \/ MarkEnds \/ CutsUnload
  \/ CallBegins \/ CallPeaks \/ CallReturns \/ Stops
CalibrationNext ==
  \/ RunnerStep \/ LoopBegins \/ LoopEnds \/ CallFails \/ CallIsLost \/ ForeignMoves

\* The runner goes on and its calls return; the loop thread may hang in a probe.
CalibrationSpec == CalibrationInit /\ [][CalibrationNext]_calibrationVars /\ WF_calibrationVars(RunnerStep)
-----------------------------------------------------------------------------
(* Properties. *)

\* Every variable keeps its type, and the processes to follow are looked up in time.
CalibrationTypeOK ==
  /\ at \in 0..Len(Program) + 1 /\ op \in {"idle", "begun", "high"}
  /\ result \in {"running", "blocked", "failed", "measured"}
  /\ tracked \subseteq {"root", "child"} /\ since \in 0..RefreshEvery - 1
  /\ Len(marks) <= Len(Program) /\ Len(unloads) <= Cycles
  /\ \A i \in DOMAIN samples : samples[i].t \in 1..clock

\* A mark parts what was sampled before it from what was sampled after it, wherever the
\* samples ended up in the series: its time is that of the runner's own sample, not of
\* one that the loop thread slipped in.
MarksSeparatePhases ==
  \A m \in ToSet(marks) :
    /\ \E s \in ToSet(samples) : s.t = m.t /\ s.at = m.at
    /\ \A s \in ToSet(samples) : (s.t < m.t => s.at <= m.at) /\ (s.t > m.t => s.at >= m.at)

\* The variables keep their types, and the phases do not run into each other.
CalibrationConsistent == CalibrationTypeOK /\ MarksSeparatePhases

InOrder == \A i, j \in DOMAIN samples : i < j => samples[i].t < samples[j].t
Measured == result = "measured" /\ InOrder
\* Samples of the first load and of the repetitions.
OfTheWork ==
  {s \in ToSet(samples) :
     s.at \in 1..Len(Program) /\ (Program[s.at].name = "GENERATE" \/ (Program[s.at].name = "LOAD" /\ Program[s.at].n = 1))}

\* A result that claims high confidence did not miss memory that a probe saw: at no
\* sample, taken while the worker loaded or generated, did its processes hold more than
\* the peak.  What is counted as foreign, as a child is until the processes are looked
\* up again, costs the confidence.  (The others must not have given memory back
\* meanwhile: that hides as much of a child.)
TrustedPeakIsTrue ==
  Measured /\ foreignMoves = 0 =>
    LET cal == Calibrated IN
    cal.confidence = "high" => \A s \in OfTheWork : s.told => s.real <= cal.peak + 64

\* The label that a calibration writes and the mode that the admission resolves from the
\* same kwargs are made by different code (cli.py:1658-1660, backend_manager.py:510-571),
\* and a measured block with another label than the mode is not used.  They agree when
\* - the names of the quantization contradict each other nowhere but behind an
\*   sdnq_preset, and one is given or the economic mode is not asked for by itself (it is
\*   resolved to sdnq-uint8, and labelled none);
\* - the placement is given, or neither the descriptor implies it by the economic mode nor
\*   an earlier calibration left one behind;
\* - the load is given them.
QuantsAgree(kw) ==
  /\ kw.sdnq_preset # Absent \/ kw.quant_mode = Absent \/ kw.quant_preset = Absent
       \/ kw.quant_mode = kw.quant_preset
  /\ (\A key \in {"sdnq_preset", "quant_mode", "quant_preset"} : kw[key] = Absent) =>
       kw.memory_efficient # "yes"
PlacementsAgree(old, kw) ==
  kw.allow_group_offload = Absent =>
    /\ old.profile.load_kwargs.allow_group_offload # "yes"
    /\ ~old.profile.group_offload_with_memory_efficient
Described(old, kw) == QuantsAgree(kw) /\ PlacementsAgree(old, kw) /\ ModeGetsThrough(old, kw)

\* Whatever descriptor a measurement is laid over: a job with the kwargs the backend was
\* calibrated with, if they are described as above, is admitted by the measurement, and
\* only where the VRAM covers every reading of the worker, at its load too.
AdmissionCoversReadings ==
  Measured =>
    LET cal == Calibrated IN
    \A kw \in Kwargs, old \in Descriptors :
      LET desc == Overlay(old, cal, kw) IN
      Described(old, kw) =>
        /\ Applies(desc, ModeOf(desc.profile, LoadKwargs(desc, kw)))
        /\ \A s \in OfTheWork : s.self > 0 => s.self <= LoadPeakOf(desc, kw)

\* Nor does a loaded model start to work without room for the activation that was
\* measured; the economic mode, when the calibration ran in it, is not discounted twice.
\* (When only the profile implies that mode, it is: see the README.)
HeadroomCoversActivation ==
  Measured =>
    LET cal == Calibrated IN
    \A kw \in Kwargs, old \in Descriptors :
      LET desc == Overlay(old, cal, kw)
          mode == ModeOf(desc.profile, kw)
          told == mode.mem => kw.memory_efficient = "yes" IN
      Described(old, kw) /\ told /\ ~mode.go /\ ~mode.streams =>
        cal.resident + Headroom(desc, mode) >= cal.generate_peak

\* What is measured is asked for: a job with described kwargs, cold or hot, is let in only
\* where there is room for all that a calibration saw such a job hold.
AdmissionCovers == AdmissionCoversReadings /\ HeadroomCoversActivation

\* What a calibration that never had a figure of the worker from the driver says, is not
\* trusted.
BlindIsNotTrusted ==
  result = "measured" /\ Calibrated.confidence # "low" => \E s \in ToSet(samples) : s.seen

\* A run that has passed the preflight comes to an end, even when a probe of the loop
\* thread never returns.
CalibrationEnds == at > 0 ~> result # "running"
=============================================================================
