---------------------------- MODULE Measurement ----------------------------
(***************************************************************************)
(* From the samples of a calibration run to the descriptor the admission   *)
(* reads (src/vramd/calibrate: sampler.py, analysis.py, emit.py; the label *)
(* of cli.py; the overlay of registry.py).  VRAM in MiB, GiB in            *)
(* hundredths; the warnings that only inform a reader are left out.        *)
(*                                                                         *)
(* A sample is a record with t, self, foreign, seen (the driver reported   *)
(* one of the worker's processes) and tracked (there was one to report).   *)
(***************************************************************************)
EXTENDS Admission

(* slice_window(), with the two bisections as they run on any series. *)

\* What is left to search is so long and starts at lo.
Bisect(right) ==
  LET n == Len(right)
      find[left \in 0..n] ==
        [lo \in 0..n - left |->
           IF left = 0 THEN lo
           ELSE LET half == left \div 2 IN
                IF right[lo + half + 1] THEN find[left - half - 1][lo + half + 1] ELSE find[half][lo]]
  IN find[n][0]
Slice(samples, from, to) ==
  SubSeq(samples, Bisect([i \in DOMAIN samples |-> samples[i].t < from]) + 1,
                  Bisect([i \in DOMAIN samples |-> samples[i].t <= to]))

(* summarize_window(): what the analysis takes of a window. *)

SelfOf(window) == [i \in DOMAIN window |-> window[i].self]
ForeignOf(window) == [i \in DOMAIN window |-> window[i].foreign]
\* The value at place k of sorted(values): the least with k values up to it.
Ranked(values, k) ==
  Min({v \in ToSet(values) : Cardinality({i \in DOMAIN values : values[i] <= v}) >= k})
Median(values) ==
  LET n == Len(values) IN
  IF n = 0 THEN 0
  ELSE IF n % 2 = 1 THEN Ranked(values, n \div 2 + 1)
  ELSE (Ranked(values, n \div 2) + Ranked(values, n \div 2 + 1)) \div 2
Highest(values) == Max({0} \cup ToSet(values))

RoundUp(mib) == ((mib + 63) \div 64) * 64
GibUp(mib) == (mib * 100 + 1023) \div 1024

-----------------------------------------------------------------------------
(* derive_calibration(): w holds the windows of a run by phase. *)

\* What stays after the unload is the context of the process, unless the unload gave
\* nothing back or the model was not there before it.
ResidentOf(w) == Median(SelfOf(w.loaded))
ResidualOf(w) == Min({Median(SelfOf(w.unloaded)), ResidentOf(w)})
UnloadIneffective(w) ==
  ResidentOf(w) > 0 /\ w.unloaded # <<>> /\ 10 * ResidualOf(w) >= 9 * ResidentOf(w)

\* The peaks of the repetitions; the first one warms up.
PeaksOf(w) ==
  LET seen == SelectSeq(w.generates, LAMBDA g : g # <<>>) IN [i \in DOMAIN seen |-> Highest(SelfOf(seen[i]))]
StablePeaks(w) == IF Len(PeaksOf(w)) >= 2 THEN Tail(PeaksOf(w)) ELSE PeaksOf(w)
Spread(peaks) == IF peaks = <<>> THEN 0 ELSE Highest(peaks) - Min(ToSet(peaks))
Unstable(peaks) == 10 * Spread(peaks) * Len(peaks) > FoldLeft(+, 0, peaks)

Contaminated(w) ==
  LET during == ToSet(w.load) \cup ToSet(w.loaded) \cup UNION {ToSet(g) : g \in ToSet(w.generates)} IN
  Max({0} \cup {s.foreign : s \in during}) - Median(ForeignOf(w.baseline)) > 64

\* Samples without data of the driver count from the first one with.
Missed(w) ==
  LET all  == w.baseline \o w.load \o w.loaded \o FlattenSeq(w.generates) \o FlattenSeq(w.settled)
              \o w.unloaded \o w.shutdown
      seen == {all[i].t : i \in {i \in DOMAIN all : all[i].seen}}
      from == SelectSeq(all, LAMBDA s : s.tracked /\ seen # {} /\ s.t >= Min(seen)) IN
  20 * Len(SelectSeq(from, LAMBDA s : ~s.seen)) > Len(from)

\* _confidence(); the gaps of the series, which take real time, are left out.
ConfidenceInAny(w) ==
  IF Missed(w) THEN "low"
  ELSE IF w.load = <<>> \/ w.unloaded = <<>> \/ UnloadIneffective(w) THEN "medium"
  ELSE IF Len(PeaksOf(w)) < 2 \/ Unstable(StablePeaks(w)) THEN "medium"
  ELSE "high"
Confidence(w) ==
  IF Contaminated(w) \/ Missed(w) THEN "low"
  ELSE IF w.load = <<>> \/ w.unloaded = <<>> \/ UnloadIneffective(w) THEN "medium"
  ELSE IF Len(PeaksOf(w)) < 2 \/ Unstable(StablePeaks(w)) THEN "medium"
  ELSE "high"

GeneratePeak(w) == Highest([n \in DOMAIN w.generates |-> Highest(SelfOf(w.generates[n]))])
DeriveInferenceOnly(w) ==
  LET resident == ResidentOf(w)
      context  == IF resident = 0 \/ UnloadIneffective(w) THEN 0 ELSE ResidualOf(w)
      generate == GeneratePeak(w) IN
  [resident |-> resident, context |-> context, weights |-> resident - context,
   activation |-> Largest2(0, generate - resident), generate_peak |-> generate,
   peak |-> Largest2(generate, resident),
   safety |-> RoundUp(Largest2(Safety, Spread(StablePeaks(w)))),
   unload_ineffective |-> UnloadIneffective(w), confidence |-> Confidence(w)]
Derive(w) ==
  LET resident == ResidentOf(w)
      context  == IF resident = 0 \/ UnloadIneffective(w) THEN 0 ELSE ResidualOf(w)
      generate == GeneratePeak(w) IN
  [resident |-> resident, context |-> context, weights |-> resident - context,
   activation |-> Largest2(0, generate - resident), generate_peak |-> generate,
   peak |-> Highest(<<Highest(SelfOf(w.load)), generate, resident>>),
   safety |-> RoundUp(Largest2(Safety, Spread(StablePeaks(w)))),
   unload_ineffective |-> UnloadIneffective(w), confidence |-> Confidence(w)]

-----------------------------------------------------------------------------
(* The descriptor. *)

\* calibrate_cmd: the quantization a measurement is labelled with.
LabelOf(kw) == FirstGiven(<<kw.sdnq_preset, kw.quant_preset, kw.quant_mode>>, "none")

\* calibration_to_descriptor(), laid over a descriptor that is there already: what the
\* new entry does not say stays.
Overlay(desc, cal, kw) ==
  LET kept == [key \in DOMAIN kw |->
                 IF kw[key] # NoKwargs[key] THEN kw[key] ELSE desc.profile.load_kwargs[key]] IN
  [desc EXCEPT
     !.vram_mib = RoundUp(cal.peak),
     !.measured = TRUE,
     !.vram = [weights |-> GibUp(cal.weights), activation |-> GibUp(cal.activation),
               context |-> GibUp(cal.context), peak_mib |-> RoundUp(cal.peak),
               safety_mib |-> cal.safety, admit_peak_mib |-> RoundUp(cal.peak + cal.safety)],
     !.profile = [desc.profile EXCEPT
       !.quant_mode = LabelOf(kw),
       !.load_kwargs = kept,
       !.unload_frees_vram = desc.profile.unload_frees_vram /\ ~cal.unload_ineffective]]
=============================================================================
