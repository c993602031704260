----------------------------- MODULE PeakDrift -----------------------------
(***************************************************************************)
(* The judgement of learned VRAM peaks (src/vramd/learn.py): observed      *)
(* peaks against the peak the admission declares, in MiB, and what becomes *)
(* of its suggestion.                                                      *)
(***************************************************************************)
EXTENDS Admission

(* analyze_drift(): the verdict on a declared peak. *)

\* Python's round(): to the nearest, a half to the even one.
Rounded(hundredths) ==
  LET q == hundredths \div 100
      r == hundredths % 100 IN
  IF r > 50 \/ (r = 50 /\ q % 2 = 1) THEN q + 1 ELSE q
Percentile95(peaks) ==
  LET idx == Rounded(95 * (Len(peaks) - 1)) IN
  CHOOSE p \in ToSet(peaks) :
    /\ Cardinality({i \in DOMAIN peaks : peaks[i] < p}) <= idx
    /\ Cardinality({i \in DOMAIN peaks : peaks[i] <= p}) > idx
Largest(peaks) == Max(ToSet(peaks))

\* percent of x, rounded up to a multiple of 64 MiB.
RoundUpMib(x, percent) == ((x * percent + 6399) \div 6400) * 64

OverFactorFlat(p95) == 145
OverFactor(p95) == 125
Drift(peaks, declared, minSamples) ==
  LET p95 == Percentile95(peaks) IN
  IF Len(peaks) < minSamples
    THEN [verdict |-> "no_data", suggested |-> 0]
  ELSE IF p95 > declared
    THEN [verdict |-> "underprovisioned", suggested |-> RoundUpMib(p95, 115)]
  ELSE IF 10 * declared >= 14 * p95
    THEN [verdict |-> "overprovisioned",
          suggested |-> RoundUpMib(Largest(peaks), OverFactor(p95))]
  ELSE [verdict |-> "ok", suggested |-> 0]

\* _begin(): the peak a job is held to; streams_on_load is not asked for.
DeclaredPeak(desc, mode) == PeakVram(desc, [mode EXCEPT !.streams = FALSE])

\* learn_overlay_yaml(), from the next start on: the suggestion is the static peak of the
\* descriptor, from which the admission makes weights, activation and a safety.
Applied(desc, suggested) == [desc EXCEPT !.vram_mib = suggested]

\* Of a backend that says no more of itself than a static peak, and a job in the classic
\* mode, it is true of what the same peaks are judged to be under the suggestion: they
\* never exceed what is declared then, and they raise no alarm at all if the largest is
\* at least 2987 MiB.  (The safety is part of what is declared: under smaller peaks it
\* alone keeps the declared peak above 1.4 times of them.)
StaticOnly(desc) == ~desc.measured /\ ~FootprintKnown(desc)
Classic(mode) == mode.quant = "none" /\ ~mode.mem /\ ~mode.go
Settles(desc, mode, peaks, minSamples) ==
  LET suggested == Drift(peaks, DeclaredPeak(desc, mode), minSamples).suggested
      after == Drift(peaks, DeclaredPeak(Applied(desc, suggested), mode), minSamples).verdict IN
  suggested > 0 =>
    /\ after # "underprovisioned"
    /\ Largest(peaks) >= 2987 => after = "ok"
=============================================================================
