-------------------------- MODULE MeasuringProofs --------------------------
(***************************************************************************)
(* Proofs about what vramd measures and what it makes of it, for any jobs, *)
(* readings, caps, peaks and placements: the memory of what each job took, *)
(* the verdict on it, the run that calibrates a backend, and the room an   *)
(* admission asks for.  The parts of this module share nothing but the     *)
(* theorems at its end, which put learning and calibration together.       *)
(***************************************************************************)
EXTENDS MCMeasuring, FiniteSetTheorems, SequenceTheorems, TLAPS

(***************************************************************************)
(* What the tracker has learned                                            *)
(***************************************************************************)

Verdicts == {"no_data", "ok", "underprovisioned", "overprovisioned"}
Ticks == {"wait", "finalize", "popped", "persisted", "judge", "tell", "scan", "sample"}
JobStates == {"queued", "running", "done", "error"} \cup Forgotten
Judged(obs) == Drift(OkPeaks(obs), Declared, MinSamples).verdict
NoneOld(obs) == \A i \in DOMAIN obs : ~obs[i].old
Judging(end) == end \in {"well", "failed_unseen"}
EndedWell(obs) == \A i \in DOMAIN obs : obs[i].ok <=> Judging(obs[i].end)

\* What the tracker holds of a job, before its observation, while that is on its way
\* to memory, and after.
CurTypeOK ==
  /\ cur \in [j : LearnJobs \cup {"none"}, peak : Readings \cup {0}, old : BOOLEAN,
              obs : Observations \cup {<<>>}, verdict : Verdicts]
  /\ tick \in {"popped", "sample"} => cur.j \in LearnJobs
  /\ tick = "popped" => cur.peak \in Readings
  /\ tick = "persisted" => cur.obs \in Observations /\ (cur.obs.ok <=> Judging(cur.obs.end))

TrackerTypeOK ==
  /\ job \in [LearnJobs -> JobStates]
  /\ active \in [LearnJobs -> [tracked : BOOLEAN, peak : Readings \cup {0}, old : {FALSE}]]
  /\ tick \in Ticks /\ torn \in BOOLEAN
  /\ resets \in Nat /\ restarts \in Nat
  /\ CurTypeOK
  /\ LearnTypeOK

\* What is seen to have failed is nowhere counted as a success.
FailuresAreSeen == EndedWell(recents) /\ EndedWell(store)

\* A job that a reset found between _active and the store is alone in what it was
\* sampled before, in memory and on disk.
OneIsOld ==
  /\ AtMostOneOld(recents) /\ AtMostOneOld(store)
  /\ tick = "popped" /\ cur.old => NoneOld(recents) /\ NoneOld(store)
  /\ tick = "persisted" /\ cur.old => NoneOld(recents)
  /\ resets = 0 => NoneOld(recents) /\ NoneOld(store) /\ ~cur.old

\* Memory is the end of the file, but for the observation on its way from one to the
\* other.
MemoryFollows ==
  ~torn =>
    IF tick = "persisted"
      THEN cur.obs.old = cur.old /\ Capped(Append(recents, cur.obs), RecentCap) = Capped(store, RecentCap)
      ELSE recents = Capped(store, RecentCap)

\* The verdict is that on what is remembered, but while a new one is on its way.
VerdictFollows ==
  ~torn =>
    /\ tick \notin {"judge", "tell"} =>
         verdict = Judged(recents) \/ (restarts > 0 /\ verdict = "no_data")
    /\ tick = "tell" => cur.verdict = Judged(recents)

LearnInv == TrackerTypeOK /\ FailuresAreSeen /\ OneIsOld /\ MemoryFollows /\ VerdictFollows

(* Lists and their ends *)

LEMMA CappedDef ==
  ASSUME NEW S, NEW obs \in Seq(S), NEW cap \in Nat
  PROVE  /\ Capped(obs, cap) \in Seq(S)
         /\ Len(Capped(obs, cap)) = IF Len(obs) > cap THEN cap ELSE Len(obs)
         /\ \A i \in 1..Len(Capped(obs, cap)) :
              /\ i + (Len(obs) - Len(Capped(obs, cap))) \in 1..Len(obs)
              /\ Capped(obs, cap)[i] = obs[i + (Len(obs) - Len(Capped(obs, cap)))]
<1>1. CASE Len(obs) > cap
  <2>. DEFINE from == Len(obs) - cap + 1
  <2>1. from \in 1..Len(obs) + 1 /\ Len(obs) \in Nat
    BY <1>1
  <2>2. /\ SubSeq(obs, from, Len(obs)) \in Seq(S)
        /\ Len(SubSeq(obs, from, Len(obs))) = cap
        /\ \A i \in 1..cap : SubSeq(obs, from, Len(obs))[i] = obs[from + i - 1]
    BY <1>1, <2>1, SubSeqProperties, LenProperties
  <2>. QED  BY <1>1, <2>1, <2>2 DEF Capped
<1>2. CASE ~(Len(obs) > cap)
  BY <1>2, LenProperties DEF Capped
<1>. QED  BY <1>1, <1>2

LEMMA CappedIsShort ==
  ASSUME NEW S, NEW obs \in Seq(S), NEW cap \in Nat
  PROVE  Capped(obs, cap) \in Seq(S) /\ Len(Capped(obs, cap)) <= cap
<1>1. Len(obs) \in Nat
  BY LenProperties
<1>. QED  BY <1>1, CappedDef

LEMMA CappedTwice ==
  ASSUME NEW S, NEW obs \in Seq(S), NEW few \in Nat, NEW many \in Nat, few <= many
  PROVE  Capped(Capped(obs, many), few) = Capped(obs, few)
<1>. DEFINE outer == Capped(obs, many)
            left == Capped(outer, few)
            right == Capped(obs, few)
<1>1. outer \in Seq(S) /\ Len(outer) = IF Len(obs) > many THEN many ELSE Len(obs)
  BY CappedDef
<1>2. left \in Seq(S) /\ Len(left) = IF Len(outer) > few THEN few ELSE Len(outer)
  BY <1>1, CappedDef
<1>3. right \in Seq(S) /\ Len(right) = IF Len(obs) > few THEN few ELSE Len(obs)
  BY CappedDef
<1>4. Len(obs) \in Nat /\ Len(outer) \in Nat /\ Len(left) \in Nat
  BY <1>1, <1>2, LenProperties
<1>5. Len(left) = Len(right)
  BY <1>1, <1>2, <1>3, <1>4
<1>6. ASSUME NEW i \in 1..Len(left)
      PROVE  left[i] = right[i]
  <2>. DEFINE k == i + (Len(outer) - Len(left))
  <2>1. k \in 1..Len(outer) /\ left[i] = outer[k]
    BY <1>1, <1>6, CappedDef
  <2>2. outer[k] = obs[k + (Len(obs) - Len(outer))]
    BY <2>1, CappedDef
  <2>3. right[i] = obs[i + (Len(obs) - Len(right))]
    BY ZenonT(60), <1>5, <1>6, CappedDef
  <2>4. k + (Len(obs) - Len(outer)) = i + (Len(obs) - Len(right))
    BY <1>4, <1>5
  <2>. HIDE DEF outer, left, right, k
  <2>. QED  BY <2>1, <2>2, <2>3, <2>4
<1>. HIDE DEF outer, left, right
<1>7. left = right
  BY <1>2, <1>3, <1>5, <1>6, SeqEqual
<1>. QED  BY <1>7 DEF left, right, outer

LEMMA CappedAppend ==
  ASSUME NEW S, NEW obs \in Seq(S), NEW last \in S, NEW cap \in Nat
  PROVE  Capped(Append(Capped(obs, cap), last), cap) = Capped(Append(obs, last), cap)
<1>. DEFINE inner == Capped(obs, cap)
            longer == Append(obs, last)
            short == Append(inner, last)
            left == Capped(short, cap)
            right == Capped(longer, cap)
<1>1. inner \in Seq(S) /\ Len(inner) = IF Len(obs) > cap THEN cap ELSE Len(obs)
  BY CappedDef
<1>2. /\ longer \in Seq(S) /\ Len(longer) = Len(obs) + 1
      /\ \A i \in 1..Len(obs) : longer[i] = obs[i]
      /\ longer[Len(obs) + 1] = last
  BY AppendProperties
<1>3. /\ short \in Seq(S) /\ Len(short) = Len(inner) + 1
      /\ \A i \in 1..Len(inner) : short[i] = inner[i]
      /\ short[Len(inner) + 1] = last
  BY <1>1, AppendProperties
<1>4. left \in Seq(S) /\ Len(left) = IF Len(short) > cap THEN cap ELSE Len(short)
  BY <1>3, CappedDef
<1>5. right \in Seq(S) /\ Len(right) = IF Len(longer) > cap THEN cap ELSE Len(longer)
  BY <1>2, CappedDef
<1>6. Len(obs) \in Nat /\ Len(inner) \in Nat /\ Len(left) \in Nat /\ Len(right) \in Nat
  BY <1>1, <1>4, <1>5, LenProperties
<1>7. Len(left) = Len(right)
  BY <1>1, <1>2, <1>3, <1>4, <1>5, <1>6
<1>8. ASSUME NEW i \in 1..Len(left)
      PROVE  left[i] = right[i]
  <2>. DEFINE k == i + (Len(short) - Len(left))
              m == i + (Len(longer) - Len(right))
  <2>1. k \in 1..Len(short) /\ left[i] = short[k]
    BY <1>3, <1>8, CappedDef
  <2>2. m \in 1..Len(longer) /\ right[i] = longer[m]
    BY ZenonT(60), <1>2, <1>7, <1>8, CappedDef
  <2>3. m - k = Len(obs) - Len(inner)
    BY <1>2, <1>3, <1>6, <1>7
  <2>4. CASE k \in 1..Len(inner)
    <3>1. inner[k] = obs[k + (Len(obs) - Len(inner))]
      BY <2>4, CappedDef
    <3>2. k + (Len(obs) - Len(inner)) \in 1..Len(obs)
      BY <2>4, CappedDef
    <3>3. k + (Len(obs) - Len(inner)) = m
      BY <2>3, <1>6, <2>4, <2>2
    <3>. HIDE DEF inner, longer, short, left, right, k, m
    <3>. QED  BY <1>2, <1>3, <2>1, <2>2, <2>4, <3>1, <3>2, <3>3
  <2>5. CASE k = Len(inner) + 1
    <3>1. m = Len(obs) + 1
      BY <2>3, <2>5, <1>6, <2>2
    <3>. HIDE DEF inner, longer, short, left, right, k, m
    <3>. QED  BY <1>2, <1>3, <2>1, <2>2, <2>5, <3>1
  <2>6. k \in 1..Len(inner) \/ k = Len(inner) + 1
    BY <2>1, <1>3, <1>6
  <2>. QED  BY <2>4, <2>5, <2>6
<1>. HIDE DEF inner, longer, short, left, right
<1>9. left = right
  BY <1>4, <1>5, <1>7, <1>8, SeqEqual
<1>. QED  BY <1>9 DEF left, right, short, longer, inner

\* An end of a list has of it what each of its observations has.
LEMMA CappedKeeps ==
  ASSUME NEW obs \in Seq(Observations), NEW cap \in Nat
  PROVE  /\ NoneOld(obs) => NoneOld(Capped(obs, cap))
         /\ EndedWell(obs) => EndedWell(Capped(obs, cap))
         /\ AtMostOneOld(obs) => AtMostOneOld(Capped(obs, cap))
<1>. DEFINE ending == Capped(obs, cap)
            d == Len(obs) - Len(ending)
<1>1. /\ ending \in Seq(Observations) /\ Len(ending) = IF Len(obs) > cap THEN cap ELSE Len(obs)
      /\ \A i \in 1..Len(ending) : i + d \in 1..Len(obs) /\ ending[i] = obs[i + d]
  BY CappedDef
<1>2. Len(ending) \in Nat /\ Len(obs) \in Nat /\ d \in Int
  BY <1>1, LenProperties
<1>3. DOMAIN ending = 1..Len(ending) /\ DOMAIN obs = 1..Len(obs)
  BY <1>1, LenProperties
<1>. HIDE DEF ending, d
<1>4. NoneOld(obs) => NoneOld(ending)
  BY <1>1, <1>3 DEF NoneOld
<1>5. EndedWell(obs) => EndedWell(ending)
  BY <1>1, <1>3 DEF EndedWell
<1>6. AtMostOneOld(obs) => AtMostOneOld(ending)
  <2>. SUFFICES ASSUME AtMostOneOld(obs), NEW i \in 1..Len(ending), NEW k \in 1..Len(ending),
                       ending[i].old, ending[k].old
                PROVE  i = k
    BY <1>3 DEF AtMostOneOld
  <2>1. i + d \in DOMAIN obs /\ k + d \in DOMAIN obs /\ obs[i + d].old /\ obs[k + d].old
    BY <1>1, <1>3
  <2>2. i + d = k + d
    BY <2>1 DEF AtMostOneOld
  <2>. QED  BY <2>2, <1>2
<1>. QED  BY <1>4, <1>5, <1>6 DEF ending

\* So has a list with one more at its end, if that one has it.
LEMMA AppendKeeps ==
  ASSUME NEW obs \in Seq(Observations), NEW last \in Observations
  PROVE  /\ Append(obs, last) \in Seq(Observations)
         /\ NoneOld(obs) /\ ~last.old => NoneOld(Append(obs, last))
         /\ EndedWell(obs) /\ (last.ok <=> Judging(last.end)) => EndedWell(Append(obs, last))
         /\ AtMostOneOld(obs) /\ (last.old => NoneOld(obs)) => AtMostOneOld(Append(obs, last))
<1>. DEFINE longer == Append(obs, last)
<1>1. /\ longer \in Seq(Observations) /\ Len(longer) = Len(obs) + 1
      /\ \A i \in 1..Len(obs) : longer[i] = obs[i]
      /\ longer[Len(obs) + 1] = last
  BY AppendProperties
<1>2. DOMAIN longer = 1..Len(obs) + 1 /\ DOMAIN obs = 1..Len(obs) /\ Len(obs) \in Nat
  BY <1>1, LenProperties
<1>3. \A i \in DOMAIN longer : i \in DOMAIN obs \/ i = Len(obs) + 1
  BY <1>2
<1>. HIDE DEF longer
<1>4. NoneOld(obs) /\ ~last.old => NoneOld(longer)
  BY <1>1, <1>2, <1>3 DEF NoneOld
<1>5. EndedWell(obs) /\ (last.ok <=> Judging(last.end)) => EndedWell(longer)
  BY <1>1, <1>2, <1>3 DEF EndedWell
<1>6. AtMostOneOld(obs) /\ (last.old => NoneOld(obs)) => AtMostOneOld(longer)
  <2>. SUFFICES ASSUME AtMostOneOld(obs), last.old => NoneOld(obs),
                       NEW i \in DOMAIN longer, NEW k \in DOMAIN longer,
                       longer[i].old, longer[k].old
                PROVE  i = k
    BY DEF AtMostOneOld
  <2>1. CASE i \in DOMAIN obs /\ k \in DOMAIN obs
    BY <2>1, <1>1, <1>2 DEF AtMostOneOld
  <2>2. CASE ~(i \in DOMAIN obs /\ k \in DOMAIN obs)
    BY <2>2, <1>1, <1>2, <1>3 DEF NoneOld
  <2>. QED  BY <2>1, <2>2
<1>. QED  BY <1>1, <1>4, <1>5, <1>6 DEF longer

LEMMA EmptyKeeps ==
  /\ <<>> \in Seq(Observations) /\ Len(<<>>) = 0 /\ DOMAIN <<>> = {}
  /\ NoneOld(<<>>) /\ EndedWell(<<>>) /\ AtMostOneOld(<<>>)
  /\ Capped(<<>>, RecentCap) = <<>>
<1>1. <<>> \in Seq(Observations) /\ Len(<<>>) = 0 /\ DOMAIN <<>> = {}
  BY EmptySeq
<1>2. Capped(<<>>, RecentCap) = <<>>
  BY <1>1, LearnAssumption DEF Capped
<1>. QED  BY <1>1, <1>2 DEF NoneOld, EndedWell, AtMostOneOld

LEMMA JudgedVerdict == ASSUME NEW obs PROVE Judged(obs) \in Verdicts
BY DEF Judged, Drift, Verdicts

\* Nothing that is remembered, nothing that is said of it.
LEMMA NothingJudged == Judged(<<>>) = "no_data"
<1>. DEFINE step(f, n) ==
              IF n = 0 THEN <<>>
              ELSE IF <<>>[n].ok THEN Append(f[n - 1], <<>>[n].peak) ELSE f[n - 1]
            isUpTo(f) == f = [n \in 0..Len(<<>>) |-> step(f, n)]
            upTo == CHOOSE f : isUpTo(f)
            only == [n \in 0..0 |-> <<>>]
<1>1. Len(<<>>) = 0
  BY EmptySeq
<1>2. isUpTo(only)
  <2>1. \A n \in 0..0 : n = 0 /\ step(only, n) = <<>>
    OBVIOUS
  <2>. HIDE DEF step
  <2>. QED  BY <2>1, <1>1
<1>3. isUpTo(upTo)
  <2>. HIDE DEF isUpTo
  <2>. QED  BY <1>2
<1>4. upTo[0] = <<>>
  <2>1. 0 \in 0..Len(<<>>)
    BY <1>1
  <2>2. step(upTo, 0) = <<>>
    OBVIOUS
  <2>. HIDE DEF step
  <2>3. upTo = [n \in 0..Len(<<>>) |-> step(upTo, n)]
    BY <1>3
  <2>. HIDE DEF upTo
  <2>. QED  BY <2>1, <2>2, <2>3
<1>5. OkPeaks(<<>>) = upTo[0]
  BY <1>1 DEF OkPeaks
<1>6. Len(OkPeaks(<<>>)) < MinSamples
  <2>. HIDE DEF upTo
  <2>. QED  BY <1>1, <1>4, <1>5, LearnAssumption
<1>. QED  BY <1>6 DEF Judged, Drift

(* The steps *)

LEMMA LearnInitInv == LearnInit => LearnInv
<1>. SUFFICES ASSUME LearnInit PROVE LearnInv
  OBVIOUS
<1>1. NoCur \in [j : LearnJobs \cup {"none"}, peak : Readings \cup {0}, old : BOOLEAN,
                 obs : Observations \cup {<<>>}, verdict : Verdicts]
  BY DEF NoCur, Verdicts
<1>2. TrackerTypeOK
  <2>1. CurTypeOK
    BY <1>1 DEF LearnInit, CurTypeOK
  <2>2. LearnTypeOK
    BY EmptyKeeps, LearnAssumption DEF LearnInit, LearnTypeOK, Untracked
  <2>3. job \in [LearnJobs -> JobStates]
    BY DEF LearnInit, JobStates
  <2>4. active \in [LearnJobs -> [tracked : BOOLEAN, peak : Readings \cup {0}, old : {FALSE}]]
    BY DEF LearnInit, Untracked
  <2>. QED  BY <2>1, <2>2, <2>3, <2>4 DEF LearnInit, TrackerTypeOK, Ticks
<1>3. FailuresAreSeen /\ OneIsOld
  BY EmptyKeeps DEF LearnInit, FailuresAreSeen, OneIsOld, NoCur
<1>4. MemoryFollows
  BY EmptyKeeps DEF LearnInit, MemoryFollows
<1>5. VerdictFollows
  BY NothingJudged DEF LearnInit, VerdictFollows
<1>. QED  BY <1>2, <1>3, <1>4, <1>5 DEF LearnInv

\* A step that leaves what is learned alone, and the phase between tick and tick.
LEMMA LearnedIsKept ==
  ASSUME LearnInv, UNCHANGED <<recents, store, verdict, torn, resets, restarts>>,
         tick \notin {"popped", "persisted", "judge", "tell"},
         tick' \notin {"persisted", "judge", "tell"},
         ~cur'.old \/ (cur'.old = cur.old /\ tick' # "popped")
  PROVE  FailuresAreSeen' /\ OneIsOld' /\ MemoryFollows' /\ VerdictFollows'
<1>1. FailuresAreSeen'
  BY DEF LearnInv, FailuresAreSeen, EndedWell
<1>2. OneIsOld'
  BY DEF LearnInv, OneIsOld, NoneOld, AtMostOneOld
<1>3. MemoryFollows'
  BY DEF LearnInv, MemoryFollows
<1>4. VerdictFollows'
  BY DEF LearnInv, VerdictFollows
<1>. QED  BY <1>1, <1>2, <1>3, <1>4

LEMMA JobMovesInv == ASSUME LearnInv, NEW j \in LearnJobs, JobMoves(j) PROVE LearnInv'
<1>1. job' \in [LearnJobs -> JobStates]
  <2>1. \E end \in JobStates : job' = [job EXCEPT ![j] = end]
    BY DEF JobMoves, JobStates, Forgotten, Purged
  <2>. QED  BY <2>1 DEF LearnInv, TrackerTypeOK
<1>2. UNCHANGED <<active, snap, tick, cur, recents, store, verdict, torn, resets, restarts>>
  BY DEF JobMoves
<1>3. TrackerTypeOK'
  BY <1>1, <1>2 DEF LearnInv, TrackerTypeOK, LearnTypeOK, CurTypeOK
<1>. QED  BY <1>2, <1>3 DEF LearnInv, FailuresAreSeen, OneIsOld, MemoryFollows, VerdictFollows

LEMMA TickBeginsInv == ASSUME LearnInv, TickBegins PROVE LearnInv'
<1>1. TrackerTypeOK'
  BY DEF LearnInv, TrackerTypeOK, LearnTypeOK, CurTypeOK, TickBegins, jobVars, Ticks
<1>2. FailuresAreSeen' /\ OneIsOld' /\ MemoryFollows' /\ VerdictFollows'
  BY LearnedIsKept DEF TickBegins
<1>. QED  BY <1>1, <1>2 DEF LearnInv

LEMMA TickEndsInv == ASSUME LearnInv, TickEnds PROVE LearnInv'
<1>1. TrackerTypeOK'
  BY DEF LearnInv, TrackerTypeOK, LearnTypeOK, CurTypeOK, TickEnds, jobVars, Ticks
<1>2. FailuresAreSeen' /\ OneIsOld' /\ MemoryFollows' /\ VerdictFollows'
  BY LearnedIsKept DEF TickEnds
<1>. QED  BY <1>1, <1>2 DEF LearnInv

LEMMA FinalizePopsInv == ASSUME LearnInv, NEW j \in LearnJobs, FinalizePops(j) PROVE LearnInv'
<1>1. active' \in [LearnJobs -> [tracked : BOOLEAN, peak : Readings \cup {0}, old : {FALSE}]]
  BY DEF FinalizePops, LearnInv, TrackerTypeOK, Untracked
<1>2. LearnTypeOK'
  BY <1>1 DEF FinalizePops, LearnInv, TrackerTypeOK, LearnTypeOK
<1>3. active[j].peak \in Readings \cup {0} /\ active[j].old = FALSE
  BY DEF LearnInv, TrackerTypeOK
<1>4. CurTypeOK' /\ tick' \in {"finalize", "popped"} /\ (tick' = "popped" => cur'.old = FALSE)
      /\ (tick' = "finalize" => cur' = cur)
  <2>1. CASE active[j].peak = 0
    BY <2>1 DEF FinalizePops, LearnInv, TrackerTypeOK, CurTypeOK
  <2>2. CASE active[j].peak # 0
    <3>1. cur' = [j |-> j, peak |-> active[j].peak, old |-> FALSE, obs |-> <<>>, verdict |-> "no_data"]
          /\ tick' = "popped"
      BY <1>3, <2>2 DEF FinalizePops, NoCur
    <3>. QED  BY <1>3, <2>2, <3>1 DEF CurTypeOK, Verdicts
  <2>. QED  BY <2>1, <2>2
<1>5. TrackerTypeOK'
  BY <1>1, <1>2, <1>4 DEF FinalizePops, LearnInv, TrackerTypeOK, jobVars, Ticks
<1>6. FailuresAreSeen' /\ OneIsOld' /\ MemoryFollows' /\ VerdictFollows'
  <2>1. tick = "finalize" /\ UNCHANGED <<recents, store, verdict, torn, resets, restarts>>
    BY DEF FinalizePops
  <2>. QED  BY <1>4, <2>1, LearnedIsKept
<1>. QED  BY <1>5, <1>6 DEF LearnInv

LEMMA ScanPicksInv == ASSUME LearnInv, NEW j \in LearnJobs, ScanPicks(j) PROVE LearnInv'
<1>1. active' \in [LearnJobs -> [tracked : BOOLEAN, peak : Readings \cup {0}, old : {FALSE}]]
  BY DEF ScanPicks, LearnInv, TrackerTypeOK
<1>2. LearnTypeOK'
  BY <1>1 DEF ScanPicks, LearnInv, TrackerTypeOK, LearnTypeOK
<1>3. cur' = [j |-> j, peak |-> 0, old |-> FALSE, obs |-> <<>>, verdict |-> "no_data"] /\ tick' = "sample"
  BY DEF ScanPicks, NoCur
<1>4. CurTypeOK'
  BY <1>3 DEF CurTypeOK, Verdicts
<1>5. TrackerTypeOK'
  BY <1>1, <1>2, <1>3, <1>4 DEF ScanPicks, LearnInv, TrackerTypeOK, jobVars, Ticks
<1>6. FailuresAreSeen' /\ OneIsOld' /\ MemoryFollows' /\ VerdictFollows'
  BY <1>3, LearnedIsKept DEF ScanPicks
<1>. QED  BY <1>5, <1>6 DEF LearnInv

LEMMA SampleInv == ASSUME LearnInv, Sample PROVE LearnInv'
<1>1. cur.j \in LearnJobs
  BY DEF Sample, LearnInv, TrackerTypeOK, CurTypeOK
<1>2. active' \in [LearnJobs -> [tracked : BOOLEAN, peak : Readings \cup {0}, old : {FALSE}]]
  <2>1. PICK mib \in Readings \cup {0} :
          active' = IF active[cur.j].tracked /\ mib > active[cur.j].peak
                    THEN [active EXCEPT ![cur.j].peak = mib] ELSE active
    BY DEF Sample
  <2>. QED  BY <1>1, <2>1 DEF LearnInv, TrackerTypeOK
<1>3. LearnTypeOK'
  BY <1>2 DEF Sample, LearnInv, TrackerTypeOK, LearnTypeOK
<1>4. cur' = [j |-> "none", peak |-> 0, old |-> FALSE, obs |-> <<>>, verdict |-> "no_data"] /\ tick' = "scan"
  BY DEF Sample, NoCur
<1>5. CurTypeOK'
  BY <1>4 DEF CurTypeOK, Verdicts
<1>6. TrackerTypeOK'
  BY <1>2, <1>3, <1>4, <1>5 DEF Sample, LearnInv, TrackerTypeOK, jobVars, Ticks
<1>7. FailuresAreSeen' /\ OneIsOld' /\ MemoryFollows' /\ VerdictFollows'
  BY <1>4, LearnedIsKept DEF Sample
<1>. QED  BY <1>6, <1>7 DEF LearnInv

LEMMA FinalizePersistsInv == ASSUME LearnInv, FinalizePersists PROVE LearnInv'
<1>. DEFINE obs == [peak |-> cur.peak, old |-> cur.old, ok |-> IsOk(job[cur.j]), end |-> EndOf(job[cur.j])]
<1>1. /\ cur.j \in LearnJobs /\ cur.peak \in Readings /\ cur.old \in BOOLEAN
      /\ recents \in Seq(Observations) /\ store \in Seq(Observations)
  BY DEF FinalizePersists, LearnInv, TrackerTypeOK, CurTypeOK, LearnTypeOK
<1>2. obs \in Observations /\ (obs.ok <=> Judging(obs.end)) /\ obs.old = cur.old
  <2>1. job[cur.j] \in JobStates
    BY <1>1 DEF LearnInv, TrackerTypeOK
  <2>2. /\ IsOk(job[cur.j]) = Judging(EndOf(job[cur.j])) /\ IsOk(job[cur.j]) \in BOOLEAN
        /\ EndOf(job[cur.j]) \in {"not_over", "well", "failed", "failed_unseen"}
    BY <2>1 DEF IsOk, Judging, EndOf, JobStates, Forgotten
  <2>. QED  BY <1>1, <2>2 DEF Observations
<1>3. /\ cur' = [cur EXCEPT !.obs = obs] /\ tick' = "persisted"
      /\ UNCHANGED <<job, requeues, active, snap, recents, verdict, resets, restarts>>
  BY DEF FinalizePersists, jobVars
<1>4. (store' = Capped(Append(store, obs), StoreCap) /\ torn' = torn) \/ (store' = store /\ torn' = TRUE)
  BY DEF FinalizePersists
<1>. HIDE DEF obs
<1>5. cur'.obs = obs /\ cur'.old = cur.old /\ cur'.j = cur.j /\ CurTypeOK'
  BY <1>2, <1>3 DEF LearnInv, TrackerTypeOK, CurTypeOK
<1>6. /\ Append(store, obs) \in Seq(Observations)
      /\ EndedWell(Append(store, obs)) /\ AtMostOneOld(Append(store, obs))
      /\ ~cur.old /\ NoneOld(store) => NoneOld(Append(store, obs))
  BY <1>1, <1>2, AppendKeeps DEF LearnInv, FailuresAreSeen, OneIsOld, FinalizePersists
<1>. DEFINE kept == Capped(Append(store, obs), StoreCap)
<1>7. /\ kept \in Seq(Observations) /\ Len(kept) <= StoreCap
      /\ EndedWell(kept) /\ AtMostOneOld(kept)
      /\ ~cur.old /\ NoneOld(store) => NoneOld(kept)
  BY <1>6, CappedKeeps, CappedIsShort, LearnAssumption
<1>8. /\ store' \in Seq(Observations) /\ Len(store') <= StoreCap
      /\ EndedWell(store') /\ AtMostOneOld(store')
      /\ ~cur.old /\ NoneOld(store) => NoneOld(store')
  <2>. HIDE DEF kept
  <2>1. store' = kept \/ store' = store
    BY <1>4 DEF kept
  <2>. QED  BY <2>1, <1>1, <1>7 DEF LearnInv, FailuresAreSeen, OneIsOld, TrackerTypeOK, LearnTypeOK
<1>9. TrackerTypeOK'
  BY <1>3, <1>4, <1>5, <1>8 DEF LearnInv, TrackerTypeOK, LearnTypeOK, Ticks
<1>10. FailuresAreSeen'
  BY <1>3, <1>8 DEF LearnInv, FailuresAreSeen, EndedWell
<1>11. OneIsOld'
  <2>1. tick = "popped"
    BY DEF FinalizePersists
  <2>. QED  BY <2>1, <1>3, <1>5, <1>8 DEF LearnInv, OneIsOld, NoneOld, AtMostOneOld
<1>12. MemoryFollows'
  <2>. SUFFICES ASSUME ~torn'
                PROVE  Capped(Append(recents, obs), RecentCap) = Capped(store', RecentCap)
    BY <1>2, <1>3, <1>5 DEF MemoryFollows
  <2>1. store' = kept /\ recents = Capped(store, RecentCap)
    BY <1>4 DEF LearnInv, MemoryFollows, FinalizePersists
  <2>2. Capped(Append(recents, obs), RecentCap) = Capped(Append(store, obs), RecentCap)
    BY <2>1, <1>1, <1>2, CappedAppend, LearnAssumption
  <2>3. Capped(kept, RecentCap) = Capped(Append(store, obs), RecentCap)
    BY <1>6, CappedTwice, LearnAssumption
  <2>. QED  BY <2>1, <2>2, <2>3
<1>13. VerdictFollows'
  BY <1>3, <1>4 DEF LearnInv, VerdictFollows, FinalizePersists
<1>. QED  BY <1>9, <1>10, <1>11, <1>12, <1>13 DEF LearnInv

LEMMA FinalizeRemembersInv == ASSUME LearnInv, FinalizeRemembers PROVE LearnInv'
<1>1. /\ cur.obs \in Observations /\ (cur.obs.ok <=> Judging(cur.obs.end))
      /\ cur.old \in BOOLEAN /\ recents \in Seq(Observations)
  BY DEF FinalizeRemembers, LearnInv, TrackerTypeOK, CurTypeOK, LearnTypeOK
<1>2. /\ Remembered \in Observations /\ Remembered.old = cur.old
      /\ (Remembered.ok <=> Judging(Remembered.end))
      /\ cur.obs.old = cur.old => Remembered = cur.obs
  BY <1>1 DEF Remembered, Observations
<1>3. /\ recents' = Capped(Append(recents, Remembered), RecentCap) /\ tick = "persisted" /\ tick' = "judge"
      /\ UNCHANGED <<job, requeues, active, snap, cur, store, verdict, torn, resets, restarts>>
  BY DEF FinalizeRemembers, jobVars
<1>4. /\ Append(recents, Remembered) \in Seq(Observations)
      /\ EndedWell(Append(recents, Remembered)) /\ AtMostOneOld(Append(recents, Remembered))
      /\ ~cur.old /\ NoneOld(recents) => NoneOld(Append(recents, Remembered))
  BY <1>1, <1>2, <1>3, AppendKeeps DEF LearnInv, FailuresAreSeen, OneIsOld
<1>5. /\ recents' \in Seq(Observations) /\ Len(recents') <= RecentCap
      /\ EndedWell(recents') /\ AtMostOneOld(recents')
      /\ ~cur.old /\ NoneOld(recents) => NoneOld(recents')
  BY <1>3, <1>4, CappedKeeps, CappedIsShort, LearnAssumption
<1>6. TrackerTypeOK'
  BY <1>3, <1>5 DEF LearnInv, TrackerTypeOK, CurTypeOK, LearnTypeOK, Ticks
<1>7. FailuresAreSeen'
  BY <1>3, <1>5 DEF LearnInv, FailuresAreSeen, EndedWell
<1>8. OneIsOld'
  BY <1>3, <1>5 DEF LearnInv, OneIsOld, NoneOld, AtMostOneOld
<1>9. MemoryFollows'
  <2>. SUFFICES ASSUME ~torn' PROVE recents' = Capped(store, RecentCap)
    BY <1>3 DEF MemoryFollows
  <2>1. cur.obs.old = cur.old /\ Capped(Append(recents, cur.obs), RecentCap) = Capped(store, RecentCap)
    BY <1>3 DEF LearnInv, MemoryFollows
  <2>. QED  BY <2>1, <1>2, <1>3
<1>10. VerdictFollows'
  BY <1>3 DEF VerdictFollows
<1>. QED  BY <1>6, <1>7, <1>8, <1>9, <1>10 DEF LearnInv

LEMMA FinalizeReportsInv == ASSUME LearnInv, FinalizeReports PROVE LearnInv'
<1>1. cur' = [cur EXCEPT !.verdict = Judged(recents)] /\ Judged(recents) \in Verdicts
  BY JudgedVerdict DEF FinalizeReports, Judged
<1>2. /\ tick = "judge" /\ tick' = "tell"
      /\ UNCHANGED <<job, requeues, active, snap, recents, store, verdict, torn, resets, restarts>>
  BY DEF FinalizeReports, jobVars
<1>3. CurTypeOK' /\ cur'.old = cur.old /\ cur'.verdict = Judged(recents)
  BY <1>1, <1>2 DEF LearnInv, TrackerTypeOK, CurTypeOK
<1>4. TrackerTypeOK'
  BY <1>2, <1>3 DEF LearnInv, TrackerTypeOK, LearnTypeOK, Ticks
<1>5. FailuresAreSeen' /\ OneIsOld' /\ MemoryFollows'
  BY <1>2, <1>3 DEF LearnInv, FailuresAreSeen, OneIsOld, MemoryFollows, EndedWell, AtMostOneOld, NoneOld
<1>6. VerdictFollows'
  <2>1. Judged(recents)' = Judged(recents)
    BY <1>2 DEF Judged
  <2>. QED  BY <2>1, <1>2, <1>3 DEF VerdictFollows
<1>. QED  BY <1>4, <1>5, <1>6 DEF LearnInv

LEMMA FinalizeTellsInv == ASSUME LearnInv, FinalizeTells PROVE LearnInv'
<1>1. /\ tick = "tell" /\ tick' = "finalize" /\ verdict' = cur.verdict
      /\ UNCHANGED <<job, requeues, active, snap, recents, store, torn, resets, restarts>>
  BY DEF FinalizeTells, jobVars
<1>2. cur' = [j |-> "none", peak |-> 0, old |-> FALSE, obs |-> <<>>, verdict |-> "no_data"]
  BY DEF FinalizeTells, NoCur
<1>3. CurTypeOK'
  BY <1>1, <1>2 DEF CurTypeOK, Verdicts
<1>4. verdict' \in Verdicts
  BY <1>1 DEF LearnInv, TrackerTypeOK, CurTypeOK
<1>5. TrackerTypeOK'
  BY <1>1, <1>3, <1>4 DEF LearnInv, TrackerTypeOK, LearnTypeOK, Ticks, Verdicts
<1>6. FailuresAreSeen' /\ OneIsOld' /\ MemoryFollows'
  BY <1>1, <1>2 DEF LearnInv, FailuresAreSeen, OneIsOld, MemoryFollows, EndedWell, AtMostOneOld, NoneOld
<1>7. VerdictFollows'
  <2>1. Judged(recents)' = Judged(recents)
    BY <1>1 DEF Judged
  <2>. QED  BY <2>1, <1>1 DEF LearnInv, VerdictFollows
<1>. QED  BY <1>5, <1>6, <1>7 DEF LearnInv

LEMMA ResetInv == ASSUME LearnInv, Reset PROVE LearnInv'
<1>1. /\ recents' = <<>> /\ store' = <<>> /\ verdict' = "no_data" /\ cur' = [cur EXCEPT !.old = TRUE]
      /\ torn' = (torn \/ MidFinalize) /\ resets' = resets + 1
      /\ UNCHANGED <<job, requeues, snap, tick, restarts>>
  BY DEF Reset, jobVars
<1>2. active' \in [LearnJobs -> [tracked : BOOLEAN, peak : Readings \cup {0}, old : {FALSE}]]
  BY DEF Reset, Untracked
<1>3. CurTypeOK'
  BY <1>1 DEF LearnInv, TrackerTypeOK, CurTypeOK
<1>4. LearnTypeOK'
  <2>1. \A j \in LearnJobs : active'[j].peak \in Readings \cup {0}
    BY <1>2
  <2>2. recents' \in Seq(Observations) /\ Len(recents') <= RecentCap
        /\ store' \in Seq(Observations) /\ Len(store') <= StoreCap
    BY <1>1, EmptyKeeps, LearnAssumption
  <2>. QED  BY <1>1, <2>1, <2>2 DEF LearnInv, TrackerTypeOK, LearnTypeOK
<1>5. TrackerTypeOK'
  <2>1. torn' \in BOOLEAN /\ resets' \in Nat
    BY <1>1 DEF LearnInv, TrackerTypeOK, MidFinalize
  <2>. QED  BY <1>1, <1>2, <1>3, <1>4, <2>1 DEF LearnInv, TrackerTypeOK
<1>6. FailuresAreSeen'
  BY <1>1, EmptyKeeps DEF FailuresAreSeen, EndedWell
<1>7. OneIsOld'
  <2>1. resets' # 0
    BY <1>1 DEF LearnInv, TrackerTypeOK
  <2>. QED  BY <2>1, <1>1, EmptyKeeps DEF OneIsOld, NoneOld, AtMostOneOld
<1>8. MemoryFollows'
  BY <1>1, EmptyKeeps DEF MemoryFollows, MidFinalize
<1>9. VerdictFollows'
  <2>1. Judged(recents)' = Judged(<<>>)
    BY <1>1 DEF Judged
  <2>. QED  BY <2>1, <1>1, NothingJudged DEF VerdictFollows, MidFinalize
<1>. QED  BY <1>5, <1>6, <1>7, <1>8, <1>9 DEF LearnInv

LEMMA LearnRestartInv == ASSUME LearnInv, LearnRestart PROVE LearnInv'
<1>1. /\ recents' = Capped(store, RecentCap) /\ verdict' = "no_data" /\ tick' = "wait" /\ snap' = {}
      /\ torn' = FALSE /\ restarts' = restarts + 1
      /\ UNCHANGED <<job, requeues, store, resets>>
  BY DEF LearnRestart, jobVars
<1>2. cur' = [j |-> "none", peak |-> 0, old |-> FALSE, obs |-> <<>>, verdict |-> "no_data"]
  BY DEF LearnRestart, NoCur
<1>3. active' \in [LearnJobs -> [tracked : BOOLEAN, peak : Readings \cup {0}, old : {FALSE}]]
  BY DEF LearnRestart, Untracked
<1>4. store \in Seq(Observations)
  BY DEF LearnInv, TrackerTypeOK, LearnTypeOK
<1>5. /\ recents' \in Seq(Observations) /\ Len(recents') <= RecentCap
      /\ EndedWell(recents') /\ AtMostOneOld(recents') /\ (NoneOld(store) => NoneOld(recents'))
  BY <1>1, <1>4, CappedKeeps, CappedIsShort, LearnAssumption DEF LearnInv, FailuresAreSeen, OneIsOld
<1>6. CurTypeOK'
  BY <1>1, <1>2 DEF CurTypeOK, Verdicts
<1>7. LearnTypeOK'
  <2>1. \A j \in LearnJobs : active'[j].peak \in Readings \cup {0}
    BY <1>3
  <2>. QED  BY <1>1, <1>5, <2>1 DEF LearnInv, TrackerTypeOK, LearnTypeOK
<1>8. TrackerTypeOK'
  <2>1. tick' \in Ticks /\ torn' \in BOOLEAN
    BY <1>1 DEF Ticks
  <2>2. job' \in [LearnJobs -> JobStates] /\ resets' \in Nat /\ restarts' \in Nat
    BY <1>1 DEF LearnInv, TrackerTypeOK
  <2>. QED  BY <1>3, <1>6, <1>7, <2>1, <2>2 DEF TrackerTypeOK
<1>9. FailuresAreSeen' /\ OneIsOld'
  BY <1>1, <1>2, <1>5 DEF LearnInv, FailuresAreSeen, OneIsOld, EndedWell, AtMostOneOld, NoneOld
<1>10. MemoryFollows'
  BY <1>1 DEF MemoryFollows
<1>11. VerdictFollows'
  <2>1. restarts' > 0
    BY <1>1 DEF LearnInv, TrackerTypeOK
  <2>. QED  BY <2>1, <1>1 DEF VerdictFollows
<1>. QED  BY <1>8, <1>9, <1>10, <1>11 DEF LearnInv

LEMMA LearnNextInv == ASSUME LearnInv, [LearnNext]_learnVars PROVE LearnInv'
<1>1. CASE TrackerStep
  BY <1>1, TickBeginsInv, FinalizePersistsInv, FinalizeRemembersInv, FinalizeReportsInv,
     FinalizeTellsInv, SampleInv, TickEndsInv, FinalizePopsInv, ScanPicksInv DEF TrackerStep
<1>2. CASE Reset \/ LearnRestart
  BY <1>2, ResetInv, LearnRestartInv
<1>3. CASE \E j \in LearnJobs : JobMoves(j)
  BY <1>3, JobMovesInv
<1>4. CASE UNCHANGED learnVars
  <2>1. UNCHANGED <<job, requeues, active, snap, tick, cur, recents, store, verdict, torn, resets, restarts>>
    BY <1>4 DEF learnVars, jobVars
  <2>2. TrackerTypeOK'
    BY <2>1 DEF LearnInv, TrackerTypeOK, LearnTypeOK, CurTypeOK
  <2>. QED
    BY <2>1, <2>2 DEF LearnInv, FailuresAreSeen, OneIsOld, MemoryFollows, VerdictFollows
<1>. QED  BY <1>1, <1>2, <1>3, <1>4 DEF LearnNext

LEMMA LearnInvImplies == LearnInv => LearningConsistent
<1>. SUFFICES ASSUME LearnInv PROVE LearningConsistent
  OBVIOUS
<1>1. LearnTypeOK /\ RecentsAreStored /\ VerdictIsCurrent
  BY DEF LearnInv, TrackerTypeOK, MemoryFollows, VerdictFollows, RecentsAreStored, VerdictIsCurrent, Judged
<1>2. SeenFailuresDoNotJudge /\ OneEscapesReset
  BY DEF LearnInv, FailuresAreSeen, OneIsOld, SeenFailuresDoNotJudge, OneEscapesReset, EndedWell,
         Judging, NoneOld
<1>. QED  BY <1>1, <1>2 DEF LearningConsistent

\* What the tracker has learned is what jobs showed since the last reset that it could
\* not see to have failed (one the queue has purged by then counts as well done, however it
\* ended), the same in memory, on disk and in the verdict, for any number of jobs, readings and
\* resets, and whatever the caps of the two lists.
THEOREM LearningConsistentForAll == LearnSpec => []LearningConsistent
<1>1. LearnInv /\ [LearnNext]_learnVars => LearnInv'
  BY LearnNextInv
<1>. QED  BY <1>1, LearnInitInv, LearnInvImplies, PTL DEF LearnSpec

(***************************************************************************)
(* A calibration run                                                       *)
(***************************************************************************)

Threads == {"runner", "loop"}
Places == 0..Len(Program) + 1
IsSeries(series) == series \in Seq(ToSet(series))

\* When a sample was begun, and where the runner was: of the samples taken and of those
\* under way.
StampOf(sample) == [t |-> sample.t, at |-> sample.at]
Taken == {StampOf(s) : s \in ToSet(samples)}
Stamps == Taken \cup {StampOf(sampling[th]) : th \in {th \in Threads : sampling[th] # NotSampling}}

RunTypeOK ==
  /\ at \in Places /\ op \in {"idle", "begun", "high"}
  /\ result \in {"running", "blocked", "failed", "measured"}
  /\ tracked \subseteq {"root", "child"} /\ since \in 0..RefreshEvery - 1
  /\ clock \in Nat
  /\ sampling \in [Threads -> [t : Nat, pids : SUBSET {"root", "child"}, at : Places]]
  /\ IsSeries(samples) /\ IsSeries(marks) /\ IsSeries(unloads)
  /\ Len(marks) <= at /\ (at > 0 => Len(marks) < at) /\ Len(unloads) <= Cycles

\* No sample is of a time to come, and the later of two was not begun earlier in the run.
StampsInOrder ==
  /\ \A s \in Stamps : s.t \in 1..clock /\ s.at \in 0..at
  /\ \A r, s \in Stamps : r.t < s.t => r.at <= s.at

\* Each mark is where and when a sample was begun.
MarksAreTaken == \A m \in ToSet(marks) : StampOf(m) \in Taken

\* While the runner samples it goes nowhere, and while it calls it does not sample.
RunnerStays ==
  Running =>
    /\ sampling["runner"] # NotSampling => (AtMark \/ Over) /\ sampling["runner"].at = at
    /\ op # "idle" => AtCall

CalibrationInv == RunTypeOK /\ StampsInOrder /\ MarksAreTaken /\ RunnerStays

(* The series and the program *)

LEMMA SeriesGrow ==
  ASSUME NEW series, IsSeries(series), NEW last
  PROVE  /\ IsSeries(Append(series, last))
         /\ ToSet(Append(series, last)) = ToSet(series) \cup {last}
         /\ Len(Append(series, last)) = Len(series) + 1
<1>. DEFINE S == ToSet(series) \cup {last}
            longer == Append(series, last)
<1>1. series \in Seq(S) /\ last \in S
  <2>1. series \in Seq(ToSet(series))
    BY DEF IsSeries
  <2>2. \A T : ToSet(series) \subseteq T => Seq(ToSet(series)) \subseteq Seq(T)
    OBVIOUS
  <2>. QED  BY <2>1, <2>2
<1>2. /\ longer \in Seq(S) /\ Len(longer) = Len(series) + 1
      /\ \A i \in 1..Len(series) : longer[i] = series[i]
      /\ longer[Len(series) + 1] = last
  BY <1>1, AppendProperties
<1>3. DOMAIN longer = 1..Len(series) + 1 /\ DOMAIN series = 1..Len(series) /\ Len(series) \in Nat
  BY <1>1, <1>2, LenProperties
<1>. HIDE DEF longer
<1>4. ToSet(longer) = S
  <2>1. \A i \in 1..Len(series) + 1 : i \in 1..Len(series) \/ i = Len(series) + 1
    BY <1>3
  <2>2. ToSet(longer) \subseteq S
    BY <1>2, <1>3, <2>1 DEF ToSet
  <2>3. Len(series) + 1 \in DOMAIN longer /\ DOMAIN series \subseteq DOMAIN longer
    BY <1>3
  <2>4. S \subseteq ToSet(longer)
    BY <1>2, <1>3, <2>3 DEF ToSet
  <2>. QED  BY <2>2, <2>4
<1>5. IsSeries(longer)
  BY <1>2, <1>4 DEF IsSeries
<1>. QED  BY <1>2, <1>4, <1>5 DEF longer

LEMMA EmptySeries == IsSeries(<<>>) /\ Len(<<>>) = 0 /\ ToSet(<<>>) = {}
<1>1. DOMAIN <<>> = {} /\ Len(<<>>) = 0
  BY EmptySeq
<1>. QED  BY <1>1 DEF IsSeries, ToSet

\* The program has as many steps as its parts have, and names no cycle it is not to do.
LEMMA ProgramFacts ==
  /\ Len(Program) \in Nat
  /\ \A i \in 1..Len(Program) :
       Program[i].name = "unloaded_end" => Program[i].n \in Nat /\ Program[i].n <= Cycles
<1>. DEFINE generated == 6 + 4 * Repeats
            cycled == generated + 4 * Cycles - 1
            step(i) ==
              IF i <= 6 THEN [name |-> Opening[i], n |-> 1]
              ELSE IF i <= generated
                THEN [name |-> Repetition[((i - 7) % 4) + 1], n |-> ((i - 7) \div 4) + 1]
              ELSE IF i <= cycled
                THEN [name |-> UnloadCycle[((i - generated) % 4) + 1], n |-> ((i - generated) \div 4) + 1]
              ELSE [name |-> Closing[i - cycled], n |-> 1]
            steps == {step(i) : i \in 1..cycled + 3}
<1>1. Program = [i \in 1..cycled + 3 |-> step(i)]
  BY DEF Program
<1>2. Repeats \in Nat /\ Cycles \in Nat /\ generated \in Nat /\ cycled \in Nat /\ generated >= 6 /\ cycled >= generated
  BY CalibrationAssumption
<1>3. Len(Program) = cycled + 3
  <2>. HIDE DEF step
  <2>1. Program \in [1..cycled + 3 -> steps] /\ DOMAIN Program = 1..cycled + 3
    BY <1>1
  <2>. HIDE DEF steps
  <2>2. cycled + 3 \in Nat
    BY <1>2
  <2>. HIDE DEF cycled
  <2>3. Program \in Seq(steps)
    BY <2>1, <2>2, SeqDef
  <2>4. DOMAIN Program = 1..Len(Program) /\ Len(Program) \in Nat
    BY <2>3, LenProperties
  <2>. QED  BY <2>1, <2>2, <2>4
<1>4. ASSUME NEW i \in 1..cycled + 3, Program[i].name = "unloaded_end"
      PROVE  Program[i].n \in Nat /\ Program[i].n <= Cycles
  <2>1. i \in Int /\ 1 <= i /\ i <= cycled + 3
    BY <1>2, <1>4
  <2>2. Program[i] = step(i)
    <3>. HIDE DEF step, cycled
    <3>. QED  BY <1>1, <1>4
  <2>3. CASE i <= 6
    <3>1. step(i).name = Opening[i]
      BY <2>3
    <3>2. i = 1 \/ i = 2 \/ i = 3 \/ i = 4 \/ i = 5 \/ i = 6
      BY <2>1, <2>3
    <3>3. Opening[i] # "unloaded_end"
      BY <3>2 DEF Opening
    <3>. HIDE DEF step
    <3>. QED  BY <1>4, <2>2, <3>1, <3>3
  <2>4. CASE ~(i <= 6) /\ i <= generated
    <3>. DEFINE k == (i - 7) % 4
    <3>1. step(i).name = Repetition[k + 1]
      <4>. HIDE DEF generated, cycled, k
      <4>. QED  BY <2>4 DEF k
    <3>2. k = 0 \/ k = 1 \/ k = 2 \/ k = 3
      BY <2>1
    <3>. HIDE DEF k, step
    <3>3. Repetition[k + 1] # "unloaded_end"
      BY <3>2 DEF Repetition
    <3>. QED  BY <1>4, <2>2, <3>1, <3>3
  <2>5. CASE ~(i <= 6) /\ ~(i <= generated) /\ i <= cycled
    <3>1. step(i).n = ((i - generated) \div 4) + 1
      <4>. HIDE DEF generated, cycled
      <4>. QED  BY <2>5
    <3>2. i - generated \in Int /\ 1 <= i - generated /\ i - generated <= 4 * Cycles - 1
      BY <2>1, <2>5, <1>2
    <3>3. \A m \in Int : 1 <= m /\ m <= 4 * Cycles - 1 => (m \div 4) + 1 \in Nat /\ (m \div 4) + 1 <= Cycles
      BY <1>2
    <3>. HIDE DEF step, generated, cycled
    <3>. QED  BY <2>2, <3>1, <3>2, <3>3
  <2>6. CASE ~(i <= 6) /\ ~(i <= generated) /\ ~(i <= cycled)
    <3>1. step(i).name = Closing[i - cycled]
      <4>. HIDE DEF generated, cycled
      <4>. QED  BY <2>6
    <3>2. i - cycled = 1 \/ i - cycled = 2 \/ i - cycled = 3
      BY <2>1, <2>6, <1>2
    <3>3. Closing[i - cycled] # "unloaded_end"
      <4>. HIDE DEF cycled
      <4>. QED  BY <3>2 DEF Closing
    <3>. HIDE DEF step
    <3>. QED  BY <1>4, <2>2, <3>1, <3>3
  <2>. HIDE DEF step, generated, cycled
  <2>. QED  BY <2>3, <2>4, <2>5, <2>6
<1>5. cycled + 3 \in Nat
  BY <1>2
<1>. HIDE DEF cycled
<1>. QED  BY <1>3, <1>4, <1>5

(* The samples *)

SamplingType == [Threads -> [t : Nat, pids : SUBSET {"root", "child"}, at : Places]]

LEMMA PlacesFacts == Len(Program) \in Nat /\ Places \subseteq Nat
BY ProgramFacts DEF Places

LEMMA StampsKept ==
  ASSUME StampsInOrder, Stamps' \subseteq Stamps, clock' = clock,
         at \in Nat, at' \in Nat, at <= at'
  PROVE  StampsInOrder'
<1>1. \A s \in Stamps' : s.t \in 1..clock' /\ s.at \in 0..at'
  BY DEF StampsInOrder
<1>2. \A r, s \in Stamps' : r.t < s.t => r.at <= s.at
  BY DEF StampsInOrder
<1>. QED  BY <1>1, <1>2 DEF StampsInOrder

LEMMA SampleBeginsTypes ==
  ASSUME RunTypeOK, NEW th \in Threads, SampleBegins(th)
  PROVE  /\ tracked' \subseteq {"root", "child"} /\ since' \in 0..RefreshEvery - 1
         /\ clock' = clock + 1 /\ clock' \in Nat
         /\ sampling' = [sampling EXCEPT ![th] = [t |-> clock + 1, pids |-> tracked', at |-> at]]
         /\ sampling' \in SamplingType
<1>1. RefreshEvery \in Nat \ {0}
  BY CalibrationAssumption
<1>2. Resolves
  BY DEF SampleBegins
<1>3. tracked' \subseteq {"root", "child"} /\ since' \in 0..RefreshEvery - 1
  <2>1. tracked \subseteq {"root", "child"} /\ since \in 0..RefreshEvery - 1
    BY DEF RunTypeOK
  <2>2. CASE ~DueAgain
    <3>1. since' = since + 1 /\ tracked' = tracked /\ ~(since + 1 >= RefreshEvery)
      BY <1>2, <2>2 DEF Resolves, DueAgain
    <3>. QED  BY <1>1, <2>1, <3>1
  <2>3. CASE DueAgain
    <3>1. since' = 0 /\ (tracked' = Alive \/ tracked' = tracked)
      BY <1>2, <2>3 DEF Resolves, Keeps
    <3>2. Alive \subseteq {"root", "child"}
      BY DEF Alive
    <3>3. 0 \in 0..RefreshEvery - 1
      BY <1>1
    <3>. QED  BY <2>1, <3>1, <3>2, <3>3
  <2>. QED  BY <2>2, <2>3
<1>4. clock' = clock + 1 /\ clock' \in Nat
  BY DEF SampleBegins, RunTypeOK
<1>5. sampling' = [sampling EXCEPT ![th] = [t |-> clock + 1, pids |-> tracked', at |-> at]]
  BY DEF SampleBegins
<1>6. [t |-> clock + 1, pids |-> tracked', at |-> at] \in [t : Nat, pids : SUBSET {"root", "child"}, at : Places]
  BY <1>3, <1>4 DEF RunTypeOK
<1>7. sampling' \in SamplingType
  BY <1>5, <1>6 DEF RunTypeOK, SamplingType
<1>. QED  BY <1>3, <1>4, <1>5, <1>7

LEMMA SampleBeginsStamps ==
  ASSUME RunTypeOK, StampsInOrder, NEW th \in Threads, SampleBegins(th), samples' = samples, at' = at
  PROVE  Taken' = Taken /\ StampsInOrder'
<1>. DEFINE new == [t |-> clock + 1, at |-> at]
<1>1. clock \in Nat /\ at \in Nat
  BY PlacesFacts DEF RunTypeOK
<1>2. sampling' = [sampling EXCEPT ![th] = [t |-> clock + 1, pids |-> tracked', at |-> at]]
  BY SampleBeginsTypes
<1>3. Taken' = Taken
  BY DEF Taken
<1>4. Stamps' \subseteq Stamps \cup {new}
  <2>1. \A b \in Threads : sampling'[b] = IF b = th THEN [t |-> clock + 1, pids |-> tracked', at |-> at]
                                          ELSE sampling[b]
    BY <1>2 DEF RunTypeOK
  <2>2. ASSUME NEW b \in Threads, sampling'[b] # NotSampling
        PROVE  StampOf(sampling'[b]) \in Stamps \cup {new}
    BY <2>1, <2>2 DEF Stamps, StampOf
  <2>. QED  BY <1>3, <2>2 DEF Stamps
<1>5. \A s \in Stamps : s.t \in 1..clock /\ s.at \in 0..at
  BY DEF StampsInOrder
<1>6. \A s \in Stamps' : s.t \in 1..clock + 1 /\ s.at \in 0..at
  BY <1>1, <1>4, <1>5
<1>7. ASSUME NEW r \in Stamps', NEW s \in Stamps', r.t < s.t
      PROVE  r.at <= s.at
  <2>1. CASE s \in Stamps /\ r \in Stamps
    BY <1>7, <2>1 DEF StampsInOrder
  <2>2. CASE s = new
    BY <1>1, <1>6, <2>2
  <2>3. CASE r = new
    <3>1. s.t \in Int /\ s.t <= clock + 1
      BY <1>1, <1>6
    <3>2. r.t = clock + 1
      BY <2>3
    <3>. HIDE DEF new
    <3>. QED  BY <1>1, <1>7, <3>1, <3>2
  <2>. HIDE DEF new
  <2>. QED  BY <1>4, <2>1, <2>2, <2>3
<1>8. clock' = clock + 1
  BY DEF SampleBegins
<1>. QED  BY <1>3, <1>6, <1>7, <1>8 DEF StampsInOrder

LEMMA SampleEndsTakes ==
  ASSUME RunTypeOK, NEW th \in Threads, SampleEnds(th)
  PROVE  /\ IsSeries(samples') /\ UNCHANGED <<clock, tracked, since>>
         /\ sampling' = [sampling EXCEPT ![th] = NotSampling]
         /\ sampling' \in SamplingType
         /\ sampling[th] # NotSampling
         /\ Taken' = Taken \cup {StampOf(sampling[th])}
         /\ Stamps' \subseteq Stamps
<1>1. sampling[th] # NotSampling /\ UNCHANGED <<clock, tracked, since>>
      /\ sampling' = [sampling EXCEPT ![th] = NotSampling]
  BY DEF SampleEnds
<1>2. PICK ok \in BOOLEAN : samples' = Append(samples, Reading(sampling[th], ok))
  BY DEF SampleEnds
<1>. DEFINE new == Reading(sampling[th], ok)
<1>3. StampOf(new) = StampOf(sampling[th])
  BY DEF Reading, StampOf
<1>. HIDE DEF new
<1>4. samples' = Append(samples, new)
  BY <1>2 DEF new
<1>5. IsSeries(samples') /\ ToSet(samples') = ToSet(samples) \cup {new}
  BY <1>4, SeriesGrow DEF RunTypeOK
<1>6. Taken' = Taken \cup {StampOf(sampling[th])}
  BY <1>3, <1>5 DEF Taken
<1>7. sampling' \in SamplingType
  <2>1. NotSampling \in [t : Nat, pids : SUBSET {"root", "child"}, at : Places]
    BY PlacesFacts DEF NotSampling, Places
  <2>. QED  BY <1>1, <2>1 DEF RunTypeOK, SamplingType
<1>8. Stamps' \subseteq Stamps
  <2>1. \A b \in Threads : sampling'[b] # NotSampling => sampling'[b] = sampling[b]
    BY <1>1 DEF RunTypeOK
  <2>2. Taken' \subseteq Stamps
    BY <1>1, <1>6 DEF Stamps
  <2>3. ASSUME NEW b \in Threads, sampling'[b] # NotSampling
        PROVE  StampOf(sampling'[b]) \in Stamps
    BY <2>1, <2>3 DEF Stamps
  <2>. QED  BY <2>2, <2>3 DEF Stamps
<1>. QED  BY <1>1, <1>5, <1>6, <1>7, <1>8

(* The steps *)

LEMMA CalibrationInitInv == CalibrationInit => CalibrationInv
<1>. SUFFICES ASSUME CalibrationInit PROVE CalibrationInv
  OBVIOUS
<1>1. sampling \in SamplingType /\ \A th \in Threads : sampling[th] = NotSampling
  BY PlacesFacts DEF CalibrationInit, SamplingType, NotSampling, Threads, Places
<1>2. IsSeries(samples) /\ IsSeries(marks) /\ IsSeries(unloads)
      /\ Len(marks) = 0 /\ Len(unloads) = 0 /\ ToSet(samples) = {} /\ ToSet(marks) = {}
  BY EmptySeries DEF CalibrationInit
<1>3. at = 0 /\ clock = 0 /\ tracked = {} /\ since = 0 /\ op = "idle" /\ result = "running"
  BY DEF CalibrationInit
<1>4. RunTypeOK
  <2>1. 0 \in Places /\ 0 \in 0..RefreshEvery - 1 /\ 0 <= Cycles
    BY PlacesFacts, CalibrationAssumption DEF Places
  <2>. QED  BY <1>1, <1>2, <1>3, <2>1 DEF RunTypeOK, SamplingType
<1>5. Taken = {} /\ Stamps = {}
  BY <1>1, <1>2 DEF Taken, Stamps
<1>6. StampsInOrder /\ MarksAreTaken
  BY <1>2, <1>5 DEF StampsInOrder, MarksAreTaken
<1>7. RunnerStays
  BY <1>1, <1>3 DEF RunnerStays, Threads
<1>. QED  BY <1>4, <1>6, <1>7 DEF CalibrationInv

\* A step that leaves the samples alone, and goes no step back.
LEMMA SamplesAreKept ==
  ASSUME CalibrationInv, UNCHANGED <<clock, samples, sampling, marks>>, at' \in Places, at <= at'
  PROVE  StampsInOrder' /\ MarksAreTaken'
<1>1. UNCHANGED <<clock, samples, sampling, marks>>
  OBVIOUS
<1>2. Taken' = Taken /\ Stamps' = Stamps
  BY DEF Taken, Stamps
<1>3. at \in Nat /\ at' \in Nat
  BY PlacesFacts DEF CalibrationInv, RunTypeOK
<1>4. StampsInOrder'
  BY <1>1, <1>2, <1>3, StampsKept DEF CalibrationInv
<1>5. MarksAreTaken'
  BY <1>1, <1>2 DEF CalibrationInv, MarksAreTaken
<1>. QED  BY <1>4, <1>5

\* What such a step has to see to.
LEMMA MovesTypeOK ==
  ASSUME CalibrationInv, UNCHANGED <<clock, samples, sampling, tracked, since, marks, unloads>>,
         at' \in Places, at <= at',
         op' \in {"idle", "begun", "high"}, result' \in {"running", "blocked", "failed", "measured"}
  PROVE  RunTypeOK' /\ StampsInOrder' /\ MarksAreTaken'
<1>1. StampsInOrder' /\ MarksAreTaken'
  BY SamplesAreKept
<1>2. UNCHANGED <<clock, samples, sampling, tracked, since, marks, unloads>>
  OBVIOUS
<1>3. Len(marks) <= at' /\ (at' > 0 => Len(marks) < at')
  <2>1. at \in Nat /\ at' \in Nat /\ Len(marks) \in Nat
    BY PlacesFacts, LenProperties DEF CalibrationInv, RunTypeOK, IsSeries
  <2>2. Len(marks) <= at /\ (at > 0 => Len(marks) < at)
    BY DEF CalibrationInv, RunTypeOK
  <2>. QED  BY <2>1, <2>2
<1>4. RunTypeOK'
  BY <1>2, <1>3 DEF CalibrationInv, RunTypeOK, IsSeries
<1>. QED  BY <1>1, <1>4

LEMMA LoopBeginsInv == ASSUME CalibrationInv, LoopBegins PROVE CalibrationInv'
<1>1. SampleBegins("loop") /\ UNCHANGED <<at, op, samples, marks, unloads, result>> /\ "loop" \in Threads
  BY DEF LoopBegins, Threads
<1>2. /\ tracked' \subseteq {"root", "child"} /\ since' \in 0..RefreshEvery - 1 /\ clock' \in Nat
      /\ sampling' = [sampling EXCEPT !["loop"] = [t |-> clock + 1, pids |-> tracked', at |-> at]]
      /\ sampling' \in SamplingType
  BY <1>1, SampleBeginsTypes DEF CalibrationInv
<1>3. RunTypeOK'
  BY <1>1, <1>2 DEF CalibrationInv, RunTypeOK, IsSeries, SamplingType
<1>4. Taken' = Taken /\ StampsInOrder'
  BY <1>1, SampleBeginsStamps DEF CalibrationInv
<1>5. MarksAreTaken'
  BY <1>1, <1>4 DEF CalibrationInv, MarksAreTaken
<1>6. sampling'["runner"] = sampling["runner"]
  BY <1>2 DEF CalibrationInv, RunTypeOK, Threads
<1>7. RunnerStays'
  BY <1>1, <1>6 DEF CalibrationInv, RunnerStays, Running, AtMark, AtCall, Over, Step
<1>. QED  BY <1>3, <1>4, <1>5, <1>7 DEF CalibrationInv

LEMMA LoopEndsInv == ASSUME CalibrationInv, LoopEnds PROVE CalibrationInv'
<1>1. SampleEnds("loop") /\ UNCHANGED <<at, op, marks, unloads, result>> /\ "loop" \in Threads
  BY DEF LoopEnds, Threads
<1>2. /\ IsSeries(samples') /\ UNCHANGED <<clock, tracked, since>>
      /\ sampling' = [sampling EXCEPT !["loop"] = NotSampling] /\ sampling' \in SamplingType
      /\ Taken \subseteq Taken' /\ Stamps' \subseteq Stamps
  BY <1>1, SampleEndsTakes DEF CalibrationInv
<1>3. RunTypeOK'
  BY <1>1, <1>2 DEF CalibrationInv, RunTypeOK, IsSeries, SamplingType
<1>4. StampsInOrder'
  <2>1. at \in Nat /\ at' \in Nat /\ at <= at'
    BY <1>1, PlacesFacts DEF CalibrationInv, RunTypeOK
  <2>. QED  BY <1>2, <2>1, StampsKept DEF CalibrationInv
<1>5. MarksAreTaken'
  BY <1>1, <1>2 DEF CalibrationInv, MarksAreTaken
<1>6. sampling'["runner"] = sampling["runner"]
  BY <1>2 DEF CalibrationInv, RunTypeOK, Threads
<1>7. RunnerStays'
  BY <1>1, <1>6 DEF CalibrationInv, RunnerStays, Running, AtMark, AtCall, Over, Step
<1>. QED  BY <1>3, <1>4, <1>5, <1>7 DEF CalibrationInv

LEMMA RunnerSamplesInv == ASSUME CalibrationInv, RunnerSamples PROVE CalibrationInv'
<1>1. /\ SampleBegins("runner") /\ UNCHANGED <<at, op, samples, marks, unloads, result>>
      /\ "runner" \in Threads /\ (AtMark \/ Over) /\ Running
  BY DEF RunnerSamples, Threads, LoopIsGone
<1>2. /\ tracked' \subseteq {"root", "child"} /\ since' \in 0..RefreshEvery - 1 /\ clock' \in Nat
      /\ sampling' = [sampling EXCEPT !["runner"] = [t |-> clock + 1, pids |-> tracked', at |-> at]]
      /\ sampling' \in SamplingType
  BY <1>1, SampleBeginsTypes DEF CalibrationInv
<1>3. RunTypeOK'
  BY <1>1, <1>2 DEF CalibrationInv, RunTypeOK, IsSeries, SamplingType
<1>4. Taken' = Taken /\ StampsInOrder'
  BY <1>1, SampleBeginsStamps DEF CalibrationInv
<1>5. MarksAreTaken'
  BY <1>1, <1>4 DEF CalibrationInv, MarksAreTaken
<1>6. sampling'["runner"].at = at
  BY <1>1, <1>2 DEF CalibrationInv, RunTypeOK
<1>7. RunnerStays'
  BY <1>1, <1>6 DEF CalibrationInv, RunnerStays, Running, AtMark, AtCall, Over, Step
<1>. QED  BY <1>3, <1>4, <1>5, <1>7 DEF CalibrationInv

LEMMA MarkEndsInv == ASSUME CalibrationInv, MarkEnds PROVE CalibrationInv'
<1>1. /\ SampleEnds("runner") /\ UNCHANGED <<op, unloads, result>> /\ "runner" \in Threads
      /\ AtMark /\ Running
      /\ marks' = IF Starts THEN marks ELSE Append(marks, Marked)
      /\ at' = IF Starts THEN at ELSE at + 1
  BY DEF MarkEnds, Threads
<1>2. /\ IsSeries(samples') /\ UNCHANGED <<clock, tracked, since>>
      /\ sampling' = [sampling EXCEPT !["runner"] = NotSampling] /\ sampling' \in SamplingType
      /\ sampling["runner"] # NotSampling
      /\ Taken' = Taken \cup {StampOf(sampling["runner"])} /\ Stamps' \subseteq Stamps
  BY <1>1, SampleEndsTakes DEF CalibrationInv
<1>3. sampling["runner"].at = at /\ op = "idle"
  BY <1>1, <1>2 DEF CalibrationInv, RunnerStays, RunTypeOK, AtMark, AtCall
<1>4. at \in 1..Len(Program) /\ Len(Program) \in Nat /\ Len(marks) \in Nat /\ Len(marks) < at
  BY <1>1, PlacesFacts, LenProperties DEF AtMark, CalibrationInv, RunTypeOK, IsSeries
<1>5. at' \in Places /\ at <= at' /\ at \in Nat /\ at' \in Nat
  BY <1>1, <1>4 DEF Places
<1>6. /\ IsSeries(marks') /\ (marks' = marks \/ (Len(marks') = Len(marks) + 1 /\ at' = at + 1))
      /\ ToSet(marks') \subseteq ToSet(marks) \cup {Marked}
  <2>1. CASE Starts
    BY <1>1, <2>1 DEF CalibrationInv, RunTypeOK
  <2>2. CASE ~Starts
    BY <1>1, <2>2, SeriesGrow DEF CalibrationInv, RunTypeOK
  <2>. QED  BY <2>1, <2>2
<1>7. Len(marks') <= at' /\ Len(marks') < at'
  BY <1>4, <1>5, <1>6
<1>8. RunTypeOK'
  BY <1>1, <1>2, <1>5, <1>6, <1>7 DEF CalibrationInv, RunTypeOK, IsSeries, SamplingType
<1>9. StampsInOrder'
  BY <1>2, <1>5, StampsKept DEF CalibrationInv
<1>10. MarksAreTaken'
  <2>1. StampOf(Marked) = StampOf(sampling["runner"])
    BY <1>3 DEF StampOf, Marked
  <2>. QED  BY <1>2, <1>6, <2>1 DEF CalibrationInv, MarksAreTaken
<1>11. RunnerStays'
  BY <1>1, <1>2, <1>3 DEF CalibrationInv, RunTypeOK, RunnerStays
<1>. QED  BY <1>8, <1>9, <1>10, <1>11 DEF CalibrationInv

LEMMA StopsInv == ASSUME CalibrationInv, Stops PROVE CalibrationInv'
<1>1. Running /\ result' = "measured" /\ UNCHANGED <<at, op, marks, unloads>> /\ "runner" \in Threads
  BY DEF Stops, Threads
<1>2. RunnerStays'
  BY <1>1 DEF RunnerStays, Running
<1>3. at \in Nat /\ at' \in Nat /\ at <= at'
  BY <1>1, PlacesFacts DEF CalibrationInv, RunTypeOK
<1>4. CASE SampleEnds("runner")
  <2>1. /\ IsSeries(samples') /\ UNCHANGED <<clock, tracked, since>> /\ sampling' \in SamplingType
        /\ Taken \subseteq Taken' /\ Stamps' \subseteq Stamps
    BY <1>1, <1>4, SampleEndsTakes DEF CalibrationInv
  <2>2. RunTypeOK'
    BY <1>1, <2>1 DEF CalibrationInv, RunTypeOK, IsSeries, SamplingType
  <2>3. StampsInOrder'
    BY <1>3, <2>1, StampsKept DEF CalibrationInv
  <2>4. MarksAreTaken'
    BY <1>1, <2>1 DEF CalibrationInv, MarksAreTaken
  <2>. QED  BY <1>2, <2>2, <2>3, <2>4 DEF CalibrationInv
<1>5. CASE UNCHANGED seriesVars
  <2>1. at' \in Places /\ op' \in {"idle", "begun", "high"}
    BY <1>1 DEF CalibrationInv, RunTypeOK
  <2>. QED  BY <1>1, <1>2, <1>3, <1>5, <2>1, MovesTypeOK DEF CalibrationInv, seriesVars
<1>. QED  BY <1>4, <1>5 DEF Stops

LEMMA CutsUnloadInv == ASSUME CalibrationInv, CutsUnload PROVE CalibrationInv'
<1>. DEFINE window == Window("unload_start", "unloaded_end", Program[at - 1].n)
<1>1. /\ unloads' = Append(unloads, window) /\ Waits
      /\ UNCHANGED <<at, op, marks, result>> /\ UNCHANGED <<clock, samples, sampling, tracked, since>>
  BY DEF CutsUnload, seriesVars
<1>. HIDE DEF window
<1>2. IsSeries(unloads') /\ Len(unloads') = Len(unloads) + 1 /\ Len(unloads) \in Nat
  BY <1>1, SeriesGrow, LenProperties DEF CalibrationInv, RunTypeOK, IsSeries
<1>3. Len(unloads) < Cycles
  <2>1. at - 1 \in 1..Len(Program) /\ Program[at - 1].name = "unloaded_end" /\ Len(unloads) < Program[at - 1].n
    BY <1>1, ProgramFacts DEF Waits, AfterUnload
  <2>2. Program[at - 1].n \in Nat /\ Program[at - 1].n <= Cycles
    BY <2>1, ProgramFacts
  <2>3. Cycles \in Nat
    BY CalibrationAssumption
  <2>. QED  BY <1>2, <2>1, <2>2, <2>3
<1>4. Len(unloads') <= Cycles
  BY <1>2, <1>3, CalibrationAssumption
<1>5. RunTypeOK'
  BY <1>1, <1>2, <1>4 DEF CalibrationInv, RunTypeOK, IsSeries
<1>6. Taken' = Taken /\ Stamps' = Stamps
  BY <1>1 DEF Taken, Stamps
<1>7. StampsInOrder' /\ MarksAreTaken'
  BY <1>1, <1>6 DEF CalibrationInv, StampsInOrder, MarksAreTaken
<1>8. RunnerStays'
  BY <1>1 DEF CalibrationInv, RunnerStays, Running, AtMark, AtCall, Over, Step
<1>. QED  BY <1>5, <1>7, <1>8 DEF CalibrationInv

\* The pool and the world.
LEMMA MovesInv ==
  ASSUME CalibrationInv,
         Preflight \/ CallBegins \/ CallPeaks \/ CallReturns \/ CallFails \/ CallIsLost \/ ForeignMoves
  PROVE  CalibrationInv'
<1>1. at \in 0..Len(Program) + 1 /\ Len(Program) \in Nat
  BY PlacesFacts DEF CalibrationInv, RunTypeOK, Places
<1>2. CASE Preflight
  <2>1. /\ at = 0 /\ Running /\ op' = op /\ UNCHANGED <<seriesVars, marks, unloads>>
        /\ (at' = 1 /\ result' = result) \/ (result' = "blocked" /\ at' = at)
    BY <1>2 DEF Preflight
  <2>2. at' \in Places /\ at <= at'
    BY <1>1, <2>1 DEF Places
  <2>3. op = "idle" /\ sampling["runner"] = NotSampling
    BY <1>1, <2>1 DEF CalibrationInv, RunnerStays, AtMark, AtCall, Over
  <2>4. op' \in {"idle", "begun", "high"} /\ result' \in {"running", "blocked", "failed", "measured"}
    BY <2>1, <2>3 DEF Running
  <2>5. RunnerStays'
    BY <2>1, <2>3 DEF RunnerStays, seriesVars
  <2>. QED  BY <2>1, <2>2, <2>4, <2>5, MovesTypeOK DEF CalibrationInv, seriesVars
<1>3. CASE CallBegins \/ CallPeaks
  <2>1. /\ at' = at /\ result' = result /\ UNCHANGED <<seriesVars, marks, unloads>>
        /\ op' \in {"begun", "high"} /\ Running
    BY <1>3 DEF CallBegins, CallPeaks
  <2>2. AtCall
    BY <1>3 DEF CallBegins, CallPeaks, CalibrationInv, RunnerStays
  <2>3. RunnerStays'
    BY <2>1, <2>2 DEF CalibrationInv, RunnerStays, seriesVars, Running, AtMark, AtCall, Over, Step
  <2>4. at' \in Places /\ at <= at' /\ result' \in {"running", "blocked", "failed", "measured"}
        /\ op' \in {"idle", "begun", "high"}
    BY <1>1, <2>1 DEF CalibrationInv, RunTypeOK
  <2>. QED  BY <2>1, <2>3, <2>4, MovesTypeOK DEF CalibrationInv, seriesVars
<1>4. CASE CallReturns \/ CallIsLost \/ ForeignMoves \/ CallFails
  <2>1. CASE ForeignMoves
    <3>1. /\ UNCHANGED <<at, op, result>> /\ UNCHANGED <<marks, unloads, clock, samples, sampling, tracked, since>>
      BY <2>1 DEF ForeignMoves, seriesVars
    <3>2. RunTypeOK'
      BY <3>1 DEF CalibrationInv, RunTypeOK, IsSeries
    <3>3. Taken' = Taken /\ Stamps' = Stamps
      BY <3>1 DEF Taken, Stamps
    <3>4. StampsInOrder' /\ MarksAreTaken'
      BY <3>1, <3>3 DEF CalibrationInv, StampsInOrder, MarksAreTaken
    <3>5. RunnerStays'
      BY <3>1 DEF CalibrationInv, RunnerStays, Running, AtMark, AtCall, Over, Step
    <3>. QED  BY <3>2, <3>4, <3>5 DEF CalibrationInv
  <2>2. CASE CallReturns \/ CallIsLost
    <3>1. /\ at' = at + 1 /\ result' = result /\ op' = "idle" /\ Running /\ op # "idle"
          /\ UNCHANGED <<clock, samples, sampling, tracked, since, marks, unloads>>
      BY <2>2 DEF CallReturns, CallIsLost, seriesVars
    <3>2. AtCall
      BY <3>1 DEF CalibrationInv, RunnerStays
    <3>3. sampling["runner"] = NotSampling
      BY <3>1, <3>2, <1>1 DEF CalibrationInv, RunnerStays, AtCall, AtMark, Over
    <3>4. at' \in Places /\ at <= at'
      BY <1>1, <3>1, <3>2 DEF AtCall, Places
    <3>5. RunnerStays'
      BY <3>1, <3>3 DEF RunnerStays
    <3>6. result' \in {"running", "blocked", "failed", "measured"} /\ op' \in {"idle", "begun", "high"}
      BY <3>1 DEF Running
    <3>. QED  BY <3>1, <3>4, <3>5, <3>6, MovesTypeOK DEF CalibrationInv
  <2>3. CASE CallFails
    <3>1. /\ at' = Len(Program) + 1 /\ op' = "idle" /\ result' = "failed"
          /\ UNCHANGED <<clock, samples, sampling, tracked, since, marks, unloads>>
      BY <2>3 DEF CallFails
    <3>2. at' \in Places /\ at <= at' /\ at \in Nat /\ at' \in Nat
      BY <1>1, <3>1 DEF Places
    <3>3. Len(marks) <= at' /\ (at' > 0 => Len(marks) < at')
      <4>1. Len(marks) \in Nat /\ Len(marks) <= at /\ (at > 0 => Len(marks) < at)
        BY LenProperties DEF CalibrationInv, RunTypeOK, IsSeries
      <4>. QED  BY <3>2, <4>1
    <3>4. RunTypeOK'
      BY <3>1, <3>2, <3>3 DEF CalibrationInv, RunTypeOK, IsSeries
    <3>5. Taken' = Taken /\ Stamps' = Stamps
      BY <3>1 DEF Taken, Stamps
    <3>6. StampsInOrder' /\ MarksAreTaken'
      BY <3>1, <3>2, <3>5, StampsKept DEF CalibrationInv, MarksAreTaken
    <3>7. RunnerStays'
      BY <3>1 DEF RunnerStays, Running
    <3>. QED  BY <3>4, <3>6, <3>7 DEF CalibrationInv
  <2>. QED  BY <1>4, <2>1, <2>2, <2>3
<1>. QED  BY <1>2, <1>3, <1>4

LEMMA CalibrationNextInv == ASSUME CalibrationInv, [CalibrationNext]_calibrationVars PROVE CalibrationInv'
<1>1. CASE RunnerStep
  BY <1>1, MovesInv, RunnerSamplesInv, MarkEndsInv, CutsUnloadInv, StopsInv DEF RunnerStep
<1>2. CASE LoopBegins \/ LoopEnds \/ CallFails \/ CallIsLost \/ ForeignMoves
  BY <1>2, MovesInv, LoopBeginsInv, LoopEndsInv
<1>3. CASE UNCHANGED calibrationVars
  <2>1. UNCHANGED <<at, op, result, marks, unloads, clock, samples, sampling, tracked, since>>
    BY <1>3 DEF calibrationVars, seriesVars
  <2>2. RunTypeOK'
    BY <2>1 DEF CalibrationInv, RunTypeOK, IsSeries
  <2>3. Taken' = Taken /\ Stamps' = Stamps
    BY <2>1 DEF Taken, Stamps
  <2>4. StampsInOrder' /\ MarksAreTaken'
    BY <2>1, <2>3 DEF CalibrationInv, StampsInOrder, MarksAreTaken
  <2>5. RunnerStays'
    BY <2>1 DEF CalibrationInv, RunnerStays, Running, AtMark, AtCall, Over, Step
  <2>. QED  BY <2>2, <2>4, <2>5 DEF CalibrationInv
<1>. QED  BY <1>1, <1>2, <1>3 DEF CalibrationNext

LEMMA CalibrationInvImplies == CalibrationInv => CalibrationConsistent
<1>. SUFFICES ASSUME CalibrationInv PROVE CalibrationConsistent
  OBVIOUS
<1>1. Taken \subseteq Stamps
  BY DEF Stamps
<1>2. \A s \in ToSet(samples) : StampOf(s) \in Taken
  BY DEF Taken
<1>3. Len(marks) <= Len(Program)
  <2>1. Len(marks) \in Nat /\ at \in Nat /\ at <= Len(Program) + 1 /\ Len(Program) \in Nat
    BY PlacesFacts, LenProperties DEF CalibrationInv, RunTypeOK, Places, IsSeries
  <2>2. Len(marks) <= at /\ (at > 0 => Len(marks) < at)
    BY DEF CalibrationInv, RunTypeOK
  <2>. QED  BY <2>1, <2>2
<1>4. \A i \in DOMAIN samples : samples[i].t \in 1..clock
  <2>1. \A i \in DOMAIN samples : samples[i] \in ToSet(samples)
    BY DEF ToSet
  <2>2. \A s \in ToSet(samples) : s.t \in 1..clock
    BY <1>1, <1>2 DEF CalibrationInv, StampsInOrder, StampOf
  <2>. QED  BY <2>1, <2>2
<1>5. CalibrationTypeOK
  BY <1>3, <1>4 DEF CalibrationInv, RunTypeOK, Places, CalibrationTypeOK
<1>6. MarksSeparatePhases
  <2>. SUFFICES ASSUME NEW m \in ToSet(marks)
                PROVE  /\ \E s \in ToSet(samples) : s.t = m.t /\ s.at = m.at
                       /\ \A s \in ToSet(samples) : (s.t < m.t => s.at <= m.at) /\ (s.t > m.t => s.at >= m.at)
    BY DEF MarksSeparatePhases
  <2>1. PICK own \in ToSet(samples) : StampOf(m) = StampOf(own)
    BY DEF CalibrationInv, MarksAreTaken, Taken
  <2>2. own.t = m.t /\ own.at = m.at
    BY <2>1 DEF StampOf
  <2>3. \A r, s \in ToSet(samples) : /\ r.t \in 1..clock /\ r.at \in 0..at
                                     /\ r.t < s.t => r.at <= s.at
    BY <1>1, <1>2 DEF CalibrationInv, StampsInOrder, StampOf
  <2>4. clock \in Nat /\ at \in Nat
    BY PlacesFacts DEF CalibrationInv, RunTypeOK
  <2>. QED  BY <2>2, <2>3, <2>4
<1>. QED  BY <1>5, <1>6 DEF CalibrationConsistent

\* However many repetitions and cycles a calibration has, however often the loop thread
\* samples into it, and whatever fails meanwhile: the marks part what was sampled
\* before them from what was sampled after.
THEOREM CalibrationConsistentForAll == CalibrationSpec => []CalibrationConsistent
<1>1. CalibrationInv /\ [CalibrationNext]_calibrationVars => CalibrationInv'
  BY CalibrationNextInv
<1>. QED  BY <1>1, CalibrationInitInv, CalibrationInvImplies, PTL DEF CalibrationSpec

(***************************************************************************)
(* The verdict on learned peaks                                            *)
(***************************************************************************)

\* Of finitely many observations one is the largest.
LEMMA LargestExists ==
  ASSUME NEW peaks \in Seq(Nat), peaks # <<>>
  PROVE  \E top \in DOMAIN peaks : \A i \in DOMAIN peaks : peaks[top] >= peaks[i]
<1>. DEFINE D == DOMAIN peaks
            Above(i) == {k \in D : peaks[k] > peaks[i]}
            all == {Above(i) : i \in D}
            order == StrictSubsetOrdering(D)
<1>1. D = 1..Len(peaks) /\ Len(peaks) \in Nat /\ Len(peaks) # 0 /\ \A i \in D : peaks[i] \in Nat
  BY LenProperties, EmptySeq
<1>2. IsFiniteSet(D)
  BY <1>1, FS_Interval
<1>3. all \subseteq FiniteSubsetsOf(D)
  <2>1. \A i \in D : Above(i) \in SUBSET D
    OBVIOUS
  <2>. QED  BY <1>2, <2>1, FS_FiniteSubsetsOfFinite
<1>4. all # {}
  <2>1. 1 \in D
    BY <1>1
  <2>. QED  BY <2>1
<1>5. IsWellFoundedOn(order, FiniteSubsetsOf(D))
  BY FS_StrictSubsetOrderingWellFounded
<1>6. \E x \in all : \A y \in all : ~(<<y, x>> \in order)
  <2>. HIDE DEF all, order, D
  <2>. QED  BY <1>3, <1>4, <1>5, WFMin
<1>7. PICK top \in D : \A i \in D : ~(<<Above(i), Above(top)>> \in order)
  BY <1>6
<1>8. ASSUME NEW i \in D, ~(peaks[top] >= peaks[i])
      PROVE  FALSE
  <2>1. peaks[i] > peaks[top]
    BY <1>1, <1>8
  <2>2. Above(i) \subseteq Above(top) /\ i \in Above(top) /\ i \notin Above(i)
    BY <1>1, <2>1
  <2>3. <<Above(i), Above(top)>> \in order
    BY <2>2 DEF StrictSubsetOrdering
  <2>. QED  BY <1>7, <2>3
<1>. QED  BY <1>8

LEMMA LargestIsLargest ==
  ASSUME NEW peaks \in Seq(Nat), peaks # <<>>
  PROVE  /\ Largest(peaks) \in ToSet(peaks) /\ Largest(peaks) \in Nat
         /\ \A i \in DOMAIN peaks : Largest(peaks) >= peaks[i]
<1>. DEFINE isTop(x) == x \in ToSet(peaks) /\ \A y \in ToSet(peaks) : x >= y
<1>1. \E x : isTop(x)
  BY LargestExists DEF ToSet
<1>2. Largest(peaks) = CHOOSE x : isTop(x)
  BY DEF Largest, Max
<1>3. isTop(Largest(peaks))
  <2>. HIDE DEF isTop
  <2>. QED  BY <1>1, <1>2
<1>4. \A x \in ToSet(peaks) : x \in Nat
  BY LenProperties DEF ToSet
<1>. QED  BY <1>3, <1>4 DEF ToSet

\* Up to eleven observations, the 95th percentile is the largest of them.
LEMMA PercentileOfFew ==
  ASSUME NEW peaks \in Seq(Nat), Len(peaks) \in 1..11
  PROVE  Percentile95(peaks) = Largest(peaks)
<1>. DEFINE n == Len(peaks)
            D == DOMAIN peaks
            below(p) == {i \in D : peaks[i] < p}
            upTo(p) == {i \in D : peaks[i] <= p}
            isRanked(p) == p \in ToSet(peaks) /\ Cardinality(below(p)) <= n - 1 /\ Cardinality(upTo(p)) > n - 1
<1>1. D = 1..n /\ n \in Nat /\ peaks # <<>> /\ (\A i \in D : peaks[i] \in Nat)
      /\ IsFiniteSet(D) /\ Cardinality(D) = n
  <2>1. D = 1..n /\ n \in Nat /\ (\A i \in D : peaks[i] \in Nat)
    BY LenProperties
  <2>2. peaks # <<>>
    <3>1. Len(peaks) > 0
      BY <2>1
    <3>. QED  BY <3>1, EmptySeq
  <2>3. IsFiniteSet(1..n) /\ Cardinality(1..n) = n
    <3>1. n \in Nat
      OBVIOUS
    <3>. HIDE DEF n
    <3>. QED  BY <3>1, FS_Interval
  <2>. QED  BY <2>1, <2>2, <2>3
<1>2. Rounded(95 * (n - 1)) = n - 1
  <2>1. n = 1 \/ n = 2 \/ n = 3 \/ n = 4 \/ n = 5 \/ n = 6 \/ n = 7 \/ n = 8 \/ n = 9 \/ n = 10 \/ n = 11
    OBVIOUS
  <2>. HIDE DEF n
  <2>. QED  BY <2>1 DEF Rounded
<1>3. Percentile95(peaks) = CHOOSE p : isRanked(p)
  BY <1>2 DEF Percentile95
<1>4. PICK top \in D : peaks[top] = Largest(peaks)
  BY <1>1, LargestIsLargest DEF ToSet
<1>5. isRanked(Largest(peaks))
  <2>1. upTo(Largest(peaks)) = D
    BY <1>1, LargestIsLargest
  <2>2. top \notin below(Largest(peaks)) /\ below(Largest(peaks)) \in SUBSET D
    BY <1>1, <1>4
  <2>3. Cardinality(below(Largest(peaks))) <= n - 1
    <3>. DEFINE B == below(Largest(peaks))
    <3>1. B \in SUBSET D /\ B # D
      BY <2>2
    <3>. HIDE DEF B, D, n
    <3>2. Cardinality(B) \in Nat /\ Cardinality(B) <= n /\ Cardinality(B) # n
      BY <1>1, <3>1, FS_Subset, FS_CardinalityType
    <3>3. Cardinality(B) <= n - 1
      BY <1>1, <3>2
    <3>. QED  BY <3>3 DEF B, D, n
  <2>4. Cardinality(upTo(Largest(peaks))) > n - 1
    <3>. HIDE DEF n, D, upTo
    <3>. QED  BY <1>1, <2>1
  <2>5. Largest(peaks) \in ToSet(peaks)
    BY <1>1, LargestIsLargest
  <2>. QED  BY <2>3, <2>4, <2>5
<1>6. isRanked(Percentile95(peaks))
  <2>. HIDE DEF isRanked
  <2>. QED  BY <1>3, <1>5
<1>7. \A i \in D : peaks[i] <= Percentile95(peaks)
  <2>. DEFINE U == upTo(Percentile95(peaks))
  <2>1. U \in SUBSET D /\ Cardinality(U) > n - 1
    BY <1>6
  <2>. HIDE DEF U, D, n
  <2>2. Cardinality(U) \in Nat /\ Cardinality(U) <= n
    BY <1>1, <2>1, FS_Subset, FS_CardinalityType
  <2>3. Cardinality(U) = n
    BY <1>1, <2>1, <2>2
  <2>4. U = D
    BY <1>1, <2>1, <2>3, FS_Subset
  <2>. QED  BY <2>4 DEF U
<1>8. Percentile95(peaks) \in Nat /\ Percentile95(peaks) <= Largest(peaks)
  BY <1>1, <1>6, LargestIsLargest DEF ToSet
<1>. QED  BY <1>1, <1>4, <1>7, <1>8, LargestIsLargest

\* Rounding up to 64 MiB adds less than 64.
LEMMA RoundUpBounds ==
  ASSUME NEW x \in Nat
  PROVE  /\ RoundUpMib(x, 115) \in Nat /\ RoundUpMib(x, 125) \in Nat
         /\ 100 * RoundUpMib(x, 115) >= 115 * x /\ 100 * RoundUpMib(x, 115) < 115 * x + 6400
         /\ 100 * RoundUpMib(x, 125) >= 125 * x /\ 100 * RoundUpMib(x, 125) < 125 * x + 6400
<1>1. ASSUME NEW y \in Nat
      PROVE  /\ ((y + 6399) \div 6400) * 64 \in Nat
             /\ 100 * (((y + 6399) \div 6400) * 64) >= y /\ 100 * (((y + 6399) \div 6400) * 64) < y + 6400
  OBVIOUS
<1>2. x * 115 \in Nat /\ x * 125 \in Nat /\ x * 115 = 115 * x /\ x * 125 = 125 * x
  OBVIOUS
<1>. QED  BY <1>1, <1>2 DEF RoundUpMib

\* What a backend declares for a job in the classic mode that says no more of itself than
\* a static peak: that peak and the safety, or more for the least ones.
LEMMA StaticPeak ==
  ASSUME NEW desc, StaticOnly(desc), desc.vram_mib \in Nat,
         NEW mode, {"quant", "mem", "go", "streams"} \subseteq DOMAIN mode, Classic(mode)
  PROVE  /\ DeclaredPeak(desc, mode) \in Nat /\ DeclaredPeak(desc, mode) >= desc.vram_mib + Safety
         /\ desc.vram_mib >= 512 => DeclaredPeak(desc, mode) = desc.vram_mib + Safety
<1>. DEFINE asked == [mode EXCEPT !.streams = FALSE]
            v == desc.vram_mib
            static == Largest2(512, v \div 5)
            rest == (Largest2(0, v - static) * 100) \div 100
<1>1. asked.quant = "none" /\ ~asked.mem /\ ~asked.go /\ ~asked.streams
  BY DEF Classic
<1>. HIDE DEF asked
<1>2. WeightFactor(asked.quant) = 100
  BY <1>1 DEF WeightFactor
<1>3. DeclaredParts(desc, asked) = [weights |-> rest, activation |-> static]
  BY <1>1, <1>2 DEF DeclaredParts, StaticOnly
<1>. HIDE DEF static, rest
<1>4. DeclaredPeak(desc, mode) = rest + static + Safety
  <2>1. ~Applies(desc, asked)
    BY DEF Applies, StaticOnly
  <2>2. PeakVram(desc, asked) = SumOfParts(desc, asked)
    BY <2>1 DEF PeakVram
  <2>3. Parts(desc, asked) = DeclaredParts(desc, asked)
    BY <2>1 DEF Parts
  <2>. QED  BY <1>3, <2>2, <2>3 DEF DeclaredPeak, SumOfParts, asked
<1>5. static \in Nat /\ static >= 512 /\ (v >= 512 => static <= v)
  BY DEF static, Largest2
<1>6. rest = Largest2(0, v - static)
  <2>1. \A n \in Nat : (n * 100) \div 100 = n
    OBVIOUS
  <2>2. Largest2(0, v - static) \in Nat
    BY <1>5 DEF Largest2
  <2>. QED  BY <2>1, <2>2 DEF rest
<1>7. /\ rest + static \in Nat /\ rest + static >= v
      /\ v >= 512 => rest + static = v
  <2>1. \/ v >= static /\ rest = v - static
        \/ v < static /\ rest = 0
    BY <1>5, <1>6 DEF Largest2
  <2>. QED  BY <1>5, <2>1
<1>. QED  BY <1>4, <1>7 DEF Safety

\* A suggestion that is taken never brings the declared peak below what was observed, for
\* up to eleven observations, and ends the alarm when the largest is 2987 MiB or more; of
\* a backend with a static peak and nothing else, and for jobs in the classic mode.  (With
\* more observations, the 95th percentile may be so far below the largest that what is
\* suggested, five quarters of the largest, is still 1.4 times the percentile.)
THEOREM SuggestionsSettle ==
  ASSUME NEW desc, StaticOnly(desc), desc.vram_mib \in Nat,
         {"vram_mib", "measured", "footprint"} \subseteq DOMAIN desc,
         NEW mode, {"quant", "mem", "go", "streams"} \subseteq DOMAIN mode, Classic(mode),
         NEW peaks \in Seq(Nat), Len(peaks) \in 1..11, NEW minSamples \in Nat
  PROVE  Settles(desc, mode, peaks, minSamples)
<1>. DEFINE x == Largest(peaks)
            before == DeclaredPeak(desc, mode)
            suggested == Drift(peaks, before, minSamples).suggested
            taken == Applied(desc, suggested)
            after == DeclaredPeak(taken, mode)
<1>1. peaks # <<>> /\ Len(peaks) \in Nat
  <2>1. Len(peaks) \in Nat /\ Len(peaks) # 0
    <3>1. \A n \in 1..11 : n \in Nat /\ n # 0
      OBVIOUS
    <3>2. Len(peaks) \in 1..11
      OBVIOUS
    <3>. QED  BY ONLY <3>1, <3>2
  <2>2. Len(<<>>) = 0
    BY ONLY EmptySeq
  <2>3. peaks # <<>>
    BY ONLY <2>1, <2>2
  <2>. QED  BY ONLY <2>1, <2>3
<1>2. x \in Nat /\ Percentile95(peaks) = x
  <2>1. x \in Nat
    BY <1>1, LargestIsLargest, LenProperties
  <2>. QED  BY <2>1, PercentileOfFew
<1>. SUFFICES ASSUME suggested > 0
              PROVE  /\ Drift(peaks, after, minSamples).verdict # "underprovisioned"
                     /\ x >= 2987 => Drift(peaks, after, minSamples).verdict = "ok"
  BY DEF Settles
<1>3. before \in Nat
  BY StaticPeak
<1>. HIDE DEF x, before
<1>4. ~(Len(peaks) < minSamples) /\ (suggested = RoundUpMib(x, 115) \/ suggested = RoundUpMib(x, 125))
  <2>1. /\ Len(peaks) < minSamples => suggested = 0
        /\ ~(Len(peaks) < minSamples) =>
             suggested = 0 \/ suggested = RoundUpMib(x, 115) \/ suggested = RoundUpMib(x, 125)
    BY <1>2 DEF Drift, OverFactor, x
  <2>. QED  BY <2>1
<1>5. suggested \in Nat /\ suggested >= x /\ 100 * suggested < 125 * x + 6400
  <2>1. /\ RoundUpMib(x, 115) \in Nat /\ RoundUpMib(x, 125) \in Nat
        /\ 100 * RoundUpMib(x, 115) >= 115 * x /\ 100 * RoundUpMib(x, 115) < 115 * x + 6400
        /\ 100 * RoundUpMib(x, 125) >= 125 * x /\ 100 * RoundUpMib(x, 125) < 125 * x + 6400
    BY <1>2, RoundUpBounds
  <2>. HIDE DEF suggested
  <2>2. CASE suggested = RoundUpMib(x, 115)
    BY SMTT(30), <1>2, <2>1, <2>2
  <2>3. CASE suggested = RoundUpMib(x, 125)
    BY SMTT(30), <1>2, <2>1, <2>3
  <2>. QED  BY <1>4, <2>2, <2>3
<1>. HIDE DEF suggested
<1>6. taken.vram_mib = suggested /\ StaticOnly(taken)
  BY DEF Applied, StaticOnly, FootprintKnown
<1>. HIDE DEF taken
<1>7. after \in Nat /\ after >= suggested + 384 /\ (suggested >= 512 => after = suggested + 384)
  <2>1. taken.vram_mib \in Nat
    BY <1>5, <1>6
  <2>2. /\ after \in Nat /\ after >= taken.vram_mib + Safety
        /\ taken.vram_mib >= 512 => after = taken.vram_mib + Safety
    BY <1>6, <2>1, StaticPeak
  <2>. HIDE DEF after
  <2>. QED  BY <1>6, <2>2 DEF Safety
<1>. HIDE DEF after
<1>8. ~(x > after) /\ (x >= 2987 => ~(10 * after >= 14 * x))
  BY SMTT(30), <1>2, <1>5, <1>7
<1>. QED  BY <1>2, <1>4, <1>8 DEF Drift

(***************************************************************************)
(* What the admission asks for                                             *)
(***************************************************************************)

Flags == {Absent, "yes", "no"}
FootprintType == [weights : Nat, activation : Nat, largest : Nat]
KwargsType(quants) ==
  [sdnq_preset : quants, quant_mode : quants, quant_preset : quants,
   memory_efficient : Flags, allow_group_offload : Flags, streams_on_load : Flags,
   footprint_key : FootprintType]
\* A descriptor, so far as the peaks depend on it.  One with a measured block has the peak
\* of the run in it, as a calibration writes it; it may then say what to admit by, too.
IsDescriptor(desc) ==
  /\ desc.measured \in BOOLEAN /\ desc.vram_mib \in Nat
  /\ desc.footprint \in FootprintType
  /\ desc.vram \in [weights : Nat, activation : Nat, context : Nat,
                    peak_mib : Nat, safety_mib : Nat, admit_peak_mib : Nat]
  /\ desc.profile.memory_efficient_with_quant \in BOOLEAN
  /\ desc.profile.group_offload_with_memory_efficient \in BOOLEAN
  /\ desc.profile.streams_on_load_with_memory_efficient \in BOOLEAN
  /\ desc.measured /\ desc.vram.admit_peak_mib > 0 => desc.vram.peak_mib > 0

LEMMA FirstOfThree ==
  ASSUME NEW a, NEW b, NEW c, NEW otherwise
  PROVE  FirstGiven(<<a, b, c>>, otherwise) =
           IF a # Absent THEN a ELSE IF b # Absent THEN b ELSE IF c # Absent THEN c ELSE otherwise
<1>. DEFINE values == <<a, b, c>>
            given == {i \in DOMAIN values : values[i] # Absent}
            isLeast(x) == x \in given /\ \A y \in given : x <= y
<1>1. /\ DOMAIN values = {1, 2, 3}
      /\ values[1] = a /\ values[2] = b /\ values[3] = c
  OBVIOUS
<1>2. given \subseteq {1, 2, 3} /\ (1 \in given <=> a # Absent) /\ (2 \in given <=> b # Absent)
      /\ (3 \in given <=> c # Absent)
  BY <1>1
<1>3. FirstGiven(values, otherwise) = IF given = {} THEN otherwise ELSE values[Min(given)]
  BY DEF FirstGiven
<1>. HIDE DEF values, given
<1>4. Min(given) = CHOOSE x : isLeast(x)
  BY DEF Min
<1>5. given # {} => \E x \in {1, 2, 3} : isLeast(x)
  <2>1. CASE 1 \in given
    <3>1. isLeast(1)
      BY <1>2, <2>1
    <3>. QED  BY <3>1
  <2>2. CASE 1 \notin given /\ 2 \in given
    <3>1. isLeast(2)
      BY <1>2, <2>2
    <3>. QED  BY <3>1
  <2>3. CASE 1 \notin given /\ 2 \notin given /\ 3 \in given
    <3>1. isLeast(3)
      BY <1>2, <2>3
    <3>. QED  BY <3>1
  <2>. QED  BY <1>2, <2>1, <2>2, <2>3
<1>6. given # {} => isLeast(Min(given))
  <2>. HIDE DEF isLeast
  <2>. QED  BY <1>4, <1>5
<1>7. FirstGiven(values, otherwise) =
        IF a # Absent THEN a ELSE IF b # Absent THEN b ELSE IF c # Absent THEN c ELSE otherwise
  <2>1. CASE given = {}
    BY <1>2, <1>3, <2>1
  <2>2. CASE given # {}
    <3>. DEFINE least == Min(given)
    <3>1. least \in given /\ \A y \in given : least <= y
      BY <1>6, <2>2
    <3>2. FirstGiven(values, otherwise) = values[least]
      BY <1>3, <2>2
    <3>. HIDE DEF isLeast, least
    <3>3. CASE a # Absent
      <4>1. least <= 1
        BY <1>2, <3>1, <3>3
      <4>2. least = 1
        BY <1>2, <3>1, <4>1
      <4>. QED  BY <1>1, <3>2, <3>3, <4>2
    <3>4. CASE a = Absent /\ b # Absent
      <4>1. least <= 2 /\ least # 1
        BY <1>2, <3>1, <3>4
      <4>2. least = 2
        BY <1>2, <3>1, <4>1
      <4>. QED  BY <1>1, <3>2, <3>4, <4>2
    <3>5. CASE a = Absent /\ b = Absent
      <4>1. least = 3 /\ c # Absent
        BY <1>2, <3>1, <3>5
      <4>. QED  BY <1>1, <3>2, <3>5, <4>1
    <3>. QED  BY <3>3, <3>4, <3>5
  <2>. QED  BY <2>1, <2>2
<1>. QED  BY <1>7 DEF values

LEMMA QuantIsGiven == ASSUME NEW kw PROVE QuantOf(kw) # Absent
<1>1. QuantOf(kw) =
        IF kw.sdnq_preset # Absent THEN kw.sdnq_preset
        ELSE IF kw.quant_mode # Absent THEN kw.quant_mode
        ELSE IF kw.quant_preset # Absent THEN kw.quant_preset
        ELSE IF kw.memory_efficient = "yes" THEN "sdnq-uint8" ELSE "none"
  BY FirstOfThree DEF QuantOf
<1>. QED  BY <1>1 DEF Absent

LEMMA LargestInt == ASSUME NEW a \in Int, NEW b \in Int PROVE Largest2(a, b) \in Int
BY DEF Largest2

LEMMA MibInt == ASSUME NEW a \in Int PROVE MibOf(a) \in Int
BY DEF MibOf

LEMMA DiscountedInt == ASSUME NEW a \in Int PROVE Discounted(a) \in Int
BY DEF Discounted, Largest2

LEMMA PercentInt == ASSUME NEW a \in Int, NEW b \in Int PROVE (a * b) \div 100 \in Int
<1>1. a * b \in Int
  OBVIOUS
<1>2. ASSUME NEW n \in Int PROVE n \div 100 \in Int
  OBVIOUS
<1>. QED  BY <1>1, <1>2

LEMMA HundredthsInt == ASSUME NEW a \in Int, NEW b \in Int PROVE (a * b * 1024) \div 10000 \in Int
<1>1. a * b \in Int
  OBVIOUS
<1>2. ASSUME NEW n \in Int PROVE (n * 1024) \div 10000 \in Int
  OBVIOUS
<1>. QED  BY <1>1, <1>2

LEMMA DeclaredAreInts ==
  ASSUME NEW desc, IsDescriptor(desc), NEW mode
  PROVE  DeclaredParts(desc, mode).weights \in Int /\ DeclaredParts(desc, mode).activation \in Int
<1>. DEFINE fp == desc.footprint
            factor == WeightFactor(mode.quant)
            fifth == desc.vram_mib \div 5
            static == Largest2(512, fifth)
            over == desc.vram_mib - static
            dynamic == Largest2(0, over)
            rest == (dynamic * factor) \div 100
            part == (rest * 40) \div 100
            largest == LargestMib(fp, mode.quant)
            full == IF FootprintKnown(desc) THEN MibOf(fp.activation) ELSE static
<1>1. /\ fp.weights \in Int /\ fp.activation \in Int /\ fp.largest \in Int /\ desc.vram_mib \in Int
      /\ fifth \in Int /\ 512 \in Int /\ 0 \in Int /\ 256 \in Int /\ 40 \in Int
  BY DEF IsDescriptor, FootprintType
<1>2. factor \in Int
  BY DEF WeightFactor
<1>. HIDE DEF fp, factor, fifth
<1>3. static \in Int
  BY <1>1, LargestInt
<1>4. over \in Int
  <2>. HIDE DEF static
  <2>. QED  BY <1>1, <1>3
<1>. HIDE DEF static, over
<1>5. dynamic \in Int
  BY <1>1, <1>4, LargestInt
<1>. HIDE DEF dynamic
<1>6. rest \in Int
  BY <1>2, <1>5, PercentInt
<1>. HIDE DEF rest
<1>7. part \in Int
  BY <1>1, <1>6, PercentInt
<1>. HIDE DEF part
<1>8. WeightsMib(fp, mode.quant) \in Int
  BY <1>1, <1>2, HundredthsInt DEF WeightsMib, factor
<1>9. largest \in Int
  <2>1. (fp.largest * factor * 1024) \div 10000 \in Int
    BY <1>1, <1>2, HundredthsInt
  <2>2. (WeightsMib(fp, mode.quant) * 40) \div 100 \in Int
    BY <1>1, <1>8, PercentInt
  <2>. QED  BY <2>1, <2>2 DEF LargestMib, factor
<1>. HIDE DEF largest
<1>10. full \in Int
  BY <1>1, <1>3, MibInt
<1>. HIDE DEF full
<1>11. Largest2(256, largest) \in Int /\ Largest2(256, part) \in Int /\ Largest2(512, full) \in Int
       /\ Discounted(full) \in Int
  BY ZenonT(60), <1>1, <1>7, <1>9, <1>10, LargestInt, DiscountedInt
<1>12. \/ DeclaredParts(desc, mode).weights = Largest2(256, largest)
       \/ DeclaredParts(desc, mode).weights = WeightsMib(fp, mode.quant)
       \/ DeclaredParts(desc, mode).weights = Largest2(256, part)
       \/ DeclaredParts(desc, mode).weights = rest
  BY DEF DeclaredParts, largest, part, rest, dynamic, over, static, fifth, factor, fp
<1>13. \/ DeclaredParts(desc, mode).activation = Discounted(full)
       \/ DeclaredParts(desc, mode).activation = Largest2(512, full)
       \/ DeclaredParts(desc, mode).activation = full
  BY DEF DeclaredParts, full, static, fifth, fp
<1>. QED  BY <1>6, <1>8, <1>10, <1>11, <1>12, <1>13

LEMMA SumIsInt ==
  ASSUME NEW desc, IsDescriptor(desc), NEW mode
  PROVE  SumOfParts(desc, mode) \in Int
<1>1. /\ desc.vram.weights \in Int /\ desc.vram.activation \in Int /\ desc.vram.context \in Int
  BY DEF IsDescriptor
<1>. DEFINE weights == MibOf(desc.vram.weights)
            context == MibOf(desc.vram.context)
            activation == MibOf(desc.vram.activation)
<1>2. weights \in Int /\ context \in Int /\ activation \in Int
  BY <1>1, MibInt
<1>. HIDE DEF weights, context, activation
<1>3. Discounted(activation) \in Int
  BY <1>2, DiscountedInt
<1>4. MeasuredParts(desc, mode).weights = weights + context
  BY DEF MeasuredParts, weights, context
<1>5. \/ MeasuredParts(desc, mode).activation = Discounted(activation)
      \/ MeasuredParts(desc, mode).activation = activation
  BY DEF MeasuredParts, activation
<1>6. MeasuredParts(desc, mode).weights \in Int /\ MeasuredParts(desc, mode).activation \in Int
  BY <1>2, <1>3, <1>4, <1>5
<1>7. Parts(desc, mode).weights \in Int /\ Parts(desc, mode).activation \in Int
  BY <1>6, DeclaredAreInts DEF Parts
<1>. QED  BY <1>7 DEF SumOfParts, Safety

\* The load of a request in the mode it tells: what it is given of the kwargs.
LEMMA LoadTakes ==
  ASSUME NEW desc, NEW kw, DOMAIN kw = DOMAIN NoKwargs, ModeGetsThrough(desc, kw)
  PROVE  LET taken == LoadKwargs(desc, kw) IN
         /\ taken.sdnq_preset = kw.sdnq_preset /\ taken.quant_mode = kw.quant_mode
         /\ taken.quant_preset = kw.quant_preset /\ taken.memory_efficient = kw.memory_efficient
         /\ taken.allow_group_offload = kw.allow_group_offload
         /\ kw.streams_on_load = Absent \/ "streams_on_load" \notin LoadKeysFor(desc) =>
              taken.streams_on_load = Absent
         /\ kw.footprint_key = NoFootprint \/ "footprint_key" \notin LoadKeysFor(desc) =>
              taken.footprint_key = NoFootprint
<1>1. /\ DOMAIN kw = ModeKeys \cup {"streams_on_load", "footprint_key"}
      /\ \A key \in ModeKeys \cup {"streams_on_load"} : NoKwargs[key] = Absent
      /\ NoKwargs["footprint_key"] = NoFootprint
  BY DEF NoKwargs, ModeKeys
<1>2. \A key \in DOMAIN kw :
        LoadKwargs(desc, kw)[key] = IF key \in LoadKeysFor(desc) THEN kw[key] ELSE NoKwargs[key]
  BY DEF LoadKwargs
<1>3. \A key \in ModeKeys : LoadKwargs(desc, kw)[key] = kw[key]
  BY <1>1, <1>2 DEF ModeGetsThrough
<1>. QED  BY <1>1, <1>2, <1>3 DEF ModeKeys

\* Kwargs that tell the same mode, but for the streaming.
LEMMA ModeIsTold ==
  ASSUME NEW profile, NEW a, NEW b,
         a.sdnq_preset = b.sdnq_preset, a.quant_mode = b.quant_mode, a.quant_preset = b.quant_preset,
         a.memory_efficient = b.memory_efficient, a.allow_group_offload = b.allow_group_offload
  PROVE  /\ ModeOf(profile, a).quant = ModeOf(profile, b).quant
         /\ ModeOf(profile, a).mem = ModeOf(profile, b).mem
         /\ ModeOf(profile, a).go = ModeOf(profile, b).go
<1>1. QuantOf(a) = QuantOf(b)
  BY DEF QuantOf
<1>. QED  BY <1>1 DEF ModeOf

LEMMA ModeParts ==
  ASSUME NEW profile, NEW kw
  PROVE  LET mode == ModeOf(profile, kw) IN
         /\ mode.quant = QuantOf(kw) /\ mode.mem \in BOOLEAN
         /\ mode.mem = Given(kw.memory_efficient, profile.memory_efficient_with_quant /\ IsSdnq(QuantOf(kw)))
         /\ mode.go = Given(kw.allow_group_offload, profile.group_offload_with_memory_efficient /\ mode.mem)
         /\ mode.streams = Given(kw.streams_on_load, profile.streams_on_load_with_memory_efficient /\ mode.mem)
         /\ mode = [quant |-> mode.quant, mem |-> mode.mem, go |-> mode.go, streams |-> mode.streams]
BY DEF ModeOf, Given

\* What ensure_vram() frees for a request is enough for the load the same request makes,
\* whatever the descriptor declares and whatever was measured of it, when the kwargs that
\* tell the quantization and the placement get to the load and those that ensure_vram() is
\* not told of, a footprint_key and streams_on_load, do not.
THEOREM EnsureMakesRoomForAll ==
  ASSUME NEW desc, IsDescriptor(desc), NEW quants, NEW kw \in KwargsType(quants), PassedOn(desc, kw)
  PROVE  RoomForLoad(desc, kw)
<1>. DEFINE profile == desc.profile
            mode == ModeOf(profile, kw)
            told == [kw EXCEPT !.sdnq_preset = Absent, !.quant_preset = Absent, !.quant_mode = mode.quant,
                               !.memory_efficient = IF mode.mem THEN "yes" ELSE "no",
                               !.streams_on_load = Absent, !.footprint_key = NoFootprint]
            taken == LoadKwargs(desc, kw)
            asked == ModeOf(profile, told)
            last == ModeOf(profile, taken)
<1>1. /\ told.sdnq_preset = Absent /\ told.quant_preset = Absent /\ told.quant_mode = mode.quant
      /\ told.memory_efficient = (IF mode.mem THEN "yes" ELSE "no")
      /\ told.streams_on_load = Absent /\ told.allow_group_offload = kw.allow_group_offload
  <2>. HIDE DEF mode
  <2>. QED  BY DEF KwargsType
<1>2. /\ taken.sdnq_preset = kw.sdnq_preset /\ taken.quant_mode = kw.quant_mode
      /\ taken.quant_preset = kw.quant_preset /\ taken.memory_efficient = kw.memory_efficient
      /\ taken.allow_group_offload = kw.allow_group_offload
      /\ taken.streams_on_load = Absent /\ taken.footprint_key = NoFootprint
  <2>1. DOMAIN kw = DOMAIN NoKwargs
    BY DEF KwargsType, NoKwargs
  <2>. QED  BY <2>1, LoadTakes DEF PassedOn
<1>3. EnsureTarget(desc, 0, kw) = Largest2(0, PeakVram(desc, asked))
  BY DEF EnsureTarget
<1>4. LoadPeakOf(desc, kw) = LoadPeak(desc, last)
  BY <1>2 DEF LoadPeakOf, NamesFootprint
<1>. HIDE DEF told, taken
<1>5. last.quant = mode.quant /\ last.mem = mode.mem /\ last.go = mode.go
  BY <1>2, ModeIsTold
<1>6. mode.quant # Absent /\ mode.mem \in BOOLEAN
  <2>1. mode.quant = QuantOf(kw) /\ mode.mem \in BOOLEAN
    BY ModeParts
  <2>. QED  BY <2>1, QuantIsGiven
<1>7. asked.quant = mode.quant
  <2>1. asked.quant = QuantOf(told)
    BY ModeParts
  <2>2. QuantOf(told) =
          IF told.sdnq_preset # Absent THEN told.sdnq_preset
          ELSE IF told.quant_mode # Absent THEN told.quant_mode
          ELSE IF told.quant_preset # Absent THEN told.quant_preset
          ELSE IF told.memory_efficient = "yes" THEN "sdnq-uint8" ELSE "none"
    BY FirstOfThree DEF QuantOf
  <2>. HIDE DEF mode, asked
  <2>. QED  BY <1>1, <1>6, <2>1, <2>2
<1>8. asked.mem = mode.mem
  <2>1. asked.mem = Given(told.memory_efficient, profile.memory_efficient_with_quant /\ IsSdnq(QuantOf(told)))
    BY ModeParts
  <2>. HIDE DEF mode, asked
  <2>. QED  BY <1>1, <1>6, <2>1 DEF Given, Absent
<1>9. asked.go = mode.go
  <2>1. /\ asked.go = Given(told.allow_group_offload, profile.group_offload_with_memory_efficient /\ asked.mem)
        /\ mode.go = Given(kw.allow_group_offload, profile.group_offload_with_memory_efficient /\ mode.mem)
    BY ModeParts
  <2>. HIDE DEF mode, asked
  <2>. QED  BY <1>1, <1>8, <2>1
<1>10. asked = last
  <2>1. /\ asked.streams = Given(told.streams_on_load, profile.streams_on_load_with_memory_efficient /\ asked.mem)
        /\ last.streams = Given(taken.streams_on_load, profile.streams_on_load_with_memory_efficient /\ last.mem)
        /\ asked = [quant |-> asked.quant, mem |-> asked.mem, go |-> asked.go, streams |-> asked.streams]
        /\ last = [quant |-> last.quant, mem |-> last.mem, go |-> last.go, streams |-> last.streams]
    BY ModeParts
  <2>. HIDE DEF mode, asked, last
  <2>2. asked.quant = last.quant /\ asked.mem = last.mem /\ asked.go = last.go
    BY <1>5, <1>7, <1>8, <1>9
  <2>3. asked.streams = last.streams
    BY <1>1, <1>2, <2>1, <2>2
  <2>. QED  BY <2>1, <2>2, <2>3
<1>. HIDE DEF asked, last
<1>11. PeakVram(desc, last) = LoadPeak(desc, last)
  BY DEF PeakVram, LoadPeak, IsDescriptor, Applies
<1>12. LoadPeak(desc, last) \in Int
  BY SumIsInt DEF LoadPeak, IsDescriptor
<1>13. Largest2(0, LoadPeak(desc, last)) >= LoadPeak(desc, last)
  BY <1>12 DEF Largest2
<1>. QED  BY <1>3, <1>4, <1>10, <1>11, <1>13 DEF RoomForLoad

(***************************************************************************)
(* The plan of evictions                                                   *)
(***************************************************************************)

Backend == [mib : Nat, priority : Int, refs : Nat, frees : BOOLEAN, used : Int]

\* Of finitely many numbers one is the least.
LEMMA LeastOfMany ==
  ASSUME NEW S \in SUBSET Int, IsFiniteSet(S), S # {}
  PROVE  \E least \in S : \A k \in S : least <= k
<1>. DEFINE Beyond(i) == {k \in S : k < i}
            all == {Beyond(i) : i \in S}
            order == StrictSubsetOrdering(S)
<1>1. all \subseteq FiniteSubsetsOf(S)
  <2>1. \A i \in S : Beyond(i) \in SUBSET S
    OBVIOUS
  <2>. QED  BY <2>1, FS_FiniteSubsetsOfFinite
<1>2. IsWellFoundedOn(order, FiniteSubsetsOf(S))
  BY FS_StrictSubsetOrderingWellFounded
<1>3. \E x \in all : \A y \in all : ~(<<y, x>> \in order)
  <2>1. all # {}
    OBVIOUS
  <2>. HIDE DEF all, order
  <2>. QED  BY <1>1, <1>2, <2>1, WFMin
<1>4. PICK least \in S : \A i \in S : ~(<<Beyond(i), Beyond(least)>> \in order)
  BY <1>3
<1>5. ASSUME NEW k \in S, ~(least <= k)
      PROVE  FALSE
  <2>1. k \in Beyond(least) /\ k \notin Beyond(k)
    BY <1>5
  <2>2. Beyond(k) \subseteq Beyond(least)
    <3>1. k \in Int /\ least \in Int /\ k < least
      BY <1>5
    <3>2. \A i \in S : i \in Int /\ (i < k => i < least)
      BY <3>1
    <3>. QED  BY <3>2
  <2>3. <<Beyond(k), Beyond(least)>> \in order
    BY <2>1, <2>2 DEF StrictSubsetOrdering
  <2>. QED  BY <1>4, <1>5, <2>3
<1>. QED  BY <1>5

LEMMA MinHolds ==
  ASSUME NEW S \in SUBSET Int, IsFiniteSet(S), S # {}
  PROVE  Min(S) \in S /\ \A k \in S : Min(S) <= k
<1>. DEFINE is(x) == x \in S /\ \A k \in S : x <= k
<1>1. Min(S) = CHOOSE x : is(x)
  BY DEF Min
<1>2. \E x : is(x)
  BY LeastOfMany
<1>3. is(Min(S))
  <2>. HIDE DEF is
  <2>. QED  BY <1>1, <1>2
<1>. QED  BY <1>3

\* Of finitely many numbers one is the greatest.
LEMMA GreatestOfMany ==
  ASSUME NEW S \in SUBSET Int, IsFiniteSet(S), S # {}
  PROVE  \E greatest \in S : \A k \in S : k <= greatest
<1>. DEFINE Beyond(i) == {k \in S : i < k}
            all == {Beyond(i) : i \in S}
            order == StrictSubsetOrdering(S)
<1>1. all \subseteq FiniteSubsetsOf(S)
  <2>1. \A i \in S : Beyond(i) \in SUBSET S
    OBVIOUS
  <2>. QED  BY <2>1, FS_FiniteSubsetsOfFinite
<1>2. IsWellFoundedOn(order, FiniteSubsetsOf(S))
  BY FS_StrictSubsetOrderingWellFounded
<1>3. \E x \in all : \A y \in all : ~(<<y, x>> \in order)
  <2>1. all # {}
    OBVIOUS
  <2>. HIDE DEF all, order
  <2>. QED  BY <1>1, <1>2, <2>1, WFMin
<1>4. PICK greatest \in S : \A i \in S : ~(<<Beyond(i), Beyond(greatest)>> \in order)
  BY <1>3
<1>5. ASSUME NEW k \in S, ~(k <= greatest)
      PROVE  FALSE
  <2>1. k \in Beyond(greatest) /\ k \notin Beyond(k)
    BY <1>5
  <2>2. Beyond(k) \subseteq Beyond(greatest)
    <3>1. k \in Int /\ greatest \in Int /\ greatest < k
      BY <1>5
    <3>2. \A i \in S : i \in Int /\ (k < i => greatest < i)
      BY <3>1
    <3>. QED  BY <3>2
  <2>3. <<Beyond(k), Beyond(greatest)>> \in order
    BY <2>1, <2>2 DEF StrictSubsetOrdering
  <2>. QED  BY <1>4, <1>5, <2>3
<1>. QED  BY <1>5

LEMMA MaxHolds ==
  ASSUME NEW S \in SUBSET Int, IsFiniteSet(S), S # {}
  PROVE  Max(S) \in S /\ \A k \in S : k <= Max(S)
<1>. DEFINE is(x) == x \in S /\ \A k \in S : x >= k
<1>1. Max(S) = CHOOSE x : is(x)
  BY DEF Max
<1>2. \E x : is(x)
  BY GreatestOfMany
<1>3. is(Max(S))
  <2>. HIDE DEF is
  <2>. QED  BY <1>1, <1>2
<1>. QED  BY <1>3

LEMMA LeastExists ==
  ASSUME NEW n \in Nat, NEW S \in SUBSET (0..n), S # {}
  PROVE  \E least \in S : \A k \in S : least <= k
<1>1. S \in SUBSET Int /\ IsFiniteSet(0..n)
  BY FS_Interval
<1>. QED  BY <1>1, FS_Subset, LeastOfMany

LEMMA MibIsNat ==
  ASSUME NEW loaded \in Seq(Backend)
  PROVE  Len(loaded) \in Nat /\ \A n \in 1..Len(loaded) : loaded[n] \in Backend /\ loaded[n].mib \in Nat
<1>1. Len(loaded) \in Nat /\ \A n \in 1..Len(loaded) : loaded[n] \in Backend
  BY LenProperties, ElementOfSeq
<1>. QED  BY <1>1 DEF Backend

\* Each number of a sum up to a place adds to the one before.
LEMMA FreedDef ==
  ASSUME NEW loaded \in Seq(Backend), NEW places
  PROVE  \E upTo \in [0..Len(loaded) -> Nat] :
           /\ Freed(loaded, places) = upTo[Len(loaded)]
           /\ upTo[0] = 0
           /\ \A n \in 1..Len(loaded) :
                upTo[n] = upTo[n - 1] + (IF n \in places THEN loaded[n].mib ELSE 0)
<1>. DEFINE L == Len(loaded)
            add(n) == IF n \in places THEN loaded[n].mib ELSE 0
            isSum(f, k) == f[0] = 0 /\ \A n \in 1..k : f[n] = f[n - 1] + add(n)
            missing == {k \in 0..L : ~\E f \in [0..k -> Nat] : isSum(f, k)}
<1>1. L \in Nat /\ \A n \in 1..L : add(n) \in Nat
  BY MibIsNat
<1>. HIDE DEF L, add
<1>2. missing = {}
  <2>. SUFFICES ASSUME missing # {} PROVE FALSE
    OBVIOUS
  <2>1. PICK k \in missing : \A other \in missing : k <= other
    <3>1. missing \in SUBSET (0..L)
      OBVIOUS
    <3>. HIDE DEF missing
    <3>. QED  BY <1>1, <3>1, LeastExists
  <2>2. k \in 0..L /\ k \in Nat
    BY <1>1
  <2>3. CASE k = 0
    <3>. DEFINE f == [n \in 0..0 |-> 0]
    <3>1. f \in [0..0 -> Nat] /\ isSum(f, 0)
      OBVIOUS
    <3>. QED  BY <2>1, <2>3, <3>1
  <2>4. CASE k # 0
    <3>1. k - 1 \in 0..L /\ k \in 1..L /\ ~(k <= k - 1)
      BY <1>1, <2>2, <2>4
    <3>2. k - 1 \notin missing
      BY <2>1, <3>1
    <3>3. PICK f \in [0..(k - 1) -> Nat] : isSum(f, k - 1)
      BY <3>1, <3>2
    <3>. DEFINE g == [n \in 0..k |-> IF n = k THEN f[k - 1] + add(k) ELSE f[n]]
    <3>4. g \in [0..k -> Nat]
      <4>1. f[k - 1] + add(k) \in Nat
        BY <1>1, <2>2, <3>1
      <4>2. \A n \in 0..k : n # k => f[n] \in Nat
        BY <2>2
      <4>. QED  BY <4>1, <4>2
    <3>5. isSum(g, k)
      <4>1. g[0] = 0
        BY <2>2, <2>4, <3>3
      <4>2. ASSUME NEW n \in 1..k PROVE g[n] = g[n - 1] + add(n)
        <5>1. n - 1 \in 0..(k - 1) /\ n \in 0..k /\ n - 1 \in 0..k /\ n - 1 # k
          BY <2>2
        <5>2. g[n - 1] = f[n - 1]
          BY <5>1
        <5>3. CASE n = k
          BY <5>1, <5>2, <5>3
        <5>4. CASE n # k
          <6>1. n \in 1..(k - 1) /\ g[n] = f[n]
            BY <2>2, <5>1, <5>4
          <6>. QED  BY <3>3, <5>2, <6>1
        <5>. QED  BY <5>3, <5>4
      <4>. QED  BY <4>1, <4>2
    <3>. HIDE DEF g, isSum
    <3>. QED  BY <2>1, <3>4, <3>5
  <2>. QED  BY <2>3, <2>4
<1>3. PICK f \in [0..L -> Nat] : isSum(f, L)
  <2>1. L \in 0..L
    BY <1>1
  <2>. QED  BY <1>2, <2>1
<1>. DEFINE isUpTo(g) == g = [n \in 0..L |-> IF n = 0 THEN 0 ELSE g[n - 1] + add(n)]
            upTo == CHOOSE g : isUpTo(g)
<1>4. isUpTo(f)
  <2>1. ASSUME NEW n \in 0..L PROVE f[n] = IF n = 0 THEN 0 ELSE f[n - 1] + add(n)
    <3>1. n # 0 => n \in 1..L
      BY <1>1
    <3>. QED  BY <1>3, <3>1
  <2>. QED  BY <2>1
<1>5. isUpTo(upTo)
  <2>. HIDE DEF isUpTo
  <2>. QED  BY <1>4
<1>6. Freed(loaded, places) = upTo[L]
  BY DEF Freed, L, add
<1>. HIDE DEF upTo
<1>7. DOMAIN upTo = 0..L /\ \A n \in 0..L : upTo[n] = IF n = 0 THEN 0 ELSE upTo[n - 1] + add(n)
  BY <1>5
<1>8. \A n \in 0..L : upTo[n] = f[n]
  <2>. DEFINE wrong == {n \in 0..L : upTo[n] # f[n]}
  <2>. SUFFICES ASSUME wrong # {} PROVE FALSE
    OBVIOUS
  <2>1. PICK k \in wrong : \A other \in wrong : k <= other
    <3>1. wrong \in SUBSET (0..L)
      OBVIOUS
    <3>. HIDE DEF wrong
    <3>. QED  BY <1>1, <3>1, LeastExists
  <2>2. k \in 0..L /\ k # 0
    <3>1. upTo[0] = 0
      BY <1>1, <1>7
    <3>. QED  BY <1>3, <3>1
  <2>3. k - 1 \in 0..L /\ k \in 1..L /\ ~(k <= k - 1)
    BY <1>1, <2>2
  <2>4. upTo[k - 1] = f[k - 1]
    BY <2>1, <2>3
  <2>5. upTo[k] = upTo[k - 1] + add(k) /\ f[k] = f[k - 1] + add(k)
    BY <1>3, <1>7, <2>2, <2>3
  <2>. QED  BY <2>4, <2>5
<1>9. Freed(loaded, places) = f[L]
  <2>1. L \in 0..L
    BY <1>1
  <2>. QED  BY <1>6, <1>8, <2>1
<1>. QED  BY <1>3, <1>9 DEF L, add

\* More places free no less.
LEMMA FreedGrows ==
  ASSUME NEW loaded \in Seq(Backend), NEW less, NEW more, less \subseteq more
  PROVE  /\ Freed(loaded, less) \in Nat /\ Freed(loaded, more) \in Nat
         /\ Freed(loaded, less) <= Freed(loaded, more)
<1>. DEFINE L == Len(loaded)
<1>1. L \in Nat /\ \A n \in 1..L : loaded[n].mib \in Nat
  BY MibIsNat
<1>2. PICK f \in [0..L -> Nat] :
        /\ Freed(loaded, less) = f[L] /\ f[0] = 0
        /\ \A n \in 1..L : f[n] = f[n - 1] + (IF n \in less THEN loaded[n].mib ELSE 0)
  BY FreedDef
<1>3. PICK g \in [0..L -> Nat] :
        /\ Freed(loaded, more) = g[L] /\ g[0] = 0
        /\ \A n \in 1..L : g[n] = g[n - 1] + (IF n \in more THEN loaded[n].mib ELSE 0)
  BY FreedDef
<1>. HIDE DEF L
<1>4. \A n \in 0..L : f[n] <= g[n]
  <2>. DEFINE wrong == {n \in 0..L : ~(f[n] <= g[n])}
  <2>. SUFFICES ASSUME wrong # {} PROVE FALSE
    OBVIOUS
  <2>1. PICK k \in wrong : \A other \in wrong : k <= other
    <3>1. wrong \in SUBSET (0..L)
      OBVIOUS
    <3>. HIDE DEF wrong
    <3>. QED  BY <1>1, <3>1, LeastExists
  <2>2. k \in 0..L /\ k # 0
    BY <1>2, <1>3
  <2>3. k - 1 \in 0..L /\ k \in 1..L /\ ~(k <= k - 1)
    BY <1>1, <2>2
  <2>4. f[k - 1] <= g[k - 1] /\ {f[k - 1], g[k - 1], f[k], g[k]} \subseteq Nat
    BY <2>1, <2>2, <2>3
  <2>5. /\ f[k] = f[k - 1] \/ f[k] = f[k - 1] + loaded[k].mib
        /\ f[k] # f[k - 1] => k \in less
        /\ k \in more => g[k] = g[k - 1] + loaded[k].mib
        /\ k \notin more => g[k] = g[k - 1] + 0
    BY <1>2, <1>3, <2>3, <2>4
  <2>6. loaded[k].mib \in Nat
    BY <1>1, <2>3
  <2>7. f[k] <= g[k]
    <3>1. CASE k \in more
      <4>1. g[k] = g[k - 1] + loaded[k].mib
        BY <2>5, <3>1
      <4>2. f[k] = f[k - 1] \/ f[k] = f[k - 1] + loaded[k].mib
        BY <2>5
      <4>. QED  BY <2>4, <2>6, <4>1, <4>2
    <3>2. CASE k \notin more
      BY <2>4, <2>5, <2>6, <3>2
    <3>. QED  BY <3>1, <3>2
  <2>. QED  BY <2>2, <2>7
<1>5. L \in 0..L
  BY <1>1
<1>. QED  BY <1>2, <1>3, <1>4, <1>5

\* More VRAM by priority lost is an order.
LEMMA ByProductOrder ==
  ASSUME NEW x \in Nat, NEW y \in Nat, NEW z \in Nat,
         NEW p \in Nat \ {0}, NEW q \in Nat \ {0}, NEW r \in Nat \ {0}
  PROVE  /\ x * q >= y * p /\ y * r >= z * q => x * r >= z * p
         /\ x * q > y * p /\ y * r >= z * q => x * r > z * p
         /\ x * q >= y * p /\ y * r > z * q => x * r > z * p
<1>1. ASSUME NEW a \in Int, NEW b \in Int, NEW c \in Nat \ {0}
      PROVE  (a >= b <=> a * c >= b * c) /\ (a > b <=> a * c > b * c)
  OBVIOUS
<1>2. (x * q) * r = (x * r) * q /\ (y * p) * r = (y * r) * p /\ (z * q) * p = (z * p) * q
  OBVIOUS
<1>3. {x * q, x * r, y * p, y * r, z * q, z * p} \subseteq Int
  OBVIOUS
<1>. DEFINE xq == x * q  xr == x * r  yp == y * p  yr == y * r  zq == z * q  zp == z * p
<1>4. /\ xq >= yp <=> xq * r >= yp * r
      /\ xq > yp <=> xq * r > yp * r
      /\ yr >= zq <=> yr * p >= zq * p
      /\ yr > zq <=> yr * p > zq * p
      /\ xr >= zp <=> xr * q >= zp * q
      /\ xr > zp <=> xr * q > zp * q
  <2>. HIDE DEF xq, xr, yp, yr, zq, zp
  <2>1. {xq, xr, yp, yr, zq, zp} \subseteq Int
    BY <1>3 DEF xq, xr, yp, yr, zq, zp
  <2>. QED  BY <1>1, <2>1
<1>5. xq * r = xr * q /\ yp * r = yr * p /\ zq * p = zp * q
  BY <1>2
<1>6. {xq * r, yp * r, zq * p} \subseteq Int
  OBVIOUS
<1>7. /\ xq >= yp /\ yr >= zq => xr >= zp
      /\ xq > yp /\ yr >= zq => xr > zp
      /\ xq >= yp /\ yr > zq => xr > zp
  <2>. DEFINE A == xq * r  B == yp * r  C == zq * p
  <2>1. A \in Int /\ B \in Int /\ C \in Int
    BY <1>6
  <2>2. /\ xq >= yp <=> A >= B
        /\ xq > yp <=> A > B
        /\ yr >= zq <=> B >= C
        /\ yr > zq <=> B > C
        /\ xr >= zp <=> A >= C
        /\ xr > zp <=> A > C
    BY <1>4, <1>5
  <2>. HIDE DEF xq, xr, yp, yr, zq, zp, A, B, C
  <2>. QED  BY <2>1, <2>2
<1>. QED  BY <1>7

\* And so is what goes before, but for equals.
LEMMA GoesBeforeOrder ==
  ASSUME NEW a \in Backend, NEW b \in Backend, NEW c \in Backend
  PROVE  /\ ~GoesBefore(a, a)
         /\ GoesBefore(a, b) => ~GoesBefore(b, a)
         /\ GoesBefore(a, b) /\ ~GoesBefore(c, b) => GoesBefore(a, c)
         /\ ~GoesBefore(b, a) /\ GoesBefore(b, c) => GoesBefore(a, c)
         /\ ~GoesBefore(b, a) /\ ~GoesBefore(c, b) => ~GoesBefore(c, a)
<1>. DEFINE pa == Largest2(a.priority, 1)
            pb == Largest2(b.priority, 1)
            pc == Largest2(c.priority, 1)
            ab == a.mib * pb  ba == b.mib * pa
            ac == a.mib * pc  ca == c.mib * pa
            bc == b.mib * pc  cb == c.mib * pb
            aa == a.mib * pa
<1>1. pa \in Nat \ {0} /\ pb \in Nat \ {0} /\ pc \in Nat \ {0}
  BY DEF Backend, Largest2
<1>2. a.mib \in Nat /\ b.mib \in Nat /\ c.mib \in Nat
  BY DEF Backend
<1>3. /\ {a.priority, b.priority, c.priority, a.used, b.used, c.used} \subseteq Int
      /\ {a.frees, b.frees, c.frees} \subseteq BOOLEAN
  BY DEF Backend
<1>4. {ab, ba, ac, ca, bc, cb, aa} \subseteq Nat
  <2>. HIDE DEF pa, pb, pc
  <2>. QED  BY <1>1, <1>2
<1>5. /\ GoesBefore(a, b) <=>
           \/ a.frees /\ ~b.frees
           \/ /\ a.frees = b.frees
              /\ ab > ba \/ (ab = ba /\ (a.priority < b.priority \/ (a.priority = b.priority /\ a.used < b.used)))
      /\ GoesBefore(b, a) <=>
           \/ b.frees /\ ~a.frees
           \/ /\ a.frees = b.frees
              /\ ba > ab \/ (ab = ba /\ (b.priority < a.priority \/ (a.priority = b.priority /\ b.used < a.used)))
  BY DEF GoesBefore
<1>6. /\ GoesBefore(b, c) <=>
           \/ b.frees /\ ~c.frees
           \/ /\ b.frees = c.frees
              /\ bc > cb \/ (bc = cb /\ (b.priority < c.priority \/ (b.priority = c.priority /\ b.used < c.used)))
      /\ GoesBefore(c, b) <=>
           \/ c.frees /\ ~b.frees
           \/ /\ b.frees = c.frees
              /\ cb > bc \/ (bc = cb /\ (c.priority < b.priority \/ (b.priority = c.priority /\ c.used < b.used)))
  BY DEF GoesBefore
<1>7. /\ GoesBefore(a, c) <=>
           \/ a.frees /\ ~c.frees
           \/ /\ a.frees = c.frees
              /\ ac > ca \/ (ac = ca /\ (a.priority < c.priority \/ (a.priority = c.priority /\ a.used < c.used)))
      /\ GoesBefore(c, a) <=>
           \/ c.frees /\ ~a.frees
           \/ /\ a.frees = c.frees
              /\ ca > ac \/ (ac = ca /\ (c.priority < a.priority \/ (a.priority = c.priority /\ c.used < a.used)))
  BY DEF GoesBefore
<1>8. GoesBefore(a, a) <=> aa > aa \/ a.priority < a.priority \/ a.used < a.used
  BY DEF GoesBefore
<1>9. /\ ab >= ba /\ bc >= cb => ac >= ca
      /\ ab > ba /\ bc >= cb => ac > ca
      /\ ab >= ba /\ bc > cb => ac > ca
      /\ ba >= ab /\ cb >= bc => ca >= ac
  <2>. HIDE DEF pa, pb, pc
  <2>1. /\ ab >= ba /\ bc >= cb => ac >= ca
        /\ ab > ba /\ bc >= cb => ac > ca
        /\ ab >= ba /\ bc > cb => ac > ca
    BY <1>1, <1>2, ByProductOrder
  <2>2. cb >= bc /\ ba >= ab => ca >= ac
    BY <1>1, <1>2, ByProductOrder
  <2>. QED  BY <2>1, <2>2
<1>10. GoesBefore(a, a) = FALSE
  <2>. HIDE DEF aa
  <2>. QED  BY <1>3, <1>4, <1>8
<1>. HIDE DEF pa, pb, pc, ab, ba, ac, ca, bc, cb, aa
<1>11. GoesBefore(a, b) => ~GoesBefore(b, a)
  BY <1>3, <1>4, <1>5
<1>12. GoesBefore(a, b) /\ ~GoesBefore(c, b) => GoesBefore(a, c)
  BY <1>3, <1>4, <1>5, <1>6, <1>7, <1>9
<1>13. ~GoesBefore(b, a) /\ GoesBefore(b, c) => GoesBefore(a, c)
  BY <1>3, <1>4, <1>5, <1>6, <1>7, <1>9
<1>14. ~GoesBefore(b, a) /\ ~GoesBefore(c, b) => ~GoesBefore(c, a)
  BY <1>3, <1>4, <1>5, <1>6, <1>7, <1>9
<1>. QED  BY <1>10, <1>11, <1>12, <1>13, <1>14

LEMMA EarlierOrder ==
  ASSUME NEW loaded \in Seq(Backend), NEW i \in DOMAIN loaded, NEW j \in DOMAIN loaded, NEW k \in DOMAIN loaded
  PROVE  /\ ~Earlier(loaded, i, i)
         /\ i # j => Earlier(loaded, i, j) \/ Earlier(loaded, j, i)
         /\ Earlier(loaded, i, j) /\ Earlier(loaded, j, k) => Earlier(loaded, i, k)
<1>. DEFINE a == loaded[i]  b == loaded[j]  c == loaded[k]
<1>1. i \in Nat /\ j \in Nat /\ k \in Nat /\ a \in Backend /\ b \in Backend /\ c \in Backend
  BY MibIsNat, LenProperties
<1>2. /\ Earlier(loaded, i, i) <=> GoesBefore(a, a) \/ (~GoesBefore(a, a) /\ i < i)
      /\ Earlier(loaded, i, j) <=> GoesBefore(a, b) \/ (~GoesBefore(b, a) /\ i < j)
      /\ Earlier(loaded, j, i) <=> GoesBefore(b, a) \/ (~GoesBefore(a, b) /\ j < i)
      /\ Earlier(loaded, j, k) <=> GoesBefore(b, c) \/ (~GoesBefore(c, b) /\ j < k)
      /\ Earlier(loaded, i, k) <=> GoesBefore(a, c) \/ (~GoesBefore(c, a) /\ i < k)
  BY DEF Earlier
<1>. HIDE DEF a, b, c
<1>3. /\ ~GoesBefore(a, a) /\ (GoesBefore(b, c) => ~GoesBefore(c, b))
      /\ GoesBefore(a, b) /\ ~GoesBefore(c, b) => GoesBefore(a, c)
      /\ ~GoesBefore(b, a) /\ GoesBefore(b, c) => GoesBefore(a, c)
      /\ ~GoesBefore(b, a) /\ ~GoesBefore(c, b) => ~GoesBefore(c, a)
  <2>1. ~GoesBefore(a, a) /\ (GoesBefore(b, c) => ~GoesBefore(c, b))
    BY <1>1, GoesBeforeOrder
  <2>. QED  BY <1>1, <2>1, GoesBeforeOrder
<1>. QED  BY <1>1, <1>2, <1>3

\* Of some places one comes first and one last.
LEMMA FirstExists ==
  ASSUME NEW loaded \in Seq(Backend), NEW S \in SUBSET DOMAIN loaded, S # {}
  PROVE  \E first \in S : \A k \in S : ~Earlier(loaded, k, first)
<1>. DEFINE Sooner(i) == {k \in S : Earlier(loaded, k, i)}
            all == {Sooner(i) : i \in S}
            order == StrictSubsetOrdering(S)
<1>1. IsFiniteSet(S)
  <2>1. DOMAIN loaded = 1..Len(loaded) /\ Len(loaded) \in Nat
    BY LenProperties
  <2>2. IsFiniteSet(DOMAIN loaded)
    BY <2>1, FS_Interval
  <2>. QED  BY <2>2, FS_Subset
<1>2. all \subseteq FiniteSubsetsOf(S)
  <2>1. \A i \in S : Sooner(i) \in SUBSET S
    OBVIOUS
  <2>. QED  BY <1>1, <2>1, FS_FiniteSubsetsOfFinite
<1>3. IsWellFoundedOn(order, FiniteSubsetsOf(S))
  BY FS_StrictSubsetOrderingWellFounded
<1>4. \E x \in all : \A y \in all : ~(<<y, x>> \in order)
  <2>1. all # {}
    OBVIOUS
  <2>. HIDE DEF all, order
  <2>. QED  BY <1>2, <1>3, <2>1, WFMin
<1>5. PICK first \in S : \A i \in S : ~(<<Sooner(i), Sooner(first)>> \in order)
  BY <1>4
<1>6. ASSUME NEW k \in S, Earlier(loaded, k, first)
      PROVE  FALSE
  <2>1. ~Earlier(loaded, k, k) /\ \A i \in S : Earlier(loaded, i, k) => Earlier(loaded, i, first)
    BY <1>6, EarlierOrder
  <2>2. Sooner(k) \subseteq Sooner(first) /\ k \in Sooner(first) /\ k \notin Sooner(k)
    BY <1>6, <2>1
  <2>3. <<Sooner(k), Sooner(first)>> \in order
    BY <2>2 DEF StrictSubsetOrdering
  <2>. QED  BY <1>5, <2>3
<1>. QED  BY <1>6

LEMMA LastExists ==
  ASSUME NEW loaded \in Seq(Backend), NEW S \in SUBSET DOMAIN loaded, S # {}
  PROVE  \E last \in S : \A k \in S : ~Earlier(loaded, last, k)
<1>. DEFINE Later(i) == {k \in S : Earlier(loaded, i, k)}
            all == {Later(i) : i \in S}
            order == StrictSubsetOrdering(S)
<1>1. IsFiniteSet(S)
  <2>1. DOMAIN loaded = 1..Len(loaded) /\ Len(loaded) \in Nat
    BY LenProperties
  <2>2. IsFiniteSet(DOMAIN loaded)
    BY <2>1, FS_Interval
  <2>. QED  BY <2>2, FS_Subset
<1>2. all \subseteq FiniteSubsetsOf(S)
  <2>1. \A i \in S : Later(i) \in SUBSET S
    OBVIOUS
  <2>. QED  BY <1>1, <2>1, FS_FiniteSubsetsOfFinite
<1>3. IsWellFoundedOn(order, FiniteSubsetsOf(S))
  BY FS_StrictSubsetOrderingWellFounded
<1>4. \E x \in all : \A y \in all : ~(<<y, x>> \in order)
  <2>1. all # {}
    OBVIOUS
  <2>. HIDE DEF all, order
  <2>. QED  BY <1>2, <1>3, <2>1, WFMin
<1>5. PICK last \in S : \A i \in S : ~(<<Later(i), Later(last)>> \in order)
  BY <1>4
<1>6. ASSUME NEW k \in S, Earlier(loaded, last, k)
      PROVE  FALSE
  <2>1. ~Earlier(loaded, k, k) /\ \A i \in S : Earlier(loaded, k, i) => Earlier(loaded, last, i)
    BY <1>6, EarlierOrder
  <2>2. Later(k) \subseteq Later(last) /\ k \in Later(last) /\ k \notin Later(k)
    BY <1>6, <2>1
  <2>3. <<Later(k), Later(last)>> \in order
    BY <2>2 DEF StrictSubsetOrdering
  <2>. QED  BY <1>5, <2>3
<1>. QED  BY <1>6

\* Whatever backends are loaded and however much is missing: the plan takes idle backends
\* only, makes the room or takes all of these, would not make it without its last, and one
\* whose unload frees nothing only with all whose unload does.
THEOREM PlanCoversForAll ==
  ASSUME NEW loaded \in Seq(Backend), NEW needed \in Int, NEW free \in Int
  PROVE  PlanCovers(loaded, needed, free)
<1>. DEFINE plan == Plan(loaded, needed, free)
            idle == Idle(loaded)
            freed(S) == Freed(loaded, S)
            deficit == needed - free
<1>1. /\ plan \subseteq idle /\ idle \subseteq DOMAIN loaded
      /\ \A i \in idle : i \in plan <=> freed(Before(loaded, i)) < deficit
      /\ \A i, j \in idle : i \in Before(loaded, j) <=> Earlier(loaded, i, j)
  BY DEF Plan, Idle, Before
<1>2. deficit \in Int /\ \A n \in Int : (n < deficit <=> free + n < needed) /\ (n >= deficit <=> free + n >= needed)
  OBVIOUS
<1>3. \A S, T : S \subseteq T => freed(S) \in Nat /\ freed(T) \in Nat /\ freed(S) <= freed(T)
  BY FreedGrows
<1>4. \A j \in idle : Before(loaded, j) \subseteq idle
  BY DEF Before
<1>. HIDE DEF plan, idle, freed, deficit
<1>5. free + freed(plan) >= needed \/ plan = idle
  <2>. SUFFICES ASSUME plan # idle PROVE free + freed(plan) >= needed
    OBVIOUS
  <2>1. PICK first \in idle \ plan : \A k \in idle \ plan : ~Earlier(loaded, k, first)
    <3>1. idle \ plan # {} /\ idle \ plan \in SUBSET DOMAIN loaded
      BY <1>1
    <3>. QED  BY <3>1, FirstExists
  <2>2. Before(loaded, first) \subseteq plan
    BY <1>1, <1>4, <2>1
  <2>3. freed(Before(loaded, first)) <= freed(plan) /\ freed(plan) \in Nat /\ freed(Before(loaded, first)) \in Nat
    BY <1>3, <2>2
  <2>4. ~(freed(Before(loaded, first)) < deficit)
    BY <1>1, <2>1
  <2>5. freed(plan) >= deficit
    BY <1>2, <2>3, <2>4
  <2>. QED  BY <1>2, <2>3, <2>5
<1>6. plan # {} => \E last \in plan : free + freed(plan \ {last}) < needed
  <2>. SUFFICES ASSUME plan # {} PROVE \E last \in plan : free + freed(plan \ {last}) < needed
    OBVIOUS
  <2>1. PICK last \in plan : \A k \in plan : ~Earlier(loaded, last, k)
    <3>1. plan \in SUBSET DOMAIN loaded
      BY <1>1
    <3>. QED  BY <3>1, LastExists
  <2>2. plan \ {last} \subseteq Before(loaded, last)
    <3>1. \A k \in plan : k # last => Earlier(loaded, k, last)
      BY <1>1, <2>1, EarlierOrder
    <3>. QED  BY <1>1, <3>1
  <2>3. /\ freed(plan \ {last}) <= freed(Before(loaded, last))
        /\ freed(plan \ {last}) \in Nat /\ freed(Before(loaded, last)) \in Nat
    BY <1>3, <2>2
  <2>4. freed(Before(loaded, last)) < deficit
    BY <1>1
  <2>5. freed(plan \ {last}) < deficit
    BY <1>2, <2>3, <2>4
  <2>6. free + freed(plan \ {last}) < needed
    BY <1>2, <2>3, <2>5
  <2>. QED  BY <2>1, <2>6
<1>7. (\E i \in plan : ~loaded[i].frees) => {i \in idle : loaded[i].frees} \subseteq plan
  <2>. SUFFICES ASSUME NEW i \in plan, ~loaded[i].frees, NEW j \in idle, loaded[j].frees
                PROVE  j \in plan
    OBVIOUS
  <2>1. Earlier(loaded, j, i)
    BY DEF Earlier, GoesBefore
  <2>2. Before(loaded, j) \subseteq Before(loaded, i)
    <3>1. \A k \in idle : Earlier(loaded, k, j) => Earlier(loaded, k, i)
      BY <1>1, <2>1, EarlierOrder
    <3>. QED  BY <1>1, <1>4, <3>1
  <2>3. /\ freed(Before(loaded, j)) <= freed(Before(loaded, i))
        /\ freed(Before(loaded, j)) \in Nat /\ freed(Before(loaded, i)) \in Nat
    BY <1>3, <2>2
  <2>4. freed(Before(loaded, i)) < deficit
    BY <1>1
  <2>5. freed(Before(loaded, j)) < deficit
    BY <1>2, <2>3, <2>4
  <2>. QED  BY <1>1, <2>5
<1>8. /\ plan \subseteq idle
      /\ free + freed(plan) >= needed \/ plan = idle
      /\ plan # {} => \E last \in plan : free + freed(plan \ {last}) < needed
      /\ (\E i \in plan : ~loaded[i].frees) => {i \in idle : loaded[i].frees} \subseteq plan
  BY <1>1, <1>5, <1>6, <1>7
<1>. USE DEF plan, idle, freed
<1>. QED
  <2>. HIDE DEF deficit
  <2>1. PlanCovers(loaded, needed, free) <=>
          /\ plan \subseteq idle
          /\ free + freed(plan) >= needed \/ plan = idle
          /\ plan # {} => \E last \in plan : free + freed(plan \ {last}) < needed
          /\ (\E i \in plan : ~loaded[i].frees) => {i \in idle : loaded[i].frees} \subseteq plan
    BY Zenon DEF PlanCovers
  <2>. QED  BY <1>8, <2>1

(***************************************************************************)
(* What the analysis takes of a window                                     *)
(***************************************************************************)

\* A bisection of what is true up to a place and false from there on finds the place.
LEMMA BisectFinds ==
  ASSUME NEW right, NEW n \in Nat, Len(right) = n, NEW k \in 0..n,
         \A i \in 1..n : right[i] = (i <= k)
  PROVE  Bisect(right) = k
<1>. DEFINE rows(f) == [left \in 0..n |->
              [lo \in 0..n - left |->
                 IF left = 0 THEN lo
                 ELSE IF right[lo + left \div 2 + 1] THEN f[left - left \div 2 - 1][lo + left \div 2 + 1]
                      ELSE f[left \div 2][lo]]]
            isFind(f) == f = rows(f)
            find == CHOOSE f : isFind(f)
            near(left, lo) == IF k <= lo THEN lo ELSE IF k <= lo + left THEN k ELSE lo + left
            found == [left \in 0..n |-> [lo \in 0..n - left |-> near(left, lo)]]
<1>1. Bisect(right) = find[n][0]
  BY DEF Bisect
<1>2. ASSUME NEW left \in 0..n, left # 0, NEW half \in Int, half = left \div 2
      PROVE  /\ half \in 0..n /\ half < left
             /\ left - half - 1 \in 0..n /\ left - half - 1 < left
             /\ \A lo \in 0..n - left :
                  /\ lo \in 0..n - half
                  /\ lo + half + 1 \in 0..n - (left - half - 1)
                  /\ lo + half + 1 \in 1..n
  <2>1. left \in Nat /\ half \in Nat /\ half < left /\ left <= n
    BY <1>2
  <2>. QED  BY <2>1
<1>10. \A left \in 0..n : \A lo \in 0..n - left : found[left][lo] = near(left, lo)
  <2>. HIDE DEF near
  <2>. QED  OBVIOUS
<1>11. ASSUME NEW f, NEW left \in 0..n, NEW lo \in 0..n - left, NEW half \in Int, half = left \div 2
       PROVE  rows(f)[left][lo] = IF left = 0 THEN lo
                                  ELSE IF right[lo + half + 1] THEN f[left - half - 1][lo + half + 1]
                                  ELSE f[half][lo]
  BY <1>11
<1>3. ASSUME NEW f, NEW left \in 0..n, NEW lo \in 0..n - left,
             \A less \in 0..n : less < left => f[less] = found[less]
      PROVE  rows(f)[left][lo] = near(left, lo)
  <2>. HIDE DEF rows, found, near
  <2>1. CASE left = 0
    <3>1. near(0, lo) = lo
      BY DEF near
    <3>. QED  BY <1>11, <2>1, <3>1
  <2>2. CASE left # 0
    <3>0. PICK half \in Int : half = left \div 2
      OBVIOUS
    <3>1. rows(f)[left][lo] = IF right[lo + half + 1] THEN f[left - half - 1][lo + half + 1] ELSE f[half][lo]
      BY <1>11, <2>2, <3>0
    <3>6. /\ half \in 0..n /\ half < left
          /\ left - half - 1 \in 0..n /\ left - half - 1 < left
          /\ lo \in 0..n - half
          /\ lo + half + 1 \in 0..n - (left - half - 1)
          /\ lo + half + 1 \in 1..n
      BY <1>2, <2>2, <3>0
    <3>2. right[lo + half + 1] = (lo + half + 1 <= k)
      BY <3>6
    <3>3. f[half][lo] = near(half, lo)
      BY <1>3, <1>10, <3>6
    <3>4. f[left - half - 1][lo + half + 1] = near(left - half - 1, lo + half + 1)
      BY <1>3, <1>10, <3>6
    <3>5. lo \in Nat /\ half \in Nat /\ left \in Nat /\ half < left /\ k \in Nat
      BY <3>6
    <3>7. CASE lo + half + 1 <= k
      <4>1. near(left - half - 1, lo + half + 1) = near(left, lo)
        BY <3>5, <3>7 DEF near
      <4>. QED  BY <3>1, <3>2, <3>4, <3>7, <4>1
    <3>8. CASE ~(lo + half + 1 <= k)
      <4>1. near(half, lo) = near(left, lo)
        BY <3>5, <3>8 DEF near
      <4>. QED  BY <3>1, <3>2, <3>3, <3>8, <4>1
    <3>. QED  BY <3>7, <3>8
  <2>. QED  BY <2>1, <2>2
<1>. HIDE DEF near
<1>4. isFind(found)
  <2>1. rows(found) = [left \in 0..n |-> [lo \in 0..n - left |-> near(left, lo)]]
    <3>1. \A left \in 0..n : rows(found)[left] = [lo \in 0..n - left |-> near(left, lo)]
      <4>. TAKE left \in 0..n
      <4>1. \A lo \in 0..n - left : rows(found)[left][lo] = near(left, lo)
        <5>. HIDE DEF rows, found
        <5>. QED  BY <1>3
      <4>. QED  BY <4>1
    <3>. QED  BY <3>1
  <2>. QED  BY <2>1
<1>5. isFind(find)
  <2>. HIDE DEF isFind
  <2>. QED  BY <1>4
<1>6. find = rows(find)
  BY <1>5
<1>. HIDE DEF find
<1>. DEFINE wrong == {left \in 0..n : find[left] # found[left]}
<1>7. wrong = {}
  <2>. SUFFICES ASSUME wrong # {} PROVE FALSE
    OBVIOUS
  <2>1. PICK left \in wrong : \A other \in wrong : left <= other
    <3>1. wrong \in SUBSET (0..n)
      OBVIOUS
    <3>. HIDE DEF wrong
    <3>. QED  BY <3>1, LeastExists
  <2>2. left \in 0..n /\ \A less \in 0..n : less < left => find[less] = found[less]
    BY <2>1
  <2>3. \A lo \in 0..n - left : rows(find)[left][lo] = near(left, lo)
    <3>. HIDE DEF rows, found, wrong
    <3>. QED  BY <1>3, <2>2
  <2>4. rows(find)[left] = found[left]
    BY <2>2, <2>3
  <2>5. find[left] = found[left]
    <3>. HIDE DEF rows, found
    <3>. QED  BY <1>6, <2>4
  <2>. QED  BY <2>1, <2>5
<1>8. find[n][0] = near(n, 0)
  <2>1. find[n] = found[n]
    <3>. HIDE DEF found
    <3>. QED  BY <1>7
  <2>. QED  BY <2>1
<1>9. near(n, 0) = k
  BY DEF near
<1>. QED  BY <1>1, <1>8, <1>9

\* So a series in order has, up to a place, the times below a bound and none after it.
LEMMA CutExists ==
  ASSUME NEW n \in Nat, NEW below, \A i \in 1..n : below[i] \in BOOLEAN,
         \A i, j \in 1..n : i < j /\ below[j] => below[i]
  PROVE  \E k \in 0..n : \A i \in 1..n : below[i] = (i <= k)
<1>. DEFINE after == {k \in 0..n : \A i \in k + 1..n : ~below[i]}
<1>1. n \in after /\ after \in SUBSET (0..n)
  OBVIOUS
<1>2. PICK k \in after : \A other \in after : k <= other
  <2>. HIDE DEF after
  <2>. QED  BY <1>1, LeastExists
<1>3. k \in 0..n /\ \A i \in 1..n : k < i => ~below[i]
  <2>1. \A i \in 1..n : k < i => i \in k + 1..n
    BY <1>2
  <2>. QED  BY <1>2, <2>1
<1>4. k # 0 => below[k]
  <2>. SUFFICES ASSUME k # 0, ~below[k] PROVE FALSE
    OBVIOUS
  <2>1. k - 1 \in 0..n /\ ~(k <= k - 1)
    BY <1>3
  <2>2. \A i \in k - 1 + 1..n : ~below[i]
    <3>1. \A i \in k - 1 + 1..n : i = k \/ (i \in 1..n /\ k < i)
      BY <1>3
    <3>. QED  BY <1>3, <3>1
  <2>3. k - 1 \in after
    BY <2>1, <2>2
  <2>. QED  BY <1>2, <2>1, <2>3
<1>5. \A i \in 1..n : i <= k => below[i]
  <2>. TAKE i \in 1..n
  <2>1. CASE i = k
    BY <1>4, <2>1
  <2>2. CASE i < k
    BY <1>3, <1>4, <2>2
  <2>. QED  BY <1>3, <2>1, <2>2
<1>6. \A i \in 1..n : below[i] = (i <= k)
  BY <1>3, <1>5
<1>. QED  BY <1>3, <1>6

\* A window holds what was sampled between its marks, when the series is in order.
LEMMA SliceIsTheWindow ==
  ASSUME NEW S, NEW series \in Seq(S), NEW from \in Int, NEW to \in Int,
         \A i \in DOMAIN series : series[i].t \in Int,
         \A i, j \in DOMAIN series : i < j => series[i].t < series[j].t
  PROVE  /\ Slice(series, from, to) \in Seq(S)
         /\ ToSet(Slice(series, from, to)) = {s \in ToSet(series) : from <= s.t /\ s.t <= to}
<1>. DEFINE n == Len(series)
            before == [i \in DOMAIN series |-> series[i].t < from]
            upTo == [i \in DOMAIN series |-> series[i].t <= to]
<1>1. n \in Nat /\ DOMAIN series = 1..n /\ \A i \in 1..n : series[i] \in S
  BY LenProperties, ElementOfSeq
<1>2. Len(before) = n /\ Len(upTo) = n
  <2>1. before \in [1..n -> BOOLEAN] /\ upTo \in [1..n -> BOOLEAN]
    BY <1>1
  <2>2. before \in Seq(BOOLEAN) /\ upTo \in Seq(BOOLEAN) /\ DOMAIN before = 1..n /\ DOMAIN upTo = 1..n
    BY <1>1, <2>1, SeqDef
  <2>. HIDE DEF before, upTo
  <2>3. DOMAIN before = 1..Len(before) /\ DOMAIN upTo = 1..Len(upTo) /\ Len(before) \in Nat /\ Len(upTo) \in Nat
    BY <2>2, LenProperties
  <2>. QED  BY <1>1, <2>2, <2>3
<1>3. /\ \A i \in 1..n : before[i] = (series[i].t < from)
      /\ \A i \in 1..n : upTo[i] = (series[i].t <= to)
      /\ \A i \in 1..n : before[i] \in BOOLEAN /\ upTo[i] \in BOOLEAN
  BY <1>1
<1>4. Slice(series, from, to) = SubSeq(series, Bisect(before) + 1, Bisect(upTo))
  BY DEF Slice
<1>. HIDE DEF before, upTo, n
<1>5. \A i, j \in 1..n : i < j => series[i].t < series[j].t /\ series[i].t \in Int /\ series[j].t \in Int
  BY <1>1
<1>6. PICK a \in 0..n : \A i \in 1..n : before[i] = (i <= a)
  <2>1. \A i, j \in 1..n : i < j /\ before[j] => before[i]
    BY <1>3, <1>5
  <2>2. n \in Nat /\ \A i \in 1..n : before[i] \in BOOLEAN
    BY <1>1, <1>3
  <2>. QED  BY ONLY <2>1, <2>2, CutExists
<1>7. PICK b \in 0..n : \A i \in 1..n : upTo[i] = (i <= b)
  <2>1. \A i, j \in 1..n : i < j /\ upTo[j] => upTo[i]
    BY <1>3, <1>5
  <2>2. n \in Nat /\ \A i \in 1..n : upTo[i] \in BOOLEAN
    BY <1>1, <1>3
  <2>. QED  BY ONLY <2>1, <2>2, CutExists
<1>8. Slice(series, from, to) = SubSeq(series, a + 1, b)
  <2>1. Bisect(before) = a
    BY <1>1, <1>2, <1>6, BisectFinds
  <2>2. Bisect(upTo) = b
    BY <1>1, <1>2, <1>7, BisectFinds
  <2>. QED  BY <1>4, <2>1, <2>2
<1>. DEFINE window == SubSeq(series, a + 1, b)
            m == IF a + 1 <= b THEN b - a ELSE 0
<1>9. /\ window \in Seq(S) /\ Len(window) = m /\ m \in Nat
      /\ \A i \in 1..m : window[i] = series[a + i]
  <2>1. a + 1 \in Int /\ b \in Int /\ \A i \in a + 1..b : series[i] \in S
    BY <1>1
  <2>2. /\ window \in Seq(S)
        /\ Len(window) = IF a + 1 <= b THEN b - (a + 1) + 1 ELSE 0
        /\ \A i \in 1..b - (a + 1) + 1 : window[i] = series[a + 1 + i - 1]
    BY <2>1, SubSeqProperties
  <2>3. Len(window) = m /\ m \in Nat
    BY <2>2
  <2>4. \A i \in 1..m : i \in 1..b - (a + 1) + 1 /\ a + 1 + i - 1 = a + i
    OBVIOUS
  <2>. HIDE DEF window
  <2>. QED  BY <2>2, <2>3, <2>4
<1>10. DOMAIN window = 1..m
  BY <1>9, LenProperties
<1>. HIDE DEF window
<1>11. ToSet(window) = {series[i] : i \in a + 1..b}
  <2>1. \A i \in 1..m : a + i \in a + 1..b
    OBVIOUS
  <2>2. \A i \in a + 1..b : i - a \in 1..m /\ a + (i - a) = i
    OBVIOUS
  <2>3. ToSet(window) = {window[i] : i \in 1..m}
    BY <1>10 DEF ToSet
  <2>. HIDE DEF m
  <2>4. \A i \in a + 1..b : window[i - a] = series[i]
    BY <1>9, <2>2
  <2>5. ASSUME NEW s \in ToSet(window) PROVE s \in {series[i] : i \in a + 1..b}
    <3>1. PICK i \in 1..m : s = window[i]
      BY <2>3
    <3>2. s = series[a + i] /\ a + i \in a + 1..b
      BY <1>9, <2>1, <3>1
    <3>. QED  BY <3>2
  <2>6. ASSUME NEW i \in a + 1..b PROVE series[i] \in ToSet(window)
    <3>1. i - a \in 1..m /\ window[i - a] = series[i]
      BY <2>2, <2>4
    <3>. QED  BY <2>3, <3>1
  <2>. QED  BY <2>5, <2>6
<1>12. \A i \in 1..n : i \in a + 1..b <=> from <= series[i].t /\ series[i].t <= to
  <2>1. \A i \in 1..n : series[i].t \in Int
    BY <1>1
  <2>2. \A i \in 1..n : (i <= a <=> series[i].t < from) /\ (i <= b <=> series[i].t <= to)
    BY <1>3, <1>6, <1>7
  <2>. QED  BY <2>1, <2>2
<1>13. \A i \in a + 1..b : i \in 1..n
  BY <1>1
<1>14. ToSet(series) = {series[i] : i \in 1..n}
  BY <1>1 DEF ToSet
<1>. QED  BY <1>8, <1>9, <1>11, <1>12, <1>13, <1>14 DEF window

LEMMA ValuesOf ==
  ASSUME NEW values \in Seq(Nat)
  PROVE  /\ ToSet(values) \in SUBSET Nat /\ IsFiniteSet(ToSet(values))
         /\ Len(values) \in Nat /\ DOMAIN values = 1..Len(values) /\ IsFiniteSet(DOMAIN values)
         /\ ToSet(values) = {values[i] : i \in 1..Len(values)}
<1>1. Len(values) \in Nat /\ DOMAIN values = 1..Len(values) /\ \A i \in 1..Len(values) : values[i] \in Nat
  BY LenProperties, ElementOfSeq
<1>2. IsFiniteSet(1..Len(values))
  BY <1>1, FS_Interval
<1>3. ToSet(values) = {values[i] : i \in 1..Len(values)}
  BY <1>1 DEF ToSet
<1>4. IsFiniteSet(ToSet(values))
  <2>1. values \in Surjection(1..Len(values), ToSet(values))
    <3>1. values \in [1..Len(values) -> ToSet(values)]
      <4>1. values \in [1..Len(values) -> Nat]
        BY <1>1
      <4>. QED  BY <1>3, <4>1
    <3>. QED  BY <1>1, <1>3, <3>1 DEF Surjection
  <2>. QED  BY <1>2, <2>1, FS_Surjection
<1>. QED  BY <1>1, <1>2, <1>3, <1>4

\* No value is above the highest, and that is 0 or one of them.
LEMMA HighestHolds ==
  ASSUME NEW values \in Seq(Nat)
  PROVE  Highest(values) \in Nat /\ \A i \in DOMAIN values : values[i] <= Highest(values)
<1>. DEFINE all == {0} \cup ToSet(values)
<1>1. all \in SUBSET Int /\ all \in SUBSET Nat /\ all # {}
  BY ValuesOf
<1>2. IsFiniteSet(all)
  BY ValuesOf, FS_Singleton, FS_Union
<1>3. \A i \in DOMAIN values : values[i] \in all
  BY DEF ToSet
<1>4. Highest(values) = Max(all)
  BY DEF Highest
<1>. HIDE DEF all
<1>. QED  BY <1>1, <1>2, <1>3, <1>4, MaxHolds

\* At every place of the sorted values there is one of them.
LEMMA RankedHolds ==
  ASSUME NEW values \in Seq(Nat), NEW k \in 1..Len(values)
  PROVE  Ranked(values, k) \in ToSet(values)
<1>. DEFINE upTo(v) == {i \in DOMAIN values : values[i] <= v}
            late == {v \in ToSet(values) : Cardinality(upTo(v)) >= k}
<1>1. late \in SUBSET Int /\ IsFiniteSet(late) /\ late \subseteq ToSet(values)
  <2>1. late \subseteq ToSet(values)
    OBVIOUS
  <2>2. ToSet(values) \in SUBSET Int /\ IsFiniteSet(ToSet(values))
    BY ValuesOf
  <2>. HIDE DEF late
  <2>. QED  BY <2>1, <2>2, FS_Subset
<1>2. late # {}
  <2>. DEFINE highest == Max(ToSet(values))
  <2>1. ToSet(values) # {} /\ ToSet(values) \in SUBSET Int
    BY ValuesOf
  <2>2. highest \in ToSet(values) /\ \A v \in ToSet(values) : v <= highest
    <3>. HIDE DEF highest
    <3>. QED  BY <2>1, ValuesOf, MaxHolds DEF highest
  <2>3. \A i \in DOMAIN values : values[i] \in ToSet(values)
    BY DEF ToSet
  <2>4. upTo(highest) = DOMAIN values
    BY <2>2, <2>3
  <2>5. Cardinality(DOMAIN values) = Len(values)
    BY SMTT(30), ValuesOf, FS_Interval
  <2>6. Cardinality(upTo(highest)) >= k
    <3>. HIDE DEF upTo, highest
    <3>. QED  BY <2>4, <2>5, ValuesOf
  <2>. QED  BY <2>2, <2>6
<1>3. Ranked(values, k) = Min(late)
  BY DEF Ranked
<1>. HIDE DEF late
<1>. QED  BY <1>1, <1>2, <1>3, MinHolds

\* A median is below every bound of the values.
LEMMA MedianHolds ==
  ASSUME NEW values \in Seq(Nat)
  PROVE  /\ Median(values) \in Nat
         /\ \A b \in Nat : (\A i \in DOMAIN values : values[i] <= b) => Median(values) <= b
<1>. DEFINE n == Len(values)
<1>1. n \in Nat
  BY ValuesOf
<1>2. CASE n = 0
  BY <1>2 DEF Median
<1>3. CASE n # 0
  <2>1. PICK a \in ToSet(values), b \in ToSet(values) :
          Median(values) = a \/ Median(values) = (a + b) \div 2
    <3>1. CASE n % 2 = 1
      <4>1. n \div 2 + 1 \in 1..n
        BY <1>1, <1>3
      <4>2. Ranked(values, n \div 2 + 1) \in ToSet(values)
        BY <4>1, RankedHolds
      <4>3. Median(values) = Ranked(values, n \div 2 + 1)
        BY <1>3, <3>1 DEF Median
      <4>. QED  BY <4>2, <4>3
    <3>2. CASE n % 2 # 1
      <4>1. n \div 2 \in 1..n /\ n \div 2 + 1 \in 1..n
        BY <1>1, <1>3, <3>2
      <4>2. Ranked(values, n \div 2) \in ToSet(values) /\ Ranked(values, n \div 2 + 1) \in ToSet(values)
        BY <4>1, RankedHolds
      <4>3. Median(values) = (Ranked(values, n \div 2) + Ranked(values, n \div 2 + 1)) \div 2
        BY <1>3, <3>2 DEF Median
      <4>. QED  BY <4>2, <4>3
    <3>. QED  BY <3>1, <3>2
  <2>2. a \in Nat /\ b \in Nat
    BY ValuesOf
  <2>3. (a + b) \div 2 \in Nat /\ \A c \in Nat : a <= c /\ b <= c => (a + b) \div 2 <= c
    BY <2>2
  <2>4. \A c \in Nat : (\A i \in DOMAIN values : values[i] <= c) => a <= c /\ b <= c
    BY DEF ToSet
  <2>. QED  BY <2>1, <2>2, <2>3, <2>4
<1>. QED  BY <1>2, <1>3

(***************************************************************************)
(* What a calibration run has measured                                     *)
(***************************************************************************)

\* What a sample tells of the worker and of the others.  Until the others move, what the
\* probe told is all there was, and before the load it is theirs alone.
SamplesTell ==
  \A s \in ToSet(samples) :
    /\ s.self \in Nat /\ s.foreign \in Nat /\ s.real \in Nat
    /\ foreignMoves = 0 =>
         /\ DriverReports /\ s.told => s.real + foreign = s.self + s.foreign
         /\ s.at <= 2 => s.foreign <= foreign

\* Each mark is of its step, and each step the runner has passed has its mark.
MarksAreMade ==
  /\ \A m \in ToSet(marks) :
       m.at \in 1..Len(Program) /\ m.name = Program[m.at].name /\ m.n = Program[m.at].n
  /\ result \in {"running", "measured"} =>
       \A i \in 1..Len(Program) :
         i < at /\ Program[i].name \notin Calls => \E m \in ToSet(marks) : m.at = i

\* Before the load there is no worker, and only the runner samples.
LoadComesFirst ==
  /\ at < 4 => root = NoProcess /\ child = NoProcess
  /\ sampling["loop"] # NotSampling => sampling["loop"].at >= 4

RunInv ==
  /\ root \in Nat \cup {NoProcess} /\ child \in Nat \cup {NoProcess}
  /\ foreign \in Nat /\ foreignMoves \in Nat
  /\ SamplesTell /\ MarksAreMade /\ LoadComesFirst
  /\ result = "measured" => Over

MeasuredInv == CalibrationInv /\ RunInv
\* What the probe finds of the worker is of the processes followed, or counts as foreign.
LEMMA ReadingTells ==
  ASSUME root \in Nat \cup {NoProcess}, child \in Nat \cup {NoProcess}, foreign \in Nat,
         NEW s, NEW ok \in BOOLEAN
  PROVE  /\ Reading(s, ok).self \in Nat /\ Reading(s, ok).foreign \in Nat /\ Reading(s, ok).real \in Nat
         /\ Reading(s, ok).told = ok /\ Reading(s, ok).at = s.at
         /\ DriverReports /\ ok =>
              Reading(s, ok).real + foreign = Reading(s, ok).self + Reading(s, ok).foreign
         /\ root = NoProcess /\ child = NoProcess => Reading(s, ok).foreign <= foreign
<1>. DEFINE told == IF ok /\ DriverReports THEN {p \in Alive : Mib(p) > 0} ELSE {}
            others == IF ok THEN foreign ELSE 0
<1>1. /\ Reading(s, ok).self = Vram(told \cap s.pids)
      /\ Reading(s, ok).foreign = Vram(told \ s.pids) + others
      /\ Reading(s, ok).real = Vram(Alive)
      /\ Reading(s, ok).told = ok /\ Reading(s, ok).at = s.at
  BY DEF Reading
<1>2. /\ told \subseteq Alive
      /\ "root" \in Alive <=> root # NoProcess
      /\ "child" \in Alive <=> child # NoProcess
      /\ ok /\ DriverReports => ("root" \in told <=> root # NoProcess /\ root > 0)
      /\ ok /\ DriverReports => ("child" \in told <=> child # NoProcess /\ child > 0)
  BY DEF Alive, Mib
<1>3. others \in Nat /\ (ok => others = foreign) /\ others <= foreign
  OBVIOUS
<1>. HIDE DEF told, others
<1>4. \A procs \in {told \cap s.pids, told \ s.pids, Alive} :
        /\ "root" \in procs => root \in Nat
        /\ "child" \in procs => child \in Nat
  BY <1>2
<1>5. /\ Vram(told \cap s.pids) \in Nat /\ Vram(told \ s.pids) \in Nat /\ Vram(Alive) \in Nat
  BY <1>4 DEF Vram
<1>6. ok /\ DriverReports => Vram(Alive) = Vram(told \cap s.pids) + Vram(told \ s.pids)
  <2>. SUFFICES ASSUME ok, DriverReports
                PROVE  Vram(Alive) = Vram(told \cap s.pids) + Vram(told \ s.pids)
    OBVIOUS
  <2>. DEFINE of(name, mib, procs) == IF name \in procs THEN mib ELSE 0
  <2>1. of("root", root, Alive) = of("root", root, told \cap s.pids) + of("root", root, told \ s.pids)
    BY <1>2, <1>4
  <2>2. of("child", child, Alive) = of("child", child, told \cap s.pids) + of("child", child, told \ s.pids)
    BY <1>2, <1>4
  <2>3. \A procs \in {told \cap s.pids, told \ s.pids, Alive} :
          /\ of("root", root, procs) \in Nat /\ of("child", child, procs) \in Nat
          /\ Vram(procs) = of("root", root, procs) + of("child", child, procs)
    BY <1>4 DEF Vram
  <2>. HIDE DEF of
  <2>. QED  BY <2>1, <2>2, <2>3
<1>7. root = NoProcess /\ child = NoProcess => Vram(told \ s.pids) = 0
  BY <1>2 DEF Vram
<1>. QED  BY <1>1, <1>3, <1>5, <1>6, <1>7

LEMMA SampleEndsTells ==
  ASSUME CalibrationInv, RunInv, NEW th \in Threads, SampleEnds(th), UNCHANGED <<foreign, foreignMoves>>,
         sampling[th].at <= 2 => root = NoProcess /\ child = NoProcess
  PROVE  SamplesTell'
<1>1. PICK ok \in BOOLEAN : samples' = Append(samples, Reading(sampling[th], ok))
  BY DEF SampleEnds
<1>. DEFINE new == Reading(sampling[th], ok)
<1>2. /\ new.self \in Nat /\ new.foreign \in Nat /\ new.real \in Nat
      /\ new.told = ok /\ new.at = sampling[th].at
      /\ DriverReports /\ ok => new.real + foreign = new.self + new.foreign
      /\ root = NoProcess /\ child = NoProcess => new.foreign <= foreign
  BY ReadingTells DEF RunInv
<1>. HIDE DEF new
<1>3. ToSet(samples') = ToSet(samples) \cup {new}
  <2>1. samples' = Append(samples, new)
    BY <1>1 DEF new
  <2>. QED  BY <2>1, SeriesGrow DEF CalibrationInv, RunTypeOK
<1>4. \A s \in ToSet(samples') :
        /\ s.self \in Nat /\ s.foreign \in Nat /\ s.real \in Nat
        /\ foreignMoves = 0 =>
             /\ DriverReports /\ s.told => s.real + foreign = s.self + s.foreign
             /\ s.at <= 2 => s.foreign <= foreign
  <2>1. CASE TRUE
    <3>. TAKE s \in ToSet(samples')
    <3>1. CASE s \in ToSet(samples)
      BY <3>1 DEF RunInv, SamplesTell
    <3>2. CASE s = new
      BY <1>2, <3>2
    <3>. QED  BY <1>3, <3>1, <3>2
  <2>. QED  BY <2>1
<1>. QED  BY <1>4 DEF SamplesTell

(* The places of the program *)

\* Of the parts of the program: the opening, the repetitions, and the cycles with the end.
LEMMA ProgramParts ==
  /\ Len(Program) = 6 + 4 * Repeats + 4 * Cycles + 2
  /\ \A i \in 1..6 : Program[i].name = Opening[i] /\ Program[i].n = 1
  /\ \A n \in 1..Repeats, r \in 1..4 :
       /\ 4 * n + 2 + r \in 7..6 + 4 * Repeats
       /\ Program[4 * n + 2 + r].name = Repetition[r] /\ Program[4 * n + 2 + r].n = n
  /\ \A i \in 7..6 + 4 * Repeats : \E n \in 1..Repeats, r \in 1..4 : i = 4 * n + 2 + r
  /\ \A i \in 1..Len(Program) :
       i > 6 + 4 * Repeats =>
         /\ Program[i].name \in {"LOAD", "unload_start", "UNLOAD", "unloaded_end",
                                 "shutdown_start", "SHUTDOWN", "post_shutdown_end"}
         /\ Program[i].name = "LOAD" => Program[i].n # 1
<1>. DEFINE generated == 6 + 4 * Repeats
            cycled == generated + 4 * Cycles - 1
            step(i) ==
              IF i <= 6 THEN [name |-> Opening[i], n |-> 1]
              ELSE IF i <= generated
                THEN [name |-> Repetition[((i - 7) % 4) + 1], n |-> ((i - 7) \div 4) + 1]
              ELSE IF i <= cycled
                THEN [name |-> UnloadCycle[((i - generated) % 4) + 1], n |-> ((i - generated) \div 4) + 1]
              ELSE [name |-> Closing[i - cycled], n |-> 1]
            steps == {step(i) : i \in 1..cycled + 3}
<1>1. Program = [i \in 1..cycled + 3 |-> step(i)]
  BY DEF Program
<1>2. Repeats \in Nat \ {0} /\ Cycles \in Nat \ {0}
  BY CalibrationAssumption
<1>3. Len(Program) = cycled + 3
  <2>. HIDE DEF step
  <2>1. Program \in [1..cycled + 3 -> steps] /\ DOMAIN Program = 1..cycled + 3
    BY <1>1
  <2>. HIDE DEF steps
  <2>2. cycled + 3 \in Nat
    BY <1>2
  <2>. HIDE DEF cycled
  <2>3. Program \in Seq(steps)
    BY <2>1, <2>2, SeqDef
  <2>4. DOMAIN Program = 1..Len(Program) /\ Len(Program) \in Nat
    BY <2>3, LenProperties
  <2>. QED  BY <2>1, <2>2, <2>4
<1>4. \A i \in 1..Len(Program) : Program[i] = step(i)
  <2>. HIDE DEF step, cycled
  <2>. QED  BY <1>1, <1>3
<1>5. generated \in Nat /\ generated >= 10 /\ cycled \in Nat /\ cycled >= generated + 3
  BY <1>2
<1>6. \A i \in 1..6 : Program[i].name = Opening[i] /\ Program[i].n = 1
  <2>. TAKE i \in 1..6
  <2>1. i \in 1..Len(Program) /\ i <= 6
    <3>. HIDE DEF generated, cycled
    <3>. QED  BY <1>3, <1>5
  <2>2. step(i) = [name |-> Opening[i], n |-> 1]
    BY <2>1
  <2>. HIDE DEF step
  <2>. QED  BY <1>4, <2>1, <2>2
<1>7. ASSUME NEW n \in 1..Repeats, NEW r \in 1..4
      PROVE  /\ 4 * n + 2 + r \in 7..generated
             /\ Program[4 * n + 2 + r].name = Repetition[r] /\ Program[4 * n + 2 + r].n = n
  <2>1. 4 * n + 2 + r \in 7..generated
    BY <1>2
  <2>2. ((4 * n + 2 + r - 7) % 4) + 1 = r /\ ((4 * n + 2 + r - 7) \div 4) + 1 = n
    <3>1. r = 1 \/ r = 2 \/ r = 3 \/ r = 4
      OBVIOUS
    <3>2. n \in Nat
      OBVIOUS
    <3>. QED  BY <3>1, <3>2
  <2>. DEFINE i == 4 * n + 2 + r
  <2>3. i \in 7..generated /\ ((i - 7) % 4) + 1 = r /\ ((i - 7) \div 4) + 1 = n
    BY <2>1, <2>2
  <2>. HIDE DEF i
  <2>4. i \in 1..Len(Program) /\ ~(i <= 6) /\ i <= generated
    <3>. HIDE DEF generated, cycled
    <3>. QED  BY <1>3, <1>5, <2>3
  <2>5. step(i) = [name |-> Repetition[((i - 7) % 4) + 1], n |-> ((i - 7) \div 4) + 1]
    <3>. HIDE DEF generated, cycled
    <3>. QED  BY <2>4
  <2>6. step(i) = [name |-> Repetition[r], n |-> n]
    <3>. HIDE DEF step
    <3>. QED  BY <2>3, <2>5
  <2>7. Program[i].name = Repetition[r] /\ Program[i].n = n
    <3>. HIDE DEF step
    <3>. QED  BY <1>4, <2>4, <2>6
  <2>. QED  BY <2>1, <2>7 DEF i
<1>8. ASSUME NEW i \in 7..generated
      PROVE  \E n \in 1..Repeats, r \in 1..4 : i = 4 * n + 2 + r
  <2>. DEFINE n == ((i - 7) \div 4) + 1
              r == ((i - 7) % 4) + 1
  <2>1. n \in 1..Repeats /\ r \in 1..4 /\ i = 4 * n + 2 + r
    BY <1>2
  <2>. HIDE DEF n, r
  <2>. QED  BY <2>1
<1>9. ASSUME NEW i \in 1..Len(Program), i > generated
      PROVE  /\ Program[i].name \in {"LOAD", "unload_start", "UNLOAD", "unloaded_end",
                                     "shutdown_start", "SHUTDOWN", "post_shutdown_end"}
             /\ Program[i].name = "LOAD" => Program[i].n # 1
  <2>1. i \in Int /\ ~(i <= 6) /\ ~(i <= generated) /\ i <= cycled + 3
    <3>. HIDE DEF generated, cycled
    <3>. QED  BY <1>3, <1>5, <1>9
  <2>2. CASE i <= cycled
    <3>. DEFINE k == (i - generated) % 4
                n == ((i - generated) \div 4) + 1
    <3>1. step(i) = [name |-> UnloadCycle[k + 1], n |-> n]
      <4>. HIDE DEF generated, cycled
      <4>. QED  BY <2>1, <2>2
    <3>2. k \in {0, 1, 2, 3} /\ (k = 0 => n # 1)
      <4>1. i - generated \in Int /\ i - generated > 0
        <5>. HIDE DEF generated
        <5>. QED  BY <1>5, <2>1
      <4>. HIDE DEF generated
      <4>. QED  BY <4>1
    <3>. HIDE DEF k, n
    <3>3. /\ UnloadCycle[k + 1] \in {"LOAD", "unload_start", "UNLOAD", "unloaded_end"}
          /\ UnloadCycle[k + 1] = "LOAD" => k = 0
      BY <3>2 DEF UnloadCycle
    <3>. HIDE DEF step
    <3>4. Program[i].name = UnloadCycle[k + 1] /\ Program[i].n = n
      BY <1>4, <3>1
    <3>. QED  BY <3>2, <3>3, <3>4
  <2>3. CASE ~(i <= cycled)
    <3>1. step(i) = [name |-> Closing[i - cycled], n |-> 1]
      <4>. HIDE DEF generated, cycled
      <4>. QED  BY <2>1, <2>3
    <3>2. i - cycled \in {1, 2, 3}
      <4>. HIDE DEF generated, cycled
      <4>. QED  BY <1>5, <2>1, <2>3 DEF cycled
    <3>3. Closing[i - cycled] \in {"shutdown_start", "SHUTDOWN", "post_shutdown_end"}
      <4>. HIDE DEF cycled
      <4>. QED  BY <3>2 DEF Closing
    <3>. HIDE DEF step, cycled
    <3>. QED  BY <1>4, <3>1, <3>3
  <2>. QED  BY <2>2, <2>3
<1>10. Len(Program) = 6 + 4 * Repeats + 4 * Cycles + 2
  BY <1>2, <1>3
<1>. QED  BY <1>6, <1>7, <1>8, <1>9, <1>10
LEMMA CallsComeLate ==
  /\ Len(Program) \in Nat /\ Len(Program) >= 4
  /\ \A i \in 1..Len(Program) : Program[i].name \in Calls => i >= 4
<1>1. Len(Program) \in Nat /\ Len(Program) >= 4
  BY ProgramParts, CalibrationAssumption
<1>2. ASSUME NEW i \in 1..Len(Program), Program[i].name \in Calls, ~(i >= 4)
      PROVE  FALSE
  <2>1. i \in 1..6 /\ (i = 1 \/ i = 2 \/ i = 3)
    BY <1>1, <1>2
  <2>2. Program[i].name = Opening[i]
    BY <2>1, ProgramParts
  <2>3. Opening[i] \notin Calls
    BY <2>1 DEF Opening, Calls
  <2>. QED  BY <1>2, <2>2, <2>3
<1>. QED  BY <1>1, <1>2

LEMMA CallsAreLate == ASSUME AtCall PROVE at >= 4
BY CallsComeLate DEF AtCall, Step

(* The steps *)

LEMMA MarksKept ==
  ASSUME MarksAreMade, marks' = marks,
         result' \in {"running", "measured"} => result \in {"running", "measured"},
         result' \in {"running", "measured"} =>
           \A i \in 1..Len(Program) : i < at' /\ Program[i].name \notin Calls => i < at
  PROVE  MarksAreMade'
<1>1. \A m \in ToSet(marks') :
        m.at \in 1..Len(Program) /\ m.name = Program[m.at].name /\ m.n = Program[m.at].n
  BY DEF MarksAreMade
<1>2. result' \in {"running", "measured"} =>
        \A i \in 1..Len(Program) :
          i < at' /\ Program[i].name \notin Calls => \E m \in ToSet(marks') : m.at = i
  BY DEF MarksAreMade
<1>3. Len(Program)' = Len(Program) /\ Program' = Program /\ Calls' = Calls
  BY DEF Program, Calls
<1>. QED  BY <1>1, <1>2, <1>3 DEF MarksAreMade

LEMMA SamplesKept ==
  ASSUME SamplesTell, samples' = samples,
         foreignMoves' = 0 => foreignMoves = 0 /\ foreign' = foreign
  PROVE  SamplesTell'
BY DEF SamplesTell

LEMMA RunInitInv == CalibrationInit => RunInv
<1>. SUFFICES ASSUME CalibrationInit PROVE RunInv
  OBVIOUS
<1>1. /\ root = NoProcess /\ child = NoProcess /\ foreign \in Nat /\ foreignMoves = 0
      /\ at = 0 /\ result = "running" /\ ToSet(samples) = {} /\ ToSet(marks) = {}
  BY CalibrationAssumption, EmptySeries DEF CalibrationInit
<1>2. sampling["loop"] = NotSampling
  BY DEF CalibrationInit
<1>3. SamplesTell
  BY <1>1 DEF SamplesTell
<1>4. MarksAreMade
  <2>1. \A i \in 1..Len(Program) : ~(i < at)
    BY <1>1, CallsComeLate
  <2>. QED  BY <1>1, <2>1 DEF MarksAreMade
<1>. QED  BY <1>1, <1>2, <1>3, <1>4 DEF RunInv, LoadComesFirst

LEMMA LoopBeginsRun == ASSUME MeasuredInv, LoopBegins \/ RunnerSamples PROVE RunInv'
<1>1. PICK th \in Threads : SampleBegins(th) /\ (th = "loop" => LoopBegins)
  BY DEF LoopBegins, RunnerSamples, Threads
<1>2. UNCHANGED <<at, op, root, child, foreign, foreignMoves, samples, marks, result>> /\ Running
  BY DEF LoopBegins, RunnerSamples, worldVars
<1>3. sampling' = [sampling EXCEPT ![th] = [t |-> clock + 1, pids |-> tracked', at |-> at]]
  BY <1>1 DEF SampleBegins
<1>4. sampling'["loop"] # NotSampling => sampling'["loop"].at >= 4
  <2>1. CASE th = "loop"
    <3>1. sampling'["loop"].at = at
      BY <1>3, <2>1 DEF MeasuredInv, CalibrationInv, RunTypeOK, Threads
    <3>2. op # "idle"
      BY <1>1, <2>1 DEF LoopBegins
    <3>3. AtCall
      BY <1>2, <3>2 DEF MeasuredInv, CalibrationInv, RunnerStays
    <3>. QED  BY <3>1, <3>3, CallsAreLate
  <2>2. CASE th # "loop"
    <3>1. sampling'["loop"] = sampling["loop"]
      BY <1>3, <2>2 DEF MeasuredInv, CalibrationInv, RunTypeOK, Threads
    <3>. QED  BY <3>1 DEF MeasuredInv, RunInv, LoadComesFirst
  <2>. QED  BY <2>1, <2>2
<1>5. SamplesTell' /\ MarksAreMade'
  BY <1>2, SamplesKept, MarksKept DEF MeasuredInv, RunInv
<1>6. LoadComesFirst'
  BY <1>2, <1>4 DEF MeasuredInv, RunInv, LoadComesFirst
<1>7. result' = "measured" => Over'
  BY <1>2 DEF Running
<1>. QED  BY <1>2, <1>5, <1>6, <1>7 DEF MeasuredInv, RunInv

LEMMA LoopEndsRun == ASSUME MeasuredInv, LoopEnds PROVE RunInv'
<1>1. SampleEnds("loop") /\ Running /\ "loop" \in Threads
      /\ UNCHANGED <<at, op, root, child, foreign, foreignMoves, marks, result>>
  BY DEF LoopEnds, worldVars, Threads
<1>2. sampling["loop"] # NotSampling /\ sampling'["loop"] = NotSampling
  BY <1>1 DEF SampleEnds, MeasuredInv, CalibrationInv, RunTypeOK
<1>3. ~(sampling["loop"].at <= 2)
  <2>1. sampling["loop"].at >= 4 /\ sampling["loop"].at \in Nat
    BY <1>1, <1>2, PlacesFacts DEF MeasuredInv, CalibrationInv, RunTypeOK, RunInv, LoadComesFirst
  <2>. QED  BY <2>1
<1>4. SamplesTell'
  BY <1>1, <1>3, SampleEndsTells DEF MeasuredInv
<1>5. MarksAreMade'
  BY <1>1, MarksKept DEF MeasuredInv, RunInv
<1>6. LoadComesFirst'
  BY <1>1, <1>2 DEF MeasuredInv, RunInv, LoadComesFirst
<1>7. result' = "measured" => Over'
  BY <1>1 DEF Running
<1>. QED  BY <1>1, <1>4, <1>5, <1>6, <1>7 DEF MeasuredInv, RunInv

LEMMA MarkEndsRun == ASSUME MeasuredInv, MarkEnds PROVE RunInv'
<1>1. /\ SampleEnds("runner") /\ Running /\ "runner" \in Threads /\ AtMark
      /\ UNCHANGED <<op, root, child, foreign, foreignMoves, result>>
      /\ marks' = IF Starts THEN marks ELSE Append(marks, Marked)
      /\ at' = IF Starts THEN at ELSE at + 1
  BY DEF MarkEnds, worldVars, Threads
<1>2. sampling["runner"] # NotSampling /\ sampling'["loop"] = sampling["loop"]
  BY <1>1 DEF SampleEnds, MeasuredInv, CalibrationInv, RunTypeOK, Threads
<1>3. sampling["runner"].at = at /\ at \in 1..Len(Program) /\ at \in Nat /\ at # 4
  <2>1. sampling["runner"].at = at /\ at \in 1..Len(Program)
    BY <1>1, <1>2 DEF MeasuredInv, CalibrationInv, RunnerStays, AtMark
  <2>2. at # 4
    <3>. SUFFICES ASSUME at = 4 PROVE FALSE
      OBVIOUS
    <3>1. Program[4].name = "LOAD"
      BY ProgramParts DEF Opening
    <3>. QED  BY <1>1, <3>1 DEF AtMark, Step, Calls
  <2>. QED  BY <2>1, <2>2
<1>4. SamplesTell'
  <2>1. at <= 2 => root = NoProcess /\ child = NoProcess
    BY <1>3 DEF MeasuredInv, RunInv, LoadComesFirst
  <2>. QED  BY <1>1, <1>3, <2>1, SampleEndsTells DEF MeasuredInv
<1>5. MarksAreMade'
  <2>1. CASE Starts
    <3>1. marks' = marks /\ at' = at
      BY <1>1, <2>1
    <3>. QED  BY <1>1, <3>1, MarksKept DEF MeasuredInv, RunInv
  <2>2. CASE ~Starts
    <3>1. ToSet(marks') = ToSet(marks) \cup {Marked} /\ at' = at + 1
      BY <1>1, <2>2, SeriesGrow DEF MeasuredInv, CalibrationInv, RunTypeOK
    <3>2. Marked.at = at /\ Marked.name = Program[at].name /\ Marked.n = Program[at].n
      BY DEF Marked, Step
    <3>3. \A m \in ToSet(marks') :
            m.at \in 1..Len(Program) /\ m.name = Program[m.at].name /\ m.n = Program[m.at].n
      BY <1>3, <3>1, <3>2 DEF MeasuredInv, RunInv, MarksAreMade
    <3>4. ASSUME NEW i \in 1..Len(Program), i < at', Program[i].name \notin Calls
          PROVE  \E m \in ToSet(marks') : m.at = i
      <4>1. i < at \/ i = at
        BY <1>3, <3>1, <3>4
      <4>2. result \in {"running", "measured"}
        BY <1>1 DEF Running
      <4>. QED  BY <3>1, <3>2, <3>4, <4>1, <4>2 DEF MeasuredInv, RunInv, MarksAreMade
    <3>5. Len(Program)' = Len(Program) /\ Program' = Program /\ Calls' = Calls
      BY DEF Program, Calls
    <3>. QED  BY <3>3, <3>4, <3>5 DEF MarksAreMade
  <2>. QED  BY <2>1, <2>2
<1>6. LoadComesFirst'
  <2>1. at' < 4 => at < 4
    BY <1>1, <1>3
  <2>. QED  BY <1>1, <1>2, <2>1 DEF MeasuredInv, RunInv, LoadComesFirst
<1>7. result' = "measured" => Over'
  BY <1>1 DEF Running
<1>. QED  BY <1>1, <1>4, <1>5, <1>6, <1>7 DEF MeasuredInv, RunInv

LEMMA StopsRun == ASSUME MeasuredInv, Stops PROVE RunInv'
<1>1. /\ Running /\ Over /\ result' = "measured" /\ "runner" \in Threads
      /\ UNCHANGED <<at, op, root, child, foreign, foreignMoves, marks>>
      /\ SampleEnds("runner") \/ UNCHANGED <<samples, sampling>>
  BY DEF Stops, worldVars, seriesVars, Threads
<1>2. at \in Nat /\ at > 4 /\ Over'
  <2>1. at \in Nat /\ at > Len(Program)
    BY <1>1, PlacesFacts DEF Over, MeasuredInv, CalibrationInv, RunTypeOK
  <2>2. Len(Program)' = Len(Program)
    BY DEF Program
  <2>. QED  BY <1>1, <2>1, <2>2, CallsComeLate DEF Over
<1>3. SamplesTell' /\ sampling'["loop"] = sampling["loop"]
  <2>1. CASE SampleEnds("runner")
    <3>1. sampling["runner"] # NotSampling /\ sampling'["loop"] = sampling["loop"]
      BY <2>1 DEF SampleEnds, MeasuredInv, CalibrationInv, RunTypeOK, Threads
    <3>2. sampling["runner"].at = at
      BY <1>1, <3>1 DEF MeasuredInv, CalibrationInv, RunnerStays
    <3>. QED  BY <1>1, <1>2, <2>1, <3>1, <3>2, SampleEndsTells DEF MeasuredInv
  <2>2. CASE UNCHANGED <<samples, sampling>>
    BY <1>1, <2>2, SamplesKept DEF MeasuredInv, RunInv
  <2>. QED  BY <1>1, <2>1, <2>2
<1>4. MarksAreMade'
  <2>1. result \in {"running", "measured"}
    BY <1>1 DEF Running
  <2>. QED  BY <1>1, <2>1, MarksKept DEF MeasuredInv, RunInv
<1>5. LoadComesFirst'
  BY <1>1, <1>3 DEF MeasuredInv, RunInv, LoadComesFirst
<1>. QED  BY <1>1, <1>2, <1>3, <1>4, <1>5 DEF MeasuredInv, RunInv

\* The calls of the pool and the world.
LEMMA MovesRun ==
  ASSUME MeasuredInv,
         \/ Preflight \/ CutsUnload \/ CallBegins \/ CallPeaks \/ CallReturns
         \/ CallFails \/ CallIsLost \/ ForeignMoves
  PROVE  RunInv'
<1>1. UNCHANGED <<samples, sampling, marks>> /\ Running
  BY DEF Preflight, CutsUnload, CallBegins, CallPeaks, CallReturns, CallFails, CallIsLost, ForeignMoves,
         seriesVars
<1>2. /\ foreign' \in Nat /\ foreignMoves' \in Nat
      /\ foreignMoves' = 0 => foreignMoves = 0 /\ foreign' = foreign
  <2>1. foreign \in Nat /\ foreignMoves \in Nat
    BY DEF MeasuredInv, RunInv
  <2>2. CASE ForeignMoves
    <3>1. foreignMoves' = foreignMoves + 1 /\ foreign' \in Others
      BY <2>2 DEF ForeignMoves
    <3>. QED  BY <2>1, <3>1, CalibrationAssumption
  <2>3. CASE ~ForeignMoves
    <3>1. UNCHANGED <<foreign, foreignMoves>>
      BY <2>3 DEF Preflight, CutsUnload, CallBegins, CallPeaks, CallReturns, CallFails, CallIsLost, worldVars
    <3>. QED  BY <2>1, <3>1
  <2>. QED  BY <2>2, <2>3
<1>3. SamplesTell'
  BY <1>1, <1>2, SamplesKept DEF MeasuredInv, RunInv
<1>4. /\ at \in Nat /\ at' \in Nat
      /\ \/ at' = at
         \/ at = 0 /\ at' = 1
         \/ AtCall /\ at' = at + 1
         \/ result' = "failed" /\ at' >= 4
  <2>1. at \in Nat /\ Len(Program) \in Nat /\ Len(Program) >= 4
    BY PlacesFacts, CallsComeLate DEF MeasuredInv, CalibrationInv, RunTypeOK
  <2>2. CASE Preflight
    BY <2>1, <2>2 DEF Preflight
  <2>3. CASE CallReturns \/ CallIsLost
    <3>1. op # "idle" /\ at' = at + 1
      BY <2>3 DEF CallReturns, CallIsLost
    <3>. QED  BY <1>1, <2>1, <3>1 DEF MeasuredInv, CalibrationInv, RunnerStays
  <2>4. CASE CallFails
    BY <2>1, <2>4 DEF CallFails
  <2>5. CASE CutsUnload \/ CallBegins \/ CallPeaks \/ ForeignMoves
    BY <2>1, <2>5 DEF CutsUnload, CallBegins, CallPeaks, ForeignMoves
  <2>. QED  BY <2>2, <2>3, <2>4, <2>5
<1>5. MarksAreMade'
  <2>1. result \in {"running", "measured"}
    BY <1>1 DEF Running
  <2>2. result' # "failed" => \A i \in 1..Len(Program) : i < at' /\ Program[i].name \notin Calls => i < at
    <3>. SUFFICES ASSUME result' # "failed", NEW i \in 1..Len(Program), i < at', Program[i].name \notin Calls
                  PROVE  i < at
      OBVIOUS
    <3>1. i \in Nat /\ i >= 1
      BY CallsComeLate
    <3>2. AtCall => i # at
      BY DEF AtCall, Step
    <3>. QED  BY <1>4, <3>1, <3>2
  <2>. QED  BY <1>1, <2>1, <2>2, MarksKept DEF MeasuredInv, RunInv
<1>6. /\ root' \in Nat \cup {NoProcess} /\ child' \in Nat \cup {NoProcess}
      /\ at' < 4 => root' = NoProcess /\ child' = NoProcess
  <2>1. root \in Nat \cup {NoProcess} /\ child \in Nat \cup {NoProcess}
        /\ (at < 4 => root = NoProcess /\ child = NoProcess)
    BY DEF MeasuredInv, RunInv, LoadComesFirst
  <2>2. /\ Resident \in Nat /\ ChildMib \in Nat
        /\ LoadPeaks \subseteq Nat /\ GenPeaks \subseteq Nat /\ Residuals \subseteq Nat
    BY CalibrationAssumption
  <2>3. CASE Preflight \/ CutsUnload \/ ForeignMoves
    <3>1. UNCHANGED <<root, child>> /\ (at' < 4 => at < 4)
      BY <1>4, <2>3 DEF Preflight, CutsUnload, ForeignMoves, worldVars
    <3>. QED  BY <2>1, <3>1
  <2>4. CASE CallBegins
    <3>1. AtCall /\ at' = at /\ (root' = 0 \/ root' = root) /\ child' = child
      BY <2>4 DEF CallBegins
    <3>2. ~(at' < 4)
      BY <1>4, <3>1, CallsAreLate
    <3>. QED  BY <2>1, <3>1, <3>2
  <2>5. CASE CallPeaks \/ CallReturns \/ CallIsLost
    <3>1. op # "idle" /\ (at' = at \/ at' = at + 1)
      BY <2>5 DEF CallPeaks, CallReturns, CallIsLost
    <3>2. AtCall
      BY <1>1, <3>1 DEF MeasuredInv, CalibrationInv, RunnerStays
    <3>3. ~(at' < 4)
      BY <1>4, <3>1, <3>2, CallsAreLate
    <3>4. root' \in Nat \cup {NoProcess} /\ child' \in Nat \cup {NoProcess}
      BY <2>1, <2>2, <2>5 DEF CallPeaks, CallReturns, CallIsLost
    <3>. QED  BY <3>3, <3>4
  <2>6. CASE CallFails
    BY <2>6 DEF CallFails
  <2>. QED  BY <2>3, <2>4, <2>5, <2>6
<1>7. LoadComesFirst'
  BY <1>1, <1>6 DEF MeasuredInv, RunInv, LoadComesFirst
<1>8. result' # "measured"
  BY <1>1 DEF Preflight, CutsUnload, CallBegins, CallPeaks, CallReturns, CallFails, CallIsLost, ForeignMoves,
         Running
<1>. QED  BY <1>2, <1>3, <1>5, <1>6, <1>7, <1>8 DEF RunInv

LEMMA RunNextInv == ASSUME MeasuredInv, [CalibrationNext]_calibrationVars PROVE MeasuredInv'
<1>1. CalibrationInv'
  BY CalibrationNextInv DEF MeasuredInv
<1>2. RunInv'
  <2>1. CASE RunnerStep
    BY <2>1, MovesRun, LoopBeginsRun, MarkEndsRun, StopsRun DEF RunnerStep
  <2>2. CASE LoopBegins \/ LoopEnds \/ CallFails \/ CallIsLost \/ ForeignMoves
    BY <2>2, MovesRun, LoopBeginsRun, LoopEndsRun
  <2>3. CASE UNCHANGED calibrationVars
    <3>1. UNCHANGED <<at, root, child, foreign, foreignMoves, samples, sampling, marks, result>>
      BY <2>3 DEF calibrationVars, seriesVars, worldVars
    <3>2. SamplesTell' /\ MarksAreMade'
      BY <3>1, SamplesKept, MarksKept DEF MeasuredInv, RunInv
    <3>3. LoadComesFirst' /\ (result' = "measured" => Over')
      BY <3>1 DEF MeasuredInv, RunInv, LoadComesFirst, Over, Program
    <3>. QED  BY <3>1, <3>2, <3>3 DEF MeasuredInv, RunInv
  <2>. QED  BY <2>1, <2>2, <2>3 DEF CalibrationNext
<1>. QED  BY <1>1, <1>2 DEF MeasuredInv

(* The windows of a run *)

LEMMA PlacesOfNames ==
  /\ \A i \in {1, 2, 3, 5, 6}, j \in 1..Len(Program) : Program[j].name = Opening[i] => j = i
  /\ \A n \in 1..Repeats, r \in {1, 3}, j \in 1..Len(Program) :
       Program[j].name = Repetition[r] /\ Program[j].n = n => j = 4 * n + 2 + r
  /\ \A j \in 1..Len(Program) :
       Program[j].name = "GENERATE" => \E n \in 1..Repeats : j = 4 * n + 4
  /\ \A j \in 1..Len(Program) : Program[j].name = "LOAD" /\ Program[j].n = 1 => j = 4
<1>1. Repeats \in Nat /\ Len(Program) \in Nat
  BY CalibrationAssumption, CallsComeLate
<1>2. ASSUME NEW j \in 1..Len(Program)
      PROVE  \/ j \in 1..6 /\ Program[j].name = Opening[j] /\ Program[j].n = 1
             \/ \E n \in 1..Repeats, r \in 1..4 :
                  j = 4 * n + 2 + r /\ Program[j].name = Repetition[r] /\ Program[j].n = n
             \/ /\ Program[j].name \in {"LOAD", "unload_start", "UNLOAD", "unloaded_end",
                                        "shutdown_start", "SHUTDOWN", "post_shutdown_end"}
                /\ Program[j].name = "LOAD" => Program[j].n # 1
  <2>1. j \in 1..6 \/ j \in 7..6 + 4 * Repeats \/ j > 6 + 4 * Repeats
    BY <1>1
  <2>2. CASE j \in 7..6 + 4 * Repeats
    <3>1. PICK n \in 1..Repeats, r \in 1..4 : j = 4 * n + 2 + r
      BY <2>2, ProgramParts
    <3>2. Program[j].name = Repetition[r] /\ Program[j].n = n
      BY <3>1, ProgramParts
    <3>. QED  BY <3>1, <3>2
  <2>. QED  BY <2>1, <2>2, ProgramParts
<1>3. ASSUME NEW i \in {1, 2, 3, 5, 6}, NEW j \in 1..Len(Program), Program[j].name = Opening[i]
      PROVE  j = i
  <2>1. i = 1 \/ i = 2 \/ i = 3 \/ i = 5 \/ i = 6
    OBVIOUS
  <2>2. CASE j \in 1..6 /\ Program[j].name = Opening[j]
    <3>1. j = 1 \/ j = 2 \/ j = 3 \/ j = 4 \/ j = 5 \/ j = 6
      BY <2>2
    <3>2. Opening[j] = Opening[i]
      BY <1>3, <2>2
    <3>. QED  BY <2>1, <3>1, <3>2 DEF Opening
  <2>3. ASSUME NEW r \in 1..4 PROVE Repetition[r] # Opening[i]
    <3>1. r = 1 \/ r = 2 \/ r = 3 \/ r = 4
      OBVIOUS
    <3>. QED  BY <2>1, <3>1 DEF Opening, Repetition
  <2>4. Opening[i] \notin {"LOAD", "unload_start", "UNLOAD", "unloaded_end",
                           "shutdown_start", "SHUTDOWN", "post_shutdown_end"}
    BY <2>1 DEF Opening
  <2>. QED  BY <1>2, <1>3, <2>2, <2>3, <2>4
<1>4. ASSUME NEW i \in 1..6, NEW r \in {1, 2, 3}
      PROVE  Opening[i] # Repetition[r]
  <2>1. (i = 1 \/ i = 2 \/ i = 3 \/ i = 4 \/ i = 5 \/ i = 6) /\ (r = 1 \/ r = 2 \/ r = 3)
    OBVIOUS
  <2>. QED  BY <2>1 DEF Opening, Repetition
<1>5. ASSUME NEW r \in {1, 2, 3}, NEW other \in 1..4, Repetition[other] = Repetition[r]
      PROVE  other = r
  <2>1. (other = 1 \/ other = 2 \/ other = 3 \/ other = 4) /\ (r = 1 \/ r = 2 \/ r = 3)
    OBVIOUS
  <2>. QED  BY <1>5, <2>1 DEF Repetition
<1>6. ASSUME NEW r \in {1, 2, 3}
      PROVE  Repetition[r] \notin {"LOAD", "unload_start", "UNLOAD", "unloaded_end",
                                   "shutdown_start", "SHUTDOWN", "post_shutdown_end"}
  BY DEF Repetition
<1>7. ASSUME NEW r \in {1, 2, 3}, NEW j \in 1..Len(Program), Program[j].name = Repetition[r]
      PROVE  \E n \in 1..Repeats : j = 4 * n + 2 + r /\ Program[j].n = n
  BY <1>2, <1>4, <1>5, <1>6, <1>7
<1>8. ASSUME NEW n \in 1..Repeats, NEW r \in {1, 3}, NEW j \in 1..Len(Program),
             Program[j].name = Repetition[r], Program[j].n = n
      PROVE  j = 4 * n + 2 + r
  BY <1>7, <1>8
<1>9. ASSUME NEW j \in 1..Len(Program), Program[j].name = "GENERATE"
      PROVE  \E n \in 1..Repeats : j = 4 * n + 4
  <2>1. Program[j].name = Repetition[2] /\ 2 \in {1, 2, 3}
    BY <1>9 DEF Repetition
  <2>2. PICK n \in 1..Repeats : j = 4 * n + 2 + 2
    BY <1>7, <2>1
  <2>3. 4 * n + 2 + 2 = 4 * n + 4
    BY <1>1
  <2>. QED  BY <2>2, <2>3
<1>10. ASSUME NEW j \in 1..Len(Program), Program[j].name = "LOAD", Program[j].n = 1
       PROVE  j = 4
  <2>1. CASE j \in 1..6 /\ Program[j].name = Opening[j]
    <3>1. j = 1 \/ j = 2 \/ j = 3 \/ j = 4 \/ j = 5 \/ j = 6
      BY <2>1
    <3>. QED  BY <1>10, <2>1, <3>1 DEF Opening
  <2>2. ASSUME NEW r \in 1..4 PROVE Repetition[r] # "LOAD"
    <3>1. r = 1 \/ r = 2 \/ r = 3 \/ r = 4
      OBVIOUS
    <3>. QED  BY <3>1 DEF Repetition
  <2>. QED  BY <1>2, <1>10, <2>1, <2>2
<1>. QED  BY <1>3, <1>8, <1>9, <1>10

\* A series in order has no two samples of a time.
LEMMA TimesAreUnique ==
  ASSUME CalibrationInv, InOrder
  PROVE  /\ samples \in Seq(ToSet(samples))
         /\ \A s \in ToSet(samples) : s.t \in Int
         /\ \A i \in DOMAIN samples : samples[i].t \in Int
         /\ \A r, s \in ToSet(samples) : r.t = s.t => r = s
<1>1. samples \in Seq(ToSet(samples))
  BY DEF CalibrationInv, RunTypeOK, IsSeries
<1>2. DOMAIN samples = 1..Len(samples) /\ Len(samples) \in Nat
  BY <1>1, LenProperties
<1>3. \A s \in ToSet(samples) : s.t \in Int
  <2>1. \A s \in ToSet(samples) : StampOf(s) \in Stamps
    BY DEF Stamps, Taken
  <2>2. \A s \in ToSet(samples) : StampOf(s).t \in 1..clock /\ StampOf(s).t = s.t
    BY <2>1 DEF CalibrationInv, StampsInOrder, StampOf
  <2>. QED  BY <2>2
<1>4. \A i \in DOMAIN samples : samples[i] \in ToSet(samples)
  BY DEF ToSet
<1>5. ASSUME NEW r \in ToSet(samples), NEW s \in ToSet(samples), r.t = s.t
      PROVE  r = s
  <2>1. PICK i \in DOMAIN samples, j \in DOMAIN samples : r = samples[i] /\ s = samples[j]
    BY DEF ToSet
  <2>2. samples[i].t \in Int /\ samples[j].t \in Int
    BY <1>3, <1>4
  <2>3. ~(i < j) /\ ~(j < i)
    BY <1>5, <2>1, <2>2 DEF InOrder
  <2>4. i = j
    BY <1>2, <2>3
  <2>. QED  BY <2>1, <2>4
<1>. QED  BY <1>1, <1>3, <1>4, <1>5

\* When a run was measured, the time of a mark parts what came before its step from what
\* came after.
LEMMA MarkedAt ==
  ASSUME MeasuredInv, Measured, NEW i \in 1..Len(Program), Program[i].name \notin Calls,
         \A j \in 1..Len(Program) : Program[j].name = Program[i].name /\ Program[j].n = Program[i].n => j = i
  PROVE  /\ TimeOf(Program[i].name, Program[i].n) \in Int
         /\ \A s \in ToSet(samples) :
              LET T == TimeOf(Program[i].name, Program[i].n) IN
              /\ s.at < i => s.t <= T
              /\ s.at > i => T <= s.t
              /\ s.t <= T => s.at <= i
<1>. DEFINE name == Program[i].name
            n == Program[i].n
            isIts(m) == m \in ToSet(marks) /\ (m.name = name /\ m.n = n)
            its == CHOOSE m : isIts(m)
<1>1. TimeOf(name, n) = its.t
  BY DEF TimeOf
<1>2. \E m : isIts(m)
  <2>1. i < at /\ result \in {"running", "measured"}
    <3>1. Over /\ result = "measured" /\ at \in Nat /\ Len(Program) \in Nat
      BY PlacesFacts DEF Measured, MeasuredInv, RunInv, CalibrationInv, RunTypeOK
    <3>. QED  BY <3>1 DEF Over
  <2>2. PICK m \in ToSet(marks) : m.at = i
    BY <2>1 DEF MeasuredInv, RunInv, MarksAreMade
  <2>3. m.name = name /\ m.n = n
    BY <2>2 DEF MeasuredInv, RunInv, MarksAreMade
  <2>. QED  BY <2>3
<1>3. isIts(its)
  <2>. HIDE DEF isIts
  <2>. QED  BY <1>2
<1>. HIDE DEF its
<1>4. its \in ToSet(marks) /\ its.at = i
  <2>1. its.at \in 1..Len(Program) /\ its.name = Program[its.at].name /\ its.n = Program[its.at].n
    BY <1>3 DEF MeasuredInv, RunInv, MarksAreMade
  <2>. QED  BY <1>3, <2>1
<1>5. MarksSeparatePhases
  BY CalibrationInvImplies DEF MeasuredInv, CalibrationConsistent
<1>6. PICK own \in ToSet(samples) : own.t = its.t /\ own.at = i
  BY <1>4, <1>5 DEF MarksSeparatePhases
<1>7. \A s \in ToSet(samples) : (s.t < its.t => s.at <= i) /\ (s.t > its.t => s.at >= i)
  BY <1>4, <1>5 DEF MarksSeparatePhases
<1>8. /\ \A s \in ToSet(samples) : s.t \in Int
      /\ \A r, s \in ToSet(samples) : r.t = s.t => r = s
  BY TimesAreUnique DEF MeasuredInv, Measured
<1>9. \A s \in ToSet(samples) : s.at \in Int
  <2>1. \A s \in ToSet(samples) : StampOf(s) \in Stamps
    BY DEF Stamps, Taken
  <2>2. \A s \in ToSet(samples) : StampOf(s).at \in 0..at /\ StampOf(s).at = s.at
    BY <2>1 DEF MeasuredInv, CalibrationInv, StampsInOrder, StampOf
  <2>. QED  BY <2>2
<1>10. its.t \in Int /\ i \in Int
  BY <1>6, <1>8
<1>11. ASSUME NEW s \in ToSet(samples)
       PROVE  /\ s.at < i => s.t <= its.t
              /\ s.at > i => its.t <= s.t
              /\ s.t <= its.t => s.at <= i
  <2>1. s.t \in Int /\ s.at \in Int /\ (s.t = its.t => s.at = i)
    BY <1>6, <1>8, <1>9
  <2>. QED  BY <1>7, <1>10, <2>1
<1>. QED  BY <1>1, <1>10, <1>11
LEMMA WindowHolds ==
  ASSUME MeasuredInv, Measured, NEW from, NEW to, NEW n,
         NEW i \in 1..Len(Program), NEW j \in 1..Len(Program),
         from \notin Calls, to \notin Calls,
         Program[i].name = from, Program[i].n = n, Program[j].name = to, Program[j].n = n,
         \A k \in 1..Len(Program) : Program[k].name = from /\ Program[k].n = n => k = i,
         \A k \in 1..Len(Program) : Program[k].name = to /\ Program[k].n = n => k = j
  PROVE  /\ Window(from, to, n) \in Seq(ToSet(samples))
         /\ \A s \in ToSet(samples) : i < s.at /\ s.at < j => s \in ToSet(Window(from, to, n))
         /\ \A s \in ToSet(Window(from, to, n)) : s \in ToSet(samples) /\ s.at <= j
<1>1. /\ TimeOf(from, n) \in Int
      /\ \A s \in ToSet(samples) : s.at > i => TimeOf(from, n) <= s.t
  BY MarkedAt
<1>2. /\ TimeOf(to, n) \in Int
      /\ \A s \in ToSet(samples) : (s.at < j => s.t <= TimeOf(to, n)) /\ (s.t <= TimeOf(to, n) => s.at <= j)
  BY MarkedAt
<1>3. /\ samples \in Seq(ToSet(samples))
      /\ \A k \in DOMAIN samples : samples[k].t \in Int
      /\ \A k, l \in DOMAIN samples : k < l => samples[k].t < samples[l].t
  BY TimesAreUnique DEF MeasuredInv, Measured, InOrder
<1>4. /\ Window(from, to, n) \in Seq(ToSet(samples))
      /\ ToSet(Window(from, to, n)) =
           {s \in ToSet(samples) : TimeOf(from, n) <= s.t /\ s.t <= TimeOf(to, n)}
  BY <1>1, <1>2, <1>3, SliceIsTheWindow DEF Window
<1>5. \A s \in ToSet(samples) : s.at \in Int
  <2>1. \A s \in ToSet(samples) : StampOf(s) \in Stamps
    BY DEF Stamps, Taken
  <2>2. \A s \in ToSet(samples) : StampOf(s).at \in 0..at /\ StampOf(s).at = s.at
    BY <2>1 DEF MeasuredInv, CalibrationInv, StampsInOrder, StampOf
  <2>. QED  BY <2>2
<1>. QED  BY <1>1, <1>2, <1>4, <1>5

\* What was sampled while the worker loaded and generated is in the windows of that, and
\* the baseline is from before.
LEMMA WindowsHold ==
  ASSUME MeasuredInv, Measured
  PROVE  /\ \A window \in {Windows.baseline, Windows.load, Windows.loaded} : window \in Seq(ToSet(samples))
         /\ Windows.generates = [n \in 1..Repeats |-> Window("gen_start", "gen_end", n)]
         /\ \A n \in 1..Repeats :
              /\ Windows.generates[n] \in Seq(ToSet(samples))
              /\ \A s \in ToSet(samples) : s.at = 4 * n + 4 => s \in ToSet(Windows.generates[n])
         /\ \A s \in ToSet(samples) : s.at = 4 => s \in ToSet(Windows.load)
         /\ \A s \in ToSet(Windows.baseline) : s \in ToSet(samples) /\ s.at <= 2
<1>1. /\ Windows.baseline = Window("baseline_start", "baseline_end", 1)
      /\ Windows.load = Window("load_start", "load_end", 1)
      /\ Windows.loaded = Window("load_end", "loaded_settled_end", 1)
      /\ Windows.generates = [n \in 1..Repeats |-> Window("gen_start", "gen_end", n)]
  BY DEF Windows
<1>2. Len(Program) \in Nat /\ Len(Program) >= 6 /\ Repeats \in Nat
  BY ProgramParts, CalibrationAssumption
<1>3. \A i \in {1, 2, 3, 5, 6} :
        /\ i \in 1..Len(Program) /\ Program[i].name = Opening[i] /\ Program[i].n = 1
        /\ Opening[i] \notin Calls
        /\ \A k \in 1..Len(Program) : Program[k].name = Opening[i] /\ Program[k].n = 1 => k = i
  <2>. TAKE i \in {1, 2, 3, 5, 6}
  <2>1. i \in 1..6 /\ i \in 1..Len(Program)
    BY <1>2
  <2>2. Opening[i] \notin Calls
    BY DEF Opening, Calls
  <2>. QED  BY <2>1, <2>2, ProgramParts, PlacesOfNames
<1>4. ASSUME NEW i \in {1, 2, 3, 5, 6}, NEW j \in {1, 2, 3, 5, 6}
      PROVE  /\ Window(Opening[i], Opening[j], 1) \in Seq(ToSet(samples))
             /\ \A s \in ToSet(samples) : i < s.at /\ s.at < j => s \in ToSet(Window(Opening[i], Opening[j], 1))
             /\ \A s \in ToSet(Window(Opening[i], Opening[j], 1)) : s \in ToSet(samples) /\ s.at <= j
  <2>. DEFINE from == Opening[i]
              to == Opening[j]
  <2>1. /\ i \in 1..Len(Program) /\ Program[i].name = from /\ Program[i].n = 1 /\ from \notin Calls
        /\ j \in 1..Len(Program) /\ Program[j].name = to /\ Program[j].n = 1 /\ to \notin Calls
        /\ \A k \in 1..Len(Program) : Program[k].name = from /\ Program[k].n = 1 => k = i
        /\ \A k \in 1..Len(Program) : Program[k].name = to /\ Program[k].n = 1 => k = j
    BY <1>3
  <2>. HIDE DEF from, to
  <2>2. /\ Window(from, to, 1) \in Seq(ToSet(samples))
        /\ \A s \in ToSet(samples) : i < s.at /\ s.at < j => s \in ToSet(Window(from, to, 1))
        /\ \A s \in ToSet(Window(from, to, 1)) : s \in ToSet(samples) /\ s.at <= j
    BY SMTT(30), <2>1, WindowHolds
  <2>. QED  BY <2>2 DEF from, to
<1>5. /\ Opening[1] = "baseline_start" /\ Opening[2] = "baseline_end" /\ Opening[3] = "load_start"
      /\ Opening[5] = "load_end" /\ Opening[6] = "loaded_settled_end"
  BY DEF Opening
<1>6. /\ Windows.baseline \in Seq(ToSet(samples))
      /\ \A s \in ToSet(Windows.baseline) : s \in ToSet(samples) /\ s.at <= 2
  <2>1. Windows.baseline = Window(Opening[1], Opening[2], 1)
    BY <1>1, <1>5
  <2>. QED  BY <1>4, <2>1
<1>7. /\ Windows.load \in Seq(ToSet(samples))
      /\ \A s \in ToSet(samples) : s.at = 4 => s \in ToSet(Windows.load)
  <2>1. Windows.load = Window(Opening[3], Opening[5], 1)
    BY <1>1, <1>5
  <2>2. \A x : x = 4 => 3 < x /\ x < 5
    OBVIOUS
  <2>3. /\ Windows.load \in Seq(ToSet(samples))
        /\ \A s \in ToSet(samples) : 3 < s.at /\ s.at < 5 => s \in ToSet(Windows.load)
    BY <1>4, <2>1
  <2>. QED  BY <2>2, <2>3
<1>8. Windows.loaded \in Seq(ToSet(samples))
  <2>1. Windows.loaded = Window(Opening[5], Opening[6], 1)
    BY <1>1, <1>5
  <2>. QED  BY <1>4, <2>1
<1>9. ASSUME NEW n \in 1..Repeats
      PROVE  /\ Windows.generates[n] \in Seq(ToSet(samples))
             /\ \A s \in ToSet(samples) : s.at = 4 * n + 4 => s \in ToSet(Windows.generates[n])
  <2>1. Windows.generates[n] = Window("gen_start", "gen_end", n)
    BY <1>1
  <2>2. Repetition[1] = "gen_start" /\ Repetition[3] = "gen_end"
        /\ "gen_start" \notin Calls /\ "gen_end" \notin Calls
    BY DEF Repetition, Calls
  <2>3. \A r \in {1, 3} :
          /\ 4 * n + 2 + r \in 1..Len(Program)
          /\ Program[4 * n + 2 + r].name = Repetition[r] /\ Program[4 * n + 2 + r].n = n
          /\ \A k \in 1..Len(Program) : Program[k].name = Repetition[r] /\ Program[k].n = n => k = 4 * n + 2 + r
    <3>. TAKE r \in {1, 3}
    <3>1. r \in 1..4 /\ Cycles \in Nat /\ n \in Nat
      BY CalibrationAssumption
    <3>2. 4 * n + 2 + r \in 7..6 + 4 * Repeats
      BY <3>1, ProgramParts
    <3>3. 4 * n + 2 + r \in 1..Len(Program)
      BY <1>2, <3>1, <3>2, ProgramParts
    <3>4. Program[4 * n + 2 + r].name = Repetition[r] /\ Program[4 * n + 2 + r].n = n
      BY <3>1, ProgramParts
    <3>5. \A k \in 1..Len(Program) : Program[k].name = Repetition[r] /\ Program[k].n = n => k = 4 * n + 2 + r
      BY PlacesOfNames
    <3>. QED  BY <3>3, <3>4, <3>5
  <2>. DEFINE i == 4 * n + 2 + 1
              j == 4 * n + 2 + 3
  <2>4. /\ i \in 1..Len(Program) /\ j \in 1..Len(Program)
        /\ Program[i].name = "gen_start" /\ Program[i].n = n
        /\ Program[j].name = "gen_end" /\ Program[j].n = n
        /\ \A k \in 1..Len(Program) : Program[k].name = "gen_start" /\ Program[k].n = n => k = i
        /\ \A k \in 1..Len(Program) : Program[k].name = "gen_end" /\ Program[k].n = n => k = j
    BY <2>2, <2>3
  <2>5. \A x : x = 4 * n + 4 => i < x /\ x < j
    OBVIOUS
  <2>. HIDE DEF i, j
  <2>6. /\ Window("gen_start", "gen_end", n) \in Seq(ToSet(samples))
        /\ \A s \in ToSet(samples) : i < s.at /\ s.at < j => s \in ToSet(Window("gen_start", "gen_end", n))
    BY SMTT(30), <2>2, <2>4, WindowHolds
  <2>. QED  BY <2>1, <2>5, <2>6
<1>. QED  BY <1>1, <1>6, <1>7, <1>8, <1>9

(* The result of a run *)

\* What was sampled of the work is in the window of the load or of a repetition.
LEMMA WorkIsInWindows ==
  ASSUME MeasuredInv, Measured, NEW s \in OfTheWork
  PROVE  /\ s \in ToSet(samples)
         /\ \/ s \in ToSet(Windows.load)
            \/ \E n \in 1..Repeats : s \in ToSet(Windows.generates[n])
<1>1. s \in ToSet(samples) /\ s.at \in 1..Len(Program)
      /\ (Program[s.at].name = "GENERATE" \/ (Program[s.at].name = "LOAD" /\ Program[s.at].n = 1))
  BY DEF OfTheWork
<1>2. CASE Program[s.at].name = "GENERATE"
  <2>1. PICK n \in 1..Repeats : s.at = 4 * n + 4
    BY <1>1, <1>2, PlacesOfNames
  <2>2. s \in ToSet(Windows.generates[n])
    BY <1>1, <2>1, WindowsHold
  <2>. QED  BY <1>1, <2>2
<1>3. CASE Program[s.at].name = "LOAD" /\ Program[s.at].n = 1
  <2>1. s.at = 4
    BY <1>1, <1>3, PlacesOfNames
  <2>. QED  BY <1>1, <2>1, WindowsHold
<1>. QED  BY <1>1, <1>2, <1>3

LEMMA RowIsSeq == ASSUME NEW S, NEW n \in Nat, NEW f \in [1..n -> S] PROVE f \in Seq(S)
BY SeqDef

\* The readings of a window, as sequences of numbers.
LEMMA ReadingsOf ==
  ASSUME MeasuredInv, NEW window \in Seq(ToSet(samples))
  PROVE  /\ SelfOf(window) \in Seq(Nat) /\ ForeignOf(window) \in Seq(Nat)
         /\ \A s \in ToSet(window) : \E i \in DOMAIN SelfOf(window) : SelfOf(window)[i] = s.self
         /\ \A i \in DOMAIN ForeignOf(window) :
              \E s \in ToSet(window) : ForeignOf(window)[i] = s.foreign
<1>1. Len(window) \in Nat /\ DOMAIN window = 1..Len(window)
      /\ \A i \in 1..Len(window) : window[i] \in ToSet(samples)
  BY LenProperties, ElementOfSeq
<1>2. \A s \in ToSet(samples) : s.self \in Nat /\ s.foreign \in Nat
  BY DEF MeasuredInv, RunInv, SamplesTell
<1>3. SelfOf(window) = [i \in 1..Len(window) |-> window[i].self]
      /\ ForeignOf(window) = [i \in 1..Len(window) |-> window[i].foreign]
  BY <1>1 DEF SelfOf, ForeignOf
<1>4. SelfOf(window) \in [1..Len(window) -> Nat] /\ ForeignOf(window) \in [1..Len(window) -> Nat]
  BY <1>1, <1>2, <1>3
<1>5. SelfOf(window) \in Seq(Nat) /\ ForeignOf(window) \in Seq(Nat)
  <2>. DEFINE len == Len(window)
              self == SelfOf(window)
              others == ForeignOf(window)
  <2>1. len \in Nat /\ self \in [1..len -> Nat] /\ others \in [1..len -> Nat]
    BY <1>1, <1>4
  <2>. HIDE DEF len, self, others
  <2>2. self \in Seq(Nat) /\ others \in Seq(Nat)
    BY <2>1, RowIsSeq
  <2>. QED  BY <2>2 DEF self, others
<1>6. \A s \in ToSet(window) : \E i \in 1..Len(window) : window[i] = s
  BY <1>1 DEF ToSet
<1>7. \A i \in 1..Len(window) : window[i] \in ToSet(window)
  BY <1>1 DEF ToSet
<1>8. /\ DOMAIN SelfOf(window) = 1..Len(window) /\ DOMAIN ForeignOf(window) = 1..Len(window)
      /\ \A i \in 1..Len(window) : SelfOf(window)[i] = window[i].self /\ ForeignOf(window)[i] = window[i].foreign
  BY <1>3
<1>9. \A s \in ToSet(window) : \E i \in DOMAIN SelfOf(window) : SelfOf(window)[i] = s.self
  BY <1>6, <1>8
<1>10. \A i \in DOMAIN ForeignOf(window) : \E s \in ToSet(window) : ForeignOf(window)[i] = s.foreign
  BY <1>7, <1>8
<1>. QED  BY <1>5, <1>9, <1>10

LEMMA HighestOfWindow ==
  ASSUME MeasuredInv, NEW window \in Seq(ToSet(samples))
  PROVE  /\ Highest(SelfOf(window)) \in Nat
         /\ \A s \in ToSet(window) : s.self <= Highest(SelfOf(window))
<1>1. SelfOf(window) \in Seq(Nat)
      /\ \A s \in ToSet(window) : \E i \in DOMAIN SelfOf(window) : SelfOf(window)[i] = s.self
  BY ReadingsOf
<1>2. /\ Highest(SelfOf(window)) \in Nat
      /\ \A i \in DOMAIN SelfOf(window) : SelfOf(window)[i] <= Highest(SelfOf(window))
  BY <1>1, HighestHolds
<1>. QED  BY <1>1, <1>2

\* The peak of the repetitions is over each of them.
LEMMA GeneratePeakHolds ==
  ASSUME MeasuredInv, Measured
  PROVE  /\ GeneratePeak(Windows) \in Nat
         /\ \A n \in 1..Repeats : \A s \in ToSet(Windows.generates[n]) : s.self <= GeneratePeak(Windows)
<1>. DEFINE g == Windows.generates
            peaks == [n \in DOMAIN g |-> Highest(SelfOf(g[n]))]
<1>1. DOMAIN g = 1..Repeats /\ Repeats \in Nat
  BY WindowsHold, CalibrationAssumption
<1>2. \A n \in 1..Repeats :
        /\ Highest(SelfOf(g[n])) \in Nat
        /\ \A s \in ToSet(g[n]) : s.self <= Highest(SelfOf(g[n]))
  <2>. TAKE n \in 1..Repeats
  <2>1. g[n] \in Seq(ToSet(samples))
    BY WindowsHold
  <2>. HIDE DEF g
  <2>. QED  BY <2>1, HighestOfWindow
<1>3. GeneratePeak(Windows) = Highest(peaks)
  BY DEF GeneratePeak
<1>4. peaks \in Seq(Nat) /\ DOMAIN peaks = 1..Repeats
      /\ \A n \in 1..Repeats : peaks[n] = Highest(SelfOf(g[n]))
  <2>. HIDE DEF g
  <2>1. peaks \in [1..Repeats -> Nat]
    BY <1>1, <1>2
  <2>. QED  BY <1>1, <2>1, SeqDef
<1>. HIDE DEF peaks
<1>5. Highest(peaks) \in Nat /\ \A n \in 1..Repeats : peaks[n] <= Highest(peaks)
  BY <1>4, HighestHolds
<1>6. ASSUME NEW n \in 1..Repeats, NEW s \in ToSet(g[n])
      PROVE  s.self <= Highest(peaks)
  <2>1. s \in ToSet(samples)
    <3>1. g[n] \in Seq(ToSet(samples))
      BY WindowsHold
    <3>2. DOMAIN g[n] = 1..Len(g[n]) /\ \A i \in 1..Len(g[n]) : g[n][i] \in ToSet(samples)
      BY <3>1, LenProperties, ElementOfSeq
    <3>. QED  BY <3>2 DEF ToSet
  <2>2. s.self \in Nat
    BY <2>1 DEF MeasuredInv, RunInv, SamplesTell
  <2>3. peaks[n] \in Nat /\ s.self <= peaks[n] /\ peaks[n] <= Highest(peaks)
    BY <1>2, <1>4, <1>5
  <2>. QED  BY <1>5, <2>2, <2>3
<1>. QED  BY <1>3, <1>5, <1>6

\* What a result says: its peak is over every reading of the work.
LEMMA ResultHolds ==
  ASSUME MeasuredInv, Measured
  PROVE  LET cal == Derive(Windows) IN
         /\ cal.peak \in Nat /\ cal.generate_peak \in Nat /\ cal.resident \in Nat
         /\ cal.activation = Largest2(0, cal.generate_peak - cal.resident)
         /\ \A s \in OfTheWork : s.self \in Nat /\ s.self <= cal.peak
<1>. DEFINE w == Windows
            load == Highest(SelfOf(w.load))
            generate == GeneratePeak(w)
            resident == ResidentOf(w)
            three == <<load, generate, resident>>
            cal == Derive(w)
<1>1. /\ cal.peak = Highest(three) /\ cal.generate_peak = generate /\ cal.resident = resident
      /\ cal.activation = Largest2(0, generate - resident)
  BY DEF Derive
<1>2. load \in Nat /\ \A s \in ToSet(w.load) : s.self <= load
  <2>1. w.load \in Seq(ToSet(samples))
    BY WindowsHold
  <2>. QED  BY <2>1, HighestOfWindow
<1>3. generate \in Nat /\ \A n \in 1..Repeats : \A s \in ToSet(w.generates[n]) : s.self <= generate
  BY GeneratePeakHolds
<1>4. resident \in Nat
  <2>1. w.loaded \in Seq(ToSet(samples))
    BY WindowsHold
  <2>2. SelfOf(w.loaded) \in Seq(Nat)
    BY <2>1, ReadingsOf
  <2>. QED  BY <2>2, MedianHolds DEF ResidentOf
<1>5. \A s \in OfTheWork : s.self \in Nat /\ (s.self <= load \/ s.self <= generate)
  <2>. TAKE s \in OfTheWork
  <2>1. s.self \in Nat
    BY WorkIsInWindows DEF MeasuredInv, RunInv, SamplesTell
  <2>. QED  BY <1>2, <1>3, <2>1, WorkIsInWindows
<1>. HIDE DEF load, generate, resident, w
<1>6. three \in Seq(Nat) /\ DOMAIN three = 1..3 /\ three[1] = load /\ three[2] = generate
  BY <1>2, <1>3, <1>4
<1>. HIDE DEF three, cal
<1>7. Highest(three) \in Nat /\ load <= Highest(three) /\ generate <= Highest(three)
  BY <1>6, HighestHolds
<1>8. \A s \in OfTheWork : s.self \in Nat /\ s.self <= Highest(three)
  BY <1>2, <1>3, <1>5, <1>7
<1>. QED  BY <1>1, <1>3, <1>4, <1>7, <1>8 DEF cal, w

\* The result of a run is that, or it is that without confidence.
LEMMA CalibratedIs ==
  /\ Calibrated.confidence = "high" => Calibrated = Derive(Windows)
  /\ \A field \in {"peak", "generate_peak", "resident", "activation"} :
       Calibrated[field] = Derive(Windows)[field]
<1>1. "confidence" \in DOMAIN Derive(Windows)
  BY DEF Derive
<1>2. CASE NeverObserved
  <2>1. Calibrated = [Derive(Windows) EXCEPT !.confidence = "low"]
    BY <1>2 DEF Calibrated
  <2>2. /\ Calibrated.confidence = "low"
        /\ \A field \in DOMAIN Derive(Windows) \ {"confidence"} : Calibrated[field] = Derive(Windows)[field]
    BY <1>1, <2>1
  <2>3. {"peak", "generate_peak", "resident", "activation"} \subseteq DOMAIN Derive(Windows) \ {"confidence"}
    BY DEF Derive
  <2>. QED  BY <2>2, <2>3
<1>3. CASE ~NeverObserved
  BY <1>3 DEF Calibrated
<1>. QED  BY <1>2, <1>3

(* The trust in a result *)

\* A series has finitely many samples.
LEMMA SamplesAreFinite ==
  ASSUME MeasuredInv, NEW during, during \subseteq ToSet(samples)
  PROVE  /\ {0} \cup {s.foreign : s \in during} \in SUBSET Int
         /\ IsFiniteSet({0} \cup {s.foreign : s \in during})
<1>1. samples \in Seq(ToSet(samples))
  BY DEF MeasuredInv, CalibrationInv, RunTypeOK, IsSeries
<1>2. Len(samples) \in Nat /\ DOMAIN samples = 1..Len(samples) /\ IsFiniteSet(1..Len(samples))
  BY <1>1, LenProperties, FS_Interval
<1>3. IsFiniteSet(ToSet(samples))
  <2>1. ToSet(samples) = {samples[i] : i \in 1..Len(samples)}
    BY <1>2 DEF ToSet
  <2>2. samples \in Surjection(1..Len(samples), ToSet(samples))
    BY <1>1, <1>2, <2>1 DEF Surjection
  <2>. QED  BY <1>2, <2>2, FS_Surjection
<1>4. IsFiniteSet(during)
  BY <1>3, FS_Subset
<1>5. IsFiniteSet({s.foreign : s \in during})
  <2>. DEFINE f == [s \in during |-> s.foreign]
              T == {s.foreign : s \in during}
  <2>1. f \in Surjection(during, T)
    BY DEF Surjection
  <2>. HIDE DEF T, f
  <2>2. IsFiniteSet(T)
    BY <1>4, <2>1, FS_Surjection
  <2>. QED  BY <2>2 DEF T
<1>6. \A s \in during : s.foreign \in Nat
  BY DEF MeasuredInv, RunInv, SamplesTell
<1>. DEFINE found == {s.foreign : s \in during}
<1>7. IsFiniteSet(found) /\ found \in SUBSET Int
  BY <1>5, <1>6
<1>. HIDE DEF found
<1>8. {0} \cup found \in SUBSET Int
  BY <1>7
<1>9. IsFiniteSet({0})
  BY FS_Singleton
<1>10. IsFiniteSet({0} \cup found)
  BY <1>7, <1>9, FS_Union
<1>. QED  BY <1>8, <1>10 DEF found

\* Of what a run whose result is trusted saw while the worker was at work, little more was
\* counted as foreign than before.
LEMMA TrustedIsClean ==
  ASSUME MeasuredInv, Measured, Confidence(Windows) = "high", NEW s \in OfTheWork
  PROVE  s.foreign <= 64 + Median(ForeignOf(Windows.baseline))
<1>. DEFINE w == Windows
            during == ToSet(w.load) \cup ToSet(w.loaded) \cup UNION {ToSet(g) : g \in ToSet(w.generates)}
            base == Median(ForeignOf(w.baseline))
            all == {0} \cup {r.foreign : r \in during}
<1>1. ~(Max(all) - base > 64)
  <2>1. ~Contaminated(w)
    BY DEF Confidence
  <2>. QED  BY <2>1 DEF Contaminated
<1>2. \A window : window \in Seq(ToSet(samples)) => ToSet(window) \subseteq ToSet(samples)
  <2>. TAKE window
  <2>. HAVE window \in Seq(ToSet(samples))
  <2>1. DOMAIN window = 1..Len(window) /\ \A i \in 1..Len(window) : window[i] \in ToSet(samples)
    BY LenProperties, ElementOfSeq
  <2>. QED  BY <2>1 DEF ToSet
<1>3. \A g \in ToSet(w.generates) : \E n \in 1..Repeats : g = w.generates[n]
  <2>1. DOMAIN w.generates = 1..Repeats
    BY WindowsHold
  <2>. HIDE DEF w
  <2>. QED  BY <2>1 DEF ToSet
<1>4. \A n \in 1..Repeats : w.generates[n] \in ToSet(w.generates)
  <2>1. DOMAIN w.generates = 1..Repeats
    BY WindowsHold
  <2>. HIDE DEF w
  <2>. QED  BY <2>1 DEF ToSet
<1>5. during \subseteq ToSet(samples)
  <2>1. ToSet(w.load) \subseteq ToSet(samples) /\ ToSet(w.loaded) \subseteq ToSet(samples)
    BY <1>2, WindowsHold
  <2>2. \A n \in 1..Repeats : ToSet(w.generates[n]) \subseteq ToSet(samples)
    BY <1>2, WindowsHold
  <2>3. \A g \in ToSet(w.generates) : ToSet(g) \subseteq ToSet(samples)
    BY <1>3, <2>2
  <2>. HIDE DEF w
  <2>. QED  BY <2>1, <2>3
<1>6. s \in during
  <2>1. s \in ToSet(w.load) \/ \E n \in 1..Repeats : s \in ToSet(w.generates[n])
    BY WorkIsInWindows
  <2>. HIDE DEF w
  <2>. QED  BY <1>4, <2>1
<1>7. base \in Nat
  <2>1. w.baseline \in Seq(ToSet(samples))
    BY WindowsHold
  <2>2. ForeignOf(w.baseline) \in Seq(Nat)
    BY <2>1, ReadingsOf
  <2>. QED  BY <2>2, MedianHolds
<1>. HIDE DEF during, w
<1>8. all \in SUBSET Int /\ IsFiniteSet(all)
  BY <1>5, SamplesAreFinite
<1>9. s.foreign \in all /\ s.foreign \in Int
  BY <1>6, <1>8
<1>. HIDE DEF all, base
<1>10. Max(all) \in Int /\ s.foreign <= Max(all)
  BY <1>8, <1>9, MaxHolds
<1>11. s.foreign <= 64 + base
  BY <1>1, <1>7, <1>9, <1>10
<1>. QED  BY <1>11 DEF base, w

LEMMA MeasuredInvTrusts == ASSUME DriverReports, MeasuredInv PROVE TrustedPeakIsTrue
<1>. SUFFICES ASSUME Measured, foreignMoves = 0, Calibrated.confidence = "high",
                     NEW s \in OfTheWork, s.told
              PROVE  s.real <= Calibrated.peak + 64
  BY DEF TrustedPeakIsTrue
<1>1. Calibrated = Derive(Windows) /\ Confidence(Windows) = "high"
  <2>1. Calibrated = Derive(Windows)
    BY CalibratedIs
  <2>. QED  BY <2>1 DEF Derive
<1>2. s \in ToSet(samples)
  BY WorkIsInWindows
<1>3. /\ s.self \in Nat /\ s.foreign \in Nat /\ s.real \in Nat /\ foreign \in Nat
      /\ s.real + foreign = s.self + s.foreign
  BY <1>2 DEF MeasuredInv, RunInv, SamplesTell
<1>4. Calibrated.peak \in Nat /\ s.self <= Calibrated.peak
  BY <1>1, ResultHolds
<1>5. s.foreign <= 64 + Median(ForeignOf(Windows.baseline))
  BY <1>1, TrustedIsClean
<1>6. Median(ForeignOf(Windows.baseline)) \in Nat /\ Median(ForeignOf(Windows.baseline)) <= foreign
  <2>. DEFINE baseline == Windows.baseline
              others == ForeignOf(baseline)
  <2>1. baseline \in Seq(ToSet(samples)) /\ \A r \in ToSet(baseline) : r \in ToSet(samples) /\ r.at <= 2
    BY WindowsHold
  <2>. HIDE DEF baseline
  <2>2. others \in Seq(Nat) /\ \A i \in DOMAIN others : \E r \in ToSet(baseline) : others[i] = r.foreign
    BY <2>1, ReadingsOf
  <2>3. \A r \in ToSet(baseline) : r.foreign <= foreign
    BY <2>1 DEF MeasuredInv, RunInv, SamplesTell
  <2>4. \A i \in DOMAIN others : others[i] <= foreign
    BY <2>2, <2>3
  <2>. HIDE DEF others
  <2>5. Median(others) \in Nat /\ Median(others) <= foreign
    BY <1>3, <2>2, <2>4, MedianHolds
  <2>. QED  BY <2>5 DEF others, baseline
<1>. QED  BY <1>3, <1>4, <1>5, <1>6

\* Where the driver tells the memory of each process: a result that claims high confidence
\* did not miss memory that a probe saw while the worker loaded or generated.
THEOREM TrustedPeakIsTrueForAll == ASSUME DriverReports PROVE CalibrationSpec => []TrustedPeakIsTrue
<1>1. CalibrationInit => MeasuredInv
  BY CalibrationInitInv, RunInitInv DEF MeasuredInv
<1>2. MeasuredInv /\ [CalibrationNext]_calibrationVars => MeasuredInv'
  BY RunNextInv
<1>3. MeasuredInv => TrustedPeakIsTrue
  BY MeasuredInvTrusts
<1>. QED  BY <1>1, <1>2, <1>3, PTL DEF CalibrationSpec

(* What a result asks for *)

LEMMA RoundingCovers ==
  ASSUME NEW mib \in Nat
  PROVE  /\ RoundUp(mib) \in Nat /\ mib <= RoundUp(mib)
         /\ MibOf(GibUp(mib)) \in Nat /\ mib <= MibOf(GibUp(mib))
<1>1. RoundUp(mib) \in Nat /\ mib <= RoundUp(mib)
  BY DEF RoundUp
<1>2. PICK gib \in Nat : gib = (mib * 100 + 1023) \div 1024
  OBVIOUS
<1>3. gib * 1024 >= mib * 100
  BY <1>2
<1>4. (gib * 1024) \div 100 \in Nat /\ (gib * 1024) \div 100 >= mib
  BY <1>3
<1>. QED  BY <1>1, <1>2, <1>4 DEF MibOf, GibUp

\* Of the descriptor a measurement is laid over.
LaidOver(desc, old, cal, kw) ==
  /\ desc.vram.peak_mib = RoundUp(cal.peak) /\ desc.vram.activation = GibUp(cal.activation)
  /\ desc.measured = TRUE /\ desc.load_keys = old.load_keys /\ DOMAIN desc = DOMAIN old
  /\ desc.profile.quant_mode = LabelOf(kw)
  /\ desc.profile.group_offload_with_memory_efficient = old.profile.group_offload_with_memory_efficient
  /\ desc.profile.load_kwargs.allow_group_offload =
       IF kw.allow_group_offload # Absent THEN kw.allow_group_offload
       ELSE old.profile.load_kwargs.allow_group_offload
  /\ kw.memory_efficient = "yes" => desc.profile.load_kwargs.memory_efficient = "yes"

LEMMA OverlayHolds ==
  ASSUME NEW old \in Descriptors, NEW kw \in Kwargs, NEW cal
  PROVE  LaidOver(Overlay(old, cal, kw), old, cal, kw)
<1>. DEFINE load(key) == IF kw[key] # NoKwargs[key] THEN kw[key] ELSE old.profile.load_kwargs[key]
            kept == [key \in DOMAIN kw |-> load(key)]
            block == [weights |-> GibUp(cal.weights), activation |-> GibUp(cal.activation),
               context |-> GibUp(cal.context), peak_mib |-> RoundUp(cal.peak),
               safety_mib |-> cal.safety, admit_peak_mib |-> RoundUp(cal.peak + cal.safety)]
            frees == old.profile.unload_frees_vram /\ ~cal.unload_ineffective
            profile == [old.profile EXCEPT
               !.quant_mode = LabelOf(kw), !.load_kwargs = kept, !.unload_frees_vram = frees]
            desc == Overlay(old, cal, kw)
<1>1. desc = [old EXCEPT !.vram_mib = RoundUp(cal.peak), !.measured = TRUE, !.vram = block, !.profile = profile]
  BY DEF Overlay
<1>2. /\ {"vram_mib", "measured", "vram", "footprint", "load_keys", "profile"} \subseteq DOMAIN old
      /\ {"quant_mode", "load_kwargs", "group_offload_with_memory_efficient", "unload_frees_vram"}
           \subseteq DOMAIN old.profile
      /\ DOMAIN kw = DOMAIN NoKwargs
  BY RecordsAssumption
<1>3. block.peak_mib = RoundUp(cal.peak) /\ block.activation = GibUp(cal.activation)
  OBVIOUS
<1>4. kept.memory_efficient = load("memory_efficient") /\ kept.allow_group_offload = load("allow_group_offload")
  <2>1. {"memory_efficient", "allow_group_offload"} \subseteq DOMAIN kw
    BY <1>2 DEF NoKwargs
  <2>. HIDE DEF load
  <2>. QED  BY <2>1
<1>5. /\ profile.load_kwargs = kept /\ profile.quant_mode = LabelOf(kw)
      /\ profile.group_offload_with_memory_efficient = old.profile.group_offload_with_memory_efficient
  <2>. HIDE DEF kept, frees
  <2>. QED  BY <1>2
<1>6. /\ desc.vram = block /\ desc.profile = profile /\ desc.measured = TRUE
      /\ desc.load_keys = old.load_keys /\ DOMAIN desc = DOMAIN old
  <2>. HIDE DEF block, profile
  <2>. QED  BY <1>1, <1>2
<1>7. /\ kw.memory_efficient = "yes" => load("memory_efficient") = "yes"
      /\ load("allow_group_offload") =
           IF kw.allow_group_offload # Absent THEN kw.allow_group_offload
           ELSE old.profile.load_kwargs.allow_group_offload
  <2>1. NoKwargs["memory_efficient"] = Absent /\ NoKwargs["allow_group_offload"] = Absent /\ "yes" # Absent
    BY DEF NoKwargs, Absent
  <2>. QED  BY <2>1
<1>. HIDE DEF block, profile, kept, load, desc
<1>8. LaidOver(desc, old, cal, kw)
  BY <1>3, <1>4, <1>5, <1>6, <1>7 DEF LaidOver
<1>. QED  BY <1>8 DEF desc

\* The label of a measurement is the quantization the admission resolves.
LEMMA LabelsAgree == ASSUME NEW kw, QuantsAgree(kw) PROVE LabelOf(kw) = QuantOf(kw)
<1>1. LabelOf(kw) =
        IF kw.sdnq_preset # Absent THEN kw.sdnq_preset
        ELSE IF kw.quant_preset # Absent THEN kw.quant_preset
        ELSE IF kw.quant_mode # Absent THEN kw.quant_mode ELSE "none"
  BY FirstOfThree DEF LabelOf
<1>2. QuantOf(kw) =
        IF kw.sdnq_preset # Absent THEN kw.sdnq_preset
        ELSE IF kw.quant_mode # Absent THEN kw.quant_mode
        ELSE IF kw.quant_preset # Absent THEN kw.quant_preset
        ELSE IF kw.memory_efficient = "yes" THEN "sdnq-uint8" ELSE "none"
  BY FirstOfThree DEF QuantOf
<1>3. /\ kw.sdnq_preset # Absent \/ kw.quant_mode = Absent \/ kw.quant_preset = Absent
           \/ kw.quant_mode = kw.quant_preset
      /\ kw.sdnq_preset = Absent /\ kw.quant_mode = Absent /\ kw.quant_preset = Absent =>
           kw.memory_efficient # "yes"
  BY DEF QuantsAgree
<1>. QED  BY <1>1, <1>2, <1>3

\* Jobs with the kwargs a backend was calibrated with, if they are described as
\* Calibration says, are admitted by the measurement, cold and hot.
LEMMA DescribedApplies ==
  ASSUME NEW old \in Descriptors, NEW kw \in Kwargs, NEW cal, Described(old, kw)
  PROVE  LET desc == Overlay(old, cal, kw) IN
         /\ Applies(desc, ModeOf(desc.profile, LoadKwargs(desc, kw)))
         /\ Applies(desc, ModeOf(desc.profile, kw))
         /\ "vram" \in DOMAIN desc /\ "measured" \in DOMAIN desc /\ "profile" \in DOMAIN desc
<1>. DEFINE desc == Overlay(old, cal, kw)
            profile == desc.profile
            taken == LoadKwargs(desc, kw)
            mode == ModeOf(profile, kw)
            last == ModeOf(profile, taken)
<1>1. LaidOver(desc, old, cal, kw)
  BY OverlayHolds
<1>2. /\ DOMAIN kw = DOMAIN NoKwargs
      /\ {"vram_mib", "measured", "vram", "footprint", "load_keys", "profile"} \subseteq DOMAIN old
  BY RecordsAssumption
<1>. HIDE DEF desc
<1>. USE DEF LaidOver
<1>3. ModeGetsThrough(desc, kw)
  BY <1>1 DEF Described, ModeGetsThrough, LoadKeysFor
<1>4. /\ taken.sdnq_preset = kw.sdnq_preset /\ taken.quant_mode = kw.quant_mode
      /\ taken.quant_preset = kw.quant_preset /\ taken.memory_efficient = kw.memory_efficient
      /\ taken.allow_group_offload = kw.allow_group_offload
  BY <1>2, <1>3, LoadTakes
<1>. HIDE DEF taken
<1>5. last.quant = mode.quant /\ last.go = mode.go
  BY <1>4, ModeIsTold
<1>6. /\ mode.quant = QuantOf(kw)
      /\ mode.go = Given(kw.allow_group_offload, profile.group_offload_with_memory_efficient /\ mode.mem)
  BY ModeParts
<1>7. profile.quant_mode = mode.quant
  BY <1>1, <1>6, LabelsAgree DEF Described
<1>. HIDE DEF mode, last, profile
<1>8. (profile.load_kwargs.allow_group_offload = "yes") = mode.go
  <2>1. CASE kw.allow_group_offload = Absent
    <3>1. /\ old.profile.load_kwargs.allow_group_offload # "yes"
          /\ ~old.profile.group_offload_with_memory_efficient
      BY <2>1 DEF Described, PlacementsAgree
    <3>2. profile.load_kwargs.allow_group_offload # "yes"
      BY <1>1, <2>1, <3>1 DEF profile
    <3>3. mode.go = (profile.group_offload_with_memory_efficient /\ mode.mem)
      BY <1>6, <2>1 DEF Given
    <3>4. ~profile.group_offload_with_memory_efficient
      BY <1>1, <3>1 DEF profile
    <3>. QED  BY <3>2, <3>3, <3>4
  <2>2. CASE kw.allow_group_offload # Absent
    <3>1. mode.go = (kw.allow_group_offload = "yes")
      BY <1>6, <2>2 DEF Given
    <3>2. profile.load_kwargs.allow_group_offload = kw.allow_group_offload
      BY <1>1, <2>2 DEF profile
    <3>. QED  BY <3>1, <3>2
  <2>. QED  BY <2>1, <2>2
<1>9. Applies(desc, mode) /\ Applies(desc, last)
  BY <1>1, <1>5, <1>7, <1>8 DEF Applies, profile
<1>. QED  BY <1>1, <1>2, <1>9 DEF desc, profile, taken, mode, last

\* Nor does a footprint that the request names keep the measurement from being used.
LEMMA FootprintsAside ==
  ASSUME NEW desc, {"vram", "measured", "profile"} \subseteq DOMAIN desc, NEW kw, NEW mode, Applies(desc, mode)
  PROVE  Applies(NamesFootprint(desc, kw), mode) /\ NamesFootprint(desc, kw).vram = desc.vram
<1>. DEFINE named == NamesFootprint(desc, kw)
<1>1. named = desc \/ named = [desc EXCEPT !.footprint = kw.footprint_key]
  BY DEF NamesFootprint
<1>2. named.vram = desc.vram /\ named.measured = desc.measured /\ named.profile = desc.profile
  <2>. HIDE DEF named
  <2>. QED  BY <1>1
<1>. HIDE DEF named
<1>3. Applies(named, mode) /\ named.vram = desc.vram
  BY <1>2 DEF Applies
<1>. QED  BY <1>3 DEF named

LEMMA MeasuredInvCovers == ASSUME MeasuredInv PROVE AdmissionCovers
<1>. DEFINE cal == Calibrated
<1>1. ASSUME Measured
      PROVE  /\ cal.peak \in Nat /\ cal.generate_peak \in Nat /\ cal.resident \in Nat
             /\ cal.activation = Largest2(0, cal.generate_peak - cal.resident)
             /\ \A s \in OfTheWork : s.self \in Nat /\ s.self <= cal.peak
  <2>1. /\ cal.peak = Derive(Windows).peak /\ cal.generate_peak = Derive(Windows).generate_peak
        /\ cal.resident = Derive(Windows).resident /\ cal.activation = Derive(Windows).activation
    BY CalibratedIs
  <2>. HIDE DEF cal
  <2>. QED  BY <1>1, <2>1, ResultHolds
<1>2. AdmissionCoversReadings
  <2>. SUFFICES ASSUME Measured, NEW kw \in Kwargs, NEW old \in Descriptors, Described(old, kw)
                PROVE  LET desc == Overlay(old, cal, kw) IN
                       /\ Applies(desc, ModeOf(desc.profile, LoadKwargs(desc, kw)))
                       /\ \A s \in OfTheWork : s.self > 0 => s.self <= LoadPeakOf(desc, kw)
    BY DEF AdmissionCoversReadings
  <2>1. cal.peak \in Nat /\ \A s \in OfTheWork : s.self \in Nat /\ s.self <= cal.peak
    BY <1>1
  <2>. HIDE DEF cal
  <2>. DEFINE desc == Overlay(old, cal, kw)
              taken == LoadKwargs(desc, kw)
              mode == ModeOf(desc.profile, taken)
              named == NamesFootprint(desc, taken)
  <2>2. LaidOver(desc, old, cal, kw)
    BY OverlayHolds
  <2>3. RoundUp(cal.peak) \in Nat /\ cal.peak <= RoundUp(cal.peak)
    BY <2>1, RoundingCovers
  <2>4. Applies(desc, mode) /\ {"vram", "measured", "profile"} \subseteq DOMAIN desc
    BY DescribedApplies
  <2>5. LoadPeakOf(desc, kw) = LoadPeak(named, mode)
    BY DEF LoadPeakOf
  <2>. HIDE DEF desc, taken, mode
  <2>6. Applies(named, mode) /\ named.vram = desc.vram
    BY <2>4, FootprintsAside
  <2>. HIDE DEF named
  <2>7. ASSUME NEW s \in OfTheWork, s.self > 0 PROVE s.self <= LoadPeakOf(desc, kw)
    <3>1. desc.vram.peak_mib > 0 /\ s.self <= desc.vram.peak_mib
      BY <2>1, <2>2, <2>3, <2>7 DEF LaidOver
    <3>2. LoadPeak(named, mode) = desc.vram.peak_mib
      BY <2>6, <3>1 DEF LoadPeak
    <3>. QED  BY <2>5, <3>1, <3>2
  <2>. QED  BY <2>4, <2>7 DEF desc, taken, mode
<1>3. HeadroomCoversActivation
  <2>. SUFFICES ASSUME Measured, NEW kw \in Kwargs, NEW old \in Descriptors, Described(old, kw),
                       ModeOf(Overlay(old, cal, kw).profile, kw).mem => kw.memory_efficient = "yes",
                       ~ModeOf(Overlay(old, cal, kw).profile, kw).go,
                       ~ModeOf(Overlay(old, cal, kw).profile, kw).streams
                PROVE  cal.resident + Headroom(Overlay(old, cal, kw), ModeOf(Overlay(old, cal, kw).profile, kw))
                         >= cal.generate_peak
    BY DEF HeadroomCoversActivation
  <2>1. /\ cal.generate_peak \in Nat /\ cal.resident \in Nat
        /\ cal.activation = Largest2(0, cal.generate_peak - cal.resident)
    BY <1>1
  <2>. HIDE DEF cal
  <2>. DEFINE desc == Overlay(old, cal, kw)
              mode == ModeOf(desc.profile, kw)
  <2>2. cal.activation \in Nat /\ cal.resident + cal.activation >= cal.generate_peak
    BY <2>1 DEF Largest2
  <2>3. LaidOver(desc, old, cal, kw)
    BY OverlayHolds
  <2>5. Applies(desc, mode) /\ (mode.mem => kw.memory_efficient = "yes") /\ ~mode.go /\ ~mode.streams
    BY DescribedApplies
  <2>. HIDE DEF desc, mode
  <2>9. /\ desc.vram.activation = GibUp(cal.activation)
        /\ kw.memory_efficient = "yes" => desc.profile.load_kwargs.memory_efficient = "yes"
    BY <2>3 DEF LaidOver
  <2>4. MibOf(desc.vram.activation) \in Nat /\ cal.activation <= MibOf(desc.vram.activation)
    BY <2>2, <2>9, RoundingCovers
  <2>6. MeasuredParts(desc, mode).activation = MibOf(desc.vram.activation)
    BY <2>5, <2>9 DEF MeasuredParts
  <2>7. Headroom(desc, mode) = MibOf(desc.vram.activation) + Safety
    BY <2>5, <2>6 DEF Headroom, Parts
  <2>8. cal.resident + Headroom(desc, mode) >= cal.generate_peak
    BY <2>1, <2>2, <2>4, <2>7 DEF Safety
  <2>. QED  BY <2>8 DEF desc, mode
<1>. QED  BY <1>2, <1>3 DEF AdmissionCovers

\* A job with the kwargs a backend was calibrated with is admitted by the measurement and
\* finds room for all the calibration saw such a job hold, cold or hot, whatever the
\* samples and the peaks, as long as the kwargs are Described: the label that is written
\* and the mode that is resolved from them are then the same.
THEOREM AdmissionCoversForAll == CalibrationSpec => []AdmissionCovers
<1>1. CalibrationInit => MeasuredInv
  BY CalibrationInitInv, RunInitInv DEF MeasuredInv
<1>2. MeasuredInv /\ [CalibrationNext]_calibrationVars => MeasuredInv'
  BY RunNextInv
<1>3. MeasuredInv => AdmissionCovers
  BY MeasuredInvCovers
<1>. QED  BY <1>1, <1>2, <1>3, PTL DEF CalibrationSpec

(***************************************************************************)
(* Leftovers                                                               *)
(***************************************************************************)

\* The steps of a walk.
IsWalk(trail, parent, pid, n) ==
  /\ trail[0] = pid
  /\ \A k \in 1..n : trail[k] = IF trail[k - 1] \in DOMAIN parent THEN parent[trail[k - 1]] ELSE Unread

LEMMA WalkDef ==
  ASSUME NEW parent, NEW pid, IsFiniteSet(DOMAIN parent)
  PROVE  LET N == Cardinality(DOMAIN parent) IN
         /\ N \in Nat
         /\ \E trail : /\ IsWalk(trail, parent, pid, N)
                    /\ Walk(parent, pid) = {trail[k] : k \in 1..N} \ {Unread}
<1>. DEFINE N == Cardinality(DOMAIN parent)
            V == {pid, Unread} \cup {parent[p] : p \in DOMAIN parent}
            next(p) == IF p \in DOMAIN parent THEN parent[p] ELSE Unread
            isTo(f, k) == f[0] = pid /\ \A n \in 1..k : f[n] = next(f[n - 1])
            missing == {k \in 0..N : ~\E f \in [0..k -> V] : isTo(f, k)}
<1>1. N \in Nat /\ pid \in V /\ \A p : next(p) \in V
  BY FS_CardinalityType
<1>. HIDE DEF N, V, next
<1>2. missing = {}
  <2>. SUFFICES ASSUME missing # {} PROVE FALSE
    OBVIOUS
  <2>1. PICK k \in missing : \A other \in missing : k <= other
    <3>1. missing \in SUBSET (0..N)
      OBVIOUS
    <3>. HIDE DEF missing
    <3>. QED  BY <1>1, <3>1, LeastExists
  <2>2. k \in 0..N /\ k \in Nat
    BY <1>1
  <2>3. CASE k = 0
    <3>. DEFINE f == [n \in 0..0 |-> pid]
    <3>1. f \in [0..0 -> V] /\ isTo(f, 0)
      BY <1>1
    <3>. QED  BY <2>1, <2>3, <3>1
  <2>4. CASE k # 0
    <3>1. k - 1 \in 0..N /\ k \in 1..N /\ ~(k <= k - 1)
      BY <1>1, <2>2, <2>4
    <3>2. k - 1 \notin missing
      BY <2>1, <3>1
    <3>3. PICK f \in [0..(k - 1) -> V] : isTo(f, k - 1)
      BY <3>1, <3>2
    <3>. DEFINE g == [n \in 0..k |-> IF n = k THEN next(f[k - 1]) ELSE f[n]]
    <3>4. g \in [0..k -> V]
      <4>1. next(f[k - 1]) \in V
        BY <1>1
      <4>2. \A n \in 0..k : n # k => f[n] \in V
        BY <2>2
      <4>. QED  BY <4>1, <4>2
    <3>5. isTo(g, k)
      <4>1. g[0] = pid
        BY <2>2, <2>4, <3>3
      <4>2. ASSUME NEW n \in 1..k PROVE g[n] = next(g[n - 1])
        <5>1. n - 1 \in 0..(k - 1) /\ n \in 0..k /\ n - 1 \in 0..k /\ n - 1 # k
          BY <2>2
        <5>2. g[n - 1] = f[n - 1]
          BY <5>1
        <5>3. CASE n = k
          BY <5>1, <5>2, <5>3
        <5>4. CASE n # k
          <6>1. n \in 1..(k - 1) /\ g[n] = f[n]
            BY <2>2, <5>1, <5>4
          <6>. QED  BY <3>3, <5>2, <6>1
        <5>. QED  BY <5>3, <5>4
      <4>. QED  BY <4>1, <4>2
    <3>. HIDE DEF g, isTo
    <3>. QED  BY <2>1, <3>4, <3>5
  <2>. QED  BY <2>3, <2>4
<1>3. PICK f \in [0..N -> V] : isTo(f, N)
  <2>1. N \in 0..N
    BY <1>1
  <2>. QED  BY <1>2, <2>1
<1>. DEFINE isAt(g) == g = [n \in 0..N |-> IF n = 0 THEN pid ELSE next(g[n - 1])]
            trail == CHOOSE g : isAt(g)
<1>4. isAt(f)
  <2>1. ASSUME NEW n \in 0..N PROVE f[n] = IF n = 0 THEN pid ELSE next(f[n - 1])
    <3>1. n # 0 => n \in 1..N
      BY <1>1
    <3>. QED  BY <1>3, <3>1
  <2>. QED  BY <2>1
<1>5. isAt(trail)
  <2>. HIDE DEF isAt
  <2>. QED  BY <1>4
<1>6. Walk(parent, pid) = {trail[n] : n \in 1..N} \ {Unread}
  BY DEF Walk, N, next
<1>. HIDE DEF trail
<1>7. trail[0] = pid /\ \A n \in 1..N : trail[n] = next(trail[n - 1])
  <2>1. \A n \in 0..N : trail[n] = IF n = 0 THEN pid ELSE next(trail[n - 1])
    BY <1>5
  <2>2. 0 \in 0..N /\ \A n \in 1..N : n \in 0..N /\ n # 0
    BY <1>1
  <2>. QED  BY <2>1, <2>2
<1>8. IsWalk(trail, parent, pid, N)
  BY <1>7 DEF IsWalk, next
<1>. QED  BY <1>1, <1>6, <1>8 DEF N

\* A walk that has left the table stays out of it.
LEMMA WalkStaysOut ==
  ASSUME NEW parent, NEW pid, NEW trail, NEW n \in Nat, IsWalk(trail, parent, pid, n), Unread \notin DOMAIN parent,
         NEW k \in 0..n, trail[k] \notin DOMAIN parent
  PROVE  /\ trail[n] \notin DOMAIN parent
         /\ k < n => trail[n] = Unread
<1>. DEFINE back == {m \in 0..n : k < m /\ trail[m] # Unread}
<1>1. back = {}
  <2>. SUFFICES ASSUME back # {} PROVE FALSE
    OBVIOUS
  <2>1. PICK m \in back : \A other \in back : m <= other
    <3>1. back \in SUBSET (0..n)
      OBVIOUS
    <3>. HIDE DEF back
    <3>. QED  BY <3>1, LeastExists
  <2>2. m \in 1..n /\ m - 1 \in 0..n /\ k <= m - 1 /\ ~(m <= m - 1) /\ k < m
    OBVIOUS
  <2>3. trail[m - 1] \notin DOMAIN parent
    <3>1. CASE m - 1 = k
      BY <3>1
    <3>2. CASE m - 1 # k
      <4>1. k < m - 1
        BY <2>2, <3>2
      <4>2. trail[m - 1] = Unread
        BY <2>1, <2>2, <4>1
      <4>. QED  BY <4>2
    <3>. QED  BY <3>1, <3>2
  <2>4. trail[m] = Unread
    BY <2>2, <2>3 DEF IsWalk
  <2>. QED  BY <2>1, <2>4
<1>2. k < n => trail[n] = Unread
  <2>1. n \in 0..n
    OBVIOUS
  <2>. QED  BY <1>1, <2>1
<1>3. k = n \/ k < n
  OBVIOUS
<1>. QED  BY <1>2, <1>3

\* A walk of as many steps as there are processes comes by all that can be come by.
LEMMA WalkComesBack ==
  ASSUME NEW parent, NEW pid, NEW trail, NEW N \in Nat, IsFiniteSet(DOMAIN parent), N = Cardinality(DOMAIN parent),
         IsWalk(trail, parent, pid, N), Unread \notin DOMAIN parent, trail[N] \in DOMAIN parent
  PROVE  \E k \in 0..N - 1 : trail[N] = trail[k]
<1>1. \A k \in 0..N : trail[k] \in DOMAIN parent
  BY WalkStaysOut
<1>2. PICK i \in 0..N, j \in 0..N : i # j /\ trail[i] = trail[j]
  <2>. DEFINE f == [k \in 0..N |-> trail[k]]
              T == DOMAIN parent
  <2>1. f \in [0..N -> T]
    BY <1>1
  <2>2. IsFiniteSet(0..N) /\ Cardinality(T) < Cardinality(0..N)
    <3>1. 0 \in Int /\ N \in Int
      OBVIOUS
    <3>2. \A a, b \in Int : IsFiniteSet(a..b)
      BY FS_Interval
    <3>3. \A a, b \in Int : Cardinality(a..b) = IF a > b THEN 0 ELSE b - a + 1
      BY FS_Interval
    <3>4. Cardinality(0..N) = IF 0 > N THEN 0 ELSE N - 0 + 1
      BY ONLY <3>1, <3>3
    <3>. QED  BY <3>1, <3>2, <3>4
  <2>. HIDE DEF f, T
  <2>3. IsFiniteSet(T)
    BY DEF T
  <2>4. \E x, y \in 0..N : x # y /\ f[x] = f[y]
    BY <2>1, <2>2, <2>3, FS_PigeonHole
  <2>. QED  BY <2>4 DEF f
<1>3. PICK a \in 0..N, b \in 0..N : a < b /\ trail[a] = trail[b]
  <2>1. i < j \/ j < i
    BY <1>2
  <2>. QED  BY <1>2, <2>1
<1>. DEFINE parts == {m \in 0..N : b + m <= N /\ trail[a + m] # trail[b + m]}
<1>4. parts = {}
  <2>. SUFFICES ASSUME parts # {} PROVE FALSE
    OBVIOUS
  <2>1. PICK m \in parts : \A other \in parts : m <= other
    <3>1. parts \in SUBSET (0..N)
      OBVIOUS
    <3>. HIDE DEF parts
    <3>. QED  BY <3>1, LeastExists
  <2>2. m \in 0..N /\ b + m <= N /\ trail[a + m] # trail[b + m]
    OBVIOUS
  <2>3. m # 0
    <3>. SUFFICES ASSUME m = 0 PROVE FALSE
      OBVIOUS
    <3>1. a + m = a /\ b + m = b
      OBVIOUS
    <3>. QED  BY <1>3, <2>2, <3>1
  <2>4. /\ m - 1 \in 0..N /\ b + (m - 1) <= N /\ ~(m <= m - 1)
        /\ a + m \in 1..N /\ b + m \in 1..N
        /\ (a + m) - 1 = a + (m - 1) /\ (b + m) - 1 = b + (m - 1)
    BY <1>3, <2>2, <2>3
  <2>5. trail[a + (m - 1)] = trail[b + (m - 1)]
    BY <2>1, <2>4
  <2>6. trail[a + m] = trail[b + m]
    BY <2>4, <2>5 DEF IsWalk
  <2>. QED  BY <2>2, <2>6
<1>5. N - b \in 0..N /\ b + (N - b) = N /\ a + (N - b) \in 0..N - 1
  BY <1>3
<1>6. trail[a + (N - b)] = trail[N]
  BY <1>4, <1>5
<1>. QED  BY <1>5, <1>6

\* What the bounded walk comes by is exactly what a chain of parents leads to.
LEMMA WalkFollowsChains ==
  ASSUME NEW parent, IsFiniteSet(DOMAIN parent), Unread \notin DOMAIN parent,
         NEW from \in DOMAIN parent, NEW to, to # Unread
  PROVE  to \in Walk(parent, from) <=> Leads(parent, from, to)
<1>. DEFINE N == Cardinality(DOMAIN parent)
<1>1. /\ N \in Nat
      /\ \E trail : IsWalk(trail, parent, from, N) /\ Walk(parent, from) = {trail[k] : k \in 1..N} \ {Unread}
  BY WalkDef
<1>2. PICK trail : IsWalk(trail, parent, from, N) /\ Walk(parent, from) = {trail[k] : k \in 1..N} \ {Unread}
  BY <1>1
<1>3. N = Cardinality(DOMAIN parent)
  OBVIOUS
<1>. HIDE DEF N
<1>4. ASSUME to \in Walk(parent, from), NEW procs \in SUBSET DOMAIN parent, from \in procs,
             \A p \in procs : parent[p] \in DOMAIN parent => parent[p] \in procs
      PROVE  \E p \in procs : parent[p] = to
  <2>1. PICK n \in 1..N : to = trail[n]
    BY <1>2, <1>4
  <2>2. n \in Nat /\ n - 1 \in 0..n /\ n - 1 < n /\ IsWalk(trail, parent, from, n)
    BY <1>1, <1>2, <2>1 DEF IsWalk
  <2>3. \A k \in 0..n - 1 : trail[k] \in DOMAIN parent
    <3>. SUFFICES ASSUME NEW k \in 0..n - 1, trail[k] \notin DOMAIN parent PROVE FALSE
      OBVIOUS
    <3>1. k \in 0..n /\ k < n
      BY <2>2
    <3>. QED  BY <2>1, <2>2, <3>1, WalkStaysOut
  <2>. DEFINE out == {k \in 0..n - 1 : trail[k] \notin procs}
  <2>4. out = {}
    <3>. SUFFICES ASSUME out # {} PROVE FALSE
      OBVIOUS
    <3>1. PICK k \in out : \A other \in out : k <= other
      <4>1. out \in SUBSET (0..n)
        BY <2>2
      <4>. HIDE DEF out
      <4>. QED  BY <2>2, <4>1, LeastExists
    <3>2. k # 0
      BY <1>4, <2>2 DEF IsWalk
    <3>3. k \in 1..n /\ k - 1 \in 0..n - 1 /\ ~(k <= k - 1)
      BY <2>2, <3>2
    <3>4. trail[k - 1] \in procs
      BY <3>1, <3>3
    <3>5. trail[k] = parent[trail[k - 1]]
      BY <2>2, <2>3, <3>3 DEF IsWalk
    <3>6. trail[k] \in DOMAIN parent
      BY <2>3
    <3>. QED  BY <1>4, <3>1, <3>4, <3>5, <3>6
  <2>5. n - 1 \in 0..n - 1 /\ n \in 1..n
    BY <2>1, <2>2
  <2>6. trail[n - 1] \in procs /\ trail[n] = parent[trail[n - 1]]
    BY <2>2, <2>3, <2>4, <2>5 DEF IsWalk
  <2>. QED  BY <2>1, <2>6
<1>5. ASSUME Leads(parent, from, to) PROVE to \in Walk(parent, from)
  <2>. DEFINE procs == {p \in DOMAIN parent : \E k \in 0..N : trail[k] = p}
  <2>1. \A p \in procs : \E k \in 0..N - 1 : trail[k] = p
    <3>. TAKE p \in procs
    <3>1. PICK k \in 0..N : trail[k] = p
      OBVIOUS
    <3>2. CASE k = N
      BY <1>1, <1>2, <1>3, <3>1, <3>2, WalkComesBack
    <3>3. CASE k # N
      <4>1. k \in 0..N - 1
        BY <1>1, <3>3
      <4>. QED  BY <3>1, <4>1
    <3>. QED  BY <3>2, <3>3
  <2>2. \A p \in procs : \E k \in 1..N : trail[k] = parent[p]
    <3>. TAKE p \in procs
    <3>1. PICK k \in 0..N - 1 : trail[k] = p
      BY <2>1
    <3>2. k + 1 \in 1..N /\ (k + 1) - 1 = k
      BY <1>1
    <3>3. trail[k + 1] = parent[p]
      BY <1>2, <3>1, <3>2 DEF IsWalk
    <3>. QED  BY <3>2, <3>3
  <2>3. from \in procs
    <3>1. 0 \in 0..N /\ trail[0] = from
      BY <1>1, <1>2 DEF IsWalk
    <3>. QED  BY <3>1
  <2>4. \A p \in procs : parent[p] \in DOMAIN parent => parent[p] \in procs
    <3>1. \A k \in 1..N : k \in 0..N
      BY <1>1
    <3>. QED  BY <2>2, <3>1
  <2>5. procs \in SUBSET DOMAIN parent
    OBVIOUS
  <2>. HIDE DEF procs
  <2>6. PICK p \in procs : parent[p] = to
    BY <1>5, <2>3, <2>4, <2>5 DEF Leads
  <2>. QED  BY <1>2, <2>2, <2>6
<1>. QED  BY <1>4, <1>5 DEF Leads

\* A process of the family is taken for a leftover exactly when it is not the supervisor
\* and no chain of parents leads from the one to the other, whatever table /proc gave:
\* parents that could not be read, and circles of reused PIDs, included.
THEOREM StraysAreTheUnrelated ==
  ASSUME NEW parent, IsFiniteSet(DOMAIN parent), DOMAIN parent \cap {Unread, Init1} = {},
         NEW cmds, DOMAIN cmds \subseteq DOMAIN parent, NEW me \in DOMAIN parent
  PROVE  FindStrays(parent, cmds, me) =
           {p \in Family(cmds) : p # me /\ ~Leads(parent, p, me) /\ ~Leads(parent, me, p)}
<1>1. Unread # Init1 /\ \A p \in DOMAIN parent : p # Unread /\ p # Init1
  BY DEF Unread, Init1
<1>2. Family(cmds) \subseteq DOMAIN parent
  BY DEF Family
<1>3. ASSUME NEW p \in DOMAIN parent
      PROVE  /\ p \in Descendants(parent, me) <=> Leads(parent, p, me)
             /\ p \in Ancestors(parent, me) <=> Leads(parent, me, p)
  <2>1. me \in Walk(parent, p) <=> Leads(parent, p, me)
    BY <1>1, WalkFollowsChains
  <2>2. p \in Walk(parent, me) <=> Leads(parent, me, p)
    BY <1>1, WalkFollowsChains
  <2>. QED  BY <1>1, <2>1, <2>2 DEF Descendants, Ancestors
<1>. QED  BY <1>2, <1>3 DEF FindStrays

\* The same for the processes the run tries, with what the report says they hold.
THEOREM StraysAreTheOthersForAll == MeasuringSpec => []StraysAreTheOthers
<1>1. StraysAreTheOthers
  <2>. SUFFICES ASSUME NEW parent \in [Pids -> {Unread, Init1} \cup Pids], NEW me \in {2, 4}
                PROVE  LET others == {p \in {2, 3, 4} : p # me /\ ~Leads(parent, p, me) /\ ~Leads(parent, me, p)} IN
                       /\ FindStrays(parent, Cmds, me) = others
                       /\ StrayReport(parent, Cmds, me, Vram2).vram_mib = HeldBy(others, Vram2)
    BY DEF StraysAreTheOthers
  <2>1. DOMAIN parent = 2..5 /\ me \in 2..5
    BY DEF Pids
  <2>2. DOMAIN Cmds = 2..5
    BY DEF Pids, Cmds
  <2>3. IsFiniteSet(2..5)
    <3>1. \A a, b \in Int : IsFiniteSet(a..b)
      BY FS_Interval
    <3>. DEFINE low == 2
                high == 5
    <3>2. low \in Int /\ high \in Int
      OBVIOUS
    <3>. HIDE DEF low, high
    <3>3. IsFiniteSet(low..high)
      BY <3>1, <3>2
    <3>. QED  BY <3>3 DEF low, high
  <2>4. 2..5 \cap {Unread, Init1} = {}
    BY DEF Unread, Init1
  <2>5. Family(Cmds) = {2, 3, 4}
    <3>1. \A p \in 2..5 : p = 2 \/ p = 3 \/ p = 4 \/ p = 5
      OBVIOUS
    <3>2. Kind(CmdOf(2)) # "none" /\ Kind(CmdOf(3)) # "none" /\ Kind(CmdOf(4)) # "none" /\ Kind(CmdOf(5)) = "none"
      BY DEF Kind, CmdOf, Line
    <3>3. \A p \in 2..5 : Cmds[p] = CmdOf(p)
      BY DEF Cmds, Pids
    <3>4. ASSUME NEW p \in 2..5 PROVE Kind(Cmds[p]) # "none" <=> p \in {2, 3, 4}
      <4>1. CASE p = 5
        BY <3>2, <3>3, <4>1
      <4>2. CASE p # 5
        <5>1. p = 2 \/ p = 3 \/ p = 4
          BY <3>1, <4>2
        <5>. QED  BY <3>2, <3>3, <5>1
      <4>. QED  BY <4>1, <4>2
    <3>. QED  BY <2>2, <3>4 DEF Family
  <2>. DEFINE others == {p \in {2, 3, 4} : p # me /\ ~Leads(parent, p, me) /\ ~Leads(parent, me, p)}
  <2>6. PICK table : table = parent
    OBVIOUS
  <2>7. FindStrays(table, Cmds, me) = {p \in Family(Cmds) : p # me /\ ~Leads(table, p, me) /\ ~Leads(table, me, p)}
    <3>1. DOMAIN table = 2..5 /\ DOMAIN Cmds = 2..5 /\ me \in 2..5
      BY <2>1, <2>2, <2>6
    <3>. QED  BY ONLY ZenonT(60), <2>3, <2>4, <3>1, StraysAreTheUnrelated
  <2>8. FindStrays(parent, Cmds, me) = others
    BY <2>5, <2>6, <2>7
  <2>9. StrayReport(parent, Cmds, me, Vram2).vram_mib = HeldBy(FindStrays(parent, Cmds, me), Vram2)
    BY DEF StrayReport
  <2>. QED  BY <2>8, <2>9
<1>. QED  BY <1>1, PTL

(***************************************************************************)
(* Both ways to measure                                                    *)
(***************************************************************************)

\* On a card that learns or that is calibrated, what is remembered is consistent all along,
\* the windows of the run do not run into each other, its result is true of the run, and
\* jobs with the kwargs it describes are admitted by it.
THEOREM MeasuringConsistent ==
  MeasuringSpec => [](/\ LearningConsistent /\ CalibrationConsistent /\ AdmissionCovers
                      /\ DriverReports => TrustedPeakIsTrue)
<1>1. MeasuringInit => LearnInv /\ MeasuredInv
  BY LearnInitInv, CalibrationInitInv, RunInitInv DEF MeasuringInit, MeasuredInv
<1>2. LearnInv /\ MeasuredInv /\ [MeasuringNext]_vars => LearnInv' /\ MeasuredInv'
  <2>1. [MeasuringNext]_vars => [LearnNext]_learnVars /\ [CalibrationNext]_calibrationVars
    BY DEF MeasuringNext, vars, Learning, Calibrating
  <2>. QED  BY <2>1, LearnNextInv, RunNextInv
<1>3. LearnInv /\ MeasuredInv => LearningConsistent /\ CalibrationConsistent /\ AdmissionCovers
  BY LearnInvImplies, CalibrationInvImplies, MeasuredInvCovers DEF MeasuredInv
<1>4. MeasuredInv => (DriverReports => TrustedPeakIsTrue)
  BY MeasuredInvTrusts
<1>. QED  BY <1>1, <1>2, <1>3, <1>4, PTL DEF MeasuringSpec

\* And what is suggested, for the peaks the runs try, settles once it is applied.
THEOREM SuggestionSettlesForAll == MeasuringSpec => []SuggestionSettles
<1>1. SuggestionSettles
  <2>. SUFFICES ASSUME NEW n \in 1..4, NEW mib \in DeclaredTried, NEW peaks \in [1..n -> PeaksTried]
                PROVE  Settles(StaticBackend(mib), ClassicMode, peaks, 1)
    BY DEF SuggestionSettles
  <2>1. PICK p : p = peaks
    OBVIOUS
  <2>2. n \in 1..4 /\ n \in Nat /\ p \in [1..n -> Nat] /\ mib \in Nat
    BY <2>1 DEF DeclaredTried, PeaksTried
  <2>3. p \in Seq(Nat) /\ Len(p) = n
    BY ONLY <2>2, SeqDef, LenProperties
  <2>4. p \in Seq(Nat) /\ Len(p) \in 1..11 /\ 1 \in Nat
    BY ONLY <2>2, <2>3
  <2>. DEFINE desc == StaticBackend(mib)
              mode == ClassicMode
  <2>5. {"quant", "mem", "go", "streams"} \subseteq DOMAIN mode /\ Classic(mode)
    BY DEF ClassicMode, Classic
  <2>6. /\ desc.vram_mib = mib /\ desc.measured = FALSE /\ desc.footprint = NoFootprint
        /\ {"vram_mib", "measured", "footprint"} \subseteq DOMAIN desc
    BY DEF StaticBackend, Declared1
  <2>. HIDE DEF desc, mode
  <2>7. StaticOnly(desc)
    BY <2>6 DEF StaticOnly, FootprintKnown, NoFootprint
  <2>8. Settles(desc, mode, p, 1)
    <3>1. desc.vram_mib \in Nat
      BY ONLY <2>2, <2>6
    <3>. QED  BY ONLY <2>4, <2>5, <2>6, <2>7, <3>1, SuggestionsSettle
  <2>. QED  BY <2>1, <2>8 DEF desc, mode
<1>. QED  BY <1>1, PTL

\* Room is made for every load: whatever is loaded, a plan of evictions is as plan_eviction()
\* says, and what ensure_vram() is asked for is what the load then takes, when the kwargs are
\* passed on.
THEOREM RoomIsMadeForAll == MeasuringSpec => []RoomIsMade
<1>1. EvictionPlanCovers
  <2>. SUFFICES ASSUME NEW n \in 0..3, NEW taken \in Loaded(n),
                       NEW needed \in {3000, 4000}, NEW free \in {500, 3500}
                PROVE  PlanCovers(taken, needed, free)
    BY DEF EvictionPlanCovers
  <2>. DEFINE sort == [mib : {1000, 3000}, priority : {0, 2}, refs : {0, 1}, frees : BOOLEAN]
              one(k, i) == [mib |-> k[i].mib, priority |-> k[i].priority, refs |-> k[i].refs,
                            frees |-> k[i].frees, used |-> i]
  <2>1. PICK k \in [1..n -> sort] : taken = [i \in 1..n |-> one(k, i)]
    BY DEF Loaded
  <2>2. n \in Nat /\ \A i \in 1..n : one(k, i) \in Backend
    <3>1. ASSUME NEW i \in 1..n PROVE one(k, i) \in Backend
      <4>1. k[i] \in sort /\ i \in Int
        OBVIOUS
      <4>2. /\ k[i].mib \in Nat /\ k[i].priority \in Int /\ k[i].refs \in Nat
            /\ k[i].frees \in BOOLEAN
        BY <4>1
      <4>. QED  BY <4>1, <4>2 DEF Backend
    <3>. QED  BY <3>1
  <2>. HIDE DEF one
  <2>3. taken \in Seq(Backend)
    <3>1. taken \in [1..n -> Backend]
      BY <2>1, <2>2
    <3>. QED  BY <2>2, <3>1, SeqDef
  <2>. QED  BY <2>3, PlanCoversForAll
<1>2. EnsureMakesRoom
  <2>. DEFINE Quants == QuantsTried \cup {Absent, "sdnq-uint8", "int4"}
  <2>. SUFFICES ASSUME NEW desc \in AllDescriptors, NEW kw \in AllKwargs, PassedOn(desc, kw)
                PROVE  RoomForLoad(desc, kw)
    BY DEF EnsureMakesRoom
  <2>1. IsDescriptor(desc)
    <3>1. PICK m \in BOOLEAN, p \in AllProfiles, w \in {0, 650}, keys \in KeysTried :
            desc = AlsoMeasured(m, p, w, keys)
      BY DEF AllDescriptors
    <3>. DEFINE fp == [Declared1.footprint EXCEPT !.weights = w]
    <3>5. fp = [weights |-> w, activation |-> 150, largest |-> 500]
      BY DEF Declared1
    <3>6. desc = [Declared1 EXCEPT !.measured = m, !.vram = MeasuredBlock, !.profile = p,
                                   !.load_keys = keys, !.footprint = fp]
      BY <3>1 DEF AlsoMeasured
    <3>. HIDE DEF fp
    <3>2. /\ desc.measured = m /\ desc.vram = MeasuredBlock /\ desc.profile = p /\ desc.vram_mib = 4000
          /\ desc.footprint = fp
      BY <3>6 DEF Declared1
    <3>3. /\ p.memory_efficient_with_quant \in BOOLEAN
          /\ p.group_offload_with_memory_efficient \in BOOLEAN
          /\ p.streams_on_load_with_memory_efficient \in BOOLEAN
      BY DEF AllProfiles
    <3>4. fp \in FootprintType
      BY <3>5 DEF FootprintType
    <3>. QED  BY <3>2, <3>3, <3>4 DEF IsDescriptor, MeasuredBlock
  <2>2. kw \in KwargsType(Quants)
    <3>1. /\ \A f \in FlagsTried : f \in Flags
          /\ \A f \in {Absent, "yes"} : f \in Flags
      BY DEF FlagsTried, Flags
    <3>2. /\ kw.sdnq_preset \in Quants /\ kw.quant_mode \in Quants /\ kw.quant_preset \in Quants
          /\ kw.memory_efficient \in FlagsTried /\ kw.allow_group_offload \in FlagsTried
          /\ kw.streams_on_load \in {Absent, "yes"} /\ kw.footprint_key \in {NoFootprint, LargeFootprint}
      BY DEF AllKwargs
    <3>3. kw.memory_efficient \in Flags /\ kw.allow_group_offload \in Flags /\ kw.streams_on_load \in Flags
      BY <3>1, <3>2
    <3>4. NoFootprint \in FootprintType /\ LargeFootprint \in FootprintType
      BY DEF FootprintType, NoFootprint, LargeFootprint
    <3>5. kw.footprint_key \in FootprintType
      BY <3>2, <3>4
    <3>6. kw = [sdnq_preset |-> kw.sdnq_preset, quant_mode |-> kw.quant_mode, quant_preset |-> kw.quant_preset,
                memory_efficient |-> kw.memory_efficient, allow_group_offload |-> kw.allow_group_offload,
                streams_on_load |-> kw.streams_on_load, footprint_key |-> kw.footprint_key]
      BY DEF AllKwargs
    <3>. QED  BY <3>2, <3>3, <3>5, <3>6 DEF KwargsType
  <2>. QED  BY <2>1, <2>2, EnsureMakesRoomForAll
<1>3. RoomIsMade
  BY <1>1, <1>2 DEF RoomIsMade
<1>. QED  BY <1>3, PTL
=============================================================================
