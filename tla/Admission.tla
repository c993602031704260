----------------------------- MODULE Admission -----------------------------
(***************************************************************************)
(* What the admission asks for, in MiB (src/vramd/backend_manager.py,      *)
(* vram_planner.py, footprints.py, registry.py): the mode of a request,    *)
(* the peak a cold load must find free, the headroom a loaded model must   *)
(* find free, from the measured block of a descriptor when it describes    *)
(* that mode and from the declared footprint when not; and the backends to *)
(* evict for it.                                                           *)
(*                                                                         *)
(* GiB are in hundredths, as a descriptor has them.                        *)
(***************************************************************************)
EXTENDS Integers, Sequences, FiniteSets, FiniteSetsExt, SequencesExt

Absent == "absent"
Safety == 384                            \* DEFAULT_VRAM_SAFETY_MIB
MibOf(hundredths) == (hundredths * 1024) \div 100
Largest2(a, b) == IF a > b THEN a ELSE b

-----------------------------------------------------------------------------
(* The mode of a request: every kwarg is given ("yes", "no", a             *)
(* quantization) or Absent.  A footprint_key is the footprint it stands    *)
(* for.                                                                    *)

NoFootprint == [weights |-> 0, activation |-> 0, largest |-> 0]
NoKwargs == [sdnq_preset |-> Absent, quant_mode |-> Absent, quant_preset |-> Absent,
             memory_efficient |-> Absent, allow_group_offload |-> Absent, streams_on_load |-> Absent,
             footprint_key |-> NoFootprint]

\* load_keys_for(): the kwargs of a request that its load is given; streams_on_load is not
\* in the list for backends that declare none.
LoadKwargKeys == DOMAIN NoKwargs \ {"streams_on_load"}
LoadKeysFor(desc) == IF desc.load_keys = {} THEN LoadKwargKeys ELSE desc.load_keys
LoadKwargs(desc, kw) ==
  [key \in DOMAIN kw |-> IF key \in LoadKeysFor(desc) THEN kw[key] ELSE NoKwargs[key]]

Normalized(quant) == IF quant = "sdnq-int4" THEN "int4" ELSE IF quant = "sdnq-uint8" THEN "uint8" ELSE quant
IsSdnq(quant) == quant \in {"sdnq-int4", "sdnq-uint8"}

FirstGiven(values, otherwise) ==
  LET given == {i \in DOMAIN values : values[i] # Absent} IN
  IF given = {} THEN otherwise ELSE values[Min(given)]

QuantOf(kw) ==
  FirstGiven(<<kw.sdnq_preset, kw.quant_mode, kw.quant_preset>>,
             IF kw.memory_efficient = "yes" THEN "sdnq-uint8" ELSE "none")

Given(value, otherwise) == IF value = Absent THEN otherwise ELSE value = "yes"

ModeOf(profile, kw) ==
  LET quant == QuantOf(kw)
      mem   == Given(kw.memory_efficient, profile.memory_efficient_with_quant /\ IsSdnq(quant)) IN
  [quant   |-> quant,
   mem     |-> mem,
   go      |-> Given(kw.allow_group_offload, profile.group_offload_with_memory_efficient /\ mem),
   streams |-> Given(kw.streams_on_load, profile.streams_on_load_with_memory_efficient /\ mem)]

-----------------------------------------------------------------------------
(* The two parts of a backend: its weights and its activation. *)

\* Percent of the fp16 weights that a quantization keeps.
WeightFactor(quant) ==
  IF quant \in {"int4", "sdnq-int4"} THEN 32 ELSE IF quant = "sdnq-uint8" THEN 55 ELSE 100
WeightsMib(fp, quant) == (fp.weights * WeightFactor(quant) * 1024) \div 10000
LargestMib(fp, quant) ==
  IF fp.largest > 0 THEN (fp.largest * WeightFactor(quant) * 1024) \div 10000
  ELSE (WeightsMib(fp, quant) * 40) \div 100

\* The measurement speaks for requests of its quantization and placement only.
Applies(desc, mode) ==
  /\ desc.measured
  /\ Normalized(desc.profile.quant_mode) = Normalized(mode.quant)
  /\ (desc.profile.load_kwargs.allow_group_offload = "yes") = mode.go

Discounted(activation) == Largest2(512, (activation * 65) \div 100)

\* The activation measured in the economic mode has its discount in it.
MeasuredPartsTwice(desc, mode) ==
  [weights    |-> MibOf(desc.vram.weights) + MibOf(desc.vram.context),
   activation |-> IF mode.mem /\ ~mode.go THEN Discounted(MibOf(desc.vram.activation))
                  ELSE MibOf(desc.vram.activation)]
MeasuredParts(desc, mode) ==
  LET again == mode.mem /\ ~mode.go /\ desc.profile.load_kwargs.memory_efficient # "yes" IN
  [weights    |-> MibOf(desc.vram.weights) + MibOf(desc.vram.context),
   activation |-> IF again THEN Discounted(MibOf(desc.vram.activation))
                  ELSE MibOf(desc.vram.activation)]

FootprintKnown(desc) == desc.footprint.weights > 0

\* From the footprint, or a fifth of the static peak as activation without one.
DeclaredParts(desc, mode) ==
  LET onload   == mode.go \/ mode.streams
      discount == mode.mem /\ ~mode.go
      fp       == desc.footprint
      static   == Largest2(512, desc.vram_mib \div 5)
      rest     == (Largest2(0, desc.vram_mib - static) * WeightFactor(mode.quant)) \div 100
      weights  == IF FootprintKnown(desc)
                    THEN IF onload THEN Largest2(256, LargestMib(fp, mode.quant))
                                   ELSE WeightsMib(fp, mode.quant)
                    ELSE IF onload THEN Largest2(256, (rest * 40) \div 100) ELSE rest
      full     == IF FootprintKnown(desc) THEN MibOf(fp.activation) ELSE static IN
  [weights    |-> weights,
   activation |-> IF discount THEN Discounted(full)
                  ELSE IF onload THEN Largest2(512, full) ELSE full]

Parts(desc, mode) == IF Applies(desc, mode) THEN MeasuredParts(desc, mode) ELSE DeclaredParts(desc, mode)

-----------------------------------------------------------------------------
(* What must be free. *)

SumOfParts(desc, mode) == Parts(desc, mode).weights + Parts(desc, mode).activation + Safety

\* ensure_loaded(): a measured peak is taken as it is.
LoadPeak(desc, mode) ==
  IF Applies(desc, mode) /\ desc.vram.peak_mib > 0 THEN desc.vram.peak_mib
  ELSE SumOfParts(desc, mode)

\* peak_vram_mib(), for ensure_vram() and the answers to clients.
PeakVramBare(desc, mode) ==
  IF Applies(desc, mode) /\ desc.vram.peak_mib > 0 THEN desc.vram.peak_mib
  ELSE SumOfParts(desc, mode) - Safety
PeakVram(desc, mode) ==
  IF Applies(desc, mode) /\ desc.vram.peak_mib > 0 THEN desc.vram.peak_mib
  ELSE IF Applies(desc, mode) /\ desc.vram.admit_peak_mib > 0
    THEN Largest2(0, desc.vram.admit_peak_mib - desc.vram.safety_mib)
  ELSE SumOfParts(desc, mode)

\* The load of a request: generate() passes on what the load keys let through, and the
\* footprint that a request names takes the place of the declared one.
NamesFootprint(desc, kw) ==
  IF kw.footprint_key = NoFootprint THEN desc ELSE [desc EXCEPT !.footprint = kw.footprint_key]
LoadPeakOf(desc, kw) ==
  LET taken == LoadKwargs(desc, kw) IN
  LoadPeak(NamesFootprint(desc, taken), ModeOf(desc.profile, taken))

\* ensure_vram(): the server resolves the mode of the request and the manager resolves
\* it again from what it is told of it, the footprint left out.
EnsureTarget(desc, needed, kw) ==
  LET mode == ModeOf(desc.profile, kw)
      told == [kw EXCEPT !.sdnq_preset = Absent, !.quant_preset = Absent, !.quant_mode = mode.quant,
                         !.memory_efficient = IF mode.mem THEN "yes" ELSE "no",
                         !.streams_on_load = Absent, !.footprint_key = NoFootprint] IN
  Largest2(needed, PeakVram(desc, ModeOf(desc.profile, told)))

\* activation_headroom_mib(): what a job needs besides the weights that are there.
\* generate() asks with group offload for the loads that stream, too.
Headroom(desc, mode) ==
  IF mode.go \/ mode.streams
    THEN (IF mode.mem \/ IsSdnq(mode.quant) THEN 768 ELSE 1024) + Safety
    ELSE Parts(desc, mode).activation + Safety

-----------------------------------------------------------------------------
(* plan_eviction(): loaded is a sequence of backends; a plan is the set of *)
(* the places of those that are taken.                                     *)

\* a goes before b: those that free VRAM, then the most VRAM by priority lost.
GoesBefore(a, b) ==
  LET pa == Largest2(a.priority, 1)
      pb == Largest2(b.priority, 1) IN
  \/ a.frees /\ ~b.frees
  \/ /\ a.frees = b.frees
     /\ \/ a.mib * pb > b.mib * pa
        \/ a.mib * pb = b.mib * pa /\ a.priority < b.priority
        \/ a.mib * pb = b.mib * pa /\ a.priority = b.priority /\ a.used < b.used

Idle(loaded) == {i \in DOMAIN loaded : loaded[i].refs = 0}

\* Equals stay as they came.
Earlier(loaded, i, j) ==
  \/ GoesBefore(loaded[i], loaded[j])
  \/ ~GoesBefore(loaded[j], loaded[i]) /\ i < j
Before(loaded, j) == {i \in Idle(loaded) : Earlier(loaded, i, j)}

Freed(loaded, places) ==
  LET upTo[n \in 0..Len(loaded)] ==
        IF n = 0 THEN 0 ELSE upTo[n - 1] + (IF n \in places THEN loaded[n].mib ELSE 0)
  IN upTo[Len(loaded)]

\* One after the other is taken until those before it have freed enough.
PlanUntilNeeded(loaded, needed, free) ==
  IF needed <= free THEN {} ELSE {i \in Idle(loaded) : Freed(loaded, Before(loaded, i)) < needed}
Plan(loaded, needed, free) ==
  {i \in Idle(loaded) : Freed(loaded, Before(loaded, i)) < needed - free}

-----------------------------------------------------------------------------
(* What the two promise, for inputs a module that EXTENDS this one chooses. *)

\* A plan never takes a backend in use, makes room or takes every idle one, does not make
\* the room without the last it takes, and takes one that frees nothing only with all that do.
PlanCovers(loaded, needed, free) ==
  LET plan == Plan(loaded, needed, free) IN
  /\ plan \subseteq Idle(loaded)
  /\ free + Freed(loaded, plan) >= needed \/ plan = Idle(loaded)
  /\ plan # {} => \E last \in plan : free + Freed(loaded, plan \ {last}) < needed
  /\ (\E i \in plan : ~loaded[i].frees) => {i \in Idle(loaded) : loaded[i].frees} \subseteq plan

\* The kwargs of a request that tell its quantization and its placement get to the load,
\* and those that ensure_vram() does not look at do not.
ModeKeys == {"sdnq_preset", "quant_mode", "quant_preset", "memory_efficient", "allow_group_offload"}
ModeGetsThrough(desc, kw) == \A key \in ModeKeys : kw[key] # Absent => key \in LoadKeysFor(desc)
PassedOn(desc, kw) ==
  /\ ModeGetsThrough(desc, kw)
  /\ kw.streams_on_load = Absent \/ "streams_on_load" \notin LoadKeysFor(desc)
  /\ kw.footprint_key = NoFootprint \/ "footprint_key" \notin LoadKeysFor(desc)

\* What ensure_vram() frees is enough for the load that the same request then makes.
RoomForLoad(desc, kw) == EnsureTarget(desc, 0, kw) >= LoadPeakOf(desc, kw)
=============================================================================
