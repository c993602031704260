---------------------------- MODULE MCMeasuring ----------------------------
(***************************************************************************)
(* The two ways vramd measures, learning and calibration, on small         *)
(* instances, and the pure operators on all of a small set of inputs.  A   *)
(* card is measured in one of the two ways at a time: the preflight of a   *)
(* calibration refuses a card the supervisor works on.                     *)
(***************************************************************************)
EXTENDS PeakTracker, Calibration, ProcessTree, Registry

VARIABLE activity
vars == <<activity, learnVars, calibrationVars>>

Learning == activity = "learning" /\ UNCHANGED <<activity, calibrationVars>>
Calibrating == activity = "calibration" /\ UNCHANGED <<activity, learnVars>>

MeasuringInit ==
  /\ activity \in {"learning", "calibration", "neither"} /\ LearnInit /\ CalibrationInit
  /\ activity # "calibration" => foreign = Min(Others)
MeasuringNext == (Learning /\ LearnNext) \/ (Calibrating /\ CalibrationNext)
MeasuringSpec ==
  /\ MeasuringInit /\ [][MeasuringNext]_vars
  /\ WF_vars(Learning /\ TrackerStep)
  /\ WF_vars(Calibrating /\ RunnerStep)

-----------------------------------------------------------------------------
(* Kwargs and descriptors. *)

KwargsTried ==
  {[NoKwargs EXCEPT !.sdnq_preset = q, !.memory_efficient = m, !.allow_group_offload = g] :
     q \in {Absent, "sdnq-int4"}, m \in {Absent, "yes", "no"}, g \in {Absent, "yes"}}
Declared1 == [name |-> "b", vram_mib |-> 4000, measured |-> FALSE, load_keys |-> {},
  footprint |-> [weights |-> 650, activation |-> 150, largest |-> 500],
  vram |-> [weights |-> 0, activation |-> 0, context |-> 0, peak_mib |-> 0, safety_mib |-> 0, admit_peak_mib |-> 0],
  profile |-> [quant_mode |-> "none", load_kwargs |-> NoKwargs, memory_efficient_with_quant |-> FALSE,
    group_offload_with_memory_efficient |-> FALSE, streams_on_load_with_memory_efficient |-> FALSE, unload_frees_vram |-> TRUE]]
DescriptorsTried == {Declared1, [Declared1 EXCEPT !.profile.memory_efficient_with_quant = TRUE],
  [Declared1 EXCEPT !.profile.load_kwargs.memory_efficient = "yes"],
  [Declared1 EXCEPT !.load_keys = {"memory_efficient", "allow_group_offload"}]}

QuantsTried == {Absent, "sdnq-int4", "int4", "none"}
FlagsTried == {Absent, "yes", "no"}
LargeFootprint == [weights |-> 1400, activation |-> 150, largest |-> 500]
AllKwargs ==
  [sdnq_preset : {Absent, "sdnq-uint8"}, quant_mode : QuantsTried, quant_preset : {Absent, "int4"},
   memory_efficient : FlagsTried, allow_group_offload : FlagsTried, streams_on_load : {Absent, "yes"},
   footprint_key : {NoFootprint, LargeFootprint}]
AllProfiles ==
  [quant_mode : {"none", "sdnq-int4"}, load_kwargs : {[NoKwargs EXCEPT !.allow_group_offload = g] : g \in {Absent, "yes"}},
   memory_efficient_with_quant : BOOLEAN, group_offload_with_memory_efficient : BOOLEAN,
   streams_on_load_with_memory_efficient : BOOLEAN, unload_frees_vram : {TRUE}]
MeasuredBlock == [weights |-> 200, activation |-> 120, context |-> 30,
                  peak_mib |-> 3600, safety_mib |-> 384, admit_peak_mib |-> 3984]
\* Load keys as every backend has them, without the quantizations, and with all there are.
KeysTried == {{}, {"memory_efficient", "allow_group_offload", "footprint_key"}, DOMAIN NoKwargs}
AlsoMeasured(m, p, w, keys) ==
  [Declared1 EXCEPT !.measured = m, !.vram = MeasuredBlock, !.profile = p, !.load_keys = keys,
                    !.footprint = [Declared1.footprint EXCEPT !.weights = w]]
AllDescriptors ==
  {AlsoMeasured(m, p, w, keys) : m \in BOOLEAN, p \in AllProfiles, w \in {0, 650}, keys \in KeysTried}

-----------------------------------------------------------------------------
(* Properties of the pure operators, on all of these inputs; one state is enough. *)

Neither == activity = "neither"

\* The eviction plan: for up to three loaded backends of any size, priority, use and
\* honesty of their unload, and for room that is missing by more or less.
Loaded(n) ==
  {[i \in 1..n |-> [mib |-> k[i].mib, priority |-> k[i].priority, refs |-> k[i].refs,
                    frees |-> k[i].frees, used |-> i]] :
     k \in [1..n -> [mib : {1000, 3000}, priority : {0, 2}, refs : {0, 1}, frees : BOOLEAN]]}
EvictionPlanCovers == Neither =>
  \A loaded \in UNION {Loaded(n) : n \in 0..3}, needed \in {3000, 4000}, free \in {500, 3500} :
    PlanCovers(loaded, needed, free)

\* The room ensure_vram() makes for a request is enough for its load, when the load is
\* given the kwargs that tell the mode, and neither a footprint nor the streaming, which
\* ensure_vram() is not told of.
EnsureMakesRoom == Neither =>
  \A desc \in AllDescriptors, kw \in AllKwargs : PassedOn(desc, kw) => RoomForLoad(desc, kw)

\* Evictions for a load make the room it needs: the plan suffices when it says so, and
\* the request it is made for is the one that comes, with the kwargs passed on.
RoomIsMade == EvictionPlanCovers /\ EnsureMakesRoom

DeclaredTried == {100, 400, 1000, 2000, 6000}
PeaksTried == {428, 900, 1500, 4001}

\* A suggestion that is taken, by a backend that declares no more than a static peak, never
\* brings the declared peak below the observed ones, and ends the alarm where these are
\* large: for up to four observations.
StaticBackend(mib) == [Declared1 EXCEPT !.vram_mib = mib, !.footprint = NoFootprint]
ClassicMode == [quant |-> "none", mem |-> FALSE, go |-> FALSE, streams |-> FALSE]
SuggestionSettles == Neither =>
  \A n \in 1..4, mib \in DeclaredTried :
    \A peaks \in [1..n -> PeaksTried] : Settles(StaticBackend(mib), ClassicMode, peaks, 1)

\* A process is taken for a leftover exactly when it is of the family and no chain of
\* parents leads from it to the supervisor or from the supervisor to it, whatever
\* /proc said of the parents, circles of reused PIDs included; what the report says
\* they hold is what they hold.  (A chain leads where every set that holds its start and
\* the parents of its members has a child of.)
Leads(parent, from, to) ==
  \A procs \in SUBSET DOMAIN parent :
    /\ from \in procs
    /\ \A p \in procs : parent[p] \in DOMAIN parent => parent[p] \in procs
    => \E p \in procs : parent[p] = to
Pids == 2..5
Line(worker, start, exe, module, named) ==
  [worker_flag |-> worker, start |-> start, exe |-> exe, module |-> module, names_supervisor |-> named]
CmdOf(pid) ==
  IF pid = 2 THEN Line(FALSE, TRUE, "python", "vramd", TRUE)          \* python -m vramd start
  ELSE IF pid = 3 THEN Line(TRUE, FALSE, "python", "tool", FALSE)     \* python -m tool serve --ums-worker
  ELSE IF pid = 4 THEN Line(FALSE, TRUE, "timeout", "vramd", TRUE)    \* timeout 900 python -m vramd start
  ELSE Line(FALSE, FALSE, "vramd", "none", TRUE)                      \* vramd status
Cmds == [pid \in Pids |-> CmdOf(pid)]
Vram2 == [pid \in Pids |-> 2^pid]
StraysAreTheOthers == Neither =>
  \A parent \in [Pids -> {Unread, Init1} \cup Pids], me \in {2, 4} :
    LET others == {p \in {2, 3, 4} : p # me /\ ~Leads(parent, p, me) /\ ~Leads(parent, me, p)} IN
    /\ FindStrays(parent, Cmds, me) = others
    /\ StrayReport(parent, Cmds, me, Vram2).vram_mib = HeldBy(others, Vram2)

-----------------------------------------------------------------------------
(* The registry. *)

BaseBody == (<<"adapter">> :> "a") @@ (<<"vram_mib">> :> "4000") @@ (<<"runtime", "command">> :> "c")
            @@ (<<"runtime", "env", "X">> :> "x") @@ (<<"vram", "peak_mib">> :> "4000")
BodiesTried ==
  {BaseBody, <<"vram_mib">> :> "5000", <<"vram", "peak_mib">> :> "5000", <<"runtime">> :> EmptyMap,
   <<"runtime", "cwd">> :> "d", <<"runtime", "env", "Y">> :> "y", <<"vram">> :> Null,
   <<"vram_mib">> :> "abc", <<"vram_mib">> :> "-1", <<"adapter">> :> Null, <<"runtime">> :> "abc",
   <<"runtime", "load_timeout_sec">> :> "abc", <<"runtime", "event_timeout_sec">> :> "abc",
   <<"priority">> :> "abc", <<"load_keys">> :> "4000", <<"peak_profile">> :> "abc"}
FilesTried ==
  {[exists |-> e, yaml |-> y, entries |-> <<[name |-> n, body |-> b]>>] :
     e \in BOOLEAN, y \in BOOLEAN, n \in {Null, "b", "new"}, b \in BodiesTried}
\* The packaged file has no backend; the operator names one that has.
PackagedFile == [exists |-> TRUE, yaml |-> TRUE, entries |-> <<>>]
MainFile == [exists |-> TRUE, yaml |-> TRUE, entries |-> <<[name |-> "b", body |-> BaseBody]>>]
Loads(named) == LoadDescriptors(<<>>, PackagedFile, named, <<>>)
BadValue(body) ==
  ~Converts(DeepUpdate(BaseBody, body))

\* Next to a file with a backend, no file of the operator stops the start of the
\* supervisor by not being there, by not being YAML or by an entry without a name: it
\* takes one that is read, and says a value no descriptor can have or brings a backend
\* that lacks a field.
OnlyReadLayersBrick == Neither =>
  \A f, g \in FilesTried :
    ~StartsUp(Loads(<<MainFile, f, g>>), FALSE) =>
      \E file \in {f, g} : Readable(file) /\
        LET entry == file.entries[1] IN
        BadValue(entry.body) \/ (entry.name # "b" /\ ~Converts(entry.body))

\* Where none of the files is read there is no backend, and the supervisor does not start
\* to stand on the socket without one; it does when it is told to.
NoneReadNoStart == Neither =>
  \A f, g \in FilesTried :
    ~Readable(f) /\ ~Readable(g) =>
      ~StartsUp(Loads(<<f, g>>), FALSE) /\ StartsUp(Loads(<<f, g>>), TRUE)

\* Files that say a part of an entry leave the rest of it as it was, blocks within blocks
\* included: the worker keeps its command and its environment, and what is said last of
\* the VRAM is what the admission reads.
OverlaysKeepTheRest == Neither =>
  \A f, g \in {file \in FilesTried :
               Readable(file) /\ file.entries[1].name = "b" /\ ~BadValue(file.entries[1].body)} :
    LET b == Loads(<<MainFile, f, g>>).descriptors["b"] IN
    /\ ValueAt(b, <<"runtime", "command">>) = "c" /\ ValueAt(b, <<"runtime", "env", "X">>) = "x"
    /\ \A path \in DOMAIN g.entries[1].body :
         ValueAt(b, path) = g.entries[1].body[path] \/ g.entries[1].body[path] = EmptyMap
    /\ \A path \in DOMAIN f.entries[1].body :
         path \in DOMAIN b \/ f.entries[1].body[path] = EmptyMap
           \/ \E q \in DOMAIN g.entries[1].body : IsPrefix(q, path) \/ IsPrefix(path, q)

\* A command with a reference that does not resolve is not run, and no reference is run
\* as it is written; ${monorepo:python} is the interpreter of the worker's own tool.
\* One reference slips through: ${monorepo} of a backend without a tool.
Tokens == {Text("serve")} \cup {[kind |-> k, of |-> o] : k \in {"env", "monorepo"}, o \in {Null, "python", "t", "HOME"}}
CommandsResolve == Neither =>
  \A first, second \in Tokens, tool \in {Null, "t", "u"}, environ \in {{}, {"HOME"}}, installed \in {{}, {"t"}, {"t", "u"}} :
    LET argv == ResolveCommand(<<first, second>>, Null, tool, environ, installed) IN
    /\ argv # <<>> =>
         /\ Len(argv) = 2
         /\ \A i \in 1..2 : argv[i].kind \in {"text", "python"} \/ (tool = Null /\ argv[i].kind = "monorepo")
    /\ first = [kind |-> "monorepo", of |-> "python"] /\ second = Text("serve") /\ tool \in installed =>
         argv # <<>> /\ argv[1] = [kind |-> "python", of |-> tool]

\* What the operator and the calibrations lay over the file with the backends neither keeps
\* the supervisor from starting, nor loses a field, nor leaves a command unresolved; and it
\* does not start without a backend.
DescriptorsAreSound ==
  OnlyReadLayersBrick /\ NoneReadNoStart /\ OverlaysKeepTheRest /\ CommandsResolve

\* Both ways of measuring come to an end: of a job that is over, and of a run, also when
\* a probe hangs.
MeasuringEnds == EndedJobsAreObserved /\ CalibrationEnds
=============================================================================
