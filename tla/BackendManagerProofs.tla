------------------------ MODULE BackendManagerProofs ------------------------
(***************************************************************************)
(* For every set of jobs, admin threads, backends and shapes, and for any  *)
(* bounds: the pins of BackendManager are counted exactly, on every path,  *)
(* and its locks are held only inside of calls (ManagerConsistent).        *)
(*                                                                         *)
(* A step of a thread changes the place and the local variables of that    *)
(* thread only (Others).  The inductive invariant therefore has a part     *)
(* about one thread alone (ThreadOK), which no other thread can disturb,   *)
(* and two parts that relate a thread to what is shared, the pins and the  *)
(* locks; lemmas say what a step must do to keep these.  The second half   *)
(* of the module is about what becomes of the models that are loaded.      *)
(***************************************************************************)
EXTENDS BackendManager, FiniteSetTheorems, TLAPS

Label == {"idle", "ensure", "admit", "readmit", "lockgen", "recheckVram", "load", "loading",
          "mark", "pinned", "headroom", "lockgen2", "generating", "finally", "closing",
          "closeIt", "zero", "next", "rlock", "trylock", "killing", "killed"}
Locals ==
  [op : {"none", "generate"} \cup AdminOps, b : Backends \cup {None}, want : Request,
   todo : SUBSET Backends,
   ret : {"idle", "next", "admit", "readmit", "recheckVram", "headroom"},
   on : Backends \cup {None}, g : Entry \cup {0}, left : SUBSET Backends, polls : Nat,
   fail : BOOLEAN, saved : Request \cup {None}]

TypeInv ==
  /\ loaded \in [Backends -> Request \cup {None}]
  /\ ref \in [Backends -> Nat]
  /\ genLock \in [Backends -> Thread \cup {None}]
  /\ table \in [Backends -> Entry \cup {0}]
  /\ worker \in [Backends -> [Entry -> Request \cup {Dead, Empty}]]
  /\ at \in [Thread -> Label] /\ me \in [Thread -> Locals]
  /\ hurt \subseteq Jobs

-----------------------------------------------------------------------------
(* One thread alone. *)

Closing(t) == at[t] \in {"closing", "closeIt"}
OfBackend == {"ensure", "admit", "readmit", "lockgen", "recheckVram", "load", "loading", "mark",
              "pinned", "headroom", "lockgen2", "generating", "finally", "rlock", "trylock",
              "killing", "killed"}
PinLabel == {"pinned", "headroom", "lockgen2", "generating", "finally"}
\* The thread is at one of the places, or will be when its evictions are carried out.
Toward(t, places) == at[t] \in places \/ (Closing(t) /\ me[t].ret \in places)

ThreadOK(t) ==
  /\ me[t].op = "generate" => t \in Jobs
  /\ Toward(t, OfBackend) => me[t].b \in Backends
  /\ Toward(t, PinLabel) => me[t].op = "generate"
  /\ Toward(t, {"ensure", "admit", "readmit", "lockgen", "recheckVram"}) => me[t].op # "respawn_hot"
  /\ at[t] \in {"load", "loading", "mark"} /\ me[t].op = "respawn_hot" => me[t].saved \in Shapes
  /\ at[t] \in {"loading", "generating", "killing", "closeIt"} => me[t].on \in Backends /\ me[t].g \in Entry

-----------------------------------------------------------------------------
(* Threads and what they share. *)

PinnedBy(t, b) == me[t].b = b /\ (at[t] \in PinLabel \/ Toward(t, {"headroom"}))

Holds(t, b) ==
  /\ me[t].b = b
  /\ Toward(t, {"recheckVram"}) \/ at[t] \in {"load", "loading", "mark", "generating", "killing", "killed"}
HoldersInside == \A b \in Backends, t \in Thread : genLock[b] = t => Holds(t, b)

ManagerInv == TypeInv /\ (\A t \in Thread : ThreadOK(t)) /\ PinsAreCounted /\ HoldersInside

Others(t) == \A u \in Thread \ {t} : at'[u] = at[u] /\ me'[u] = me[u]

-----------------------------------------------------------------------------
LEMMA FiniteJobs == IsFiniteSet(Jobs) /\ (\A b : Pinning(b) \subseteq Jobs)
<1>1. IsFiniteSet(Jobs)  BY ManagerAssumption, FS_Subset DEF ManagerAssumption
<1>2. QED  BY <1>1 DEF Pinning

\* Pinning(b), in terms of PinnedBy.
LEMMA PinningBy == ASSUME NEW b PROVE Pinning(b) = {t \in Jobs : PinnedBy(t, b)}
  BY DEF Pinning, PinnedBy, Toward, Closing, PinLabel

LEMMA PinningByNext == ASSUME NEW b PROVE Pinning(b)' = {t \in Jobs : PinnedBy(t, b)'}
  BY DEF Pinning, PinnedBy, Toward, Closing, PinLabel

\* What other threads do, leaves what a thread is to itself and to the shared state.
LEMMA OthersKeep ==
  ASSUME NEW t \in Thread, Others(t), NEW u \in Thread \ {t}
  PROVE  /\ ThreadOK(u) => ThreadOK(u)'
         /\ \A b : (PinnedBy(u, b)' <=> PinnedBy(u, b)) /\ (Holds(u, b)' <=> Holds(u, b))
  BY DEF Others, ThreadOK, PinnedBy, Holds, Toward, Closing

-----------------------------------------------------------------------------
(* The pins. *)

\* A step that changes neither the counters nor what its thread pins.
LEMMA PinsStay ==
  ASSUME NEW t \in Thread, Others(t), PinsAreCounted, ref' = ref,
         \A b \in Backends : t \in Jobs => (PinnedBy(t, b)' <=> PinnedBy(t, b))
  PROVE  PinsAreCounted'
<1>1. ASSUME NEW b \in Backends PROVE Pinning(b)' = Pinning(b)
  <2>1. \A u \in Jobs : PinnedBy(u, b)' <=> PinnedBy(u, b)
    BY OthersKeep DEF Thread
  <2>2. QED  BY <2>1, PinningBy, PinningByNext
<1>2. QED  BY <1>1 DEF PinsAreCounted

\* A step by which a job that pins nothing gets a pin on c.
LEMMA PinsAdd ==
  ASSUME NEW t \in Jobs, NEW c \in Backends, Others(t), PinsAreCounted, TypeInv,
         ref' = [ref EXCEPT ![c] = @ + 1],
         \A b \in Backends : ~PinnedBy(t, b), PinnedBy(t, c)'
  PROVE  PinsAreCounted'
<1>1. ASSUME NEW b \in Backends PROVE ref'[b] = Cardinality(Pinning(b)')
  <2>1. \A u \in Jobs \ {t} : PinnedBy(u, b)' <=> PinnedBy(u, b)
    BY OthersKeep DEF Thread
  <2>2. PinnedBy(t, b)' <=> b = c  BY DEF PinnedBy
  <2>3. t \notin Pinning(b) /\ IsFiniteSet(Pinning(b))
    BY PinningBy, FiniteJobs, FS_Subset
  <2>4. CASE b = c
    <3>1. Pinning(b)' = Pinning(b) \cup {t}  BY <2>1, <2>2, <2>4, PinningBy, PinningByNext
    <3>2. Cardinality(Pinning(b)') = Cardinality(Pinning(b)) + 1
      BY <2>3, <3>1, FS_AddElement
    <3>3. QED  BY <2>4, <3>2 DEF PinsAreCounted, TypeInv
  <2>5. CASE b # c
    <3>1. Pinning(b)' = Pinning(b)  BY <2>1, <2>2, <2>3, <2>5, PinningBy, PinningByNext
    <3>2. QED  BY <2>5, <3>1 DEF PinsAreCounted, TypeInv
  <2>6. QED  BY <2>4, <2>5
<1>2. QED  BY <1>1 DEF PinsAreCounted

\* A step by which a job gives its pin on c back.
LEMMA PinsDrop ==
  ASSUME NEW t \in Jobs, NEW c \in Backends, Others(t), PinsAreCounted, TypeInv,
         ref' = [ref EXCEPT ![c] = Unpin(@)],
         PinnedBy(t, c), \A b \in Backends : ~PinnedBy(t, b)'
  PROVE  PinsAreCounted'
<1>1. ASSUME NEW b \in Backends PROVE ref'[b] = Cardinality(Pinning(b)')
  <2>1. \A u \in Jobs \ {t} : PinnedBy(u, b)' <=> PinnedBy(u, b)
    BY OthersKeep DEF Thread
  <2>2. PinnedBy(t, b) <=> b = c  BY DEF PinnedBy
  <2>3. IsFiniteSet(Pinning(b))  BY FiniteJobs, FS_Subset
  <2>4. CASE b = c
    <3>1. t \in Pinning(b) /\ Pinning(b)' = Pinning(b) \ {t}
      BY <2>1, <2>2, <2>4, PinningBy, PinningByNext
    <3>2. Cardinality(Pinning(b)') = Cardinality(Pinning(b)) - 1
      BY <2>3, <3>1, FS_RemoveElement
    <3>3. Cardinality(Pinning(b)') \in Nat
      BY <2>3, <3>1, FS_Subset, FS_CardinalityType
    <3>4. QED  BY <2>4, <3>2, <3>3 DEF PinsAreCounted, TypeInv, Unpin
  <2>5. CASE b # c
    <3>1. Pinning(b)' = Pinning(b)  BY <2>1, <2>2, <2>5, PinningBy, PinningByNext
    <3>2. QED  BY <2>5, <3>1 DEF PinsAreCounted, TypeInv
  <2>6. QED  BY <2>4, <2>5
<1>2. QED  BY <1>1 DEF PinsAreCounted

-----------------------------------------------------------------------------
(* The locks. *)

\* A step that leaves the locks alone, and those of its thread inside the call.
LEMMA LocksStay ==
  ASSUME NEW t \in Thread, Others(t), HoldersInside, genLock' = genLock,
         \A b \in Backends : Holds(t, b) => Holds(t, b)'
  PROVE  HoldersInside'
<1>1. ASSUME NEW b \in Backends, NEW u \in Thread, genLock[b] = u PROVE Holds(u, b)'
  <2>1. Holds(u, b)  BY <1>1 DEF HoldersInside
  <2>2. QED  BY <2>1, OthersKeep
<1>2. QED  BY <1>1 DEF HoldersInside

\* A step that takes the lock of c, which is free, for a thread that holds none.
LEMMA LocksTake ==
  ASSUME NEW t \in Thread, Others(t), TypeInv, HoldersInside, NEW c \in Backends,
         NEW keeps \in BOOLEAN,
         genLock' = [genLock EXCEPT ![c] = IF keeps THEN t ELSE None],
         \A b \in Backends : ~Holds(t, b), keeps => Holds(t, c)'
  PROVE  HoldersInside'
<1>1. ASSUME NEW b \in Backends, NEW u \in Thread, genLock'[b] = u PROVE Holds(u, b)'
  <2>1. CASE b = c
    <3>1. keeps /\ u = t
      BY <1>1, <2>1, ManagerAssumption DEF TypeInv, ManagerAssumption, Thread
    <3>2. QED  BY <2>1, <3>1
  <2>2. CASE b # c
    <3>1. Holds(u, b)  BY <1>1, <2>2 DEF HoldersInside, TypeInv
    <3>2. QED  BY <3>1, OthersKeep
  <2>3. QED  BY <2>1, <2>2
<1>2. QED  BY <1>1 DEF HoldersInside

\* A step that leaves a with-block.
LEMMA LocksFree ==
  ASSUME NEW t \in Thread, Others(t), HoldersInside, Release(t)
  PROVE  HoldersInside'
<1>1. ASSUME NEW b \in Backends, NEW u \in Thread, genLock'[b] = u PROVE Holds(u, b)'
  <2>1. genLock[b] = u /\ u # t
    BY <1>1, ManagerAssumption DEF Release, ManagerAssumption, Thread
  <2>2. Holds(u, b)  BY <2>1 DEF HoldersInside
  <2>3. QED  BY <2>1, <2>2, OthersKeep
<1>2. QED  BY <1>1 DEF HoldersInside

-----------------------------------------------------------------------------
(* Steps that touch neither counters nor locks. *)

Quiet(t) ==
  /\ Others(t) /\ TypeInv' /\ ThreadOK(t)' /\ UNCHANGED <<ref, genLock>>
  /\ \A b \in Backends : (PinnedBy(t, b)' <=> PinnedBy(t, b)) /\ (Holds(t, b) => Holds(t, b)')

LEMMA QuietKeeps ==
  ASSUME NEW t \in Thread, ManagerInv, Quiet(t) PROVE ManagerInv'
<1>1. \A u \in Thread : ThreadOK(u)'  BY OthersKeep DEF ManagerInv, Quiet
<1>2. PinsAreCounted'  BY PinsStay DEF ManagerInv, Quiet
<1>3. HoldersInside'  BY LocksStay DEF ManagerInv, Quiet
<1>4. QED  BY <1>1, <1>2, <1>3 DEF ManagerInv, Quiet

\* What a return does, and what going on after or with evictions does.
LEMMA ReturnDoes ==
  ASSUME NEW t \in Thread, TypeInv, Return(t)
  PROVE  /\ Others(t) /\ ThreadOK(t)'
         /\ at' \in [Thread -> Label] /\ me' \in [Thread -> Locals]
         /\ \A b : ~PinnedBy(t, b)' /\ ~Holds(t, b)'
<1>1. Nothing \in Locals  BY DEF Nothing, Locals, Request
<1>2. at' = [at EXCEPT ![t] = "idle"] /\ me' = [me EXCEPT ![t] = Nothing]  BY DEF Return, Go
<1>3. Others(t) /\ at'[t] = "idle" /\ me'[t] = Nothing  BY <1>2 DEF Others, TypeInv
<1>4. at' \in [Thread -> Label] /\ me' \in [Thread -> Locals]
  BY <1>1, <1>2 DEF TypeInv, Label
<1>5. ThreadOK(t)' /\ \A b : ~PinnedBy(t, b)' /\ ~Holds(t, b)'
  BY <1>3 DEF ThreadOK, PinnedBy, Holds, Toward, Closing, Nothing, PinLabel, OfBackend
<1>6. QED  BY <1>3, <1>4, <1>5

\* A thread that goes from place to place and changes no variable of its own.
LEMMA GoDoes ==
  ASSUME NEW t \in Thread, TypeInv, NEW l \in Label, Go(t, l), me' = me
  PROVE  Others(t) /\ at' \in [Thread -> Label] /\ me' \in [Thread -> Locals] /\ at'[t] = l /\ me'[t] = me[t]
  BY DEF Go, Others, TypeInv

\* ... or gets new ones.
LEMMA SetDoes ==
  ASSUME NEW t \in Thread, TypeInv, NEW l \in Label, NEW m \in Locals, Go(t, l), me' = [me EXCEPT ![t] = m]
  PROVE  Others(t) /\ at' \in [Thread -> Label] /\ me' \in [Thread -> Locals] /\ at'[t] = l /\ me'[t] = m
  BY DEF Go, Others, TypeInv

Ret == {"idle", "next", "admit", "readmit", "recheckVram", "headroom"}
Same(m, n) == m.op = n.op /\ m.b = n.b /\ m.want = n.want /\ m.saved = n.saved /\ m.on = n.on /\ m.g = n.g
LEMMA CarryOnDoes ==
  ASSUME NEW t \in Thread, TypeInv, NEW mine \in Locals, NEW todo \in SUBSET Backends,
         NEW ret \in Ret, CarryOn(t, mine, todo, ret)
  PROVE  /\ Others(t) /\ at' \in [Thread -> Label] /\ me' \in [Thread -> Locals]
         /\ \/ at'[t] = "closing" /\ todo # {} /\ me'[t].ret = ret /\ Same(me'[t], mine)
            \/ at'[t] = "idle" /\ ret = "idle" /\ me'[t] = Nothing
            \/ at'[t] = ret /\ ret # "idle" /\ todo = {} /\ Same(me'[t], mine)
<1>1. CASE todo # {}
  <2> DEFINE m == [mine EXCEPT !.todo = todo, !.ret = ret]
  <2>1. m \in Locals  BY DEF Locals, Ret
  <2>2. m.ret = ret /\ Same(m, mine)  BY DEF Locals, Same
  <2>3. Go(t, "closing") /\ me' = [me EXCEPT ![t] = m]  BY <1>1 DEF CarryOn
  <2> HIDE DEF m
  <2>4. QED  BY <1>1, <2>1, <2>2, <2>3, SetDoes DEF Label
<1>2. CASE todo = {} /\ ret = "idle"
  <2>1. Return(t)  BY <1>2 DEF CarryOn
  <2>2. at'[t] = "idle" /\ me'[t] = Nothing  BY <2>1 DEF Return, Go, TypeInv
  <2>3. QED  BY <1>2, <2>1, <2>2, ReturnDoes
<1>3. CASE todo = {} /\ ret # "idle"
  <2> DEFINE m == [mine EXCEPT !.todo = {}, !.ret = "idle"]
  <2>1. m \in Locals  BY DEF Locals
  <2>2. Same(m, mine)  BY DEF Locals, Same
  <2>3. Go(t, ret) /\ me' = [me EXCEPT ![t] = m]  BY <1>3 DEF CarryOn
  <2> HIDE DEF m
  <2>4. ret \in Label  BY DEF Label, Ret
  <2>5. Others(t) /\ at' \in [Thread -> Label] /\ me' \in [Thread -> Locals] /\ at'[t] = ret /\ me'[t] = m
    BY <2>1, <2>3, <2>4, SetDoes
  <2>6. QED  BY <1>3, <2>2, <2>5
<1>4. QED  BY <1>1, <1>2, <1>3

\* Where a thread goes that carries on.
LEMMA CarryOnLeads ==
  ASSUME NEW t \in Thread, TypeInv, NEW mine \in Locals, NEW todo \in SUBSET Backends,
         NEW ret \in Ret, CarryOn(t, mine, todo, ret)
  PROVE  /\ ThreadOK(t)' <=>
              \/ ret = "idle" /\ at'[t] = "idle"
              \/ /\ mine.op = "generate" => t \in Jobs
                 /\ ret \in {"admit", "readmit", "recheckVram", "headroom"} => mine.b \in Backends
                 /\ ret = "headroom" => mine.op = "generate"
                 /\ ret \in {"admit", "readmit", "recheckVram"} => mine.op # "respawn_hot"
         /\ \A b \in Backends : PinnedBy(t, b)' <=> ret = "headroom" /\ mine.b = b
         /\ \A b \in Backends : Holds(t, b)' <=> ret = "recheckVram" /\ mine.b = b
<1>1. \/ at'[t] = "closing" /\ todo # {} /\ me'[t].ret = ret /\ Same(me'[t], mine)
      \/ at'[t] = "idle" /\ ret = "idle" /\ me'[t] = Nothing
      \/ at'[t] = ret /\ ret # "idle" /\ todo = {} /\ Same(me'[t], mine)
  BY CarryOnDoes, Zenon
<1>2. CASE at'[t] = "closing" /\ me'[t].ret = ret /\ Same(me'[t], mine)
  BY <1>2 DEF ThreadOK, PinnedBy, Holds, Toward, Closing, PinLabel, OfBackend, Ret, Same
<1>3. CASE at'[t] = "idle" /\ ret = "idle" /\ me'[t] = Nothing
  BY <1>3 DEF ThreadOK, PinnedBy, Holds, Toward, Closing, PinLabel, OfBackend, Nothing
<1>4. CASE at'[t] = ret /\ ret # "idle" /\ Same(me'[t], mine)
  BY <1>4 DEF ThreadOK, PinnedBy, Holds, Toward, Closing, PinLabel, OfBackend, Ret, Same
<1>5. QED  BY <1>1, <1>2, <1>3, <1>4

-----------------------------------------------------------------------------
(* The steps, one by one. *)

LEMMA StepKeeps ==
  ASSUME NEW t \in Thread, ManagerInv, Others(t), TypeInv', ThreadOK(t)', PinsAreCounted', HoldersInside'
  PROVE  ManagerInv'
  BY OthersKeep DEF ManagerInv

LEMMA StartGenerateKeeps ==
  ASSUME ManagerInv, NEW t \in Thread, NEW b \in Backends, NEW want \in Request, StartGenerate(t, b, want)
  PROVE  ManagerInv'
<1> DEFINE m == [Nothing EXCEPT !.op = "generate", !.b = b, !.want = want]
<1>1. m \in Locals  BY DEF Locals, Nothing, Request
<1>2. Others(t) /\ at' \in [Thread -> Label] /\ me' \in [Thread -> Locals] /\ at'[t] = "ensure" /\ me'[t] = m
  BY <1>1, SetDoes DEF StartGenerate, ManagerInv, Label
<1>3. m.b = b /\ m.op = "generate"  BY DEF Nothing
<1>4. TypeInv'  BY <1>2 DEF StartGenerate, ManagerInv, TypeInv, poolVars
<1>5. ThreadOK(t)'  BY <1>2, <1>3 DEF ThreadOK, Toward, Closing, PinLabel, OfBackend, StartGenerate
<1>6. \A c : ~PinnedBy(t, c) /\ ~PinnedBy(t, c)' /\ ~Holds(t, c)
  BY <1>2 DEF StartGenerate, Start, PinnedBy, Holds, Toward, Closing, PinLabel
<1>7. Quiet(t)  BY <1>2, <1>4, <1>5, <1>6 DEF Quiet, StartGenerate
<1>8. QED  BY <1>7, QuietKeeps

LEMMA StartPreloadKeeps ==
  ASSUME ManagerInv, NEW t \in Thread, NEW b \in Backends, NEW want \in Request, StartPreload(t, b, want)
  PROVE  ManagerInv'
<1> DEFINE m == [Nothing EXCEPT !.op = "preload", !.b = b, !.want = want]
<1>1. m \in Locals  BY DEF Locals, Nothing, Request, AdminOps
<1>2. Others(t) /\ at' \in [Thread -> Label] /\ me' \in [Thread -> Locals] /\ at'[t] = "ensure" /\ me'[t] = m
  BY <1>1, SetDoes DEF StartPreload, ManagerInv, Label
<1>3. m.b = b /\ m.op = "preload"  BY DEF Nothing
<1>4. TypeInv'  BY <1>2 DEF StartPreload, ManagerInv, TypeInv, poolVars
<1>5. ThreadOK(t)'  BY <1>2, <1>3 DEF ThreadOK, Toward, Closing, PinLabel, OfBackend
<1>6. \A c : ~PinnedBy(t, c) /\ ~PinnedBy(t, c)' /\ ~Holds(t, c)
  BY <1>2 DEF StartPreload, Start, PinnedBy, Holds, Toward, Closing, PinLabel
<1>7. Quiet(t)  BY <1>2, <1>4, <1>5, <1>6 DEF Quiet, StartPreload
<1>8. QED  BY <1>7, QuietKeeps

\* Marks are a type of loaded.
LEMMA MarkedType == ASSUME TypeInv, NEW bs PROVE Marked(bs) \in [Backends -> Request \cup {None}]
  BY DEF Marked, TypeInv

LEMMA StartEvictKeeps ==
  ASSUME ManagerInv, NEW t \in Thread, NEW op \in Ops, NEW bs \in SUBSET Backends, StartEvict(t, op, bs)
  PROVE  ManagerInv'
<1> DEFINE m == [Nothing EXCEPT !.op = op]
<1>1. m \in Locals /\ m.op # "generate"
  BY ManagerAssumption DEF Locals, Nothing, Request, ManagerAssumption, AdminOps
<1>2. CarryOn(t, m, bs, "idle")  BY DEF StartEvict
<1> HIDE DEF m
<1>3. Others(t) /\ at' \in [Thread -> Label] /\ me' \in [Thread -> Locals]
  BY <1>1, <1>2, CarryOnDoes DEF ManagerInv, Ret
<1>4. ThreadOK(t)' /\ \A c \in Backends : ~PinnedBy(t, c)'
  BY <1>1, <1>2, CarryOnLeads DEF ManagerInv, Ret
<1>5. \A c : ~PinnedBy(t, c) /\ ~Holds(t, c)
  BY DEF StartEvict, Start, PinnedBy, Holds, Toward, Closing, PinLabel
<1>6. TypeInv'  BY <1>3, MarkedType DEF StartEvict, ManagerInv, TypeInv, poolVars
<1>7. Quiet(t)  BY <1>3, <1>4, <1>5, <1>6 DEF Quiet, StartEvict
<1>8. QED  BY <1>7, QuietKeeps

LEMMA StartRespawnKeeps ==
  ASSUME ManagerInv, NEW t \in Thread, NEW op \in Ops, NEW b \in Backends, StartRespawn(t, op, b)
  PROVE  ManagerInv'
<1> DEFINE m == [Nothing EXCEPT !.op = op, !.b = b, !.saved = loaded[b]]
<1>1. m \in Locals /\ op \in AdminOps
  BY ManagerAssumption DEF Locals, Nothing, Request, ManagerAssumption, ManagerInv, TypeInv
<1>2. Others(t) /\ at' \in [Thread -> Label] /\ me' \in [Thread -> Locals] /\ at'[t] = "rlock" /\ me'[t] = m
  BY <1>1, SetDoes DEF StartRespawn, ManagerInv, Label
<1>3. m.b = b /\ m.op \notin {"generate"}  BY DEF Nothing, StartRespawn
<1>4. TypeInv'  BY <1>2, MarkedType DEF StartRespawn, ManagerInv, TypeInv, poolVars
<1>5. ThreadOK(t)'  BY <1>2, <1>3 DEF ThreadOK, Toward, Closing, PinLabel, OfBackend
<1>6. \A c : ~PinnedBy(t, c) /\ ~PinnedBy(t, c)' /\ ~Holds(t, c)
  BY <1>2 DEF StartRespawn, Start, PinnedBy, Holds, Toward, Closing, PinLabel
<1>7. Quiet(t)  BY <1>2, <1>4, <1>5, <1>6 DEF Quiet, StartRespawn
<1>8. QED  BY <1>7, QuietKeeps

LEMMA StartZeroKeeps ==
  ASSUME ManagerInv, NEW t \in Thread, StartZero(t) PROVE ManagerInv'
<1> DEFINE m == [Nothing EXCEPT !.op = "zero", !.left = {b \in Backends : Alive(b)}]
<1>1. m \in Locals  BY DEF Locals, Nothing, Request, AdminOps
<1>2. Others(t) /\ at' \in [Thread -> Label] /\ me' \in [Thread -> Locals] /\ at'[t] = "zero" /\ me'[t] = m
  BY <1>1, SetDoes DEF StartZero, ManagerInv, Label
<1>3. m.op = "zero"  BY DEF Nothing
<1>4. TypeInv'  BY <1>2 DEF StartZero, ManagerInv, TypeInv, poolVars
<1>5. ThreadOK(t)'  BY <1>2, <1>3 DEF ThreadOK, Toward, Closing, PinLabel, OfBackend
<1>6. \A c : ~PinnedBy(t, c) /\ ~PinnedBy(t, c)' /\ ~Holds(t, c)
  BY <1>2 DEF StartZero, Start, PinnedBy, Holds, Toward, Closing, PinLabel
<1>7. Quiet(t)  BY <1>2, <1>4, <1>5, <1>6 DEF Quiet, StartZero
<1>8. QED  BY <1>7, QuietKeeps

LEMMA StartVisitsKeeps ==
  ASSUME ManagerInv, NEW t \in Thread, NEW op \in Ops, NEW bs \in SUBSET Backends, StartVisits(t, op, bs)
  PROVE  ManagerInv'
<1> DEFINE m == [Nothing EXCEPT !.op = op, !.left = bs]
<1>1. m \in Locals /\ op \in AdminOps  BY ManagerAssumption DEF Locals, Nothing, Request, ManagerAssumption
<1>2. Others(t) /\ at' \in [Thread -> Label] /\ me' \in [Thread -> Locals] /\ at'[t] = "next" /\ me'[t] = m
  BY <1>1, SetDoes DEF StartVisits, ManagerInv, Label
<1>3. m.op # "generate"  BY <1>1 DEF Nothing, AdminOps
<1>4. TypeInv'  BY <1>2 DEF StartVisits, ManagerInv, TypeInv, poolVars
<1>5. ThreadOK(t)'  BY <1>2, <1>3 DEF ThreadOK, Toward, Closing, PinLabel, OfBackend
<1>6. \A c : ~PinnedBy(t, c) /\ ~PinnedBy(t, c)' /\ ~Holds(t, c)
  BY <1>2 DEF StartVisits, Start, PinnedBy, Holds, Toward, Closing, PinLabel
<1>7. Quiet(t)  BY <1>2, <1>4, <1>5, <1>6 DEF Quiet, StartVisits
<1>8. QED  BY <1>7, QuietKeeps

\* What is known of the thread that takes a step.
LEMMA Known ==
  ASSUME ManagerInv, NEW t \in Thread
  PROVE  /\ at[t] \in Label /\ me[t] \in Locals /\ ThreadOK(t)
         /\ me[t].todo \subseteq Backends /\ me[t].left \subseteq Backends
         /\ me[t].ret \in Ret /\ me[t].want \in Request /\ me[t].saved \in Request \cup {None}
         /\ me[t].g \in Entry \cup {0}
  BY DEF ManagerInv, TypeInv, Locals, Ret

LEMMA ZeroEvictsKeeps ==
  ASSUME ManagerInv, NEW t \in Thread, ZeroEvicts(t) PROVE ManagerInv'
<1> DEFINE bs == {b \in Backends : Evictable(b)}
<1>1. CarryOn(t, me[t], bs, "next") /\ loaded' = Marked(bs)  BY DEF ZeroEvicts, Evict
<1>2. me[t] \in Locals /\ bs \in SUBSET Backends /\ "next" \in Ret  BY Known DEF Ret
<1>3. Others(t) /\ at' \in [Thread -> Label] /\ me' \in [Thread -> Locals]
  BY <1>1, <1>2, CarryOnDoes DEF ManagerInv
<1>4. ThreadOK(t)' /\ \A c \in Backends : ~PinnedBy(t, c)'
  BY <1>1, <1>2, Known, CarryOnLeads DEF ManagerInv, ThreadOK
<1>5. \A c : ~PinnedBy(t, c) /\ ~Holds(t, c)
  BY DEF ZeroEvicts, PinnedBy, Holds, Toward, Closing, PinLabel
<1>6. TypeInv'  BY <1>1, <1>3, MarkedType DEF ZeroEvicts, ManagerInv, TypeInv, poolVars
<1>7. Quiet(t)  BY <1>3, <1>4, <1>5, <1>6 DEF Quiet, ZeroEvicts
<1>8. QED  BY <1>7, QuietKeeps

LEMMA HurtType == ASSUME NEW bs, Hurt(bs), TypeInv PROVE hurt' \subseteq Jobs
  BY DEF Hurt, Users, TypeInv

LEMMA CloseNextKeeps ==
  ASSUME ManagerInv, NEW t \in Thread, NEW b \in Backends, CloseNext(t, b) PROVE ManagerInv'
<1> USE Known
<1>1. table' \in [Backends -> Entry \cup {0}] /\ hurt' \subseteq Jobs
  BY HurtType DEF CloseNext, ManagerInv, TypeInv
<1>2. CASE Go(t, "closeIt") /\ me' = [me EXCEPT ![t].on = b, ![t].g = table[b], ![t].todo = @ \ {b}] /\ table[b] # 0
  <2> DEFINE m == [me[t] EXCEPT !.on = b, !.g = table[b], !.todo = @ \ {b}]
  <2>1. m \in Locals  BY ZenonT(60) DEF Locals, ManagerInv, TypeInv
  <2>2. /\ m.op = me[t].op /\ m.b = me[t].b /\ m.ret = me[t].ret
        /\ m.on \in Backends /\ m.g \in Entry /\ m.saved = me[t].saved
    BY <1>2 DEF Locals, ManagerInv, TypeInv
  <2>3. me' = [me EXCEPT ![t] = m]  BY <1>2 DEF ManagerInv, TypeInv
  <2> HIDE DEF m
  <2>4. Others(t) /\ at' \in [Thread -> Label] /\ me' \in [Thread -> Locals] /\ at'[t] = "closeIt" /\ me'[t] = m
    BY <1>2, <2>1, <2>3, SetDoes DEF ManagerInv, Label
  <2>5. ThreadOK(t)'
    BY <2>2, <2>4 DEF ThreadOK, Toward, Closing, CloseNext, OfBackend, PinLabel
  <2>6. \A c : (PinnedBy(t, c)' <=> PinnedBy(t, c)) /\ (Holds(t, c) => Holds(t, c)')
    BY <2>2, <2>4 DEF CloseNext, PinnedBy, Holds, Toward, Closing, PinLabel
  <2>7. TypeInv'  BY <1>1, <2>4 DEF CloseNext, ManagerInv, TypeInv
  <2>8. QED  BY <2>4, <2>5, <2>6, <2>7, QuietKeeps DEF Quiet, CloseNext
<1>3. CASE CarryOn(t, me[t], me[t].todo \ {b}, me[t].ret)
  <2>1. me[t].todo \ {b} \in SUBSET Backends /\ me[t] \in Locals /\ me[t].ret \in Ret /\ TypeInv
    BY DEF ManagerInv
  <2>2. Others(t) /\ at' \in [Thread -> Label] /\ me' \in [Thread -> Locals]
    BY ONLY SMTT(30), <1>3, <2>1, CarryOnDoes
  <2>3. ThreadOK(t)' /\ \A c \in Backends : (PinnedBy(t, c)' <=> PinnedBy(t, c)) /\ (Holds(t, c) => Holds(t, c)')
    BY <1>3, <2>1, CarryOnLeads DEF ManagerInv, CloseNext, ThreadOK, PinnedBy, Holds, Toward, Closing, PinLabel, OfBackend
  <2>4. TypeInv'  BY <1>1, <2>2 DEF CloseNext, ManagerInv, TypeInv
  <2>5. QED  BY <2>2, <2>3, <2>4, QuietKeeps DEF Quiet, CloseNext
<1>4. QED  BY <1>2, <1>3 DEF CloseNext

LEMMA CloseItKeeps ==
  ASSUME ManagerInv, NEW t \in Thread, CloseIt(t) PROVE ManagerInv'
<1> USE Known
<1> DEFINE m == [me[t] EXCEPT !.on = None, !.g = 0]
<1>1. m \in Locals  BY DEF Locals
<1>2. m.op = me[t].op /\ m.b = me[t].b  BY DEF Locals
<1>3. CarryOn(t, m, me[t].todo, me[t].ret)  BY DEF CloseIt
<1> HIDE DEF m
<1>4. Others(t) /\ at' \in [Thread -> Label] /\ me' \in [Thread -> Locals]
  BY <1>1, <1>3, CarryOnDoes DEF ManagerInv
<1>5. ThreadOK(t)' /\ \A c \in Backends : (PinnedBy(t, c)' <=> PinnedBy(t, c)) /\ (Holds(t, c) => Holds(t, c)')
  BY <1>1, <1>2, <1>3, CarryOnLeads DEF ManagerInv, CloseIt, ThreadOK, PinnedBy, Holds, Toward, Closing, PinLabel, OfBackend
<1>6. worker' \in [Backends -> [Entry -> Request \cup {Dead, Empty}]]
  BY DEF CloseIt, ManagerInv, TypeInv, ThreadOK
<1>7. TypeInv'  BY <1>4, <1>6, HurtType DEF CloseIt, ManagerInv, TypeInv
<1>8. QED  BY <1>4, <1>5, <1>7, QuietKeeps DEF Quiet, CloseIt

LEMMA AdmitKeeps ==
  ASSUME ManagerInv, NEW t \in Thread, Admit(t) PROVE ManagerInv'
<1>1. at[t] = "admit" /\ \A c : ~PinnedBy(t, c) /\ ~Holds(t, c)
  BY DEF Admit, PinnedBy, Holds, Toward, Closing, PinLabel
<1>2. CASE Go(t, "readmit") /\ UNCHANGED <<loaded, me>>
  <2>1. Others(t) /\ at' \in [Thread -> Label] /\ me' \in [Thread -> Locals] /\ at'[t] = "readmit" /\ me'[t] = me[t]
    BY <1>2, GoDoes DEF ManagerInv, Label
  <2>2. ThreadOK(t)' /\ \A c \in Backends : ~PinnedBy(t, c)'
    BY <1>1, <2>1, Known DEF ThreadOK, PinnedBy, Toward, Closing, PinLabel, OfBackend
  <2>3. TypeInv'  BY <1>2, <2>1 DEF Admit, ManagerInv, TypeInv, poolVars
  <2>4. QED  BY <1>1, <2>1, <2>2, <2>3, QuietKeeps DEF Quiet, Admit
<1>3. ASSUME NEW victims \in SUBSET Backends, Evict(t, victims, "readmit") PROVE ManagerInv'
  <2>1. CarryOn(t, me[t], victims, "readmit") /\ loaded' = Marked(victims)  BY <1>3 DEF Evict
  <2>2. me[t] \in Locals /\ "readmit" \in Ret  BY Known DEF Ret
  <2>3. Others(t) /\ at' \in [Thread -> Label] /\ me' \in [Thread -> Locals]
    BY <2>1, <2>2, CarryOnDoes DEF ManagerInv
  <2>4. ThreadOK(t)' /\ \A c \in Backends : ~PinnedBy(t, c)'
    BY <1>1, <2>1, <2>2, Known, CarryOnLeads DEF ManagerInv, ThreadOK, Toward, OfBackend
  <2>5. TypeInv'  BY <2>1, <2>3, MarkedType DEF Admit, ManagerInv, TypeInv, poolVars
  <2>6. QED  BY <1>1, <2>3, <2>4, <2>5, QuietKeeps DEF Quiet, Admit
<1>4. QED  BY <1>2, <1>3 DEF Admit

LEMMA AdmittedKeeps ==
  ASSUME ManagerInv, NEW t \in Thread, Admitted(t) PROVE ManagerInv'
<1> USE Known
<1> DEFINE m == [me[t] EXCEPT !.polls = 0]
           to == IF at[t] = "readmit" THEN "lockgen" ELSE "load"
<1>1. m \in Locals /\ m.op = me[t].op /\ m.b = me[t].b /\ m.ret = me[t].ret /\ m.saved = me[t].saved
  BY DEF Locals
<1>2. Go(t, to) /\ me' = [me EXCEPT ![t] = m] /\ to \in Label
  BY DEF Admitted, Local, Label, ManagerInv, TypeInv
<1> HIDE DEF m
<1>3. Others(t) /\ at' \in [Thread -> Label] /\ me' \in [Thread -> Locals] /\ at'[t] = to /\ me'[t] = m
  BY <1>1, <1>2, SetDoes DEF ManagerInv
<1>4. at[t] \in {"readmit", "recheckVram"}  BY DEF Admitted, Reading
<1>5. ThreadOK(t)'
  BY <1>1, <1>3, <1>4 DEF ThreadOK, Toward, Closing, PinLabel, OfBackend
<1>6. \A c : (PinnedBy(t, c)' <=> PinnedBy(t, c)) /\ (Holds(t, c) => Holds(t, c)')
  BY <1>1, <1>3, <1>4 DEF PinnedBy, Holds, Toward, Closing, PinLabel
<1>7. TypeInv'  BY <1>3 DEF Admitted, ManagerInv, TypeInv, poolVars
<1>8. QED  BY <1>3, <1>5, <1>6, <1>7, QuietKeeps DEF Quiet, Admitted

LEMMA PollKeeps ==
  ASSUME ManagerInv, NEW t \in Thread, Poll(t) PROVE ManagerInv'
<1> USE Known
<1> DEFINE m == [me[t] EXCEPT !.polls = @ + 1]
           idle == {b \in Backends : Evictable(b)}
<1>1. m \in Locals /\ m.op = me[t].op /\ m.b = me[t].b  BY DEF Locals
<1>2. CarryOn(t, m, idle, at[t]) /\ loaded' = Marked(idle) /\ at[t] \in {"readmit", "recheckVram"}
  BY DEF Poll, Reading
<1> HIDE DEF m
<1>3. idle \in SUBSET Backends /\ at[t] \in Ret  BY <1>2 DEF Ret
<1>4. Others(t) /\ at' \in [Thread -> Label] /\ me' \in [Thread -> Locals]
  BY <1>1, <1>2, <1>3, CarryOnDoes DEF ManagerInv
<1>5. ThreadOK(t)' /\ \A c \in Backends : (PinnedBy(t, c)' <=> PinnedBy(t, c)) /\ (Holds(t, c) => Holds(t, c)')
  BY <1>1, <1>2, <1>3, CarryOnLeads DEF ManagerInv, ThreadOK, PinnedBy, Holds, Toward, Closing, PinLabel, OfBackend
<1>6. TypeInv'  BY <1>2, <1>4, MarkedType DEF Poll, ManagerInv, TypeInv, poolVars
<1>7. QED  BY <1>4, <1>5, <1>6, QuietKeeps DEF Quiet, Poll

LEMMA InsufficientKeeps ==
  ASSUME ManagerInv, NEW t \in Thread, Insufficient(t) PROVE ManagerInv'
<1>1. Return(t) /\ Release(t) /\ ref' = ref  BY DEF Insufficient
<1>2. Others(t) /\ ThreadOK(t)' /\ \A c : ~PinnedBy(t, c)'  BY <1>1, ReturnDoes DEF ManagerInv
<1>3. \A c : ~PinnedBy(t, c)  BY DEF Insufficient, Reading, PinnedBy, Toward, Closing, PinLabel
<1>4. genLock' \in [Backends -> Thread \cup {None}]  BY <1>1 DEF Release, ManagerInv, TypeInv
<1>5. TypeInv'  BY <1>1, <1>4, ReturnDoes DEF Insufficient, ManagerInv, TypeInv, poolVars
<1>6. PinsAreCounted'  BY <1>1, <1>2, <1>3, PinsStay DEF ManagerInv
<1>7. HoldersInside'  BY <1>1, <1>2, LocksFree DEF ManagerInv
<1>8. QED  BY <1>2, <1>5, <1>6, <1>7, StepKeeps

\* A look at the state of the backend, before gen_lock and under it: a pin, a return, an
\* eviction or a load, and in the last two cases a lock that was taken stays in the call.
LEMMA LookDoes ==
  ASSUME ManagerInv, NEW t \in Thread, NEW cold \in {"admit", "recheckVram"},
         at[t] \in {"ensure", "lockgen"}, Look(t, cold), NEW c, c = me[t].b
  PROVE  /\ Others(t) /\ at' \in [Thread -> Label] /\ me' \in [Thread -> Locals]
         /\ loaded' \in [Backends -> Request \cup {None}] /\ ref' \in [Backends -> Nat] /\ hurt' \subseteq Jobs
         /\ ThreadOK(t)' /\ PinsAreCounted' /\ (\A b : ~Holds(t, b))
         /\ at'[t] \in {"recheckVram", "closing"} /\ cold = "recheckVram" => Holds(t, c)'
<1> USE Known
<1>1. c \in Backends /\ TypeInv /\ \A b : ~PinnedBy(t, b) /\ ~Holds(t, b)
  BY DEF ManagerInv, ThreadOK, PinnedBy, Holds, Toward, Closing, PinLabel, OfBackend
<1>2. CASE Return(t) /\ UNCHANGED <<loaded, ref, hurt>>
  <2>1. Others(t) /\ ThreadOK(t)' /\ at' \in [Thread -> Label] /\ me' \in [Thread -> Locals]
        /\ \A b : ~PinnedBy(t, b)'
    BY <1>1, <1>2, ReturnDoes
  <2>2. PinsAreCounted'  BY <1>1, <1>2, <2>1, PinsStay DEF ManagerInv
  <2>3. at'[t] = "idle"  BY <1>1, <1>2 DEF Return, Go, TypeInv
  <2>4. QED  BY <1>1, <1>2, <2>1, <2>2, <2>3 DEF TypeInv
<1>3. CASE /\ c \in Backends /\ me[t].op = "generate" /\ ref' = [ref EXCEPT ![c] = @ + 1]
           /\ Go(t, "pinned") /\ UNCHANGED <<me, loaded>>
           /\ hurt' \in {hurt, hurt \cup {t}}
  <2>1. Others(t) /\ at' \in [Thread -> Label] /\ me' \in [Thread -> Locals] /\ at'[t] = "pinned" /\ me'[t] = me[t]
    BY <1>1, <1>3, GoDoes DEF Label
  <2>2. t \in Jobs  BY <1>3 DEF ThreadOK
  <2>3. ThreadOK(t)'  BY <1>1, <1>3, <2>1, <2>2 DEF ThreadOK, Toward, Closing, PinLabel, OfBackend
  <2>4. PinnedBy(t, c)'  BY <2>1 DEF PinnedBy, PinLabel
  <2>5. PinsAreCounted'  BY <1>1, <1>3, <2>1, <2>2, <2>4, PinsAdd DEF ManagerInv
  <2>6. ref' \in [Backends -> Nat] /\ hurt' \subseteq Jobs  BY <1>1, <1>3, <2>2 DEF TypeInv
  <2>7. QED  BY <1>1, <1>3, <2>1, <2>3, <2>5, <2>6 DEF TypeInv
<1>4. CASE Evict(t, {c}, cold) /\ UNCHANGED <<ref, hurt>>
  <2>1. CarryOn(t, me[t], {c}, cold) /\ loaded' = Marked({c})  BY <1>4 DEF Evict
  <2>2. {c} \in SUBSET Backends /\ cold \in Ret /\ me[t] \in Locals  BY <1>1 DEF Ret
  <2>3. Others(t) /\ at' \in [Thread -> Label] /\ me' \in [Thread -> Locals]
    BY <1>1, <2>1, <2>2, CarryOnDoes
  <2>4. /\ me[t].op = "generate" => t \in Jobs
        /\ me[t].op # "respawn_hot"
    BY DEF ThreadOK, Toward
  <2>8. ThreadOK(t)' /\ (\A b \in Backends : ~PinnedBy(t, b)') /\ (cold = "recheckVram" => Holds(t, c)')
    BY <1>1, <2>1, <2>2, <2>4, CarryOnLeads
  <2>5. PinsAreCounted'  BY <1>1, <1>4, <2>3, <2>8, PinsStay DEF ManagerInv
  <2>6. loaded' \in [Backends -> Request \cup {None}]  BY <1>1, <2>1, MarkedType
  <2>7. QED  BY <1>1, <1>4, <2>3, <2>8, <2>5, <2>6 DEF TypeInv
<1>5. CASE loaded' = Marked({c}) /\ Go(t, cold) /\ UNCHANGED <<me, ref, hurt>>
  <2>1. cold \in Label /\ me' = me /\ TypeInv  BY <1>1, <1>5 DEF Label
  <2>2. Others(t) /\ at' \in [Thread -> Label] /\ me' \in [Thread -> Locals] /\ at'[t] = cold /\ me'[t] = me[t]
    BY <1>5, <2>1, GoDoes
  <2>3. ThreadOK(t)'  BY <1>1, <2>2 DEF ThreadOK, Toward, Closing, PinLabel, OfBackend
  <2>4. (\A b : ~PinnedBy(t, b)') /\ (cold = "recheckVram" => Holds(t, c)')
    BY <1>1, <2>2 DEF PinnedBy, Holds, Toward, Closing, PinLabel
  <2>5. PinsAreCounted'  BY <1>1, <1>5, <2>2, <2>4, PinsStay DEF ManagerInv
  <2>6. loaded' \in [Backends -> Request \cup {None}]  BY <1>1, <1>5, MarkedType
  <2>7. QED  BY <1>1, <1>5, <2>2, <2>3, <2>4, <2>5, <2>6 DEF TypeInv
<1>6. QED  BY <1>1, <1>2, <1>3, <1>4, <1>5 DEF Look

LEMMA EnsureKeeps ==
  ASSUME ManagerInv, NEW t \in Thread, Ensure(t) PROVE ManagerInv'
<1> PICK c : c = me[t].b  OBVIOUS
<1>1. Look(t, "admit") /\ at[t] = "ensure"  BY DEF Ensure
<1>2. /\ Others(t) /\ at' \in [Thread -> Label] /\ me' \in [Thread -> Locals]
      /\ loaded' \in [Backends -> Request \cup {None}] /\ ref' \in [Backends -> Nat] /\ hurt' \subseteq Jobs
      /\ ThreadOK(t)' /\ PinsAreCounted' /\ \A b : ~Holds(t, b)
  BY <1>1, LookDoes
<1>3. TypeInv'  BY <1>2 DEF Ensure, ManagerInv, TypeInv, poolVars
<1>4. HoldersInside'  BY <1>2, LocksStay DEF Ensure, ManagerInv
<1>5. QED  BY <1>2, <1>3, <1>4, StepKeeps

LEMMA RecheckKeeps ==
  ASSUME ManagerInv, NEW t \in Thread, Recheck(t) PROVE ManagerInv'
<1> PICK c : c = me[t].b  OBVIOUS
<1> PICK keeps \in BOOLEAN : keeps <=> at'[t] \in {"recheckVram", "closing"}  OBVIOUS
<1>1. Look(t, "recheckVram") /\ at[t] = "lockgen"  BY DEF Recheck
<1>2. /\ Others(t) /\ at' \in [Thread -> Label] /\ me' \in [Thread -> Locals]
      /\ loaded' \in [Backends -> Request \cup {None}] /\ ref' \in [Backends -> Nat] /\ hurt' \subseteq Jobs
      /\ ThreadOK(t)' /\ PinsAreCounted' /\ (\A b : ~Holds(t, b))
      /\ keeps => Holds(t, c)'
  BY <1>1, LookDoes
<1>3. c \in Backends  BY <1>1, Known DEF ThreadOK, Toward, OfBackend
<1>4. genLock' = [genLock EXCEPT ![c] = IF keeps THEN t ELSE None]  BY DEF Recheck, Takes
<1>5. genLock' \in [Backends -> Thread \cup {None}]  BY <1>4 DEF ManagerInv, TypeInv
<1>6. TypeInv'  BY <1>2, <1>5 DEF Recheck, ManagerInv, TypeInv, poolVars
<1>7. HoldersInside'  BY <1>2, <1>3, <1>4, LocksTake DEF ManagerInv
<1>8. QED  BY <1>2, <1>6, <1>7, StepKeeps

LEMMA LoadLooksUpKeeps ==
  ASSUME ManagerInv, NEW t \in Thread, LoadLooksUp(t) PROVE ManagerInv'
<1> USE Known
<1> PICK c : c = me[t].b  OBVIOUS
<1>1. c \in Backends /\ at[t] = "load"  BY DEF LoadLooksUp, ThreadOK, Toward, OfBackend
<1> DEFINE g == IF table[c] # 0 THEN table[c] ELSE CHOOSE h \in Unused(c) : TRUE
<1>2. g \in Entry
  <2>1. CASE table[c] # 0  BY <1>1, <2>1 DEF ManagerInv, TypeInv
  <2>2. CASE table[c] = 0
    <3>1. Unused(c) # {}  BY <2>2 DEF LoadLooksUp
    <3>2. (CHOOSE h \in Unused(c) : TRUE) \in Unused(c)  BY <3>1
    <3>3. QED  BY <2>2, <3>2 DEF Unused
  <2>3. QED  BY <2>1, <2>2
<1>3. table' = [table EXCEPT ![c] = g] /\ me' = [me EXCEPT ![t].on = c, ![t].g = g] /\ Go(t, "loading")
  BY DEF LoadLooksUp
<1> HIDE DEF g
<1> DEFINE m == [me[t] EXCEPT !.on = c, !.g = g]
<1>4. /\ m \in Locals /\ m.op = me[t].op /\ m.b = c /\ m.on = c /\ m.g = g
      /\ m.saved = me[t].saved /\ m.ret = me[t].ret
  BY <1>1, <1>2 DEF Locals
<1>5. me' = [me EXCEPT ![t] = m]  BY <1>3 DEF ManagerInv, TypeInv
<1> HIDE DEF m
<1>6. Others(t) /\ at' \in [Thread -> Label] /\ me' \in [Thread -> Locals] /\ at'[t] = "loading" /\ me'[t] = m
  BY <1>3, <1>4, <1>5, SetDoes DEF ManagerInv, Label
<1>7. ThreadOK(t)'
  BY <1>1, <1>2, <1>4, <1>6 DEF ThreadOK, Toward, Closing, PinLabel, OfBackend
<1>8. \A b : (PinnedBy(t, b)' <=> PinnedBy(t, b)) /\ (Holds(t, b) => Holds(t, b)')
  BY <1>1, <1>4, <1>6 DEF PinnedBy, Holds, Toward, Closing, PinLabel
<1>9. TypeInv'  BY <1>1, <1>2, <1>3, <1>6 DEF LoadLooksUp, ManagerInv, TypeInv
<1>10. QED  BY <1>6, <1>7, <1>8, <1>9, QuietKeeps DEF Quiet, LoadLooksUp

LEMMA LoadsKeeps ==
  ASSUME ManagerInv, NEW t \in Thread, Loads(t) PROVE ManagerInv'
<1> USE Known
<1> PICK c, g : c = me[t].b /\ g = me[t].g  OBVIOUS
<1> PICK want : want = IF me[t].op = "respawn_hot" THEN me[t].saved ELSE me[t].want  OBVIOUS
<1>1. /\ c \in Backends /\ g \in Entry /\ want \in Request /\ at[t] = "loading" /\ TypeInv
      /\ \A b : ~PinnedBy(t, b)
  BY DEF Loads, ThreadOK, Toward, OfBackend, Request, ManagerInv, PinnedBy, Closing, PinLabel
<1>2. CASE worker' = [worker EXCEPT ![c][g] = want] /\ Go(t, "mark") /\ UNCHANGED <<me, genLock>>
  <2>1. Others(t) /\ at' \in [Thread -> Label] /\ me' \in [Thread -> Locals] /\ at'[t] = "mark" /\ me'[t] = me[t]
    BY <1>1, <1>2, GoDoes DEF Label
  <2>2. ThreadOK(t)'  BY <1>1, <2>1 DEF ThreadOK, Toward, Closing, PinLabel, OfBackend
  <2>3. \A b : ~PinnedBy(t, b)' /\ (Holds(t, b) => Holds(t, b)')
    BY <1>1, <2>1 DEF PinnedBy, Holds, Toward, Closing, PinLabel
  <2>4. worker' \in [Backends -> [Entry -> Request \cup {Dead, Empty}]]  BY <1>1, <1>2 DEF TypeInv
  <2>5. TypeInv'  BY <1>1, <1>2, <2>1, <2>4 DEF Loads, TypeInv
  <2>6. QED  BY <1>1, <1>2, <2>1, <2>2, <2>3, <2>5, QuietKeeps DEF Quiet, Loads
<1>3. ASSUME NEW left \in {Dead, Empty}, worker' = [worker EXCEPT ![c][g] = left], Return(t), Release(t)
      PROVE  ManagerInv'
  <2>1. /\ Others(t) /\ ThreadOK(t)' /\ at' \in [Thread -> Label] /\ me' \in [Thread -> Locals]
        /\ \A b : ~PinnedBy(t, b)'
    BY <1>1, <1>3, ReturnDoes
  <2>2. genLock' \in [Backends -> Thread \cup {None}]  BY <1>1, <1>3 DEF Release, TypeInv
  <2>3. worker' \in [Backends -> [Entry -> Request \cup {Dead, Empty}]]  BY <1>1, <1>3 DEF TypeInv
  <2>4. TypeInv'  BY <1>1, <2>1, <2>2, <2>3 DEF Loads, TypeInv
  <2>5. PinsAreCounted'  BY <1>1, <2>1, PinsStay DEF Loads, ManagerInv
  <2>6. HoldersInside'  BY <1>3, <2>1, LocksFree DEF ManagerInv
  <2>7. QED  BY <2>1, <2>4, <2>5, <2>6, StepKeeps
<1>4. QED  BY <1>2, <1>3 DEF Loads

LEMMA MarkLoadedKeeps ==
  ASSUME ManagerInv, NEW t \in Thread, MarkLoaded(t) PROVE ManagerInv'
<1> USE Known
<1> PICK c : c = me[t].b  OBVIOUS
<1>1. /\ c \in Backends /\ at[t] = "mark" /\ TypeInv /\ Release(t)
      /\ \A b : ~PinnedBy(t, b)
  BY DEF MarkLoaded, ThreadOK, Toward, OfBackend, ManagerInv, PinnedBy, Closing, PinLabel
<1>2. loaded' \in [Backends -> Request \cup {None}]
  BY <1>1 DEF MarkLoaded, ThreadOK, TypeInv, Request
<1>3. genLock' \in [Backends -> Thread \cup {None}]  BY <1>1 DEF Release, TypeInv
<1>4. CASE me[t].op = "generate"
  <2> DEFINE m == [me[t] EXCEPT !.on = None, !.g = 0]
  <2>1. m \in Locals /\ m.op = me[t].op /\ m.b = c /\ m.ret = me[t].ret  BY <1>1 DEF Locals
  <2>2. Go(t, "pinned") /\ me' = [me EXCEPT ![t] = m] /\ ref' = [ref EXCEPT ![c] = @ + 1]
    BY <1>1, <1>4 DEF MarkLoaded, TypeInv
  <2> HIDE DEF m
  <2>3. Others(t) /\ at' \in [Thread -> Label] /\ me' \in [Thread -> Locals] /\ at'[t] = "pinned" /\ me'[t] = m
    BY <1>1, <2>1, <2>2, SetDoes DEF Label
  <2>4. t \in Jobs  BY <1>4 DEF ThreadOK
  <2>5. ThreadOK(t)'
    BY <1>1, <1>4, <2>1, <2>3, <2>4 DEF ThreadOK, Toward, Closing, PinLabel, OfBackend
  <2>6. PinnedBy(t, c)'  BY <2>1, <2>3 DEF PinnedBy, PinLabel
  <2>7. PinsAreCounted'  BY <1>1, <2>2, <2>3, <2>4, <2>6, PinsAdd DEF ManagerInv
  <2>8. HoldersInside'  BY <1>1, <2>3, LocksFree DEF ManagerInv
  <2>9. TypeInv'  BY <1>1, <1>2, <1>3, <2>2, <2>3 DEF MarkLoaded, TypeInv, poolVars
  <2>10. QED  BY <2>3, <2>5, <2>7, <2>8, <2>9, StepKeeps
<1>5. CASE me[t].op # "generate"
  <2>1. Return(t) /\ ref' = ref  BY <1>5 DEF MarkLoaded
  <2>2. /\ Others(t) /\ ThreadOK(t)' /\ at' \in [Thread -> Label] /\ me' \in [Thread -> Locals]
        /\ \A b : ~PinnedBy(t, b)'
    BY <1>1, <2>1, ReturnDoes
  <2>3. PinsAreCounted'  BY <1>1, <2>1, <2>2, PinsStay DEF ManagerInv
  <2>4. HoldersInside'  BY <1>1, <2>2, LocksFree DEF ManagerInv
  <2>5. TypeInv'  BY <1>1, <1>2, <1>3, <2>1, <2>2 DEF MarkLoaded, TypeInv, poolVars
  <2>6. QED  BY <2>2, <2>3, <2>4, <2>5, StepKeeps
<1>6. QED  BY <1>4, <1>5

LEMMA PinnedKeeps ==
  ASSUME ManagerInv, NEW t \in Thread, Pinned(t) PROVE ManagerInv'
<1> USE Known
<1> PICK c : c = me[t].b  OBVIOUS
<1>1. /\ c \in Backends /\ at[t] = "pinned" /\ TypeInv /\ me[t].op = "generate" /\ t \in Jobs
      /\ \A b : ~Holds(t, b)
  BY DEF Pinned, ThreadOK, Toward, OfBackend, ManagerInv, Holds, Closing, PinLabel
<1>2. ASSUME NEW l \in {"finally", "lockgen2"}, Go(t, l), UNCHANGED <<loaded, me>> PROVE ManagerInv'
  <2>1. Others(t) /\ at' \in [Thread -> Label] /\ me' \in [Thread -> Locals] /\ at'[t] = l /\ me'[t] = me[t]
    BY <1>1, <1>2, GoDoes DEF Label
  <2>2. ThreadOK(t)'  BY <1>1, <2>1 DEF ThreadOK, Toward, Closing, PinLabel, OfBackend
  <2>3. \A b : PinnedBy(t, b)' <=> PinnedBy(t, b)
    BY <1>1, <2>1 DEF PinnedBy, Toward, Closing, PinLabel
  <2>4. TypeInv'  BY <1>1, <1>2, <2>1 DEF Pinned, TypeInv, poolVars
  <2>5. QED  BY <1>1, <2>1, <2>2, <2>3, <2>4, QuietKeeps DEF Quiet, Pinned
<1>3. ASSUME NEW victims \in SUBSET Backends, Evict(t, victims \ {c}, "headroom") PROVE ManagerInv'
  <2> PICK bs \in SUBSET Backends : bs = victims \ {c}  OBVIOUS
  <2>1. CarryOn(t, me[t], bs, "headroom") /\ loaded' = Marked(bs)  BY <1>3 DEF Evict
  <2>2. me[t] \in Locals /\ "headroom" \in Ret  BY DEF Ret
  <2>3. Others(t) /\ at' \in [Thread -> Label] /\ me' \in [Thread -> Locals]
    BY <1>1, <2>1, <2>2, CarryOnDoes
  <2>4. ThreadOK(t)' /\ \A b \in Backends : PinnedBy(t, b)' <=> c = b
    BY <1>1, <2>1, <2>2, CarryOnLeads
  <2>5. \A b : PinnedBy(t, b) <=> c = b  BY <1>1 DEF PinnedBy, PinLabel
  <2>6. TypeInv'  BY <1>1, <2>1, <2>3, MarkedType DEF Pinned, TypeInv, poolVars
  <2>7. QED  BY <1>1, <2>3, <2>4, <2>5, <2>6, QuietKeeps DEF Quiet, Pinned
<1>4. QED  BY <1>2, <1>3 DEF Pinned

LEMMA HeadroomKeeps ==
  ASSUME ManagerInv, NEW t \in Thread, Headroom(t) PROVE ManagerInv'
<1> USE Known
<1> PICK l \in {"finally", "lockgen2"} : Go(t, l)  BY DEF Headroom
<1>1. at[t] = "headroom" /\ TypeInv /\ me' = me  BY DEF Headroom, ManagerInv
<1>2. Others(t) /\ at' \in [Thread -> Label] /\ me' \in [Thread -> Locals] /\ at'[t] = l /\ me'[t] = me[t]
  BY <1>1, GoDoes DEF Label
<1>3. ThreadOK(t)'  BY <1>1, <1>2 DEF ThreadOK, Toward, Closing, PinLabel, OfBackend
<1>4. \A b : (PinnedBy(t, b)' <=> PinnedBy(t, b)) /\ ~Holds(t, b)
  BY <1>1, <1>2 DEF PinnedBy, Holds, Toward, Closing, PinLabel
<1>5. TypeInv'  BY <1>1, <1>2 DEF Headroom, TypeInv, poolVars
<1>6. QED  BY <1>1, <1>2, <1>3, <1>4, <1>5, QuietKeeps DEF Quiet, Headroom

LEMMA GenerateLooksUpKeeps ==
  ASSUME ManagerInv, NEW t \in Thread, GenerateLooksUp(t) PROVE ManagerInv'
<1> USE Known
<1> PICK c : c = me[t].b  OBVIOUS
<1> PICK keeps \in BOOLEAN : keeps <=> Alive(c)  OBVIOUS
<1>1. /\ c \in Backends /\ at[t] = "lockgen2" /\ TypeInv /\ me[t].op = "generate" /\ t \in Jobs
      /\ genLock' = [genLock EXCEPT ![c] = IF keeps THEN t ELSE None]
      /\ \A b : ~Holds(t, b) /\ (PinnedBy(t, b) <=> b = c)
  BY DEF GenerateLooksUp, Takes, ThreadOK, Toward, OfBackend, ManagerInv, Holds, PinnedBy, Closing, PinLabel
<1> DEFINE m == IF keeps THEN [me[t] EXCEPT !.on = c, !.g = table[c]] ELSE [me[t] EXCEPT !.fail = TRUE]
           l == IF keeps THEN "generating" ELSE "finally"
<1>2. m \in Locals /\ m.op = "generate" /\ m.b = c /\ (keeps => m.on = c /\ m.g \in Entry)
  <2>1. CASE keeps
    <3>1. table[c] \in Entry  BY <1>1, <2>1 DEF TypeInv, Alive
    <3>2. QED  BY ZenonT(60), <1>1, <2>1, <3>1 DEF Locals
  <2>2. CASE ~keeps  BY <1>1, <2>2 DEF Locals
  <2>3. QED  BY <2>1, <2>2
<1>3. Go(t, l) /\ me' = [me EXCEPT ![t] = m] /\ l \in Label
  BY <1>1 DEF GenerateLooksUp, Local, TypeInv, Label
<1>4. l \in PinLabel /\ (l = "generating" <=> keeps)  BY DEF PinLabel
<1> HIDE DEF m, l
<1>5. Others(t) /\ at' \in [Thread -> Label] /\ me' \in [Thread -> Locals] /\ at'[t] = l /\ me'[t] = m
  BY <1>1, <1>2, <1>3, SetDoes
<1>6. ThreadOK(t)'
  BY <1>1, <1>2, <1>4, <1>5 DEF ThreadOK, Toward, Closing, PinLabel, OfBackend
<1>7. (\A b : PinnedBy(t, b)' <=> b = c) /\ (keeps => Holds(t, c)')
  BY <1>2, <1>4, <1>5 DEF PinnedBy, Holds, Toward, Closing, PinLabel
<1>8. TypeInv'  BY <1>1, <1>5 DEF GenerateLooksUp, TypeInv, poolVars
<1>9. PinsAreCounted'  BY <1>1, <1>5, <1>7, PinsStay DEF GenerateLooksUp, ManagerInv
<1>10. HoldersInside'  BY <1>1, <1>5, <1>7, LocksTake DEF ManagerInv
<1>11. QED  BY <1>5, <1>6, <1>8, <1>9, <1>10, StepKeeps

LEMMA GeneratesKeeps ==
  ASSUME ManagerInv, NEW t \in Thread, Generates(t) PROVE ManagerInv'
<1> USE Known
<1> PICK c, g : c = me[t].b /\ g = me[t].g  OBVIOUS
<1>1. /\ c \in Backends /\ g \in Entry /\ at[t] = "generating" /\ TypeInv /\ me[t].op = "generate"
      /\ t \in Jobs /\ Release(t) /\ Go(t, "finally") /\ \A b : PinnedBy(t, b) <=> b = c
  BY DEF Generates, ThreadOK, Toward, OfBackend, ManagerInv, PinnedBy, Closing, PinLabel
<1> PICK left \in {worker[c][g], Dead}, fail \in BOOLEAN :
      /\ worker' = [worker EXCEPT ![c][g] = left]
      /\ IF HasModel(c, g) /\ left = Dead THEN Hurt({c}) ELSE UNCHANGED hurt
      /\ me' = [me EXCEPT ![t].on = None, ![t].g = 0, ![t].fail = fail]
  BY DEF Generates
<1> DEFINE m == [me[t] EXCEPT !.on = None, !.g = 0, !.fail = fail]
<1>2. m \in Locals /\ m.op = "generate" /\ m.b = c /\ me' = [me EXCEPT ![t] = m]
  BY ZenonT(60), <1>1 DEF Locals, TypeInv
<1> HIDE DEF m
<1>3. Others(t) /\ at' \in [Thread -> Label] /\ me' \in [Thread -> Locals] /\ at'[t] = "finally" /\ me'[t] = m
  BY <1>1, <1>2, SetDoes DEF Label
<1>4. ThreadOK(t)'  BY <1>1, <1>2, <1>3 DEF ThreadOK, Toward, Closing, PinLabel, OfBackend
<1>5. \A b : PinnedBy(t, b)' <=> b = c  BY <1>2, <1>3 DEF PinnedBy, Toward, Closing, PinLabel
<1>6. worker' \in [Backends -> [Entry -> Request \cup {Dead, Empty}]]  BY <1>1 DEF TypeInv
<1>7. genLock' \in [Backends -> Thread \cup {None}]  BY <1>1 DEF Release, TypeInv
<1>8. hurt' \subseteq Jobs  BY <1>1, HurtType DEF TypeInv
<1>9. TypeInv'  BY <1>1, <1>3, <1>6, <1>7, <1>8 DEF Generates, TypeInv
<1>10. PinsAreCounted'  BY <1>1, <1>3, <1>5, PinsStay DEF Generates, ManagerInv
<1>11. HoldersInside'  BY <1>1, <1>3, LocksFree DEF ManagerInv
<1>12. QED  BY <1>3, <1>4, <1>9, <1>10, <1>11, StepKeeps

LEMMA FinallyKeeps ==
  ASSUME ManagerInv, NEW t \in Thread, Finally(t) PROVE ManagerInv'
<1> USE Known
<1> PICK c : c = me[t].b  OBVIOUS
<1>1. /\ c \in Backends /\ at[t] = "finally" /\ TypeInv /\ t \in Jobs /\ PinnedBy(t, c)
      /\ \A b : ~Holds(t, b)
  BY DEF Finally, ThreadOK, Toward, OfBackend, ManagerInv, PinnedBy, Holds, Closing, PinLabel
<1>2. ref' = [ref EXCEPT ![c] = Unpin(@)] /\ ref' \in [Backends -> Nat]
  <2>1. ref' = [ref EXCEPT ![c] = Unpin(@)]  BY DEF Finally
  <2>2. Unpin(ref[c]) \in Nat  BY <1>1 DEF Unpin, TypeInv
  <2>3. QED  BY <1>1, <2>1, <2>2 DEF TypeInv
<1>3. /\ Others(t) /\ ThreadOK(t)' /\ at' \in [Thread -> Label] /\ me' \in [Thread -> Locals]
      /\ loaded' \in [Backends -> Request \cup {None}] /\ \A b \in Backends : ~PinnedBy(t, b)'
  <2>1. CASE Evict(t, {c}, "idle")
    <3>1. CarryOn(t, me[t], {c}, "idle") /\ loaded' = Marked({c})  BY <2>1 DEF Evict
    <3>2. me[t] \in Locals /\ "idle" \in Ret /\ {c} \in SUBSET Backends  BY <1>1 DEF Ret
    <3>3. Others(t) /\ at' \in [Thread -> Label] /\ me' \in [Thread -> Locals]
      BY <1>1, <3>1, <3>2, CarryOnDoes
    <3>4. ThreadOK(t)' /\ \A b \in Backends : ~PinnedBy(t, b)'
      BY <1>1, <3>1, <3>2, CarryOnLeads
    <3>5. QED  BY <1>1, <3>1, <3>3, <3>4, MarkedType
  <2>2. CASE Return(t) /\ UNCHANGED loaded  BY <1>1, <2>2, ReturnDoes DEF TypeInv
  <2>3. QED  BY <1>1, <2>1, <2>2 DEF Finally
<1>4. TypeInv'  BY <1>1, <1>2, <1>3 DEF Finally, TypeInv, poolVars
<1>5. PinsAreCounted'  BY <1>1, <1>2, <1>3, PinsDrop DEF ManagerInv
<1>6. HoldersInside'  BY <1>1, <1>3, LocksStay DEF Finally, ManagerInv
<1>7. QED  BY <1>3, <1>4, <1>5, <1>6, StepKeeps

\* A thread that goes on with its list of workers is through with the last one.
LEMMA GoOnDoes ==
  ASSUME ManagerInv, NEW t \in Thread, NEW left \in SUBSET Backends, GoOn(t, left)
  PROVE  /\ Others(t) /\ ThreadOK(t)' /\ at' \in [Thread -> Label] /\ me' \in [Thread -> Locals]
         /\ \A b : ~PinnedBy(t, b)' /\ ~Holds(t, b)'
<1> USE Known
<1>1. CASE left = {}  BY <1>1, ReturnDoes DEF GoOn, ManagerInv
<1>2. CASE left # {}
  <2> DEFINE m == [me[t] EXCEPT !.left = left, !.on = None, !.g = 0]
  <2>1. m \in Locals /\ m.op = me[t].op /\ me' = [me EXCEPT ![t] = m] /\ Go(t, "next")
    <3>1. m \in Locals /\ m.op = me[t].op  BY DEF Locals
    <3>2. /\ me' = [me EXCEPT ![t].left = left, ![t].on = None, ![t].g = 0]
          /\ Go(t, "next")
      BY <1>2 DEF GoOn
    <3>3. me' = [me EXCEPT ![t] = m]  BY <3>2 DEF ManagerInv, TypeInv
    <3>4. QED  BY <3>1, <3>2, <3>3
  <2> HIDE DEF m
  <2>2. Others(t) /\ at' \in [Thread -> Label] /\ me' \in [Thread -> Locals] /\ at'[t] = "next" /\ me'[t] = m
    BY <2>1, SetDoes DEF ManagerInv, Label
  <2>3. QED
    BY <2>1, <2>2 DEF ThreadOK, PinnedBy, Holds, Toward, Closing, PinLabel, OfBackend
<1>3. QED  BY <1>1, <1>2

LEMMA VisitKeeps ==
  ASSUME ManagerInv, NEW t \in Thread, NEW b \in Backends, Visit(t, b) PROVE ManagerInv'
<1> USE Known
<1>1. at[t] = "next" /\ TypeInv /\ \A c : ~PinnedBy(t, c) /\ ~Holds(t, c)
  BY DEF Visit, ManagerInv, PinnedBy, Holds, Toward, Closing, PinLabel
<1>2. /\ Others(t) /\ ThreadOK(t)' /\ at' \in [Thread -> Label] /\ me' \in [Thread -> Locals]
      /\ \A c : ~PinnedBy(t, c)'
  <2>1. CASE Go(t, "trylock") /\ me' = [me EXCEPT ![t].b = b, ![t].left = @ \ {b}]
    <3> DEFINE m == [me[t] EXCEPT !.b = b, !.left = @ \ {b}]
    <3>1. m \in Locals /\ m.op = me[t].op /\ m.b = b /\ me' = [me EXCEPT ![t] = m]
      BY ZenonT(60), <2>1 DEF Locals, ManagerInv, TypeInv
    <3> HIDE DEF m
    <3>2. Others(t) /\ at' \in [Thread -> Label] /\ me' \in [Thread -> Locals] /\ at'[t] = "trylock" /\ me'[t] = m
      BY <1>1, <2>1, <3>1, SetDoes DEF Label
    <3>3. QED
      BY <3>1, <3>2 DEF ThreadOK, PinnedBy, Toward, Closing, PinLabel, OfBackend
  <2>2. CASE GoOn(t, me[t].left \ {b})  BY <2>2, GoOnDoes
  <2>3. QED  BY <2>1, <2>2 DEF Visit
<1>3. TypeInv'  BY <1>1, <1>2 DEF Visit, TypeInv, poolVars
<1>4. QED  BY <1>1, <1>2, <1>3, QuietKeeps DEF Quiet, Visit

LEMMA NothingLeftKeeps ==
  ASSUME ManagerInv, NEW t \in Thread, NothingLeft(t) PROVE ManagerInv'
<1>1. TypeInv /\ Return(t) /\ \A c : ~PinnedBy(t, c) /\ ~Holds(t, c)
  BY DEF NothingLeft, ManagerInv, PinnedBy, Holds, Toward, Closing, PinLabel
<1>2. /\ Others(t) /\ ThreadOK(t)' /\ at' \in [Thread -> Label] /\ me' \in [Thread -> Locals]
      /\ \A c : ~PinnedBy(t, c)'
  BY <1>1, ReturnDoes
<1>3. TypeInv'  BY <1>1, <1>2 DEF NothingLeft, TypeInv, poolVars
<1>4. QED  BY <1>1, <1>2, <1>3, QuietKeeps DEF Quiet, NothingLeft

LEMMA LockTakenKeeps ==
  ASSUME ManagerInv, NEW t \in Thread, LockTaken(t) PROVE ManagerInv'
<1>1. TypeInv /\ GoOn(t, me[t].left) /\ \A c : ~PinnedBy(t, c) /\ ~Holds(t, c)
  BY DEF LockTaken, ManagerInv, PinnedBy, Holds, Toward, Closing, PinLabel
<1>2. /\ Others(t) /\ ThreadOK(t)' /\ at' \in [Thread -> Label] /\ me' \in [Thread -> Locals]
      /\ \A c : ~PinnedBy(t, c)'
  BY <1>1, Known, GoOnDoes
<1>3. TypeInv'  BY <1>1, <1>2 DEF LockTaken, TypeInv, poolVars
<1>4. QED  BY <1>1, <1>2, <1>3, QuietKeeps DEF Quiet, LockTaken

LEMMA KillLooksUpKeeps ==
  ASSUME ManagerInv, NEW t \in Thread, KillLooksUp(t) PROVE ManagerInv'
<1> USE Known
<1> PICK c : c = me[t].b  OBVIOUS
<1> PICK g : g = table[c]  OBVIOUS
<1> PICK keeps \in BOOLEAN : keeps <=> g # 0 \/ Respawning(t)  OBVIOUS
<1>1. /\ c \in Backends /\ at[t] \in {"trylock", "rlock"} /\ TypeInv
      /\ genLock' = [genLock EXCEPT ![c] = IF keeps THEN t ELSE None]
      /\ \A b : ~Holds(t, b) /\ ~PinnedBy(t, b)
  BY DEF KillLooksUp, Takes, ThreadOK, Toward, OfBackend, ManagerInv, Holds, PinnedBy, Closing, PinLabel
<1>2. /\ Others(t) /\ ThreadOK(t)' /\ at' \in [Thread -> Label] /\ me' \in [Thread -> Locals]
      /\ (\A b : ~PinnedBy(t, b)') /\ (keeps => Holds(t, c)')
  <2>1. CASE g # 0
    <3> DEFINE m == [me[t] EXCEPT !.on = c, !.g = g]
    <3>1. g \in Entry  BY <1>1, <2>1 DEF TypeInv
    <3>2. m \in Locals /\ m.op = me[t].op /\ m.b = c /\ m.on = c /\ m.g = g
      BY <1>1, <3>1 DEF Locals
    <3>3. me' = [me EXCEPT ![t] = m] /\ Go(t, "killing")
      BY <1>1, <2>1 DEF KillLooksUp, TypeInv
    <3> HIDE DEF m
    <3>4. Others(t) /\ at' \in [Thread -> Label] /\ me' \in [Thread -> Locals] /\ at'[t] = "killing" /\ me'[t] = m
      BY <1>1, <3>2, <3>3, SetDoes DEF Label
    <3>5. QED
      BY <1>1, <3>1, <3>2, <3>4 DEF ThreadOK, PinnedBy, Holds, Toward, Closing, PinLabel, OfBackend
  <2>2. CASE g = 0 /\ Respawning(t)
    <3>1. Go(t, "killed") /\ me' = me  BY <1>1, <2>2 DEF KillLooksUp
    <3>2. Others(t) /\ at' \in [Thread -> Label] /\ me' \in [Thread -> Locals] /\ at'[t] = "killed" /\ me'[t] = me[t]
      BY <1>1, <3>1, GoDoes DEF Label
    <3>3. QED
      BY <1>1, <3>2 DEF ThreadOK, PinnedBy, Holds, Toward, Closing, PinLabel, OfBackend
  <2>3. CASE g = 0 /\ ~Respawning(t)
    <3>1. GoOn(t, me[t].left)  BY <2>3 DEF KillLooksUp
    <3>2. QED  BY <2>3, <3>1, GoOnDoes
  <2>4. QED  BY <2>1, <2>2, <2>3
<1>3. table' \in [Backends -> Entry \cup {0}] /\ hurt' \subseteq Jobs
  BY <1>1, HurtType DEF KillLooksUp, TypeInv
<1>4. TypeInv'  BY <1>1, <1>2, <1>3 DEF KillLooksUp, TypeInv
<1>5. PinsAreCounted'  BY <1>1, <1>2, PinsStay DEF KillLooksUp, ManagerInv
<1>6. HoldersInside'  BY <1>1, <1>2, LocksTake DEF ManagerInv
<1>7. QED  BY <1>2, <1>4, <1>5, <1>6, StepKeeps

LEMMA KillsKeeps ==
  ASSUME ManagerInv, NEW t \in Thread, Kills(t) PROVE ManagerInv'
<1> USE Known
<1> PICK c, g : c = me[t].b /\ g = me[t].g  OBVIOUS
<1>1. /\ c \in Backends /\ g \in Entry /\ at[t] = "killing" /\ TypeInv
      /\ \A b : ~PinnedBy(t, b) /\ (Holds(t, b) <=> b = c)
  BY DEF Kills, ThreadOK, Toward, OfBackend, ManagerInv, PinnedBy, Holds, Closing, PinLabel
<1> DEFINE m == [me[t] EXCEPT !.on = None, !.g = 0]
<1>2. m \in Locals /\ m.op = me[t].op /\ m.b = c /\ me' = [me EXCEPT ![t] = m] /\ Go(t, "killed")
  BY ZenonT(60), <1>1 DEF Kills, Locals, TypeInv
<1> HIDE DEF m
<1>3. Others(t) /\ at' \in [Thread -> Label] /\ me' \in [Thread -> Locals] /\ at'[t] = "killed" /\ me'[t] = m
  BY <1>1, <1>2, SetDoes DEF Label
<1>4. ThreadOK(t)' /\ \A b : ~PinnedBy(t, b)' /\ (Holds(t, b)' <=> b = c)
  BY <1>1, <1>2, <1>3 DEF ThreadOK, PinnedBy, Holds, Toward, Closing, PinLabel, OfBackend
<1>5. worker' \in [Backends -> [Entry -> Request \cup {Dead, Empty}]] /\ hurt' \subseteq Jobs
  BY <1>1, HurtType DEF Kills, TypeInv
<1>6. TypeInv'  BY <1>1, <1>3, <1>5 DEF Kills, TypeInv
<1>7. QED  BY <1>1, <1>3, <1>4, <1>6, QuietKeeps DEF Quiet, Kills

LEMMA KilledKeeps ==
  ASSUME ManagerInv, NEW t \in Thread, Killed(t) PROVE ManagerInv'
<1> USE Known
<1> PICK c : c = me[t].b  OBVIOUS
<1>1. /\ c \in Backends /\ at[t] = "killed" /\ TypeInv
      /\ \A b : ~PinnedBy(t, b) /\ (Holds(t, b) <=> b = c)
  BY DEF Killed, ThreadOK, Toward, OfBackend, ManagerInv, PinnedBy, Holds, Closing, PinLabel
<1>2. CASE me[t].op = "respawn_hot" /\ me[t].saved \in Shapes
  <2>1. Go(t, "load") /\ UNCHANGED <<loaded, me, genLock>>  BY <1>2 DEF Killed
  <2>2. Others(t) /\ at' \in [Thread -> Label] /\ me' \in [Thread -> Locals] /\ at'[t] = "load" /\ me'[t] = me[t]
    BY <1>1, <2>1, GoDoes DEF Label
  <2>3. ThreadOK(t)' /\ \A b : ~PinnedBy(t, b)' /\ (Holds(t, b)' <=> b = c)
    BY <1>1, <1>2, <2>2 DEF ThreadOK, PinnedBy, Holds, Toward, Closing, PinLabel, OfBackend
  <2>4. TypeInv'  BY <1>1, <2>1, <2>2 DEF Killed, TypeInv, poolVars
  <2>5. QED  BY <1>1, <2>1, <2>2, <2>3, <2>4, QuietKeeps DEF Quiet, Killed
<1>3. CASE ~(me[t].op = "respawn_hot" /\ me[t].saved \in Shapes)
  <2>1. /\ Return(t) \/ GoOn(t, me[t].left)
        /\ Release(t) /\ (loaded' = loaded \/ loaded' = Marked({c})) /\ ref' = ref
    BY <1>3 DEF Killed
  <2>2. /\ Others(t) /\ ThreadOK(t)' /\ at' \in [Thread -> Label] /\ me' \in [Thread -> Locals]
        /\ \A b : ~PinnedBy(t, b)'
    BY <1>1, <2>1, ReturnDoes, GoOnDoes
  <2>3. genLock' \in [Backends -> Thread \cup {None}]  BY <1>1, <2>1 DEF Release, TypeInv
  <2>4. loaded' \in [Backends -> Request \cup {None}]  BY <1>1, <2>1, MarkedType DEF TypeInv
  <2>5. TypeInv'  BY <1>1, <2>2, <2>3, <2>4 DEF Killed, TypeInv, poolVars
  <2>6. PinsAreCounted'  BY <1>1, <2>1, <2>2, PinsStay DEF ManagerInv
  <2>7. HoldersInside'  BY <2>1, <2>2, LocksFree DEF ManagerInv
  <2>8. QED  BY <2>2, <2>5, <2>6, <2>7, StepKeeps
<1>4. QED  BY <1>2, <1>3

LEMMA CrashKeeps ==
  ASSUME ManagerInv, NEW b \in Backends, NEW g \in Entry, Crash(b, g) PROVE ManagerInv'
<1>1. at' = at /\ me' = me /\ ref' = ref /\ genLock' = genLock  BY DEF Crash
<1>2. TypeInv'  BY <1>1, HurtType DEF Crash, ManagerInv, TypeInv
<1>3. \A t \in Thread : ThreadOK(t)'
  BY <1>1 DEF ManagerInv, ThreadOK, Toward, Closing
<1>4. PinsAreCounted'  BY <1>1 DEF ManagerInv, PinsAreCounted, Pinning
<1>5. HoldersInside'  BY <1>1 DEF ManagerInv, HoldersInside, Holds, Toward, Closing
<1>6. QED  BY <1>2, <1>3, <1>4, <1>5 DEF ManagerInv

-----------------------------------------------------------------------------
(* The theorem. *)

LEMMA InitInv == ManagerInit => ManagerInv
<1> SUFFICES ASSUME ManagerInit PROVE ManagerInv  OBVIOUS
<1>1. Nothing \in Locals /\ Nothing.op = "none"  BY DEF Nothing, Locals, Request
<1>2. \A t \in Thread : at[t] = "idle" /\ me[t] = Nothing  BY DEF ManagerInit
<1>3. TypeInv  BY <1>1 DEF ManagerInit, TypeInv, Label, Request
<1>4. \A t \in Thread : ThreadOK(t)
  BY <1>1, <1>2 DEF ThreadOK, Toward, Closing, PinLabel, OfBackend
<1>5. PinsAreCounted
  <2>1. \A b : Pinning(b) = {}  BY <1>2 DEF Pinning, Thread
  <2>2. QED  BY <2>1, FS_EmptySet DEF PinsAreCounted, ManagerInit
<1>6. HoldersInside
  BY ManagerAssumption DEF ManagerInit, HoldersInside, ManagerAssumption, Thread
<1>7. QED  BY <1>3, <1>4, <1>5, <1>6 DEF ManagerInv

LEMMA NextKeeps == ManagerInv /\ [ManagerNext]_vars => ManagerInv'
<1> SUFFICES ASSUME ManagerInv, [ManagerNext]_vars PROVE ManagerInv'  OBVIOUS
<1>1. ASSUME NEW t \in Thread, Call(t) PROVE ManagerInv'
  BY <1>1, StartGenerateKeeps, StartPreloadKeeps, StartEvictKeeps, StartVisitsKeeps,
     StartRespawnKeeps, StartZeroKeeps DEF Call
<1>2. ASSUME NEW t \in Thread, Step(t) PROVE ManagerInv'
  <2>1. CASE ZeroEvicts(t) \/ CloseIt(t) \/ \E b \in Backends : CloseNext(t, b) \/ Visit(t, b)
    BY <2>1, ZeroEvictsKeeps, CloseItKeeps, CloseNextKeeps, VisitKeeps
  <2>2. CASE Ensure(t) \/ Admit(t) \/ Admitted(t) \/ Poll(t) \/ Insufficient(t)
    BY <2>2, EnsureKeeps, AdmitKeeps, AdmittedKeeps, PollKeeps, InsufficientKeeps
  <2>3. CASE Recheck(t) \/ LoadLooksUp(t) \/ Loads(t) \/ MarkLoaded(t)
    BY <2>3, RecheckKeeps, LoadLooksUpKeeps, LoadsKeeps, MarkLoadedKeeps
  <2>4. CASE Pinned(t) \/ Headroom(t) \/ GenerateLooksUp(t) \/ Generates(t) \/ Finally(t)
    BY <2>4, PinnedKeeps, HeadroomKeeps, GenerateLooksUpKeeps, GeneratesKeeps, FinallyKeeps
  <2>5. CASE NothingLeft(t) \/ LockTaken(t) \/ KillLooksUp(t) \/ Kills(t) \/ Killed(t)
    BY <2>5, NothingLeftKeeps, LockTakenKeeps, KillLooksUpKeeps, KillsKeeps, KilledKeeps
  <2>6. QED  BY <1>2, <2>1, <2>2, <2>3, <2>4, <2>5 DEF Step
<1>3. CASE UNCHANGED vars
  BY <1>3 DEF vars, poolVars, ManagerInv, TypeInv, ThreadOK, Toward, Closing, PinsAreCounted,
              Pinning, HoldersInside, Holds
<1>4. QED  BY <1>1, <1>2, <1>3, CrashKeeps DEF ManagerNext, Finished

\* What the invariant says of the counters and the locks.
LEMMA InvIsConsistent == ManagerInv => ManagerConsistent
<1> SUFFICES ASSUME ManagerInv PROVE ManagerConsistent  OBVIOUS
<1>1. PinsAreCounted  BY DEF ManagerInv
<1>2. ref \in [Backends -> 0..Cardinality(Jobs)]
  <2>1. ASSUME NEW b \in Backends PROVE ref[b] \in 0..Cardinality(Jobs)
    <3>1. /\ Cardinality(Pinning(b)) <= Cardinality(Jobs)
          /\ Cardinality(Pinning(b)) \in Nat /\ Cardinality(Jobs) \in Nat
      BY FiniteJobs, FS_Subset, FS_CardinalityType
    <3>2. QED  BY <1>1, <3>1 DEF PinsAreCounted
  <2>2. QED  BY <2>1 DEF ManagerInv, TypeInv
<1>3. ManagerTypeOK  BY <1>2, Known DEF ManagerTypeOK, ManagerInv, TypeInv
<1>4. HoldersProceed
  <2>1. ASSUME NEW b \in Backends, genLock[b] # None, NEW t, t = genLock[b]
        PROVE  me[t].b = b /\ at[t] \in {"recheckVram", "load", "loading", "mark", "generating",
                                         "killing", "killed", "closing", "closeIt"}
    <3>1. t \in Thread  BY <2>1 DEF ManagerInv, TypeInv
    <3>2. Holds(t, b)  BY <2>1, <3>1 DEF ManagerInv, HoldersInside
    <3>3. QED  BY <3>2 DEF Holds, Toward, Closing
  <2>2. QED  BY <2>1 DEF HoldersProceed
<1>5. QED  BY <1>1, <1>3, <1>4 DEF ManagerConsistent

\* generate() counts its pins exactly, whichever way it ends, and every call gives the
\* gen_lock back that it takes: no path of backend_manager.py leaks one or the other,
\* whatever other threads do and whichever workers die meanwhile.
THEOREM PinsAndLocks == ManagerSpec => []ManagerConsistent
<1>1. QED  BY InitInv, NextKeeps, InvIsConsistent, PTL DEF ManagerSpec

(***************************************************************************)
(* What becomes of the models that BackendManager loads, for every set of  *)
(* jobs, admin threads, backends and shapes, and for any bounds: a job     *)
(* finds the model it pinned (PinGuarantee), no weights are forgotten      *)
(* (NoForgottenWeights), and only a race overcommits the GPU               *)
(* (OvercommitOnlyByRace).                                                 *)
(*                                                                         *)
(* The invariant above says that a thread that has a gen_lock is inside a  *)
(* call; here also the converse holds (Exclusive).                         *)
(* What a thread knows of a backend under its gen_lock (UnderLock) stays   *)
(* true because the steps that others may take without the lock are gentle *)
(* with it (Gentle): they empty, kill and evict, and load nothing.  What a *)
(* job knows of a backend under its pin (PinOK) stays true because no step *)
(* takes it away without a warning (Warned), and every model has someone   *)
(* who answers for it or is seen by the planner (Explained).               *)
(***************************************************************************)

Exclusive == \A b \in Backends, t \in Thread : Holds(t, b) => genLock[b] = t

Loading == {"load", "loading", "mark"}

UnderLock(t) ==
  LET b == me[t].b
      g == me[t].g IN
  /\ ~Closing(t) => me[t].todo = {}
  /\ t \in Jobs => me[t].op \in {"none", "generate"}
  /\ at[t] \in {"killing", "killed"} => table[b] = 0
  /\ at[t] \in {"loading", "mark"} => g \in Entry /\ (b \in KillOnEvict \/ g = table[b])
  /\ me[t].op # "respawn_hot" /\ (at[t] \in Loading \/ Toward(t, {"recheckVram"})) => loaded[b] = None
  /\ me[t].op = "respawn_hot" =>
       /\ at[t] = "load" => table[b] = 0
       /\ at[t] = "loading" => worker[b][g] = Dead /\ table[b] \in {0, g}

\* The planner counts the weights, or they are on a state object that is out of its reach.
Seen(b, g) == (g = table[b] /\ loaded[b] # None) \/ (g # table[b] /\ b \in KillOnEvict)
\* The thread is about to end, empty or mark the worker.
Answers(t, b, g) ==
  \/ g = table[b] /\ (b \in me[t].todo \/ (me[t].b = b /\ at[t] = "rlock"))
  \/ me[t].g = g /\ \/ at[t] = "closeIt" /\ me[t].on = b
                    \/ at[t] \in {"killing", "loading", "mark"} /\ me[t].b = b
Explained ==
  \A b \in Backends, g \in Entry :
    HasModel(b, g) => Seen(b, g) \/ \E t \in Thread : Answers(t, b, g)

Using(t) == Toward(t, {"headroom"}) \/ at[t] \in {"pinned", "lockgen2", "generating"}
Served(b, want) ==
  /\ loaded[b] # None /\ table[b] # 0 /\ worker[b][table[b]] \in Request
  /\ want \in {AnyShape, worker[b][table[b]]}
PinOK(t) ==
  LET b == me[t].b
      g == me[t].g IN
  /\ at[t] \in {"loading", "mark"} => table[b] = g
  /\ at[t] = "mark" => worker[b][g] = me[t].want
  /\ Using(t) => Served(b, me[t].want)
  /\ at[t] = "generating" => g = table[b]

ModelInv ==
  /\ ManagerInv /\ Exclusive
  /\ \A t \in Thread : UnderLock(t)
  /\ Explained
  /\ \A t \in Jobs \ hurt : PinOK(t)

-----------------------------------------------------------------------------
(* What a step of t must do to keep the invariant. *)

\* It takes only free locks, and gives back only its own.
LockStep(t) == \A b \in Backends : genLock'[b] = genLock[b] \/ genLock[b] \in {None, t}
\* To backends that others have locked it does nothing but evict and kill.
Gentle(t) ==
  \A b \in Backends : genLock[b] \in Thread \ {t} =>
    /\ table'[b] = table[b] \/ (b \in KillOnEvict /\ table'[b] = 0)
    /\ loaded'[b] \in {loaded[b], None}
    /\ \A g \in Entry : worker[b][g] = Dead => worker'[b][g] = Dead
\* What it leaves to others to answer for, they answer for already.
Handed(t) ==
  \A b \in Backends, g \in Entry : HasModel(b, g)' =>
    \/ Seen(b, g)' \/ Answers(t, b, g)'
    \/ HasModel(b, g) /\ ~Seen(b, g) /\ ~Answers(t, b, g) /\ (table'[b] = table[b] \/ g # table[b])
\* It leaves what the users of a backend rely on, or they count as hurt.
Steady(b) ==
  /\ table'[b] = table[b] /\ (loaded[b] # None => loaded'[b] # None)
  /\ table[b] # 0 /\ worker[b][table[b]] \in Request => worker'[b][table[b]] = worker[b][table[b]]
Warned(t) ==
  /\ hurt \ {t} \subseteq hurt'
  /\ \A b \in Backends : Steady(b) \/ Users(b) \ {t} \subseteq hurt'

LEMMA ModelKeeps ==
  ASSUME ModelInv, ManagerInv', NEW t \in Thread, Others(t),
         LockStep(t), \A b \in Backends : Holds(t, b)' => genLock'[b] = t,
         Gentle(t), UnderLock(t)', Handed(t), Warned(t),
         t \in Jobs /\ t \notin hurt' => PinOK(t)'
  PROVE  ModelInv'
<1>1. None \notin Thread /\ Jobs \subseteq Thread
  BY ManagerAssumption DEF ManagerAssumption, Thread
<1>2. Exclusive'
  <2>1. ASSUME NEW b \in Backends, NEW u \in Thread \ {t}, Holds(u, b)' PROVE genLock'[b] = u
    <3>1. Holds(u, b)  BY <2>1, OthersKeep
    <3>2. genLock[b] = u  BY <3>1 DEF ModelInv, Exclusive
    <3>3. QED  BY <1>1, <3>2 DEF LockStep
  <2>2. QED  BY <2>1 DEF Exclusive
<1>3. \A u \in Thread : UnderLock(u)'
  <2>1. ASSUME NEW u \in Thread \ {t} PROVE UnderLock(u)'
    <3> PICK c, g : c = me[u].b /\ g = me[u].g  OBVIOUS
    <3>1. at'[u] = at[u] /\ me'[u] = me[u] /\ UnderLock(u) /\ ThreadOK(u) /\ g \in Entry \cup {0}
      BY Known DEF Others, ModelInv
    <3>2. CASE Toward(u, {"recheckVram"}) \/ at[u] \in Loading \cup {"killing", "killed"}
      <4>1. c \in Backends /\ Holds(u, c)
        BY <3>1, <3>2 DEF ThreadOK, Holds, Toward, OfBackend, Loading
      <4>2. genLock[c] \in Thread \ {t}  BY <4>1 DEF ModelInv, Exclusive
      <4>3. /\ table'[c] = table[c] \/ (c \in KillOnEvict /\ table'[c] = 0)
            /\ loaded'[c] \in {loaded[c], None}
            /\ \A h \in Entry : worker[c][h] = Dead => worker'[c][h] = Dead
        BY <4>1, <4>2 DEF Gentle
      <4>4. at[u] = "loading" => g \in Entry  BY <3>1 DEF ThreadOK
      <4>5. QED
        BY <3>1, <4>3, <4>4 DEF UnderLock, Toward, Closing
    <3>3. CASE ~(Toward(u, {"recheckVram"}) \/ at[u] \in Loading \cup {"killing", "killed"})
      BY <3>1, <3>3 DEF UnderLock, Toward, Closing, Loading
    <3>4. QED  BY <3>2, <3>3
  <2>2. QED  BY <2>1
<1>4. Explained'
  <2>1. ASSUME NEW b \in Backends, NEW g \in Entry, HasModel(b, g), ~Seen(b, g), ~Answers(t, b, g),
               table'[b] = table[b] \/ g # table[b]
        PROVE  \E u \in Thread : Answers(u, b, g)'
    <3>1. PICK u \in Thread \ {t} : Answers(u, b, g)  BY <2>1 DEF ModelInv, Explained
    <3>2. at'[u] = at[u] /\ me'[u] = me[u]  BY DEF Others
    <3>3. Answers(u, b, g)'  BY <2>1, <3>1, <3>2 DEF Answers
    <3>4. QED  BY <3>3
  <2>2. QED  BY <2>1 DEF Handed, Explained
<1>5. \A u \in Jobs \ hurt' : PinOK(u)'
  <2>1. ASSUME NEW u \in Jobs \ hurt', u # t PROVE PinOK(u)'
    <3> PICK c : c = me[u].b  OBVIOUS
    <3>1. at'[u] = at[u] /\ me'[u] = me[u] /\ PinOK(u) /\ ThreadOK(u)
      BY <1>1, <2>1 DEF Others, ModelInv, Warned, ManagerInv
    <3>2. CASE Using(u) \/ at[u] \in {"loading", "mark"}
      <4>1. c \in Backends /\ u \in Users(c)
        BY <3>1, <3>2 DEF ThreadOK, Using, Toward, Closing, OfBackend, Users, Needs
      <4>2. Steady(c)  BY <2>1, <4>1 DEF Warned
      <4>3. at[u] = "mark" => me[u].g = table[c]  BY <3>1 DEF PinOK
      <4>4. me[u].want \in Request /\ (at[u] = "mark" => me[u].g # 0)
        BY <1>1, <2>1, Known DEF ModelInv, UnderLock, Entry
      <4>5. QED  BY <3>1, <4>2, <4>3, <4>4 DEF Steady, PinOK, Served, Using, Toward, Closing
    <3>3. CASE ~(Using(u) \/ at[u] \in {"loading", "mark"})
      BY <3>1, <3>3 DEF PinOK, Using, Toward, Closing
    <3>4. QED  BY <3>2, <3>3
  <2>2. QED  BY <2>1
<1>6. QED  BY <1>2, <1>3, <1>4, <1>5 DEF ModelInv

-----------------------------------------------------------------------------
(* Kinds of steps. *)

\* The same step, with the parts that most steps get from its place.
Ends(t) ==
  /\ UnderLock(t)' /\ (t \in Jobs /\ t \notin hurt' => PinOK(t)')
  /\ \A b \in Backends : Holds(t, b)' => genLock'[b] = t

\* Places at which a thread knows nothing of a backend.
Aside == {"idle", "ensure", "admit", "readmit", "lockgen", "finally", "zero", "next", "rlock", "trylock"}
LEMMA AsideEnds ==
  ASSUME NEW t \in Thread, at'[t] \in Aside, me'[t].todo = {},
         t \in Jobs => me'[t].op \in {"none", "generate"}
  PROVE  Ends(t)
  BY DEF Ends, UnderLock, PinOK, Holds, Using, Toward, Closing, Aside, Loading

LEMMA ReturnEnds == ASSUME NEW t \in Thread, TypeInv, Return(t) PROVE Ends(t)
<1>1. at'[t] = "idle" /\ me'[t] = Nothing  BY DEF Return, Go, TypeInv
<1>2. QED  BY <1>1, AsideEnds DEF Aside, Nothing

LEMMA GoOnEnds ==
  ASSUME NEW t \in Thread, ModelInv, NEW left \in SUBSET Backends, GoOn(t, left), ~Closing(t)
  PROVE  Ends(t)
<1>1. CASE left = {}  BY <1>1, ReturnEnds DEF GoOn, ModelInv, ManagerInv
<1>2. CASE left # {}
  <2>1. at'[t] = "next" /\ me'[t].todo = me[t].todo /\ me'[t].op = me[t].op
    BY <1>2, Known DEF GoOn, Go, ModelInv, ManagerInv, TypeInv, Locals
  <2>2. UnderLock(t)  BY DEF ModelInv
  <2>3. QED  BY <2>1, <2>2, AsideEnds DEF Aside, UnderLock
<1>3. QED  BY <1>1, <1>2

\* A thread that carries on with evictions answers for what they are of.
LEMMA CarryOnEnds ==
  ASSUME NEW t \in Thread, TypeInv, NEW mine \in Locals, NEW todo \in SUBSET Backends,
         NEW ret \in Ret, CarryOn(t, mine, todo, ret),
         t \in Jobs => mine.op \in {"none", "generate"},
         ret = "recheckVram" => /\ mine.op # "respawn_hot" => loaded'[mine.b] = None
                                /\ genLock'[mine.b] = t,
         ret = "headroom" => (t \in Jobs /\ t \notin hurt' => Served(mine.b, mine.want)')
  PROVE  Ends(t) /\ \A b \in todo : Answers(t, b, table[b])'
<1>1. /\ at'[t] \in {"closing"} \cup Ret /\ me'[t].todo = todo
      /\ at'[t] # "closing" => todo = {} /\ at'[t] = ret
      /\ at'[t] = "closing" => me'[t].ret = ret
      /\ me'[t].op \in {mine.op, "none"}
      /\ at'[t] # "idle" => me'[t].b = mine.b /\ me'[t].op = mine.op /\ me'[t].want = mine.want
  <2>1. \/ at'[t] = "closing" /\ todo # {} /\ me'[t].ret = ret /\ Same(me'[t], mine)
        \/ at'[t] = "idle" /\ ret = "idle" /\ me'[t] = Nothing
        \/ at'[t] = ret /\ ret # "idle" /\ todo = {} /\ Same(me'[t], mine)
    BY CarryOnDoes, Zenon
  <2>2. me'[t].todo = todo
    <3>1. CASE todo # {}
      <4>1. me' = [me EXCEPT ![t] = [mine EXCEPT !.todo = todo, !.ret = ret]]  BY <3>1 DEF CarryOn
      <4>2. QED  BY <4>1 DEF TypeInv, Locals
    <3>2. CASE todo = {} /\ ret = "idle"  BY <3>2 DEF CarryOn, Return, TypeInv, Nothing
    <3>3. CASE todo = {} /\ ret # "idle"
      <4>1. me' = [me EXCEPT ![t] = [mine EXCEPT !.todo = {}, !.ret = "idle"]]  BY <3>3 DEF CarryOn
      <4>2. QED  BY <3>3, <4>1 DEF TypeInv, Locals
    <3>4. QED  BY <3>1, <3>2, <3>3
  <2>3. (at'[t] = "closing" => todo # {}) /\ (at'[t] # "closing" => todo = {})
    BY DEF CarryOn, Return, Go, TypeInv, Ret
  <2>4. QED  BY <2>1, <2>2, <2>3 DEF Same, Nothing, Ret
<1>2. at'[t] # "closeIt" /\ at'[t] \notin {"killing", "killed", "rlock", "pinned", "lockgen2", "generating"} \cup Loading
  BY <1>1 DEF Ret, Loading
<1>3. UnderLock(t)'  BY <1>1, <1>2 DEF UnderLock, Toward, Closing, Loading
<1>4. t \in Jobs /\ t \notin hurt' => PinOK(t)'
  BY <1>1, <1>2 DEF PinOK, Using, Toward, Closing, Loading
<1>5. \A b \in Backends : Holds(t, b)' => genLock'[b] = t
  BY <1>1, <1>2 DEF Holds, Toward, Closing, Loading
<1>6. \A b \in todo : Answers(t, b, table[b])'  BY <1>1 DEF Answers
<1>7. QED  BY <1>3, <1>4, <1>5, <1>6 DEF Ends

\* Locks are taken when they are free and given back by who has them.
LEMMA TakesOne ==
  ASSUME NEW t \in Thread, TypeInv, NEW keeps, Takes(t, keeps)
  PROVE  LockStep(t) /\ (keeps /\ me[t].b \in Backends => genLock'[me[t].b] = t)
  BY DEF Takes, LockStep, TypeInv
LEMMA ReleasesOwn == ASSUME NEW t \in Thread, Release(t) PROVE LockStep(t)
  BY DEF Release, LockStep
LEMMA LeavesLocks == ASSUME NEW t \in Thread, genLock' = genLock PROVE LockStep(t)
  BY DEF LockStep

\* At most places a thread answers for nothing.
LEMMA NoAnswers ==
  ASSUME NEW t \in Thread, UnderLock(t),
         at[t] \notin {"closing", "closeIt", "rlock", "killing", "loading", "mark"}
  PROVE  \A b, g : ~Answers(t, b, g)
  BY DEF UnderLock, Closing, Answers

Modest(t) == Gentle(t) /\ Handed(t) /\ Warned(t)

\* A step that leaves loaded, table and worker alone.
LEMMA PrivateStep ==
  ASSUME NEW t \in Thread, UNCHANGED <<loaded, poolVars>>, hurt \ {t} \subseteq hurt',
         \A b \in Backends, g \in Entry : Answers(t, b, g) => Answers(t, b, g)'
  PROVE  Modest(t)
<1>1. loaded' = loaded /\ table' = table /\ worker' = worker  BY DEF poolVars
<1>2. Gentle(t)  BY <1>1 DEF Gentle
<1>3. Handed(t)  BY <1>1 DEF Handed, HasModel, Seen
<1>4. Warned(t)  BY <1>1 DEF Warned, Steady
<1>5. QED  BY <1>2, <1>3, <1>4 DEF Modest

\* Nobody uses a backend that may be evicted, or has its gen_lock for a load.
LEMMA NoUsers ==
  ASSUME ModelInv, NEW b \in Backends, loaded[b] # None, ref[b] = 0
  PROVE  Users(b) = {}
<1>1. SUFFICES ASSUME NEW u \in Users(b) PROVE FALSE  OBVIOUS
<1>2. u \in Jobs /\ u \in Thread /\ me[u].b = b  BY DEF Users, Thread
<1>3. CASE at[u] \in {"loading", "mark"}
  <2>1. UnderLock(u)  BY <1>2 DEF ModelInv
  <2>2. QED  BY <1>2, <1>3, <2>1 DEF UnderLock, Loading
<1>4. CASE at[u] \notin {"loading", "mark"}
  <2>1. u \in Pinning(b)  BY <1>2, <1>4 DEF Users, Needs, Pinning
  <2>2. Cardinality(Pinning(b)) = 0  BY DEF ModelInv, ManagerInv, PinsAreCounted
  <2>3. IsFiniteSet(Pinning(b))  BY FiniteJobs, FS_Subset
  <2>4. QED  BY <2>1, <2>2, <2>3, FS_EmptySet
<1>5. QED  BY <1>3, <1>4

\* A step that marks backends unloaded, and does no more to them.
LEMMA EvictStep ==
  ASSUME ModelInv, NEW t \in Thread, NEW bs \in SUBSET Backends, loaded' = Marked(bs), UNCHANGED poolVars,
         \A b \in bs : loaded[b] = None \/ Stale(b) \/ ref[b] = 0 \/ Users(b) \subseteq {t},
         hurt \ {t} \subseteq hurt',
         \A b \in bs : loaded[b] = None \/ Stale(b) \/ Answers(t, b, table[b])',
         \A b, g : ~Answers(t, b, g)
  PROVE  Modest(t)
<1>1. table' = table /\ worker' = worker  BY DEF poolVars
<1>2. \A b \in Backends : loaded'[b] = IF b \in bs THEN None ELSE loaded[b]  BY DEF Marked
<1>3. Gentle(t)  BY <1>1, <1>2 DEF Gentle
<1>4. Handed(t)
  <2>1. ASSUME NEW b \in Backends, NEW g \in Entry, HasModel(b, g)'
        PROVE  \/ Seen(b, g)' \/ Answers(t, b, g)'
               \/ HasModel(b, g) /\ ~Seen(b, g) /\ ~Answers(t, b, g) /\ (table'[b] = table[b] \/ g # table[b])
    <3>1. HasModel(b, g)  BY <1>1, <2>1 DEF HasModel
    <3>2. CASE Seen(b, g) /\ ~Seen(b, g)'
      <4>1. b \in bs /\ g = table[b] /\ loaded[b] # None  BY <1>1, <1>2, <3>2 DEF Seen
      <4>2. ~Stale(b)
        BY <3>1, <4>1, ManagerAssumption DEF HasModel, Stale, Alive, Request, ManagerAssumption, Entry
      <4>3. Answers(t, b, table[b])'  BY <4>1, <4>2
      <4>4. QED  BY <1>1, <4>1, <4>3
    <3>3. QED  BY <1>1, <3>1, <3>2
  <2>2. QED  BY <2>1 DEF Handed
<1>5. Warned(t)
  <2>1. ASSUME NEW b \in Backends PROVE Steady(b) \/ Users(b) \ {t} \subseteq hurt'
    <3>1. CASE b \notin bs \/ loaded[b] = None  BY <1>1, <1>2, <3>1 DEF Steady
    <3>2. CASE b \in bs /\ loaded[b] # None /\ ref[b] = 0  BY <3>2, NoUsers
    <3>3. CASE b \in bs /\ Stale(b)
      <4>1. ASSUME NEW u \in Users(b) \ {t}, u \notin hurt PROVE FALSE
        <5>1. u \in Jobs /\ u \in Thread /\ me[u].b = b /\ UnderLock(u) /\ PinOK(u)
          BY <4>1 DEF Users, Thread, ModelInv
        <5>2. CASE at[u] \in {"loading", "mark"}
          BY <3>3, <5>1, <5>2 DEF UnderLock, Loading, Stale
        <5>3. CASE at[u] \notin {"loading", "mark"}
          <6>1. Served(b, me[u].want)
            BY <5>1, <5>3 DEF Users, Needs, PinOK, Using, Toward, Closing
          <6>2. QED
            BY <3>3, <6>1, ManagerAssumption DEF Served, Stale, Alive, Request, ManagerAssumption
        <5>4. QED  BY <5>2, <5>3
      <4>2. QED  BY <4>1
    <3>4. CASE Users(b) \subseteq {t}  BY <3>4
    <3>5. QED  BY <3>1, <3>2, <3>3, <3>4
  <2>2. QED  BY <2>1 DEF Warned
<1>6. QED  BY <1>3, <1>4, <1>5 DEF Modest

\* What is left to show of each step.
LEMMA ModestKeeps ==
  ASSUME ModelInv, ManagerInv', NEW t \in Thread, Others(t), LockStep(t), Modest(t), Ends(t)
  PROVE  ModelInv'
  BY ModelKeeps DEF Modest, Ends

LEMMA Moves ==
  ASSUME NEW t \in Thread, TypeInv, NEW l, NEW m, Go(t, l), me' = [me EXCEPT ![t] = m]
  PROVE  Others(t) /\ at'[t] = l /\ me'[t] = m
  BY DEF Go, Others, TypeInv

\* What the invariant says of the thread that takes a step.
LEMMA Knows ==
  ASSUME ModelInv, NEW t \in Thread
  PROVE  /\ ManagerInv /\ TypeInv /\ UnderLock(t) /\ ThreadOK(t) /\ me[t] \in Locals
         /\ t \in Jobs => me[t].op \in {"none", "generate"}
         /\ t \in Jobs /\ t \notin hurt => PinOK(t)
  BY Known DEF ModelInv, ManagerInv, UnderLock

-----------------------------------------------------------------------------
(* The steps, one by one: calls. *)

LEMMA StartGenerateModels ==
  ASSUME ModelInv, NEW t \in Thread, NEW b \in Backends, NEW want \in Request, StartGenerate(t, b, want)
  PROVE  ModelInv'
<1> USE Knows
<1> DEFINE m == [Nothing EXCEPT !.op = "generate", !.b = b, !.want = want]
<1>1. m.todo = {} /\ m.op = "generate"  BY DEF Nothing
<1>2. Others(t) /\ at'[t] = "ensure" /\ me'[t] = m  BY Moves DEF StartGenerate
<1>3. Ends(t)  BY <1>1, <1>2, AsideEnds DEF Aside
<1>4. \A c, g : ~Answers(t, c, g)  BY NoAnswers DEF StartGenerate, Start
<1>5. Modest(t)  BY <1>4, PrivateStep DEF StartGenerate
<1>6. QED  BY <1>2, <1>3, <1>5, ModestKeeps, StartGenerateKeeps, LeavesLocks DEF StartGenerate

LEMMA StartPreloadModels ==
  ASSUME ModelInv, NEW t \in Thread, NEW b \in Backends, NEW want \in Request, StartPreload(t, b, want)
  PROVE  ModelInv'
<1> USE Knows
<1> DEFINE m == [Nothing EXCEPT !.op = "preload", !.b = b, !.want = want]
<1>1. m.todo = {} /\ t \notin Jobs  BY ManagerAssumption DEF Nothing, StartPreload, ManagerAssumption
<1>2. Others(t) /\ at'[t] = "ensure" /\ me'[t] = m  BY Moves DEF StartPreload
<1>3. Ends(t)  BY <1>1, <1>2, AsideEnds DEF Aside
<1>4. \A c, g : ~Answers(t, c, g)  BY NoAnswers DEF StartPreload, Start
<1>5. Modest(t)  BY <1>4, PrivateStep DEF StartPreload
<1>6. QED  BY <1>2, <1>3, <1>5, ModestKeeps, StartPreloadKeeps, LeavesLocks DEF StartPreload

LEMMA StartZeroModels ==
  ASSUME ModelInv, NEW t \in Thread, StartZero(t) PROVE ModelInv'
<1> USE Knows
<1> DEFINE m == [Nothing EXCEPT !.op = "zero", !.left = {b \in Backends : Alive(b)}]
<1>1. m.todo = {} /\ t \notin Jobs  BY ManagerAssumption DEF Nothing, StartZero, ManagerAssumption
<1>2. Others(t) /\ at'[t] = "zero" /\ me'[t] = m  BY Moves DEF StartZero
<1>3. Ends(t)  BY <1>1, <1>2, AsideEnds DEF Aside
<1>4. \A c, g : ~Answers(t, c, g)  BY NoAnswers DEF StartZero, Start
<1>5. Modest(t)  BY <1>4, PrivateStep DEF StartZero
<1>6. QED  BY <1>2, <1>3, <1>5, ModestKeeps, StartZeroKeeps, LeavesLocks DEF StartZero

LEMMA StartVisitsModels ==
  ASSUME ModelInv, NEW t \in Thread, NEW op \in Ops, NEW bs \in SUBSET Backends, StartVisits(t, op, bs)
  PROVE  ModelInv'
<1> USE Knows
<1> DEFINE m == [Nothing EXCEPT !.op = op, !.left = bs]
<1>1. m.todo = {} /\ t \notin Jobs  BY ManagerAssumption DEF Nothing, StartVisits, ManagerAssumption
<1>2. Others(t) /\ at'[t] = "next" /\ me'[t] = m  BY Moves DEF StartVisits
<1>3. Ends(t)  BY <1>1, <1>2, AsideEnds DEF Aside
<1>4. \A c, g : ~Answers(t, c, g)  BY NoAnswers DEF StartVisits, Start
<1>5. Modest(t)  BY <1>4, PrivateStep DEF StartVisits
<1>6. QED  BY <1>2, <1>3, <1>5, ModestKeeps, StartVisitsKeeps, LeavesLocks DEF StartVisits

LEMMA StartRespawnModels ==
  ASSUME ModelInv, NEW t \in Thread, NEW op \in Ops, NEW b \in Backends, StartRespawn(t, op, b)
  PROVE  ModelInv'
<1> USE Knows
<1> DEFINE m == [Nothing EXCEPT !.op = op, !.b = b, !.saved = loaded[b]]
<1>1. m.todo = {} /\ m.b = b /\ t \notin Jobs
  BY ManagerAssumption DEF Nothing, StartRespawn, ManagerAssumption
<1>2. Others(t) /\ at'[t] = "rlock" /\ me'[t] = m  BY Moves DEF StartRespawn
<1>3. Ends(t)  BY <1>1, <1>2, AsideEnds DEF Aside
<1>4. \A c, g : ~Answers(t, c, g)  BY NoAnswers DEF StartRespawn, Start
<1>5. Answers(t, b, table[b])'  BY <1>1, <1>2 DEF Answers
<1>6. Modest(t)  BY <1>4, <1>5, EvictStep DEF StartRespawn
<1>7. QED  BY <1>2, <1>3, <1>6, ModestKeeps, StartRespawnKeeps, LeavesLocks DEF StartRespawn

\* Every call of evict marks only what is idle.
LEMMA VictimsAreIdle ==
  ASSUME NEW t, NEW op, NEW bs \in SUBSET Backends, StartEvict(t, op, bs)
  PROVE  \A b \in bs : Evictable(b)
  BY DEF StartEvict, IsPlan

LEMMA StartEvictModels ==
  ASSUME ModelInv, NEW t \in Thread, NEW op \in Ops, NEW bs \in SUBSET Backends, StartEvict(t, op, bs)
  PROVE  ModelInv'
<1> USE Knows
<1> DEFINE m == [Nothing EXCEPT !.op = op]
<1>1. m \in Locals /\ t \notin Jobs
  BY ManagerAssumption DEF Locals, Nothing, Request, ManagerAssumption, AdminOps, StartEvict
<1>2. CarryOn(t, m, bs, "idle")  BY DEF StartEvict
<1> HIDE DEF m
<1>3. Others(t)  BY <1>1, <1>2, CarryOnDoes DEF Ret
<1>4. Ends(t) /\ \A b \in bs : Answers(t, b, table[b])'  BY <1>1, <1>2, CarryOnEnds DEF Ret
<1>5. \A c, g : ~Answers(t, c, g)  BY NoAnswers DEF StartEvict, Start
<1>6. Modest(t)  BY <1>4, <1>5, VictimsAreIdle, EvictStep DEF StartEvict, Evictable
<1>7. QED  BY <1>3, <1>4, <1>6, ModestKeeps, StartEvictKeeps, LeavesLocks DEF StartEvict

-----------------------------------------------------------------------------
(* The slow half of evictions. *)

\* What a thread that carries out evictions knows of what comes after them.
LEMMA ClosingKnows ==
  ASSUME ModelInv, NEW t \in Thread, Closing(t)
  PROVE  /\ me[t].ret = "recheckVram" => /\ me[t].op # "respawn_hot" => loaded[me[t].b] = None
                                         /\ genLock[me[t].b] = t
         /\ me[t].ret = "headroom" => /\ t \in Jobs /\ t \notin hurt => Served(me[t].b, me[t].want)
                                      /\ me[t].b \in Backends /\ t \in Jobs /\ t \in Users(me[t].b)
<1> USE Knows
<1>1. CASE me[t].ret = "recheckVram"
  <2>1. me[t].b \in Backends /\ Holds(t, me[t].b)
    BY <1>1 DEF ThreadOK, Holds, Toward, OfBackend
  <2>2. genLock[me[t].b] = t  BY <2>1 DEF ModelInv, Exclusive
  <2>3. QED  BY <1>1, <2>2 DEF UnderLock, Toward
<1>2. CASE me[t].ret = "headroom"
  <2>1. me[t].b \in Backends /\ t \in Jobs
    BY <1>2 DEF ThreadOK, Toward, OfBackend, PinLabel
  <2>2. QED  BY <1>2, <2>1 DEF PinOK, Using, Toward, Users, Closing
<1>3. QED  BY <1>1, <1>2

LEMMA SteadyServes ==
  ASSUME NEW b, NEW want, Served(b, want), Steady(b) PROVE Served(b, want)'
  BY DEF Served, Steady

LEMMA HurtIs == ASSUME NEW b, Hurt({b}) PROVE hurt' = hurt \cup Users(b)
  BY DEF Hurt

LEMMA CloseNextModels ==
  ASSUME ModelInv, NEW t \in Thread, NEW b \in Backends, CloseNext(t, b) PROVE ModelInv'
<1> USE Knows, Known
<1> PICK was : was = me[t]  OBVIOUS
<1>1. /\ at[t] = "closing" /\ Closing(t) /\ b \in me[t].todo
      /\ loaded' = loaded /\ worker' = worker /\ genLock' = genLock
  BY DEF CloseNext, Closing
<1>2. \/ b \in KillOnEvict /\ table[b] # 0 /\ table' = [table EXCEPT ![b] = 0] /\ Hurt({b})
      \/ ~(b \in KillOnEvict /\ table[b] # 0) /\ table' = table /\ hurt' = hurt
  BY DEF CloseNext
<1>3. \A c \in Backends : table'[c] = table[c] \/ (c = b /\ b \in KillOnEvict /\ table'[c] = 0)
  BY <1>2 DEF TypeInv
<1>4. Gentle(t)  BY <1>1, <1>3 DEF Gentle
<1>5. hurt \subseteq hurt' /\ \A c \in Backends : Steady(c) \/ Users(c) \subseteq hurt'
  <2>1. CASE table' = [table EXCEPT ![b] = 0] /\ Hurt({b})
    <3>1. hurt' = hurt \cup Users(b)  BY <2>1, HurtIs
    <3>2. \A c \in Backends \ {b} : Steady(c)  BY <1>1, <2>1 DEF Steady, TypeInv
    <3>3. QED  BY <3>1, <3>2
  <2>2. CASE table' = table /\ hurt' = hurt  BY <1>1, <2>2 DEF Steady
  <2>3. QED  BY <1>2, <2>1, <2>2
<1>6. Warned(t)  BY <1>5 DEF Warned
<1>7. was.ret = "headroom" => (t \in Jobs /\ t \notin hurt' => Served(was.b, was.want)')
  <2>1. SUFFICES ASSUME was.ret = "headroom", t \notin hurt' PROVE Served(was.b, was.want)'
    OBVIOUS
  <2>2. was.b \in Backends /\ Served(was.b, was.want) /\ t \in Users(was.b)
    BY <1>1, <1>5, <2>1, ClosingKnows
  <2>3. Steady(was.b)  BY <1>5, <2>1, <2>2
  <2>4. QED  BY <2>2, <2>3, SteadyServes
<1>8. ManagerInv'  BY CloseNextKeeps
<1>9. \A c \in Backends, g \in Entry :
        HasModel(c, g)' /\ (c # b \/ g # table[b]) /\ (c \in was.todo \ {b} => Answers(t, c, table[c])')
          => \/ Seen(c, g)' \/ Answers(t, c, g)'
             \/ HasModel(c, g) /\ ~Seen(c, g) /\ ~Answers(t, c, g) /\ (table'[c] = table[c] \/ g # table[c])
  <2>1. SUFFICES ASSUME NEW c \in Backends, NEW g \in Entry, HasModel(c, g)', c # b \/ g # table[b],
                        c \in was.todo \ {b} => Answers(t, c, table[c])', ~Seen(c, g)', ~Answers(t, c, g)'
                 PROVE  HasModel(c, g) /\ ~Seen(c, g) /\ ~Answers(t, c, g) /\ (table'[c] = table[c] \/ g # table[c])
    OBVIOUS
  <2>2. HasModel(c, g) /\ g # 0  BY <1>1, <2>1 DEF HasModel, Entry
  <2>3. table'[c] = table[c] \/ g # table[c]  BY <1>3, <2>1
  <2>4. ~Seen(c, g)  BY <1>1, <1>3, <2>1, <2>2 DEF Seen
  <2>5. ~Answers(t, c, g)  BY <1>1, <1>3, <2>1 DEF Answers
  <2>6. QED  BY <2>2, <2>3, <2>4, <2>5
<1>10. CASE table[b] # 0 /\ (b \in KillOnEvict \/ Alive(b))
  <2> DEFINE m == [was EXCEPT !.on = b, !.g = table[b], !.todo = @ \ {b}]
  <2>1. Go(t, "closeIt") /\ me' = [me EXCEPT ![t] = m]  BY <1>10 DEF CloseNext, TypeInv
  <2>2. /\ m.on = b /\ m.g = table[b] /\ m.todo = was.todo \ {b} /\ m.ret = was.ret
        /\ m.op = was.op /\ m.b = was.b /\ m.want = was.want
    BY DEF Locals
  <2> HIDE DEF m
  <2>3. Others(t) /\ at'[t] = "closeIt" /\ me'[t] = m  BY <2>1, Moves
  <2>4. \A c \in was.todo \ {b} : Answers(t, c, table[c])'  BY <2>2, <2>3 DEF Answers
  <2>5. \A g : g = table[b] => Answers(t, b, g)'  BY <2>2, <2>3 DEF Answers
  <2>6. Handed(t)  BY <1>9, <2>4, <2>5 DEF Handed
  <2>7. UnderLock(t)'
    BY <1>1, <2>2, <2>3, ClosingKnows DEF UnderLock, Toward, Closing, Loading
  <2>8. t \in Jobs /\ t \notin hurt' => PinOK(t)'
    BY <1>7, <2>2, <2>3, ClosingKnows DEF PinOK, Using, Toward, Closing
  <2>9. \A c \in Backends : Holds(t, c)' => genLock'[c] = t
    <3>1. \A c : Holds(t, c)' => c = was.b /\ was.ret = "recheckVram"
      BY <2>2, <2>3 DEF Holds, Toward, Closing
    <3>2. QED  BY <1>1, <3>1, ClosingKnows
  <2>10. QED
    BY <1>1, <1>4, <1>6, <1>8, <2>3, <2>6, <2>7, <2>8, <2>9, ModestKeeps, LeavesLocks DEF Modest, Ends
<1>11. CASE ~(table[b] # 0 /\ (b \in KillOnEvict \/ Alive(b)))
  <2>1. CarryOn(t, was, was.todo \ {b}, was.ret)  BY <1>11 DEF CloseNext
  <2>2. was.todo \ {b} \in SUBSET Backends /\ was \in Locals /\ was.ret \in Ret  OBVIOUS
  <2>3. Others(t)  BY <2>1, <2>2, CarryOnDoes
  <2>4. Ends(t) /\ \A c \in was.todo \ {b} : Answers(t, c, table[c])'
    BY <1>1, <1>7, <2>1, <2>2, ClosingKnows, CarryOnEnds
  <2>5. \A g \in Entry : HasModel(b, g)' => g # table[b]
    BY <1>1, <1>11, ManagerAssumption DEF HasModel, Alive, Request, ManagerAssumption, Entry
  <2>6. Handed(t)  BY <1>9, <2>4, <2>5 DEF Handed
  <2>7. QED  BY <1>1, <1>4, <1>6, <1>8, <2>3, <2>4, <2>6, ModestKeeps, LeavesLocks DEF Modest
<1>12. QED  BY <1>10, <1>11

LEMMA CloseItModels ==
  ASSUME ModelInv, NEW t \in Thread, CloseIt(t) PROVE ModelInv'
<1> USE Knows, Known
<1> PICK was : was = me[t]  OBVIOUS
<1> PICK b, g : b = me[t].on /\ g = me[t].g  OBVIOUS
<1>1. /\ at[t] = "closeIt" /\ Closing(t) /\ b \in Backends /\ g \in Entry
      /\ loaded' = loaded /\ table' = table /\ genLock' = genLock
  BY DEF CloseIt, Closing, ThreadOK
<1> PICK end \in {Dead, Empty} : worker' = [worker EXCEPT ![b][g] = end] /\ (worker[b][g] = Dead => end = Dead)
  BY <1>1 DEF CloseIt
<1>2. /\ \A c \in Backends, h \in Entry : (c # b \/ h # g) => worker'[c][h] = worker[c][h]
      /\ worker'[b][g] = end /\ end \notin Request
  BY <1>1, ManagerAssumption DEF TypeInv, Request, ManagerAssumption
<1>3. Gentle(t)  BY <1>1, <1>2 DEF Gentle
<1>4. hurt \subseteq hurt' /\ (HasModel(b, g) => Users(b) \subseteq hurt')
  <2>1. IF HasModel(b, g) THEN Hurt({b}) ELSE hurt' = hurt  BY DEF CloseIt
  <2>2. QED  BY <2>1, HurtIs
<1>5. \A c \in Backends : Steady(c) \/ Users(c) \subseteq hurt'
  <2>1. SUFFICES ASSUME NEW c \in Backends, ~(Users(c) \subseteq hurt') PROVE Steady(c)  OBVIOUS
  <2>2. table[c] # 0 => table[c] \in Entry  BY DEF TypeInv
  <2>3. QED  BY <1>1, <1>2, <1>4, <2>1, <2>2 DEF Steady, HasModel
<1>6. Warned(t)  BY <1>4, <1>5 DEF Warned
<1>7. was.ret = "headroom" => (t \in Jobs /\ t \notin hurt' => Served(was.b, was.want)')
  <2>1. SUFFICES ASSUME was.ret = "headroom", t \notin hurt' PROVE Served(was.b, was.want)'
    OBVIOUS
  <2>2. was.b \in Backends /\ Served(was.b, was.want) /\ t \in Users(was.b)
    BY <1>1, <1>4, <2>1, ClosingKnows
  <2>3. Steady(was.b)  BY <1>5, <2>1, <2>2
  <2>4. QED  BY <2>2, <2>3, SteadyServes
<1> DEFINE m == [was EXCEPT !.on = None, !.g = 0]
<1>8. m \in Locals /\ m.b = was.b /\ m.op = was.op /\ m.want = was.want  BY ZenonT(60) DEF Locals
<1>9. CarryOn(t, m, was.todo, was.ret)  BY DEF CloseIt
<1> HIDE DEF m
<1>10. Others(t)  BY <1>8, <1>9, CarryOnDoes
<1>11. Ends(t) /\ \A c \in was.todo : Answers(t, c, table[c])'
  BY <1>1, <1>7, <1>8, <1>9, ClosingKnows, CarryOnEnds
<1>12. Handed(t)
  <2>1. SUFFICES ASSUME NEW c \in Backends, NEW h \in Entry, HasModel(c, h)', ~Seen(c, h)', ~Answers(t, c, h)'
                 PROVE  HasModel(c, h) /\ ~Seen(c, h) /\ ~Answers(t, c, h) /\ table'[c] = table[c]
    BY DEF Handed
  <2>2. HasModel(c, h) /\ (c # b \/ h # g)  BY <1>2, <2>1 DEF HasModel
  <2>3. ~Seen(c, h)  BY <1>1, <2>1 DEF Seen
  <2>4. ~Answers(t, c, h)  BY <1>1, <1>11, <2>1, <2>2 DEF Answers
  <2>5. QED  BY <1>1, <2>2, <2>3, <2>4
<1>13. QED  BY <1>1, <1>3, <1>6, <1>10, <1>11, <1>12, CloseItKeeps, ModestKeeps, LeavesLocks DEF Modest

LEMMA ZeroEvictsModels ==
  ASSUME ModelInv, NEW t \in Thread, ZeroEvicts(t) PROVE ModelInv'
<1> USE Knows
<1> PICK bs \in SUBSET Backends : bs = {b \in Backends : Evictable(b)}  OBVIOUS
<1>1. CarryOn(t, me[t], bs, "next") /\ loaded' = Marked(bs)  BY DEF ZeroEvicts, Evict
<1>2. Others(t)  BY <1>1, CarryOnDoes DEF Ret
<1>3. Ends(t) /\ \A b \in bs : Answers(t, b, table[b])'  BY <1>1, CarryOnEnds DEF Ret
<1>4. \A c, g : ~Answers(t, c, g)  BY NoAnswers DEF ZeroEvicts
<1>5. Modest(t)  BY <1>1, <1>3, <1>4, EvictStep DEF ZeroEvicts, Evictable
<1>6. QED  BY <1>2, <1>3, <1>5, ModestKeeps, ZeroEvictsKeeps, LeavesLocks DEF ZeroEvicts

-----------------------------------------------------------------------------
(* ensure_loaded(). *)

LEMMA LookModels ==
  ASSUME ModelInv, NEW t \in Thread, NEW cold \in {"admit", "recheckVram"},
         at[t] \in {"ensure", "lockgen"}, Look(t, cold), UNCHANGED poolVars, NEW b, b = me[t].b,
         cold = "recheckVram" /\ at'[t] \in {"recheckVram", "closing"} => genLock'[b] = t
  PROVE  Others(t) /\ Modest(t) /\ Ends(t)
<1> USE Knows, Known
<1> PICK was : was = me[t]  OBVIOUS
<1> PICK kept : kept = IF Stale(b) THEN None ELSE loaded[b]  OBVIOUS
<1>1. /\ b \in Backends /\ was \in Locals /\ was.b = b /\ was.op # "respawn_hot" /\ was.todo = {}
      /\ t \in Jobs => was.op \in {"none", "generate"}
      /\ table' = table /\ worker' = worker
  BY DEF ThreadOK, Toward, OfBackend, UnderLock, Closing, poolVars
<1>2. \A c, g : ~Answers(t, c, g)  BY NoAnswers
<1>3. CASE Return(t) /\ UNCHANGED <<loaded, hurt>>
  <2>1. Others(t)  BY <1>3, ReturnDoes
  <2>2. Modest(t)  BY <1>2, <1>3, PrivateStep
  <2>3. QED  BY <1>3, <2>1, <2>2, ReturnEnds
<1>4. CASE /\ kept # None /\ ~Mismatch(kept, was.want) /\ Go(t, "pinned") /\ UNCHANGED <<me, loaded>>
           /\ hurt' = IF worker[b][table[b]] = kept THEN hurt ELSE hurt \cup {t}
  <2>1. Others(t) /\ at'[t] = "pinned" /\ me'[t] = was  BY <1>4, GoDoes DEF Label
  <2>2. Modest(t)  BY <1>2, <1>4, PrivateStep
  <2>3. UnderLock(t)'  BY <1>1, <2>1 DEF UnderLock, Toward, Closing, Loading
  <2>4. ASSUME t \notin hurt' PROVE Served(b, was.want)'
    <3>1. worker[b][table[b]] = kept /\ loaded[b] = kept /\ ~Stale(b)  BY <1>4, <2>4
    <3>2. table[b] # 0 /\ loaded[b] \in Request  BY <1>1, <1>4, <3>1 DEF Stale, Alive, TypeInv
    <3>3. was.want \in {AnyShape, kept}  BY <1>4 DEF Mismatch
    <3>4. QED  BY <1>1, <1>4, <3>1, <3>2, <3>3 DEF Served
  <2>5. t \in Jobs /\ t \notin hurt' => PinOK(t)'
    BY <1>1, <2>1, <2>4 DEF PinOK, Using, Toward, Closing
  <2>6. \A c \in Backends : ~Holds(t, c)'  BY <2>1 DEF Holds, Toward, Closing
  <2>7. QED  BY <2>1, <2>2, <2>3, <2>5, <2>6 DEF Ends
<1>5. CASE Evict(t, {b}, cold) /\ ref[b] = 0 /\ UNCHANGED hurt
  <2>1. CarryOn(t, was, {b}, cold) /\ loaded' = Marked({b})  BY <1>5 DEF Evict
  <2>2. {b} \in SUBSET Backends /\ cold \in Ret /\ cold # "headroom"  BY <1>1 DEF Ret
  <2>3. Others(t) /\ at'[t] \in {"closing", cold}
    BY <1>1, <2>1, <2>2, CarryOnDoes
  <2>4. loaded'[b] = None /\ (cold = "recheckVram" => genLock'[b] = t)  BY <1>1, <2>1, <2>3 DEF Marked
  <2>5. Ends(t) /\ \A c \in {b} : Answers(t, c, table[c])'
    BY <1>1, <2>1, <2>2, <2>4, CarryOnEnds
  <2>6. Modest(t)  BY <1>2, <1>5, <2>1, <2>2, <2>5, EvictStep
  <2>7. QED  BY <2>3, <2>5, <2>6
<1>6. CASE kept = None /\ loaded' = Marked({b}) /\ Go(t, cold) /\ UNCHANGED <<me, hurt>>
  <2>1. Others(t) /\ at'[t] = cold /\ me'[t] = was  BY <1>6, GoDoes DEF Label
  <2>2. loaded[b] = None \/ Stale(b)  BY <1>6
  <2>3. Modest(t)  BY <1>1, <1>2, <1>6, <2>2, EvictStep
  <2>4. loaded'[b] = None /\ (cold = "recheckVram" => genLock'[b] = t)
    BY <1>1, <1>6, <2>1 DEF Marked
  <2>5. UnderLock(t)'  BY <1>1, <2>1, <2>4 DEF UnderLock, Toward, Closing, Loading
  <2>6. PinOK(t)'  BY <2>1 DEF PinOK, Using, Toward, Closing
  <2>7. \A c \in Backends : Holds(t, c)' => genLock'[c] = t
    BY <1>1, <2>1, <2>4 DEF Holds, Toward, Closing
  <2>8. QED  BY <2>1, <2>3, <2>5, <2>6, <2>7 DEF Ends
<1>7. QED  BY <1>1, <1>3, <1>4, <1>5, <1>6 DEF Look

LEMMA EnsureModels ==
  ASSUME ModelInv, NEW t \in Thread, Ensure(t) PROVE ModelInv'
<1> PICK b : b = me[t].b  OBVIOUS
<1>1. Others(t) /\ Modest(t) /\ Ends(t)  BY LookModels DEF Ensure
<1>2. QED  BY <1>1, ModestKeeps, EnsureKeeps, LeavesLocks DEF Ensure, ModelInv

LEMMA RecheckModels ==
  ASSUME ModelInv, NEW t \in Thread, Recheck(t) PROVE ModelInv'
<1> USE Knows, Known
<1> PICK b : b = me[t].b  OBVIOUS
<1>1. b \in Backends  BY DEF Recheck, ThreadOK, Toward, OfBackend
<1>2. at'[t] \in {"recheckVram", "closing"} => genLock'[b] = t
  BY <1>1 DEF Recheck, Takes, TypeInv
<1>3. Others(t) /\ Modest(t) /\ Ends(t)  BY <1>2, LookModels DEF Recheck
<1>4. LockStep(t)  BY TakesOne DEF Recheck
<1>5. QED  BY <1>3, <1>4, ModestKeeps, RecheckKeeps

LEMMA AdmitModels ==
  ASSUME ModelInv, NEW t \in Thread, Admit(t) PROVE ModelInv'
<1> USE Knows, Known
<1>1. at[t] = "admit" /\ ManagerInv' /\ LockStep(t)  BY AdmitKeeps, LeavesLocks DEF Admit
<1>2. \A c, g : ~Answers(t, c, g)  BY <1>1, NoAnswers
<1>3. CASE Go(t, "readmit") /\ UNCHANGED <<loaded, me>>
  <2>1. Others(t) /\ at'[t] = "readmit" /\ me'[t] = me[t]  BY <1>3, GoDoes DEF Label
  <2>2. Ends(t)  BY <1>1, <2>1, AsideEnds DEF Aside, UnderLock, Closing
  <2>3. Modest(t)  BY <1>2, <1>3, PrivateStep DEF Admit
  <2>4. QED  BY <1>1, <2>1, <2>2, <2>3, ModestKeeps
<1>4. ASSUME NEW bs \in SUBSET Backends, NEW n, IsPlan(bs, n), Evict(t, bs, "readmit") PROVE ModelInv'
  <2>1. CarryOn(t, me[t], bs, "readmit") /\ loaded' = Marked(bs)  BY <1>4 DEF Evict
  <2>2. Others(t)  BY <2>1, CarryOnDoes DEF Ret
  <2>3. Ends(t) /\ \A b \in bs : Answers(t, b, table[b])'  BY <2>1, CarryOnEnds DEF Ret
  <2>4. Modest(t)  BY <1>2, <1>4, <2>1, <2>3, EvictStep DEF Admit, IsPlan, Evictable
  <2>5. QED  BY <1>1, <2>2, <2>3, <2>4, ModestKeeps
<1>5. QED  BY <1>3, <1>4 DEF Admit

LEMMA AdmittedModels ==
  ASSUME ModelInv, NEW t \in Thread, Admitted(t) PROVE ModelInv'
<1> USE Knows, Known
<1> PICK was : was = me[t]  OBVIOUS
<1> PICK b : b = me[t].b  OBVIOUS
<1> DEFINE m == [was EXCEPT !.polls = 0]
<1>1. /\ m.op = was.op /\ m.b = b /\ m.todo = was.todo /\ m.want = was.want
      /\ was.todo = {} /\ (t \in Jobs => was.op \in {"none", "generate"})
  BY DEF Locals, Admitted, Reading, UnderLock, Closing
<1>2. at[t] \in Reading /\ ManagerInv' /\ LockStep(t) /\ loaded' = loaded /\ genLock' = genLock
  BY AdmittedKeeps, LeavesLocks DEF Admitted
<1>3. \A c, g : ~Answers(t, c, g)  BY <1>2, NoAnswers DEF Reading
<1>4. Modest(t)  BY <1>3, PrivateStep DEF Admitted
<1>5. me' = [me EXCEPT ![t] = m]  BY DEF Admitted, Local, TypeInv
<1> HIDE DEF m
<1>6. CASE at[t] = "readmit"
  <2>1. Others(t) /\ at'[t] = "lockgen" /\ me'[t] = m  BY <1>5, <1>6, Moves DEF Admitted
  <2>2. Ends(t)  BY <1>1, <2>1, AsideEnds DEF Aside
  <2>3. QED  BY <1>2, <1>4, <2>1, <2>2, ModestKeeps
<1>7. CASE at[t] = "recheckVram"
  <2>1. Others(t) /\ at'[t] = "load" /\ me'[t] = m  BY <1>5, <1>7, Moves DEF Admitted
  <2>2. was.op # "respawn_hot" /\ loaded[b] = None /\ b \in Backends /\ Holds(t, b)
    BY <1>7 DEF ThreadOK, UnderLock, Toward, OfBackend, Holds
  <2>3. UnderLock(t)'  BY <1>1, <1>2, <2>1, <2>2 DEF UnderLock, Toward, Closing, Loading
  <2>4. PinOK(t)'  BY <2>1 DEF PinOK, Using, Toward, Closing
  <2>5. \A c \in Backends : Holds(t, c)' => genLock'[c] = t
    BY ZenonT(60), <1>1, <1>2, <2>1, <2>2 DEF Holds, ModelInv, Exclusive
  <2>6. Ends(t)  BY <2>3, <2>4, <2>5 DEF Ends
  <2>7. QED  BY <1>2, <1>4, <2>1, <2>6, ModestKeeps
<1>8. QED  BY <1>2, <1>6, <1>7 DEF Reading

LEMMA PollModels ==
  ASSUME ModelInv, NEW t \in Thread, Poll(t) PROVE ModelInv'
<1> USE Knows, Known
<1> PICK was : was = me[t]  OBVIOUS
<1> PICK b : b = me[t].b  OBVIOUS
<1> PICK bs \in SUBSET Backends : bs = {c \in Backends : Evictable(c)}  OBVIOUS
<1> PICK ret : ret = at[t]  OBVIOUS
<1> DEFINE m == [was EXCEPT !.polls = @ + 1]
<1>1. m \in Locals /\ m.op = was.op /\ m.b = b  BY DEF Locals
<1>2. /\ ret \in Reading /\ ManagerInv' /\ LockStep(t) /\ loaded' = Marked(bs) /\ genLock' = genLock
      /\ CarryOn(t, m, bs, ret)
  BY PollKeeps, LeavesLocks DEF Poll
<1> HIDE DEF m
<1>3. \A c, g : ~Answers(t, c, g)  BY <1>2, NoAnswers DEF Reading
<1>4. Others(t)  BY <1>1, <1>2, CarryOnDoes DEF Reading, Ret
<1>5. ret = "recheckVram" => (m.op # "respawn_hot" => loaded'[m.b] = None) /\ genLock'[m.b] = t
  <2>1. SUFFICES ASSUME ret = "recheckVram" PROVE loaded'[b] = None /\ genLock'[b] = t  BY <1>1
  <2>2. loaded[b] = None /\ b \in Backends /\ Holds(t, b)
    BY <2>1 DEF ThreadOK, UnderLock, Toward, OfBackend, Holds
  <2>3. QED  BY <1>2, <2>2 DEF Marked, ModelInv, Exclusive
<1>6. Ends(t) /\ \A c \in bs : Answers(t, c, table[c])'
  BY <1>1, <1>2, <1>5, CarryOnEnds DEF Reading, Ret
<1>7. Modest(t)  BY <1>2, <1>3, <1>6, EvictStep DEF Poll, Evictable
<1>8. QED  BY <1>2, <1>4, <1>6, <1>7, ModestKeeps

LEMMA InsufficientModels ==
  ASSUME ModelInv, NEW t \in Thread, Insufficient(t) PROVE ModelInv'
<1> USE Knows
<1>1. Others(t) /\ Ends(t)  BY ReturnDoes, ReturnEnds DEF Insufficient
<1>2. \A c, g : ~Answers(t, c, g)  BY NoAnswers DEF Insufficient, Reading
<1>3. Modest(t)  BY <1>2, PrivateStep DEF Insufficient
<1>4. LockStep(t)  BY ReleasesOwn DEF Insufficient
<1>5. QED  BY <1>1, <1>3, <1>4, ModestKeeps, InsufficientKeeps

-----------------------------------------------------------------------------
(* A load, under gen_lock. *)

\* Others that use a backend under a thread's gen_lock have a model there.
LEMMA SharersAreServed ==
  ASSUME ModelInv, NEW b \in Backends, NEW t \in Thread, Holds(t, b),
         NEW u \in Users(b) \ {t}, u \notin hurt
  PROVE  Served(b, me[u].want)
<1>1. u \in Jobs /\ u \in Thread /\ me[u].b = b /\ PinOK(u)  BY DEF Users, Thread, ModelInv
<1>2. genLock[b] = t  BY DEF ModelInv, Exclusive
<1>3. ~Holds(u, b)  BY <1>1, <1>2 DEF ModelInv, Exclusive
<1>4. Using(u)  BY <1>1, <1>3 DEF Users, Needs, Using, Toward, Closing, Holds
<1>5. QED  BY <1>1, <1>4 DEF PinOK

LEMMA LoadLooksUpModels ==
  ASSUME ModelInv, NEW t \in Thread, LoadLooksUp(t) PROVE ModelInv'
<1> USE Knows, Known
<1> PICK was : was = me[t]  OBVIOUS
<1> PICK b : b = me[t].b  OBVIOUS
<1> DEFINE new == IF table[b] # 0 THEN table[b] ELSE CHOOSE h \in Unused(b) : TRUE
<1> PICK g : g = new  OBVIOUS
<1>1. /\ at[t] = "load" /\ b \in Backends /\ Holds(t, b) /\ genLock[b] = t
      /\ loaded' = loaded /\ worker' = worker /\ genLock' = genLock /\ hurt' = hurt
      /\ was.todo = {} /\ (t \in Jobs => was.op \in {"none", "generate"})
  BY DEF LoadLooksUp, ThreadOK, Toward, OfBackend, Holds, ModelInv, Exclusive, UnderLock, Closing
<1>2. /\ table' = [table EXCEPT ![b] = g] /\ me' = [me EXCEPT ![t].on = b, ![t].g = g] /\ Go(t, "loading")
      /\ table[b] = 0 => g \in Unused(b)
      /\ table[b] # 0 => g = table[b]
  BY DEF LoadLooksUp
<1> HIDE DEF new
<1>3. /\ g \in Entry /\ table'[b] = g /\ (table[b] = 0 => worker[b][g] = Dead)
      /\ \A c \in Backends : c # b \/ table[b] # 0 => table'[c] = table[c]
  BY <1>1, <1>2 DEF TypeInv, Unused
<1> DEFINE m == [was EXCEPT !.on = b, !.g = g]
<1>4. m.op = was.op /\ m.b = b /\ m.g = g /\ m.todo = was.todo  BY DEF Locals
<1>5. me' = [me EXCEPT ![t] = m]  BY <1>2 DEF TypeInv
<1> HIDE DEF m
<1>6. Others(t) /\ at'[t] = "loading" /\ me'[t] = m  BY <1>2, <1>5, Moves
<1>7. Gentle(t)  BY <1>1, <1>3 DEF Gentle
<1>8. Handed(t)
  <2>1. SUFFICES ASSUME NEW c \in Backends, NEW h \in Entry, HasModel(c, h)', ~Seen(c, h)'
                 PROVE  HasModel(c, h) /\ ~Seen(c, h) /\ ~Answers(t, c, h) /\ (table'[c] = table[c] \/ h # table[c])
    BY DEF Handed
  <2>2. HasModel(c, h) /\ h # 0  BY <1>1, <2>1 DEF HasModel, Entry
  <2>3. c = b /\ table[b] = 0 => h # g
    BY <1>3, <2>2, ManagerAssumption DEF HasModel, Request, ManagerAssumption
  <2>4. ~Seen(c, h)  BY <1>1, <1>3, <2>1, <2>2, <2>3 DEF Seen
  <2>5. ~Answers(t, c, h)  BY <1>1, NoAnswers
  <2>6. QED  BY <1>3, <2>2, <2>4, <2>5
<1>9. Warned(t)
  <2>1. ASSUME NEW u \in Users(b) \ {t}, u \notin hurt PROVE table[b] # 0
    BY <1>1, <2>1, SharersAreServed DEF Served
  <2>2. CASE table[b] # 0  BY <1>1, <1>3, <2>2 DEF Warned, Steady
  <2>3. CASE table[b] = 0
    <3>1. \A c \in Backends \ {b} : Steady(c)  BY <1>1, <1>3 DEF Steady
    <3>2. Users(b) \ {t} \subseteq hurt  BY <2>1, <2>3
    <3>3. QED  BY <1>1, <3>1, <3>2 DEF Warned
  <2>4. QED  BY <2>2, <2>3
<1>10. was.op # "respawn_hot" => loaded[b] = None
  BY <1>1 DEF UnderLock, Loading
<1>11. was.op = "respawn_hot" => table[b] = 0  BY <1>1 DEF UnderLock
<1>12. UnderLock(t)'
  BY <1>1, <1>3, <1>4, <1>6, <1>10, <1>11 DEF UnderLock, Toward, Closing
<1>13. PinOK(t)'  BY <1>3, <1>4, <1>6 DEF PinOK, Using, Toward, Closing
<1>14. \A c \in Backends : Holds(t, c)' => genLock'[c] = t  BY <1>1, <1>4, <1>6 DEF Holds
<1>15. QED
  BY <1>1, <1>6, <1>7, <1>8, <1>9, <1>12, <1>13, <1>14, LoadLooksUpKeeps, LeavesLocks, ModestKeeps
  DEF Modest, Ends

LEMMA LoadsModels ==
  ASSUME ModelInv, NEW t \in Thread, Loads(t) PROVE ModelInv'
<1> USE Knows, Known
<1> PICK was : was = me[t]  OBVIOUS
<1> PICK b, g : b = me[t].b /\ g = me[t].g  OBVIOUS
<1> PICK want : want = IF was.op = "respawn_hot" THEN was.saved ELSE was.want  OBVIOUS
<1> PICK end \in {want, Dead, Empty} :
      /\ worker' = [worker EXCEPT ![b][g] = end]
      /\ \/ end = want /\ Go(t, "mark") /\ UNCHANGED <<me, genLock>>
         \/ end \in {Dead, Empty} /\ Return(t) /\ Release(t)
  BY DEF Loads
<1>1. /\ at[t] = "loading" /\ b \in Backends /\ g \in Entry /\ Holds(t, b) /\ genLock[b] = t
      /\ loaded' = loaded /\ table' = table /\ hurt' = hurt /\ want \in Request
      /\ was.todo = {} /\ (t \in Jobs => was.op \in {"none", "generate"})
      /\ b \in KillOnEvict \/ g = table[b]
  BY ZenonT(60) DEF Loads, ThreadOK, Toward, OfBackend, Holds, ModelInv, Exclusive, UnderLock, Closing, Request
<1>2. /\ worker'[b][g] = end
      /\ \A c \in Backends, h \in Entry : (c # b \/ h # g) => worker'[c][h] = worker[c][h]
  BY <1>1 DEF TypeInv
<1>3. was.op # "respawn_hot" => loaded[b] = None  BY <1>1 DEF UnderLock, Loading
<1>4. was.op = "respawn_hot" => worker[b][g] = Dead /\ table[b] \in {0, g}  BY <1>1 DEF UnderLock
<1>5. Gentle(t)  BY <1>1, <1>2 DEF Gentle
<1>6. Warned(t)
  <2>1. ASSUME NEW u \in Users(b) \ {t}, u \notin hurt PROVE FALSE
    <3>1. Served(b, me[u].want)  BY <1>1, <2>1, SharersAreServed
    <3>2. QED
      BY <1>3, <1>4, <3>1, ManagerAssumption DEF Served, Request, ManagerAssumption
  <2>2. \A c \in Backends \ {b} : Steady(c)  BY <1>1, <1>2 DEF Steady, TypeInv
  <2>3. QED  BY <1>1, <2>1, <2>2 DEF Warned
<1>7. \A c \in Backends, h \in Entry : HasModel(c, h)' /\ (c # b \/ h # g) =>
        Seen(c, h)' \/ (HasModel(c, h) /\ ~Seen(c, h) /\ ~Answers(t, c, h) /\ table'[c] = table[c])
  BY <1>1, <1>2 DEF HasModel, Seen, Answers
<1>8. CASE end = want /\ Go(t, "mark") /\ UNCHANGED <<me, genLock>>
  <2>1. Others(t) /\ at'[t] = "mark" /\ me'[t] = was  BY <1>8, GoDoes DEF Label
  <2>2. Answers(t, b, g)'  BY <2>1 DEF Answers
  <2>3. Handed(t)  BY <1>7, <2>2 DEF Handed
  <2>4. UnderLock(t)'  BY <1>1, <1>3, <2>1 DEF UnderLock, Toward, Closing
  <2>5. t \in Jobs /\ t \notin hurt' => PinOK(t)'
    BY <1>1, <1>2, <1>8, <2>1 DEF PinOK, Using, Toward, Closing
  <2>6. \A c \in Backends : Holds(t, c)' => genLock'[c] = t  BY <1>1, <1>8, <2>1 DEF Holds
  <2>7. QED
    BY <1>5, <1>6, <1>8, <2>1, <2>3, <2>4, <2>5, <2>6, LoadsKeeps, LeavesLocks, ModestKeeps DEF Modest, Ends
<1>9. CASE end \in {Dead, Empty} /\ Return(t) /\ Release(t)
  <2>1. Others(t) /\ Ends(t) /\ LockStep(t)  BY <1>9, ReturnDoes, ReturnEnds, ReleasesOwn
  <2>2. ~HasModel(b, g)'
    BY <1>2, <1>9, ManagerAssumption DEF HasModel, Request, ManagerAssumption
  <2>3. Handed(t)  BY <1>7, <2>2 DEF Handed
  <2>4. QED  BY <1>5, <1>6, <2>1, <2>3, LoadsKeeps, ModestKeeps DEF Modest
<1>10. QED  BY <1>8, <1>9

LEMMA MarkLoadedModels ==
  ASSUME ModelInv, NEW t \in Thread, MarkLoaded(t) PROVE ModelInv'
<1> USE Knows, Known
<1> PICK was : was = me[t]  OBVIOUS
<1> PICK b, g : b = me[t].b /\ g = me[t].g  OBVIOUS
<1> PICK want : want = IF was.op = "respawn_hot" THEN was.saved ELSE was.want  OBVIOUS
<1>1. /\ at[t] = "mark" /\ b \in Backends /\ g \in Entry /\ Holds(t, b) /\ genLock[b] = t
      /\ loaded' = [loaded EXCEPT ![b] = want] /\ table' = table /\ worker' = worker /\ hurt' = hurt
      /\ want \in Request /\ was.todo = {} /\ LockStep(t)
      /\ b \in KillOnEvict \/ g = table[b]
  BY ReleasesOwn DEF MarkLoaded, ThreadOK, Toward, OfBackend, Holds, ModelInv, Exclusive, UnderLock,
     Closing, Request, poolVars
<1>2. want # None /\ loaded'[b] = want /\ \A c \in Backends \ {b} : loaded'[c] = loaded[c]
  BY <1>1, ManagerAssumption DEF TypeInv, Request, ManagerAssumption
<1>3. Gentle(t)  BY <1>1, <1>2 DEF Gentle
<1>4. Warned(t)  BY <1>1, <1>2 DEF Warned, Steady
<1>5. Handed(t)
  <2>1. SUFFICES ASSUME NEW c \in Backends, NEW h \in Entry, HasModel(c, h)', ~Seen(c, h)'
                 PROVE  HasModel(c, h) /\ ~Seen(c, h) /\ ~Answers(t, c, h)
    BY <1>1 DEF Handed
  <2>2. HasModel(c, h)  BY <1>1, <2>1 DEF HasModel
  <2>3. ~Seen(c, h)  BY <1>1, <1>2, <2>1 DEF Seen
  <2>4. c # b \/ h # g  BY <1>1, <1>2, <2>1 DEF Seen
  <2>5. ~Answers(t, c, h)  BY <1>1, <2>4 DEF Answers
  <2>6. QED  BY <2>2, <2>3, <2>5
<1>6. CASE was.op = "generate"
  <2> DEFINE m == [was EXCEPT !.on = None, !.g = 0]
  <2>1. m.op = was.op /\ m.b = b /\ m.want = was.want /\ m.todo = was.todo  BY DEF Locals
  <2>2. Go(t, "pinned") /\ me' = [me EXCEPT ![t] = m]  BY <1>6 DEF MarkLoaded, TypeInv
  <2> HIDE DEF m
  <2>3. Others(t) /\ at'[t] = "pinned" /\ me'[t] = m  BY <2>2, Moves
  <2>4. UnderLock(t)'  BY <1>1, <1>6, <2>1, <2>3 DEF UnderLock, Toward, Closing, Loading
  <2>5. t \in Jobs /\ t \notin hurt' => PinOK(t)'
    <3>1. SUFFICES ASSUME t \in Jobs, t \notin hurt PROVE PinOK(t)'  BY <1>1
    <3>2. table[b] = g /\ worker[b][g] = was.want  BY <1>1, <3>1 DEF PinOK
    <3>3. Served(b, was.want)'  BY <1>1, <1>2, <1>6, <3>2 DEF Served, Entry
    <3>4. QED  BY <2>1, <2>3, <3>3 DEF PinOK, Using, Toward, Closing
  <2>6. \A c \in Backends : ~Holds(t, c)'  BY <2>3 DEF Holds, Toward, Closing
  <2>7. Ends(t)  BY <2>4, <2>5, <2>6 DEF Ends
  <2>8. QED  BY <1>1, <1>3, <1>4, <1>5, <2>3, <2>7, MarkLoadedKeeps, ModestKeeps DEF Modest
<1>7. CASE was.op # "generate"
  <2>1. Others(t) /\ Ends(t)  BY <1>7, ReturnDoes, ReturnEnds DEF MarkLoaded
  <2>2. QED  BY <1>1, <1>3, <1>4, <1>5, <2>1, MarkLoadedKeeps, ModestKeeps DEF Modest
<1>8. QED  BY <1>6, <1>7

-----------------------------------------------------------------------------
(* generate() once its backend is pinned. *)

LEMMA PinnedModels ==
  ASSUME ModelInv, NEW t \in Thread, Pinned(t) PROVE ModelInv'
<1> USE Knows, Known
<1> PICK was : was = me[t]  OBVIOUS
<1> PICK b : b = me[t].b  OBVIOUS
<1>1. /\ at[t] = "pinned" /\ ManagerInv' /\ LockStep(t) /\ table' = table /\ worker' = worker /\ hurt' = hurt
      /\ was.todo = {} /\ was.op = "generate" /\ b \in Backends /\ t \in Jobs
      /\ t \notin hurt => Served(b, was.want)
  BY PinnedKeeps, LeavesLocks
  DEF Pinned, poolVars, UnderLock, Closing, ThreadOK, Toward, PinLabel, OfBackend, PinOK, Using
<1>2. \A c, g : ~Answers(t, c, g)  BY <1>1, NoAnswers
<1>3. ASSUME NEW l \in {"finally", "lockgen2"}, Go(t, l), UNCHANGED <<loaded, me>> PROVE ModelInv'
  <2>1. Others(t) /\ at'[t] = l /\ me'[t] = was  BY <1>3, GoDoes DEF Label
  <2>2. Modest(t)  BY <1>1, <1>2, <1>3, PrivateStep DEF poolVars
  <2>3. UnderLock(t)'  BY <1>1, <2>1 DEF UnderLock, Toward, Closing, Loading
  <2>4. t \notin hurt => Served(b, was.want)'  BY <1>1, <1>3 DEF Served
  <2>5. t \notin hurt' => PinOK(t)'  BY <1>1, <2>1, <2>4 DEF PinOK, Using, Toward, Closing
  <2>6. \A c \in Backends : ~Holds(t, c)'  BY <2>1 DEF Holds, Toward, Closing
  <2>7. QED  BY <1>1, <2>1, <2>2, <2>3, <2>5, <2>6, ModestKeeps DEF Ends
<1>4. ASSUME NEW victims \in SUBSET Backends, NEW n, IsPlan(victims, n), Evict(t, victims \ {b}, "headroom")
      PROVE  ModelInv'
  <2> PICK bs \in SUBSET Backends : bs = victims \ {b}  OBVIOUS
  <2>1. CarryOn(t, was, bs, "headroom") /\ loaded' = Marked(bs)  BY <1>4 DEF Evict
  <2>2. Others(t)  BY <2>1, CarryOnDoes DEF Ret
  <2>3. t \notin hurt' => Served(b, was.want)'  BY <1>1, <2>1 DEF Served, Marked
  <2>4. Ends(t) /\ \A c \in bs : Answers(t, c, table[c])'
    BY <1>1, <2>1, <2>3, CarryOnEnds DEF Ret
  <2>5. Modest(t)  BY <1>1, <1>2, <1>4, <2>1, <2>4, EvictStep DEF IsPlan, Evictable, poolVars
  <2>6. QED  BY <1>1, <2>2, <2>4, <2>5, ModestKeeps
<1>5. QED  BY <1>3, <1>4 DEF Pinned

LEMMA HeadroomModels ==
  ASSUME ModelInv, NEW t \in Thread, Headroom(t) PROVE ModelInv'
<1> USE Knows, Known
<1> PICK was : was = me[t]  OBVIOUS
<1> PICK b : b = me[t].b  OBVIOUS
<1> PICK l \in {"finally", "lockgen2"} : Go(t, l)  BY DEF Headroom
<1>1. /\ at[t] = "headroom" /\ me' = me /\ loaded' = loaded /\ table' = table /\ worker' = worker /\ hurt' = hurt
      /\ was.todo = {} /\ was.op = "generate" /\ b \in Backends /\ t \in Jobs
      /\ t \notin hurt => Served(b, was.want)
  BY DEF Headroom, poolVars, UnderLock, Closing, ThreadOK, Toward, PinLabel, OfBackend, PinOK, Using
<1>2. Others(t) /\ at'[t] = l /\ me'[t] = was  BY <1>1, GoDoes DEF Label
<1>3. \A c, g : ~Answers(t, c, g)  BY <1>1, NoAnswers
<1>4. Modest(t)  BY <1>1, <1>3, PrivateStep DEF poolVars
<1>5. UnderLock(t)'  BY <1>1, <1>2 DEF UnderLock, Toward, Closing, Loading
<1>6. t \notin hurt => Served(b, was.want)'  BY <1>1 DEF Served
<1>7. t \notin hurt' => PinOK(t)'  BY <1>1, <1>2, <1>6 DEF PinOK, Using, Toward, Closing
<1>8. \A c \in Backends : ~Holds(t, c)'  BY <1>2 DEF Holds, Toward, Closing
<1>9. Ends(t)  BY <1>5, <1>7, <1>8 DEF Ends
<1>10. QED  BY <1>2, <1>4, <1>9, HeadroomKeeps, LeavesLocks, ModestKeeps DEF Headroom

LEMMA GenerateLooksUpModels ==
  ASSUME ModelInv, NEW t \in Thread, GenerateLooksUp(t) PROVE ModelInv'
<1> USE Knows, Known
<1> PICK was : was = me[t]  OBVIOUS
<1> PICK b : b = me[t].b  OBVIOUS
<1>1. /\ at[t] = "lockgen2" /\ loaded' = loaded /\ table' = table /\ worker' = worker /\ hurt' = hurt
      /\ was.todo = {} /\ was.op = "generate" /\ b \in Backends /\ t \in Jobs
      /\ t \notin hurt => Served(b, was.want)
      /\ Takes(t, Alive(b)) /\ (Alive(b) => genLock'[b] = t)
  BY DEF GenerateLooksUp, poolVars, UnderLock, Closing, ThreadOK, Toward, PinLabel, OfBackend, PinOK, Using,
         Takes, TypeInv
<1>2. LockStep(t)  BY <1>1, TakesOne
<1>3. \A c, g : ~Answers(t, c, g)  BY <1>1, NoAnswers
<1>4. Modest(t)  BY <1>1, <1>3, PrivateStep DEF poolVars
<1>5. CASE Alive(b)
  <2> DEFINE m == [was EXCEPT !.on = b, !.g = table[b]]
  <2>1. m.op = was.op /\ m.b = b /\ m.want = was.want /\ m.todo = was.todo /\ m.g = table[b]  BY DEF Locals
  <2>2. Go(t, "generating") /\ me' = [me EXCEPT ![t] = m]  BY <1>5 DEF GenerateLooksUp, TypeInv
  <2> HIDE DEF m
  <2>3. Others(t) /\ at'[t] = "generating" /\ me'[t] = m  BY <2>2, Moves
  <2>4. UnderLock(t)'  BY <1>1, <2>1, <2>3 DEF UnderLock, Toward, Closing, Loading
  <2>5. t \notin hurt => Served(b, was.want)'  BY <1>1 DEF Served
  <2>6. t \notin hurt' => PinOK(t)'
    BY <1>1, <2>1, <2>3, <2>5 DEF PinOK, Using, Toward, Closing
  <2>7. \A c \in Backends : Holds(t, c)' => genLock'[c] = t  BY <1>1, <1>5, <2>1, <2>3 DEF Holds
  <2>8. Ends(t)  BY <2>4, <2>6, <2>7 DEF Ends
  <2>9. QED  BY <1>2, <1>4, <2>3, <2>8, GenerateLooksUpKeeps, ModestKeeps
<1>6. CASE ~Alive(b)
  <2> DEFINE m == [was EXCEPT !.fail = TRUE]
  <2>1. m.op = was.op /\ m.todo = was.todo  BY DEF Locals
  <2>2. Go(t, "finally") /\ me' = [me EXCEPT ![t] = m]  BY <1>6 DEF GenerateLooksUp, Local, TypeInv
  <2> HIDE DEF m
  <2>3. Others(t) /\ at'[t] = "finally" /\ me'[t] = m  BY <2>2, Moves
  <2>4. Ends(t)  BY <1>1, <2>1, <2>3, AsideEnds DEF Aside
  <2>5. QED  BY <1>2, <1>4, <2>3, <2>4, GenerateLooksUpKeeps, ModestKeeps
<1>7. QED  BY <1>5, <1>6

LEMMA GeneratesModels ==
  ASSUME ModelInv, NEW t \in Thread, Generates(t) PROVE ModelInv'
<1> USE Knows, Known
<1> PICK was : was = me[t]  OBVIOUS
<1> PICK b, g : b = me[t].b /\ g = me[t].g  OBVIOUS
<1> PICK left \in {worker[b][g], Dead}, fail \in BOOLEAN :
      /\ worker' = [worker EXCEPT ![b][g] = left]
      /\ IF HasModel(b, g) /\ left = Dead THEN Hurt({b}) ELSE UNCHANGED hurt
      /\ me' = [me EXCEPT ![t].on = None, ![t].g = 0, ![t].fail = fail]
  BY DEF Generates
<1>1. /\ at[t] = "generating" /\ b \in Backends /\ g \in Entry /\ Go(t, "finally") /\ LockStep(t)
      /\ loaded' = loaded /\ table' = table
      /\ was.todo = {} /\ was.op = "generate"
  BY ReleasesOwn DEF Generates, ThreadOK, Toward, OfBackend, PinLabel, UnderLock, Closing
<1>2. /\ worker'[b][g] = left
      /\ \A c \in Backends, h \in Entry : (c # b \/ h # g) => worker'[c][h] = worker[c][h]
  BY <1>1 DEF TypeInv
<1>3. Gentle(t)  BY <1>1, <1>2 DEF Gentle
<1>4. hurt \subseteq hurt' /\ (HasModel(b, g) /\ left = Dead => Users(b) \subseteq hurt')  BY HurtIs
<1>5. Warned(t)
  <2>1. SUFFICES ASSUME NEW c \in Backends, ~(Users(c) \subseteq hurt') PROVE Steady(c)
    BY <1>4 DEF Warned
  <2>2. table[c] # 0 => table[c] \in Entry  BY DEF TypeInv
  <2>3. QED  BY <1>1, <1>2, <1>4, <2>1, <2>2 DEF Steady, HasModel
<1>6. Handed(t)
  <2>1. \A c \in Backends, h \in Entry : HasModel(c, h)' => HasModel(c, h)
    BY <1>2, ManagerAssumption DEF HasModel, Request, ManagerAssumption
  <2>2. \A c, h : ~Answers(t, c, h)  BY <1>1, NoAnswers
  <2>3. QED  BY <1>1, <2>1, <2>2 DEF Handed, Seen
<1> DEFINE m == [was EXCEPT !.on = None, !.g = 0, !.fail = fail]
<1>7. m.op = was.op /\ m.todo = was.todo /\ me' = [me EXCEPT ![t] = m]  BY DEF Locals, TypeInv
<1> HIDE DEF m
<1>8. Others(t) /\ at'[t] = "finally" /\ me'[t] = m  BY ZenonT(60), <1>1, <1>7, Moves
<1>9. Ends(t)  BY <1>1, <1>7, <1>8, AsideEnds DEF Aside
<1>10. QED  BY <1>1, <1>3, <1>5, <1>6, <1>8, <1>9, GeneratesKeeps, ModestKeeps DEF Modest

LEMMA FinallyModels ==
  ASSUME ModelInv, NEW t \in Thread, Finally(t) PROVE ModelInv'
<1> USE Knows, Known
<1> PICK was : was = me[t]  OBVIOUS
<1> PICK b : b = me[t].b  OBVIOUS
<1>1. /\ at[t] = "finally" /\ b \in Backends /\ t \in Jobs /\ was.op = "generate"
      /\ ManagerInv' /\ LockStep(t) /\ UNCHANGED <<poolVars, hurt>>
  BY FinallyKeeps, LeavesLocks DEF Finally, ThreadOK, Toward, OfBackend, PinLabel
<1>2. \A c, g : ~Answers(t, c, g)  BY <1>1, NoAnswers
<1>3. CASE loaded[b] # None /\ Unpin(ref[b]) = 0 /\ Evict(t, {b}, "idle")
  <2>1. CarryOn(t, was, {b}, "idle") /\ loaded' = Marked({b})  BY <1>3 DEF Evict
  <2>2. {b} \in SUBSET Backends  BY <1>1
  <2>3. Others(t)  BY <2>1, <2>2, CarryOnDoes DEF Ret
  <2>4. Ends(t) /\ \A c \in {b} : Answers(t, c, table[c])'
    BY <1>1, <2>1, <2>2, CarryOnEnds DEF Ret
  <2>5. Users(b) \subseteq {t}
    <3>1. SUFFICES ASSUME NEW u \in Users(b), u # t PROVE FALSE  OBVIOUS
    <3>2. u \in Jobs /\ u \in Thread /\ me[u].b = b /\ UnderLock(u)  BY DEF Users, Thread, ModelInv
    <3>3. CASE at[u] \in {"loading", "mark"}  BY <1>3, <3>2, <3>3 DEF UnderLock, Loading
    <3>4. CASE at[u] \notin {"loading", "mark"}
      <4>1. t \in Pinning(b) /\ u \in Pinning(b) \ {t}
        BY <1>1, <3>1, <3>2, <3>4 DEF Users, Needs, Pinning
      <4>2. IsFiniteSet(Pinning(b)) /\ IsFiniteSet(Pinning(b) \ {t})  BY FiniteJobs, FS_Subset
      <4>3. Cardinality(Pinning(b) \ {t}) = Cardinality(Pinning(b)) - 1
        BY <4>1, <4>2, FS_RemoveElement
      <4>4. ref[b] = Cardinality(Pinning(b)) /\ ref[b] \in Nat
        BY <1>1 DEF ModelInv, ManagerInv, PinsAreCounted, TypeInv
      <4>5. Cardinality(Pinning(b) \ {t}) \in Nat  BY <4>2, FS_CardinalityType
      <4>6. Cardinality(Pinning(b) \ {t}) = 0  BY <1>3, <4>3, <4>4, <4>5 DEF Unpin
      <4>7. QED  BY <4>1, <4>2, <4>6, FS_EmptySet
    <3>5. QED  BY <3>3, <3>4
  <2>6. Modest(t)  BY <1>1, <1>2, <2>1, <2>2, <2>4, <2>5, EvictStep
  <2>7. QED  BY <1>1, <2>3, <2>4, <2>6, ModestKeeps
<1>4. CASE Return(t) /\ UNCHANGED loaded
  <2>1. Others(t) /\ Ends(t)  BY <1>4, ReturnDoes, ReturnEnds
  <2>2. Modest(t)  BY <1>1, <1>2, <1>4, PrivateStep
  <2>3. QED  BY <1>1, <2>1, <2>2, ModestKeeps
<1>5. QED  BY <1>3, <1>4 DEF Finally

-----------------------------------------------------------------------------
(* Ending workers. *)

LEMMA VisitModels ==
  ASSUME ModelInv, NEW t \in Thread, NEW b \in Backends, Visit(t, b) PROVE ModelInv'
<1> USE Knows, Known
<1> PICK was : was = me[t]  OBVIOUS
<1>1. at[t] = "next" /\ was.todo = {} /\ (t \in Jobs => was.op \in {"none", "generate"}) /\ LockStep(t)
  BY LeavesLocks DEF Visit, UnderLock, Closing
<1>2. Others(t) /\ Ends(t)
  <2>1. CASE Go(t, "trylock") /\ me' = [me EXCEPT ![t].b = b, ![t].left = @ \ {b}]
    <3> DEFINE m == [was EXCEPT !.b = b, !.left = @ \ {b}]
    <3>1. m.op = was.op /\ m.todo = was.todo /\ me' = [me EXCEPT ![t] = m]  BY <2>1 DEF Locals, TypeInv
    <3> HIDE DEF m
    <3>2. Others(t) /\ at'[t] = "trylock" /\ me'[t] = m  BY <2>1, <3>1, Moves
    <3>3. QED  BY <1>1, <3>1, <3>2, AsideEnds DEF Aside
  <2>2. CASE GoOn(t, was.left \ {b})
    <3>1. was.left \ {b} \in SUBSET Backends  OBVIOUS
    <3>2. QED  BY <1>1, <2>2, <3>1, GoOnDoes, GoOnEnds DEF Closing
  <2>3. QED  BY <2>1, <2>2 DEF Visit
<1>3. \A c, g : ~Answers(t, c, g)  BY <1>1, NoAnswers
<1>4. Modest(t)  BY <1>3, PrivateStep DEF Visit
<1>5. QED  BY <1>1, <1>2, <1>4, VisitKeeps, ModestKeeps

LEMMA NothingLeftModels ==
  ASSUME ModelInv, NEW t \in Thread, NothingLeft(t) PROVE ModelInv'
<1> USE Knows
<1>1. Others(t) /\ Ends(t)  BY ReturnDoes, ReturnEnds DEF NothingLeft
<1>2. \A c, g : ~Answers(t, c, g)  BY NoAnswers DEF NothingLeft
<1>3. Modest(t)  BY <1>2, PrivateStep DEF NothingLeft
<1>4. QED  BY <1>1, <1>3, NothingLeftKeeps, LeavesLocks, ModestKeeps DEF NothingLeft

LEMMA LockTakenModels ==
  ASSUME ModelInv, NEW t \in Thread, LockTaken(t) PROVE ModelInv'
<1> USE Knows, Known
<1> PICK left \in SUBSET Backends : left = me[t].left  OBVIOUS
<1>1. GoOn(t, left) /\ ~Closing(t)  BY DEF LockTaken, Closing
<1>2. Others(t) /\ Ends(t)  BY <1>1, GoOnDoes, GoOnEnds
<1>3. \A c, g : ~Answers(t, c, g)  BY NoAnswers DEF LockTaken
<1>4. Modest(t)  BY <1>3, PrivateStep DEF LockTaken
<1>5. QED  BY <1>2, <1>4, LockTakenKeeps, LeavesLocks, ModestKeeps DEF LockTaken

LEMMA KillLooksUpModels ==
  ASSUME ModelInv, NEW t \in Thread, KillLooksUp(t) PROVE ModelInv'
<1> USE Knows, Known
<1> PICK was : was = me[t]  OBVIOUS
<1> PICK b : b = me[t].b  OBVIOUS
<1> PICK g : g = table[b]  OBVIOUS
<1>1. /\ at[t] \in {"trylock", "rlock"} /\ b \in Backends /\ was.todo = {} /\ loaded' = loaded /\ worker' = worker
      /\ Takes(t, g # 0 \/ Respawning(t)) /\ genLock[b] = None /\ table' = [table EXCEPT ![b] = 0]
      /\ (t \in Jobs => was.op \in {"none", "generate"})
      /\ hurt \subseteq hurt' /\ (g # 0 => Users(b) \subseteq hurt')
  BY HurtIs DEF KillLooksUp, Takes, ThreadOK, Toward, OfBackend, UnderLock, Closing
<1>2. table'[b] = 0 /\ (\A c \in Backends \ {b} : table'[c] = table[c]) /\ LockStep(t)
      /\ (g # 0 \/ Respawning(t) => genLock'[b] = t)
  BY <1>1, TakesOne DEF TypeInv
<1>3. Gentle(t)  BY <1>1, <1>2, ManagerAssumption DEF Gentle, ManagerAssumption, Thread
<1>4. Warned(t)
  <2>1. \A c \in Backends \ {b} : Steady(c)  BY <1>1, <1>2 DEF Steady
  <2>2. g = 0 => Steady(b)  BY <1>1, <1>2 DEF Steady
  <2>3. QED  BY <1>1, <2>1, <2>2 DEF Warned
<1>5. \A c \in Backends, h \in Entry : HasModel(c, h)' /\ ~Seen(c, h)' /\ (c # b \/ h # g) =>
        HasModel(c, h) /\ ~Seen(c, h) /\ ~Answers(t, c, h) /\ (table'[c] = table[c] \/ h # table[c])
  <2>1. SUFFICES ASSUME NEW c \in Backends, NEW h \in Entry, HasModel(c, h)', ~Seen(c, h)', c # b \/ h # g
                 PROVE  HasModel(c, h) /\ ~Seen(c, h) /\ ~Answers(t, c, h) /\ (table'[c] = table[c] \/ h # table[c])
    OBVIOUS
  <2>2. HasModel(c, h) /\ h # 0  BY <1>1, <2>1 DEF HasModel, Entry
  <2>3. ~Seen(c, h)  BY <1>1, <1>2, <2>1, <2>2 DEF Seen
  <2>4. ~Answers(t, c, h)  BY <1>1, <2>1 DEF Answers
  <2>5. QED  BY <1>2, <2>1, <2>2, <2>3, <2>4
<1>6. CASE g # 0
  <2> DEFINE m == [was EXCEPT !.on = b, !.g = g]
  <2>1. m.op = was.op /\ m.b = b /\ m.todo = was.todo /\ m.g = g  BY DEF Locals
  <2>2. Go(t, "killing") /\ me' = [me EXCEPT ![t] = m]  BY <1>6 DEF KillLooksUp, TypeInv
  <2> HIDE DEF m
  <2>3. Others(t) /\ at'[t] = "killing" /\ me'[t] = m  BY <2>2, Moves
  <2>4. Answers(t, b, g)'  BY <2>1, <2>3 DEF Answers
  <2>5. Handed(t)  BY <1>5, <2>4 DEF Handed
  <2>6. UnderLock(t)'  BY <1>1, <1>2, <2>1, <2>3 DEF UnderLock, Toward, Closing, Loading
  <2>7. PinOK(t)'  BY <2>3 DEF PinOK, Using, Toward, Closing
  <2>8. \A c \in Backends : Holds(t, c)' => genLock'[c] = t  BY <1>2, <1>6, <2>1, <2>3 DEF Holds
  <2>9. Ends(t)  BY <2>6, <2>7, <2>8 DEF Ends
  <2>10. QED  BY <1>2, <1>3, <1>4, <2>3, <2>5, <2>9, KillLooksUpKeeps, ModestKeeps DEF Modest
<1>7. CASE g = 0
  <2>1. Handed(t)  BY <1>5, <1>7 DEF Handed, Entry
  <2>2. CASE Respawning(t)
    <3>1. Go(t, "killed") /\ me' = me  BY <1>7, <2>2 DEF KillLooksUp
    <3>2. Others(t) /\ at'[t] = "killed" /\ me'[t] = was  BY <3>1, GoDoes DEF Label
    <3>3. UnderLock(t)'  BY <1>1, <1>2, <3>2 DEF UnderLock, Toward, Closing, Loading
    <3>4. PinOK(t)'  BY <3>2 DEF PinOK, Using, Toward, Closing
    <3>5. \A c \in Backends : Holds(t, c)' => genLock'[c] = t  BY <1>2, <2>2, <3>2 DEF Holds
    <3>6. Ends(t)  BY <3>3, <3>4, <3>5 DEF Ends
    <3>7. QED  BY <1>2, <1>3, <1>4, <2>1, <3>2, <3>6, KillLooksUpKeeps, ModestKeeps DEF Modest
  <2>3. CASE ~Respawning(t)
    <3> PICK left \in SUBSET Backends : left = me[t].left  OBVIOUS
    <3>1. GoOn(t, left) /\ ~Closing(t)  BY <1>1, <1>7, <2>3 DEF KillLooksUp, Closing
    <3>2. Others(t) /\ Ends(t)  BY <3>1, GoOnDoes, GoOnEnds
    <3>3. QED  BY <1>2, <1>3, <1>4, <2>1, <3>2, KillLooksUpKeeps, ModestKeeps DEF Modest
  <2>4. QED  BY <2>2, <2>3
<1>8. QED  BY <1>6, <1>7

LEMMA KillsModels ==
  ASSUME ModelInv, NEW t \in Thread, Kills(t) PROVE ModelInv'
<1> USE Knows, Known
<1> PICK was : was = me[t]  OBVIOUS
<1> PICK b, g : b = me[t].b /\ g = me[t].g  OBVIOUS
<1>1. /\ at[t] = "killing" /\ b \in Backends /\ g \in Entry /\ was.todo = {} /\ genLock[b] = t /\ table[b] = 0
      /\ loaded' = loaded /\ table' = table /\ genLock' = genLock /\ worker' = [worker EXCEPT ![b][g] = Dead]
      /\ (t \in Jobs => was.op \in {"none", "generate"})
      /\ hurt \subseteq hurt' /\ Users(b) \subseteq hurt'
  BY HurtIs DEF Kills, ThreadOK, Toward, OfBackend, UnderLock, Closing, ModelInv, Exclusive, Holds
<1>2. /\ worker'[b][g] = Dead
      /\ \A c \in Backends, h \in Entry : (c # b \/ h # g) => worker'[c][h] = worker[c][h]
  BY <1>1 DEF TypeInv
<1>3. Gentle(t)  BY <1>1, <1>2 DEF Gentle
<1>4. Warned(t)
  <2>1. \A c \in Backends \ {b} : Steady(c)  BY <1>1, <1>2 DEF Steady, TypeInv
  <2>2. QED  BY <1>1, <2>1 DEF Warned
<1>5. Handed(t)
  <2>1. ~HasModel(b, g)'  BY <1>2, ManagerAssumption DEF HasModel, Request, ManagerAssumption
  <2>2. \A c \in Backends, h \in Entry : c # b \/ h # g =>
          (HasModel(c, h)' => HasModel(c, h)) /\ ~Answers(t, c, h)
    BY <1>1, <1>2 DEF HasModel, Answers
  <2>3. QED  BY <1>1, <2>1, <2>2 DEF Handed, Seen
<1> DEFINE m == [was EXCEPT !.on = None, !.g = 0]
<1>6. m.op = was.op /\ m.b = b /\ m.todo = was.todo /\ me' = [me EXCEPT ![t] = m]
  BY DEF Kills, Locals, TypeInv
<1> HIDE DEF m
<1>7. Others(t) /\ at'[t] = "killed" /\ me'[t] = m
  <2>1. Go(t, "killed")  BY DEF Kills
  <2>2. QED  BY <1>6, <2>1, Moves
<1>8. UnderLock(t)'  BY <1>1, <1>6, <1>7 DEF UnderLock, Toward, Closing, Loading
<1>9. PinOK(t)'  BY <1>7 DEF PinOK, Using, Toward, Closing
<1>10. \A c \in Backends : Holds(t, c)' => genLock'[c] = t  BY <1>1, <1>6, <1>7 DEF Holds
<1>11. Ends(t)  BY <1>8, <1>9, <1>10 DEF Ends
<1>12. QED  BY <1>1, <1>3, <1>4, <1>5, <1>7, <1>11, KillsKeeps, LeavesLocks, ModestKeeps DEF Modest

LEMMA KilledModels ==
  ASSUME ModelInv, NEW t \in Thread, Killed(t) PROVE ModelInv'
<1> USE Knows, Known
<1> PICK was : was = me[t]  OBVIOUS
<1> PICK b : b = me[t].b  OBVIOUS
<1>1. /\ at[t] = "killed" /\ b \in Backends /\ was.todo = {} /\ genLock[b] = t /\ table[b] = 0
      /\ UNCHANGED <<poolVars, hurt>>
      /\ (t \in Jobs => was.op \in {"none", "generate"})
  BY DEF Killed, ThreadOK, Toward, OfBackend, UnderLock, Closing, ModelInv, Exclusive, Holds
<1>2. \A c, g : ~Answers(t, c, g)  BY <1>1, NoAnswers
<1>3. CASE was.op = "respawn_hot" /\ was.saved \in Shapes
  <2>1. Go(t, "load") /\ UNCHANGED <<loaded, me, genLock>>  BY <1>3 DEF Killed
  <2>2. Others(t) /\ at'[t] = "load" /\ me'[t] = was  BY <2>1, GoDoes DEF Label
  <2>3. Modest(t)  BY <1>1, <1>2, <2>1, PrivateStep
  <2>4. UnderLock(t)'
    BY <1>1, <1>3, <2>2 DEF UnderLock, Toward, Closing, Loading, poolVars
  <2>5. PinOK(t)'  BY <2>2 DEF PinOK, Using, Toward, Closing
  <2>6. \A c \in Backends : Holds(t, c)' => genLock'[c] = t  BY <1>1, <2>1, <2>2 DEF Holds
  <2>7. Ends(t)  BY <2>4, <2>5, <2>6 DEF Ends
  <2>8. QED  BY <2>1, <2>2, <2>3, <2>7, KilledKeeps, LeavesLocks, ModestKeeps
<1>4. CASE ~(was.op = "respawn_hot" /\ was.saved \in Shapes)
  <2> PICK left \in SUBSET Backends : left = me[t].left  OBVIOUS
  <2>1. (Return(t) \/ GoOn(t, left)) /\ Release(t) /\ (loaded' = loaded \/ loaded' = Marked({b}))
    BY <1>4 DEF Killed
  <2>2. Others(t) /\ Ends(t) /\ LockStep(t)
    BY <1>1, <2>1, ReturnDoes, GoOnDoes, ReturnEnds, GoOnEnds, ReleasesOwn DEF Closing
  <2>3. Modest(t)
    <3>1. CASE loaded' = loaded  BY <1>1, <1>2, <3>1, PrivateStep
    <3>2. CASE loaded' = Marked({b})
      <4>1. {b} \in SUBSET Backends /\ (loaded[b] = None \/ Stale(b))  BY <1>1 DEF Stale, Alive
      <4>2. QED  BY <1>1, <1>2, <3>2, <4>1, EvictStep
    <3>3. QED  BY <2>1, <3>1, <3>2
  <2>4. QED  BY <2>2, <2>3, KilledKeeps, ModestKeeps
<1>5. QED  BY <1>3, <1>4

LEMMA CrashModels ==
  ASSUME ModelInv, NEW b \in Backends, NEW g \in Entry, Crash(b, g) PROVE ModelInv'
<1>1. /\ at' = at /\ me' = me /\ genLock' = genLock /\ loaded' = loaded /\ table' = table
      /\ worker' = [worker EXCEPT ![b][g] = Dead] /\ hurt' = hurt \cup Users(b) /\ TypeInv
  BY HurtIs DEF Crash, ModelInv, ManagerInv
<1>2. /\ worker'[b][g] = Dead
      /\ \A c \in Backends, h \in Entry : (c # b \/ h # g) => worker'[c][h] = worker[c][h]
  BY <1>1 DEF TypeInv
<1>3. \A c \in Backends, h \in Entry : HasModel(c, h)' => HasModel(c, h)
  BY <1>2, ManagerAssumption DEF HasModel, Request, ManagerAssumption
<1>4. Exclusive'  BY <1>1 DEF ModelInv, Exclusive, Holds, Toward, Closing
<1>5. \A t \in Thread : UnderLock(t)'
  <2>1. ASSUME NEW t \in Thread PROVE UnderLock(t)'
    <3>1. UnderLock(t) /\ ThreadOK(t)  BY Knows
    <3>2. at[t] = "loading" => me[t].b \in Backends /\ me[t].g \in Entry
      BY <3>1 DEF UnderLock, ThreadOK, Toward, OfBackend
    <3>3. QED  BY <1>1, <1>2, <3>1, <3>2 DEF UnderLock, Toward, Closing
  <2>2. QED  BY <2>1
<1>6. Explained'  BY <1>1, <1>3 DEF ModelInv, Explained, Seen, Answers
<1>7. \A t \in Jobs \ hurt' : PinOK(t)'
  <2>1. ASSUME NEW t \in Jobs \ hurt' PROVE PinOK(t)'
    <3>1. t \in Thread /\ PinOK(t) /\ ThreadOK(t) /\ t \notin Users(b) /\ UnderLock(t)
      BY <1>1, <2>1, Knows DEF Thread
    <3>2. CASE Using(t) \/ at[t] = "mark"
      <4>1. me[t].b \in Backends /\ me[t].b # b /\ (at[t] = "mark" => me[t].g \in Entry)
        BY <2>1, <3>1, <3>2 DEF ThreadOK, Using, Toward, Closing, OfBackend, Users, Needs, UnderLock
      <4>2. worker'[me[t].b] = worker[me[t].b]  BY <1>1, <4>1 DEF TypeInv
      <4>3. QED  BY <1>1, <3>1, <4>2 DEF PinOK, Served, Using, Toward, Closing
    <3>3. CASE ~(Using(t) \/ at[t] = "mark")
      BY <1>1, <3>1, <3>3 DEF PinOK, Using, Toward, Closing
    <3>4. QED  BY <3>2, <3>3
  <2>2. QED  BY <2>1
<1>8. ManagerInv'  BY CrashKeeps DEF ModelInv
<1>9. QED  BY <1>4, <1>5, <1>6, <1>7, <1>8 DEF ModelInv

-----------------------------------------------------------------------------
(* The theorems. *)

LEMMA InitModels == ManagerInit => ModelInv
<1> SUFFICES ASSUME ManagerInit PROVE ModelInv  OBVIOUS
<1>1. \A t \in Thread : at[t] = "idle" /\ me[t] = Nothing  BY DEF ManagerInit
<1>2. Exclusive  BY <1>1 DEF Exclusive, Holds, Toward, Closing
<1>3. \A t \in Thread : UnderLock(t)
  BY <1>1 DEF UnderLock, Toward, Closing, Loading, Nothing
<1>4. Explained
  BY ManagerAssumption DEF Explained, HasModel, ManagerInit, Request, ManagerAssumption
<1>5. \A t \in Jobs : PinOK(t)  BY <1>1 DEF PinOK, Using, Toward, Closing, Thread
<1>6. QED  BY <1>2, <1>3, <1>4, <1>5, InitInv DEF ModelInv

LEMMA NextModels == ModelInv /\ [ManagerNext]_vars => ModelInv'
<1> SUFFICES ASSUME ModelInv, [ManagerNext]_vars PROVE ModelInv'  OBVIOUS
<1>1. ASSUME NEW t \in Thread, Call(t) PROVE ModelInv'
  BY <1>1, StartGenerateModels, StartPreloadModels, StartEvictModels, StartVisitsModels,
     StartRespawnModels, StartZeroModels DEF Call
<1>2. ASSUME NEW t \in Thread, Step(t) PROVE ModelInv'
  <2>1. CASE ZeroEvicts(t) \/ CloseIt(t) \/ \E b \in Backends : CloseNext(t, b) \/ Visit(t, b)
    BY <2>1, ZeroEvictsModels, CloseItModels, CloseNextModels, VisitModels
  <2>2. CASE Ensure(t) \/ Admit(t) \/ Admitted(t) \/ Poll(t) \/ Insufficient(t)
    BY <2>2, EnsureModels, AdmitModels, AdmittedModels, PollModels, InsufficientModels
  <2>3. CASE Recheck(t) \/ LoadLooksUp(t) \/ Loads(t) \/ MarkLoaded(t)
    BY <2>3, RecheckModels, LoadLooksUpModels, LoadsModels, MarkLoadedModels
  <2>4. CASE Pinned(t) \/ Headroom(t) \/ GenerateLooksUp(t) \/ Generates(t) \/ Finally(t)
    BY <2>4, PinnedModels, HeadroomModels, GenerateLooksUpModels, GeneratesModels, FinallyModels
  <2>5. CASE NothingLeft(t) \/ LockTaken(t) \/ KillLooksUp(t) \/ Kills(t) \/ Killed(t)
    BY <2>5, NothingLeftModels, LockTakenModels, KillLooksUpModels, KillsModels, KilledModels
  <2>6. QED  BY <1>2, <2>1, <2>2, <2>3, <2>4, <2>5 DEF Step
<1>3. CASE UNCHANGED vars
  <2>1. ManagerInv'  BY NextKeeps DEF ModelInv
  <2>2. QED
    BY <1>3, <2>1 DEF vars, poolVars, ModelInv, Exclusive, Holds, UnderLock, Toward, Closing, Explained,
       HasModel, Seen, Answers, PinOK, Using, Served
<1>4. QED  BY <1>1, <1>2, <1>3, CrashModels DEF ManagerNext, Finished

LEMMA ModelsInvariant == ManagerSpec => []ModelInv
<1>1. QED  BY InitModels, NextModels, PTL DEF ManagerSpec

\* A job that gets to generate finds a live worker with a model of the shape it asked
\* for, whatever the other threads evict, reload, respawn and retry meanwhile, unless the
\* worker was lost under its pin, or its mark was out of date when the job took it.
THEOREM PinGuaranteeForAll == ManagerSpec => []PinGuarantee
<1>1. ModelInv => PinGuarantee
  <2>1. SUFFICES ASSUME ModelInv, NEW t \in Jobs \ hurt, at[t] \in {"lockgen2", "generating"}, NEW b, b = me[t].b
                 PROVE  /\ Alive(b) /\ HasModel(b, table[b])
                        /\ me[t].want \in {AnyShape, worker[b][table[b]]}
                        /\ (at[t] = "generating" => me[t].g = table[b])
    BY DEF PinGuarantee
  <2>2. PinOK(t) /\ Using(t)  BY <2>1 DEF ModelInv, Using
  <2>3. Served(b, me[t].want) /\ (at[t] = "generating" => me[t].g = table[b])  BY <2>1, <2>2 DEF PinOK
  <2>4. QED  BY <2>3, ManagerAssumption DEF Served, Alive, HasModel, Request, ManagerAssumption
<1>2. QED  BY <1>1, ModelsInvariant, PTL

\* No weights stay in VRAM that the planner does not count and nobody is about to load,
\* mark, empty or kill, but for workers on state objects that an eviction by kill took
\* out of the table: what is marked and what is resident part only inside of calls.
THEOREM NoForgottenWeightsForAll == ManagerSpec => []NoForgottenWeights
<1>1. ModelInv => NoForgottenWeights
  <2>1. SUFFICES ASSUME ModelInv, NEW b \in Backends, NEW g \in Entry, HasModel(b, g)
                 PROVE  \/ g = table[b] /\ loaded[b] # None
                        \/ Busy(b)
                        \/ g # table[b] /\ b \in KillOnEvict
    BY DEF NoForgottenWeights
  <2>2. CASE Seen(b, g)  BY <2>2 DEF Seen
  <2>3. ASSUME NEW t \in Thread, Answers(t, b, g) PROVE Busy(b)  BY <2>3 DEF Answers, Busy
  <2>4. QED  BY <2>1, <2>2, <2>3 DEF ModelInv, Explained
<1>2. QED  BY <1>1, ModelsInvariant, PTL

-----------------------------------------------------------------------------
(* VRAM.  As long as no race has been seen, at most one thread loads, and  *)
(* while it does there is room for what it loads.                          *)

AboutToLoad == {"load", "loading"}
Room ==
  /\ Cardinality(Resident) <= Capacity
  /\ \A t, u \in Thread : at[t] \in AboutToLoad /\ at[u] \in AboutToLoad => t = u
  /\ \A t \in Thread : at[t] \in AboutToLoad => Cardinality(Resident) < Capacity
RoomInv == ManagerInv /\ IsFiniteSet(Resident) /\ (raced \/ Room)

\* A step that brings no model into VRAM, and its thread no nearer to that.
Frees(t) ==
  /\ (raced => raced') /\ Resident' \subseteq Resident
  /\ \E l \in Label : Go(t, l) /\ (l \in AboutToLoad => at[t] \in AboutToLoad)

LEMMA ResidentType == ASSUME IsFiniteSet(Resident) PROVE Cardinality(Resident) \in Nat
  BY FS_CardinalityType

LEMMA FewerResident ==
  ASSUME IsFiniteSet(Resident), Resident' \subseteq Resident
  PROVE  /\ IsFiniteSet(Resident') /\ Cardinality(Resident') \in Nat /\ Cardinality(Resident) \in Nat
         /\ Cardinality(Resident') <= Cardinality(Resident)
  BY FS_Subset, FS_CardinalityType

LEMMA FreesKeeps ==
  ASSUME RoomInv, ManagerInv', NEW t \in Thread, Frees(t) PROVE RoomInv'
<1>1. /\ IsFiniteSet(Resident)' /\ Cardinality(Resident') \in Nat /\ Cardinality(Resident) \in Nat
      /\ Cardinality(Resident') <= Cardinality(Resident)
  BY FewerResident DEF RoomInv, Frees
<1>2. Capacity \in Nat  BY ManagerAssumption DEF ManagerAssumption
<1>3. \A u \in Thread : at'[u] \in AboutToLoad => at[u] \in AboutToLoad
  BY DEF Frees, Go, RoomInv, ManagerInv, TypeInv
<1>4. Room => Room'  BY <1>1, <1>2, <1>3 DEF Room
<1>5. QED  BY <1>1, <1>4 DEF RoomInv, Frees

\* Where the threads of most steps go.
LEMMA CarryOnGoes ==
  ASSUME NEW t \in Thread, NEW mine, NEW todo, NEW ret \in Ret, CarryOn(t, mine, todo, ret)
  PROVE  \E l \in Label \ AboutToLoad : Go(t, l)
  BY DEF CarryOn, Return, Ret, Label, AboutToLoad
LEMMA GoOnGoes ==
  ASSUME NEW t \in Thread, NEW left, GoOn(t, left) PROVE \E l \in Label \ AboutToLoad : Go(t, l)
  BY DEF GoOn, Return, Label, AboutToLoad
LEMMA ReturnGoes ==
  ASSUME NEW t \in Thread, Return(t) PROVE \E l \in Label \ AboutToLoad : Go(t, l)
  BY DEF Return, Label, AboutToLoad
LEMMA LookGoes ==
  ASSUME NEW t \in Thread, NEW cold \in {"admit", "recheckVram"}, Look(t, cold)
  PROVE  \E l \in Label \ AboutToLoad : Go(t, l)
<1>1. CASE Go(t, "pinned") \/ Go(t, cold)  BY <1>1 DEF Label, AboutToLoad
<1>2. CASE Return(t)  BY <1>2, ReturnGoes
<1>3. CASE Evict(t, {me[t].b}, cold)  BY <1>3, CarryOnGoes DEF Evict, Ret
<1>4. QED  BY <1>1, <1>2, <1>3 DEF Look

LEMMA SameResident == ASSUME worker' = worker PROVE Resident' = Resident
  BY DEF Resident, HasModel
LEMMA EndsModel ==
  ASSUME TypeInv, NEW b \in Backends, NEW g \in Entry, NEW left, left \notin Request \/ left = worker[b][g],
         worker' = [worker EXCEPT ![b][g] = left]
  PROVE  Resident' \subseteq Resident
  BY DEF Resident, HasModel, TypeInv

\* Calls, and every step that is not on the way from the last reading of the VRAM to the
\* end of a load.
LEMMA CallFrees == ASSUME ManagerInv, NEW t \in Thread, Call(t) PROVE Frees(t)
<1>1. ASSUME NEW op \in Ops, NEW bs \in SUBSET Backends, StartEvict(t, op, bs) PROVE Frees(t)
  <2>1. CarryOn(t, [Nothing EXCEPT !.op = op], bs, "idle") /\ raced' = raced /\ worker' = worker
    BY <1>1 DEF StartEvict, poolVars
  <2>2. \E l \in Label \ AboutToLoad : Go(t, l)  BY <2>1, CarryOnGoes DEF Ret
  <2>3. QED  BY <2>1, <2>2, SameResident DEF Frees
<1>2. ASSUME NEW l \in {"ensure", "rlock", "zero", "next"}, Go(t, l), raced' = raced, worker' = worker
      PROVE  Frees(t)
  BY <1>2, SameResident DEF Frees, Label, AboutToLoad
<1>3. QED
  BY <1>1, <1>2 DEF Call, StartGenerate, StartPreload, StartVisits, StartRespawn, StartZero, poolVars

LEMMA StepFrees ==
  ASSUME ManagerInv, NEW t \in Thread, Step(t), ~Admitted(t), ~Loads(t), ~Killed(t) PROVE Frees(t)
<1> USE Known
<1> PICK was : was = me[t]  OBVIOUS
<1>1. ASSUME \E l \in Label \ AboutToLoad : Go(t, l), raced' = raced, worker' = worker PROVE Frees(t)
  BY <1>1, SameResident DEF Frees
<1>2. ASSUME \E l \in Label \ AboutToLoad : Go(t, l), raced' = raced, Resident' \subseteq Resident PROVE Frees(t)
  BY <1>2 DEF Frees
<1>3. CASE ZeroEvicts(t)  BY <1>1, <1>3, CarryOnGoes DEF ZeroEvicts, Evict, Ret, poolVars
<1>4. CASE CloseIt(t)
  <2> PICK b, g : b = me[t].on /\ g = me[t].g  OBVIOUS
  <2>1. b \in Backends /\ g \in Entry /\ TypeInv  BY <1>4 DEF CloseIt, ThreadOK, ManagerInv
  <2> PICK end \in {Dead, Empty} : worker' = [worker EXCEPT ![b][g] = end]  BY <1>4 DEF CloseIt
  <2>2. Resident' \subseteq Resident
    BY <2>1, EndsModel, ManagerAssumption DEF Request, ManagerAssumption
  <2>3. \E l \in Label \ AboutToLoad : Go(t, l)  BY <1>4, CarryOnGoes DEF CloseIt
  <2>4. QED  BY <1>2, <1>4, <2>2, <2>3 DEF CloseIt
<1>5. ASSUME NEW b \in Backends, CloseNext(t, b) PROVE Frees(t)
  <2>1. \E l \in Label \ AboutToLoad : Go(t, l)
    BY <1>5, CarryOnGoes DEF CloseNext, Label, AboutToLoad
  <2>2. QED  BY <1>1, <1>5, <2>1 DEF CloseNext
<1>6. ASSUME NEW b \in Backends, Visit(t, b) PROVE Frees(t)
  <2>1. \E l \in Label \ AboutToLoad : Go(t, l)
    BY <1>6, GoOnGoes DEF Visit, Label, AboutToLoad
  <2>2. QED  BY <1>1, <1>6, <2>1 DEF Visit, poolVars
<1>7. CASE Ensure(t)  BY <1>1, <1>7, LookGoes DEF Ensure, poolVars
<1>8. CASE Recheck(t)  BY <1>1, <1>8, LookGoes DEF Recheck, poolVars
<1>9. CASE Admit(t)
  <2>1. \E l \in Label \ AboutToLoad : Go(t, l)
    BY <1>9, CarryOnGoes DEF Admit, Evict, Ret, Label, AboutToLoad
  <2>2. QED  BY <1>1, <1>9, <2>1 DEF Admit, poolVars
<1>10. CASE Poll(t)
  <2>1. \E l \in Label \ AboutToLoad : Go(t, l)
    BY <1>10, CarryOnGoes DEF Poll, Reading, Ret
  <2>2. QED  BY <1>1, <1>10, <2>1 DEF Poll, poolVars
<1>11. CASE Insufficient(t)  BY <1>1, <1>11, ReturnGoes DEF Insufficient, poolVars
<1>12. CASE LoadLooksUp(t)
  <2>1. Go(t, "loading") /\ at[t] \in AboutToLoad /\ raced' = raced /\ worker' = worker /\ "loading" \in Label
    BY <1>12 DEF LoadLooksUp, AboutToLoad, Label
  <2>2. QED  BY <2>1, SameResident DEF Frees
<1>13. CASE MarkLoaded(t)
  <2>1. \E l \in Label \ AboutToLoad : Go(t, l)
    BY <1>13, ReturnGoes DEF MarkLoaded, Label, AboutToLoad
  <2>2. QED  BY <1>1, <1>13, <2>1 DEF MarkLoaded, poolVars
<1>14. CASE Pinned(t)
  <2>1. \E l \in Label \ AboutToLoad : Go(t, l)
    BY <1>14, CarryOnGoes DEF Pinned, Evict, Ret, Label, AboutToLoad
  <2>2. QED  BY <1>1, <1>14, <2>1 DEF Pinned, poolVars
<1>15. CASE Headroom(t)  BY <1>1, <1>15 DEF Headroom, poolVars, Label, AboutToLoad
<1>16. CASE GenerateLooksUp(t)
  <2>1. \E l \in Label \ AboutToLoad : Go(t, l)
    BY <1>16 DEF GenerateLooksUp, Label, AboutToLoad
  <2>2. QED  BY <1>1, <1>16, <2>1 DEF GenerateLooksUp, poolVars
<1>17. CASE Generates(t)
  <2> PICK b, g : b = me[t].b /\ g = me[t].g  OBVIOUS
  <2>1. b \in Backends /\ g \in Entry /\ TypeInv
    BY <1>17 DEF Generates, ThreadOK, Toward, OfBackend, ManagerInv
  <2> PICK left \in {worker[b][g], Dead} : worker' = [worker EXCEPT ![b][g] = left]
    BY <1>17 DEF Generates
  <2>2. Resident' \subseteq Resident
    BY <2>1, EndsModel, ManagerAssumption DEF Request, ManagerAssumption
  <2>3. \E l \in Label \ AboutToLoad : Go(t, l)  BY <1>17 DEF Generates, Label, AboutToLoad
  <2>4. QED  BY <1>2, <1>17, <2>2, <2>3 DEF Generates
<1>18. CASE Finally(t)
  <2>1. \E l \in Label \ AboutToLoad : Go(t, l)
    BY <1>18, CarryOnGoes, ReturnGoes DEF Finally, Evict, Ret
  <2>2. QED  BY <1>1, <1>18, <2>1 DEF Finally, poolVars
<1>19. CASE NothingLeft(t)  BY <1>1, <1>19, ReturnGoes DEF NothingLeft, poolVars
<1>20. CASE LockTaken(t)  BY <1>1, <1>20, GoOnGoes DEF LockTaken, poolVars
<1>21. CASE KillLooksUp(t)
  <2>1. \E l \in Label \ AboutToLoad : Go(t, l)
    BY <1>21, GoOnGoes DEF KillLooksUp, Label, AboutToLoad
  <2>2. QED  BY <1>1, <1>21, <2>1 DEF KillLooksUp
<1>22. CASE Kills(t)
  <2> PICK b, g : b = me[t].b /\ g = me[t].g  OBVIOUS
  <2>1. b \in Backends /\ g \in Entry /\ TypeInv
    BY <1>22 DEF Kills, ThreadOK, Toward, OfBackend, ManagerInv
  <2>2. worker' = [worker EXCEPT ![b][g] = Dead]  BY <1>22 DEF Kills
  <2>3. Resident' \subseteq Resident
    BY <2>1, <2>2, EndsModel, ManagerAssumption DEF Request, ManagerAssumption
  <2>4. \E l \in Label \ AboutToLoad : Go(t, l)  BY <1>22 DEF Kills, Label, AboutToLoad
  <2>5. QED  BY <1>2, <1>22, <2>3, <2>4 DEF Kills
<1>23. QED
  BY <1>3, <1>4, <1>5, <1>6, <1>7, <1>8, <1>9, <1>10, <1>11, <1>12, <1>13, <1>14, <1>15, <1>16, <1>17,
     <1>18, <1>19, <1>20, <1>21, <1>22 DEF Step

LEMMA AdmittedHasRoom ==
  ASSUME RoomInv, ManagerInv', NEW t \in Thread, Admitted(t) PROVE RoomInv'
<1>1. at[t] \in Reading /\ Resident' = Resident /\ TypeInv
  BY SameResident DEF Admitted, poolVars, RoomInv, ManagerInv
<1>2. CASE at[t] = "readmit"
  <2>1. Frees(t)  BY <1>1, <1>2 DEF Frees, Admitted, Label, AboutToLoad
  <2>2. QED  BY <2>1, FreesKeeps
<1>3. CASE at[t] = "recheckVram"
  <2>1. Go(t, "load") /\ CanAdmit /\ (raced' = (raced \/ \E u \in Thread \ {t} : at[u] \in {"load", "loading"}))
    BY <1>3 DEF Admitted
  <2>2. ASSUME ~raced' PROVE Room'
    <3>1. \A u \in Thread \ {t} : at[u] \notin AboutToLoad /\ at'[u] = at[u]
      BY <1>1, <2>1, <2>2 DEF AboutToLoad, Go, TypeInv
    <3>2. Room  BY <2>1, <2>2 DEF RoomInv
    <3>3. QED  BY <1>1, <2>1, <3>1, <3>2 DEF Room, CanAdmit
  <2>3. QED  BY <1>1, <2>2 DEF RoomInv
<1>4. QED  BY <1>1, <1>2, <1>3 DEF Reading

LEMMA LoadsHasRoom ==
  ASSUME RoomInv, ManagerInv', NEW t \in Thread, Loads(t) PROVE RoomInv'
<1> PICK b, g : b = me[t].b /\ g = me[t].g  OBVIOUS
<1>1. /\ at[t] = "loading" /\ TypeInv /\ raced' = raced /\ b \in Backends /\ g \in Entry
      /\ \E l \in Label \ AboutToLoad : Go(t, l)
  BY Known, ReturnGoes
  DEF Loads, RoomInv, ManagerInv, ThreadOK, Toward, OfBackend, Label, AboutToLoad
<1>2. PICK end : worker' = [worker EXCEPT ![b][g] = end]  BY DEF Loads
<1>3. Resident' \subseteq Resident \cup {<<b, g>>}
  BY <1>1, <1>2 DEF Resident, HasModel, TypeInv
<1>4. /\ IsFiniteSet(Resident \cup {<<b, g>>}) /\ Cardinality(Resident) \in Nat
      /\ Cardinality(Resident \cup {<<b, g>>}) <= Cardinality(Resident) + 1
      /\ Cardinality(Resident \cup {<<b, g>>}) \in Nat
  <2>1. /\ IsFiniteSet(Resident \cup {<<b, g>>})
        /\ \/ Cardinality(Resident \cup {<<b, g>>}) = Cardinality(Resident)
           \/ Cardinality(Resident \cup {<<b, g>>}) = Cardinality(Resident) + 1
    BY FS_AddElement DEF RoomInv
  <2>2. QED  BY <2>1, ResidentType DEF RoomInv
<1>5. /\ IsFiniteSet(Resident') /\ Cardinality(Resident') \in Nat
      /\ Cardinality(Resident') <= Cardinality(Resident) + 1
  <2>1. /\ IsFiniteSet(Resident') /\ Cardinality(Resident') \in Nat
        /\ Cardinality(Resident') <= Cardinality(Resident \cup {<<b, g>>})
    BY <1>3, <1>4, FS_Subset, FS_CardinalityType
  <2>2. QED  BY <1>4, <2>1
<1>6. ASSUME Room PROVE Room'
  <2>1. Cardinality(Resident) < Capacity /\ \A u \in Thread \ {t} : at[u] \notin AboutToLoad
    BY <1>1, <1>6 DEF Room, AboutToLoad
  <2>2. \A u \in Thread : at'[u] \notin AboutToLoad
    BY <1>1, <2>1 DEF Go, TypeInv
  <2>3. Capacity \in Nat  BY ManagerAssumption DEF ManagerAssumption
  <2>4. QED  BY <1>4, <1>5, <2>1, <2>2, <2>3 DEF Room
<1>7. QED  BY <1>1, <1>5, <1>6 DEF RoomInv

LEMMA KilledHasRoom ==
  ASSUME RoomInv, ManagerInv', NEW t \in Thread, Killed(t) PROVE RoomInv'
<1>1. Resident' = Resident  BY SameResident DEF Killed, poolVars
<1>2. CASE raced'  BY <1>1, <1>2 DEF RoomInv
<1>3. CASE ~raced'
  <2>1. raced' = raced /\ \E l \in Label \ AboutToLoad : Go(t, l)
    BY <1>3, ReturnGoes, GoOnGoes DEF Killed
  <2>2. QED  BY <1>1, <2>1, FreesKeeps DEF Frees
<1>4. QED  BY <1>2, <1>3

LEMMA CrashHasRoom ==
  ASSUME RoomInv, ManagerInv', NEW b \in Backends, NEW g \in Entry, Crash(b, g) PROVE RoomInv'
<1>1. Resident' \subseteq Resident
  BY EndsModel, ManagerAssumption DEF Crash, RoomInv, ManagerInv, Request, ManagerAssumption
<1>2. /\ IsFiniteSet(Resident)' /\ Cardinality(Resident') \in Nat /\ Cardinality(Resident) \in Nat
      /\ Cardinality(Resident') <= Cardinality(Resident)
  BY <1>1, FewerResident DEF RoomInv
<1>3. Capacity \in Nat  BY ManagerAssumption DEF ManagerAssumption
<1>4. at' = at /\ raced' = raced  BY DEF Crash
<1>5. Room => Room'  BY <1>2, <1>3, <1>4 DEF Room
<1>6. QED  BY <1>2, <1>4, <1>5 DEF RoomInv

LEMMA InitHasRoom == ManagerInit => RoomInv
<1> SUFFICES ASSUME ManagerInit PROVE RoomInv  OBVIOUS
<1>1. Resident = {}
  BY ManagerAssumption DEF ManagerInit, Resident, HasModel, Request, ManagerAssumption
<1>2. IsFiniteSet(Resident) /\ Cardinality(Resident) = 0  BY <1>1, FS_EmptySet
<1>3. Room
  BY <1>2, ManagerAssumption DEF Room, ManagerInit, AboutToLoad, ManagerAssumption
<1>4. QED  BY <1>2, <1>3, InitInv DEF RoomInv

LEMMA NextHasRoom == RoomInv /\ [ManagerNext]_vars => RoomInv'
<1> SUFFICES ASSUME RoomInv, [ManagerNext]_vars PROVE RoomInv'  OBVIOUS
<1>1. ManagerInv /\ ManagerInv'  BY NextKeeps DEF RoomInv
<1>2. ASSUME NEW t \in Thread, Call(t) \/ Step(t) PROVE RoomInv'
  <2>1. CASE Admitted(t) \/ Loads(t) \/ Killed(t)
    BY <1>1, <2>1, AdmittedHasRoom, LoadsHasRoom, KilledHasRoom
  <2>2. CASE ~(Admitted(t) \/ Loads(t) \/ Killed(t))
    BY <1>1, <1>2, <2>2, CallFrees, StepFrees, FreesKeeps
  <2>3. QED  BY <2>1, <2>2
<1>3. CASE UNCHANGED vars
  BY <1>1, <1>3 DEF vars, poolVars, RoomInv, Room, Resident, HasModel
<1>4. QED  BY <1>1, <1>2, <1>3, CrashHasRoom DEF ManagerNext, Finished

\* The GPU is overcommitted only if two loads overlapped between the last reading of the
\* VRAM and their end, or respawn reloaded without a reading.
THEOREM OvercommitOnlyByRaceForAll == ManagerSpec => []OvercommitOnlyByRace
<1>1. RoomInv => OvercommitOnlyByRace  BY DEF RoomInv, Room, OvercommitOnlyByRace
<1>2. QED  BY <1>1, InitHasRoom, NextHasRoom, PTL DEF ManagerSpec
=============================================================================
