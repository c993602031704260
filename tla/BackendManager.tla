--------------------------- MODULE BackendManager ---------------------------
(***************************************************************************)
(* BackendManager (src/vramd/backend_manager.py), which loads, pins,       *)
(* evicts and restarts backends, over the table of worker processes it     *)
(* shares with SubprocessWorkerPool (src/vramd/subprocess_pool.py), and    *)
(* the IdleEvictor (src/vramd/idle_evictor.py) among its callers.          *)
(*                                                                         *)
(* A critical section under _struct_lock is one step: nothing inside it    *)
(* blocks.  Everything slow happens outside that lock and is a step of its *)
(* own: the deferred half of an eviction, the wait for free VRAM, loading, *)
(* generating, killing a worker.  A call into the pool is two steps: it    *)
(* looks the worker's state object up in the table under _pool_lock, then  *)
(* acts on that object under the object's own lock, even if the table has  *)
(* meanwhile lost it.  gen_lock is the per-backend lock held over a load   *)
(* and over a generate.                                                    *)
(*                                                                         *)
(* Every backend runs in a subprocess and needs one unit of the Capacity   *)
(* units of VRAM while its weights are resident.                           *)
(***************************************************************************)
EXTENDS Integers, FiniteSets

CONSTANTS
  Jobs,         \* threads that call generate(): the dispatcher's
  Admins,       \* threads of clients' commands, and the idle evictor's
  Ops,          \* what the latter may call, a subset of AdminOps
  Backends,
  Shapes,       \* values of the load shape a request may ask for
  AnyShape,     \* a request, or a loaded model, without shape keys
  KillOnEvict,  \* backends with unload_frees_vram: false
  Capacity,     \* VRAM of the GPU, in models
  None, Dead, Empty,
  MaxPolls,     \* bound: polls of one _wait_for_admit()
  MaxCalls,     \* bound: calls per thread
  MaxCrashes    \* bound: workers that die by themselves

AdminOps == {"preload", "evict", "evict_all", "respawn", "respawn_hot",
             "zero", "shutdown_idle", "health", "ensure_vram"}

ASSUME ManagerAssumption ==
  /\ IsFiniteSet(Jobs \cup Admins) /\ Jobs \cap Admins = {}
  /\ Ops \subseteq AdminOps /\ KillOnEvict \subseteq Backends
  /\ AnyShape \notin Shapes /\ {None, Dead, Empty} \cap (Shapes \cup {AnyShape}) = {}
  /\ None \notin Jobs \cup Admins
  /\ Capacity \in Nat /\ MaxPolls \in Nat /\ MaxCalls \in Nat /\ MaxCrashes \in Nat

Thread == Jobs \cup Admins
Request == Shapes \cup {AnyShape}
Entry == 1..(Cardinality(Thread) + 1)  \* bound: state objects of a backend

VARIABLES
  loaded,   \* _LoadedState: the load shape, or None if not is_loaded()
  ref,      \* _LoadedState.ref_count
  genLock,  \* the holder of _LoadedState.gen_lock
  table,    \* SubprocessWorkerPool._workers: the state object, 0 if there is none
  worker,   \* per state object: Dead (no process), Empty (no model), or a shape
  at, me,   \* where each thread is, and its local variables
  hurt,     \* history: the jobs whose worker lost its model under their pin, or
            \* did not have the one it was marked with when they took it
  raced,    \* history: a load was not covered by its own check of the VRAM
  calls, crashes

poolVars == <<table, worker>>
vars == <<loaded, ref, genLock, poolVars, at, me, hurt, raced, calls, crashes>>

\* op: the call; b: its backend; want: the shape asked for; todo: evictions
\* marked but not carried out; ret: where to go on after them; on: the backend
\* of the pool call under way and g its state object; left: the backends a call
\* over several has still to visit; polls: of this wait; fail: should_evict;
\* saved: saved_shape.
Nothing == [op |-> "none", b |-> None, want |-> AnyShape, todo |-> {}, ret |-> "idle",
            on |-> None, g |-> 0, left |-> {}, polls |-> 0, fail |-> FALSE,
            saved |-> None]

ManagerInit ==
  /\ loaded = [b \in Backends |-> None]
  /\ ref = [b \in Backends |-> 0]
  /\ genLock = [b \in Backends |-> None]
  /\ table = [b \in Backends |-> 0]
  /\ worker = [b \in Backends |-> [g \in Entry |-> Dead]]
  /\ at = [t \in Thread |-> "idle"]
  /\ me = [t \in Thread |-> Nothing]
  /\ hurt = {} /\ raced = FALSE
  /\ calls = [t \in Thread |-> 0] /\ crashes = 0

-----------------------------------------------------------------------------
(* Auxiliary definitions. *)

Alive(b) == table[b] # 0 /\ worker[b][table[b]] # Dead
HasModel(b, g) == worker[b][g] \in Request
Resident == {p \in Backends \X Entry : HasModel(p[1], p[2])}
CanAdmit == Cardinality(Resident) < Capacity
MismatchNever(stored, want) == FALSE
Mismatch(stored, want) == want # AnyShape /\ stored # want
Evictable(b) == loaded[b] # None /\ ref[b] = 0
Stale(b) == loaded[b] # None /\ ~Alive(b)

\* What plan_eviction() returns for a deficit: as many idle backends as it
\* takes, or all of them.  Which it prefers is the subject of Admission.
IsPlan(victims, deficit) ==
  /\ victims \subseteq {b \in Backends : Evictable(b)}
  /\ \/ Cardinality(victims) = deficit
     \/ /\ Cardinality(victims) < deficit
        /\ victims = {b \in Backends : Evictable(b)}

Local(t, field, value) == me' = [me EXCEPT ![t][field] = value]
Go(t, where) == at' = [at EXCEPT ![t] = where]

\* Leaves the with-block of the gen_lock the thread holds, if it holds one.
Release(t) == genLock' = [b \in Backends |-> IF genLock[b] = t THEN None ELSE genLock[b]]
Return(t) == Go(t, "idle") /\ me' = [me EXCEPT ![t] = Nothing]

\* Goes on with evictions still to carry out, or else with what comes after.
CarryOn(t, mine, todo, ret) ==
  IF todo # {} THEN Go(t, "closing") /\ me' = [me EXCEPT ![t] = [mine EXCEPT !.todo = todo, !.ret = ret]]
  ELSE IF ret = "idle" THEN Return(t)
  ELSE Go(t, ret) /\ me' = [me EXCEPT ![t] = [mine EXCEPT !.todo = {}, !.ret = "idle"]]

\* _evict_unlocked() on each: the marks; and then the slow halves, one by one.
Marked(bs) == [b \in Backends |-> IF b \in bs THEN None ELSE loaded[b]]
Evict(t, bs, ret) == loaded' = Marked(bs) /\ CarryOn(t, me[t], bs, ret)

\* The jobs that hold a pin on b and still need its worker, or are loading it.
Needs == {"loading", "mark", "pinned", "headroom", "lockgen2", "generating"}
Users(b) == {t \in Jobs : /\ me[t].b = b
                          /\ \/ at[t] \in Needs
                             \/ at[t] \in {"closing", "closeIt"} /\ me[t].ret = "headroom"}
Hurt(bs) == hurt' = hurt \cup UNION {Users(b) : b \in bs}

-----------------------------------------------------------------------------
(* Calls. *)

Start(t) == at[t] = "idle" /\ calls[t] < MaxCalls /\ calls' = [calls EXCEPT ![t] = @ + 1]

\* generate(), and ensure_loaded() without a pin.  A generate whose abort
\* callback is set already returns here.
StartGenerate(t, b, want) ==
  /\ Start(t) /\ t \in Jobs
  /\ Go(t, "ensure")
  /\ me' = [me EXCEPT ![t] = [Nothing EXCEPT !.op = "generate", !.b = b, !.want = want]]
  /\ hurt' = hurt \ {t}
  /\ UNCHANGED <<loaded, ref, genLock, poolVars, raced, crashes>>

StartPreload(t, b, want) ==
  /\ Start(t) /\ t \in Admins /\ "preload" \in Ops
  /\ Go(t, "ensure")
  /\ me' = [me EXCEPT ![t] = [Nothing EXCEPT !.op = "preload", !.b = b, !.want = want]]
  /\ UNCHANGED <<loaded, ref, genLock, poolVars, hurt, raced, crashes>>

\* evict() of one, evict_all(), and ensure_vram(), which evicts by plan.  The
\* idle evictor's pass over idle_candidates() is a sequence of evict().
StartEvict(t, op, victims) ==
  /\ Start(t) /\ t \in Admins /\ op \in Ops
  /\ \/ op = "evict" /\ \E b \in Backends : victims = {b} /\ Evictable(b)
     \/ op = "evict_all" /\ victims = {b \in Backends : Evictable(b)}
     \/ op = "ensure_vram" /\ \E n \in 1..Cardinality(Backends) : IsPlan(victims, n)
  /\ loaded' = Marked(victims)
  /\ CarryOn(t, [Nothing EXCEPT !.op = op], victims, "idle")
  /\ UNCHANGED <<ref, genLock, poolVars, hurt, raced, crashes>>

\* respawn(): refused under a pin, else marks the backend unloaded at once and
\* remembers the shape it had for the reload of lazy=False.
StartRespawn(t, op, b) ==
  /\ Start(t) /\ t \in Admins /\ op \in Ops \cap {"respawn", "respawn_hot"}
  /\ ref[b] = 0
  /\ loaded' = Marked({b})
  /\ Go(t, "rlock")
  /\ me' = [me EXCEPT ![t] = [Nothing EXCEPT !.op = op, !.b = b, !.saved = loaded[b]]]
  /\ UNCHANGED <<ref, genLock, poolVars, hurt, raced, crashes>>

\* zero_vram(): refused under any pin, but the evict_all() that follows, and the
\* shutdown_worker() of each worker alive before it, look for themselves.
StartZero(t) ==
  /\ Start(t) /\ t \in Admins /\ "zero" \in Ops
  /\ \A b \in Backends : ref[b] = 0
  /\ Go(t, "zero")
  /\ me' = [me EXCEPT ![t] = [Nothing EXCEPT !.op = "zero", !.left = {b \in Backends : Alive(b)}]]
  /\ UNCHANGED <<loaded, ref, genLock, poolVars, hurt, raced, crashes>>

ZeroEvicts(t) ==
  /\ at[t] = "zero"
  /\ Evict(t, {b \in Backends : Evictable(b)}, "next")
  /\ UNCHANGED <<ref, genLock, poolVars, hurt, raced, calls, crashes>>

\* The idle evictor's list of workers to end, idle_worker_candidates(), and the
\* one to ping, health_check_workers(): both are taken once and used later.
StartVisits(t, op, bs) ==
  /\ Start(t) /\ t \in Admins /\ op \in Ops
  /\ bs # {}
  /\ \/ /\ op = "shutdown_idle"
        /\ bs \subseteq {b \in Backends : ref[b] = 0 /\ loaded[b] = None
                                          /\ genLock[b] = None /\ Alive(b)}
     \/ /\ op = "health"
        /\ bs = {b \in Backends : ref[b] = 0}
  /\ Go(t, "next")
  /\ me' = [me EXCEPT ![t] = [Nothing EXCEPT !.op = op, !.left = bs]]
  /\ UNCHANGED <<loaded, ref, genLock, poolVars, hurt, raced, crashes>>

-----------------------------------------------------------------------------
(* The slow half of evictions: pool.unload(), or pool.shutdown() for a backend *)
(* whose unload frees nothing.  No gen_lock is held.                           *)

CloseNext(t, b) ==
  /\ at[t] = "closing" /\ b \in me[t].todo
  /\ IF table[b] # 0 /\ (b \in KillOnEvict \/ Alive(b))
       THEN /\ Go(t, "closeIt")
            /\ me' = [me EXCEPT ![t].on = b, ![t].g = table[b], ![t].todo = @ \ {b}]
       ELSE CarryOn(t, me[t], me[t].todo \ {b}, me[t].ret)
  /\ IF b \in KillOnEvict /\ table[b] # 0
       THEN table' = [table EXCEPT ![b] = 0] /\ Hurt({b})
       ELSE UNCHANGED <<table, hurt>>
  /\ UNCHANGED <<loaded, ref, genLock, worker, raced, calls, crashes>>

CloseIt(t) ==
  LET b == me[t].on
      g == me[t].g IN
  /\ at[t] = "closeIt"
  /\ worker' = [worker EXCEPT ![b][g] = IF b \in KillOnEvict \/ @ = Dead THEN Dead ELSE Empty]
  /\ IF HasModel(b, g) THEN Hurt({b}) ELSE UNCHANGED hurt
  /\ CarryOn(t, [me[t] EXCEPT !.on = None, !.g = 0], me[t].todo, me[t].ret)
  /\ UNCHANGED <<loaded, ref, genLock, table, raced, calls, crashes>>

-----------------------------------------------------------------------------
(* ensure_loaded(), with a pin when generate() calls it. *)

\* Both looks at the state, the second one under gen_lock: a hot model is
\* served, one of another shape is evicted unless it is pinned.  A job may pin a
\* backend that is marked loaded although an eviction has emptied its worker, or
\* respawn() has reloaded it with the shape it had before another was loaded.
Look(t, cold) ==
  LET b == me[t].b
      kept == IF Stale(b) THEN None ELSE loaded[b]
      fits == ~Mismatch(kept, me[t].want) IN
  \/ /\ kept # None /\ fits
     /\ IF me[t].op = "generate"
          THEN /\ ref' = [ref EXCEPT ![b] = @ + 1] /\ Go(t, "pinned") /\ UNCHANGED me
               /\ hurt' = IF worker[b][table[b]] = kept THEN hurt ELSE hurt \cup {t}
          ELSE Return(t) /\ UNCHANGED <<ref, hurt>>
     /\ UNCHANGED loaded
  \/ /\ kept # None /\ ~fits /\ ref[b] > 0      \* ShapeBusyError
     /\ Return(t)
     /\ UNCHANGED <<loaded, ref, hurt>>
  \/ /\ kept # None /\ ~fits /\ ref[b] = 0
     /\ Evict(t, {b}, cold)
     /\ UNCHANGED <<ref, hurt>>
  \/ /\ kept = None
     /\ loaded' = Marked({b}) /\ Go(t, cold)
     /\ UNCHANGED <<me, ref, hurt>>

Ensure(t) ==
  /\ at[t] = "ensure" /\ Look(t, "admit")
  /\ UNCHANGED <<genLock, poolVars, raced, calls, crashes>>

\* Too little free VRAM: evict by plan, then read it again.
Admit(t) ==
  /\ at[t] = "admit"
  /\ IF CanAdmit
       THEN Go(t, "readmit") /\ UNCHANGED <<loaded, me>>
       ELSE \E victims \in SUBSET Backends :
              /\ IsPlan(victims, Cardinality(Resident) + 1 - Capacity)
              /\ Evict(t, victims, "readmit")
  /\ UNCHANGED <<ref, genLock, poolVars, hurt, raced, calls, crashes>>

\* The readings of the VRAM before gen_lock is taken and after.
Reading == {"readmit", "recheckVram"}

Admitted(t) ==
  /\ at[t] \in Reading /\ CanAdmit
  /\ Go(t, IF at[t] = "readmit" THEN "lockgen" ELSE "load")
  /\ raced' = (raced \/ /\ at[t] = "recheckVram"
                        /\ \E u \in Thread \ {t} : at[u] \in {"load", "loading"})
  /\ Local(t, "polls", 0)
  /\ UNCHANGED <<loaded, ref, genLock, poolVars, hurt, calls, crashes>>

\* _wait_for_admit(): each poll evicts everything idle; past the deadline,
\* InsufficientVramError.
Poll(t) ==
  /\ at[t] \in Reading /\ ~CanAdmit /\ me[t].polls < MaxPolls
  /\ LET idle == {b \in Backends : Evictable(b)} IN
     /\ loaded' = Marked(idle)
     /\ CarryOn(t, [me[t] EXCEPT !.polls = @ + 1], idle, at[t])
  /\ UNCHANGED <<ref, genLock, poolVars, hurt, raced, calls, crashes>>

InsufficientHolds(t) ==
  /\ at[t] \in Reading /\ ~CanAdmit
  /\ Return(t)
  /\ UNCHANGED <<loaded, ref, genLock, poolVars, hurt, raced, calls, crashes>>
Insufficient(t) ==
  /\ at[t] \in Reading /\ ~CanAdmit
  /\ Return(t) /\ Release(t)
  /\ UNCHANGED <<loaded, ref, poolVars, hurt, raced, calls, crashes>>

\* Under gen_lock, the second look.  Taking a free gen_lock and the step after it
\* are one step here and below: in between, others can only find the lock taken.
Takes(t, keeps) ==
  /\ genLock[me[t].b] = None
  /\ genLock' = [genLock EXCEPT ![me[t].b] = IF keeps THEN t ELSE None]

RecheckLoads(t) ==
  /\ at[t] = "lockgen" /\ Look(t, "load")
  /\ Takes(t, at'[t] \in {"load", "closing"})
  /\ UNCHANGED <<poolVars, raced, calls, crashes>>
Recheck(t) ==
  /\ at[t] = "lockgen" /\ Look(t, "recheckVram")
  /\ Takes(t, at'[t] \in {"recheckVram", "closing"})
  /\ UNCHANGED <<poolVars, raced, calls, crashes>>

\* pool.load(): the state object is looked up, or made ...
Unused(b) == {g \in Entry : /\ g # table[b] /\ worker[b][g] = Dead
                            /\ \A t \in Thread : ~(me[t].on = b /\ me[t].g = g)}
LoadLooksUp(t) ==
  LET b == me[t].b
      g == IF table[b] # 0 THEN table[b] ELSE CHOOSE h \in Unused(b) : TRUE IN
  /\ at[t] = "load" /\ (table[b] = 0 => Unused(b) # {})
  /\ table' = [table EXCEPT ![b] = g]
  /\ me' = [me EXCEPT ![t].on = b, ![t].g = g]
  /\ Go(t, "loading")
  /\ UNCHANGED <<loaded, ref, genLock, worker, hurt, raced, calls, crashes>>

\* ... and used under its lock: reused with the same shape, spawned if it has no
\* process.  A load that fails leaves the process without a model, or kills it.
Loads(t) ==
  LET b == me[t].b
      g == me[t].g
      want == IF me[t].op = "respawn_hot" THEN me[t].saved ELSE me[t].want IN
  /\ at[t] = "loading"
  /\ \/ /\ worker' = [worker EXCEPT ![b][g] = want]
        /\ Go(t, "mark") /\ UNCHANGED <<me, genLock>>
     \/ /\ worker[b][g] # want
        /\ \E left \in {Dead, Empty} : worker' = [worker EXCEPT ![b][g] = left]
        /\ Return(t) /\ Release(t)
  /\ UNCHANGED <<loaded, ref, table, hurt, raced, calls, crashes>>

MarkLoaded(t) ==
  LET b == me[t].b IN
  /\ at[t] = "mark"
  /\ loaded' = [loaded EXCEPT ![b] = IF me[t].op = "respawn_hot" THEN me[t].saved ELSE me[t].want]
  /\ IF me[t].op = "generate"
       THEN /\ ref' = [ref EXCEPT ![b] = @ + 1] /\ Go(t, "pinned")
            /\ me' = [me EXCEPT ![t].on = None, ![t].g = 0]
       ELSE Return(t) /\ UNCHANGED ref
  /\ Release(t)
  /\ UNCHANGED <<poolVars, hurt, raced, calls, crashes>>

-----------------------------------------------------------------------------
(* generate() once its backend is pinned. *)

\* Cancelled during the load; or there is room to work in, or idle siblings are
\* evicted for it.
PinnedLeaks(t) ==
  /\ at[t] = "pinned"
  /\ \/ Return(t)
     \/ Go(t, "lockgen2") /\ UNCHANGED me
  /\ UNCHANGED <<loaded, ref, genLock, poolVars, hurt, raced, calls, crashes>>
PinnedAgain(t) ==
  /\ at[t] = "pinned"
  /\ Go(t, "lockgen2") /\ ref' = [ref EXCEPT ![me[t].b] = @ + 1]
  /\ UNCHANGED <<loaded, genLock, poolVars, me, hurt, raced, calls, crashes>>
Pinned(t) ==
  /\ at[t] = "pinned"
  /\ \/ Go(t, "finally") /\ UNCHANGED <<loaded, me>>
     \/ Go(t, "lockgen2") /\ UNCHANGED <<loaded, me>>
     \/ \E victims \in SUBSET Backends, n \in 1..Cardinality(Backends) :
          IsPlan(victims, n) /\ Evict(t, victims \ {me[t].b}, "headroom")
  /\ UNCHANGED <<ref, genLock, poolVars, hurt, raced, calls, crashes>>

Headroom(t) ==
  /\ at[t] = "headroom"
  /\ \/ Go(t, "lockgen2")
     \/ Go(t, "finally")  \* VRAM_INSUFFICIENT
  /\ UNCHANGED <<loaded, ref, genLock, poolVars, me, hurt, raced, calls, crashes>>

GenerateLooksUp(t) ==
  LET b == me[t].b IN
  /\ at[t] = "lockgen2" /\ Takes(t, Alive(b))
  /\ IF Alive(b)
       THEN /\ Go(t, "generating")
            /\ me' = [me EXCEPT ![t].on = b, ![t].g = table[b]]
       ELSE Go(t, "finally") /\ Local(t, "fail", TRUE)
  /\ UNCHANGED <<loaded, ref, poolVars, hurt, raced, calls, crashes>>

\* The worker answers, raises, dies, or is killed by the pool: after its last
\* job, on a timeout or on an abort it ignores.  Without a model it can only fail.
Generates(t) ==
  LET b == me[t].b
      g == me[t].g IN
  /\ at[t] = "generating"
  /\ \E left \in {worker[b][g], Dead}, fail \in BOOLEAN :
       /\ ~HasModel(b, g) => fail
       /\ worker' = [worker EXCEPT ![b][g] = left]
       /\ IF HasModel(b, g) /\ left = Dead THEN Hurt({b}) ELSE UNCHANGED hurt
       /\ me' = [me EXCEPT ![t].on = None, ![t].g = 0, ![t].fail = fail]
  /\ Go(t, "finally") /\ Release(t)
  /\ UNCHANGED <<loaded, ref, table, raced, calls, crashes>>

Unpin(n) == IF n = 0 THEN 0 ELSE n - 1

\* The finally block; a failure evicts the backend unless others have pinned it.
FinallyForgets(t) ==
  LET b == me[t].b IN
  /\ at[t] = "finally"
  /\ ref' = [ref EXCEPT ![b] = Unpin(@)]
  /\ loaded' = IF me[t].fail /\ Unpin(ref[b]) = 0 THEN Marked({b}) ELSE loaded
  /\ Return(t)
  /\ UNCHANGED <<genLock, poolVars, hurt, raced, calls, crashes>>
Finally(t) ==
  LET b == me[t].b IN
  /\ at[t] = "finally"
  /\ ref' = [ref EXCEPT ![b] = Unpin(@)]
  /\ IF me[t].fail /\ loaded[b] # None /\ Unpin(ref[b]) = 0
       THEN Evict(t, {b}, "idle")
       ELSE Return(t) /\ UNCHANGED loaded
  /\ UNCHANGED <<genLock, poolVars, hurt, raced, calls, crashes>>

-----------------------------------------------------------------------------
(* Ending workers: shutdown_worker(), the health check, respawn(). *)

Respawning(t) == me[t].op \in {"respawn", "respawn_hot"}

\* On to the next worker of the list, if there is one.
GoOn(t, left) == IF left = {} THEN Return(t)
                 ELSE Go(t, "next") /\ me' = [me EXCEPT ![t].left = left, ![t].on = None, ![t].g = 0]

\* ping() for the health check, and shutdown_worker(), which tests the pins ...
Visit(t, b) ==
  /\ at[t] = "next" /\ b \in me[t].left
  /\ \/ /\ ref[b] = 0 /\ (me[t].op = "health" => Alive(b))
        /\ Go(t, "trylock")
        /\ me' = [me EXCEPT ![t].b = b, ![t].left = @ \ {b}]
     \/ /\ me[t].op = "health" \/ ref[b] > 0
        /\ GoOn(t, me[t].left \ {b})
  /\ UNCHANGED <<loaded, ref, genLock, poolVars, hurt, raced, calls, crashes>>

NothingLeft(t) ==
  /\ at[t] = "next" /\ me[t].left = {}
  /\ Return(t)
  /\ UNCHANGED <<loaded, ref, genLock, poolVars, hurt, raced, calls, crashes>>

\* ... and then gen_lock, without waiting for it as respawn() does.  pool.shutdown()
\* takes the state object out of the table ...
LockTaken(t) ==
  /\ at[t] = "trylock" /\ genLock[me[t].b] # None
  /\ GoOn(t, me[t].left)
  /\ UNCHANGED <<loaded, ref, genLock, poolVars, hurt, raced, calls, crashes>>

KillLooksUp(t) ==
  LET b == me[t].b
      g == table[b] IN
  /\ at[t] \in {"trylock", "rlock"}
  /\ Takes(t, g # 0 \/ Respawning(t))
  /\ table' = [table EXCEPT ![b] = 0]
  /\ IF g # 0 THEN Hurt({b}) ELSE UNCHANGED hurt
  /\ IF g # 0 THEN Go(t, "killing") /\ me' = [me EXCEPT ![t].on = b, ![t].g = g]
     ELSE IF Respawning(t) THEN Go(t, "killed") /\ UNCHANGED me
     ELSE GoOn(t, me[t].left)
  /\ UNCHANGED <<loaded, ref, worker, raced, calls, crashes>>

\* ... and ends its process.
Kills(t) ==
  /\ at[t] = "killing"
  /\ worker' = [worker EXCEPT ![me[t].b][me[t].g] = Dead]
  /\ Hurt({me[t].b})
  /\ Go(t, "killed")
  /\ me' = [me EXCEPT ![t].on = None, ![t].g = 0]
  /\ UNCHANGED <<loaded, ref, genLock, table, raced, calls, crashes>>

\* shutdown_worker() clears the mark and lets go of gen_lock; respawn(lazy=False)
\* loads again under it, without a look at the VRAM, if it remembers a shape.
Killed(t) ==
  LET again == me[t].op = "respawn_hot" /\ me[t].saved \in Shapes IN
  /\ at[t] = "killed"
  /\ IF again
       THEN /\ Go(t, "load") /\ raced' = TRUE
            /\ UNCHANGED <<loaded, me, genLock>>
       ELSE /\ loaded' = IF Respawning(t) THEN loaded ELSE Marked({me[t].b})
            /\ IF Respawning(t) THEN Return(t) ELSE GoOn(t, me[t].left)
            /\ Release(t)
            /\ UNCHANGED raced
  /\ UNCHANGED <<ref, poolVars, hurt, calls, crashes>>

-----------------------------------------------------------------------------
\* A worker dies by itself.
Crash(b, g) ==
  /\ crashes < MaxCrashes /\ worker[b][g] # Dead
  /\ worker' = [worker EXCEPT ![b][g] = Dead]
  /\ crashes' = crashes + 1
  /\ Hurt({b})
  /\ UNCHANGED <<loaded, ref, genLock, table, at, me, raced, calls>>

Step(t) ==
  \/ ZeroEvicts(t) \/ CloseIt(t)
  \/ \E b \in Backends : CloseNext(t, b) \/ Visit(t, b)
  \/ Ensure(t) \/ Admit(t) \/ Admitted(t) \/ Poll(t) \/ Insufficient(t)
  \/ Recheck(t) \/ LoadLooksUp(t) \/ Loads(t) \/ MarkLoaded(t)
  \/ Pinned(t) \/ Headroom(t) \/ GenerateLooksUp(t) \/ Generates(t) \/ Finally(t)
  \/ NothingLeft(t) \/ LockTaken(t) \/ KillLooksUp(t) \/ Kills(t) \/ Killed(t)

Call(t) ==
  \/ \E b \in Backends, want \in Request : StartGenerate(t, b, want) \/ StartPreload(t, b, want)
  \/ \E op \in Ops, bs \in SUBSET Backends : StartEvict(t, op, bs) \/ StartVisits(t, op, bs)
  \/ \E op \in Ops, b \in Backends : StartRespawn(t, op, b)
  \/ StartZero(t)

\* All calls of the bounded history have returned; anything else that stops is
\* a deadlock.
Finished ==
  /\ \A t \in Thread : at[t] = "idle" /\ calls[t] = MaxCalls
  /\ UNCHANGED vars

ManagerNext ==
  \/ \E t \in Thread : Call(t) \/ Step(t)
  \/ \E b \in Backends, g \in Entry : Crash(b, g)
  \/ Finished

ManagerSpec == ManagerInit /\ [][ManagerNext]_vars

-----------------------------------------------------------------------------
(* Properties. *)

\* Every variable keeps its type, and no more pins are held than jobs run.
ManagerTypeOK ==
  /\ loaded \in [Backends -> Request \cup {None}]
  /\ ref \in [Backends -> 0..Cardinality(Jobs)]
  /\ genLock \in [Backends -> Thread \cup {None}]
  /\ table \in [Backends -> Entry \cup {0}]
  /\ worker \in [Backends -> [Entry -> Request \cup {Dead, Empty}]]
  /\ \A t \in Thread : me[t].todo \subseteq Backends /\ me[t].left \subseteq Backends
  /\ hurt \subseteq Jobs

\* The threads between the return of ensure_loaded(_pin=True) and their finally.
Pinning(b) == {t \in Jobs : /\ me[t].b = b
                            /\ \/ at[t] \in {"pinned", "headroom", "lockgen2",
                                             "generating", "finally"}
                               \/ at[t] \in {"closing", "closeIt"} /\ me[t].ret = "headroom"}

\* ref_count counts exactly the jobs that are using the backend, on every path
\* through generate(): one too many and the backend is never evicted again, one
\* too few and it is evicted under a job.
PinsAreCounted == \A b \in Backends : ref[b] = Cardinality(Pinning(b))

\* A job that has its backend pinned finds, when it gets to generate, a live
\* worker with a model of the shape it asked for, unless that worker was ended
\* or emptied after the job had come to rely on it, or the mark it relied on was
\* out of date (hurt): through evictions, reloads and retries of others nothing
\* else makes a job run on the wrong model.
PinGuarantee ==
  \A t \in Jobs \ hurt :
    at[t] \in {"lockgen2", "generating"} =>
      /\ Alive(me[t].b) /\ HasModel(me[t].b, table[me[t].b])
      /\ me[t].want \in {AnyShape, worker[me[t].b][table[me[t].b]]}
      /\ (at[t] = "generating" => me[t].g = table[me[t].b])

\* What ShapeBusyError says of itself (backend_manager.py:181): a backend in use
\* that has another load shape than a request asks for is not reloaded.  So a
\* worker with a model generates with one of the shape that its job asked for.
ShapeIsServed ==
  \A t \in Jobs :
    at[t] = "generating" /\ HasModel(me[t].b, me[t].g)
      => me[t].want \in {AnyShape, worker[me[t].b][me[t].g]}

\* Threads that have still to deal with the weights of b.
Busy(b) == \E t \in Thread :
  \/ b \in me[t].todo \/ me[t].on = b
  \/ me[t].b = b /\ at[t] \in {"rlock", "killing", "killed", "load", "loading", "mark"}

\* Weights in VRAM that the planner cannot see are on their way out or in, over
\* evictions, respawns, kills and crashes: nothing holds VRAM that no eviction
\* can reach.  The exception is a worker spawned on a state object that an
\* eviction by kill has meanwhile taken out of the table.
NoForgottenWeights ==
  \A b \in Backends, g \in Entry :
    HasModel(b, g) =>
      \/ g = table[b] /\ loaded[b] # None
      \/ Busy(b)
      \/ g # table[b] /\ b \in KillOnEvict

\* The GPU is never overcommitted, unless two loads overlapped between their
\* reading of the VRAM and their end, or respawn reloaded without reading it.
OvercommitOnlyByRace == raced \/ Cardinality(Resident) <= Capacity

\* A thread that holds a gen_lock is inside a call and not about to wait for
\* another one: together with the absence of deadlock in the run, no call waits
\* for ever, whatever fails while the lock is held.
HoldersProceed ==
  \A b \in Backends : genLock[b] # None =>
    /\ me[genLock[b]].b = b
    /\ at[genLock[b]] \in {"recheckVram", "load", "loading", "mark", "generating",
                           "killing", "killed", "closing", "closeIt"}

\* Whatever a call takes it gives back, on the paths that fail half way through too: the
\* pins of generate() and the lock of a load, a generate or the end of a worker.
ManagerConsistent == ManagerTypeOK /\ PinsAreCounted /\ HoldersProceed

\* What vram_planner.py:5 says of a pinned backend: the weights of a worker do
\* not leave it while jobs hold a pin on its backend, as long as it lives and
\* nobody restarts it.
PinnedKeepsWeights ==
  [][\A b \in Backends, g \in Entry :
       HasModel(b, g) /\ g = table[b] /\ ref[b] > 0 /\ ref'[b] > 0
         => worker'[b][g] # Empty]_vars
=============================================================================
