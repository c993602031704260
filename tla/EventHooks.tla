----------------------------- MODULE EventHooks -----------------------------
(***************************************************************************)
(* The hooks of the supervisor (src/vramd/hooks.py): commands that run in  *)
(* threads of their own when something happens, with a throttle for each   *)
(* event and hook, and the drain that waits for them when the supervisor   *)
(* ends (VramdServer._cleanup in src/vramd/server.py).                     *)
(*                                                                         *)
(* Events are dispatched by any thread: jobs that end, evictions, drifts;  *)
(* the last is on_shutdown.  A thread of a hook enters _live itself, some  *)
(* time after it was started.  What the command does is abstracted to its  *)
(* exit code; its timeout, at most 300 s, may be after the 3 s of drain.   *)
(***************************************************************************)
EXTENDS Naturals, Sequences, FiniteSets

CONSTANTS
  Documents,     \* the contents of hooks.yaml tried: sets of entries
  Dispatchers,   \* threads that dispatch events
  Runs,          \* bound: the hook threads of a behaviour
  MinInterval,   \* min_interval_sec, in ticks of the clock
  MaxTime        \* bound: ticks

\* A timeout in seconds: 0 for what is not positive, NaN for what is not finite, and what
\* min() makes of it.
NaN == 999999

ASSUME HooksAssumption ==
  /\ MinInterval \in Nat /\ MaxTime \in Nat /\ IsFiniteSet(Dispatchers) /\ IsFiniteSet(Runs)
  /\ \A d \in Documents : \A e \in d :
       DOMAIN e = {"name", "events", "command", "timeout"} /\ e.timeout \in 0..NaN

VARIABLES
  specs,        \* HookRunner.specs
  clock,        \* time.monotonic()
  lastFired,    \* _last_fired: from event and name to a time, 0 when there is none
  live,         \* _live
  run,          \* the hook threads: what they run and how far they are
  dispatching,  \* what each dispatcher is doing
  stats,        \* HookStats: fired, ended (succeeded and failed)
  cleanup,      \* where _cleanup is
  deadline,     \* when drain() gives up
  times, gaveUp \* history: the clock of each firing; drain() ran into its deadline

hookVars == <<specs, clock, lastFired, live, run, dispatching, stats, cleanup, deadline, times, gaveUp>>

KnownEvents == {"on_job_done", "on_job_failed", "on_shutdown"}
DrainTicks == 1
Unused == [at |-> "unused", timeout |-> 0, late |-> FALSE]
Resting == [event |-> "none", now |-> 0, todo |-> {}, fires |-> {}]

(* parse_hooks(). *)

AnyTimeout(t) == t # 0
ValidTimeout(t) == t # 0 /\ t # NaN
TimeoutOf(t) == IF t \in 301..(NaN - 1) THEN 300 ELSE t

ValidEntry(e) ==
  /\ e.events # {} /\ e.events \subseteq KnownEvents
  /\ e.command # "missing"
  /\ ValidTimeout(e.timeout)

\* One bad entry and the whole document is refused: the supervisor does not start.
ParseHooks(doc) ==
  IF \A e \in doc : ValidEntry(e)
  THEN {{[e EXCEPT !.timeout = TimeoutOf(@)] : e \in doc}}
  ELSE {}

HooksInit ==
  /\ specs \in UNION {ParseHooks(d) : d \in Documents}
  /\ clock = 1 + MinInterval /\ lastFired = [k \in {} |-> 0]
  /\ live = {} /\ run = [r \in Runs |-> Unused]
  /\ dispatching = [d \in Dispatchers |-> Resting]
  /\ stats = [fired |-> 0, ended |-> 0]
  /\ cleanup = "no" /\ deadline = 0
  /\ times = <<>> /\ gaveUp = FALSE

Serving == cleanup # "over"

Tick ==
  /\ Serving /\ (clock < MaxTime \/ (cleanup \in {"look", "join"} /\ clock < deadline))
  /\ clock' = clock + 1
  /\ UNCHANGED <<specs, lastFired, live, run, dispatching, stats, cleanup, deadline, times, gaveUp>>

(***************************************************************************)
(* dispatch()                                                              *)
(***************************************************************************)

Matching(event) == {s \in specs : event \in s.events}

\* The clock is read once, before the loop over the hooks.
BeginsLoop(d, event) ==
  /\ dispatching[d] = Resting
  /\ dispatching' = [dispatching EXCEPT ![d] = [@ EXCEPT !.event = event, !.now = clock, !.todo = Matching(event)]]

Dispatch(d) ==
  /\ Serving
  /\ \E event \in KnownEvents \ {"on_shutdown"} : Matching(event) # {} /\ BeginsLoop(d, event)
  /\ UNCHANGED <<specs, clock, lastFired, live, run, stats, cleanup, deadline, times, gaveUp>>

Key(d, s) == <<dispatching[d].event, s.name>>
LastFired(k) == IF k \in DOMAIN lastFired THEN lastFired[k] ELSE 0

TooSoonNow(d, s) == dispatching[d].now < LastFired(Key(d, s))

\* A clock read before another thread fired is too soon as well.
TooSoon(d, s) == dispatching[d].now < LastFired(Key(d, s)) + MinInterval

IsNext(d, s) == Serving /\ dispatching[d].fires = {} /\ s \in dispatching[d].todo

Throttle(d, s) ==
  /\ IsNext(d, s) /\ TooSoon(d, s)
  /\ dispatching' = [dispatching EXCEPT ![d].todo = @ \ {s}]
  /\ UNCHANGED <<specs, clock, lastFired, live, run, stats, cleanup, deadline, times, gaveUp>>

\* The throttle is set and the firing counted under one lock, before the thread starts.
Fire(d, s) ==
  /\ IsNext(d, s) /\ ~TooSoon(d, s)
  /\ LET now == dispatching[d].now IN
     /\ lastFired' = [k \in DOMAIN lastFired \cup {Key(d, s)} |-> IF k = Key(d, s) THEN now ELSE lastFired[k]]
     /\ times' = Append(times, <<Key(d, s), now>>)
  /\ stats' = [stats EXCEPT !.fired = @ + 1]
  /\ dispatching' = [dispatching EXCEPT ![d].todo = @ \ {s}, ![d].fires = {s}]
  /\ UNCHANGED <<specs, clock, live, run, cleanup, deadline, gaveUp>>

Fired(d) == Serving /\ dispatching[d].fires # {} /\ dispatching' = [dispatching EXCEPT ![d].fires = {}]

\* The thread is started, and not in _live yet.
Launch(d) ==
  /\ Fired(d)
  /\ LET r == CHOOSE r \in Runs : run[r].at = "unused"
         s == CHOOSE s \in dispatching[d].fires : TRUE IN
     /\ \E q \in Runs : run[q].at = "unused"
     /\ run' = [run EXCEPT ![r].at = "started", ![r].timeout = s.timeout]
  /\ UNCHANGED <<specs, clock, lastFired, live, stats, cleanup, deadline, times, gaveUp>>

FailureUncounted == stats

\* Thread.start() raises: what counts as fired counts as failed.
FailureCounted == [stats EXCEPT !.ended = @ + 1]

StartFails(d) ==
  /\ Fired(d)
  /\ stats' = FailureCounted
  /\ UNCHANGED <<specs, clock, lastFired, live, run, cleanup, deadline, times, gaveUp>>

Return(d) ==
  /\ Serving /\ dispatching[d].event \notin {"none", "on_shutdown"}
  /\ dispatching[d].todo = {} /\ dispatching[d].fires = {}
  /\ dispatching' = [dispatching EXCEPT ![d] = Resting]
  /\ UNCHANGED <<specs, clock, lastFired, live, run, stats, cleanup, deadline, times, gaveUp>>

DispatchStep(d) ==
  (\E s \in specs : Throttle(d, s) \/ Fire(d, s)) \/ Launch(d) \/ StartFails(d) \/ Return(d)

(***************************************************************************)
(* The threads of the hooks                                                *)
(***************************************************************************)

Moves(r, from, to) ==
  /\ Serving /\ run[r].at = from
  /\ UNCHANGED <<specs, clock, lastFired, dispatching, cleanup, deadline, times, gaveUp>>
  /\ run' = [run EXCEPT ![r].at = to, ![r].late = @ \/ (from = "started" /\ cleanup = "rest")]

Enter(r) == Moves(r, "started", "runs") /\ live' = live \cup {r} /\ UNCHANGED stats

\* The command ends, by itself or because it cannot run, and is counted.
CommandEnds(r) == Moves(r, "runs", "counted") /\ stats' = [stats EXCEPT !.ended = @ + 1] /\ UNCHANGED live

\* communicate() gives up at the timeout, which never comes if it is a nan, and which
\* may be later than the deadline of a drain: nobody may count on it there.
TimesOut(r) == run[r].timeout # NaN /\ cleanup \notin {"look", "join"} /\ CommandEnds(r)

StaysAlive(r) == live

\* The thread leaves _live, whichever way its command ended.
Discarded(r) == live \ {r}

Leave(r) == Moves(r, "counted", "ended") /\ live' = Discarded(r) /\ UNCHANGED stats

RunStep(r) == Enter(r) \/ TimesOut(r) \/ Leave(r)

(***************************************************************************)
(* _cleanup(): on_shutdown, drain(), and the rest of the shutdown, in      *)
(* which jobs and evictions dispatch again and nobody waits.               *)
(***************************************************************************)

BeginCleanup(d) ==
  /\ Serving /\ cleanup = "no" /\ BeginsLoop(d, "on_shutdown")
  /\ cleanup' = "dispatch"
  /\ UNCHANGED <<specs, clock, lastFired, live, run, stats, deadline, times, gaveUp>>

BeginDrain(d) ==
  /\ Serving /\ cleanup = "dispatch" /\ dispatching[d].event = "on_shutdown"
  /\ dispatching[d].todo = {} /\ dispatching[d].fires = {}
  /\ dispatching' = [dispatching EXCEPT ![d] = Resting]
  /\ cleanup' = "look" /\ deadline' = clock + DrainTicks
  /\ UNCHANGED <<specs, clock, lastFired, live, run, stats, times, gaveUp>>

NeverUp == FALSE
TimeIsUp == clock >= deadline

\* drain() looks at _live until it is empty or the time is up.
DrainLooks ==
  /\ Serving /\ cleanup = "look"
  /\ cleanup' = IF live = {} \/ TimeIsUp THEN "rest" ELSE "join"
  /\ gaveUp' = (live # {} /\ TimeIsUp)
  /\ UNCHANGED <<specs, clock, lastFired, live, run, dispatching, stats, deadline, times>>

LooksOnce == "rest"

\* Each thread is joined for 0.5 s at most, and then it looks again.
AfterJoin == "look"

DrainJoins ==
  /\ Serving /\ cleanup = "join"
  /\ cleanup' = AfterJoin
  /\ UNCHANGED <<specs, clock, lastFired, live, run, dispatching, stats, deadline, times, gaveUp>>

\* The interpreter ends, and the daemon threads with it.
Exit ==
  /\ Serving /\ cleanup = "rest"
  /\ cleanup' = "over"
  /\ UNCHANGED <<specs, clock, lastFired, live, run, dispatching, stats, deadline, times, gaveUp>>

DrainStep == (\E d \in Dispatchers : BeginDrain(d)) \/ DrainLooks \/ DrainJoins \/ Exit

HooksNext ==
  \/ Tick \/ DrainStep
  \/ \E d \in Dispatchers : Dispatch(d) \/ DispatchStep(d) \/ BeginCleanup(d)
  \/ \E r \in Runs : RunStep(r) \/ CommandEnds(r)
HooksSpec == HooksInit /\ [][HooksNext]_hookVars

(***************************************************************************)
(* Properties                                                              *)
(***************************************************************************)

\* Every variable keeps its type; the threads in _live are those that run.
HooksTypeOK ==
  /\ \A s \in specs : s.events \subseteq KnownEvents /\ s.timeout \in 1..NaN
  /\ clock \in Nat /\ deadline \in Nat
  /\ run \in [Runs -> [at : {"unused", "started", "runs", "counted", "ended"}, timeout : Nat, late : BOOLEAN]]
  /\ live = {r \in Runs : run[r].at \in {"runs", "counted"}}
  /\ stats \in [fired : Nat, ended : Nat]
  /\ cleanup \in {"no", "dispatch", "look", "join", "rest", "over"}

\* Two firings of one hook for one event are at least the interval apart on the clocks
\* of their dispatches, whatever the order in which the threads read the clock and
\* take the lock.
FiresAreSpaced ==
  \A i, j \in DOMAIN times :
    i < j /\ times[i][1] = times[j][1] => times[j][2] >= times[i][2] + MinInterval

\* What is reported as fired has ended one way or the other, or is about to: nothing is
\* lost or counted twice between the two locks, and a thread that does not start counts.
HooksAreAccounted ==
  stats.fired = stats.ended + Cardinality({r \in Runs : run[r].at \in {"started", "runs"}})
                + Cardinality({d \in Dispatchers : dispatching[d].fires # {}})

\* Unless drain() ran out of time, the end of the supervisor cuts off only hooks whose
\* threads entered _live after drain() looked for the last time.  on_shutdown itself
\* may be one of these.
KilledOnlyIfLate ==
  cleanup = "over" /\ ~gaveUp => \A r \in live : run[r].late

\* No firing is too early, forgotten or counted twice, and none that was in time is cut off.
HooksConsistent == HooksTypeOK /\ FiresAreSpaced /\ HooksAreAccounted /\ KilledOnlyIfLate

\* A hook holds the shutdown up, or a thread of its own.  Neither may last: the drain has
\* its deadline, and every hook that was taken from hooks.yaml has a timeout.
HeldUp == cleanup # "over" /\ (cleanup # "no" \/ \E r \in Runs : run[r].at = "runs")
=============================================================================
