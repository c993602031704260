# Formal models of vramd

vramd is a daemon that serves GPU generation jobs: clients send requests over a
Unix socket, the daemon queues them, keeps models loaded in worker processes as
far as the VRAM allows, evicts idle ones, and runs the jobs. This directory
holds TLA+ modules of its parts, TLC configurations that check them on small
instances, and TLAPS proofs of what holds for every instance.

Paths below are relative to the package directory `src/vramd` of the repository.

## The system

| Part | State | Operations | What is hard about it |
| --- | --- | --- | --- |
| Job queue (`job_queue.py`) | `_jobs`, `_queued`, `_running_ids`, `_inflight`, per job: state, cancel flag, retry counters | enqueue, take, finish, requeue_running, cancel, cancel_all, purge | three actors (threads, clients, shutdown) act on one job; counters must agree with sets |
| Write-ahead log (`job_queue.py`) | JSONL file, `_wal_ops_since_compact` | append, compaction, replay | a crash between any two appends; compaction and replay decide what survives |
| Scheduler (`scheduler.py`) | `affinity_cuts` per job | pick_next | shared by threads, compares outside the lock |
| Dispatcher (`dispatcher.py`) | threads, `_stop`, `vram_flat_retries` | claim, run, retry after a dead worker or lack of VRAM, stop | everything a thread decides is stale when it acts |
| Backend manager (`backend_manager.py`) | per backend: loaded, ref_count, locks, load shape | ensure_loaded, generate, evict, respawn, zero, shutdown_worker, health check | eviction is marked under a lock and done outside; pins; two locks |
| VRAM planner (`vram_planner.py`) | none | plan_eviction, can_admit | order and stopping rule of the greedy choice |
| Worker pool (`subprocess_pool.py`) | per backend: process, loaded, jobs_served | load, generate, unload, shutdown, ping, forced abort | pipes, timeouts, late answers, dead processes |
| Worker process (`worker/serve.py`) | model, abort flag, command queue | load, generate, unload, abort, shutdown | reader thread against main loop; failing unloads |
| Idle evictor (`idle_evictor.py`) | timer | evict, shut workers down, health check | acts on backends a job is about to use |
| Server (`server.py`) | socket, client slots | start-up, dispatch of commands, shutdown | order of start-up; busy checks before respawn and zero |
| Process guard (`process_guard.py`) | lock file | singleton lock, reap strays | who may kill whom |
| Learning of footprints (`learn.py`) | `_active`, `_recents`, JSONL store, last verdict | tick, finalise, reset, restart | jobs end, come back and are purged between two looks; a reset in the middle |
| Event hooks (`hooks.py`) | throttle times, live threads, counts | parse, dispatch, run, drain | threads of their own, drained by a shutdown that waits 3 s |
| Clients and command line (`client.py`, `cli.py`) | none that lasts | start a supervisor, delegate, fall back, reap | what a probe said is old when it is acted on |
| GPU queries (`gpu.py`) | none | list processes, kill what is on the GPU | asks the supervisor first, kills seconds later |
| Registry and toolchain (`registry.py`, `toolchain.py`) | descriptors by name | layers, merge, conversion, commands | a layer of the operator may be missing, broken or partial |
| Calibration (`calibrate/`) | series of samples, marks | load, generate, unload, sample, analyse, emit | two threads sample; what they miss looks like a small peak |
| Server of agents (`mcp_server.py`) | a pool of four threads, a queue of answers | read lines, handle, write, end | calls that wait ten minutes beside others; either pipe may end meanwhile |
| Statistics, logging, live display | counters | - | input, output and formatting |

How they interact: a client's request becomes `enqueue` in a server thread; a
dispatcher thread picks it, `take`s it and calls `manager.generate`, which loads
the backend through the worker pool, runs it there and returns a result or
raises; the thread then calls `finish`, or `requeue_running` for a retry.
`cancel` sets a flag that the pool polls while it waits for the worker. The idle
evictor, respawn, zero and ensure_vram call into the manager from threads of
their own. After a crash the next daemon replays the log before its threads
start. Handler threads of the server listen to a job's events and pass them to
their clients; the dispatcher's threads dispatch hooks when a job ends. What the
learner or a calibration measured reaches the admission as descriptors, through
the layers of the registry.

## Modules

**`JobQueue`** - the queue, the jobs' life and the log. Every method of the class
that changes state holds the queue's lock throughout, so each is one action with
the append to the log inside it. What is not one critical section is split: the
completion callback (`Notify`), the loop of `cancel_all` (`CancelAllBegin`,
`CancelAllStep`, `CancelAllEnd`: it keeps the lock, but each append is durable on
its own and a crash may fall between two), `Crash` and `Restart`. `Restart` is
`replay_from_wal`: the jobs whose last record is not "finished", in the order of
their first record, up to `MaxDepth`. The variables are named after the fields;
`accepted`, `settled`, `notified`, `acked` and `crashes` are history variables; `acked`
has what was promised to whoever cancelled: an acknowledged cancel is "kept" until the
daemon dies under the job that still ran. A job in
the model is a request together with its identifier; that replay draws a fresh
identifier is left out, and so are the texts of errors, except that an error
which speaks of a cancel is taken for one (`Outcome`).

**`JobLifecycle`** - the abstract promise: a request waits, runs, may be put back,
and gets one outcome; no retry after an acknowledged cancel; at most `Slots` run.
**`JobQueueRefinement`** maps `JobQueue` to it, reading a request's phase from
memory while the daemon is up and from the log while it is down.

**`Dispatcher`** - the worker threads and the scheduler over `JobQueue`, one `pc`
per thread, one step per critical section or decision: `FindsWork`, `Pick`, `Cut`
(the increment is under a lock, the comparison before it is not), `Fits` /
`DoesNotFit`, `TakePicked` / `TakeFails`, the run, the two retries with their
back-off, `FinishJob` and `NotifyJob`; and the clients' submit, cancel,
cancel_all, and `Stop`. Open, and therefore chosen by the environment: which
jobs are hot, whether the head has starved, whether a job fits the free VRAM,
whether an eviction changed anything, and what `manager.generate` returns
(`Results`).

**`WorkerProtocol`** - one backend of the worker pool and its worker process. The
pool's calls hold the backend's lock from the command to the answer, so there is
one `call` at a time; it begins (`CallLoad`, `CallOther`, or `SendFails` when the
process dies just before the write), and ends by an answer, at the end of the
process's output or by a timeout (`TakeAnswer`, `Eof`, `Timeout`). What it leaves
unread or unexecuted stays in the pipes `cmds` and `events` for the next call;
only `ForceAbort` - after the timeout of a load or a generate, for recycling, in
shutdown - and a new process start with empty ones. The worker is its reader
thread (`ReaderReads`, which sets the abort flag itself) and its main loop, in
which the answer to a generate and the reset of the flag are two steps, because
the reader runs in between. `weights` counts the models the process holds, which
`model`, the loop's variable, need not tell. Commands and events carry the number
of their call for the properties' sake; the code has no such number and no guard
reads it. `Timeout` and `Dies` may come at any moment. `load` that reuses the model
changes nothing and is no step; that the shape differs is left open. Spawns that
fail, malformed lines and the grace period of SIGTERM are left out.

**`BackendManager`** - `generate`, `ensure_loaded`, the evictions, `respawn`,
`zero_vram`, `shutdown_worker`, the health check and `ensure_vram`, over the table
of worker processes they share with the pool. A critical section under
`_struct_lock` is one step; everything slow is outside it and a step of its own:
the deferred half of an eviction, a poll for free VRAM, a load, a generate, the
killing of a worker. A call into the pool looks the worker's state object up first
and acts on that object later, even if the table has lost it by then. The idle
evictor is one of the admin threads, and so are the server's commands; its clock is
left out, so it may come at any time. A model takes one unit of VRAM. `hurt` and
`raced` are history variables: a worker was ended or emptied after a job had come to
rely on it, or the mark it relied on when it pinned was out of date; two loads overlapped. `Entry` bounds the state objects of a backend that
kept apart at once, one per thread and the one in the table; in the instance checked a
load always finds a free one.

**`Admission`** - the arithmetic: the mode of a request, the parts and the peak it is
admitted by, the headroom of a hot one, the plan of evictions, which is the set of the
places it takes: a backend is in it if those the code would take earlier do not free enough. **`Measurement`** -
from the samples of a calibration to the descriptor that `Admission` reads: windows
by bisection (a recursive function of the length that is left), peaks, medians by rank,
confidence, overlay. A descriptor has its load keys, a request may name a footprint, and
`LoadKwargs` is what of a request gets to the load. **`Calibration`** - the run that takes the
samples, with the runner's thread and the loop thread, each sample in two steps, a
worker that allocates and forks, others on the card, and probes, lookups and calls
that fail, or whose failure is suppressed (`CallIsLost`). **`PeakDrift`** - the drift
verdict, its suggestion, and what the admission declares once that is applied as a static
peak. **`PeakTracker`** - the learner's tick step by step, its memory and its file, `reset`
between any two steps, and a restart; a job's state tells how it had ended when the queue
purged it, which the tracker cannot see. **`Registry`** - the layers of descriptors,
`_deep_update`, the conversion, the refusal to start without a backend, the resolution of
a worker's command; an entry is a function from the paths of its fields to values. **`ProcessTree`** - which processes a starting
supervisor takes for leftovers, from a table that may have holes and circles; what it is
held against is the least set closed under "is the parent of".

**`Supervisor`** - two supervisors and two clients over one directory: the lock, the
socket and pid files, the reaping of strays, the accept loop with its slots and its
idle test, the clean-up step by step, stops, SIGKILLs, reaps from the shell; clients
that probe, start a supervisor, delegate and fall back. A process knows of the others
what it reads: `Answers` is what a probe may say, and one of a live supervisor may fail, as
it does when the backlog is full. The queue is reduced to what clients see of it, and the log
to the jobs in it: any append may compact it, which leaves out what runs (`Logged`;
`forgotten` is a history variable), and a replay keeps as many as there is room for. A
supervisor knows a worker by its `--ums-worker`; those of the clients in `External`, whose
backend is a command of the operator's own, it does not find.

**`FrontEnd`** - one job and the handlers that stream it, wait for it or poll it. Only
the GIL orders what the thread of the job writes and what the handlers read, so each
field is a step: result, state, listeners, done; list, flag, done again. A client of
a stream may go at any time, and a deadline may pass.

**`EventHooks`** - the hooks from the parsing of their entries to their threads: the
clock is read before the lock, a thread enters `_live` itself, the drain looks, joins
and looks again, and what `_cleanup` does after it dispatches once more.

**`GpuKill`** - `kill_gpu_compute_processes_aggressive` beside a supervisor that goes on
working: probe, snapshot of the queue, protected pids, list, SIGTERM, SIGKILL.

**`McpServer`** - the loop over the lines of an agent's host, the pool that handles
them, the writer, and how they end when the input ends, the host breaks the pipe or
stops to read, or Ctrl+C comes; and, as an operator on a tool and its arguments, what
the tool sends to the supervisor (`Sent`). What a line is about is its kind.

`MCJobQueue`, `MCJobQueueDurable`, `MCDispatcher`, `MCBackendManager`, `MCSupervisor`,
`MCMeasuring`, `MCCalibration` and `MCConversations` instantiate them for TLC. The last
but one and the last put components side by side that do not interact, each alone in a
behaviour (`activity`, `conversation`): `MCMeasuring` learning, calibration, and the
pure operators on all of a set of inputs; `MCConversations` the worker, the clients,
the hooks, the tool that kills, and the host of an agent.

Operators such as `HasSlotTooMany` or `LogStale` that stand before the definition
they resemble are plausible mistakes in it; no specification uses them. Each
property was seen to fail with one of them in place.

A run's properties are often conjunctions of named parts of one theme, with a comment
of its own at each part: `LogIsFaithful` (`NothingAcceptedIsLost`,
`LogKeepsArrivalOrder`), `DispatcherConsistent` (`RunningHasOneThread` and types),
`ManagerConsistent` (`PinsAreCounted`, `HoldersProceed` and types), `SupervisorConsistent`
(`SlotsAreCounted` and types), `RestartsAreClean`, `ProtocolConsistent`,
`ClientsAreServed`, `HooksConsistent` (`KilledOnlyIfLate` among others), `KillSpares`,
`AgentIsHeard` (`AnsweredOnce`, `OnlyWhatItSays`), `ConversationsEnd` (`HeldUp`,
`Unanswered`, `Lingers`), `LearningConsistent`,
`CalibrationConsistent`, `AdmissionCovers`, `RoomIsMade`, `DescriptorsAreSound`,
`MeasuringEnds`. Each part was seen to fail by itself with one of those mistakes.

## Runs

| Run | Question | Result |
| --- | --- | --- |
| `queue` (`MCJobQueue.cfg`) | Can an interleaving with compaction, a crash and a replay leak a slot, lose or duplicate a queue entry, undo an acknowledged cancel, revive a finished job, notify twice? | no, but for the cancel of a job that runs when the daemon dies |
| `durability` (`MCJobQueueDurable.cfg`) | Without compaction, with room for every job: is an accepted job ever lost over two crashes, is the order of arrival kept, does the queue implement `JobLifecycle`? | never lost, kept, yes |
| `compaction` (`MCJobQueueCompaction.cfg`) | Does the log always hold every queued or running job? | **no**: a compaction writes the queued ones only |
| `dispatch` (`MCDispatcher.cfg`) | Two threads with stale picks, both retries, cancels and stop: can a job run twice at once, be stranded, be retried too often, or be put back after `FlatMax` fruitless evictions in a row? By how much can the affinity cuts of a head exceed max_cuts, which `scheduler.py` says they never do? | no; by one per other thread, since the comparison is outside the lock |
| `dispatch_live` (`MCDispatcherLive.cfg`) | Does every accepted job get an outcome, and every cancel its effect? | yes |
| `conversations` (`MCConversations.cfg`) | Worker: until an unload raises, can a load or generate take an answer that is not its own, or the pool be wrong about what is loaded? After it: can a generate meet a worker without a model, more models leak than unloads raised, a process outlive `MaxJobs` jobs? Clients: is a stream told everything, once and in order, does every client get one answer and nobody wait in vain, is a result counted once, does a poll agree with itself? Hooks: are firings spaced and accounted for, does a shutdown get past them and cut off only the late ones, does each end? Tool: does it kill work the supervisor told it of? Agent: is every line that was read answered once before the server ends, are other calls answered while one waits for its job, and does a tool do only what it was told to? | no; yes; yes; no; yes |
| `manager` (`MCBackendManager.cfg`) | Two jobs and a thread of admin calls: are pins counted right, does a job find the model it asked for unless its worker was taken from it, are weights ever forgotten or the VRAM overcommitted, can anybody deadlock? | right, yes; only by overlapping loads; no |
| `manager_pin` (`MCBackendManagerPin.cfg`) | Do pinned backends keep their weights, as `vram_planner.py` says? | **no**: the deferred half of an eviction empties a worker that was loaded and pinned again |
| `manager_reload` (`MCBackendManagerReload.cfg`) | Is a backend in use never reloaded with another shape, as `ShapeBusyError` says? | **no**: one whose worker died is, under the pin of a job that then generates on the wrong shape |
| `supervisor` (`MCSupervisor.cfg`) | Two starts, two clients, stops, kills and reaps: is the one that serves found, do slots come back, are jobs logged, orphans gone before a replay, fallbacks alone, do clients decide and stops take effect? | yes, but for what ran when the log was compacted, for workers of the operator's own, and for supervisors too busy for a probe |
| `measuring` (`MCMeasuring.cfg`) | Do memory and file of the learner agree, are failures that it sees kept from judging, does a reset forget, does a suggestion settle? Is a job with the kwargs of a calibration admitted by it, with room for every reading, cold and hot, and does the run end? Do the eviction plan, the room for a load, the merged layers, the commands and the list of strays keep their contract? | yes, each under the conditions below |
| `calibration_blind` (`MCCalibrationBlind.cfg`) | Is a calibration that saw nothing distrusted, as `runner.py` says? | **no**: with a driver that tells no memory of processes it has high confidence in a peak of 0 |

The four runs that end in a counterexample are the disagreements between code and
documentation in `PROJECT.json`, with the lines. More limits of what holds, each
seen in a model:

- Queue: `cancel` of a running job sets a flag in memory and writes nothing to the log
  (`job_queue.py:688-697`). If the daemon dies before the run ends, the replay queues the
  job again although the cancel was acknowledged: `CancelSticks` excepts exactly that.
- Queue: with compaction, `LogKeepsArrivalOrder` does not hold, because compaction
  writes the queue's order, in which a requeued job comes first. A replay drops the
  jobs beyond `max_depth`, which running ones do not count towards, and the rewritten
  log forgets them.
- Dispatcher: two threads that both see nothing inflight start two jobs without the
  look at the free VRAM that `dispatcher.py` promises.
- Manager: in `manager_reload` there is one job at a time, as by default. It pins the
  backend, whose worker then dies; a preload of another shape finds a dead worker, marks
  the backend unloaded whatever its `ref_count`, and loads its own shape; the job, which
  was waiting for `gen_lock`, generates on it. `PinGuarantee` holds, since it excepts a job
  whose worker died.
- Worker: `AnswersMatch` needs `raised = 0`: an unload that gives up after 60 s leaves
  the worker running, and if it then raises, the next generate takes that error for
  its answer and the one after returns the result of the one before. A load drops the
  reference of a model it could not unload. An abort that is read after its job's reset
  of the flag cancels the next job, and one between an answer and its reset is erased.
  `jobs_served` survives the process, so after the first recycling every job is
  followed by one.
- Supervisor: a compaction forgets the jobs that run, and a replay drops what is beyond
  `max_depth`; `UnfinishedIsLogged` is about the others. `find_strays` knows a worker by
  `--ums-worker` on its command line (`process_guard.py:172`): the worker of a backend with
  a command of the operator's own (`examples/backends.yaml`) computes on beside the replay
  of its job until it notices, and `OrphansAreGone` leaves it out. A supervisor that is too
  busy for the probe of a client (`client.py:104-110`) looks dead to it: the client then
  does the work beside it, the one case that `FallbackIsAlone` allows ("unheard").
- Supervisor: a SIGTERM before `_running = True` is overwritten. A client that falls back
  after a crash does work that the replay does too. The reap at a start takes supervisors
  and workers of other socket directories for strays.
- Learning: a failed job that is purged from the queue before the tracker looks at it is
  learned as a success (`learn.py:504-505`), although the comments at `learn.py:72-73` and
  `246-249` say that failures do not judge. `SeenFailuresDoNotJudge` is about those that
  are seen, and counts the others where the code does.
- Learning: `learn --apply` writes a suggestion as `vram_mib` (`learn.py:321`), while the alarm
  compares with `peak_vram_mib`, which adds a safety of 384 MiB to the parts it makes of it.
  Observed peaks of 900 MiB lead to a suggestion of 1152 and a declared peak of 1536, and the
  alarm stays. `SuggestionSettles` says what is true: of a backend with nothing but a
  static peak, in the classic mode, what is declared never falls below the observed, and
  the alarm ends if the largest is at least 2987 MiB. The suggestion for a quantized job is
  scaled by the weights' factor once more, and a backend with a footprint ignores `vram_mib`.
- Admission: a calibration labels its block by code of its own (`cli.py:1658-1660`), and a
  block whose label differs from the mode of a request is left aside
  (`backend_manager.py:591`). `memory_efficient` without a quantization is labelled
  `none` and resolved to `sdnq-uint8` (`backend_manager.py:531-532`), so the job that was
  calibrated is admitted by the declared footprint; the comment at `cli.py:1655-1657` and
  the entry 0.2.4 of the changelog call such a mismatch of `quant_preset` a bug. A placement
  that only the profile implies, or an earlier calibration left behind, does the same.
  `AdmissionCovers` is about kwargs for which the two agree, `Described`.
- Admission: `ensure_vram` is not told of `footprint_key` (`server.py:805-811`), and a backend
  with load keys of its own may keep the quantization from its load
  (`backend_manager.py:1086`): the room made may then be less than the load takes.
  `EnsureMakesRoom` is about requests whose kwargs are passed on, `PassedOn`.
- Admission: the activation measured in the economic mode is discounted twice when only
  the profile implies that mode.
- Calibration: the series is not ordered by time when the two samples pass each other,
  which `slice_window` takes for granted. Overlays leave out `unload_frees_vram` and
  `staged_load` where they are the default, and so do not take back what an earlier
  calibration said.
- Registry: the packaged file has no backend, and `vramd start` refuses to start without one
  (`cli.py:189-208`) unless told otherwise, so if the only file that names backends is
  missing or broken the supervisor does not start. `OnlyReadLayersBrick` is about a start
  with one file that is good, `NoneReadNoStart` about one without.
- Registry: an overlay of the operator that is read and has a value no descriptor can
  have stops the start, although `load_descriptors` says overlays do not.
- Hooks: `on_shutdown` itself may be missed by the drain, which looks before its thread
  is in `_live`. Two hooks without a name and with the same program share one throttle.
- The server of agents: `sys.stdout` is restored before the pool has ended, so what a
  handler prints after the end of input is in the stream of answers. Four calls that
  wait for their jobs hold back everything else, `ping` included. An answer that UTF-8
  cannot encode ends the writer without the event that would end the loop.
- The kill: a supervisor without a free slot, whose refusal reads like an idle queue, and
  one behind a full backlog, which looks like none, are not spared.

### Bounds

`queue`: three jobs are the fewest with one running, one waiting and one
finished, a queue of two makes enqueue refuse, a compaction at every third
append lets appends of each kind trigger it, one finished job kept makes purges
happen at every second finish, one crash. Crashes only matter through the log,
and a second one meets a log written by a replay: `durability` has two, with two
jobs.
`MaxVramRetries` and `MaxWorkerRetries` are 1 or 0: the queue treats both
kinds alike, and a second requeue of the same job meets the same state but for
the counter. `dispatch`: two threads suffice for a stale decision, since each
decision depends on the shared state and not on how many others changed it; two
jobs of one priority, so that threads compete for one, one can overtake the other, and
one that is put back to the front becomes a head that the other may jump. The two bands
of priority are in `dispatch_live`.
`dispatch` allows two VRAM retries against one fruitless eviction, so that either
may end them. Without a log (`WalEnabled = FALSE`) in the dispatcher's
runs: the log is never read between crashes, and crashes are the queue runs'
subject. The code's own values are 512 for compaction, 256 finished jobs, 3 cuts,
and tens of queued jobs; nothing in the code depends on these values beyond
the comparisons the small ones exercise.

`conversations`, worker: six calls, so that one process can serve its two jobs and
another start, with loads, a slow unload and pings in between, and so that answers of
two earlier calls can be in the pipe at once; one unload that raises, which is what all
later answers can slip by. Every call leaves at most two events, so nothing but the
number of calls bounds the pipes. The code recycles after 12 jobs. Clients: a stream and
a waiter together, so that both take one result, or a poller alone, which changes
nothing the others see; one report of progress, one requeue, one change of position.
Hooks: two dispatchers, the fewest whose clocks can pass each other; one hook thread,
since threads share nothing but the set `_live`; documents with good and bad entries of
each kind. The kill: two jobs, one known and one that comes later, and a supervisor that
starts twice. The agent: three lines, one of them a call that waits for its job, and two
threads, so that a thread is left; more waiting calls than threads are the limit above.

`manager`: two backends of which one fits, one that frees its VRAM and one that must be
killed for it; two jobs and one admin call of each kind at any time, one crash.
One shape besides "any": what two can do to a job is the subject of `manager_reload`. A second
admin call meets the same states that a job's evictions leave. `supervisor`: one slot and
a queue of one, so that either is at its limit; one trouble, that is a stop, a SIGKILL, an
error of `accept` or a reap; one client with a worker of the operator's own; one directory,
which is where starts meet. `measuring`: two jobs and lists of two
reach every cap; two generates, so that peaks can differ, one sample of the loop thread
and one disturbance at any point, of each of the runner's calls included; time passes
only by the clock being read, so gaps between samples are left out.

`CHECK_DEADLOCK FALSE` in the dispatcher's runs: after `Stop` the threads exit, and
when every job has its outcome nothing is left to do. In the other runs with it the
bounded calls, jobs and troubles run out, and a supervisor or a run that has ended
stays so. `manager` is checked for deadlock: there every thread that has made its calls
may rest, and one that cannot go on with a call would be found.

### Fairness

`DispatcherSpec` assumes weak fairness of each thread, and of a `cancel_all` in
progress. The queue's lock is held for a bounded time by straight-line code; the
sleeps are bounded; `manager.generate` returns because the worker pool ends every
wait for a worker with an idle timeout and kills the process. Nothing is assumed
of clients: no job need be submitted, no cancel need come. `EveryJobSettles` is
checked with one thread (the default, `MAX_INFLIGHT` = 1), which keeps the graph
of states small enough for the liveness check.

`SupervisorSpec`: weak fairness of each supervisor's own thread (its `accept` has a
timeout of 1 s), of handler threads, of jobs (as above) and of clients, whose reads have
time limits; none of stops, kills, reaps or new requests. `MeasuringSpec`: of the
tracker thread, which waits half a second and looks again whatever fails, and of the
runner, whose calls the pool ends; none of the loop thread, whose probe may hang.
`ConversationsSpec`: of handlers (a stream's wait has a timeout of 0.25 s), of threads
that dispatch a hook, of hook threads, whose commands end by their timeout but not
necessarily before a drain does, of the drain and of the clock, of the loop that reads
for an agent, of its pool and its writer; none of clients, of the commands themselves, of
the deadline of a request, of a job that an agent's call waits for, or of its host. Because a behaviour is of one
conversation, fairness of a step of one and of a step of another is one conjunct there.

## Proofs

Each theorem holds for every value of the constants that satisfies the assumption of its
component: any finite set of jobs and any bounds, with compaction, crashes and replays,
with and without a log (`JobAssumption`, `BoundAssumption`); any number of worker threads
(`WorkerAssumption`); any finite sets of jobs and admin threads, any backends, shapes
and capacity (`ManagerAssumption`); any supervisors, clients and directories
(`SupervisorAssumption`); any limit of jobs per process, any number of calls and of unloads
that raise (`ProtocolAssumption`); any streams, waiters and pollers (`FrontAssumption`); any
documents of hooks, threads that dispatch them and intervals (`HooksAssumption`); any jobs and
bystanders on the GPU (`KillAssumption`); any lines of an agent's host, of which `McpServer`
assumes nothing; any readings and caps of the two lists (`LearnAssumption`: that of the file
is at least that of memory); any number of repetitions and cycles, any peaks and others on the
card (`CalibrationAssumption`), any kwargs and descriptors with the fields that are read of
them (`RecordsAssumption`). What a theorem assumes besides is in its statement. Where a
property is about inputs that a run enumerates (`SuggestionSettles`, `RoomIsMade`,
`StraysAreTheOthers`), a theorem about all inputs stands beside it, and the one about the run
follows from it.

`JobQueueProofs`:

- `QueueTypeCorrect`: every variable keeps its type. `TypeOK` is inductive; the
  lemmas say what `Without`, `Append`, the push to the front, `Tail`, `Compacted`,
  `Log` and `Purge` return.
- `QueueAlwaysConsistent`: the counter is the number of running jobs, the queue
  holds each queued job once. The inductive invariant `QueueInv` adds to
  `QueueConsistent` three facts without which a step could break it: what was never
  accepted has no trace in state, log or queue, so that `enqueue` adds a job that is
  not there yet (`OnlyAccepted`); the list of finished jobs holds jobs that are over,
  so that a purge drops no live one (`FinishedIsOver`, and the lemma
  `PurgeKeepsLive`); and memory is empty while the daemon is down, so that a replay
  starts from nothing (`DownIsEmpty`).

The induction is in lemmas of their own (`QueueStepType`, `QueueStepKeeps`), so that the
proofs about the dispatcher can use it for a step of the queue inside a step of a thread.

Its second part is about the outcome of jobs, each theorem on top of the ones before,
which its induction step uses in the state before the step and, where it needs it, in the
one after:

- `EndIsFinal`: a job whose end was recorded never waits, runs or is replayed again
  (`EndInv`). The argument is about the log: the lemmas `PendingAppended`,
  `PendingCompacted` and `PendingLogged` say how `Pending`, the jobs a replay would
  bring back, changes by an append, a compaction and the two together.
- `CancelAlwaysSticks`: a job with an acknowledged cancel is not queued again and ends
  only as cancelled, unless the daemon died while it ran (`CancelInv`: the job is accepted, and runs
  with its flag set or has ended as cancelled).
- `CallbackAtMostOnce`: from `NotifyInv`, which also says that the jobs `finish` owes
  a callback and those `cancel_all` owes one are disjoint and not yet notified.

`DurabilityProofs`, about the queue with its log:

- `NothingIsLostWhenQuiet`: with a log, `NothingAcceptedIsLost` for `QuietSpec`, that is
  for any number of crashes, compactions and replays as long as no append compacts the log
  while a job runs and a replay has room. Neither condition is one the code enforces; the
  run `compaction` shows that the first is needed, and on two jobs with a queue of one and
  a compaction at every third append TLC finds the property to hold under `QuietSpec` and
  to fail without either. In `durability` both always hold. The lemmas say
  the opposite of those behind `EndIsFinal`: which jobs stay pending over an append
  (`AppendedKeeps`), a compaction (`CompactedKeeps`), the two together (`LoggedKeeps`), and
  a replay (`ReplayFindsAll`: if one were left out the queue would be full, and then more
  are pending than it holds). The property is inductive given `QueueInv` and `EndInv`.
- `QueueImplementsLifecycle`: under the same conditions `JobQueue` implements
  `JobLifecycle`. Since nothing is lost, the phase of a request is a function of its end,
  its acceptance and its state alone (`KeptPhase`), up or down, and each action is then one
  of the lifecycle (`QuietStepIsLifeStep`): an enqueue `Accept`, a take `Start` (the active
  requests are `running`, which `inflight` counts), a requeue `Retry`, an end `Complete`,
  the cancels `CancelWaiting` and `CancelActive`, a crash `Interrupt`; a replay stutters.
- `ArrivalOrderIsKept`, `LogIsFaithfulWithoutCompaction`: as long as no append compacts the
  log, it holds the live jobs in the order of arrival, whatever was requeued to the front;
  inductive once one adds that no number given is above the counter (`OrderInv`). With room
  for the replay, all of `LogIsFaithful`.

`DispatcherProofs`, for any number of threads, with one invariant for the first three:

- `OneThreadPerRunningJob`: `DispatcherConsistent`. `ThreadsInv` replaces the count of
  `RunningHasOneThread` by three facts that a step can break only one at a time: what a
  thread holds is running (`HeldRuns`), no two threads hold the same job (`HeldOnce`), each
  running job is held (`NoneForgotten`).
- `ThreadsUseQueue`: every step of a thread is a step of `JobQueue` or leaves it alone, so
  that all that is proved of the queue holds under the dispatcher. The retry limits are the
  point: a thread compares the counter, evicts, sleeps, and requeues much later. The
  counter cannot have moved because only the thread that holds a job moves it
  (`RetriesLeft`, which needs `HeldOnce`).
- `FlatJobsStayOut`: a job that `FlatMax` evictions in a row did not help is not queued
  again (`NotFlatYet`, `FlatIsOver`).
- `CutsAreBounded`: the cuts of a head, with those that threads have decided on and not
  yet counted, are at most the limit plus the other threads (`CutsInv`): a thread decides
  for a further cut only if it sees the counter below the limit, and then at most all of
  them are about to count one.

`BackendManagerProofs`:

- `PinsAndLocks`: `ManagerConsistent`, for any finite sets of jobs and admin threads, any
  backends, any number of calls and crashes. The inductive invariant `ManagerInv` has
  three parts. `ThreadOK` is about one thread alone: which call it is in determines where
  it can be and which of its variables are set, so that a thread at a place where it has a
  pin runs `generate`. Since a step changes the place and the variables of its own thread
  only (`Others`), no other thread can break it (`OthersKeep`). `PinsAreCounted` ties the
  counters to the threads; `PinsStay`, `PinsAdd` and `PinsDrop` say what a step must do
  to keep it. `HoldersInside` ties the locks to the threads, evictions in between
  included; `LocksStay`, `LocksTake` and `LocksFree` do the same for it. Then there is
  one lemma per action.

Its second part is on top of that and about the models in the workers:

- `NoForgottenWeightsForAll` and `PinGuaranteeForAll` share `ModelInv`. A model is seen by
  the planner, or a thread answers for it (`Explained`). What a job that pinned a backend
  knows of its worker (`PinOK`) can be undone by others only together with `hurt`, since a
  thread changes a backend's worker and table entry only while it has its lock, or by an
  eviction or a kill that marks those it takes the worker from. `UnderLock` says what a
  thread under a lock knows.
- `OvercommitOnlyByRaceForAll` (`RoomInv`): until two loads have overlapped at most one
  thread is about to load, and while it is, there is room for its model.

`SupervisorProofs`, from one invariant, `SupervisorInv`:

- `ServingIsReachableForAll`: from the bind to its clean-up a supervisor has the lock of
  its directory and both files name it (`FilesOK`): others unlink only under the lock.
- `ConsistentForAll`: the slots given are as many as the connections with a thread
  (`SlotsOK`; `SlotsStay`, `SlotsAdd` and `SlotsDrop` say what a step must do).
- `RestartsAreCleanForAll`: whoever has the lock and is about to reap has on its list all
  that came before it and is still there, and every orphan it can know (`ReapOK`): so when it
  replays, nothing is left but workers of the operator's own. What is in memory is in the
  log or was running when that was compacted (`JobOK`).
- `FallbackIsAloneForAll`, an action property: a client that falls back has just found
  nobody behind the files of its directory, and has not merely gone unheard; a supervisor
  that serves and has its job would be there, since the job is in one of that directory
  (`JobOK`), which the files name.

`WorkerProtocolProofs`:

- `AnswersAreOwn`: `AnswersMatch`. Until an unload raises, what a load or a generate leaves
  behind is one trace of the call under way, at one place (`Trace`: `Sent`, `Queued`,
  `InHand`, `Answered`), and of no other call: it ends by the answer, which is the last of the
  trace, or the process ends with all of it. What it gives up waiting for is killed, and that
  is the point of `KillsOnTimeout`. A load is the last command there is until it is answered,
  so that nothing undoes it.
- `PoolKnowsItsWorker`: `ProtocolConsistent`. `WillLoad`, what the pool takes for loaded the
  worker has or is about to load, holds over raised unloads as well, when answers slip;
  `CountsOK` has the numbers of models and jobs.

`ConversationsProofs`, a part per component, each with an invariant of its own:

- `ClientsAreServedForAll` (`FrontInv`). The order in which the thread of a job writes its
  fields (`JobOK`) is what lets a handler conclude anything: a result is there before the
  state, the state before the last event, and that before `done`. A stream has heard what was
  emitted since it joined but for the event it is still to be called with (`HeardOK`), and
  told what it has sent (`StreamOK`); `TellsEach` is carried over the lines of a stream by
  lemmas on what one more line and one more event do to it. The look at the list after `done`
  is the point: only then nothing can come after it.
- `HooksConsistentForAll` (`HooksInv`). Firings are spaced because the throttle remembers
  the last of each kind (`ThrottleKnows`), although the clock was read before the lock; the
  count of firings is the count of threads at work and ended, and what a thread is still to
  launch; and once the drain has looked, nobody is live who was not late (`LateOnes`).
- `KillSparesForAll` (`KillInv`): what the tool knows after an answer is what it was told, and
  a tool that goes on was told of no job (`AnswerCounts`); its targets are never among those
  to be spared (`TargetsAreOthers`).
- `AgentIsHeardForAll` (`McpInv`): the number of a line that is due is in one of five places,
  once (`OnePlace`), and until a write fails it is in one of them (`NoneLost`). What is left
  when the loop ends rests on `SentinelOK`: the `None` is put after the pool has ended, so it
  is the last answer. `SaysOnly`, about the tools, is a lemma without a state.

`MeasuringProofs`, of learning, calibration, and the arithmetic:

- `LearningConsistentForAll` (`LearnInv`): memory is the end of the file but for the
  observation on its way from one to the other (`MemoryFollows`), the verdict that on what is
  remembered (`VerdictFollows`), until an append was torn or a reset came between the two.
  The one observation that escapes a reset was sampled before it, and no second one can be
  (`OneIsOld`). `CappedDef` and its like say what remains of a list by its cap, and that
  capping twice is capping once.
- `CalibrationConsistentForAll` (`CalibrationInv`): two threads sample into one series, so
  the order in it is not that of time; what stays true is that the later of two samples was
  not begun earlier in the run (`StampsInOrder`), that each mark is a sample, and that the
  runner goes nowhere while it samples (`RunnerStays`).
- `TrustedPeakIsTrueForAll`: a result of high confidence did not miss memory that a probe
  saw, where the driver tells the memory of processes (`DriverReports`); the run
  `calibration_blind` is what happens where it does not, so the hypothesis is needed.
  `MeasuredInv` adds to `CalibrationInv` what a sample tells of the worker and of the others
  (`SamplesTell`), that each step passed has its mark (`MarksAreMade`), and that before the
  load there is no worker (`LoadComesFirst`). The windows then hold all samples of the load and
  of each repetition, and the baseline none of them (`WindowsHold`), if the series is in order
  of time: the property says so (`InOrder`), since the code takes it for granted and it may be
  otherwise. For such a series bisection finds the window (`SliceIsTheWindow`; `BisectFinds`
  is by the least length on which the recursion and the place sought would differ).
  `MinHolds`, `MedianHolds` and `RankedHolds` bound what is taken of a window.
- `AdmissionCoversForAll`: from `MeasuredInv` too, for a series in order and kwargs that are
  `Described`: the overlay that a result is laid down as, read back, admits a job with room
  for what was measured, cold and hot. The lemmas are about the roundings, the modes of a
  request and the label (`LabelsAgree`, `DescribedApplies`): that the measurement applies
  is part of what is proved.
- `MeasuringConsistent`: all of these on a card that learns or is calibrated.
- `SuggestionsSettle`: a suggestion that is applied as the static peak of a backend with
  nothing else never brings what is declared below the observations it came from, and ends
  the alarm for up to eleven of them, the largest at least 2987 MiB. Both limits are real:
  below 2987 the safety, which is part of what is declared, and from twelve on a 95th percentile
  far below the largest, can keep the alarm.
- `PlanCoversForAll`, `EnsureMakesRoomForAll`: the plan of evictions, for any backends and any
  deficit, makes the room or takes all that is idle, and no more than it must; what
  `ensure_vram` asks for is what the load of the same request takes, for any load keys that
  let the mode through and neither a footprint nor the streaming, of which `ensure_vram` is
  not told (`PassedOn`). `RoomIsMadeForAll` is both for the inputs of the run.
- `StraysAreTheUnrelated`: the walk up the parents, bounded and with circles and
  holes, finds exactly the relatives: a walk that has not ended within the size of the table
  has met a process twice (`WalkComesBack`, by `FS_PigeonHole`) and comes by nothing new, and
  the chains of parents are the least set that is closed (`Leads`).

The runs check the theorems' properties on small instances, and TLC found each inductive
invariant (`ThreadsInv`, `CutsInv`, `ModelInv`, `RoomInv`, `SupervisorInv`, `ProtocolInv`,
`FrontInv`, `HooksInv`, `KillInv`, `McpInv`, `LearnInv`, `CalibrationInv`, `MeasuredInv`, those
above) to hold on the instances of the runs before it was proved.

Only model-checked: `DescriptorsAreSound` of `Registry`, whose entries are folded over layers
and over paths (`FoldLeft`, `SelectSeq`, `FlattenSeq`), by definitions that take an operator as
their parameter, which no prover here expands; liveness (`EveryJobSettles`,
`CancelTakesEffect`, `ClientsDecide`, `StopIsObeyed`, `AnswersFollow`, `ConversationsEnd`,
`MeasuringEnds`), which TLAPS does not reach; and the four counterexamples.

## Not modelled, and the plan

Not modelled:

- Queue: lookups by prefix, corrupt records of the log, an append that fails (`OSError`
  on a full disk).
- Worker: spawns that fail, malformed lines, the grace period of SIGTERM.
- Manager: backends without a subprocess, the figures of the statistics, texts of errors.
- Server: the commands that only read (status, stats, queue, gpu), the parsing of
  requests, the estimate of a waiting time. Clients: the other commands of the command
  line, which print what the supervisor says.
- Reaping: `/proc` itself; `VRAMD_REAP_ON_START` is at its default, and a reap at the
  start that fails, which the code suppresses, or one by the server's own command.
- Requests: kwargs that are given with the value null.
- Sampler: `_resolve_pids` is one step (`Resolves`), three sections under its lock and a call
  of the provider in the code; the loop thread takes its samples only during calls.
- Calibration: gaps of time between samples, reports, their comparison and storage, and
  the kwargs that a tool's hw-auto chooses. GPU: NVML and `nvidia-smi`, which are an
  arbitrary environment. Registry: the YAML parser, look-up of interpreters on disk.
- Server of agents: texts of answers, the time limits of requests, and answers that
  cannot be encoded.
- Statistics, logging and the live display: formatting of what others decide.

Open: the hazards without a property in `PROJECT.json`, that is appends that fail, and the
crash between the last event of a job and its record, for which `FrontEnd` and `JobQueue`
would have to be composed; and whether `NothingAcceptedIsLost` can be had with compaction,
which is a question to the code before it is one to the model.
