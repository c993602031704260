--------------------------- MODULE WorkerProtocol ---------------------------
(***************************************************************************)
(* One backend's worker: the calls of SubprocessWorkerPool                 *)
(* (src/vramd/subprocess_pool.py) on one side, the worker process          *)
(* (src/vramd/worker/serve.py) on the other, a pipe of commands and a pipe *)
(* of events between them.                                                 *)
(*                                                                         *)
(* The calls on a backend hold its lock from the command they send to the  *)
(* answer they take, so there is one at a time.  What a call waits for may *)
(* come late, from an earlier call, or never: the calls end by an answer,  *)
(* by the end of the process or by a timeout, and the timeouts of load and *)
(* generate kill the process, those of unload and ping do not.  In the     *)
(* worker a reader thread moves commands from the pipe to a queue and sets *)
(* the abort flag itself; the main loop executes the queue.                *)
(*                                                                         *)
(* Commands and events carry the number of the call they belong to.  The   *)
(* code has no such number: it is there for the properties only, and no    *)
(* guard reads it.  Progress events only move a timeout and are left out.  *)
(***************************************************************************)
EXTENDS Naturals, Sequences

CONSTANTS
  MaxJobs,      \* VRAMD_WORKER_MAX_JOBS
  MaxRaises,    \* bound: how often adapter.unload raises in a behaviour
  MaxCalls      \* bound: how many calls the pool serves in a behaviour

ASSUME ProtocolAssumption ==
  MaxJobs \in Nat \ {0} /\ MaxRaises \in Nat /\ MaxCalls \in Nat

VARIABLES
  proc,        \* state.proc: "none", a process that is "alive", one that has
               \* answered a failed load and is "exiting", or a "dead" one
  loaded,      \* state.loaded
  jobsServed,  \* state.jobs_served
  call,        \* the call that holds state.lock
  cmds,        \* the worker's stdin, not yet read
  queue,       \* cmd_q of the worker
  abort,       \* state["abort"] of the worker
  task,        \* what the worker's main loop is doing
  model,       \* the worker's variable model is not None
  weights,     \* models whose weights the worker process holds
  events,      \* the worker's stdout, not yet read
  calls,       \* history: calls so far
  served,      \* history: generate calls of this process that have ended
  raised,      \* history: unloads that raised
  last         \* history: how the last call ended

pool == <<proc, loaded, jobsServed, call>>
worker == <<queue, abort, task, model, weights>>
callHistory == <<calls, served, last>>
history == <<callHistory, raised>>
protocolVars == <<pool, cmds, worker, events, history>>

Op == {"load", "generate", "unload", "ping"}
Kind == {"ready", "done", "unloaded", "pong", "error"}
NoCall == [op |-> "none", n |-> 0, abort |-> FALSE]
Idle == [doing |-> "idle", n |-> 0]
Cmd(c, n) == [cmd |-> c, n |-> n]
Event(e, n, c) == [ev |-> e, n |-> n, cancelled |-> c]
NoAnswer == Event("none", 0, FALSE)

\* poll() is None.
Running == proc \in {"alive", "exiting"}

ProtocolInit ==
  /\ proc = "none" /\ loaded = FALSE /\ jobsServed = 0 /\ call = NoCall
  /\ cmds = <<>> /\ events = <<>>
  /\ queue = <<>> /\ abort = FALSE /\ task = Idle
  /\ model = FALSE /\ weights = 0
  /\ calls = 0 /\ served = 0 /\ raised = 0
  /\ last = [call |-> NoCall, answer |-> NoAnswer]

(***************************************************************************)
(* The calls of the pool                                                   *)
(***************************************************************************)

\* The next process of the backend starts, or the last one is gone: pipes,
\* queue, flag and weights of a process end with it.
FreshWorker ==
  /\ queue' = <<>> /\ abort' = FALSE /\ task' = Idle
  /\ model' = FALSE /\ weights' = 0

Begins(op) ==
  /\ call = NoCall
  /\ calls < MaxCalls
  /\ calls' = calls + 1
  /\ call' = [op |-> op, n |-> calls + 1, abort |-> FALSE]
  /\ UNCHANGED <<jobsServed, raised, last>>

\* load() unless it can reuse the model (which changes nothing): spawns a
\* process if there is none, and sends the command.
CallLoad ==
  /\ Begins("load")
  /\ IF Running
     THEN /\ cmds' = Append(cmds, Cmd("load", calls + 1))
          /\ UNCHANGED <<proc, loaded, worker, events, served>>
     ELSE /\ proc' = "alive" /\ loaded' = FALSE
          /\ cmds' = <<Cmd("load", calls + 1)>> /\ events' = <<>>
          /\ FreshWorker
          /\ served' = 0

\* generate(), unload() and ping() refuse when there is no live process.
CallOther(op) ==
  /\ op # "load"
  /\ Begins(op)
  /\ Running
  /\ cmds' = Append(cmds, Cmd(op, calls + 1))
  /\ UNCHANGED <<proc, loaded, worker, events, served>>

\* The process dies between the look at poll() and the write: _safe_send
\* raises, before anything that generate() cleans up after.
SendFails(op) ==
  /\ call = NoCall /\ calls < MaxCalls
  /\ calls' = calls + 1
  /\ Running
  /\ proc' = "dead" /\ cmds' = <<>>
  /\ FreshWorker
  /\ loaded' = (loaded /\ op # "unload")
  /\ last' = [call |-> [op |-> op, n |-> calls + 1, abort |-> FALSE],
              answer |-> NoAnswer]
  /\ UNCHANGED <<jobsServed, call, events, served, raised>>

\* generate() polls should_abort() and passes a cancel on, once; to a closed
\* pipe it writes nothing.
SendAbort ==
  /\ call.op = "generate" /\ ~call.abort
  /\ call' = [call EXCEPT !.abort = TRUE]
  /\ cmds' = IF Running THEN Append(cmds, Cmd("abort", call.n)) ELSE cmds
  /\ UNCHANGED <<proc, loaded, jobsServed, worker, events, history>>

Expected(op) ==
  CASE op = "load" -> {"ready", "error"}
    [] op = "generate" -> {"done", "error"}
    [] op = "unload" -> {"unloaded", "error"}
    [] OTHER -> {"pong", "error"}

\* Any other event is read and dropped.
DropEvent ==
  /\ call # NoCall /\ events # <<>>
  /\ Head(events).ev \notin Expected(call.op)
  /\ events' = Tail(events)
  /\ UNCHANGED <<pool, cmds, worker, history>>

\* _force_abort(): SIGTERM, SIGKILL after a while, and the pipes are closed.
ForceAbort ==
  /\ proc' = "none" /\ loaded' = FALSE
  /\ cmds' = <<>> /\ events' = <<>>
  /\ FreshWorker

StillLoadedAlways == loaded

\* What is left of loaded after a call that did not load: unload() clears it
\* whatever its answer.
StillLoaded == loaded /\ call.op # "unload"

RecyclesLate == jobsServed > MaxJobs /\ Running

\* The recycling condition in generate()'s finally block.
Recycles == jobsServed + 1 >= MaxJobs /\ Running

Ends(answer) ==
  /\ call' = NoCall
  /\ last' = [call |-> call, answer |-> answer]

\* generate() returns or raises; its finally block counts the job and may
\* recycle the process.  rest are the events still unread, stays is what the
\* call itself leaves of loaded.
GenerateEnds(answer, rest, stays) ==
  /\ call.op = "generate"
  /\ Ends(answer)
  /\ jobsServed' = jobsServed + 1
  /\ IF Recycles
     THEN ForceAbort /\ served' = 0
     ELSE /\ events' = rest /\ loaded' = stays
          /\ served' = served + 1
          /\ UNCHANGED <<proc, cmds, worker>>
  /\ UNCHANGED <<calls, raised>>

\* A call takes the first event of a kind it expects for its answer.
TakeAnswer ==
  /\ call # NoCall /\ events # <<>>
  /\ Head(events).ev \in Expected(call.op)
  /\ \/ GenerateEnds(Head(events), Tail(events), loaded)
     \/ /\ call.op # "generate"
        /\ Ends(Head(events))
        /\ events' = Tail(events)
        /\ loaded' = (StillLoaded \/ Head(events).ev = "ready")
        /\ UNCHANGED <<proc, jobsServed, cmds, worker, calls, served, raised>>

\* The process is dead and its output read.
Eof ==
  /\ call # NoCall /\ events = <<>> /\ proc = "dead"
  /\ \/ GenerateEnds(NoAnswer, <<>>, FALSE)
     \/ /\ call.op # "generate"
        /\ Ends(NoAnswer)
        /\ loaded' = StillLoaded
        /\ UNCHANGED <<proc, jobsServed, cmds, worker, events, calls, served,
                       raised>>

KillsOnlyGenerate == call.op = "generate"

\* The timeouts that kill: of a load whose process lives, of a generate (no
\* progress, an abort not obeyed, an allocator that spins).  An unload or a
\* ping gives up and leaves the process as it is.
KillsOnTimeout == call.op = "generate" \/ (call.op = "load" /\ Running)

\* A call gives up waiting, whatever it has not read yet.
Timeout ==
  /\ call # NoCall
  /\ Ends(NoAnswer)
  /\ jobsServed' = IF call.op = "generate" THEN jobsServed + 1 ELSE jobsServed
  /\ IF KillsOnTimeout
     THEN ForceAbort /\ served' = 0
     ELSE /\ loaded' = StillLoaded
          /\ UNCHANGED <<proc, cmds, worker, events, served>>
  /\ UNCHANGED <<calls, raised>>

\* shutdown(): the worker, if there is one, is asked to leave, then killed;
\* the next load() makes a new _WorkerState.
Shutdown ==
  /\ call = NoCall
  /\ ForceAbort
  /\ jobsServed' = 0 /\ served' = 0
  /\ UNCHANGED <<call, calls, raised, last>>

(***************************************************************************)
(* The worker process                                                      *)
(***************************************************************************)

\* The reader thread: an abort sets the flag at once and overtakes what is
\* queued.
ReaderReads ==
  /\ proc = "alive" /\ cmds # <<>>
  /\ cmds' = Tail(cmds)
  /\ IF Head(cmds).cmd = "abort"
     THEN abort' = TRUE /\ UNCHANGED queue
     ELSE queue' = Append(queue, Head(cmds)) /\ UNCHANGED abort
  /\ UNCHANGED <<pool, task, model, weights, events, history>>

\* The main loop takes a command off the queue.
Executes(c) ==
  /\ proc = "alive" /\ task = Idle
  /\ queue # <<>> /\ Head(queue).cmd = c
  /\ queue' = Tail(queue)

Emits(e, n, c) == events' = Append(events, Event(e, n, c))

DoPing ==
  /\ Executes("ping")
  /\ Emits("pong", Head(queue).n, FALSE)
  /\ UNCHANGED <<pool, cmds, abort, task, model, weights, history>>

UnloadedTwice == weights' = weights - 1 /\ UNCHANGED raised

\* _try_unload() of a model, if there is one, that succeeds.
Unloaded ==
  /\ weights' = IF model THEN weights - 1 ELSE weights
  /\ UNCHANGED raised

\* _try_unload() of a model that raises.
UnloadRaises ==
  /\ raised < MaxRaises /\ model
  /\ raised' = raised + 1
  /\ Emits("error", Head(queue).n, FALSE)
  /\ UNCHANGED weights

\* CMD_UNLOAD: a failed unload keeps the model and says so.
DoUnload ==
  /\ Executes("unload")
  /\ \/ Unloaded /\ Emits("unloaded", Head(queue).n, FALSE) /\ model' = FALSE
     \/ UnloadRaises /\ UNCHANGED model
  /\ UNCHANGED <<pool, cmds, abort, task, callHistory>>

LoadsOver == UNCHANGED <<weights, raised, events>>

\* CMD_LOAD over a model: it is unloaded first, and given up even if that
\* fails.
UnloadsFirst ==
  \/ Unloaded /\ UNCHANGED events
  \/ UnloadRaises

DoLoad ==
  /\ Executes("load")
  /\ UnloadsFirst
  /\ model' = FALSE
  /\ task' = [doing |-> "load", n |-> Head(queue).n]
  /\ UNCHANGED <<pool, cmds, abort, callHistory>>

LoadReturns ==
  /\ proc = "alive" /\ task.doing = "load"
  /\ model' = TRUE /\ weights' = weights + 1
  /\ task' = Idle
  /\ Emits("ready", task.n, FALSE)
  /\ UNCHANGED <<pool, cmds, queue, abort, history>>

\* A failed load ends the process, after its answer.
LoadRaises ==
  /\ proc = "alive" /\ task.doing = "load"
  /\ proc' = "exiting"
  /\ Emits("error", task.n, FALSE)
  /\ UNCHANGED <<loaded, jobsServed, call, cmds, worker, history>>

CancelsBeforeStart == abort

\* CMD_GENERATE: refused without a model, answered at once when the flag is
\* already set, and run otherwise.
DoGenerate ==
  /\ Executes("generate")
  /\ \/ /\ ~model
        /\ Emits("error", Head(queue).n, FALSE)
        /\ UNCHANGED <<abort, task>>
     \/ /\ model /\ CancelsBeforeStart
        /\ abort' = FALSE
        /\ Emits("done", Head(queue).n, TRUE)
        /\ UNCHANGED task
     \/ /\ model /\ ~CancelsBeforeStart
        /\ task' = [doing |-> "generate", n |-> Head(queue).n]
        /\ UNCHANGED <<abort, events>>
  /\ UNCHANGED <<pool, cmds, model, weights, history>>

\* adapter.generate returns or raises and the answer goes out; an adapter may
\* obey the flag or not have looked at it.
GenerateAnswers ==
  /\ proc = "alive" /\ task.doing = "generate"
  /\ \E e \in {"done", "error"}, c \in BOOLEAN : (c => abort) /\ Emits(e, task.n, c)
  /\ task' = [task EXCEPT !.doing = "finally"]
  /\ UNCHANGED <<pool, cmds, queue, abort, model, weights, history>>

\* The finally block: the flag is taken for this job's and reset.
GenerateResets ==
  /\ proc = "alive" /\ task.doing = "finally"
  /\ abort' = FALSE
  /\ task' = Idle
  /\ UNCHANGED <<pool, cmds, queue, model, weights, events, history>>

\* The process ends: after a failed load, by a crash, or because the system
\* kills it.  What it wrote can still be read.
Dies ==
  /\ Running
  /\ proc' = "dead"
  /\ cmds' = <<>>
  /\ FreshWorker
  /\ UNCHANGED <<loaded, jobsServed, call, events, history>>

WorkerNext ==
  \/ ReaderReads \/ DoPing \/ DoUnload \/ DoLoad \/ LoadReturns \/ LoadRaises
  \/ DoGenerate \/ GenerateAnswers \/ GenerateResets \/ Dies

ProtocolNext ==
  \/ CallLoad
  \/ \E op \in Op : CallOther(op) \/ SendFails(op)
  \/ SendAbort \/ DropEvent \/ TakeAnswer \/ Eof \/ Timeout \/ Shutdown
  \/ WorkerNext

ProtocolSpec == ProtocolInit /\ [][ProtocolNext]_protocolVars

(***************************************************************************)
(* Properties                                                              *)
(***************************************************************************)

CallRecords == [op : Op \cup {"none"}, n : Nat, abort : BOOLEAN]
Commands == [cmd : Op \cup {"abort"}, n : Nat]
Orders == [cmd : Op, n : Nat]
Tasks == [doing : {"idle", "load", "generate", "finally"}, n : Nat]
Events == [ev : Kind, n : Nat, cancelled : BOOLEAN]

\* Every variable keeps its type.
ProtocolTypeOK ==
  /\ proc \in {"none", "alive", "exiting", "dead"}
  /\ loaded \in BOOLEAN /\ jobsServed \in Nat
  /\ call \in CallRecords
  /\ cmds \in Seq(Commands) /\ queue \in Seq(Orders) /\ events \in Seq(Events)
  /\ abort \in BOOLEAN /\ model \in BOOLEAN /\ weights \in Nat
  /\ task \in Tasks
  /\ calls \in Nat /\ served \in Nat /\ raised \in Nat
  /\ last \in [call : CallRecords, answer : Events \cup {NoAnswer}]

\* Until an unload raises, what a load or a generate takes for its answer was
\* written in answer to it, through late answers, killed and crashed processes
\* and calls that gave up: no job gets another job's result.  The late error
\* of an unload is taken for the answer of whichever call comes next.
AnswersMatch ==
  raised = 0 /\ last.call.op \in {"load", "generate"} /\ last.answer # NoAnswer =>
    last.answer.n = last.call.n

\* The commands that are still to come load and unload nothing; or they do, and the last
\* of those that do is a load.
NoChange(s) == \A k \in DOMAIN s : s[k].cmd \notin {"load", "unload"}
EndsLoading(s) ==
  \E k \in DOMAIN s : s[k].cmd = "load" /\ \A i \in DOMAIN s : i > k => s[i].cmd # "unload"

\* Until an unload raises: when no call is under way and the pool takes the
\* model for loaded, a live worker has it, and no command in its pipe or
\* queue, left by a call that gave up, will take it away.
LoadedIsTrue ==
  raised = 0 /\ call = NoCall /\ loaded /\ proc = "alive" =>
    model /\ NoChange(queue \o cmds)

\* Afterwards a load can take that error for its own answer and leave the
\* model behind.  Still, what the pool takes for loaded is in the worker or on
\* its way: no generate meets a worker without a model.
LoadedOrLoading ==
  call = NoCall /\ loaded /\ proc = "alive" =>
    IF NoChange(queue \o cmds) THEN model \/ task.doing = "load"
    ELSE EndsLoading(queue \o cmds)

\* Every unload that raises leaves at most one model behind, and nothing else
\* does, over loads that replace one another and answers that slip.
OnlyRaisesLeak == weights <= 1 + raised

\* No process outlives MaxJobs jobs.
RecycledInTime == Running => served < MaxJobs

\* What the pool knows of its worker is so: whether it has a model, how many at most, and
\* how many jobs it has served.
ProtocolConsistent == ProtocolTypeOK /\ LoadedIsTrue /\ LoadedOrLoading /\ OnlyRaisesLeak /\ RecycledInTime
=============================================================================
