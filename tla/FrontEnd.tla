------------------------------ MODULE FrontEnd ------------------------------
(***************************************************************************)
(* One job and the clients that follow it: the handler threads of          *)
(* src/vramd/server.py, the listeners of the job (src/vramd/job_queue.py)  *)
(* and the thread that runs it.                                            *)
(*                                                                         *)
(* A stream (generate or wait with "stream") listens to the job and passes *)
(* its events on line by line; a waiter (generate or wait without) blocks  *)
(* until the job is done; a poller looks once.  Nothing but the GIL orders *)
(* what the job's thread writes and what the handlers read, so every field *)
(* is a step of its own.  A line is what a client gets; its wording and    *)
(* the numbers in it are left out.                                         *)
(***************************************************************************)
EXTENDS Naturals, Sequences, FiniteSets, SequencesExt

CONSTANTS
  Streams, Waiters, Pollers,  \* the handler threads
  Companies,     \* the sets of them that may come in one behaviour
  MaxReports,    \* bound: no report after as many events of progress
  MaxRequeues,   \* bound: how often the dispatcher puts the job back
  MaxMoves       \* bound: changes of the queue position a stream tells of

Handlers == Streams \cup Waiters \cup Pollers

ASSUME FrontAssumption ==
  /\ Streams \cap Waiters = {} /\ Pollers \cap (Streams \cup Waiters) = {}
  /\ Companies \subseteq SUBSET Handlers
  /\ MaxReports \in Nat /\ MaxRequeues \in Nat /\ MaxMoves \in Nat

VARIABLES
  job,        \* the fields of Job that clients see
  listeners,  \* job._listeners
  jobAt,      \* where the thread is that changes the job
  event,      \* the event it emits
  left,       \* the listeners it has still to call
  at,         \* where each handler is
  heard,      \* the list "events" of each stream
  ready,      \* its threading.Event
  sent,       \* how many of them it has passed on
  up,         \* the client is still there
  lines,      \* what the client was sent, while it is there
  servedJobs, \* _requests_served
  emitted, joined, late, requeues  \* history: all events; how many there were when a
                                   \* stream joined; it ran into its deadline

jobVars == <<job, jobAt, event, left, emitted, requeues>>
streamVars == <<heard, ready, sent, joined, late>>
frontVars == <<jobVars, listeners, at, streamVars, up, lines, servedJobs>>

Ended == {"done", "failed", "cancelled"}
Result(r) == [kind |-> "result", says |-> r]
Plain(k) == [kind |-> k, says |-> "none"]

FrontInit ==
  /\ job = [state |-> "queued", result |-> "none", cancel |-> FALSE, done |-> FALSE, counted |-> FALSE]
  /\ listeners = {} /\ jobAt = "idle" /\ event = "none" /\ left = {}
  /\ \E c \in Companies : at = [h \in Handlers |-> IF h \in c THEN "start" ELSE "absent"]
  /\ heard = [h \in Streams |-> <<>>] /\ ready = [h \in Streams |-> FALSE]
  /\ sent = [h \in Streams |-> 0]
  /\ up = [h \in Handlers |-> TRUE] /\ lines = [h \in Handlers |-> <<>>]
  /\ servedJobs = 0
  /\ emitted = <<>> /\ joined = [h \in Streams |-> 0] /\ late = [h \in Streams |-> FALSE]
  /\ requeues = 0

(***************************************************************************)
(* The job                                                                 *)
(***************************************************************************)

Announces(e) == jobAt' = "copy" /\ event' = e

JobIdle ==
  /\ jobAt = "idle" /\ ~job.done
  /\ UNCHANGED <<listeners, left, at, streamVars, up, lines, servedJobs, emitted>>

Take ==
  /\ JobIdle /\ job.state = "queued"
  /\ job' = [job EXCEPT !.state = "running"]
  /\ jobAt' = "taken"
  /\ UNCHANGED <<event, requeues>>

MarkStarted ==
  /\ jobAt = "taken"
  /\ Announces("started")
  /\ UNCHANGED <<job, left, emitted, requeues, listeners, at, streamVars, up, lines, servedJobs>>

ReportProgress ==
  /\ JobIdle /\ job.state = "running"
  /\ Len(SelectSeq(emitted, LAMBDA e : e = "progress")) < MaxReports
  /\ Announces("progress")
  /\ UNCHANGED <<job, requeues>>

\* The dispatcher puts the job back after a want of VRAM or a dead worker, and says so,
\* holding the lock of the queue.
RequeueRunning ==
  /\ JobIdle /\ job.state = "running" /\ ~job.cancel /\ requeues < MaxRequeues
  /\ requeues' = requeues + 1
  /\ job' = [job EXCEPT !.state = "queued"]
  /\ Announces("progress")

StateFirst(r, cancel) ==
  /\ jobAt' = "result"
  /\ job' = [job EXCEPT !.state = "failed", !.cancel = cancel]

\* The end of a job is written result first, then state; the lock of the queue is held
\* from here to done.
WritesResult(r, cancel) ==
  /\ jobAt' = "result"
  /\ job' = [job EXCEPT !.result = r, !.cancel = cancel]

\* finish(): a good result does not outweigh a cancel.
Finish ==
  /\ JobIdle /\ job.state = "running"
  /\ \E r \in {"ok", "error", "cancelled"} : (r = "ok" => ~job.cancel) /\ WritesResult(r, job.cancel)
  /\ UNCHANGED <<event, requeues>>

\* cancel() of a queued job.
CancelQueued ==
  /\ JobIdle /\ job.state = "queued"
  /\ WritesResult("cancelled", TRUE)
  /\ UNCHANGED <<event, requeues>>

CancelRequested ==
  /\ job.state = "running" /\ jobAt # "result" /\ ~job.cancel
  /\ job' = [job EXCEPT !.cancel = TRUE]
  /\ UNCHANGED <<listeners, jobAt, event, left, at, streamVars, up, lines, servedJobs, emitted, requeues>>

WritesState ==
  /\ jobAt = "result"
  /\ job' = [job EXCEPT !.state = IF job.result = "ok" THEN "done"
                                  ELSE IF job.cancel \/ job.result = "cancelled" THEN "cancelled" ELSE "failed"]
  /\ Announces("end")
  /\ UNCHANGED <<listeners, left, at, streamVars, up, lines, servedJobs, emitted, requeues>>

\* _emit() copies the list of listeners under the lock of the job, and calls them
\* without it.
CopiesListeners ==
  /\ jobAt = "copy"
  /\ jobAt' = "call" /\ left' = listeners
  /\ emitted' = Append(emitted, event)
  /\ UNCHANGED <<job, event, listeners, at, streamVars, up, lines, servedJobs, requeues>>

\* on_event() of a stream; nobody looks at the list of one that has ended meanwhile.
Calls(h) ==
  /\ jobAt = "call" /\ h \in left
  /\ left' = left \ {h}
  /\ IF at[h] = "closed" THEN UNCHANGED <<heard, ready>>
     ELSE heard' = [heard EXCEPT ![h] = Append(@, event)] /\ ready' = [ready EXCEPT ![h] = TRUE]
  /\ UNCHANGED <<job, jobAt, event, listeners, at, sent, joined, late, up, lines, servedJobs, emitted, requeues>>

AllCalledAny ==
  /\ jobAt = "call" /\ left = {}
  /\ jobAt' = "set"
  /\ UNCHANGED <<job, event, left, listeners, at, streamVars, up, lines, servedJobs, emitted, requeues>>

\* done is set last, after the listeners know.
AllCalled ==
  /\ jobAt = "call" /\ left = {}
  /\ jobAt' = IF event = "end" THEN "set" ELSE "idle"
  /\ UNCHANGED <<job, event, left, listeners, at, streamVars, up, lines, servedJobs, emitted, requeues>>

SetsDone ==
  /\ jobAt = "set"
  /\ jobAt' = "idle" /\ job' = [job EXCEPT !.done = TRUE]
  /\ UNCHANGED <<event, left, listeners, at, streamVars, up, lines, servedJobs, emitted, requeues>>

JobStep ==
  \/ Take \/ MarkStarted \/ ReportProgress \/ RequeueRunning \/ Finish \/ CancelQueued \/ WritesState
  \/ CopiesListeners \/ (\E h \in Streams : Calls(h)) \/ AllCalled \/ SetsDone

(***************************************************************************)
(* The handlers                                                            *)
(***************************************************************************)

Goes(h, from, to) == at[h] = from /\ at' = [at EXCEPT ![h] = to]

\* _send_json(), to a client that may have gone.
Sends(h, line) == lines' = IF up[h] THEN [lines EXCEPT ![h] = Append(@, line)] ELSE lines

AddListener(h) ==
  /\ h \in Streams /\ Goes(h, "start", "hello")
  /\ listeners' = listeners \cup {h}
  /\ joined' = [joined EXCEPT ![h] = Len(emitted)]
  /\ UNCHANGED <<jobVars, heard, ready, sent, late, up, lines, servedJobs>>

\* The first line, whatever the state; the loss of the client ends the handler here.
Hello(h) ==
  /\ Goes(h, "hello", IF up[h] THEN "loop" ELSE "finally")
  /\ Sends(h, Plain("queued"))
  /\ UNCHANGED <<jobVars, listeners, streamVars, up, servedJobs>>

LeavesWhenDone(h) == job.done

\* The loop is left when the job is done and everything heard is passed on.
Leaves(h) == job.done /\ sent[h] >= Len(heard[h])

Loop(h) ==
  /\ Goes(h, "loop", IF Leaves(h) THEN "last" ELSE "wait")
  /\ UNCHANGED <<jobVars, listeners, streamVars, up, lines, servedJobs>>

\* The deadline of the request.
Deadline(h) ==
  /\ h \in Streams /\ Goes(h, "loop", "last")
  /\ late' = [late EXCEPT ![h] = TRUE]
  /\ UNCHANGED <<jobVars, listeners, heard, ready, sent, joined, up, lines, servedJobs>>

WakesWhenReady(h) == ready[h]

\* ready.wait() comes back after 0.25 s, set or not.
Wakes(h) == TRUE

Wait(h) ==
  /\ Goes(h, "wait", "drain") /\ Wakes(h)
  /\ ready' = [ready EXCEPT ![h] = FALSE]
  /\ UNCHANGED <<jobVars, listeners, heard, sent, joined, late, up, lines, servedJobs>>

PassesAll(e) == TRUE

\* The end of the job is told by the last line alone.
Passes(e) == e # "end"

PassOn(h) ==
  /\ at[h] = "drain" /\ sent[h] < Len(heard[h])
  /\ sent' = [sent EXCEPT ![h] = @ + 1]
  /\ LET e == heard[h][sent[h] + 1] IN IF Passes(e) THEN Sends(h, Plain(e)) ELSE UNCHANGED lines
  /\ UNCHANGED <<jobVars, listeners, at, heard, ready, joined, late, up, servedJobs>>

\* Afterwards a job that is still queued may have moved.
Drained(h) ==
  /\ Goes(h, "drain", "loop") /\ sent[h] >= Len(heard[h])
  /\ \/ UNCHANGED lines
     \/ /\ job.state = "queued"
        /\ Len(SelectSeq(lines[h], LAMBDA line : line.kind = "queued")) <= MaxMoves
        /\ Sends(h, Plain("queued"))
  /\ UNCHANGED <<jobVars, listeners, streamVars, up, servedJobs>>

\* done_event.wait() of a blocking generate or wait: the job is done, or it times out.
Blocked(h) ==
  /\ h \in Waiters /\ Goes(h, "start", "last") /\ job.done
  /\ UNCHANGED <<jobVars, listeners, streamVars, up, lines, servedJobs>>
WaitTimesOut(h) ==
  /\ h \in Waiters /\ Goes(h, "start", "last") /\ ~job.done
  /\ UNCHANGED <<jobVars, listeners, streamVars, up, lines, servedJobs>>

CountsEach == job.result = "ok"

\* _result_from_job() counts a job that went well once, under the lock of the job.
Counts == job.result = "ok" /\ ~job.counted

\* The answer is made of the job as it is now, counted, and only then sent.
TakesResult(h) ==
  /\ Goes(h, "last", IF job.done THEN "result" ELSE "timeout")
  /\ IF job.done /\ Counts
     THEN servedJobs' = servedJobs + 1 /\ job' = [job EXCEPT !.counted = TRUE]
     ELSE UNCHANGED <<servedJobs, job>>
  /\ UNCHANGED <<jobAt, event, left, emitted, requeues, listeners, streamVars, up, lines>>

Answer(h) ==
  /\ \/ Goes(h, "result", "finally") /\ Sends(h, Result(job.result))
     \/ Goes(h, "timeout", "finally") /\ Sends(h, Plain("timeout"))
  /\ UNCHANGED <<jobVars, listeners, streamVars, up, servedJobs>>

RemovesIfUp(h) == IF up[h] THEN listeners \ {h} ELSE listeners

\* The finally block, on every way out.
Removes(h) == listeners \ {h}

Finally(h) ==
  /\ Goes(h, "finally", "closed")
  /\ listeners' = Removes(h)
  /\ heard' = [g \in Streams |-> IF g = h THEN <<>> ELSE heard[g]]
  /\ ready' = [g \in Streams |-> g # h /\ ready[g]]
  /\ sent' = [g \in Streams |-> IF g = h THEN 0 ELSE sent[g]]
  /\ UNCHANGED <<jobVars, joined, late, up, lines, servedJobs>>

\* poll reads the state and then the result.
PollsState(h) ==
  /\ h \in Pollers /\ Goes(h, "start", "poll")
  /\ lines' = [lines EXCEPT ![h] = <<Plain(job.state)>>]
  /\ UNCHANGED <<jobVars, listeners, streamVars, up, servedJobs>>
PollsResult(h) ==
  /\ Goes(h, "poll", "closed")
  /\ lines' = [lines EXCEPT ![h][1].says = job.result]
  /\ UNCHANGED <<jobVars, listeners, streamVars, up, servedJobs>>

ClientGoes(h) ==
  /\ h \in Streams /\ up[h] /\ at[h] \notin {"absent", "closed"}
  /\ up' = [up EXCEPT ![h] = FALSE] /\ lines' = [lines EXCEPT ![h] = <<>>]
  /\ UNCHANGED <<jobVars, listeners, at, streamVars, servedJobs>>

HandlerStep(h) ==
  \/ AddListener(h) \/ Hello(h) \/ Loop(h) \/ Wait(h) \/ PassOn(h) \/ Drained(h)
  \/ Blocked(h) \/ TakesResult(h) \/ Answer(h) \/ Finally(h)
  \/ PollsState(h) \/ PollsResult(h)

FrontNext ==
  \/ JobStep \/ CancelRequested
  \/ \E h \in Handlers : HandlerStep(h) \/ Deadline(h) \/ WaitTimesOut(h) \/ ClientGoes(h)

FrontSpec == FrontInit /\ [][FrontNext]_frontVars

(***************************************************************************)
(* Properties                                                              *)
(***************************************************************************)

\* Every variable keeps its type, and a job is done only in a final state with a result.
FrontTypeOK ==
  /\ job \in [state : Ended \cup {"queued", "running"}, result : {"none", "ok", "error", "cancelled"},
              cancel : BOOLEAN, done : BOOLEAN, counted : BOOLEAN]
  /\ job.done => job.state \in Ended /\ job.result # "none"
  /\ listeners \subseteq Streams /\ left \subseteq Streams
  /\ jobAt \in {"idle", "taken", "result", "copy", "call", "set"}
  /\ event \in {"none", "started", "progress", "end"}
  /\ at \in [Handlers -> {"absent", "start", "hello", "loop", "wait", "drain", "last", "result", "timeout",
                          "finally", "poll", "closed"}]
  /\ \A h \in Streams : sent[h] <= Len(heard[h])
  /\ up \in [Handlers -> BOOLEAN] /\ servedJobs \in Nat

\* A client that stays gets one answer, as its last line, and a result it gets is the
\* job's: over events that arrive while the handler looks elsewhere, and a deadline
\* that passes while the job ends.
OneAnswer ==
  \A h \in Streams \cup Waiters :
    /\ \A i \in DOMAIN lines[h] :
         lines[h][i].kind \in {"end", "result", "timeout"} => i = Len(lines[h])
    /\ at[h] = "closed" /\ up[h] => Last(lines[h]).kind \in {"result", "timeout"}
    /\ \A i \in DOMAIN lines[h] : lines[h][i].kind = "result" => lines[h][i].says = job.result

\* Of the events, those to tell after the first from ones, up to the one at to.
Owed(events, from, to) == {k \in from + 1 .. to : events[k] # "end"}

\* Each of them has a line of its own, in their order, and no other line tells one.
Told(said) == {i \in DOMAIN said : said[i].kind \in {"started", "progress"}}
TellsEach(said, events, owed) ==
  \E line \in [owed -> Told(said)] :
    /\ \A k \in owed : said[line[k]].kind = events[k]
    /\ \A j, k \in owed : j < k => line[j] < line[k]
    /\ \A i \in Told(said) : \E k \in owed : line[k] = i

\* A stream that ends by the result, and not by its deadline, has told every event
\* emitted since it joined, in order, the ones of a job that was put back included.
StreamsTellAll ==
  \A h \in Streams :
    lines[h] # <<>> /\ Last(lines[h]).kind = "result" /\ ~late[h] =>
      TellsEach(lines[h], emitted, Owed(emitted, joined[h], Len(emitted)))

\* However many clients take its result, a job that went well counts once, and has been
\* counted by the time any of them reads it: the supervisor may idle out from then on.
CountedOnce ==
  /\ servedJobs <= 1
  /\ \A h \in Streams \cup Waiters : Result("ok") \in ToSet(lines[h]) => servedJobs = 1

\* A poll that says the job has ended carries its result, wherever the thread that ends
\* the job is between the two.
PollsAgree ==
  \A h \in Pollers : at[h] = "closed" /\ lines[h][1].kind \in Ended => lines[h][1].says # "none"

\* A stream that is over is not listening, whichever way it ended.
ListenersLeave == \A h \in Streams : at[h] = "closed" => h \notin listeners

\* Whatever way a client follows a job, what it is told is what happened, once, and it
\* leaves nothing behind.
ClientsAreServed ==
  FrontTypeOK /\ OneAnswer /\ StreamsTellAll /\ CountedOnce /\ PollsAgree /\ ListenersLeave

\* Once the job is done every client that asked is answered, without its deadline: no
\* wakeup is lost between the event, the flag and the end of the job.
AnswersFollow == job.done ~> \A h \in Streams \cup Waiters : at[h] \in {"absent", "closed"}
=============================================================================
