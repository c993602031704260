----------------------------- MODULE McpServer -----------------------------
(***************************************************************************)
(* The server that makes the supervisor a tool of agents                   *)
(* (src/vramd/mcp_server.py): one message per line on stdin, answers on    *)
(* stdout.  serve_stdio() reads; a pool of threads handles what is a       *)
(* message; a writer of its own takes the answers from a queue.  The host  *)
(* may close its end of either pipe, or stop to read without closing.      *)
(*                                                                         *)
(* What a message is about is its kind; what it makes the supervisor do is *)
(* Sent(), an operator on the tool and its arguments.                      *)
(***************************************************************************)
EXTENDS Integers, Sequences, FiniteSets, SequencesExt

CONSTANTS
  Pool,           \* the threads of the executor (four in the code)
  MaxMessages,    \* bound: lines the host writes
  MaxWaits        \* bound: calls among them that wait for a job

\* "wait": vramd_submit with wait, or vramd_wait; "call": any other request, and initialize
\* even without id; "note": a notification, and any other message without id; "junk": a
\* line that is too long or is not JSON; "scalar": JSON, but no object.
Kinds == {"wait", "call", "note", "junk", "scalar"}

VARIABLES
  input,          \* the kinds of the lines the host has written
  nread,          \* how many of them the loop has read
  eof,            \* the host has closed stdin
  host,           \* "reads" stdout, "blocks" (a full pipe) or is "gone" (broken pipe)
  mainAt,         \* what serve_stdio() does
  tasks,          \* the executor's queue: numbers of lines
  busy,           \* the line each thread handles, or 0
  responses,      \* the queue of the writer: lines to answer, 0 for None
  writing,        \* the answer the writer holds, 0 for none
  writer,         \* it has not returned
  stop,           \* the event the writer sets
  written         \* the lines whose answers are on stdout, in order

mcpVars == <<input, nread, eof, host, mainAt, tasks, busy, responses, writing, writer, stop, written>>

McpInit ==
  /\ input = <<>> /\ nread = 0 /\ eof = FALSE /\ host = "reads"
  /\ mainAt = "read" /\ tasks = <<>> /\ busy = [t \in Pool |-> 0]
  /\ responses = <<>> /\ writing = 0 /\ writer = TRUE /\ stop = FALSE /\ written = <<>>

-----------------------------------------------------------------------------
(* What a tool sends to the supervisor (a submit its first request, after  *)
(* which it may wait), "none" if it refuses by itself or, for the doctor,  *)
(* only looks whether there is a supervisor.                               *)
(* The arguments of an agent are a record with confirm, backend and job    *)
(* (given or not), all, and request, the fields of its payload.            *)

Tool == {"vramd_status", "vramd_queue", "vramd_backends", "vramd_stats", "vramd_learn", "vramd_doctor",
         "vramd_submit", "vramd_wait", "vramd_cancel", "vramd_preload", "vramd_evict", "vramd_zero"}
Nothing == [cmd |-> "none"]

Reads == [vramd_status |-> "status", vramd_queue |-> "queue", vramd_backends |-> "list_backends",
          vramd_stats |-> "stats", vramd_learn |-> "learn"]

\* The reserved keys are put over those of the payload, and two of them taken out.
SubmissionUnder(args) == args.request @@ [cmd |-> "submit", backend |-> "given"]
Submission(args) ==
  LET reserved == [cmd |-> "submit", backend |-> "given"]
      told == DOMAIN reserved \cup DOMAIN args.request IN
  [key \in told \ {"job_id", "stream"} |-> IF key \in DOMAIN reserved THEN reserved[key] ELSE args.request[key]]

CancelOf(args) ==
  IF args.all THEN [cmd |-> "cancel", all |-> "given", queued_only |-> "given"]
  ELSE IF args.job THEN [cmd |-> "cancel", job_id |-> "given"] ELSE Nothing

Sent(tool, args) ==
  CASE tool \in DOMAIN Reads                               -> [cmd |-> Reads[tool]]
    [] tool = "vramd_submit" /\ args.backend               -> Submission(args)
    [] tool = "vramd_wait" /\ args.job                     -> [cmd |-> "wait", job_id |-> "given"]
    [] tool = "vramd_cancel"                               -> CancelOf(args)
    [] tool = "vramd_preload" /\ args.confirm /\ args.backend -> [cmd |-> "preload", backend |-> "given"]
    [] tool = "vramd_evict" /\ args.confirm                ->
         IF args.backend THEN [cmd |-> "release", backend |-> "given"] ELSE [cmd |-> "release"]
    [] tool = "vramd_zero" /\ args.confirm                 -> [cmd |-> "zero"]
    [] OTHER                                               -> Nothing

-----------------------------------------------------------------------------
(* The host. *)

HostWrites(kind) ==
  /\ ~eof /\ Len(input) < MaxMessages
  /\ kind = "wait" => Len(SelectSeq(input, LAMBDA k : k = "wait")) < MaxWaits
  /\ input' = Append(input, kind)
  /\ UNCHANGED <<nread, eof, host, mainAt, tasks, busy, responses, writing, writer, stop, written>>

HostCloses ==
  /\ ~eof /\ eof' = TRUE
  /\ UNCHANGED <<input, nread, host, mainAt, tasks, busy, responses, writing, writer, stop, written>>

HostTurns(how) ==
  /\ host = "reads" /\ host' = how
  /\ UNCHANGED <<input, nread, eof, mainAt, tasks, busy, responses, writing, writer, stop, written>>

-----------------------------------------------------------------------------
(* serve_stdio(). *)

\* One line: the stop event is looked at first; what cannot be read as a message is
\* answered or dropped on the spot.
Read ==
  /\ mainAt = "read" /\ nread < Len(input) /\ ~stop
  /\ nread' = nread + 1
  /\ LET kind == input[nread + 1] IN
     /\ tasks' = IF kind \in {"wait", "call", "note"} THEN Append(tasks, nread + 1) ELSE tasks
     /\ responses' = IF kind = "junk" THEN Append(responses, nread + 1) ELSE responses
  /\ UNCHANGED <<input, eof, host, mainAt, busy, writing, writer, stop, written>>

\* End of input, a line after the writer has given up, or (Interrupted) Ctrl+C.  A line
\* the interrupt finds read but not yet handed over is one that was never read.
LeavesLoop == (nread = Len(input) /\ eof) \/ (nread < Len(input) /\ stop)
LoopEnds ==
  /\ mainAt = "read" /\ LeavesLoop
  /\ mainAt' = "shutdown"
  /\ UNCHANGED <<input, nread, eof, host, tasks, busy, responses, writing, writer, stop, written>>
Interrupted ==
  /\ mainAt = "read" /\ mainAt' = "shutdown"
  /\ UNCHANGED <<input, nread, eof, host, tasks, busy, responses, writing, writer, stop, written>>

\* executor.shutdown(wait=True), and the None that ends the writer.
PoolIsDoneAtOnce == tasks = <<>>
PoolIsDone == tasks = <<>> /\ \A t \in Pool : busy[t] = 0
ExecutorEnds ==
  /\ mainAt = "shutdown" /\ PoolIsDone
  /\ responses' = Append(responses, 0) /\ mainAt' = "join"
  /\ UNCHANGED <<input, nread, eof, host, tasks, busy, writing, writer, stop, written>>

\* writer.join(timeout=5.0): a host that reads lets the writer end within it.
Join ==
  /\ mainAt = "join" /\ (writer => host = "blocks")
  /\ mainAt' = "ended"
  /\ UNCHANGED <<input, nread, eof, host, tasks, busy, responses, writing, writer, stop, written>>

-----------------------------------------------------------------------------
(* The executor: _worker(), handle_message_safe(), handle_message(). *)

MayTakeAlone(t) == tasks # <<>> /\ \A u \in Pool : busy[u] = 0
MayTake(t) == tasks # <<>> /\ busy[t] = 0
TakeTask(t) ==
  /\ MayTake(t)
  /\ busy' = [busy EXCEPT ![t] = Head(tasks)] /\ tasks' = Tail(tasks)
  /\ UNCHANGED <<input, nread, eof, host, mainAt, responses, writing, writer, stop, written>>

\* A notification has no answer; everything else has one, an error included.
HasAnswerAlways(n) == TRUE
HasAnswer(n) == input[n] # "note"
Handle(t) ==
  /\ busy[t] # 0
  /\ responses' = IF HasAnswer(busy[t]) THEN Append(responses, busy[t]) ELSE responses
  /\ busy' = [busy EXCEPT ![t] = 0]
  /\ UNCHANGED <<input, nread, eof, host, mainAt, tasks, writing, writer, stop, written>>

Waits(t) == busy[t] # 0 /\ input[busy[t]] = "wait"

-----------------------------------------------------------------------------
(* _writer(). *)

Get ==
  /\ writer /\ writing = 0 /\ responses # <<>> /\ mainAt # "ended"
  /\ IF Head(responses) = 0 THEN writer' = FALSE /\ writing' = 0
     ELSE writer' = TRUE /\ writing' = Head(responses)
  /\ responses' = Tail(responses)
  /\ UNCHANGED <<input, nread, eof, host, mainAt, tasks, busy, stop, written>>

Write ==
  /\ writer /\ writing # 0 /\ host = "reads" /\ mainAt # "ended"
  /\ written' = Append(written, writing) /\ writing' = 0
  /\ UNCHANGED <<input, nread, eof, host, mainAt, tasks, busy, responses, writer, stop>>

WriteFails ==
  /\ writer /\ writing # 0 /\ host = "gone" /\ mainAt # "ended"
  /\ stop' = TRUE /\ writer' = FALSE /\ writing' = 0
  /\ UNCHANGED <<input, nread, eof, host, mainAt, tasks, busy, responses, written>>

-----------------------------------------------------------------------------
MainStep == Read \/ LoopEnds \/ ExecutorEnds \/ Join
WriterStep == Get \/ Write \/ WriteFails
\* What a thread does without waiting for a job.
PromptStep == \E t \in Pool : TakeTask(t) \/ (~Waits(t) /\ Handle(t))
JobEnds == \E t \in Pool : Waits(t) /\ Handle(t)
HostStep == (\E kind \in Kinds : HostWrites(kind)) \/ HostCloses \/ (\E how \in {"blocks", "gone"} : HostTurns(how))

McpNext == HostStep \/ MainStep \/ Interrupted \/ PromptStep \/ JobEnds \/ WriterStep
McpSpec == McpInit /\ [][McpNext]_mcpVars

-----------------------------------------------------------------------------
McpTypeOK ==
  /\ input \in Seq(Kinds) /\ nread \in 0..Len(input) /\ eof \in BOOLEAN
  /\ host \in {"reads", "blocks", "gone"} /\ mainAt \in {"read", "shutdown", "join", "ended"}
  /\ tasks \in Seq(1..nread) /\ busy \in [Pool -> 0..nread] /\ responses \in Seq(0..nread)
  /\ writing \in 0..nread /\ writer \in BOOLEAN /\ stop \in BOOLEAN /\ written \in Seq(1..nread)

Due(n) == input[n] \in {"wait", "call", "junk"}

\* Nothing is answered twice, nor what asks for no answer; and a host that goes on
\* reading has the answer to every line that was read when the server ends, those included
\* that waited for their jobs at the end of input.
AnsweredOnce ==
  /\ \A i, j \in DOMAIN written : written[i] = written[j] => i = j
  /\ \A i \in DOMAIN written : Due(written[i])
  /\ mainAt = "ended" /\ host = "reads" => \A n \in 1..nread : Due(n) => n \in ToSet(written)

\* A tool that frees or fills VRAM does so only when told confirm, and what a payload
\* contains makes no other command of a submit.
Payloads == {<<>>, [prompt |-> "p"], [cmd |-> "zero"], [cmd |-> "release", job_id |-> "j", stream |-> "yes"]}
Arguments == [confirm : BOOLEAN, backend : BOOLEAN, job : BOOLEAN, all : BOOLEAN, request : Payloads]
OnlyWhatItSays ==
  \A tool \in Tool, args \in Arguments :
    LET told == Sent(tool, args) IN
    /\ told.cmd \in {"release", "zero", "preload"} => args.confirm
    /\ tool = "vramd_submit" => told.cmd \in {"submit", "none"} /\ {"job_id", "stream"} \cap DOMAIN told = {}

\* A line that was read has no answer yet, although no job has to end for it.  This may
\* not last, however long other calls wait, as long as there is a thread left.
Unanswered ==
  host = "reads" /\ \E n \in 1..nread : input[n] \in {"call", "junk"} /\ n \notin ToSet(written)

\* The server has seen the end of its input, waits for no job, and is still there.
Lingers == eof /\ mainAt # "ended" /\ \A t \in Pool : ~Waits(t)
=============================================================================
