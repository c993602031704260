------------------------ MODULE WorkerProtocolProofs ------------------------
(***************************************************************************)
(* Proofs about the pool's calls and the worker's answers, for any limits  *)
(* and any number of calls, raises, deaths and timeouts: until an unload   *)
(* raises no job gets the answer to another (AnswersMatch), and the pool   *)
(* knows whether its worker has a model, how many at most, and how many    *)
(* jobs it has served (ProtocolConsistent).                                *)
(*                                                                         *)
(* Three invariants, on top of the types.  CountsOK is about the numbers.  *)
(* WillLoad: what the pool takes for loaded the worker has or is about to  *)
(* load.  TraceOK: until an unload raises, what a load or a generate       *)
(* leaves in the pipes, the queue and the hands of the worker is a single  *)
(* trace, of the call under way: a command sent, then queued, then in      *)
(* hand, then an answer; when the call ends nothing of it is left, since   *)
(* it ends by the answer or with the process.                              *)
(***************************************************************************)
EXTENDS WorkerProtocol, TLAPS

Working == {"load", "generate"}
Replies == {"ready", "done", "error"}

(***************************************************************************)
(* The invariants                                                          *)
(***************************************************************************)

\* A model that is there has its weights, an unload that raised left at most one model
\* behind, and jobs are counted per process and per state object.
CountsOK ==
  /\ model => weights > 0
  /\ weights <= raised + (IF model THEN 1 ELSE 0)
  /\ task.doing = "load" => ~model
  /\ served <= jobsServed
  /\ Running => served < MaxJobs

\* The model is in the worker, or what is still to be executed brings it.
WillLoad ==
  IF NoChange(cmds) THEN IF NoChange(queue) THEN model \/ task.doing = "load"
                                            ELSE EndsLoading(queue)
                    ELSE EndsLoading(cmds)

LoadsOK ==
  proc = "alive" /\ (call.op = "load" \/ (loaded /\ call.op # "unload")) => WillLoad

\* Where the trace of a call is not, and where it is.
NoWork(s) == \A k \in DOMAIN s : s[k].cmd \notin Working
NoReply(s) == \A k \in DOMAIN s : s[k].ev \notin Replies
\* What a failed load leaves in the hands of an exiting worker it does not act on.
Rests == proc = "alive" => task.doing \notin Working

\* The command is in s, and nothing comes after a load.
Lone(s, op, n) ==
  \E k \in DOMAIN s :
    /\ s[k].cmd = op /\ s[k].n = n
    /\ op = "load" => k = Len(s)
    /\ \A i \in DOMAIN s : i # k => s[i].cmd \notin Working

\* The answer is in s.
LoneReply(s, op, n) ==
  \E k \in DOMAIN s :
    /\ s[k].ev \in Expected(op) /\ s[k].n = n
    /\ \A i \in DOMAIN s : i # k => s[i].ev \notin Replies

Nothing == NoWork(cmds) /\ NoWork(queue) /\ Rests /\ NoReply(events)

Sent(op, n) == Lone(cmds, op, n) /\ NoWork(queue) /\ Rests /\ NoReply(events)

Queued(op, n) ==
  /\ NoWork(cmds) /\ Lone(queue, op, n) /\ Rests /\ NoReply(events)
  /\ op = "load" => cmds = <<>>

InHand(op, n) ==
  /\ NoWork(cmds) /\ NoWork(queue) /\ NoReply(events)
  /\ task.doing = op /\ task.n = n
  /\ op = "load" => cmds = <<>> /\ queue = <<>>

Answered(op, n) ==
  /\ NoWork(cmds) /\ NoWork(queue) /\ LoneReply(events, op, n)
  /\ Rests
  /\ op = "load" /\ proc = "alive" => cmds = <<>> /\ queue = <<>>

Trace(op, n) == Sent(op, n) \/ Queued(op, n) \/ InHand(op, n) \/ Answered(op, n)

TraceOK ==
  raised = 0 /\ (Running \/ call # NoCall) =>
    IF call.op \in Working
    THEN Trace(call.op, call.n) \/ (Nothing /\ proc # "alive")
    ELSE Nothing

\* What the pool takes for loaded no command left behind takes away.
StaysLoaded ==
  raised = 0 /\ proc = "alive" /\ loaded /\ call.op \notin {"load", "unload"} =>
    NoChange(cmds) /\ NoChange(queue) /\ task.doing # "load"

ProtocolInv ==
  ProtocolTypeOK /\ CountsOK /\ LoadsOK /\ TraceOK /\ StaysLoaded /\ AnswersMatch

-----------------------------------------------------------------------------
(* Sequences that grow at their end and shrink at their head. *)

LEMMA AppendAt ==
  ASSUME NEW S, NEW s \in Seq(S), NEW e \in S
  PROVE  /\ Append(s, e) \in Seq(S) /\ Append(s, e) # <<>>
         /\ Len(Append(s, e)) = Len(s) + 1
         /\ DOMAIN Append(s, e) = DOMAIN s \cup {Len(s) + 1} /\ Len(s) + 1 \notin DOMAIN s
         /\ \A k \in DOMAIN s : Append(s, e)[k] = s[k]
         /\ Append(s, e)[Len(s) + 1] = e
OBVIOUS

LEMMA TailAt ==
  ASSUME NEW S, NEW s \in Seq(S), s # <<>>
  PROVE  /\ Tail(s) \in Seq(S) /\ Head(s) \in S
         /\ Len(s) \in Nat \ {0} /\ DOMAIN s = 1..Len(s) /\ Head(s) = s[1]
         /\ Len(Tail(s)) = Len(s) - 1 /\ DOMAIN Tail(s) = 1..(Len(s) - 1)
         /\ \A k \in 1..(Len(s) - 1) : Tail(s)[k] = s[k + 1]
OBVIOUS

\* The empty sequence has no command and no event.
LEMMA EmptyHasNone == NoWork(<<>>) /\ NoReply(<<>>) /\ NoChange(<<>>)
BY DEF NoWork, NoReply, NoChange

\* Commands at the end of a pipe or of the queue.
LEMMA CommandAppended ==
  ASSUME NEW s \in Seq(Commands), NEW e \in Commands
  PROVE  /\ Append(s, e) \in Seq(Commands)
         /\ NoWork(s) /\ e.cmd \notin Working => NoWork(Append(s, e))
         /\ \A op, n : NoWork(s) /\ e.cmd = op /\ e.n = n => Lone(Append(s, e), op, n)
         /\ \A op, n : Lone(s, op, n) /\ op # "load" /\ e.cmd \notin Working => Lone(Append(s, e), op, n)
         /\ NoChange(Append(s, e)) <=> NoChange(s) /\ e.cmd \notin {"load", "unload"}
         /\ e.cmd # "unload" /\ EndsLoading(s) => EndsLoading(Append(s, e))
         /\ e.cmd = "load" => EndsLoading(Append(s, e))
<1>1. /\ Append(s, e) \in Seq(Commands)
      /\ DOMAIN Append(s, e) = DOMAIN s \cup {Len(s) + 1} /\ Len(s) + 1 \notin DOMAIN s
      /\ \A k \in DOMAIN s : Append(s, e)[k] = s[k]
      /\ Append(s, e)[Len(s) + 1] = e
      /\ Len(Append(s, e)) = Len(s) + 1 /\ Len(s) \in Nat /\ DOMAIN s = 1..Len(s)
  BY AppendAt
<1> DEFINE t == Append(s, e)
<1> HIDE DEF t
<1>2. NoWork(s) /\ e.cmd \notin Working => NoWork(t)  BY <1>1 DEF NoWork, t
<1>3. ASSUME NEW op, NEW n, NoWork(s), e.cmd = op, e.n = n PROVE Lone(t, op, n)
  BY <1>1, <1>3 DEF NoWork, Lone, t
<1>4. ASSUME NEW op, NEW n, Lone(s, op, n), op # "load", e.cmd \notin Working PROVE Lone(t, op, n)
  BY <1>1, <1>4 DEF Lone, t
<1>5. NoChange(t) <=> NoChange(s) /\ e.cmd \notin {"load", "unload"}  BY <1>1 DEF NoChange, t
<1>6. ASSUME e.cmd # "unload", EndsLoading(s) PROVE EndsLoading(t)
  BY <1>1, <1>6 DEF EndsLoading, t
<1>7. ASSUME e.cmd = "load" PROVE EndsLoading(t)
  <2>1. \A i \in DOMAIN t : ~(i > Len(s) + 1)  BY <1>1 DEF t
  <2>2. Len(s) + 1 \in DOMAIN t /\ t[Len(s) + 1].cmd = "load"  BY <1>1, <1>7 DEF t
  <2>3. QED  BY <2>1, <2>2 DEF EndsLoading
<1>8. QED  BY <1>1, <1>2, <1>3, <1>4, <1>5, <1>6, <1>7 DEF t

\* Commands taken from the head.
LEMMA CommandTaken ==
  ASSUME NEW s \in Seq(Commands), s # <<>>
  PROVE  /\ Tail(s) \in Seq(Commands) /\ Head(s) \in Commands
         /\ NoWork(s) => NoWork(Tail(s)) /\ Head(s).cmd \notin Working
         /\ \A op, n : Lone(s, op, n) /\ Head(s).cmd \in Working =>
              Head(s).cmd = op /\ Head(s).n = n /\ NoWork(Tail(s)) /\ (op = "load" => Tail(s) = <<>>)
         /\ \A op, n : Lone(s, op, n) /\ op \in Working /\ Head(s).cmd \notin Working => Lone(Tail(s), op, n)
         /\ NoChange(s) <=> NoChange(Tail(s)) /\ Head(s).cmd \notin {"load", "unload"}
         /\ EndsLoading(s) => IF NoChange(Tail(s)) THEN Head(s).cmd = "load" ELSE EndsLoading(Tail(s))
<1> DEFINE t == Tail(s)
           h == Head(s)
           m == Len(s)
<1>1. /\ t \in Seq(Commands) /\ h \in Commands /\ m \in Nat \ {0} /\ DOMAIN s = 1..m /\ h = s[1]
      /\ Len(t) = m - 1 /\ DOMAIN t = 1..(m - 1) /\ \A k \in 1..(m - 1) : t[k] = s[k + 1]
  BY TailAt
<1>0. m = 1 => t = <<>>
  BY <1>1
<1> HIDE DEF t, h, m
<1>b. 1 \in DOMAIN s /\ \A k \in DOMAIN t : k + 1 \in DOMAIN s /\ t[k] = s[k + 1]  BY <1>1
<1>2. NoWork(s) => NoWork(t) /\ h.cmd \notin Working  BY <1>1, <1>b DEF NoWork
<1>a. \A k \in DOMAIN s : k = 1 \/ (k - 1 \in DOMAIN t /\ t[k - 1] = s[k])  BY <1>1
<1>3. ASSUME NEW op, NEW n, Lone(s, op, n)
      PROVE  /\ h.cmd \in Working => h.cmd = op /\ h.n = n /\ NoWork(t) /\ (op = "load" => t = <<>>)
             /\ h.cmd \notin Working /\ op \in Working => Lone(t, op, n)
  <2>1. PICK k \in DOMAIN s : /\ s[k].cmd = op /\ s[k].n = n /\ (op = "load" => k = m)
                              /\ \A i \in DOMAIN s : i # k => s[i].cmd \notin Working
    BY <1>3 DEF Lone, m
  <2>2. CASE k = 1
    <3>1. h.cmd = op /\ h.n = n  BY <1>1, <2>1, <2>2
    <3>2. NoWork(t)  BY <1>1, <2>1, <2>2 DEF NoWork
    <3>3. op = "load" => t = <<>>  BY <1>0, <2>1, <2>2
    <3>4. QED  BY <3>1, <3>2, <3>3
  <2>3. CASE k # 1
    <3>1. h.cmd \notin Working  BY <1>1, <2>1, <2>3
    <3>2. k - 1 \in DOMAIN t /\ t[k - 1] = s[k]  BY <1>a, <2>3
    <3>3. op = "load" => k - 1 = Len(t)  BY <1>1, <2>1
    <3>4. \A i \in DOMAIN t : i # k - 1 => t[i].cmd \notin Working  BY <1>1, <1>b, <2>1
    <3>5. Lone(t, op, n)  BY <2>1, <3>2, <3>3, <3>4 DEF Lone
    <3>6. QED  BY <3>1, <3>5
  <2>4. QED  BY <2>2, <2>3
<1>4. NoChange(s) <=> NoChange(t) /\ h.cmd \notin {"load", "unload"}
  <2>1. NoChange(s) => NoChange(t) /\ h.cmd \notin {"load", "unload"}  BY <1>1, <1>b DEF NoChange
  <2>2. NoChange(t) /\ h.cmd \notin {"load", "unload"} => NoChange(s)  BY <1>1, <1>a DEF NoChange
  <2>3. QED  BY <2>1, <2>2
<1>5. ASSUME EndsLoading(s) PROVE IF NoChange(t) THEN h.cmd = "load" ELSE EndsLoading(t)
  <2>1. PICK k \in DOMAIN s : s[k].cmd = "load" /\ \A i \in DOMAIN s : i > k => s[i].cmd # "unload"
    BY <1>5 DEF EndsLoading
  <2>2. CASE NoChange(t)
    <3>1. k = 1  BY <1>a, <2>1, <2>2 DEF NoChange
    <3>2. QED  BY <1>1, <2>1, <2>2, <3>1
  <2>3. CASE ~NoChange(t) /\ k = 1
    <3>1. PICK i \in DOMAIN t : t[i].cmd \in {"load", "unload"}  BY <2>3 DEF NoChange
    <3>2. \A j \in DOMAIN t : t[j].cmd # "unload"  BY <1>1, <2>1, <2>3
    <3>3. EndsLoading(t)  BY <3>1, <3>2 DEF EndsLoading
    <3>4. QED  BY <2>3, <3>3
  <2>4. CASE ~NoChange(t) /\ k # 1
    <3>1. k - 1 \in DOMAIN t /\ t[k - 1].cmd = "load"  BY <1>a, <2>1, <2>4
    <3>2. \A j \in DOMAIN t : j > k - 1 => t[j].cmd # "unload"  BY <1>1, <1>b, <2>1
    <3>3. EndsLoading(t)  BY <3>1, <3>2 DEF EndsLoading
    <3>4. QED  BY <2>4, <3>3
  <2>5. QED  BY <2>2, <2>3, <2>4
<1>6. QED  BY <1>1, <1>2, <1>3, <1>4, <1>5 DEF t, h

\* A load that is the last to change something is a change.
LEMMA LoadIsChange == ASSUME NEW s, EndsLoading(s) PROVE ~NoChange(s)
BY DEF EndsLoading, NoChange

\* Events written and read.
LEMMA EventWritten ==
  ASSUME NEW s \in Seq(Events), NEW e \in Events
  PROVE  /\ Append(s, e) \in Seq(Events)
         /\ NoReply(s) /\ e.ev \notin Replies => NoReply(Append(s, e))
         /\ \A op : NoReply(s) /\ e.ev \in Expected(op) => LoneReply(Append(s, e), op, e.n)
         /\ \A op, n : LoneReply(s, op, n) /\ e.ev \notin Replies => LoneReply(Append(s, e), op, n)
<1>1. /\ Append(s, e) \in Seq(Events)
      /\ DOMAIN Append(s, e) = DOMAIN s \cup {Len(s) + 1} /\ Len(s) + 1 \notin DOMAIN s
      /\ \A k \in DOMAIN s : Append(s, e)[k] = s[k]
      /\ Append(s, e)[Len(s) + 1] = e
  BY AppendAt
<1> DEFINE t == Append(s, e)
<1> HIDE DEF t
<1>2. NoReply(s) /\ e.ev \notin Replies => NoReply(t)  BY <1>1 DEF NoReply, t
<1>3. ASSUME NEW op, NoReply(s), e.ev \in Expected(op) PROVE LoneReply(t, op, e.n)
  BY <1>1, <1>3 DEF NoReply, LoneReply, t
<1>4. ASSUME NEW op, NEW n, LoneReply(s, op, n), e.ev \notin Replies PROVE LoneReply(t, op, n)
  BY <1>1, <1>4 DEF LoneReply, t
<1>5. QED  BY <1>1, <1>2, <1>3, <1>4 DEF t

LEMMA EventRead ==
  ASSUME NEW s \in Seq(Events), s # <<>>
  PROVE  /\ Tail(s) \in Seq(Events) /\ Head(s) \in Events
         /\ NoReply(s) => NoReply(Tail(s)) /\ Head(s).ev \notin Replies
         /\ \A op, n : LoneReply(s, op, n) /\ Head(s).ev \in Replies => Head(s).n = n /\ NoReply(Tail(s))
         /\ \A op, n : LoneReply(s, op, n) /\ Head(s).ev \notin Expected(op) => LoneReply(Tail(s), op, n)
<1> DEFINE t == Tail(s)
           h == Head(s)
           m == Len(s)
<1>1. /\ t \in Seq(Events) /\ h \in Events /\ m \in Nat \ {0} /\ DOMAIN s = 1..m /\ h = s[1]
      /\ DOMAIN t = 1..(m - 1) /\ \A k \in 1..(m - 1) : t[k] = s[k + 1]
  BY TailAt
<1> HIDE DEF t, h, m
<1>b. 1 \in DOMAIN s /\ \A k \in DOMAIN t : k + 1 \in DOMAIN s /\ t[k] = s[k + 1]  BY <1>1
<1>2. NoReply(s) => NoReply(t) /\ h.ev \notin Replies  BY <1>1, <1>b DEF NoReply
<1>3. ASSUME NEW op, NEW n, LoneReply(s, op, n)
      PROVE  /\ h.ev \in Replies => h.n = n /\ NoReply(t)
             /\ h.ev \notin Expected(op) => LoneReply(t, op, n)
  <2>1. PICK k \in DOMAIN s : /\ s[k].ev \in Expected(op) /\ s[k].n = n
                              /\ \A i \in DOMAIN s : i # k => s[i].ev \notin Replies
    BY <1>3 DEF LoneReply
  <2>2. CASE k = 1
    <3>1. h.ev \in Expected(op) /\ h.n = n  BY <1>1, <2>1, <2>2
    <3>2. NoReply(t)  BY <1>1, <2>1, <2>2 DEF NoReply
    <3>3. QED  BY <3>1, <3>2
  <2>3. CASE k # 1
    <3>1. h.ev \notin Replies  BY <1>1, <2>1, <2>3
    <3>2. k - 1 \in DOMAIN t /\ t[k - 1] = s[k]  BY <1>1, <2>3
    <3>3. \A i \in DOMAIN t : i # k - 1 => t[i].ev \notin Replies  BY <1>1, <1>b, <2>1
    <3>4. LoneReply(t, op, n)  BY <2>1, <3>2, <3>3 DEF LoneReply
    <3>5. QED  BY <3>1, <3>4
  <2>4. QED  BY <2>2, <2>3
<1>4. QED  BY <1>1, <1>2, <1>3 DEF t, h

-----------------------------------------------------------------------------
(* Types and numbers. *)

PoolTyped ==
  proc \in {"none", "alive", "exiting", "dead"} /\ loaded \in BOOLEAN /\ jobsServed \in Nat /\ call \in CallRecords
PipesTyped == cmds \in Seq(Commands) /\ events \in Seq(Events)
WorkerTyped ==
  queue \in Seq(Orders) /\ abort \in BOOLEAN /\ task \in Tasks /\ model \in BOOLEAN /\ weights \in Nat
HistoryTyped ==
  /\ calls \in Nat /\ served \in Nat /\ raised \in Nat
  /\ last \in [call : CallRecords, answer : Events \cup {NoAnswer}]

\* The records that the steps make.
LEMMA Records ==
  /\ \A n \in Nat, op \in Op : [op |-> op, n |-> n, abort |-> FALSE] \in CallRecords
  /\ \A n \in Nat, d \in {"load", "generate"} : [doing |-> d, n |-> n] \in Tasks
  /\ \A n \in Nat, c \in Op \cup {"abort"} :
       Cmd(c, n) \in Commands /\ Cmd(c, n).cmd = c /\ Cmd(c, n).n = n
  /\ \A n \in Nat, e \in Kind, c \in BOOLEAN :
       Event(e, n, c) \in Events /\ Event(e, n, c).ev = e /\ Event(e, n, c).n = n
  /\ NoCall \in CallRecords /\ Idle \in Tasks
  /\ \A c \in Commands : c.n \in Nat /\ (c.cmd # "abort" => c \in Orders)
  /\ \A c \in Orders : c \in Commands /\ c.cmd # "abort"
BY DEF CallRecords, Tasks, Cmd, Commands, Event, Events, NoCall, Idle, Orders, Op

LEMMA EmptyIsSeq == \A S : <<>> \in Seq(S)
OBVIOUS

LEMMA AppendIsSeq == \A S : \A s \in Seq(S), e \in S : Append(s, e) \in Seq(S)
OBVIOUS

\* A queued command is one that a pipe can hold.
LEMMA QueuedAreCommands == \A s \in Seq(Orders) : s \in Seq(Commands)
<1> SUFFICES ASSUME NEW s \in Seq(Orders) PROVE s \in Seq(Commands)  OBVIOUS
<1>1. \A k \in 1..Len(s) : s[k] \in Commands  BY Records
<1>2. QED  BY <1>1

LEMMA FreshTyped == ASSUME FreshWorker PROVE WorkerTyped'
BY Records, EmptyIsSeq DEF FreshWorker, WorkerTyped

LEMMA AbortTyped ==
  ASSUME ForceAbort PROVE WorkerTyped' /\ PipesTyped' /\ proc' = "none" /\ loaded' = FALSE
BY FreshTyped, EmptyIsSeq DEF ForceAbort, PipesTyped

LEMMA EndTyped ==
  ASSUME ProtocolTypeOK, NEW e \in Events \cup {NoAnswer}, Ends(e)
  PROVE  call' \in CallRecords /\ last' \in [call : CallRecords, answer : Events \cup {NoAnswer}]
BY Records DEF Ends, ProtocolTypeOK

LEMMA GenerateTyped ==
  ASSUME ProtocolTypeOK, NEW e \in Events \cup {NoAnswer}, NEW rest \in Seq(Events), NEW stays \in BOOLEAN,
         GenerateEnds(e, rest, stays)
  PROVE  ProtocolTypeOK'
<1>1. call' \in CallRecords /\ last' \in [call : CallRecords, answer : Events \cup {NoAnswer}]
  BY EndTyped DEF GenerateEnds
<1>2. calls' \in Nat /\ raised' \in Nat /\ jobsServed' \in Nat  BY DEF GenerateEnds, ProtocolTypeOK
<1>3. CASE Recycles
  <2>1. WorkerTyped' /\ PipesTyped' /\ proc' = "none" /\ loaded' = FALSE /\ served' = 0
    BY <1>3, AbortTyped DEF GenerateEnds
  <2>2. QED  BY <1>1, <1>2, <2>1 DEF WorkerTyped, PipesTyped, ProtocolTypeOK
<1>4. CASE ~Recycles
  <2>1. events' = rest /\ loaded' = stays /\ served' = served + 1 /\ UNCHANGED <<proc, cmds, worker>>
    BY <1>4 DEF GenerateEnds
  <2>2. QED  BY <1>1, <1>2, <2>1 DEF worker, ProtocolTypeOK
<1>5. QED  BY <1>3, <1>4

LEMMA TypesKept ==
  ASSUME ProtocolTypeOK, CountsOK, ProtocolNext PROVE ProtocolTypeOK'
<1>0. PoolTyped /\ PipesTyped /\ WorkerTyped /\ HistoryTyped
  BY DEF ProtocolTypeOK, PoolTyped, PipesTyped, WorkerTyped, HistoryTyped
<1> SUFFICES PoolTyped' /\ PipesTyped' /\ WorkerTyped' /\ HistoryTyped'
  BY DEF ProtocolTypeOK, PoolTyped, PipesTyped, WorkerTyped, HistoryTyped
<1> DEFINE Typed == PoolTyped' /\ PipesTyped' /\ WorkerTyped' /\ HistoryTyped'
<1>u. /\ UNCHANGED pool => PoolTyped'
      /\ UNCHANGED worker => WorkerTyped'
      /\ UNCHANGED history => HistoryTyped'
      /\ UNCHANGED <<cmds, events>> => PipesTyped'
  BY <1>0 DEF pool, worker, history, callHistory, PoolTyped, PipesTyped, WorkerTyped, HistoryTyped
<1>s. /\ \A n \in Nat, c \in Op \cup {"abort"} : Append(cmds, Cmd(c, n)) \in Seq(Commands) /\ <<Cmd(c, n)>> \in Seq(Commands)
      /\ \A e \in Kind, n \in Nat, c \in BOOLEAN : Append(events, Event(e, n, c)) \in Seq(Events)
  <2>1. cmds \in Seq(Commands) /\ events \in Seq(Events)  BY <1>0 DEF PipesTyped
  <2>2. \A n \in Nat, c \in Op \cup {"abort"} : Append(cmds, Cmd(c, n)) \in Seq(Commands)
    BY <2>1, Records, AppendIsSeq
  <2>3. \A n \in Nat, c \in Op \cup {"abort"} : <<Cmd(c, n)>> \in Seq(Commands)
    BY Records
  <2>4. \A e \in Kind, n \in Nat, c \in BOOLEAN : Append(events, Event(e, n, c)) \in Seq(Events)
    BY <2>1, Records, AppendIsSeq
  <2>5. QED  BY <2>2, <2>3, <2>4
<1>e. \A e \in Kind, n \in Nat, c \in BOOLEAN : Emits(e, n, c) => events' \in Seq(Events)
  <2> SUFFICES ASSUME NEW e \in Kind, NEW n \in Nat, NEW c \in BOOLEAN, Emits(e, n, c)
               PROVE  events' \in Seq(Events)
    OBVIOUS
  <2>1. events' = Append(events, Event(e, n, c))  BY DEF Emits
  <2>2. Append(events, Event(e, n, c)) \in Seq(Events)  BY <1>s, Zenon
  <2>3. QED  BY <2>1, <2>2
<1>2. CASE CallLoad
  <2>1. call' \in CallRecords /\ calls' \in Nat /\ UNCHANGED <<jobsServed, raised, last>>
    <3>1. calls \in Nat /\ "load" \in Op  BY <1>0 DEF HistoryTyped, Op
    <3>2. [op |-> "load", n |-> calls + 1, abort |-> FALSE] \in CallRecords  BY <3>1, Records
    <3>3. QED  BY <1>2, <3>1, <3>2 DEF CallLoad, Begins
  <2>2. CASE Running
    <3>1. cmds' \in Seq(Commands)  BY <1>0, <1>2, <1>s, <2>2 DEF CallLoad, HistoryTyped, Op
    <3>2. UNCHANGED <<proc, loaded, worker, events, served>>  BY <1>2, <2>2 DEF CallLoad
    <3>3. QED  BY <1>0, <1>u, <2>1, <3>1, <3>2 DEF PoolTyped, PipesTyped, HistoryTyped
  <2>3. CASE ~Running
    <3>1. cmds' \in Seq(Commands)  BY <1>0, <1>2, <1>s, <2>3 DEF CallLoad, HistoryTyped, Op
    <3>2. proc' = "alive" /\ loaded' = FALSE /\ events' = <<>> /\ served' = 0 /\ FreshWorker
      BY <1>2, <2>3 DEF CallLoad
    <3>3. QED  BY <1>0, <2>1, <3>1, <3>2, FreshTyped, EmptyIsSeq DEF PoolTyped, PipesTyped, HistoryTyped
  <2>4. QED  BY <2>2, <2>3
<1>3. ASSUME NEW op \in Op, CallOther(op) PROVE Typed
  <2>1. call' \in CallRecords /\ calls' \in Nat /\ UNCHANGED <<jobsServed, raised, last>>
    BY <1>0, <1>3, Records DEF CallOther, Begins, HistoryTyped
  <2>2. cmds' \in Seq(Commands)  BY <1>0, <1>3, <1>s DEF CallOther, HistoryTyped
  <2>3. UNCHANGED <<proc, loaded, worker, events, served>>  BY <1>3 DEF CallOther
  <2>4. QED  BY <1>0, <1>u, <2>1, <2>2, <2>3 DEF PoolTyped, PipesTyped, HistoryTyped
<1>4. ASSUME NEW op \in Op, SendFails(op) PROVE Typed
  <2>1. [op |-> op, n |-> calls + 1, abort |-> FALSE] \in CallRecords  BY <1>0, Records DEF HistoryTyped
  <2>2. HistoryTyped'  BY <1>0, <1>4, <2>1 DEF SendFails, HistoryTyped
  <2>3. FreshWorker /\ proc' = "dead" /\ cmds' = <<>> /\ UNCHANGED <<events, jobsServed, call>>
    BY <1>4 DEF SendFails
  <2>4. loaded' \in BOOLEAN  BY <1>4 DEF SendFails
  <2>5. QED  BY <1>0, <2>2, <2>3, <2>4, FreshTyped, EmptyIsSeq DEF PoolTyped, PipesTyped
<1>5. CASE SendAbort
  <2>1. call' \in CallRecords  BY <1>0, <1>5 DEF SendAbort, CallRecords, PoolTyped
  <2>2. call.n \in Nat  BY <1>0 DEF PoolTyped, CallRecords
  <2>3. cmds' \in Seq(Commands)  BY <1>0, <1>5, <1>s, <2>2 DEF SendAbort, PipesTyped
  <2>4. UNCHANGED <<proc, loaded, jobsServed, worker, events, history>>  BY <1>5 DEF SendAbort
  <2>5. QED  BY <1>0, <1>u, <2>1, <2>3, <2>4 DEF PoolTyped, PipesTyped
<1>h. events # <<>> => Head(events) \in Events /\ Tail(events) \in Seq(Events)
  BY <1>0, TailAt DEF PipesTyped
<1>6. CASE DropEvent
  <2>1. UNCHANGED <<pool, cmds, worker, history>>  BY <1>6 DEF DropEvent
  <2>2. events' \in Seq(Events)  BY <1>6, <1>h DEF DropEvent
  <2>3. QED  BY <1>0, <1>u, <2>1, <2>2 DEF PipesTyped
<1>g. ASSUME ProtocolTypeOK' PROVE Typed
  BY <1>g DEF ProtocolTypeOK, PoolTyped, PipesTyped, WorkerTyped, HistoryTyped
<1>7. CASE TakeAnswer
  <2>1. Head(events) \in Events /\ Tail(events) \in Seq(Events)  BY <1>7, <1>h DEF TakeAnswer
  <2>2. CASE GenerateEnds(Head(events), Tail(events), loaded)
    <3>1. loaded \in BOOLEAN  BY <1>0 DEF PoolTyped
    <3>2. QED  BY <1>g, <2>1, <2>2, <3>1, GenerateTyped
  <2>3. CASE ~GenerateEnds(Head(events), Tail(events), loaded)
    <3>1. Ends(Head(events)) /\ events' = Tail(events)
          /\ UNCHANGED <<proc, jobsServed, cmds, worker, calls, served, raised>>
      BY <1>7, <2>3 DEF TakeAnswer
    <3>2. loaded' \in BOOLEAN  BY <1>7, <2>3 DEF TakeAnswer
    <3>3. QED  BY <1>0, <1>u, <2>1, <3>1, <3>2, EndTyped DEF PoolTyped, PipesTyped, HistoryTyped
  <2>4. QED  BY <2>2, <2>3
<1>8. CASE Eof
  <2>1. CASE GenerateEnds(NoAnswer, <<>>, FALSE)
    BY <1>g, <2>1, GenerateTyped, EmptyIsSeq
  <2>2. CASE ~GenerateEnds(NoAnswer, <<>>, FALSE)
    <3>1. Ends(NoAnswer) /\ UNCHANGED <<proc, jobsServed, cmds, worker, events, calls, served, raised>>
      BY <1>8, <2>2 DEF Eof
    <3>2. loaded' \in BOOLEAN  BY <1>0, <1>8, <2>2 DEF Eof, StillLoaded, PoolTyped
    <3>3. QED  BY <1>0, <1>u, <3>1, <3>2, EndTyped DEF PoolTyped, PipesTyped, HistoryTyped
  <2>3. QED  BY <2>1, <2>2
<1>9. CASE Timeout
  <2>1. Ends(NoAnswer) /\ UNCHANGED <<calls, raised>>  BY <1>9 DEF Timeout
  <2>2. jobsServed' \in Nat  BY <1>0, <1>9 DEF Timeout, PoolTyped
  <2>3. CASE KillsOnTimeout
    <3>1. ForceAbort /\ served' = 0  BY <1>9, <2>3 DEF Timeout
    <3>2. QED  BY <1>0, <2>1, <2>2, <3>1, AbortTyped, EndTyped DEF PoolTyped, HistoryTyped
  <2>4. CASE ~KillsOnTimeout
    <3>1. UNCHANGED <<proc, cmds, worker, events, served>>  BY <1>9, <2>4 DEF Timeout
    <3>2. loaded' \in BOOLEAN  BY <1>0, <1>9, <2>4 DEF Timeout, StillLoaded, PoolTyped
    <3>3. QED  BY <1>0, <1>u, <2>1, <2>2, <3>1, <3>2, EndTyped DEF PoolTyped, PipesTyped, HistoryTyped
  <2>5. QED  BY <2>3, <2>4
<1>10. CASE Shutdown
  BY <1>0, <1>10, AbortTyped DEF Shutdown, PoolTyped, HistoryTyped
<1>11. CASE ReaderReads
  <2>1. Head(cmds) \in Commands /\ Tail(cmds) \in Seq(Commands)  BY <1>0, <1>11, TailAt DEF ReaderReads, PipesTyped
  <2>2. Head(cmds).cmd # "abort" => Append(queue, Head(cmds)) \in Seq(Orders)
    BY <1>0, <2>1, Records, AppendIsSeq DEF WorkerTyped
  <2>3. UNCHANGED <<pool, task, model, weights, events, history>> /\ cmds' = Tail(cmds)  BY <1>11 DEF ReaderReads
  <2>4. abort' \in BOOLEAN /\ queue' \in Seq(Orders)  BY <1>0, <1>11, <2>2 DEF ReaderReads, WorkerTyped
  <2>5. QED  BY <1>0, <1>u, <2>1, <2>3, <2>4 DEF PipesTyped, WorkerTyped
<1>12. ASSUME NEW c, Executes(c) PROVE queue' \in Seq(Orders) /\ Head(queue) \in Orders /\ Head(queue).n \in Nat
  BY <1>0, <1>12, TailAt, Records DEF Executes, WorkerTyped
<1>13. CASE DoPing
  <2>1. events' \in Seq(Events) /\ queue' \in Seq(Orders)  BY <1>12, <1>e, <1>13 DEF DoPing, Kind
  <2>2. UNCHANGED <<pool, cmds, abort, task, model, weights, history>>  BY <1>13 DEF DoPing
  <2>3. QED  BY <1>0, <1>u, <2>1, <2>2 DEF PipesTyped, WorkerTyped
<1>w. /\ Unloaded => weights' \in Nat /\ raised' \in Nat
      /\ UnloadRaises => weights' \in Nat /\ raised' \in Nat
  <2>1. weights \in Nat /\ raised \in Nat /\ model \in BOOLEAN /\ (model => weights > 0)
    BY <1>0 DEF WorkerTyped, HistoryTyped, CountsOK
  <2>2. Unloaded => weights' \in Nat /\ raised' \in Nat  BY <2>1 DEF Unloaded
  <2>3. UnloadRaises => weights' \in Nat /\ raised' \in Nat  BY <2>1 DEF UnloadRaises
  <2>4. QED  BY <2>2, <2>3
<1>14. CASE DoUnload
  <2>1. queue' \in Seq(Orders) /\ Head(queue).n \in Nat /\ UNCHANGED <<pool, cmds, abort, task, callHistory>>
    BY <1>12, <1>14 DEF DoUnload
  <2>2. CASE Unloaded /\ Emits("unloaded", Head(queue).n, FALSE) /\ model' = FALSE
    <3>1. events' \in Seq(Events)  BY <1>e, <2>1, <2>2 DEF Kind
    <3>2. QED  BY <1>0, <1>u, <1>w, <2>1, <2>2, <3>1 DEF PipesTyped, WorkerTyped, HistoryTyped, callHistory
  <2>3. CASE UnloadRaises /\ UNCHANGED model
    <3>1. events' \in Seq(Events)  BY <1>e, <2>1, <2>3 DEF Kind, UnloadRaises
    <3>2. QED  BY <1>0, <1>u, <1>w, <2>1, <2>3, <3>1 DEF PipesTyped, WorkerTyped, HistoryTyped, callHistory
  <2>4. QED  BY <1>14, <2>2, <2>3 DEF DoUnload
<1>15. CASE DoLoad
  <2>1. /\ queue' \in Seq(Orders) /\ Head(queue).n \in Nat /\ UNCHANGED <<pool, cmds, abort, callHistory>>
        /\ model' = FALSE /\ task' \in Tasks
    BY <1>12, <1>15, Records DEF DoLoad
  <2>2. CASE Unloaded /\ UNCHANGED events
    BY <1>0, <1>u, <1>w, <2>1, <2>2 DEF PipesTyped, WorkerTyped, HistoryTyped, callHistory
  <2>3. CASE UnloadRaises
    <3>1. events' \in Seq(Events)  BY <1>e, <2>1, <2>3 DEF Kind, UnloadRaises
    <3>2. QED  BY <1>0, <1>u, <1>w, <2>1, <2>3, <3>1 DEF PipesTyped, WorkerTyped, HistoryTyped, callHistory
  <2>4. QED  BY <1>15, <2>2, <2>3 DEF DoLoad, UnloadsFirst
<1>t. task.n \in Nat  BY <1>0 DEF WorkerTyped, Tasks
<1>16. CASE LoadReturns
  <2>1. events' \in Seq(Events)  BY <1>e, <1>t, <1>16 DEF LoadReturns, Kind
  <2>2. UNCHANGED <<pool, cmds, queue, abort, history>> /\ task' = Idle /\ model' = TRUE /\ weights' = weights + 1
    BY <1>16 DEF LoadReturns
  <2>3. QED  BY <1>0, <1>u, <2>1, <2>2, Records DEF PipesTyped, WorkerTyped
<1>17. CASE LoadRaises
  <2>1. events' \in Seq(Events)  BY <1>e, <1>t, <1>17 DEF LoadRaises, Kind
  <2>2. UNCHANGED <<loaded, jobsServed, call, cmds, worker, history>> /\ proc' = "exiting"
    BY <1>17 DEF LoadRaises
  <2>3. QED  BY <1>0, <1>u, <2>1, <2>2 DEF PipesTyped, PoolTyped
<1>18. CASE DoGenerate
  <2>1. queue' \in Seq(Orders) /\ Head(queue).n \in Nat /\ UNCHANGED <<pool, cmds, model, weights, history>>
    BY <1>12, <1>18 DEF DoGenerate
  <2>2. CASE Emits("error", Head(queue).n, FALSE) /\ UNCHANGED <<abort, task>>
    <3>1. events' \in Seq(Events)  BY <1>e, <2>1, <2>2 DEF Kind
    <3>2. QED  BY <1>0, <1>u, <2>1, <2>2, <3>1 DEF PipesTyped, WorkerTyped
  <2>3. CASE abort' = FALSE /\ Emits("done", Head(queue).n, TRUE) /\ UNCHANGED task
    <3>1. events' \in Seq(Events)  BY <1>e, <2>1, <2>3 DEF Kind
    <3>2. QED  BY <1>0, <1>u, <2>1, <2>3, <3>1 DEF PipesTyped, WorkerTyped
  <2>4. CASE task' = [doing |-> "generate", n |-> Head(queue).n] /\ UNCHANGED <<abort, events>>
    BY <1>0, <1>u, <2>1, <2>4, Records DEF PipesTyped, WorkerTyped
  <2>5. QED  BY <1>18, <2>2, <2>3, <2>4 DEF DoGenerate
<1>19. CASE GenerateAnswers
  <2>1. PICK e \in {"done", "error"}, c \in BOOLEAN : Emits(e, task.n, c)  BY <1>19 DEF GenerateAnswers
  <2>2. events' \in Seq(Events)  BY <1>e, <1>t, <2>1 DEF Kind
  <2>3. UNCHANGED <<pool, cmds, queue, abort, model, weights, history>> /\ task' \in Tasks
    BY <1>0, <1>19 DEF GenerateAnswers, WorkerTyped, Tasks
  <2>4. QED  BY <1>0, <1>u, <2>2, <2>3 DEF PipesTyped, WorkerTyped
<1>20. CASE GenerateResets
  <2>1. UNCHANGED <<pool, cmds, queue, model, weights, events, history>> /\ abort' = FALSE /\ task' = Idle
    BY <1>20 DEF GenerateResets
  <2>2. QED  BY <1>0, <1>u, <2>1, Records DEF PipesTyped, WorkerTyped
<1>21. CASE Dies
  <2>1. FreshWorker /\ proc' = "dead" /\ cmds' = <<>> /\ UNCHANGED <<loaded, jobsServed, call, events, history>>
    BY <1>21 DEF Dies
  <2>2. QED  BY <1>0, <1>u, <2>1, FreshTyped, EmptyIsSeq DEF PoolTyped, PipesTyped
<1>22. QED
  BY <1>2, <1>3, <1>4, <1>5, <1>6, <1>7, <1>8, <1>9, <1>10, <1>11, <1>13, <1>14, <1>15, <1>16, <1>17, <1>18,
     <1>19, <1>20, <1>21 DEF ProtocolNext, WorkerNext

\* The counters keep their relations: a model that is taken away takes its weights along
\* unless the unload raises, and a process that has served MaxJobs jobs is recycled.
LEMMA CountsKept ==
  ASSUME ProtocolTypeOK, CountsOK, ProtocolNext PROVE CountsOK'
<1> USE ProtocolAssumption DEF ProtocolTypeOK, ProtocolAssumption, CountsOK, Running, NoCall, Idle,
                               history, callHistory, pool, worker
<1>1. CASE CallLoad  BY <1>1 DEF CallLoad, Begins, FreshWorker
<1>2. ASSUME NEW op \in Op, CallOther(op) \/ SendFails(op) PROVE CountsOK'
  BY <1>2 DEF CallOther, Begins, SendFails, FreshWorker
<1>3. CASE SendAbort \/ DropEvent  BY <1>3 DEF SendAbort, DropEvent
<1>4. CASE TakeAnswer  BY <1>4 DEF TakeAnswer, GenerateEnds, Recycles, ForceAbort, FreshWorker
<1>5. CASE Eof  BY <1>5 DEF Eof, GenerateEnds, Recycles, ForceAbort, FreshWorker
<1>6. CASE Timeout  BY <1>6 DEF Timeout, KillsOnTimeout, ForceAbort, FreshWorker
<1>7. CASE Shutdown  BY <1>7 DEF Shutdown, ForceAbort, FreshWorker
<1>8. CASE ReaderReads \/ DoPing
  <2>1. UNCHANGED <<proc, jobsServed, task, model, weights, history>>  BY <1>8 DEF ReaderReads, DoPing
  <2>2. QED  BY <2>1
<1>d. CASE DoGenerate
  <2>1. UNCHANGED <<proc, jobsServed, model, weights, history>>  BY <1>d DEF DoGenerate
  <2>2. task' = task \/ task'.doing = "generate"
    <3>1. [doing |-> "generate", n |-> Head(queue).n].doing = "generate"  OBVIOUS
    <3>2. task' = task \/ task' = [doing |-> "generate", n |-> Head(queue).n]  BY <1>d, Zenon DEF DoGenerate
    <3>3. QED  BY <3>1, <3>2
  <2>3. QED  BY <2>1, <2>2
<1>9. CASE DoUnload
  <2>1. UNCHANGED <<proc, jobsServed, task, callHistory>>  BY <1>9 DEF DoUnload
  <2>2. (Unloaded /\ model' = FALSE) \/ (UnloadRaises /\ model' = model)  BY <1>9 DEF DoUnload
  <2>3. CASE Unloaded /\ model' = FALSE  BY <2>1, <2>3 DEF Unloaded
  <2>4. CASE UnloadRaises /\ model' = model  BY <2>1, <2>4 DEF UnloadRaises
  <2>5. QED  BY <2>2, <2>3, <2>4
<1>10. CASE DoLoad
  <2>1. UNCHANGED <<proc, jobsServed, callHistory>> /\ model' = FALSE  BY <1>10 DEF DoLoad
  <2>2. Unloaded \/ UnloadRaises  BY <1>10 DEF DoLoad, UnloadsFirst
  <2>3. CASE Unloaded  BY <2>1, <2>3 DEF Unloaded
  <2>4. CASE UnloadRaises  BY <2>1, <2>4 DEF UnloadRaises
  <2>5. QED  BY <2>2, <2>3, <2>4
<1>11. CASE LoadReturns \/ LoadRaises
  <2>1. CASE LoadReturns
    <3>1. UNCHANGED <<proc, jobsServed, history>> /\ task.doing = "load" /\ model' = TRUE /\ weights' = weights + 1 /\ task' = Idle
      BY <2>1 DEF LoadReturns
    <3>2. QED  BY <3>1
  <2>2. CASE LoadRaises
    <3>1. UNCHANGED <<jobsServed, worker, history>> /\ proc = "alive"  BY <2>2 DEF LoadRaises
    <3>2. QED  BY <3>1
  <2>3. QED  BY <1>11, <2>1, <2>2
<1>12. CASE GenerateAnswers \/ GenerateResets
  <2>1. UNCHANGED <<proc, jobsServed, model, weights, history>> /\ task'.doing # "load"
    BY <1>12 DEF GenerateAnswers, GenerateResets, Tasks
  <2>2. QED  BY <2>1
<1>13. CASE Dies  BY <1>13 DEF Dies, FreshWorker
<1>14. QED
  BY <1>1, <1>2, <1>3, <1>4, <1>5, <1>6, <1>7, <1>8, <1>d, <1>9, <1>10, <1>11, <1>12, <1>13 DEF ProtocolNext, WorkerNext

-----------------------------------------------------------------------------
(* What is taken for loaded. *)

\* A command is executed: the others of the queue stay as they are.
LEMMA TakenFromQueue ==
  ASSUME ProtocolTypeOK, NEW c, Executes(c)
  PROVE  /\ queue \in Seq(Commands) /\ queue # <<>> /\ Head(queue).cmd = c /\ Head(queue).n \in Nat
         /\ queue' = Tail(queue) /\ proc = "alive" /\ task = Idle
         /\ NoChange(queue) <=> NoChange(queue') /\ c \notin {"load", "unload"}
         /\ EndsLoading(queue) => IF NoChange(queue') THEN c = "load" ELSE EndsLoading(queue')
<1>1. queue \in Seq(Commands)  BY QueuedAreCommands DEF ProtocolTypeOK
<1>2. queue # <<>> /\ Head(queue).cmd = c /\ queue' = Tail(queue) /\ proc = "alive" /\ task = Idle
  BY DEF Executes
<1>3. Head(queue).n \in Nat  BY <1>1, <1>2, TailAt, Records
<1>4. QED  BY <1>1, <1>2, <1>3, CommandTaken

\* A command reaches the queue, or the flag is set.
LEMMA ReadFromPipe ==
  ASSUME ProtocolTypeOK, ReaderReads
  PROVE  /\ proc = "alive" /\ cmds # <<>> /\ cmds' = Tail(cmds) /\ queue \in Seq(Commands) /\ Head(cmds) \in Commands
         /\ UNCHANGED <<pool, task, model, weights, events, history>>
         /\ IF Head(cmds).cmd = "abort" THEN queue' = queue ELSE queue' = Append(queue, Head(cmds))
<1>1. queue \in Seq(Commands)  BY QueuedAreCommands DEF ProtocolTypeOK
<1>2. cmds # <<>> /\ cmds \in Seq(Commands)  BY DEF ReaderReads, ProtocolTypeOK
<1>3. Head(cmds) \in Commands  BY <1>2, TailAt
<1>4. QED  BY <1>1, <1>2, <1>3 DEF ReaderReads

\* Every step of the worker and the pool keeps what brings the model.
LEMMA LoadsKept ==
  ASSUME ProtocolTypeOK, LoadsOK, ProtocolNext PROVE LoadsOK'
<1>0. cmds \in Seq(Commands) /\ queue \in Seq(Commands)  BY QueuedAreCommands DEF ProtocolTypeOK
<1>n. NoCall.op = "none"  BY DEF NoCall
<1> SUFFICES ASSUME proc' = "alive", call'.op = "load" \/ (loaded' /\ call'.op # "unload") PROVE WillLoad'
  BY DEF LoadsOK
<1>s. ASSUME UNCHANGED <<cmds, queue, task, model>>, WillLoad PROVE WillLoad'  BY <1>s DEF WillLoad
<1>p. ASSUME WillLoad, NEW c \in Commands, c.cmd \notin {"load", "unload"}, cmds' = Append(cmds, c), UNCHANGED <<queue, task, model>>
      PROVE  WillLoad'
  BY <1>0, <1>p, CommandAppended DEF WillLoad
<1>1. CASE CallLoad
  <2>1. Cmd("load", calls + 1) \in Commands /\ Cmd("load", calls + 1).cmd = "load"
    BY Records DEF ProtocolTypeOK, Op
  <2>2. CASE Running
    <3>1. cmds' = Append(cmds, Cmd("load", calls + 1))  BY <1>1, <2>2 DEF CallLoad
    <3>2. EndsLoading(cmds')  BY <1>0, <2>1, <3>1, CommandAppended
    <3>3. QED  BY <3>2, LoadIsChange DEF WillLoad
  <2>3. CASE ~Running
    <3>1. cmds' = <<Cmd("load", calls + 1)>>  BY <1>1, <2>3 DEF CallLoad
    <3>2. EndsLoading(cmds')  BY <2>1, <3>1 DEF EndsLoading
    <3>3. QED  BY <3>2, LoadIsChange DEF WillLoad
  <2>4. QED  BY <2>2, <2>3
<1>2. ASSUME NEW op \in Op, CallOther(op) PROVE WillLoad'
  <2>1. call = NoCall /\ call'.op = op /\ op # "load" /\ cmds' = Append(cmds, Cmd(op, calls + 1))
        /\ UNCHANGED <<proc, loaded, queue, task, model>>
    BY <1>2 DEF CallOther, Begins, worker
  <2>2. WillLoad  BY <1>n, <2>1 DEF LoadsOK
  <2>3. Cmd(op, calls + 1) \in Commands /\ Cmd(op, calls + 1).cmd = op  BY Records DEF ProtocolTypeOK
  <2>4. QED  BY <1>p, <2>1, <2>2, <2>3
<1>3. ASSUME NEW op \in Op, SendFails(op) PROVE FALSE  BY <1>3 DEF SendFails
<1>4. CASE SendAbort
  <2>1. call.op = "generate" /\ call'.op = "generate" /\ UNCHANGED <<proc, loaded, queue, task, model>>
    BY <1>4 DEF SendAbort, worker, ProtocolTypeOK, CallRecords
  <2>2. WillLoad  BY <2>1 DEF LoadsOK
  <2>3. call.n \in Nat  BY DEF ProtocolTypeOK, CallRecords
  <2>4. Cmd("abort", call.n) \in Commands /\ Cmd("abort", call.n).cmd = "abort"  BY <2>3, Records
  <2>5. cmds' = cmds \/ cmds' = Append(cmds, Cmd("abort", call.n))  BY <1>4 DEF SendAbort
  <2>6. QED  BY <1>p, <1>s, <2>1, <2>2, <2>4, <2>5
<1>5. CASE DropEvent
  <2>1. UNCHANGED <<pool, cmds, worker>>  BY <1>5 DEF DropEvent
  <2>2. QED  BY <1>s, <2>1 DEF LoadsOK, pool, worker
<1>6. ASSUME Ends(NoAnswer) \/ Ends(Head(events)), UNCHANGED <<proc, cmds, worker>>,
             loaded' => (loaded /\ call.op # "unload") \/ call.op = "load"
      PROVE  WillLoad'
  BY <1>n, <1>s, <1>6 DEF Ends, LoadsOK, worker
<1>7. ASSUME NEW e, NEW rest, NEW stays, GenerateEnds(e, rest, stays), stays => loaded, Ends(e) => Ends(NoAnswer) \/ Ends(Head(events))
      PROVE  WillLoad'
  <2>1. ~Recycles  BY <1>7 DEF GenerateEnds, ForceAbort
  <2>2. call.op = "generate" /\ Ends(e) /\ loaded' = stays /\ UNCHANGED <<proc, cmds, worker>>
    BY <1>7, <2>1 DEF GenerateEnds
  <2>3. QED  BY <1>6, <1>7, <2>2
<1>8. CASE TakeAnswer
  <2>1. CASE GenerateEnds(Head(events), Tail(events), loaded)  BY <1>7, <2>1
  <2>2. CASE ~GenerateEnds(Head(events), Tail(events), loaded)
    <3>1. /\ Ends(Head(events)) /\ Head(events).ev \in Expected(call.op) /\ UNCHANGED <<proc, cmds, worker>>
          /\ loaded' = (StillLoaded \/ Head(events).ev = "ready")
      BY <1>8, <2>2 DEF TakeAnswer
    <3>2. Head(events).ev = "ready" => call.op = "load"
      BY <3>1 DEF Expected
    <3>3. QED  BY <1>6, <3>1, <3>2 DEF StillLoaded
  <2>3. QED  BY <2>1, <2>2
<1>9. CASE Eof
  <2>1. CASE GenerateEnds(NoAnswer, <<>>, FALSE)  BY <1>7, <2>1
  <2>2. CASE ~GenerateEnds(NoAnswer, <<>>, FALSE)  BY <1>6, <1>9, <2>2 DEF Eof, StillLoaded
  <2>3. QED  BY <2>1, <2>2
<1>10. CASE Timeout
  <2>1. ~KillsOnTimeout  BY <1>10 DEF Timeout, ForceAbort
  <2>2. Ends(NoAnswer) /\ loaded' = StillLoaded /\ UNCHANGED <<proc, cmds, worker>>  BY <1>10, <2>1 DEF Timeout
  <2>3. QED  BY <1>6, <2>2 DEF StillLoaded
<1>11. CASE Shutdown \/ LoadRaises \/ Dies  BY <1>11 DEF Shutdown, ForceAbort, LoadRaises, Dies
<1>w. ASSUME UNCHANGED <<loaded, call>>, proc = "alive" PROVE WillLoad  BY <1>w DEF LoadsOK
<1>12. CASE ReaderReads
  <2>1. /\ WillLoad /\ cmds # <<>> /\ cmds' = Tail(cmds) /\ Head(cmds) \in Commands /\ UNCHANGED <<task, model>>
        /\ IF Head(cmds).cmd = "abort" THEN queue' = queue ELSE queue' = Append(queue, Head(cmds))
    BY <1>12, <1>w, ReadFromPipe DEF pool
  <2> DEFINE h == Head(cmds)
  <2> HIDE DEF h
  <2>2. /\ NoChange(cmds) <=> NoChange(cmds') /\ h.cmd \notin {"load", "unload"}
        /\ EndsLoading(cmds) => IF NoChange(cmds') THEN h.cmd = "load" ELSE EndsLoading(cmds')
    BY <1>0, <2>1, CommandTaken DEF h
  <2>3. /\ NoChange(queue') <=> NoChange(queue) /\ h.cmd \notin {"load", "unload"}
        /\ EndsLoading(queue) /\ h.cmd # "unload" => EndsLoading(queue')
        /\ h.cmd = "load" => EndsLoading(queue')
    BY <1>0, <2>1, CommandAppended DEF h
  <2>4. QED  BY <2>1, <2>2, <2>3, LoadIsChange DEF WillLoad
<1>13. ASSUME NEW c, Executes(c), UNCHANGED <<loaded, call, cmds>>,
              c = "load" => task'.doing = "load",
              c \notin {"load", "unload"} => model' = model
       PROVE  WillLoad'
  <2>1. /\ proc = "alive" /\ task = Idle
        /\ NoChange(queue) <=> NoChange(queue') /\ c \notin {"load", "unload"}
        /\ EndsLoading(queue) => IF NoChange(queue') THEN c = "load" ELSE EndsLoading(queue')
    BY <1>13, TakenFromQueue
  <2>2. WillLoad  BY <1>13, <1>w, <2>1
  <2>3. task.doing # "load"  BY <2>1 DEF Idle
  <2>4. QED  BY <1>13, <2>1, <2>2, <2>3 DEF WillLoad
<1>14. CASE DoPing  BY <1>13, <1>14 DEF DoPing, pool
<1>15. CASE DoUnload  BY <1>13, <1>15 DEF DoUnload, pool
<1>16. CASE DoLoad
  <2>1. Executes("load") /\ UNCHANGED <<loaded, call, cmds>> /\ task'.doing = "load"  BY <1>16 DEF DoLoad, pool
  <2>2. QED  BY <1>13, <2>1
<1>17. CASE DoGenerate
  <2>1. Executes("generate") /\ UNCHANGED <<loaded, call, cmds, model>>  BY <1>17 DEF DoGenerate, pool
  <2>2. QED  BY <1>13, <2>1
<1>18. CASE LoadReturns
  <2>1. WillLoad /\ UNCHANGED <<cmds, queue>> /\ model' = TRUE  BY <1>18, <1>w DEF LoadReturns, pool
  <2>2. QED  BY <2>1 DEF WillLoad
<1>19. CASE GenerateAnswers \/ GenerateResets
  <2>1. WillLoad /\ UNCHANGED <<cmds, queue, model>> /\ task.doing # "load"
    BY <1>19, <1>w DEF GenerateAnswers, GenerateResets, pool
  <2>2. QED  BY <2>1 DEF WillLoad
<1>20. QED
  BY <1>1, <1>2, <1>3, <1>4, <1>5, <1>8, <1>9, <1>10, <1>11, <1>12, <1>14, <1>15, <1>16, <1>17, <1>18, <1>19
  DEF ProtocolNext, WorkerNext

-----------------------------------------------------------------------------
(* The trace of a call. *)

LEMMA OpsWork ==
  /\ \A op \in Working : op \in Op /\ op # "none" /\ Expected(op) \subseteq Replies
  /\ NoCall.op = "none" /\ "none" \notin Working /\ "unload" \notin Working /\ "ping" \notin Working
  /\ Expected("load") = {"ready", "error"} /\ Expected("generate") = {"done", "error"}
BY DEF Working, Expected, Replies, Op, NoCall

\* No call under way, and a process: nothing of the earlier calls is left.
LEMMA NothingLeft ==
  ASSUME TraceOK, raised = 0, call = NoCall, Running PROVE Nothing
BY OpsWork DEF TraceOK

\* A load or a generate under way, before an unload has raised.
LEMMA OneTrace ==
  ASSUME TraceOK, raised = 0, call.op \in Working
  PROVE  Trace(call.op, call.n) \/ (Nothing /\ proc # "alive")
BY OpsWork DEF TraceOK

\* Other calls find and leave nothing.
LEMMA NoTrace ==
  ASSUME TraceOK, raised = 0, call # NoCall \/ Running, call.op \notin Working
  PROVE  Nothing
BY DEF TraceOK

\* The pool's steps other than the ends of calls.
LEMMA TraceOfCalls ==
  ASSUME ProtocolTypeOK, TraceOK, raised = 0, CallLoad \/ (\E op \in Op : CallOther(op)) \/ SendAbort
  PROVE  TraceOK'
<1>0. cmds \in Seq(Commands)  BY DEF ProtocolTypeOK
<1>1. ASSUME Nothing, NEW op \in Op, call'.op = op, call'.n = calls + 1, cmds' = Append(cmds, Cmd(op, calls + 1)),
             UNCHANGED <<proc, worker, events>>
      PROVE  TraceOK'
  <2>1. Cmd(op, calls + 1) \in Commands /\ Cmd(op, calls + 1).cmd = op /\ Cmd(op, calls + 1).n = calls + 1
    BY Records DEF ProtocolTypeOK
  <2>2. NoWork(queue') /\ Rests' /\ NoReply(events') /\ NoWork(cmds)  BY <1>1 DEF Nothing, Rests, worker
  <2>3. CASE op \in Working
    <3>1. Lone(cmds', op, calls + 1)  BY <1>0, <1>1, <2>1, <2>2, CommandAppended
    <3>2. Sent(call.op, call.n)'  BY <1>1, <2>2, <3>1 DEF Sent
    <3>3. QED  BY <1>1, <2>3, <3>2 DEF TraceOK, Trace
  <2>4. CASE op \notin Working
    <3>1. NoWork(cmds')  BY <1>0, <1>1, <2>1, <2>2, <2>4, CommandAppended
    <3>2. Nothing'  BY <2>2, <3>1 DEF Nothing
    <3>3. QED  BY <1>1, <2>4, <3>2 DEF TraceOK
  <2>5. QED  BY <2>3, <2>4
<1>2. CASE CallLoad
  <2>1. call = NoCall /\ call'.op = "load" /\ call'.n = calls + 1 /\ "load" \in Op  BY <1>2 DEF CallLoad, Begins, Op
  <2>2. CASE Running
    <3>1. cmds' = Append(cmds, Cmd("load", calls + 1)) /\ UNCHANGED <<proc, worker, events>>
      BY <1>2, <2>2 DEF CallLoad
    <3>2. QED  BY <1>1, <2>1, <2>2, <3>1, NothingLeft
  <2>3. CASE ~Running
    <3>1. cmds' = <<Cmd("load", calls + 1)>> /\ events' = <<>> /\ queue' = <<>> /\ task' = Idle
      BY <1>2, <2>3 DEF CallLoad, FreshWorker
    <3>2. Cmd("load", calls + 1).cmd = "load" /\ Cmd("load", calls + 1).n = calls + 1
      BY <2>1, Records DEF ProtocolTypeOK
    <3>3. Lone(cmds', "load", calls + 1)  BY <3>1, <3>2 DEF Lone
    <3>4. NoWork(queue') /\ NoReply(events') /\ Rests'
      BY <3>1, EmptyHasNone DEF Rests, Idle, Working
    <3>5. Sent(call.op, call.n)'  BY <2>1, <3>3, <3>4 DEF Sent
    <3>6. QED  BY <2>1, <3>5 DEF TraceOK, Trace, Working
  <2>4. QED  BY <2>2, <2>3
<1>3. ASSUME NEW op \in Op, CallOther(op) PROVE TraceOK'
  <2>1. /\ call = NoCall /\ call'.op = op /\ call'.n = calls + 1 /\ Running
        /\ cmds' = Append(cmds, Cmd(op, calls + 1)) /\ UNCHANGED <<proc, worker, events>>
    BY <1>3 DEF CallOther, Begins
  <2>2. QED  BY <1>1, <2>1, NothingLeft
<1>4. CASE SendAbort
  <2>1. /\ call.op = "generate" /\ call'.op = call.op /\ call'.n = call.n /\ call.op \in Working
        /\ UNCHANGED <<proc, worker, events, raised>>
    BY <1>4 DEF SendAbort, ProtocolTypeOK, CallRecords, history, Working
  <2>2. call.n \in Nat  BY DEF ProtocolTypeOK, CallRecords
  <2>3. cmds' = cmds \/ cmds' = Append(cmds, Cmd("abort", call.n))  BY <1>4 DEF SendAbort
  <2>4. Cmd("abort", call.n) \in Commands /\ Cmd("abort", call.n).cmd \notin Working
    BY <2>2, Records DEF Working
  <2>5. NoWork(cmds) => NoWork(cmds')  BY <1>0, <2>3, <2>4, CommandAppended
  <2>6. Lone(cmds, "generate", call.n) => Lone(cmds', "generate", call.n)  BY <1>0, <2>3, <2>4, CommandAppended
  <2>7. Trace(call.op, call.n) \/ (Nothing /\ proc # "alive")  BY <2>1, OneTrace
  <2>8. CASE Nothing /\ proc # "alive"
    <3>1. Nothing' /\ proc' # "alive"  BY <2>1, <2>5, <2>8 DEF Nothing, Rests, worker
    <3>2. QED  BY <2>1, <3>1 DEF TraceOK
  <2>9. CASE Sent(call.op, call.n)
    <3>1. Sent(call.op, call.n)'  BY <2>1, <2>6, <2>9 DEF Sent, Rests, worker
    <3>2. QED  BY <2>1, <3>1 DEF TraceOK, Trace
  <2>10. CASE Queued(call.op, call.n)
    <3>1. Queued(call.op, call.n)'  BY <2>1, <2>5, <2>10 DEF Queued, Rests, worker
    <3>2. QED  BY <2>1, <3>1 DEF TraceOK, Trace
  <2>11. CASE InHand(call.op, call.n)
    <3>1. InHand(call.op, call.n)'  BY <2>1, <2>5, <2>11 DEF InHand, worker
    <3>2. QED  BY <2>1, <3>1 DEF TraceOK, Trace
  <2>12. CASE Answered(call.op, call.n)
    <3>1. Answered(call.op, call.n)'  BY <2>1, <2>5, <2>12 DEF Answered, Rests, worker
    <3>2. QED  BY <2>1, <3>1 DEF TraceOK, Trace
  <2>13. QED  BY <2>7, <2>8, <2>9, <2>10, <2>11, <2>12 DEF Trace
<1>5. QED  BY <1>2, <1>3, <1>4

\* An event of no use is dropped.
LEMMA TraceOfDrops ==
  ASSUME ProtocolTypeOK, TraceOK, raised = 0, DropEvent PROVE TraceOK'
<1>1. /\ call # NoCall /\ events \in Seq(Events) /\ events # <<>> /\ events' = Tail(events)
      /\ Head(events).ev \notin Expected(call.op) /\ UNCHANGED <<pool, cmds, worker, history>>
  BY DEF DropEvent, ProtocolTypeOK
<1>2. /\ NoReply(events) => NoReply(events')
      /\ LoneReply(events, call.op, call.n) => LoneReply(events', call.op, call.n)
  BY <1>1, EventRead
<1>3. UNCHANGED <<proc, call, cmds, queue, task, raised>>  BY <1>1 DEF pool, worker, history
<1>4. (Rests <=> Rests') /\ (Nothing => Nothing')  BY <1>2, <1>3 DEF Nothing, Rests
<1>5. Trace(call.op, call.n) => Trace(call.op, call.n)'
  BY <1>2, <1>3, <1>4 DEF Trace, Sent, Queued, InHand, Answered
<1>6. QED  BY <1>1, <1>3, <1>4, <1>5 DEF TraceOK

\* The answer a call takes is its own, and ends its trace.
LEMMA AnswerIsOwn ==
  ASSUME ProtocolTypeOK, TraceOK, raised = 0, TakeAnswer
  PROVE  /\ call.op \in Working => Head(events).n = call.n
         /\ Answered(call.op, call.n) \/ Nothing
         /\ NoWork(cmds) /\ NoWork(queue) /\ Rests /\ NoReply(Tail(events))
<1>1. call # NoCall /\ events \in Seq(Events) /\ events # <<>> /\ Head(events).ev \in Expected(call.op)
  BY DEF TakeAnswer, ProtocolTypeOK
<1>2. CASE call.op \in Working
  <2>1. Head(events).ev \in Replies  BY <1>1, <1>2, OpsWork
  <2>2. ~NoReply(events)  BY <1>1, <2>1, EventRead
  <2>3. Answered(call.op, call.n)
    BY <1>2, <2>2, OneTrace DEF Trace, Sent, Queued, InHand, Nothing
  <2>4. QED  BY <1>1, <2>1, <2>3, EventRead DEF Answered
<1>3. CASE call.op \notin Working
  <2>1. Nothing  BY <1>1, <1>3, NoTrace
  <2>2. QED  BY <1>1, <1>3, <2>1, EventRead DEF Nothing
<1>4. QED  BY <1>2, <1>3

\* A call ends: by its answer, with the process, or without effect on it.
LEMMA TraceOfEnds ==
  ASSUME ProtocolTypeOK, TraceOK, raised = 0,
         TakeAnswer \/ Eof \/ Timeout \/ Shutdown \/ (\E op \in Op : SendFails(op))
  PROVE  TraceOK'
<1>1. CASE ~Running' /\ call' = NoCall  BY <1>1 DEF TraceOK
<1>2. ASSUME call' = NoCall, Nothing' PROVE TraceOK'  BY <1>2, OpsWork DEF TraceOK
<1>3. ASSUME NEW e, NEW rest, NEW stays, GenerateEnds(e, rest, stays),
             NoWork(cmds), NoWork(queue), Rests, NoReply(rest)
      PROVE  TraceOK'
  <2>1. call' = NoCall  BY <1>3 DEF GenerateEnds, Ends
  <2>2. CASE Recycles
    <3>1. ~Running'  BY <1>3, <2>2 DEF GenerateEnds, ForceAbort, Running
    <3>2. QED  BY <1>1, <2>1, <3>1
  <2>3. CASE ~Recycles
    <3>1. events' = rest /\ UNCHANGED <<proc, cmds, queue, task>>  BY <1>3, <2>3 DEF GenerateEnds, worker
    <3>2. Nothing'  BY <1>3, <3>1 DEF Nothing, Rests
    <3>3. QED  BY <1>2, <2>1, <3>2
  <2>4. QED  BY <2>2, <2>3
<1>4. CASE TakeAnswer
  <2>1. NoWork(cmds) /\ NoWork(queue) /\ Rests /\ NoReply(Tail(events))  BY <1>4, AnswerIsOwn
  <2>2. CASE GenerateEnds(Head(events), Tail(events), loaded)  BY <1>3, <2>1, <2>2
  <2>3. CASE ~GenerateEnds(Head(events), Tail(events), loaded)
    <3>1. call' = NoCall /\ events' = Tail(events) /\ UNCHANGED <<proc, cmds, queue, task>>
      BY <1>4, <2>3 DEF TakeAnswer, Ends, worker
    <3>2. Nothing'  BY <2>1, <3>1 DEF Nothing, Rests
    <3>3. QED  BY <1>2, <3>1, <3>2
  <2>4. QED  BY <2>2, <2>3
<1>5. CASE Eof
  <2>1. proc = "dead" /\ call' = NoCall  BY <1>5 DEF Eof, GenerateEnds, Ends
  <2>2. proc' \in {"dead", "none"}  BY <1>5 DEF Eof, GenerateEnds, ForceAbort
  <2>3. QED  BY <1>1, <2>1, <2>2 DEF Running
<1>6. CASE Timeout
  <2>1. call # NoCall /\ call' = NoCall  BY <1>6 DEF Timeout, Ends
  <2>2. CASE KillsOnTimeout
    <3>1. ~Running'  BY <1>6, <2>2 DEF Timeout, ForceAbort, Running
    <3>2. QED  BY <1>1, <2>1, <3>1
  <2>3. CASE ~KillsOnTimeout
    <3>1. UNCHANGED <<proc, cmds, queue, task, events>>  BY <1>6, <2>3 DEF Timeout, worker
    <3>2. CASE Running
      <4>1. call.op \notin Working  BY <2>3, <3>2 DEF KillsOnTimeout, Working
      <4>2. Nothing  BY <2>1, <4>1, NoTrace
      <4>3. Nothing'  BY <3>1, <4>2 DEF Nothing, Rests
      <4>4. QED  BY <1>2, <2>1, <4>3
    <3>3. CASE ~Running
      <4>1. ~Running'  BY <3>1, <3>3 DEF Running
      <4>2. QED  BY <1>1, <2>1, <4>1
    <3>4. QED  BY <3>2, <3>3
  <2>4. QED  BY <2>2, <2>3
<1>7. CASE Shutdown
  <2>1. call' = NoCall /\ ~Running'  BY <1>7 DEF Shutdown, ForceAbort, Running
  <2>2. QED  BY <1>1, <2>1
<1>8. ASSUME NEW op \in Op, SendFails(op) PROVE TraceOK'
  <2>1. call' = NoCall /\ ~Running'  BY <1>8 DEF SendFails, Running
  <2>2. QED  BY <1>1, <2>1
<1>9. QED  BY <1>4, <1>5, <1>6, <1>7, <1>8

\* A command moves from the pipe to the queue, or sets the flag.
LEMMA TraceOfReads ==
  ASSUME ProtocolTypeOK, TraceOK, raised = 0, ReaderReads PROVE TraceOK'
<1> DEFINE h == Head(cmds)
<1>1. /\ proc = "alive" /\ cmds # <<>> /\ cmds' = Tail(cmds) /\ queue \in Seq(Commands) /\ h \in Commands
      /\ UNCHANGED <<proc, call, task, events, raised>>
      /\ IF h.cmd = "abort" THEN queue' = queue ELSE queue' = Append(queue, h)
      /\ cmds \in Seq(Commands)
  BY ReadFromPipe DEF pool, history, ProtocolTypeOK
<1> HIDE DEF h
<1>2. /\ NoWork(cmds) => NoWork(cmds') /\ h.cmd \notin Working
      /\ \A op, n : Lone(cmds, op, n) /\ h.cmd \in Working =>
           h.cmd = op /\ h.n = n /\ NoWork(cmds') /\ (op = "load" => cmds' = <<>>)
      /\ \A op, n : Lone(cmds, op, n) /\ op \in Working /\ h.cmd \notin Working => Lone(cmds', op, n)
  BY <1>1, CommandTaken DEF h
<1>3. "abort" \notin Working  BY DEF Working
<1>4. /\ NoWork(queue) /\ h.cmd \notin Working => NoWork(queue')
      /\ \A op, n : NoWork(queue) /\ h.cmd = op /\ h.n = n /\ op \in Working => Lone(queue', op, n)
      /\ \A op, n : Lone(queue, op, n) /\ op # "load" /\ h.cmd \notin Working => Lone(queue', op, n)
  BY <1>1, <1>3, CommandAppended
<1>5. (Rests <=> Rests') /\ (NoReply(events) <=> NoReply(events'))  BY <1>1 DEF Rests
<1>6. Nothing => Nothing'  BY <1>2, <1>4, <1>5 DEF Nothing
<1>7. CASE call.op \in Working
  <2>1. Trace(call.op, call.n)  BY <1>1, <1>7, OneTrace
  <2>2. CASE Sent(call.op, call.n) /\ h.cmd \in Working
    <3>1. Queued(call.op, call.n)'  BY <1>1, <1>2, <1>4, <1>5, <2>2 DEF Sent, Queued
    <3>2. QED  BY <1>1, <1>7, <3>1 DEF TraceOK, Trace
  <2>3. CASE Sent(call.op, call.n) /\ h.cmd \notin Working
    <3>1. Sent(call.op, call.n)'  BY <1>1, <1>2, <1>4, <1>5, <1>7, <2>3 DEF Sent
    <3>2. QED  BY <1>1, <1>7, <3>1 DEF TraceOK, Trace
  <2>4. CASE Queued(call.op, call.n)
    <3>1. Queued(call.op, call.n)'  BY <1>1, <1>2, <1>4, <1>5, <2>4 DEF Queued
    <3>2. QED  BY <1>1, <1>7, <3>1 DEF TraceOK, Trace
  <2>5. CASE InHand(call.op, call.n)
    <3>1. InHand(call.op, call.n)'  BY <1>1, <1>2, <1>4, <1>5, <2>5 DEF InHand
    <3>2. QED  BY <1>1, <1>7, <3>1 DEF TraceOK, Trace
  <2>6. CASE Answered(call.op, call.n)
    <3>1. Answered(call.op, call.n)'  BY <1>1, <1>2, <1>4, <1>5, <2>6 DEF Answered
    <3>2. QED  BY <1>1, <1>7, <3>1 DEF TraceOK, Trace
  <2>7. QED  BY <2>1, <2>2, <2>3, <2>4, <2>5, <2>6 DEF Trace
<1>8. CASE call.op \notin Working
  <2>1. Nothing'  BY <1>1, <1>6, <1>8, NoTrace DEF Running
  <2>2. QED  BY <1>1, <1>8, <2>1 DEF TraceOK
<1>9. QED  BY <1>7, <1>8

\* What a worker that lives and has nothing in hand finds in its queue.
LEMMA TakenIsTrace ==
  ASSUME ProtocolTypeOK, TraceOK, raised = 0, NEW c, Executes(c), UNCHANGED <<proc, call, cmds, raised>>
  PROVE  /\ c \in Working =>
              /\ Queued(call.op, call.n) /\ call.op = c /\ Head(queue).n = call.n /\ NoWork(queue')
              /\ c = "load" => queue' = <<>> /\ cmds = <<>>
         /\ c \notin Working /\ Rests' /\ (\E e \in Events : e.ev \notin Replies /\ events' = Append(events, e)) => TraceOK'
<1>1. /\ queue \in Seq(Commands) /\ queue # <<>> /\ Head(queue).cmd = c /\ queue' = Tail(queue)
      /\ proc = "alive" /\ task = Idle
  BY TakenFromQueue
<1>2. /\ NoWork(queue) => NoWork(queue') /\ c \notin Working
      /\ \A op, n : Lone(queue, op, n) /\ c \in Working =>
           c = op /\ Head(queue).n = n /\ NoWork(queue') /\ (op = "load" => queue' = <<>>)
      /\ \A op, n : Lone(queue, op, n) /\ op \in Working /\ c \notin Working => Lone(queue', op, n)
  BY <1>1, CommandTaken
<1>3. /\ call.op \in Working => Trace(call.op, call.n)
      /\ call.op \notin Working => Nothing
  BY <1>1, OneTrace, NoTrace DEF Running
<1>4. ~InHand(call.op, call.n) \/ call.op \notin Working
  BY <1>1 DEF InHand, Idle, Working
<1>5. ASSUME c \in Working
      PROVE  /\ Queued(call.op, call.n) /\ call.op = c /\ Head(queue).n = call.n /\ NoWork(queue')
             /\ c = "load" => queue' = <<>> /\ cmds = <<>>
  <2>1. ~NoWork(queue)  BY <1>2, <1>5
  <2>2. Queued(call.op, call.n)  BY <1>3, <2>1 DEF Trace, Sent, InHand, Answered, Nothing
  <2>3. QED  BY <1>2, <1>5, <2>2 DEF Queued
<1>6. ASSUME c \notin Working, Rests', NEW e \in Events, e.ev \notin Replies, events' = Append(events, e)
      PROVE  TraceOK'
  <2>1. /\ NoReply(events) => NoReply(events')
        /\ \A op, n : LoneReply(events, op, n) => LoneReply(events', op, n)
    BY <1>6, EventWritten DEF ProtocolTypeOK
  <2>2. CASE call.op \notin Working
    <3>1. Nothing'  BY <1>2, <1>3, <1>6, <2>1, <2>2 DEF Nothing
    <3>2. QED  BY <2>2, <3>1 DEF TraceOK
  <2>3. CASE call.op \in Working /\ Sent(call.op, call.n)
    <3>1. Sent(call.op, call.n)'  BY <1>2, <1>6, <2>1, <2>3 DEF Sent
    <3>2. QED  BY <2>3, <3>1 DEF TraceOK, Trace
  <2>4. CASE call.op \in Working /\ Queued(call.op, call.n)
    <3>1. Queued(call.op, call.n)'  BY <1>2, <1>6, <2>1, <2>4 DEF Queued
    <3>2. QED  BY <2>4, <3>1 DEF TraceOK, Trace
  <2>5. CASE call.op \in Working /\ Answered(call.op, call.n)
    <3>1. Answered(call.op, call.n)'  BY <1>1, <1>2, <1>6, <2>1, <2>5 DEF Answered
    <3>2. QED  BY <2>5, <3>1 DEF TraceOK, Trace
  <2>6. QED  BY <1>3, <1>4, <2>2, <2>3, <2>4, <2>5 DEF Trace
<1>7. QED  BY <1>5, <1>6

\* The worker emits the answer to the call: the trace is in the events.
LEMMA TraceEmitted ==
  ASSUME ProtocolTypeOK, call.op \in Working, UNCHANGED <<call, cmds>>, NoReply(events), NoWork(cmds), NoWork(queue'),
         Rests', call.op = "load" /\ proc' = "alive" => cmds = <<>> /\ queue' = <<>>,
         NEW e \in Kind, e \in Expected(call.op), NEW c \in BOOLEAN, Emits(e, call.n, c)
  PROVE  TraceOK'
<1>1. call.n \in Nat  BY DEF ProtocolTypeOK, CallRecords
<1>2. Event(e, call.n, c) \in Events /\ Event(e, call.n, c).ev = e /\ Event(e, call.n, c).n = call.n
  BY <1>1 DEF Event, Events
<1>3. LoneReply(events', call.op, call.n)
  <2>1. events' = Append(events, Event(e, call.n, c))  BY DEF Emits
  <2>2. QED  BY <1>2, <2>1, EventWritten DEF ProtocolTypeOK
<1>4. Answered(call.op, call.n)'  BY <1>3 DEF Answered
<1>5. QED  BY <1>4 DEF TraceOK, Trace

\* The worker's own steps.
LEMMA TraceOfWorker ==
  ASSUME ProtocolTypeOK, TraceOK, raised = 0, raised' = 0, WorkerNext PROVE TraceOK'
<1>1. CASE ReaderReads  BY <1>1, TraceOfReads
<1>2. CASE DoPing
  <2>1. Executes("ping") /\ UNCHANGED <<proc, call, cmds, raised, task>> /\ Emits("pong", Head(queue).n, FALSE)
    BY <1>2 DEF DoPing, pool, history
  <2>2. Head(queue).n \in Nat /\ task = Idle  BY <2>1, TakenFromQueue
  <2>3. Event("pong", Head(queue).n, FALSE) \in Events /\ Event("pong", Head(queue).n, FALSE).ev = "pong"
    BY <2>2 DEF Event, Events, Kind
  <2>4. Rests'  BY <2>1, <2>2 DEF Rests, Idle, Working
  <2>5. "pong" \notin Replies  BY DEF Replies
  <2>6. QED  BY <2>1, <2>3, <2>4, <2>5, TakenIsTrace, OpsWork DEF Emits
<1>3. CASE DoUnload
  <2>1. Executes("unload") /\ UNCHANGED <<proc, call, cmds, raised, task>>  BY <1>3 DEF DoUnload, pool
  <2>2. ~UnloadRaises
    <3>1. UnloadRaises => raised' = raised + 1  BY DEF UnloadRaises
    <3>2. QED  BY <3>1
  <2>3. Emits("unloaded", Head(queue).n, FALSE)  BY <1>3, <2>2 DEF DoUnload
  <2>4. Head(queue).n \in Nat /\ task = Idle  BY <2>1, TakenFromQueue
  <2>5. Event("unloaded", Head(queue).n, FALSE) \in Events /\ Event("unloaded", Head(queue).n, FALSE).ev = "unloaded"
    BY <2>4 DEF Event, Events, Kind
  <2>6. Rests'  BY <2>1, <2>4 DEF Rests, Idle, Working
  <2>7. "unloaded" \notin Replies  BY DEF Replies
  <2>8. QED  BY <2>1, <2>3, <2>5, <2>6, <2>7, TakenIsTrace, OpsWork DEF Emits
<1>4. CASE DoLoad
  <2>1. Executes("load") /\ UNCHANGED <<proc, call, cmds, raised>>  BY <1>4 DEF DoLoad, pool
  <2>2. ~UnloadRaises
    <3>1. UnloadRaises => raised' = raised + 1  BY DEF UnloadRaises
    <3>2. QED  BY <3>1
  <2>3. events' = events  BY <1>4, <2>2 DEF DoLoad, UnloadsFirst
  <2>4. /\ Queued(call.op, call.n) /\ call.op = "load" /\ Head(queue).n = call.n /\ queue' = <<>> /\ cmds = <<>>
        /\ NoWork(queue')
    BY <2>1, TakenIsTrace DEF Working
  <2>5. task'.doing = "load" /\ task'.n = call.n  BY <1>4, <2>4 DEF DoLoad
  <2>6. InHand(call.op, call.n)'  BY <2>1, <2>3, <2>4, <2>5 DEF Queued, InHand
  <2>7. QED  BY <2>1, <2>4, <2>6 DEF TraceOK, Trace, Working
<1>5. CASE LoadReturns \/ LoadRaises
  <2>1. /\ proc = "alive" /\ task.doing = "load" /\ UNCHANGED <<call, cmds, queue>> /\ Rests'
        /\ Emits("ready", task.n, FALSE) \/ Emits("error", task.n, FALSE)
    <3>1. CASE LoadReturns
      <4>1. proc = "alive" /\ task.doing = "load" /\ UNCHANGED <<call, cmds, queue>> /\ task' = Idle
        BY <3>1 DEF LoadReturns, pool
      <4>2. Emits("ready", task.n, FALSE)  BY <3>1 DEF LoadReturns
      <4>3. QED  BY <4>1, <4>2 DEF Rests, Idle, Working
    <3>2. CASE LoadRaises
      <4>1. proc = "alive" /\ task.doing = "load" /\ UNCHANGED <<call, cmds, queue>> /\ proc' = "exiting"
        BY <3>2 DEF LoadRaises, worker
      <4>2. Emits("error", task.n, FALSE)  BY <3>2 DEF LoadRaises
      <4>3. QED  BY <4>1, <4>2 DEF Rests
    <3>3. QED  BY <1>5, <3>1, <3>2
  <2>2. ~Rests  BY <2>1 DEF Rests, Working
  <2>3. call.op \in Working  BY <2>1, <2>2, NoTrace DEF Nothing, Running
  <2>4. InHand(call.op, call.n)  BY <2>1, <2>2, <2>3, OneTrace DEF Trace, Sent, Queued, Answered
  <2>5. /\ NoReply(events) /\ NoWork(cmds) /\ NoWork(queue) /\ call.op = "load" /\ task.n = call.n
        /\ cmds = <<>> /\ queue = <<>>
    BY <2>1, <2>4 DEF InHand
  <2>6. CASE Emits("ready", task.n, FALSE)  BY <2>1, <2>3, <2>5, <2>6, OpsWork, TraceEmitted DEF Kind
  <2>7. CASE Emits("error", task.n, FALSE)  BY <2>1, <2>3, <2>5, <2>7, OpsWork, TraceEmitted DEF Kind
  <2>8. QED  BY <2>1, <2>6, <2>7
<1>6. CASE DoGenerate
  <2>1. Executes("generate") /\ UNCHANGED <<proc, call, cmds, raised>>  BY <1>6 DEF DoGenerate, pool, history
  <2>2. Queued(call.op, call.n) /\ call.op = "generate" /\ Head(queue).n = call.n /\ NoWork(queue')
    BY <2>1, TakenIsTrace DEF Working
  <2>3. call.op \in Working /\ NoReply(events) /\ NoWork(cmds)  BY <2>2 DEF Queued, Working
  <2>4. task = Idle  BY <2>1, TakenFromQueue
  <2>5. ASSUME NEW e \in {"error", "done"}, NEW c \in BOOLEAN, Emits(e, Head(queue).n, c), task' = task PROVE TraceOK'
    <3>1. Rests'  BY <2>4, <2>5 DEF Rests, Idle, Working
    <3>2. e \in Kind /\ e \in Expected(call.op)  BY <2>2, <2>5, OpsWork DEF Kind
    <3>3. Emits(e, call.n, c)  BY <2>2, <2>5
    <3>4. QED  BY <2>1, <2>2, <2>3, <3>1, <3>2, <3>3, TraceEmitted
  <2>6. CASE Emits("error", Head(queue).n, FALSE) /\ UNCHANGED <<abort, task>>  BY <2>5, <2>6
  <2>7. CASE abort' = FALSE /\ Emits("done", Head(queue).n, TRUE) /\ UNCHANGED task  BY <2>5, <2>7
  <2>8. CASE task' = [doing |-> "generate", n |-> Head(queue).n] /\ UNCHANGED <<abort, events>>
    <3>1. InHand(call.op, call.n)'  BY <2>1, <2>2, <2>3, <2>8 DEF InHand
    <3>2. QED  BY <2>1, <2>3, <3>1 DEF TraceOK, Trace
  <2>9. QED  BY <1>6, <2>6, <2>7, <2>8 DEF DoGenerate
<1>7. CASE GenerateAnswers
  <2>1. proc = "alive" /\ task.doing = "generate" /\ UNCHANGED <<call, cmds, queue>> /\ task'.doing = "finally"
    BY <1>7 DEF GenerateAnswers, pool, ProtocolTypeOK, Tasks
  <2>2. ~Rests /\ Rests'  BY <2>1 DEF Rests, Working
  <2>3. call.op \in Working  BY <2>1, <2>2, NoTrace DEF Nothing, Running
  <2>4. InHand(call.op, call.n)  BY <2>1, <2>2, <2>3, OneTrace DEF Trace, Sent, Queued, Answered
  <2>5. NoReply(events) /\ NoWork(cmds) /\ NoWork(queue) /\ call.op = "generate" /\ task.n = call.n
    BY <2>1, <2>4 DEF InHand
  <2>6. PICK e \in {"done", "error"}, c \in BOOLEAN : Emits(e, task.n, c)  BY <1>7 DEF GenerateAnswers
  <2>7. e \in Kind /\ e \in Expected(call.op) /\ Emits(e, call.n, c)  BY <2>5, <2>6, OpsWork DEF Kind
  <2>8. QED  BY <2>1, <2>2, <2>3, <2>5, <2>7, TraceEmitted
<1>8. CASE GenerateResets
  <2>1. proc = "alive" /\ task.doing = "finally" /\ UNCHANGED <<proc, call, cmds, queue, events>> /\ task' = Idle
    BY <1>8 DEF GenerateResets, pool
  <2>2. Rests /\ Rests'  BY <2>1 DEF Rests, Idle, Working
  <2>3. Nothing => Nothing'  BY <2>1, <2>2 DEF Nothing
  <2>4. Trace(call.op, call.n) /\ call.op \in Working => Trace(call.op, call.n)'
    <3>1. Sent(call.op, call.n) => Sent(call.op, call.n)'  BY <2>1, <2>2 DEF Sent
    <3>2. Queued(call.op, call.n) => Queued(call.op, call.n)'  BY <2>1, <2>2 DEF Queued
    <3>3. call.op \in Working => ~InHand(call.op, call.n)  BY <2>1 DEF InHand, Working
    <3>4. Answered(call.op, call.n) => Answered(call.op, call.n)'  BY <2>1, <2>2 DEF Answered
    <3>5. QED  BY <3>1, <3>2, <3>3, <3>4 DEF Trace
  <2>5. QED  BY <2>1, <2>3, <2>4 DEF TraceOK, Running
<1>9. CASE Dies
  <2>1. /\ Running /\ proc' = "dead" /\ cmds' = <<>> /\ queue' = <<>> /\ UNCHANGED <<call, events>>
    BY <1>9 DEF Dies, FreshWorker
  <2>2. NoWork(cmds') /\ NoWork(queue') /\ Rests' /\ ~Running'
    BY <2>1, EmptyHasNone DEF Rests, Running
  <2>3. CASE call.op \in Working
    <3>1. CASE NoReply(events)
      <4>1. Nothing'  BY <2>1, <2>2, <3>1 DEF Nothing
      <4>2. QED  BY <2>1, <2>3, <4>1 DEF TraceOK
    <3>2. CASE ~NoReply(events)
      <4>1. Answered(call.op, call.n)  BY <2>3, <3>2, OneTrace DEF Trace, Sent, Queued, InHand, Nothing
      <4>2. Answered(call.op, call.n)'  BY <2>1, <2>2, <4>1 DEF Answered
      <4>3. QED  BY <2>1, <2>3, <4>2 DEF TraceOK, Trace
    <3>3. QED  BY <3>1, <3>2
  <2>4. CASE call.op \notin Working
    <3>1. Nothing  BY <2>1, <2>4, NoTrace
    <3>2. Nothing'  BY <2>1, <2>2, <3>1 DEF Nothing
    <3>3. QED  BY <2>1, <2>4, <3>2 DEF TraceOK
  <2>5. QED  BY <2>3, <2>4
<1>10. QED  BY <1>1, <1>2, <1>3, <1>4, <1>5, <1>6, <1>7, <1>8, <1>9 DEF WorkerNext

-----------------------------------------------------------------------------
(* What follows from the trace. *)

LEMMA RaisesAreCounted ==
  ASSUME ProtocolTypeOK, ProtocolNext, raised' = 0 PROVE raised = 0
<1>1. CASE UnloadRaises  BY <1>1 DEF UnloadRaises, ProtocolTypeOK
<1>2. CASE ~UnloadRaises
  <2>1. DoUnload \/ DoLoad => raised' = raised  BY <1>2 DEF DoUnload, DoLoad, UnloadsFirst, Unloaded
  <2>2. WorkerNext /\ ~DoUnload /\ ~DoLoad => raised' = raised
    BY DEF WorkerNext, ReaderReads, DoPing, LoadReturns, LoadRaises, DoGenerate, GenerateAnswers, GenerateResets,
           Dies, history
  <2>3. \A op \in Op : CallOther(op) \/ SendFails(op) => raised' = raised  BY DEF CallOther, Begins, SendFails
  <2>4. CallLoad \/ SendAbort \/ DropEvent \/ Timeout \/ Shutdown => raised' = raised
    BY DEF CallLoad, Begins, SendAbort, DropEvent, Timeout, Shutdown, history
  <2>5. TakeAnswer \/ Eof => raised' = raised  BY DEF TakeAnswer, Eof, GenerateEnds
  <2>6. QED  BY <2>1, <2>2, <2>3, <2>4, <2>5 DEF ProtocolNext
<1>3. QED  BY <1>1, <1>2

LEMMA TraceKept ==
  ASSUME ProtocolTypeOK, TraceOK, ProtocolNext PROVE TraceOK'
<1> SUFFICES ASSUME raised' = 0 PROVE TraceOK'  BY DEF TraceOK
<1>1. raised = 0  BY RaisesAreCounted
<1>2. QED  BY <1>1, TraceOfCalls, TraceOfDrops, TraceOfEnds, TraceOfWorker DEF ProtocolNext

\* What a call took for its answer was written for it.
LEMMA AnswersKept ==
  ASSUME ProtocolTypeOK, TraceOK, AnswersMatch, ProtocolNext PROVE AnswersMatch'
<1> SUFFICES ASSUME raised' = 0 PROVE AnswersMatch'  BY DEF AnswersMatch
<1>0. raised = 0  BY RaisesAreCounted
<1>1. CASE UNCHANGED last  BY <1>0, <1>1 DEF AnswersMatch
<1>2. ASSUME NEW c, last' = [call |-> c, answer |-> NoAnswer] PROVE AnswersMatch'  BY <1>2 DEF AnswersMatch
<1>3. CASE TakeAnswer
  <2>1. last' = [call |-> call, answer |-> Head(events)]  BY <1>3 DEF TakeAnswer, GenerateEnds, Ends
  <2>2. call.op \in {"load", "generate"} => Head(events).n = call.n  BY <1>0, <1>3, AnswerIsOwn DEF Working
  <2>3. QED  BY <2>1, <2>2 DEF AnswersMatch
<1>4. CASE Eof \/ Timeout  BY <1>2, <1>4 DEF Eof, Timeout, GenerateEnds, Ends
<1>5. ASSUME NEW op \in Op, SendFails(op) PROVE AnswersMatch'
  <2>1. PICK c : last' = [call |-> c, answer |-> NoAnswer]  BY <1>5 DEF SendFails
  <2>2. QED  BY <1>2, <2>1
<1>6. CASE CallLoad \/ (\E op \in Op : CallOther(op)) \/ SendAbort \/ DropEvent \/ Shutdown
  <2>1. last' = last
    BY <1>6 DEF CallLoad, CallOther, Begins, SendAbort, DropEvent, Shutdown, history, callHistory
  <2>2. QED  BY <1>1, <2>1
<1>7. CASE WorkerNext
  <2>1. last' = last
    BY <1>7 DEF WorkerNext, ReaderReads, DoPing, DoUnload, DoLoad, LoadReturns, LoadRaises, DoGenerate,
                GenerateAnswers, GenerateResets, Dies, history, callHistory
  <2>2. QED  BY <1>1, <2>1
<1>8. QED  BY <1>3, <1>4, <1>5, <1>6, <1>7 DEF ProtocolNext

\* No command that is still to come takes away what the pool takes for loaded.
LEMMA StaysKept ==
  ASSUME ProtocolTypeOK, TraceOK, StaysLoaded, ProtocolNext PROVE StaysLoaded'
<1> DEFINE Calm == NoChange(cmds) /\ NoChange(queue) /\ task.doing # "load"
<1> SUFFICES ASSUME raised' = 0, proc' = "alive", loaded', call'.op \notin {"load", "unload"} PROVE Calm'
  BY DEF StaysLoaded
<1>0. raised = 0  BY RaisesAreCounted
<1>c. cmds \in Seq(Commands) /\ queue \in Seq(Commands)  BY QueuedAreCommands DEF ProtocolTypeOK
<1>n. NoCall.op = "none"  BY DEF NoCall
<1>s. ASSUME proc = "alive", loaded, call.op \notin {"load", "unload"} PROVE Calm
  BY <1>0, <1>s DEF StaysLoaded
<1>1. CASE CallLoad  BY <1>1 DEF CallLoad, Begins
<1>2. ASSUME NEW op \in Op, CallOther(op) PROVE Calm'
  <2>1. call = NoCall /\ call'.op = op /\ op \notin {"load", "unload"} /\ cmds' = Append(cmds, Cmd(op, calls + 1))
        /\ UNCHANGED <<proc, loaded, queue, task>>
    BY <1>2 DEF CallOther, Begins, worker
  <2>2. Calm  BY <1>n, <1>s, <2>1
  <2>3. Cmd(op, calls + 1) \in Commands /\ Cmd(op, calls + 1).cmd = op  BY Records DEF ProtocolTypeOK
  <2>4. NoChange(cmds')  BY <1>c, <2>1, <2>2, <2>3, CommandAppended
  <2>5. QED  BY <2>1, <2>2, <2>4
<1>3. ASSUME NEW op \in Op, SendFails(op) PROVE FALSE  BY <1>3 DEF SendFails
<1>4. CASE SendAbort
  <2>1. call.op = "generate" /\ UNCHANGED <<proc, loaded, queue, task>>  BY <1>4 DEF SendAbort, worker
  <2>2. Calm  BY <1>s, <2>1
  <2>3. call.n \in Nat  BY DEF ProtocolTypeOK, CallRecords
  <2>4. Cmd("abort", call.n) \in Commands /\ Cmd("abort", call.n).cmd = "abort"  BY <2>3, Records
  <2>5. cmds' = cmds \/ cmds' = Append(cmds, Cmd("abort", call.n))  BY <1>4 DEF SendAbort
  <2>6. NoChange(cmds')  BY <1>c, <2>2, <2>4, <2>5, CommandAppended
  <2>7. QED  BY <2>1, <2>2, <2>6
<1>5. CASE DropEvent
  <2>1. UNCHANGED <<proc, loaded, call, cmds, queue, task>>  BY <1>5 DEF DropEvent, pool, worker
  <2>2. QED  BY <1>s, <2>1
<1>6. ASSUME UNCHANGED <<proc, cmds, worker>>, loaded' => loaded, call.op \notin {"load", "unload"} PROVE Calm'
  <2>1. Calm  BY <1>s, <1>6
  <2>2. QED  BY <1>6, <2>1 DEF worker
<1>7. ASSUME NEW e, NEW rest, NEW stays, GenerateEnds(e, rest, stays), stays => loaded PROVE Calm'
  <2>1. ~Recycles  BY <1>7 DEF GenerateEnds, ForceAbort
  <2>2. call.op = "generate" /\ loaded' = stays /\ UNCHANGED <<proc, cmds, worker>>  BY <1>7, <2>1 DEF GenerateEnds
  <2>3. QED  BY <1>6, <1>7, <2>2
<1>8. CASE TakeAnswer
  <2>1. CASE GenerateEnds(Head(events), Tail(events), loaded)  BY <1>7, <2>1
  <2>2. CASE ~GenerateEnds(Head(events), Tail(events), loaded)
    <3>1. /\ Head(events).ev \in Expected(call.op) /\ UNCHANGED <<proc, cmds, worker>>
          /\ loaded' = (StillLoaded \/ Head(events).ev = "ready")
      BY <1>8, <2>2 DEF TakeAnswer
    <3>2. Head(events).ev = "ready" => call.op = "load"  BY <3>1 DEF Expected
    <3>3. CASE call.op = "load"
      <4>1. Answered("load", call.n)
        <5>1. call.op \in Working  BY <3>3 DEF Working
        <5>2. events \in Seq(Events) /\ events # <<>>  BY <1>8 DEF TakeAnswer, ProtocolTypeOK
        <5>3. ~NoReply(events)  BY <3>1, <5>1, <5>2, OpsWork, EventRead
        <5>4. QED  BY <1>0, <1>8, <3>3, <5>3, AnswerIsOwn DEF Nothing
      <4>2. cmds = <<>> /\ queue = <<>> /\ Rests  BY <3>1, <4>1 DEF Answered
      <4>3. QED  BY <3>1, <4>2, EmptyHasNone DEF Rests, Working, worker
    <3>4. CASE call.op # "load"  BY <1>6, <3>1, <3>2, <3>4 DEF StillLoaded
    <3>5. QED  BY <3>3, <3>4
  <2>3. QED  BY <2>1, <2>2
<1>9. CASE Eof
  <2>1. proc = "dead" /\ (proc' = proc \/ proc' = "none")  BY <1>9 DEF Eof, GenerateEnds, ForceAbort
  <2>2. QED  BY <2>1
<1>10. CASE Timeout
  <2>1. ~KillsOnTimeout  BY <1>10 DEF Timeout, ForceAbort
  <2>2. loaded' = StillLoaded /\ UNCHANGED <<proc, cmds, worker>>  BY <1>10, <2>1 DEF Timeout
  <2>3. QED  BY <1>6, <2>1, <2>2 DEF StillLoaded, KillsOnTimeout, Running
<1>11. CASE Shutdown \/ LoadRaises \/ Dies  BY <1>11 DEF Shutdown, ForceAbort, LoadRaises, Dies
<1>12. CASE ReaderReads
  <2>1. /\ proc = "alive" /\ cmds # <<>> /\ cmds' = Tail(cmds) /\ Head(cmds) \in Commands
        /\ UNCHANGED <<loaded, call, task>>
        /\ queue' = queue \/ queue' = Append(queue, Head(cmds))
    BY <1>12, ReadFromPipe DEF pool
  <2>2. Calm  BY <1>s, <2>1
  <2>3. NoChange(cmds') /\ NoChange(queue')  BY <1>c, <2>1, <2>2, CommandTaken, CommandAppended
  <2>4. QED  BY <2>1, <2>2, <2>3
<1>13. ASSUME NEW c, Executes(c), UNCHANGED <<loaded, call, cmds>>, c # "load" => task'.doing # "load" PROVE Calm'
  <2>1. /\ proc = "alive"
        /\ NoChange(queue) <=> NoChange(queue') /\ c \notin {"load", "unload"}
    BY <1>13, TakenFromQueue
  <2>2. Calm  BY <1>13, <1>s, <2>1
  <2>3. QED  BY <1>13, <2>1, <2>2
<1>i. \A c : Executes(c) => task.doing = "idle"  BY DEF Executes, Idle
<1>14. CASE DoPing \/ DoUnload
  <2>1. UNCHANGED <<loaded, call, cmds, task>> /\ (Executes("ping") \/ Executes("unload"))
    BY <1>14 DEF DoPing, DoUnload, pool
  <2>2. QED  BY <1>13, <1>i, <2>1
<1>15. CASE DoLoad
  <2>1. Executes("load") /\ UNCHANGED <<loaded, call, cmds>>  BY <1>15 DEF DoLoad, pool
  <2>2. QED  BY <1>13, <2>1
<1>16. CASE DoGenerate
  <2>1. Executes("generate") /\ UNCHANGED <<loaded, call, cmds>>  BY <1>16 DEF DoGenerate, pool
  <2>2. task' = task \/ task' = [doing |-> "generate", n |-> Head(queue).n]  BY <1>16, Zenon DEF DoGenerate
  <2>3. task'.doing # "load"  BY <1>i, <2>1, <2>2
  <2>4. QED  BY <1>13, <2>1, <2>3
<1>17. CASE LoadReturns \/ GenerateAnswers \/ GenerateResets
  <2>1. proc = "alive" /\ UNCHANGED <<loaded, call, cmds, queue>>
    BY <1>17 DEF LoadReturns, GenerateAnswers, GenerateResets, pool
  <2>2. task'.doing # "load"
    <3>1. CASE task' = Idle  BY <3>1 DEF Idle
    <3>2. CASE GenerateAnswers  BY <3>2 DEF GenerateAnswers, ProtocolTypeOK, Tasks
    <3>3. QED  BY <1>17, <3>1, <3>2 DEF LoadReturns, GenerateResets
  <2>3. QED  BY <1>s, <2>1, <2>2
<1>18. QED
  BY <1>1, <1>2, <1>3, <1>4, <1>5, <1>8, <1>9, <1>10, <1>11, <1>12, <1>14, <1>15, <1>16, <1>17
  DEF ProtocolNext, WorkerNext

-----------------------------------------------------------------------------
(* The theorems. *)

LEMMA ProtocolInitInv == ProtocolInit => ProtocolInv
<1> SUFFICES ASSUME ProtocolInit PROVE ProtocolInv  OBVIOUS
<1>1. ProtocolTypeOK
  <2>2. last \in [call : CallRecords, answer : Events \cup {NoAnswer}]  BY Records DEF ProtocolInit
  <2>3. QED  BY <2>2, Records, EmptyIsSeq DEF ProtocolInit, ProtocolTypeOK
<1>2. CountsOK  BY DEF ProtocolInit, CountsOK, Idle, Running
<1>3. LoadsOK /\ StaysLoaded /\ AnswersMatch  BY DEF ProtocolInit, LoadsOK, StaysLoaded, AnswersMatch
<1>4. TraceOK  BY DEF ProtocolInit, TraceOK, Running
<1>5. QED  BY <1>1, <1>2, <1>3, <1>4 DEF ProtocolInv

LEMMA ProtocolInvariant == ProtocolSpec => []ProtocolInv
<1>1. ProtocolInv /\ [ProtocolNext]_protocolVars => ProtocolInv'
  <2>1. ASSUME ProtocolInv, ProtocolNext PROVE ProtocolInv'
    BY <2>1, TypesKept, CountsKept, LoadsKept, TraceKept, StaysKept, AnswersKept DEF ProtocolInv
  <2>2. ASSUME ProtocolInv, UNCHANGED protocolVars PROVE ProtocolInv'
    <3>1. UNCHANGED <<proc, loaded, jobsServed, call, cmds, queue, abort, task, model, weights, events, calls, served,
                      raised, last>>
      BY <2>2 DEF protocolVars, pool, worker, history, callHistory
    <3>2. ProtocolTypeOK' /\ CountsOK' /\ AnswersMatch'
      BY <2>2, <3>1 DEF ProtocolInv, ProtocolTypeOK, CountsOK, AnswersMatch, Running
    <3>3. LoadsOK' /\ StaysLoaded'  BY <2>2, <3>1 DEF ProtocolInv, LoadsOK, WillLoad, StaysLoaded
    <3>4. TraceOK'
      BY <2>2, <3>1 DEF ProtocolInv, TraceOK, Trace, Sent, Queued, InHand, Answered, Nothing, Rests, Running
    <3>5. QED  BY <3>2, <3>3, <3>4 DEF ProtocolInv
  <2>3. QED  BY <2>1, <2>2
<1>2. QED  BY <1>1, ProtocolInitInv, PTL DEF ProtocolSpec

\* Until an unload raises, a load or a generate takes no answer but the one written for
\* it, for any number of calls that time out, are cancelled, or lose their worker.
THEOREM AnswersAreOwn == ProtocolSpec => []AnswersMatch
<1>1. ProtocolInv => AnswersMatch  BY DEF ProtocolInv
<1>2. QED  BY <1>1, ProtocolInvariant, PTL

\* Commands in the queue and in the pipe after it.
LEMMA Joined ==
  ASSUME NEW q \in Seq(Commands), NEW p \in Seq(Commands)
  PROVE  /\ NoChange(q \o p) <=> NoChange(q) /\ NoChange(p)
         /\ EndsLoading(p) => EndsLoading(q \o p)
         /\ NoChange(p) /\ EndsLoading(q) => EndsLoading(q \o p)
<1> DEFINE r == q \o p
           m == Len(q)
           n == Len(p)
<1>1. /\ m \in Nat /\ n \in Nat /\ DOMAIN q = 1..m /\ DOMAIN p = 1..n /\ DOMAIN r = 1..(m + n)
      /\ \A k \in 1..m : r[k] = q[k]
      /\ \A k \in 1..n : r[m + k] = p[k]
  OBVIOUS
<1> HIDE DEF r, m, n
<1>2. \A k \in DOMAIN q : k \in DOMAIN r /\ r[k] = q[k]  BY <1>1
<1>3. \A k \in DOMAIN p : m + k \in DOMAIN r /\ r[m + k] = p[k]  BY <1>1
<1>4. \A k \in DOMAIN r : (k \in DOMAIN q /\ r[k] = q[k]) \/ (k - m \in DOMAIN p /\ k > m /\ r[k] = p[k - m])
  <2> SUFFICES ASSUME NEW k \in DOMAIN r, ~(k \in DOMAIN q) PROVE k - m \in DOMAIN p /\ k > m /\ r[k] = p[k - m]
    BY <1>2
  <2>1. k - m \in 1..n /\ k > m /\ m + (k - m) = k  BY <1>1
  <2>2. QED  BY <1>1, <2>1
<1>5. NoChange(r) => NoChange(q) /\ NoChange(p)  BY <1>2, <1>3 DEF NoChange
<1>6. NoChange(q) /\ NoChange(p) => NoChange(r)  BY <1>4 DEF NoChange
<1>7. ASSUME EndsLoading(p) PROVE EndsLoading(r)
  <2>1. PICK k \in DOMAIN p : p[k].cmd = "load" /\ \A i \in DOMAIN p : i > k => p[i].cmd # "unload"
    BY <1>7 DEF EndsLoading
  <2>2. m + k \in DOMAIN r /\ r[m + k].cmd = "load"  BY <1>3, <2>1
  <2>3. ASSUME NEW i \in DOMAIN r, i > m + k PROVE r[i].cmd # "unload"
    <3>1. ~(i \in DOMAIN q)  BY <1>1, <2>1, <2>3
    <3>2. i - m \in DOMAIN p /\ i - m > k /\ r[i] = p[i - m]  BY <1>1, <1>4, <2>1, <2>3, <3>1
    <3>3. QED  BY <2>1, <3>2
  <2>4. QED  BY <2>2, <2>3 DEF EndsLoading
<1>8. ASSUME NoChange(p), EndsLoading(q) PROVE EndsLoading(r)
  <2>1. PICK k \in DOMAIN q : q[k].cmd = "load" /\ \A i \in DOMAIN q : i > k => q[i].cmd # "unload"
    BY <1>8 DEF EndsLoading
  <2>2. \A i \in DOMAIN r : i > k => r[i].cmd # "unload"  BY <1>4, <1>8, <2>1 DEF NoChange
  <2>3. QED  BY <1>2, <2>1, <2>2 DEF EndsLoading
<1>9. QED  BY <1>5, <1>6, <1>7, <1>8 DEF r

\* For any limit of jobs per process: the pool is right about what its worker has loaded or
\* is about to, each raise leaves at most one model behind, and no process serves more jobs
\* than the limit.
THEOREM PoolKnowsItsWorker == ProtocolSpec => []ProtocolConsistent
<1>1. ProtocolInv => ProtocolConsistent
  <2> SUFFICES ASSUME ProtocolInv PROVE ProtocolConsistent  OBVIOUS
  <2>1. cmds \in Seq(Commands) /\ queue \in Seq(Commands) /\ ProtocolTypeOK
    BY QueuedAreCommands DEF ProtocolInv, ProtocolTypeOK
  <2>2. NoCall.op = "none"  BY DEF NoCall
  <2>3. ASSUME call = NoCall, loaded, proc = "alive" PROVE WillLoad
    BY <2>2, <2>3 DEF ProtocolInv, LoadsOK
  <2>4. LoadedOrLoading  BY <2>1, <2>3, Joined, LoadIsChange DEF LoadedOrLoading, WillLoad
  <2>5. LoadedIsTrue
    <3> SUFFICES ASSUME raised = 0, call = NoCall, loaded, proc = "alive" PROVE model /\ NoChange(queue \o cmds)
      BY DEF LoadedIsTrue
    <3>1. NoChange(cmds) /\ NoChange(queue) /\ task.doing # "load"  BY <2>2 DEF ProtocolInv, StaysLoaded
    <3>2. model  BY <2>3, <3>1 DEF WillLoad
    <3>3. QED  BY <2>1, <3>1, <3>2, Joined
  <2>6. OnlyRaisesLeak /\ RecycledInTime
    BY <2>1 DEF ProtocolInv, CountsOK, OnlyRaisesLeak, RecycledInTime, ProtocolTypeOK
  <2>7. QED  BY <2>1, <2>4, <2>5, <2>6 DEF ProtocolConsistent
<1>2. QED  BY <1>1, ProtocolInvariant, PTL
=============================================================================
