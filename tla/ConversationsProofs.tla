------------------------ MODULE ConversationsProofs ------------------------
(***************************************************************************)
(* Proofs about four of the conversations of the supervisor, for any       *)
(* clients, hooks, jobs, messages and threads: with the clients of a job,  *)
(* with the commands that hear of its events, with the tool that clears    *)
(* the GPU, and with the host of an agent.  (The fifth, with a worker, has *)
(* a module of its own.)  They share nothing, and neither do the parts of  *)
(* this module: each has its inductive invariant, the steps that keep it,  *)
(* and what it says.                                                       *)
(***************************************************************************)
EXTENDS MCConversations, FiniteSetTheorems, SequenceTheorems, TLAPS

(***************************************************************************)
(* The clients of a job                                                    *)
(***************************************************************************)

JobEvents == {"started", "progress", "end"}
Results == {"none", "ok", "error", "cancelled"}
Lines == [kind : Ended \cup JobEvents \cup {"queued", "running", "result", "timeout"}, says : Results]
JobRecords == [state : Ended \cup {"queued", "running"}, result : Results,
               cancel : BOOLEAN, done : BOOLEAN, counted : BOOLEAN]
Places == {"absent", "start", "hello", "loop", "wait", "drain", "last", "result", "timeout",
           "finally", "poll", "closed"}

\* The job and its thread: the result is there before the state, the state before the
\* last event, and that before done.
JobOK ==
  /\ job \in JobRecords /\ jobAt \in {"idle", "taken", "result", "copy", "call", "set"}
  /\ event \in JobEvents \cup {"none"} /\ emitted \in Seq(JobEvents)
  /\ servedJobs = IF job.counted THEN 1 ELSE 0
  /\ job.done => jobAt = "idle"
  /\ jobAt = "result" \/ job.state \in Ended => job.result # "none"
  /\ job.done \/ jobAt = "set" \/ (jobAt \in {"copy", "call"} /\ event = "end") => job.state \in Ended
  /\ jobAt \in {"copy", "call"} => event # "none"
  /\ left \subseteq Streams /\ (left # {} => jobAt = "call")
  /\ jobAt = "call" => Len(emitted) > 0 /\ emitted[Len(emitted)] = event

HandlersTyped ==
  /\ listeners \subseteq Streams /\ at \in [Handlers -> Places] /\ up \in [Handlers -> BOOLEAN]
  /\ lines \in [Handlers -> Seq(Lines)]
  /\ heard \in [Streams -> Seq(JobEvents)] /\ ready \in [Streams -> BOOLEAN] /\ sent \in [Streams -> Nat]
  /\ joined \in [Streams -> Nat] /\ late \in [Streams -> BOOLEAN]

\* Who may be where.
RoleOK(h) ==
  /\ at[h] \in {"hello", "loop", "wait", "drain"} => h \in Streams
  /\ at[h] = "poll" => h \in Pollers
  /\ h \in Pollers => at[h] \in {"absent", "start", "poll", "closed"}

\* An answer is the last line; it comes with "finally", and the job is done and counted
\* before a result is on its way.
AnswerOK(h) ==
  /\ \A i \in DOMAIN lines[h] : lines[h][i].kind \in {"end", "result", "timeout"} =>
       i = Len(lines[h]) /\ at[h] \in {"finally", "closed"}
  /\ at[h] \in {"finally", "closed"} /\ up[h] =>
       lines[h] # <<>> /\ Last(lines[h]).kind \in {"result", "timeout"}
  /\ \A i \in DOMAIN lines[h] : lines[h][i].kind = "result" =>
       job.done /\ lines[h][i].says = job.result /\ (job.result = "ok" => job.counted)
  /\ at[h] = "result" => job.done /\ (job.result = "ok" => job.counted)
  /\ ~up[h] => lines[h] = <<>>

\* What a poller has of the job: a final state comes with a result.
PollOK(h) ==
  at[h] \in {"poll", "closed"} =>
    /\ Len(lines[h]) = 1
    /\ lines[h][1].kind \in Ended => job.result # "none" /\ (at[h] = "closed" => lines[h][1].says # "none")

Listening(h) == at[h] \notin {"absent", "start", "closed"}

\* A stream has heard what was emitted since it joined, but for the event it is still to
\* be called with; it has told what it has sent.
HeardOK(h) ==
  /\ Len(heard[h]) = Len(emitted) - joined[h] - (IF h \in left THEN 1 ELSE 0)
  /\ \A k \in DOMAIN heard[h] : heard[h][k] = emitted[joined[h] + k]
StreamOK(h) ==
  /\ sent[h] <= Len(heard[h])
  /\ h \in listeners <=> Listening(h)
  /\ at[h] \in {"absent", "start"} => heard[h] = <<>> /\ sent[h] = 0 /\ lines[h] = <<>> /\ h \notin left
  /\ Listening(h) => HeardOK(h)
  /\ at[h] \in {"last", "result"} /\ ~late[h] => job.done /\ sent[h] = Len(heard[h])
  /\ up[h] /\ Listening(h) /\ at[h] # "finally" => 
       TellsEach(lines[h], emitted, Owed(emitted, joined[h], joined[h] + sent[h]))
  /\ at[h] \in {"finally", "closed"} /\ ~late[h] /\ lines[h] # <<>> /\ Last(lines[h]).kind = "result" =>
       TellsEach(lines[h], emitted, Owed(emitted, joined[h], Len(emitted)))

FrontInv ==
  /\ JobOK /\ HandlersTyped
  /\ \A h \in Handlers : RoleOK(h)
  /\ \A h \in Streams \cup Waiters : AnswerOK(h)
  /\ \A h \in Pollers : PollOK(h)
  /\ \A h \in Streams : StreamOK(h)

\* The end of a job is final, and what it is answered by.
Advances ==
  /\ job.done => job'.done /\ job'.result = job.result /\ emitted' = emitted /\ left' = {}
  /\ job.result # "none" => job'.result # "none"
  /\ job.counted => job'.counted

\* The steps of the thread of a job that no handler takes part in.
Aside ==
  \/ Take \/ MarkStarted \/ ReportProgress \/ RequeueRunning \/ Finish \/ CancelQueued \/ CancelRequested
  \/ WritesState \/ AllCalled \/ SetsDone
\* A step of a handler that leaves the job alone.
HandlerAlone(h) ==
  \/ AddListener(h) \/ Hello(h) \/ Loop(h) \/ Deadline(h) \/ Wait(h) \/ PassOn(h) \/ Drained(h)
  \/ Blocked(h) \/ WaitTimesOut(h) \/ Answer(h) \/ Finally(h)
  \/ PollsState(h) \/ PollsResult(h) \/ ClientGoes(h)

LEMMA FrontSteps ==
  FrontNext <=> \/ Aside \/ CopiesListeners \/ (\E h \in Streams : Calls(h))
                \/ \E h \in Handlers : TakesResult(h) \/ HandlerAlone(h)
BY DEF FrontNext, JobStep, HandlerStep, Aside, HandlerAlone

LEMMA AsideFrame ==
  ASSUME Aside
  PROVE  /\ UNCHANGED <<listeners, at, heard, ready, sent, joined, late, up, lines, servedJobs, emitted, left>>
<1>1. CASE Take \/ ReportProgress \/ RequeueRunning \/ Finish \/ CancelQueued
  BY <1>1 DEF Take, ReportProgress, RequeueRunning, Finish, CancelQueued, JobIdle, streamVars
<1>2. CASE MarkStarted \/ CancelRequested \/ WritesState \/ SetsDone
  BY <1>2 DEF MarkStarted, CancelRequested, WritesState, SetsDone, streamVars
<1>3. CASE AllCalled
  BY <1>3 DEF AllCalled, streamVars
<1>. QED  BY <1>1, <1>2, <1>3 DEF Aside

LEMMA HandlerAloneFrame ==
  ASSUME NEW h, HandlerAlone(h)
  PROVE  UNCHANGED <<job, jobAt, event, left, emitted, requeues, servedJobs>>
BY DEF HandlerAlone, AddListener, Hello, Loop, Deadline, Wait, PassOn, Drained, Blocked, WaitTimesOut, Answer,
       Finally, PollsState, PollsResult, ClientGoes, jobVars

LEMMA JobMoves ==
  ASSUME JobOK, HandlersTyped, FrontNext \/ UNCHANGED frontVars
  PROVE  JobOK' /\ Advances
<1>. USE DEF JobRecords, Ended, Results, JobEvents
<1>1. CASE Take
  BY <1>1 DEF JobOK, Advances, Take, JobIdle
<1>2. CASE MarkStarted
  BY <1>2 DEF JobOK, Advances, MarkStarted, Announces
<1>3. CASE ReportProgress
  BY <1>3 DEF JobOK, Advances, ReportProgress, JobIdle, Announces
<1>4. CASE RequeueRunning
  BY <1>4 DEF JobOK, Advances, RequeueRunning, JobIdle, Announces
<1>5. CASE Finish
  BY <1>5 DEF JobOK, Advances, Finish, JobIdle, WritesResult
<1>6. CASE CancelQueued
  BY <1>6 DEF JobOK, Advances, CancelQueued, JobIdle, WritesResult
<1>7. CASE CancelRequested
  BY <1>7 DEF JobOK, Advances, CancelRequested
<1>8. CASE WritesState
  <2>. DEFINE st == IF job.result = "ok" THEN "done"
                    ELSE IF job.cancel \/ job.result = "cancelled" THEN "cancelled" ELSE "failed"
  <2>1. st \in Ended /\ job' = [job EXCEPT !.state = st]
    BY <1>8 DEF WritesState
  <2>. HIDE DEF st
  <2>2. job' \in JobRecords /\ job'.state \in Ended
    BY <2>1 DEF JobOK
  <2>3. job'.result = job.result /\ job'.done = job.done /\ job'.counted = job.counted
    BY <2>1 DEF JobOK
  <2>4. /\ jobAt = "result" /\ jobAt' = "copy" /\ event' = "end"
        /\ UNCHANGED <<emitted, servedJobs, left>>
    BY <1>8 DEF WritesState, Announces
  <2>5. job.result # "none" /\ ~job.done
    BY <2>4 DEF JobOK
  <2>6. Advances
    BY <2>3, <2>5 DEF Advances
  <2>7. JobOK'
    BY <2>2, <2>3, <2>4, <2>5 DEF JobOK
  <2>. QED  BY <2>6, <2>7
<1>9. CASE AllCalled
  BY <1>9 DEF JobOK, Advances, AllCalled
<1>10. CASE SetsDone
  BY <1>10 DEF JobOK, Advances, SetsDone
<1>11. CASE CopiesListeners
  <2>1. /\ emitted' = Append(emitted, event) /\ event \in JobEvents /\ jobAt' = "call" /\ left' = listeners
        /\ UNCHANGED <<job, event, servedJobs>> /\ jobAt = "copy"
    BY <1>11 DEF JobOK, CopiesListeners
  <2>2. emitted' \in Seq(JobEvents) /\ Len(emitted') > 0 /\ emitted'[Len(emitted')] = event
    BY <2>1, AppendProperties, LenProperties DEF JobOK
  <2>. QED  BY <2>1, <2>2 DEF JobOK, Advances, HandlersTyped
<1>12. CASE \E h \in Streams : Calls(h)
  BY <1>12 DEF JobOK, Advances, Calls
<1>13. ASSUME NEW h \in Handlers, TakesResult(h) PROVE JobOK' /\ Advances
  <2>1. UNCHANGED <<jobAt, event, left, emitted>>
    BY <1>13 DEF TakesResult
  <2>2. CASE job.done /\ Counts
    <3>1. job' = [job EXCEPT !.counted = TRUE] /\ servedJobs' = servedJobs + 1 /\ ~job.counted
      BY <1>13, <2>2 DEF TakesResult, Counts
    <3>2. /\ job' \in JobRecords /\ job'.state = job.state /\ job'.result = job.result
          /\ job'.done = job.done /\ job'.counted
      BY <3>1 DEF JobOK
    <3>3. servedJobs' = 1
      BY <3>1 DEF JobOK
    <3>. QED  BY <2>1, <3>2, <3>3 DEF JobOK, Advances
  <2>3. CASE ~(job.done /\ Counts)
    <3>1. UNCHANGED <<job, servedJobs>>
      BY <1>13, <2>3 DEF TakesResult
    <3>. QED  BY <2>1, <3>1 DEF JobOK, Advances
  <2>. QED  BY <2>2, <2>3
<1>14. ASSUME NEW h \in Handlers, HandlerAlone(h) PROVE JobOK' /\ Advances
  BY <1>14, HandlerAloneFrame DEF JobOK, Advances
<1>15. CASE UNCHANGED frontVars
  BY <1>15 DEF JobOK, Advances, frontVars, jobVars
<1>. QED
  BY <1>1, <1>2, <1>3, <1>4, <1>5, <1>6, <1>7, <1>8, <1>9, <1>10, <1>11, <1>12, <1>13, <1>14, <1>15, FrontSteps
  DEF Aside

(* Lines. *)

LEMMA AppendedLine ==
  ASSUME NEW said \in Seq(Lines), NEW x \in Lines
  PROVE  /\ Append(said, x) \in Seq(Lines) /\ Len(said) \in Nat /\ Len(Append(said, x)) = Len(said) + 1
         /\ DOMAIN said = 1..Len(said) /\ DOMAIN Append(said, x) = DOMAIN said \cup {Len(said) + 1}
         /\ Append(said, x) # <<>> /\ Last(Append(said, x)) = x
         /\ Append(said, x)[Len(said) + 1] = x /\ \A i \in DOMAIN said : Append(said, x)[i] = said[i]
<1>1. /\ Append(said, x) \in Seq(Lines) /\ Len(said) \in Nat /\ Len(Append(said, x)) = Len(said) + 1
      /\ DOMAIN said = 1..Len(said) /\ DOMAIN Append(said, x) = 1..(Len(said) + 1)
      /\ Append(said, x)[Len(said) + 1] = x /\ \A i \in DOMAIN said : Append(said, x)[i] = said[i]
  BY AppendProperties, LenProperties
<1>2. Append(said, x) # <<>> /\ Last(Append(said, x)) = x
  BY <1>1, EmptySeq DEF Last
<1>. QED  BY <1>1, <1>2

LEMMA TellsOther ==
  ASSUME NEW said \in Seq(Lines), NEW x \in Lines, x.kind \notin {"started", "progress"},
         NEW happened, NEW owed, TellsEach(said, happened, owed)
  PROVE  TellsEach(Append(said, x), happened, owed)
<1>. DEFINE more == Append(said, x)
<1>1. /\ DOMAIN more = DOMAIN said \cup {Len(said) + 1} /\ more[Len(said) + 1] = x
      /\ \A i \in DOMAIN said : more[i] = said[i]
  BY AppendedLine
<1>. HIDE DEF more
<1>2. Told(more) = Told(said)
  BY <1>1 DEF Told
<1>3. PICK line \in [owed -> Told(said)] :
        /\ \A k \in owed : said[line[k]].kind = happened[k]
        /\ \A j, k \in owed : j < k => line[j] < line[k]
        /\ \A i \in Told(said) : \E k \in owed : line[k] = i
  BY DEF TellsEach
<1>4. \A k \in owed : line[k] \in DOMAIN said /\ more[line[k]].kind = happened[k]
  BY <1>1, <1>3 DEF Told
<1>5. /\ line \in [owed -> Told(more)]
      /\ \A k \in owed : more[line[k]].kind = happened[k]
      /\ \A j, k \in owed : j < k => line[j] < line[k]
      /\ \A i \in Told(more) : \E k \in owed : line[k] = i
  BY <1>2, <1>3, <1>4
<1>6. TellsEach(more, happened, owed)
  BY <1>5 DEF TellsEach
<1>. QED  BY <1>6 DEF more

LEMMA TellsNext ==
  ASSUME NEW said \in Seq(Lines), NEW x \in Lines, x.kind \in {"started", "progress"},
         NEW happened, NEW owed \in SUBSET Nat, NEW n \in Nat, \A k \in owed : k < n, x.kind = happened[n],
         TellsEach(said, happened, owed)
  PROVE  TellsEach(Append(said, x), happened, owed \cup {n})
<1>. DEFINE more == Append(said, x)
            end == Len(said) + 1
<1>1. /\ DOMAIN said = 1..Len(said) /\ Len(said) \in Nat
      /\ DOMAIN more = DOMAIN said \cup {end} /\ more[end] = x
      /\ \A i \in DOMAIN said : more[i] = said[i]
  BY AppendedLine
<1>2. \A i \in DOMAIN said : i < end /\ i # end
  BY <1>1
<1>. HIDE DEF more, end
<1>3. Told(more) = Told(said) \cup {end}
  BY <1>1 DEF Told
<1>4. PICK line \in [owed -> Told(said)] :
        /\ \A k \in owed : said[line[k]].kind = happened[k]
        /\ \A j, k \in owed : j < k => line[j] < line[k]
        /\ \A i \in Told(said) : \E k \in owed : line[k] = i
  BY DEF TellsEach
<1>5. n \notin owed
  OBVIOUS
<1>. DEFINE next == [k \in owed \cup {n} |-> IF k = n THEN end ELSE line[k]]
<1>6. /\ next \in [owed \cup {n} -> Told(more)] /\ next[n] = end
      /\ \A k \in owed : next[k] = line[k] /\ line[k] \in DOMAIN said
  BY <1>3, <1>4, <1>5 DEF Told
<1>. HIDE DEF next
<1>7. \A k \in owed \cup {n} : more[next[k]].kind = happened[k]
  BY <1>1, <1>4, <1>6
<1>8. ASSUME NEW j \in owed \cup {n}, NEW k \in owed \cup {n}, j < k PROVE next[j] < next[k]
  <2>1. j \in owed
    BY <1>8
  <2>2. CASE k = n
    BY <2>1, <2>2, <1>2, <1>6
  <2>3. CASE k \in owed
    BY <2>1, <2>3, <1>4, <1>6, <1>8
  <2>. QED  BY <2>2, <2>3
<1>9. ASSUME NEW i \in Told(more) PROVE \E k \in owed \cup {n} : next[k] = i
  BY <1>3, <1>4, <1>6
<1>10. TellsEach(more, happened, owed \cup {n})
  BY <1>6, <1>7, <1>8, <1>9 DEF TellsEach
<1>. QED  BY <1>10 DEF more

\* What is owed of the events does not change when one more is emitted.
LEMMA TellsStay ==
  ASSUME NEW said, NEW happened, NEW more, NEW from \in Nat, NEW to \in Nat,
         \A k \in from + 1 .. to : more[k] = happened[k],
         TellsEach(said, happened, Owed(happened, from, to))
  PROVE  TellsEach(said, more, Owed(more, from, to))
<1>1. Owed(more, from, to) = Owed(happened, from, to)
  BY DEF Owed
<1>2. \A k \in Owed(happened, from, to) : more[k] = happened[k]
  BY DEF Owed
<1>. QED  BY <1>1, <1>2 DEF TellsEach

(* What a step changes of the handlers. *)

Same(h) ==
  /\ at'[h] = at[h] /\ up'[h] = up[h] /\ lines'[h] = lines[h]
  /\ h \in Streams =>
       /\ heard'[h] = heard[h] /\ sent'[h] = sent[h] /\ joined'[h] = joined[h] /\ late'[h] = late[h]
       /\ h \in listeners' <=> h \in listeners

LEMMA GoesTyped ==
  ASSUME at \in [Handlers -> Places], NEW h \in Handlers, NEW from, NEW to \in Places, Goes(h, from, to)
  PROVE  /\ at' \in [Handlers -> Places] /\ at[h] = from /\ at'[h] = to
         /\ \A g \in Handlers : g # h => at'[g] = at[g]
BY DEF Goes

LEMMA SendsTyped ==
  ASSUME lines \in [Handlers -> Seq(Lines)], NEW h \in Handlers, NEW x \in Lines, Sends(h, x)
  PROVE  /\ lines' \in [Handlers -> Seq(Lines)]
         /\ lines'[h] = IF up[h] THEN Append(lines[h], x) ELSE lines[h]
         /\ \A g \in Handlers : g # h => lines'[g] = lines[g]
<1>1. Append(lines[h], x) \in Seq(Lines)
  BY AppendProperties
<1>. QED  BY <1>1 DEF Sends

LEMMA LinesAre ==
  /\ \A k \in JobEvents \cup {"queued", "timeout", "running"} \cup Ended : Plain(k) \in Lines /\ Plain(k).kind = k
  /\ \A r \in Results : Result(r) \in Lines /\ Result(r).kind = "result" /\ Result(r).says = r
BY DEF Plain, Result, Lines, JobEvents, Results

\* The line of what is passed on next.
LEMMA NextEvent ==
  ASSUME HandlersTyped, NEW h \in Streams, sent[h] < Len(heard[h])
  PROVE  heard[h][sent[h] + 1] \in JobEvents /\ sent[h] + 1 \in DOMAIN heard[h]
<1>1. heard[h] \in Seq(JobEvents) /\ sent[h] \in Nat
  BY DEF HandlersTyped
<1>2. Len(heard[h]) \in Nat /\ DOMAIN heard[h] = 1..Len(heard[h])
  BY <1>1, LenProperties
<1>3. sent[h] + 1 \in 1..Len(heard[h])
  BY <1>1, <1>2
<1>. QED  BY <1>1, <1>2, <1>3, ElementOfSeq

LEMMA HandlerEffect ==
  ASSUME JobOK, HandlersTyped, NEW h \in Handlers, RoleOK(h), h \in Pollers => PollOK(h),
         TakesResult(h) \/ HandlerAlone(h)
  PROVE  HandlersTyped' /\ RoleOK(h)' /\ \A g \in Handlers : g # h => Same(g)
<1>. DEFINE Done == HandlersTyped' /\ RoleOK(h)' /\ \A g \in Handlers : g # h => Same(g)
<1>0. /\ Streams \subseteq Handlers
      /\ Streams \cap Waiters = {} /\ Pollers \cap (Streams \cup Waiters) = {}
  BY FrontAssumption DEF Handlers
<1>1. CASE AddListener(h)
  <2>1. h \in Streams /\ Goes(h, "start", "hello")
    BY <1>1 DEF AddListener
  <2>2. /\ at' \in [Handlers -> Places] /\ at'[h] = "hello" /\ \A g \in Handlers : g # h => at'[g] = at[g]
    BY <2>1, GoesTyped DEF HandlersTyped, Places
  <2>3. Len(emitted) \in Nat
    BY LenProperties DEF JobOK
  <2>. QED  BY <1>1, <1>0, <2>1, <2>2, <2>3 DEF AddListener, HandlersTyped, RoleOK, Same
<1>2. CASE Hello(h)
  <2>1. Goes(h, "hello", IF up[h] THEN "loop" ELSE "finally") /\ Sends(h, Plain("queued"))
    BY <1>2 DEF Hello
  <2>2. /\ at' \in [Handlers -> Places] /\ at[h] = "hello" /\ at'[h] \in {"loop", "finally"}
        /\ \A g \in Handlers : g # h => at'[g] = at[g]
    BY <2>1, GoesTyped DEF HandlersTyped, Places
  <2>3. Plain("queued") \in Lines
    BY LinesAre
  <2>4. lines' \in [Handlers -> Seq(Lines)] /\ \A g \in Handlers : g # h => lines'[g] = lines[g]
    BY <2>1, <2>3, SendsTyped DEF HandlersTyped
  <2>. QED  BY <1>2, <1>0, <2>2, <2>4 DEF Hello, HandlersTyped, RoleOK, Same, streamVars
<1>3. CASE Loop(h) \/ Blocked(h) \/ WaitTimesOut(h) \/ TakesResult(h)
  <2>1. /\ UNCHANGED <<listeners, heard, ready, sent, joined, late, up, lines>>
        /\ \/ \E to \in {"last", "wait"} : Goes(h, "loop", to)
           \/ Goes(h, "start", "last") /\ h \in Waiters
           \/ \E to \in {"result", "timeout"} : Goes(h, "last", to)
    BY <1>3 DEF Loop, Blocked, WaitTimesOut, TakesResult, streamVars
  <2>2. /\ at' \in [Handlers -> Places] /\ at'[h] \in {"last", "wait", "result", "timeout"}
        /\ at[h] \in {"loop", "last"} \/ h \in Waiters
        /\ at'[h] = "wait" => at[h] = "loop"
        /\ \A g \in Handlers : g # h => at'[g] = at[g]
    BY <2>1, GoesTyped DEF HandlersTyped, Places
  <2>. QED  BY <1>0, <2>1, <2>2 DEF HandlersTyped, RoleOK, Same
<1>4. CASE Deadline(h)
  <2>1. h \in Streams /\ Goes(h, "loop", "last")
    BY <1>4 DEF Deadline
  <2>2. /\ at' \in [Handlers -> Places] /\ at'[h] = "last" /\ \A g \in Handlers : g # h => at'[g] = at[g]
    BY <2>1, GoesTyped DEF HandlersTyped, Places
  <2>. QED  BY <1>4, <1>0, <2>1, <2>2 DEF Deadline, HandlersTyped, RoleOK, Same
<1>5. CASE Wait(h)
  <2>1. Goes(h, "wait", "drain")
    BY <1>5 DEF Wait
  <2>2. /\ at' \in [Handlers -> Places] /\ at[h] = "wait" /\ at'[h] = "drain"
        /\ \A g \in Handlers : g # h => at'[g] = at[g]
    BY <2>1, GoesTyped DEF HandlersTyped, Places
  <2>. QED  BY <1>5, <1>0, <2>2 DEF Wait, HandlersTyped, RoleOK, Same
<1>6. CASE PassOn(h)
  <2>1. /\ at[h] = "drain" /\ sent[h] < Len(heard[h]) /\ sent' = [sent EXCEPT ![h] = sent[h] + 1]
        /\ UNCHANGED <<listeners, at, heard, ready, joined, late, up>>
    BY <1>6 DEF PassOn
  <2>2. h \in Streams
    BY <2>1 DEF RoleOK
  <2>3. heard[h][sent[h] + 1] \in JobEvents
    BY <2>1, <2>2, NextEvent
  <2>4. \/ UNCHANGED lines
        \/ Sends(h, Plain(heard[h][sent[h] + 1]))
    BY <1>6 DEF PassOn
  <2>5. lines' \in [Handlers -> Seq(Lines)] /\ \A g \in Handlers : g # h => lines'[g] = lines[g]
    BY <2>3, <2>4, LinesAre, SendsTyped DEF HandlersTyped
  <2>. QED  BY <1>0, <2>1, <2>2, <2>5 DEF HandlersTyped, RoleOK, Same
<1>7. CASE Drained(h)
  <2>1. /\ Goes(h, "drain", "loop")
        /\ UNCHANGED <<listeners, heard, ready, sent, joined, late, up>>
        /\ UNCHANGED lines \/ Sends(h, Plain("queued"))
    BY <1>7 DEF Drained, streamVars
  <2>2. /\ at' \in [Handlers -> Places] /\ at[h] = "drain" /\ at'[h] = "loop"
        /\ \A g \in Handlers : g # h => at'[g] = at[g]
    BY <2>1, GoesTyped DEF HandlersTyped, Places
  <2>5. lines' \in [Handlers -> Seq(Lines)] /\ \A g \in Handlers : g # h => lines'[g] = lines[g]
    BY <2>1, LinesAre, SendsTyped DEF HandlersTyped
  <2>. QED  BY <1>0, <2>1, <2>2, <2>5 DEF HandlersTyped, RoleOK, Same
<1>8. CASE Answer(h)
  <2>1. /\ UNCHANGED <<listeners, heard, ready, sent, joined, late, up>>
        /\ \E from \in {"result", "timeout"} : Goes(h, from, "finally")
        /\ Sends(h, Result(job.result)) \/ Sends(h, Plain("timeout"))
    BY <1>8 DEF Answer, streamVars
  <2>2. /\ at' \in [Handlers -> Places] /\ at[h] \in {"result", "timeout"} /\ at'[h] = "finally"
        /\ \A g \in Handlers : g # h => at'[g] = at[g]
    BY <2>1, GoesTyped DEF HandlersTyped, Places
  <2>3. Result(job.result) \in Lines /\ Plain("timeout") \in Lines
    BY LinesAre DEF JobOK, JobRecords
  <2>5. lines' \in [Handlers -> Seq(Lines)] /\ \A g \in Handlers : g # h => lines'[g] = lines[g]
    BY <2>1, <2>3, SendsTyped DEF HandlersTyped
  <2>. QED  BY <1>0, <2>1, <2>2, <2>5 DEF HandlersTyped, RoleOK, Same
<1>9. CASE Finally(h)
  <2>1. Goes(h, "finally", "closed") /\ UNCHANGED <<joined, late, up, lines>>
    BY <1>9 DEF Finally
  <2>2. /\ at' \in [Handlers -> Places] /\ at[h] = "finally" /\ at'[h] = "closed"
        /\ \A g \in Handlers : g # h => at'[g] = at[g]
    BY <2>1, GoesTyped DEF HandlersTyped, Places
  <2>3. <<>> \in Seq(JobEvents)
    BY EmptySeq
  <2>4. heard' \in [Streams -> Seq(JobEvents)] /\ sent' \in [Streams -> Nat] /\ ready' \in [Streams -> BOOLEAN]
    BY <1>9, <2>3 DEF Finally, HandlersTyped
  <2>5. \A g \in Streams : g # h => heard'[g] = heard[g] /\ sent'[g] = sent[g]
    BY <1>9 DEF Finally
  <2>6. listeners' = listeners \ {h}
    BY <1>9 DEF Finally, Removes
  <2>. QED  BY <1>0, <2>1, <2>2, <2>4, <2>5, <2>6 DEF HandlersTyped, RoleOK, Same
<1>10. CASE PollsState(h)
  <2>1. h \in Pollers /\ Goes(h, "start", "poll") /\ UNCHANGED <<listeners, heard, ready, sent, joined, late, up>>
        /\ lines' = [lines EXCEPT ![h] = <<Plain(job.state)>>]
    BY <1>10 DEF PollsState, streamVars
  <2>2. /\ at' \in [Handlers -> Places] /\ at'[h] = "poll" /\ \A g \in Handlers : g # h => at'[g] = at[g]
    BY <2>1, GoesTyped DEF HandlersTyped, Places
  <2>3. <<Plain(job.state)>> \in Seq(Lines)
    BY LinesAre DEF JobOK, JobRecords
  <2>. QED  BY <1>0, <2>1, <2>2, <2>3 DEF HandlersTyped, RoleOK, Same
<1>11. CASE PollsResult(h)
  <2>1. Goes(h, "poll", "closed") /\ UNCHANGED <<listeners, heard, ready, sent, joined, late, up>>
        /\ lines' = [lines EXCEPT ![h][1].says = job.result]
    BY <1>11 DEF PollsResult, streamVars
  <2>2. /\ at' \in [Handlers -> Places] /\ at[h] = "poll" /\ at'[h] = "closed"
        /\ \A g \in Handlers : g # h => at'[g] = at[g]
    BY <2>1, GoesTyped DEF HandlersTyped, Places
  <2>3. h \in Pollers /\ Len(lines[h]) = 1 /\ lines[h] \in Seq(Lines)
    BY <2>2 DEF RoleOK, PollOK, HandlersTyped
  <2>. DEFINE said == [lines[h] EXCEPT ![1].says = job.result]
  <2>4. lines[h][1] \in Lines /\ lines[h] \in [1..1 -> Lines]
    BY <2>3, ElementOfSeq, LenProperties
  <2>5. [lines[h][1] EXCEPT !.says = job.result] \in Lines
    BY <2>4 DEF Lines, JobOK, JobRecords
  <2>6. said \in [1..1 -> Lines]
    BY <2>4, <2>5
  <2>. HIDE DEF said
  <2>7. said \in Seq(Lines)
    BY <2>6, SeqDef, 1 \in Nat
  <2>. USE DEF said
  <2>8. lines' \in [Handlers -> Seq(Lines)] /\ \A g \in Handlers : g # h => lines'[g] = lines[g]
    BY <2>1, <2>7 DEF HandlersTyped
  <2>. QED  BY <1>0, <2>1, <2>2, <2>3, <2>8 DEF HandlersTyped, RoleOK, Same
<1>12. CASE ClientGoes(h)
  <2>1. <<>> \in Seq(Lines)
    BY EmptySeq
  <2>. QED  BY <1>12, <1>0, <2>1 DEF ClientGoes, HandlersTyped, RoleOK, Same, streamVars
<1>. QED
  BY <1>1, <1>2, <1>3, <1>4, <1>5, <1>6, <1>7, <1>8, <1>9, <1>10, <1>11, <1>12 DEF HandlerAlone

(* What a handler is told of stays, while another moves. *)

LEMMA OthersKeep ==
  ASSUME FrontInv, Advances, NEW h \in Handlers, Same(h)
  PROVE  /\ RoleOK(h)'
         /\ h \in Streams \cup Waiters => AnswerOK(h)'
         /\ h \in Pollers => PollOK(h)'
<1>1. RoleOK(h)'
  BY DEF FrontInv, RoleOK, Same
<1>2. ASSUME h \in Streams \cup Waiters PROVE AnswerOK(h)'
  BY <1>2 DEF FrontInv, AnswerOK, Same, Advances
<1>3. ASSUME h \in Pollers PROVE PollOK(h)'
  BY <1>3 DEF FrontInv, PollOK, Same, Advances
<1>. QED  BY <1>1, <1>2, <1>3

LEMMA OtherStreamsKeep ==
  ASSUME FrontInv, Advances, NEW h \in Streams, Same(h), UNCHANGED <<emitted, left>>
  PROVE  StreamOK(h)'
BY DEF FrontInv, StreamOK, HeardOK, Same, Advances, Listening

(* The answer of a client. *)

LEMMA PlainLine ==
  ASSUME HandlersTyped, NEW h \in Handlers, AnswerOK(h), Advances, NEW x \in Lines,
         x.kind \notin {"end", "result", "timeout"},
         at[h] \notin {"finally", "closed"}, at'[h] \notin {"finally", "closed", "result"}, up'[h] = up[h],
         lines'[h] = lines[h] \/ (up[h] /\ lines'[h] = Append(lines[h], x))
  PROVE  AnswerOK(h)'
<1>. DEFINE said == lines[h]
            more == lines'[h]
<1>1. said \in Seq(Lines)
  BY DEF HandlersTyped
<1>2. \A i \in DOMAIN said : said[i].kind \notin {"end", "result", "timeout"}
  BY DEF AnswerOK
<1>3. \A i \in DOMAIN more : more[i].kind \notin {"end", "result", "timeout"}
  <2>1. CASE more = said
    BY <2>1, <1>2
  <2>2. CASE more = Append(said, x)
    BY <2>2, <1>1, <1>2, AppendedLine
  <2>. QED  BY <2>1, <2>2
<1>4. ~up'[h] => more = <<>>
  BY DEF AnswerOK
<1>. QED  BY <1>3, <1>4 DEF AnswerOK

LEMMA AnswerMoves ==
  ASSUME FrontInv, Advances, JobOK', NEW h \in Streams \cup Waiters, TakesResult(h) \/ HandlerAlone(h)
  PROVE  AnswerOK(h)'
<1>0. /\ h \in Handlers /\ h \notin Pollers /\ at[h] # "poll" /\ RoleOK(h) /\ AnswerOK(h)
      /\ JobOK /\ HandlersTyped /\ lines[h] \in Seq(Lines)
      /\ at \in [Handlers -> Places] /\ up \in [Handlers -> BOOLEAN] /\ lines \in [Handlers -> Seq(Lines)]
      /\ Plain("queued") \in Lines /\ Plain("queued").kind = "queued"
  BY FrontAssumption, LinesAre DEF Handlers, FrontInv, RoleOK, HandlersTyped
<1>1. CASE AddListener(h) \/ Loop(h) \/ Deadline(h) \/ Wait(h) \/ Blocked(h) \/ WaitTimesOut(h)
  <2>1. /\ UNCHANGED <<lines, up>>
        /\ \E from \in {"start", "loop", "wait"}, to \in {"hello", "last", "wait", "drain"} : Goes(h, from, to)
    BY <1>1 DEF AddListener, Loop, Deadline, Wait, Blocked, WaitTimesOut
  <2>2. at[h] \notin {"finally", "closed"} /\ at'[h] \notin {"finally", "closed", "result"}
    BY <1>0, <2>1 DEF Goes
  <2>. QED  BY <1>0, <2>1, <2>2, PlainLine
<1>2. CASE TakesResult(h)
  <2>1. UNCHANGED <<lines, up>> /\ Goes(h, "last", IF job.done THEN "result" ELSE "timeout")
    BY <1>2 DEF TakesResult
  <2>2. at[h] = "last" /\ at'[h] \in {"result", "timeout"} /\ (at'[h] = "result" => job.done)
    BY <1>0, <2>1 DEF Goes
  <2>3. job.done /\ job.result = "ok" => job'.counted
    BY <1>0, <1>2 DEF TakesResult, Counts, JobOK, JobRecords
  <2>4. \A i \in DOMAIN lines[h] : lines[h][i].kind \notin {"end", "result", "timeout"}
    BY <1>0, <2>2 DEF AnswerOK
  <2>. QED  BY <1>0, <2>1, <2>2, <2>3, <2>4 DEF AnswerOK, Advances
<1>3. CASE Hello(h)
  <2>1. /\ Goes(h, "hello", IF up[h] THEN "loop" ELSE "finally") /\ Sends(h, Plain("queued")) /\ UNCHANGED up
    BY <1>3 DEF Hello
  <2>2. /\ at[h] = "hello" /\ at'[h] = IF up[h] THEN "loop" ELSE "finally"
        /\ lines'[h] = IF up[h] THEN Append(lines[h], Plain("queued")) ELSE lines[h]
    BY <1>0, <2>1, SendsTyped DEF Goes
  <2>3. CASE up[h]
    BY <1>0, <2>1, <2>2, <2>3, PlainLine
  <2>4. CASE ~up[h]
    <3>1. lines'[h] = <<>> /\ up'[h] = up[h]
      BY <1>0, <2>1, <2>2, <2>4 DEF AnswerOK
    <3>. QED  BY <2>2, <2>4, <3>1, EmptySeq DEF AnswerOK
  <2>. QED  BY <2>3, <2>4
<1>4. CASE PassOn(h)
  <2>1. at[h] = "drain" /\ sent[h] < Len(heard[h]) /\ UNCHANGED <<at, up>> /\ h \in Streams
    BY <1>0, <1>4 DEF PassOn, RoleOK
  <2>. DEFINE e == heard[h][sent[h] + 1]
  <2>2. e \in JobEvents
    BY <1>0, <2>1, NextEvent
  <2>3. (e = "end" /\ UNCHANGED lines) \/ (e # "end" /\ Sends(h, Plain(e)))
    BY <1>4 DEF PassOn, Passes
  <2>. HIDE DEF e
  <2>4. CASE UNCHANGED lines
    BY <1>0, <2>1, <2>4, PlainLine
  <2>5. CASE e # "end" /\ Sends(h, Plain(e))
    <3>1. Plain(e) \in Lines /\ Plain(e).kind = e /\ e \notin {"end", "result", "timeout"}
      BY <2>2, <2>5, LinesAre DEF JobEvents
    <3>2. lines'[h] = IF up[h] THEN Append(lines[h], Plain(e)) ELSE lines[h]
      BY <1>0, <2>5, <3>1, SendsTyped
    <3>. QED  BY <1>0, <2>1, <3>1, <3>2, PlainLine
  <2>. QED  BY <2>3, <2>4, <2>5
<1>5. CASE Drained(h)
  <2>1. Goes(h, "drain", "loop") /\ UNCHANGED up /\ (UNCHANGED lines \/ Sends(h, Plain("queued")))
    BY <1>5 DEF Drained
  <2>2. at[h] = "drain" /\ at'[h] = "loop"
    BY <1>0, <2>1 DEF Goes
  <2>3. lines'[h] = lines[h] \/ (up[h] /\ lines'[h] = Append(lines[h], Plain("queued")))
    BY <1>0, <2>1, SendsTyped
  <2>. QED  BY <1>0, <2>1, <2>2, <2>3, PlainLine
<1>6. CASE Answer(h)
  <2>. DEFINE x == IF at[h] = "result" THEN Result(job.result) ELSE Plain("timeout")
  <2>1. /\ at[h] \in {"result", "timeout"} /\ at'[h] = "finally" /\ Sends(h, x) /\ UNCHANGED <<job, up>>
    BY <1>0, <1>6 DEF Answer, Goes, jobVars
  <2>2. /\ x \in Lines /\ x.kind \in {"result", "timeout"}
        /\ x.kind = "result" => at[h] = "result" /\ x.says = job.result
    BY <1>0, LinesAre DEF JobOK, JobRecords
  <2>. HIDE DEF x
  <2>3. lines'[h] = IF up[h] THEN Append(lines[h], x) ELSE lines[h]
    BY <1>0, <2>1, <2>2, SendsTyped
  <2>4. \A i \in DOMAIN lines[h] : lines[h][i].kind \notin {"end", "result", "timeout"}
    BY <1>0, <2>1 DEF AnswerOK
  <2>5. at[h] = "result" => job.done /\ (job.result = "ok" => job.counted)
    BY <1>0 DEF AnswerOK
  <2>6. CASE up[h]
    <3>. DEFINE more == Append(lines[h], x)
    <3>1. /\ DOMAIN more = DOMAIN lines[h] \cup {Len(lines[h]) + 1} /\ Len(more) = Len(lines[h]) + 1
          /\ more # <<>> /\ Last(more) = x /\ more[Len(lines[h]) + 1] = x
          /\ \A i \in DOMAIN lines[h] : more[i] = lines[h][i]
      BY <1>0, <2>2, AppendedLine
    <3>2. lines'[h] = more
      BY <2>3, <2>6
    <3>. HIDE DEF more
    <3>3. \A i \in DOMAIN more : more[i].kind \in {"end", "result", "timeout"} => i = Len(more)
      BY <2>4, <3>1
    <3>4. \A i \in DOMAIN more : more[i].kind = "result" =>
            job.done /\ more[i].says = job.result /\ (job.result = "ok" => job.counted)
      BY <2>2, <2>4, <2>5, <3>1
    <3>. QED  BY <2>1, <2>2, <2>6, <3>1, <3>2, <3>3, <3>4 DEF AnswerOK
  <2>7. CASE ~up[h]
    <3>1. lines'[h] = <<>> /\ up'[h] = up[h]
      BY <1>0, <2>1, <2>3, <2>7 DEF AnswerOK
    <3>. QED  BY <2>1, <2>7, <3>1, EmptySeq DEF AnswerOK
  <2>. QED  BY <2>6, <2>7
<1>7. CASE Finally(h)
  <2>1. at[h] = "finally" /\ at'[h] = "closed" /\ UNCHANGED <<job, up, lines>>
    BY <1>0, <1>7 DEF Finally, Goes, jobVars
  <2>. QED  BY <1>0, <2>1 DEF AnswerOK
<1>8. CASE ClientGoes(h)
  <2>1. up'[h] = FALSE /\ lines'[h] = <<>> /\ UNCHANGED <<job, at>>
    BY <1>0, <1>8 DEF ClientGoes, jobVars
  <2>. QED  BY <1>0, <2>1, EmptySeq DEF AnswerOK
<1>9. CASE PollsState(h) \/ PollsResult(h)
  BY <1>0, <1>9 DEF PollsState, PollsResult, Goes
<1>. QED  BY <1>1, <1>2, <1>3, <1>4, <1>5, <1>6, <1>7, <1>8, <1>9 DEF HandlerAlone

LEMMA PollMoves ==
  ASSUME FrontInv, Advances, JobOK', NEW h \in Pollers, TakesResult(h) \/ HandlerAlone(h)
  PROVE  PollOK(h)'
<1>0. /\ h \in Handlers /\ h \notin Streams \cup Waiters /\ RoleOK(h) /\ PollOK(h) /\ JobOK
      /\ at \in [Handlers -> Places] /\ lines \in [Handlers -> Seq(Lines)]
      /\ at[h] \in {"absent", "start", "poll", "closed"}
  BY FrontAssumption DEF Handlers, FrontInv, RoleOK, HandlersTyped
<1>1. CASE PollsState(h)
  <2>1. /\ at'[h] = "poll" /\ lines'[h] = <<Plain(job.state)>> /\ UNCHANGED job
    BY <1>0, <1>1 DEF PollsState, Goes, jobVars
  <2>2. Plain(job.state).kind = job.state
    BY DEF Plain
  <2>. QED  BY <1>0, <2>1, <2>2 DEF PollOK, JobOK
<1>2. CASE PollsResult(h)
  <2>1. /\ at[h] = "poll" /\ at'[h] = "closed" /\ UNCHANGED job
        /\ lines' = [lines EXCEPT ![h][1].says = job.result]
    BY <1>0, <1>2 DEF PollsResult, Goes, jobVars
  <2>2. Len(lines[h]) = 1 /\ lines[h] \in [1..1 -> Lines] /\ lines[h] \in Seq(Lines)
    BY <1>0, <2>1, LenProperties, ElementOfSeq DEF PollOK
  <2>3. /\ lines'[h] \in [1..1 -> Lines] /\ lines'[h][1].kind = lines[h][1].kind
        /\ lines'[h][1].says = job.result
    <3>. DEFINE line == [lines[h][1] EXCEPT !.says = job.result]
    <3>1. lines[h][1] \in Lines /\ job.result \in Results
      BY <1>0, <2>2 DEF JobOK, JobRecords
    <3>2. line \in Lines /\ line.kind = lines[h][1].kind /\ line.says = job.result
      BY <3>1 DEF Lines
    <3>3. lines'[h] = [lines[h] EXCEPT ![1] = line]
      BY <1>0, <2>1
    <3>. HIDE DEF line
    <3>. QED  BY <2>2, <3>2, <3>3
  <2>4. Len(lines'[h]) = 1
    <3>1. lines'[h] \in Seq(Lines)
      BY <2>3, SeqDef, 1 \in Nat
    <3>. QED  BY <2>3, <3>1, LenProperties
  <2>. QED  BY <1>0, <2>1, <2>3, <2>4 DEF PollOK
<1>3. CASE ~(PollsState(h) \/ PollsResult(h))
  BY <1>0, <1>3 DEF TakesResult, HandlerAlone, AddListener, Hello, Loop, Deadline, Wait, PassOn, Drained, Blocked,
     WaitTimesOut, Answer, Finally, ClientGoes, Goes
<1>. QED  BY <1>1, <1>2, <1>3

(* What a stream has heard and told. *)

LEMMA TellsNothing ==
  ASSUME NEW happened, NEW n \in Nat
  PROVE  TellsEach(<<>>, happened, Owed(happened, n, n))
<1>1. Owed(happened, n, n) = {}
  BY DEF Owed
<1>2. Told(<<>>) = {}
  BY DEF Told
<1>. DEFINE line == [k \in {} |-> k]
<1>3. line \in [{} -> {}]
  OBVIOUS
<1>. HIDE DEF line
<1>4. /\ line \in [Owed(happened, n, n) -> Told(<<>>)]
      /\ \A k \in Owed(happened, n, n) : <<>>[line[k]].kind = happened[k]
      /\ \A j, k \in Owed(happened, n, n) : j < k => line[j] < line[k]
      /\ \A i \in Told(<<>>) : \E k \in Owed(happened, n, n) : line[k] = i
  BY <1>1, <1>2, <1>3
<1>. QED  BY <1>4 DEF TellsEach

LEMMA OneMore ==
  ASSUME NEW a \in Nat, NEW b \in Nat
  PROVE  /\ a + b + 1 \in Nat /\ a + b + 1 = a + (b + 1) /\ a + 1 <= a + b + 1
         /\ a + 1 .. a + b + 1 = (a + 1 .. a + b) \cup {a + b + 1}
         /\ \A k \in a + 1 .. a + b : k < a + b + 1 /\ k \in Nat
OBVIOUS

\* A step that moves nothing but where the stream is, and what its client was sent.
LEMMA StreamGoesOn ==
  ASSUME NEW h \in Streams, StreamOK(h), UNCHANGED <<emitted, left>>, Listening(h), Listening(h)',
         sent'[h] = sent[h], heard'[h] = heard[h], joined'[h] = joined[h], h \in listeners' <=> h \in listeners,
         at'[h] \in {"last", "result"} /\ ~late'[h] => job'.done /\ sent[h] = Len(heard[h]),
         up'[h] /\ at'[h] # "finally" =>
           TellsEach(lines'[h], emitted, Owed(emitted, joined[h], joined[h] + sent[h])),
         at'[h] = "finally" /\ ~late'[h] /\ lines'[h] # <<>> /\ Last(lines'[h]).kind = "result" =>
           TellsEach(lines'[h], emitted, Owed(emitted, joined[h], Len(emitted)))
  PROVE  StreamOK(h)'
<1>1. HeardOK(h)'
  BY DEF StreamOK, HeardOK
<1>2. at'[h] \notin {"absent", "start", "closed"}
  BY DEF Listening
<1>. QED  BY <1>1, <1>2 DEF StreamOK

LEMMA StreamMoves ==
  ASSUME FrontInv, Advances, JobOK', NEW h \in Streams, TakesResult(h) \/ HandlerAlone(h)
  PROVE  StreamOK(h)'
<1>0. /\ h \in Handlers /\ h \notin Pollers /\ h \notin Waiters /\ at[h] # "poll"
      /\ RoleOK(h) /\ AnswerOK(h) /\ StreamOK(h)
      /\ JobOK /\ HandlersTyped /\ lines[h] \in Seq(Lines) /\ heard[h] \in Seq(JobEvents)
      /\ at \in [Handlers -> Places] /\ up \in [Handlers -> BOOLEAN] /\ lines \in [Handlers -> Seq(Lines)]
      /\ Plain("queued") \in Lines /\ Plain("queued").kind = "queued"
      /\ sent[h] \in Nat /\ joined[h] \in Nat /\ Len(heard[h]) \in Nat /\ Len(emitted) \in Nat
  BY FrontAssumption, LinesAre, LenProperties DEF Handlers, FrontInv, RoleOK, HandlersTyped, JobOK
<1>00. UNCHANGED <<emitted, left>>
  BY HandlerAloneFrame DEF TakesResult
<1>1. CASE AddListener(h)
  <2>1. /\ at[h] = "start" /\ at'[h] = "hello" /\ listeners' = listeners \cup {h} /\ joined'[h] = Len(emitted)
        /\ UNCHANGED <<heard, sent, late, up, lines>>
    BY <1>0, <1>1 DEF AddListener, Goes, HandlersTyped
  <2>2. heard[h] = <<>> /\ sent[h] = 0 /\ lines[h] = <<>> /\ h \notin left
    BY <1>0, <2>1 DEF StreamOK
  <2>3. HeardOK(h)'
    <3>1. heard'[h] = <<>> /\ DOMAIN heard'[h] = {} /\ Len(heard'[h]) = 0
      BY <2>1, <2>2
    <3>2. Len(emitted') - joined'[h] = 0 /\ h \notin left'
      BY <1>0, <1>00, <2>1, <2>2
    <3>. QED  BY <3>1, <3>2 DEF HeardOK
  <2>4. TellsEach(lines'[h], emitted', Owed(emitted', joined'[h], joined'[h] + sent'[h]))
    BY <1>0, <1>00, <2>1, <2>2, TellsNothing
  <2>5. sent'[h] <= Len(heard'[h]) /\ h \in listeners' /\ Listening(h)'
    BY <1>0, <2>1, <2>2, EmptySeq DEF Listening
  <2>. QED  BY <2>1, <2>3, <2>4, <2>5 DEF StreamOK
<1>2. CASE Hello(h) \/ Drained(h)
  <2>1. /\ at[h] \in {"hello", "drain"} /\ at'[h] = (IF at[h] = "drain" \/ up[h] THEN "loop" ELSE "finally")
        /\ UNCHANGED <<listeners, heard, sent, joined, late, up>>
        /\ UNCHANGED lines \/ Sends(h, Plain("queued"))
    BY <1>0, <1>2 DEF Hello, Drained, Goes, streamVars
  <2>2. lines'[h] = lines[h] \/ (up[h] /\ lines'[h] = Append(lines[h], Plain("queued")))
    BY <1>0, <2>1, SendsTyped
  <2>3. Listening(h) /\ Listening(h)'
    BY <2>1 DEF Listening
  <2>4. up[h] => TellsEach(lines'[h], emitted, Owed(emitted, joined[h], joined[h] + sent[h]))
    <3>. SUFFICES ASSUME up[h]
                  PROVE  TellsEach(lines'[h], emitted, Owed(emitted, joined[h], joined[h] + sent[h]))
      OBVIOUS
    <3>1. TellsEach(lines[h], emitted, Owed(emitted, joined[h], joined[h] + sent[h]))
      BY <1>0, <2>1, <2>3 DEF StreamOK
    <3>. DEFINE owed == Owed(emitted, joined[h], joined[h] + sent[h])
                x == Plain("queued")
    <3>. HIDE DEF owed
    <3>3. x \in Lines /\ x.kind \notin {"started", "progress"}
      BY <1>0
    <3>. HIDE DEF x
    <3>4. TellsEach(Append(lines[h], x), emitted, owed)
      BY <1>0, <3>1, <3>3, TellsOther DEF owed
    <3>5. CASE lines'[h] = lines[h]
      BY <3>1, <3>5
    <3>6. CASE lines'[h] = Append(lines[h], Plain("queued"))
      BY <3>4, <3>6 DEF owed, x
    <3>. QED  BY <2>2, <3>5, <3>6
  <2>5. ~up[h] => lines'[h] = <<>>
    BY <1>0, <2>2 DEF AnswerOK
  <2>. QED  BY <1>0, <1>00, <2>1, <2>3, <2>4, <2>5, StreamGoesOn
<1>3. CASE Loop(h) \/ Deadline(h) \/ Wait(h) \/ TakesResult(h)
  <2>1. /\ at[h] \in {"loop", "wait", "last"} /\ at'[h] \in {"last", "wait", "drain", "result", "timeout"}
        /\ UNCHANGED <<listeners, heard, sent, joined, up, lines>>
        /\ at'[h] = "last" /\ ~late'[h] => Leaves(h)
        /\ at'[h] = "result" => at[h] = "last" /\ late'[h] = late[h]
    BY <1>0, <1>3 DEF Loop, Deadline, Wait, TakesResult, Goes, streamVars, HandlersTyped
  <2>2. Listening(h) /\ Listening(h)'
    BY <2>1 DEF Listening
  <2>3. Leaves(h) => job'.done /\ sent[h] = Len(heard[h])
    BY <1>0 DEF Leaves, Advances, StreamOK
  <2>4. at'[h] \in {"last", "result"} /\ ~late'[h] => job'.done /\ sent[h] = Len(heard[h])
    BY <1>0, <2>1, <2>3 DEF Advances, StreamOK
  <2>5. up[h] => TellsEach(lines'[h], emitted, Owed(emitted, joined[h], joined[h] + sent[h]))
    BY <1>0, <2>1, <2>2 DEF StreamOK
  <2>. QED  BY <1>0, <1>00, <2>1, <2>2, <2>4, <2>5, StreamGoesOn
<1>4. CASE PassOn(h)
  <2>. DEFINE e == heard[h][sent[h] + 1]
              n == joined[h] + sent[h] + 1
  <2>1. /\ at[h] = "drain" /\ sent[h] < Len(heard[h]) /\ sent'[h] = sent[h] + 1
        /\ UNCHANGED <<at, listeners, heard, joined, late, up>>
        /\ (e = "end" /\ UNCHANGED lines) \/ (e # "end" /\ Sends(h, Plain(e)))
    BY <1>0, <1>4 DEF PassOn, Passes, HandlersTyped
  <2>2. e \in JobEvents /\ sent[h] + 1 \in DOMAIN heard[h] /\ Listening(h) /\ Listening(h)'
    BY <1>0, <2>1, NextEvent DEF Listening
  <2>3. HeardOK(h) /\ HeardOK(h)' /\ e = emitted[n]
    <3>1. HeardOK(h)
      BY <1>0, <2>2 DEF StreamOK
    <3>2. emitted[joined[h] + (sent[h] + 1)] = e
      BY <2>2, <3>1 DEF HeardOK
    <3>. QED  BY <1>0, <1>00, <2>1, <3>1, <3>2 DEF HeardOK
  <2>. HIDE DEF e
  <2>4. /\ n \in Nat /\ n = joined[h] + sent'[h]
        /\ Owed(emitted, joined[h], n) = IF e = "end" THEN Owed(emitted, joined[h], joined[h] + sent[h])
                                         ELSE Owed(emitted, joined[h], joined[h] + sent[h]) \cup {n}
        /\ Owed(emitted, joined[h], joined[h] + sent[h]) \in SUBSET Nat
        /\ \A k \in Owed(emitted, joined[h], joined[h] + sent[h]) : k < n
    <3>1. /\ n \in Nat /\ n = joined[h] + sent'[h] /\ joined[h] + 1 <= n
          /\ joined[h] + 1 .. n = (joined[h] + 1 .. joined[h] + sent[h]) \cup {n}
          /\ \A k \in joined[h] + 1 .. joined[h] + sent[h] : k < n /\ k \in Nat
      BY ZenonT(60), <1>0, <2>1, OneMore
    <3>2. n = joined[h] + sent'[h] /\ emitted[n] = e
      BY <2>3, <3>1
    <3>. HIDE DEF n
    <3>3. Owed(emitted, joined[h], joined[h] + sent[h]) \subseteq joined[h] + 1 .. joined[h] + sent[h]
      BY DEF Owed
    <3>4. Owed(emitted, joined[h], n) = IF e = "end" THEN Owed(emitted, joined[h], joined[h] + sent[h])
                                        ELSE Owed(emitted, joined[h], joined[h] + sent[h]) \cup {n}
      <4>1. CASE e = "end"
        BY <3>1, <3>2, <4>1 DEF Owed
      <4>2. CASE e # "end"
        BY <3>1, <3>2, <4>2 DEF Owed
      <4>. QED  BY <4>1, <4>2
    <3>. QED  BY <3>1, <3>2, <3>3, <3>4
  <2>. HIDE DEF n
  <2>5. ASSUME up[h] PROVE TellsEach(lines'[h], emitted, Owed(emitted, joined[h], n))
    <3>1. TellsEach(lines[h], emitted, Owed(emitted, joined[h], joined[h] + sent[h]))
      BY <1>0, <2>1, <2>2, <2>5 DEF StreamOK
    <3>2. CASE e = "end"
      BY <2>1, <2>4, <3>1, <3>2
    <3>3. CASE e # "end"
      <4>1. Plain(e) \in Lines /\ Plain(e).kind = e /\ e \in {"started", "progress"}
        BY <2>2, <3>3, LinesAre DEF JobEvents
      <4>2. lines'[h] = Append(lines[h], Plain(e))
        BY <1>0, <2>1, <2>5, <3>3, <4>1, SendsTyped
      <4>. DEFINE owed == Owed(emitted, joined[h], joined[h] + sent[h])
      <4>3. /\ owed \in SUBSET Nat /\ n \in Nat /\ (\A k \in owed : k < n)
            /\ Owed(emitted, joined[h], n) = owed \cup {n} /\ TellsEach(lines[h], emitted, owed)
        BY <2>4, <3>1, <3>3
      <4>4. Plain(e).kind = emitted[n]
        BY <2>3, <4>1 DEF n
      <4>. HIDE DEF owed
      <4>5. TellsEach(Append(lines[h], Plain(e)), emitted, owed \cup {n})
        BY <1>0, <4>1, <4>3, <4>4, TellsNext
      <4>. QED  BY <4>2, <4>3, <4>5
    <3>. QED  BY <3>2, <3>3
  <2>6. sent'[h] <= Len(heard'[h])
    BY <1>0, <2>1
  <2>. QED  BY <1>0, <1>00, <2>1, <2>2, <2>3, <2>4, <2>5, <2>6 DEF StreamOK
<1>5. CASE Answer(h)
  <2>. DEFINE x == IF at[h] = "result" THEN Result(job.result) ELSE Plain("timeout")
  <2>1. /\ at[h] \in {"result", "timeout"} /\ at'[h] = "finally" /\ Sends(h, x)
        /\ UNCHANGED <<listeners, heard, sent, joined, late, up>>
    BY <1>0, <1>5 DEF Answer, Goes, streamVars
  <2>2. x \in Lines /\ x.kind = (IF at[h] = "result" THEN "result" ELSE "timeout")
    BY <1>0, LinesAre DEF JobOK, JobRecords
  <2>. HIDE DEF x
  <2>3. lines'[h] = IF up[h] THEN Append(lines[h], x) ELSE lines[h]
    BY <1>0, <2>1, <2>2, SendsTyped
  <2>4. Listening(h) /\ Listening(h)'
    BY <2>1 DEF Listening
  <2>5. ASSUME ~late[h], lines'[h] # <<>>, Last(lines'[h]).kind = "result"
        PROVE  TellsEach(lines'[h], emitted, Owed(emitted, joined[h], Len(emitted)))
    <3>1. up[h] /\ lines'[h] = Append(lines[h], x)
      BY <1>0, <2>3, <2>5 DEF AnswerOK
    <3>2. at[h] = "result"
      BY <1>0, <2>2, <2>5, <3>1, AppendedLine
    <3>3. job.done /\ sent[h] = Len(heard[h]) /\ HeardOK(h) /\ left = {}
      BY <1>0, <2>4, <2>5, <3>2 DEF StreamOK, JobOK
    <3>4. joined[h] + sent[h] = Len(emitted)
      BY <1>0, <3>3 DEF HeardOK
    <3>5. TellsEach(lines[h], emitted, Owed(emitted, joined[h], joined[h] + sent[h]))
      BY <1>0, <2>1, <2>4, <3>1 DEF StreamOK
    <3>. QED  BY SMTT(30), <1>0, <2>2, <3>1, <3>2, <3>4, <3>5, TellsOther
  <2>. QED  BY <1>0, <1>00, <2>1, <2>4, <2>5, StreamGoesOn
<1>6. CASE Finally(h)
  <2>1. /\ at[h] = "finally" /\ at'[h] = "closed" /\ h \notin listeners'
        /\ heard'[h] = <<>> /\ sent'[h] = 0 /\ UNCHANGED <<joined, late, up, lines>>
    BY <1>0, <1>6 DEF Finally, Goes, Removes
  <2>2. sent'[h] <= Len(heard'[h]) /\ ~Listening(h)'
    BY <2>1, EmptySeq DEF Listening
  <2>. QED  BY <1>0, <1>00, <2>1, <2>2 DEF StreamOK
<1>7. CASE ClientGoes(h)
  <2>1. up'[h] = FALSE /\ lines'[h] = <<>> /\ UNCHANGED <<job, at, listeners, heard, sent, joined, late>>
    BY <1>0, <1>7 DEF ClientGoes, jobVars, streamVars
  <2>. QED  BY <1>0, <1>00, <2>1 DEF StreamOK, HeardOK, Listening
<1>8. CASE Blocked(h) \/ WaitTimesOut(h) \/ PollsState(h) \/ PollsResult(h)
  BY <1>0, <1>8 DEF Blocked, WaitTimesOut, PollsState, PollsResult, Goes
<1>. QED  BY <1>1, <1>2, <1>3, <1>4, <1>5, <1>6, <1>7, <1>8 DEF HandlerAlone

\* As long as the job is not done, no stream is at its end but one that is late.
LEMMA NoneEnded ==
  ASSUME FrontInv, NEW h \in Streams, ~job.done
  PROVE  /\ ~(at[h] \in {"last", "result"} /\ ~late[h])
         /\ ~(lines[h] # <<>> /\ Last(lines[h]).kind = "result")
<1>1. StreamOK(h) /\ AnswerOK(h) /\ lines[h] \in Seq(Lines)
  BY DEF FrontInv, HandlersTyped, Handlers
<1>2. lines[h] # <<>> => Len(lines[h]) \in DOMAIN lines[h]
  BY <1>1, LenProperties, EmptySeq
<1>. QED  BY <1>1, <1>2 DEF StreamOK, AnswerOK, Last

LEMMA CopyMoves ==
  ASSUME FrontInv, CopiesListeners, NEW h \in Streams
  PROVE  StreamOK(h)'
<1>1. /\ emitted' = Append(emitted, event) /\ left' = listeners /\ event \in JobEvents /\ left = {} /\ ~job.done
      /\ UNCHANGED <<job, listeners, at, heard, ready, sent, joined, late, up, lines>>
  BY DEF CopiesListeners, FrontInv, JobOK, streamVars
<1>2. /\ emitted \in Seq(JobEvents) /\ Len(emitted) \in Nat /\ Len(emitted') = Len(emitted) + 1
      /\ \A k \in 1..Len(emitted) : emitted'[k] = emitted[k]
  BY <1>1, AppendProperties, LenProperties DEF FrontInv, JobOK
<1>3. /\ StreamOK(h) /\ sent[h] \in Nat /\ joined[h] \in Nat /\ heard[h] \in Seq(JobEvents)
      /\ Len(heard[h]) \in Nat /\ DOMAIN heard[h] = 1..Len(heard[h])
  BY LenProperties DEF FrontInv, HandlersTyped
<1>4. ASSUME Listening(h) PROVE HeardOK(h)' /\ joined[h] + sent[h] <= Len(emitted)
  <2>1. HeardOK(h) /\ h \in left' /\ sent[h] <= Len(heard[h])
    BY <1>1, <1>3, <1>4 DEF StreamOK
  <2>2. joined[h] + Len(heard[h]) = Len(emitted)
    BY <1>1, <1>2, <1>3, <2>1 DEF HeardOK
  <2>3. \A k \in DOMAIN heard[h] : joined[h] + k \in 1..Len(emitted)
    BY <1>2, <1>3, <2>2
  <2>4. \A k \in DOMAIN heard[h] : heard'[h][k] = emitted'[joined'[h] + k]
    BY <1>1, <1>2, <2>1, <2>3 DEF HeardOK
  <2>5. Len(heard'[h]) = Len(emitted') - joined'[h] - 1
    BY SMTT(30), <1>1, <1>2, <1>3, <2>2
  <2>6. DOMAIN heard'[h] = DOMAIN heard[h] /\ h \in left'
    BY <1>1, <2>1
  <2>7. HeardOK(h)'
    BY <2>4, <2>5, <2>6 DEF HeardOK
  <2>8. joined[h] + sent[h] <= Len(emitted)
    BY <1>2, <1>3, <2>1, <2>2
  <2>. QED  BY <2>7, <2>8
<1>5. ASSUME up[h], Listening(h), at[h] # "finally"
      PROVE  TellsEach(lines[h], emitted', Owed(emitted', joined[h], joined[h] + sent[h]))
  <2>1. TellsEach(lines[h], emitted, Owed(emitted, joined[h], joined[h] + sent[h]))
    BY <1>3, <1>5 DEF StreamOK
  <2>2. joined[h] + sent[h] \in Nat /\ \A k \in joined[h] + 1 .. joined[h] + sent[h] : k \in 1..Len(emitted)
    BY <1>2, <1>3, <1>4, <1>5
  <2>3. \A k \in joined[h] + 1 .. joined[h] + sent[h] : emitted'[k] = emitted[k]
    BY <1>2, <2>2
  <2>. QED  BY <1>3, <2>1, <2>2, <2>3, TellsStay
<1>6. /\ ~(at[h] \in {"last", "result"} /\ ~late[h])
      /\ ~(lines[h] # <<>> /\ Last(lines[h]).kind = "result")
  BY <1>1, NoneEnded
<1>7. Listening(h)' <=> Listening(h)
  BY <1>1 DEF Listening
<1>8. /\ sent'[h] <= Len(heard'[h])
      /\ h \in listeners' <=> Listening(h)'
      /\ at'[h] \in {"absent", "start"} => heard'[h] = <<>> /\ sent'[h] = 0 /\ lines'[h] = <<>> /\ h \notin left'
  BY <1>1, <1>3, <1>7 DEF StreamOK, Listening
<1>. QED  BY <1>1, <1>4, <1>5, <1>6, <1>7, <1>8 DEF StreamOK

LEMMA CallMoves ==
  ASSUME FrontInv, NEW g \in Streams, Calls(g), NEW h \in Streams
  PROVE  StreamOK(h)' /\ HandlersTyped'
<1>1. /\ jobAt = "call" /\ g \in left /\ left' = left \ {g}
      /\ UNCHANGED <<job, emitted, listeners, at, sent, joined, late, up, lines>>
  BY DEF Calls
<1>2. ~job.done /\ event \in JobEvents /\ emitted[Len(emitted)] = event /\ Len(emitted) \in Nat
  BY <1>1, LenProperties DEF FrontInv, JobOK
<1>3. /\ heard[g] \in Seq(JobEvents) /\ Append(heard[g], event) \in Seq(JobEvents)
      /\ Len(Append(heard[g], event)) = Len(heard[g]) + 1 /\ Len(heard[g]) \in Nat
      /\ DOMAIN heard[g] = 1..Len(heard[g])
      /\ DOMAIN Append(heard[g], event) = 1..(Len(heard[g]) + 1)
      /\ Append(heard[g], event)[Len(heard[g]) + 1] = event
      /\ \A k \in 1..Len(heard[g]) : Append(heard[g], event)[k] = heard[g][k]
  BY <1>2, AppendProperties, LenProperties DEF FrontInv, HandlersTyped
<1>4. /\ at[g] = "closed" => UNCHANGED <<heard, ready>>
      /\ at[g] # "closed" => /\ heard' = [heard EXCEPT ![g] = Append(heard[g], event)]
                             /\ ready' = [ready EXCEPT ![g] = TRUE]
  BY DEF Calls
<1>5. /\ heard' \in [Streams -> Seq(JobEvents)] /\ ready' \in [Streams -> BOOLEAN]
      /\ g # h => heard'[h] = heard[h]
      /\ at[g] # "closed" => heard'[g] = Append(heard[g], event)
  BY <1>3, <1>4 DEF FrontInv, HandlersTyped
<1>6. HandlersTyped'
  BY <1>1, <1>5 DEF FrontInv, HandlersTyped
<1>7. StreamOK(h)
  BY DEF FrontInv
<1>8. CASE h # g \/ at[h] = "closed"
  <2>1. heard'[h] = heard[h] /\ (h \in left' <=> h \in left /\ h # g)
    BY <1>1, <1>4, <1>5, <1>8
  <2>. QED  BY <1>1, <1>6, <1>7, <1>8, <2>1 DEF StreamOK, HeardOK, Listening
<1>9. CASE h = g /\ at[h] # "closed"
  <2>1. Listening(h) /\ Listening(h)' /\ HeardOK(h) /\ heard'[h] = Append(heard[h], event) /\ h \notin left'
    BY <1>1, <1>5, <1>7, <1>9 DEF StreamOK, Listening
  <2>2. joined[h] \in Nat /\ sent[h] \in Nat
    BY DEF FrontInv, HandlersTyped
  <2>3. Len(heard[h]) = Len(emitted) - joined[h] - 1
    BY <1>1, <1>9, <2>1 DEF HeardOK
  <2>4. joined[h] + (Len(heard[h]) + 1) = Len(emitted)
    BY <1>2, <1>3, <1>9, <2>2, <2>3
  <2>5. \A k \in 1..(Len(heard[h]) + 1) : heard'[h][k] = emitted[joined[h] + k]
    <3>. SUFFICES ASSUME NEW k \in 1..(Len(heard[h]) + 1) PROVE heard'[h][k] = emitted[joined[h] + k]
      OBVIOUS
    <3>1. CASE k = Len(heard[h]) + 1
      BY <1>2, <1>3, <1>9, <2>1, <2>4, <3>1
    <3>2. CASE k # Len(heard[h]) + 1
      <4>1. k \in DOMAIN heard[h] /\ k \in 1..Len(heard[h])
        BY <1>3, <1>9, <3>2
      <4>. QED  BY <1>3, <1>9, <2>1, <4>1 DEF HeardOK
    <3>. QED  BY <3>1, <3>2
  <2>6. Len(heard'[h]) = Len(heard[h]) + 1 /\ DOMAIN heard'[h] = 1..(Len(heard[h]) + 1)
    BY <1>3, <1>9, <2>1
  <2>7. HeardOK(h)'
    <3>1. \A k \in DOMAIN heard'[h] : heard'[h][k] = emitted'[joined'[h] + k]
      BY <1>1, <2>5, <2>6
    <3>2. Len(heard'[h]) = Len(emitted') - joined'[h]
      BY <1>1, <1>2, <1>3, <1>9, <2>2, <2>4, <2>6
    <3>3. Len(heard'[h]) = Len(emitted') - joined'[h] - 0
      BY <1>1, <1>2, <2>2, <3>2
    <3>. QED  BY <2>1, <3>1, <3>3 DEF HeardOK
  <2>8. sent'[h] <= Len(heard'[h])
    BY <1>1, <1>3, <1>7, <1>9, <2>2, <2>6 DEF StreamOK
  <2>9. at[h] \notin {"absent", "start", "closed"}
    BY <2>1 DEF Listening
  <2>10. /\ ~(at[h] \in {"last", "result"} /\ ~late[h])
         /\ ~(lines[h] # <<>> /\ Last(lines[h]).kind = "result")
    BY <1>2, NoneEnded
  <2>. QED  BY <1>1, <1>6, <1>7, <2>1, <2>7, <2>8, <2>9, <2>10 DEF StreamOK
<1>. QED  BY <1>8, <1>9

LEMMA FrontInitInv == FrontInit => FrontInv
<1>. SUFFICES ASSUME FrontInit PROVE FrontInv
  OBVIOUS
<1>1. PICK c \in Companies : at = [h \in Handlers |-> IF h \in c THEN "start" ELSE "absent"]
  BY DEF FrontInit
<1>2. \A h \in Handlers : at[h] \in {"start", "absent"}
  BY <1>1
<1>3. /\ <<>> \in Seq(JobEvents) /\ <<>> \in Seq(Lines) /\ Len(<<>>) = 0 /\ DOMAIN <<>> = {}
      /\ Streams \subseteq Handlers /\ Waiters \subseteq Handlers /\ Pollers \subseteq Handlers
  BY EmptySeq DEF Handlers
<1>4. JobOK
  <2>1. job \in JobRecords
    BY DEF FrontInit, JobRecords, Ended, Results
  <2>. QED  BY <1>3, <2>1 DEF FrontInit, JobOK, Ended
<1>5. HandlersTyped
  <2>1. at \in [Handlers -> Places]
    BY <1>1 DEF Places
  <2>2. /\ up \in [Handlers -> BOOLEAN] /\ lines \in [Handlers -> Seq(Lines)] /\ heard \in [Streams -> Seq(JobEvents)]
        /\ ready \in [Streams -> BOOLEAN] /\ sent \in [Streams -> Nat] /\ joined \in [Streams -> Nat]
        /\ late \in [Streams -> BOOLEAN] /\ listeners \subseteq Streams
    BY <1>3 DEF FrontInit
  <2>. QED  BY <2>1, <2>2 DEF HandlersTyped
<1>6. \A h \in Handlers : RoleOK(h)
  BY <1>2 DEF RoleOK
<1>7. \A h \in Streams \cup Waiters : AnswerOK(h)
  BY <1>2, <1>3 DEF FrontInit, AnswerOK
<1>8. \A h \in Pollers : PollOK(h)
  BY <1>2, <1>3 DEF PollOK
<1>9. \A h \in Streams : StreamOK(h)
  BY <1>2, <1>3 DEF FrontInit, StreamOK, Listening
<1>. QED  BY <1>4, <1>5, <1>6, <1>7, <1>8, <1>9 DEF FrontInv

LEMMA FrontStepInv == FrontInv /\ [FrontNext]_frontVars => FrontInv'
<1>. SUFFICES ASSUME FrontInv, FrontNext \/ UNCHANGED frontVars PROVE FrontInv'
  OBVIOUS
<1>1. JobOK' /\ Advances
  BY JobMoves DEF FrontInv
<1>2. /\ Streams \subseteq Handlers /\ Waiters \subseteq Handlers /\ Pollers \subseteq Handlers
  BY DEF Handlers
<1>3. ASSUME \A h \in Handlers : Same(h), HandlersTyped', \A h \in Streams : StreamOK(h)' PROVE FrontInv'
  BY <1>1, <1>2, <1>3, OthersKeep DEF FrontInv
<1>4. CASE Aside \/ UNCHANGED frontVars
  <2>1. UNCHANGED <<listeners, at, heard, ready, sent, joined, late, up, lines, servedJobs, emitted, left>>
    BY <1>4, AsideFrame DEF frontVars, jobVars, streamVars
  <2>2. \A h \in Handlers : Same(h)
    BY <2>1 DEF Same
  <2>3. HandlersTyped'
    BY <2>1 DEF FrontInv, HandlersTyped
  <2>4. \A h \in Streams : StreamOK(h)'
    BY <1>1, <1>2, <2>1, <2>2, OtherStreamsKeep
  <2>. QED  BY <1>3, <2>2, <2>3, <2>4
<1>5. CASE CopiesListeners
  <2>1. UNCHANGED <<listeners, at, heard, ready, sent, joined, late, up, lines>>
    BY <1>5 DEF CopiesListeners, streamVars
  <2>2. \A h \in Handlers : Same(h)
    BY <2>1 DEF Same
  <2>3. HandlersTyped'
    BY <2>1 DEF FrontInv, HandlersTyped
  <2>4. \A h \in Streams : StreamOK(h)'
    BY <1>5, CopyMoves
  <2>. QED  BY <1>3, <2>2, <2>3, <2>4
<1>6. ASSUME NEW g \in Streams, Calls(g) PROVE FrontInv'
  <2>1. HandlersTyped' /\ \A h \in Streams : StreamOK(h)'
    BY <1>6, CallMoves
  <2>2. UNCHANGED <<at, up, lines>>
    BY <1>6 DEF Calls
  <2>3. \A h \in Handlers : RoleOK(h)'
    BY <2>2 DEF FrontInv, RoleOK
  <2>4. \A h \in Streams \cup Waiters : AnswerOK(h)'
    BY <1>1, <2>2 DEF FrontInv, AnswerOK, Advances
  <2>5. \A h \in Pollers : PollOK(h)'
    BY <1>1, <2>2 DEF FrontInv, PollOK, Advances
  <2>. QED  BY <1>1, <2>1, <2>3, <2>4, <2>5 DEF FrontInv
<1>7. ASSUME NEW g \in Handlers, TakesResult(g) \/ HandlerAlone(g) PROVE FrontInv'
  <2>1. HandlersTyped' /\ RoleOK(g)' /\ \A h \in Handlers : h # g => Same(h)
    BY <1>7, HandlerEffect DEF FrontInv
  <2>2. UNCHANGED <<emitted, left>>
    BY <1>7, HandlerAloneFrame DEF TakesResult
  <2>3. \A h \in Handlers : RoleOK(h)'
    BY <1>1, <2>1, OthersKeep
  <2>4. \A h \in Streams \cup Waiters : AnswerOK(h)'
    BY <1>1, <1>2, <1>7, <2>1, OthersKeep, AnswerMoves
  <2>5. \A h \in Pollers : PollOK(h)'
    BY <1>1, <1>2, <1>7, <2>1, OthersKeep, PollMoves
  <2>6. \A h \in Streams : StreamOK(h)'
    BY <1>1, <1>2, <1>7, <2>1, <2>2, OtherStreamsKeep, StreamMoves
  <2>. QED  BY <1>1, <2>1, <2>3, <2>4, <2>5, <2>6 DEF FrontInv
<1>. QED  BY <1>4, <1>5, <1>6, <1>7, FrontSteps

LEMMA FrontInvServes == FrontInv => ClientsAreServed
<1>. SUFFICES ASSUME FrontInv PROVE ClientsAreServed
  OBVIOUS
<1>1. /\ \A h \in Streams \cup Waiters : AnswerOK(h) /\ lines[h] \in Seq(Lines)
      /\ \A h \in Streams : StreamOK(h)
      /\ \A h \in Pollers : PollOK(h)
  BY DEF FrontInv, HandlersTyped, Handlers
<1>2. FrontTypeOK
  BY <1>1 DEF FrontInv, JobOK, HandlersTyped, FrontTypeOK, StreamOK, JobRecords, Results, JobEvents, Ended, Places
<1>3. OneAnswer
  BY <1>1 DEF AnswerOK, OneAnswer
<1>4. StreamsTellAll
  <2>. SUFFICES ASSUME NEW h \in Streams, lines[h] # <<>>, Last(lines[h]).kind = "result", ~late[h]
                PROVE  TellsEach(lines[h], emitted, Owed(emitted, joined[h], Len(emitted)))
    BY DEF StreamsTellAll
  <2>1. Len(lines[h]) \in DOMAIN lines[h]
    BY <1>1, LenProperties, EmptySeq
  <2>2. at[h] \in {"finally", "closed"}
    BY <1>1, <2>1 DEF AnswerOK, Last
  <2>. QED  BY <1>1, <2>2 DEF StreamOK
<1>5. CountedOnce
  <2>1. servedJobs <= 1
    BY DEF FrontInv, JobOK
  <2>2. ASSUME NEW h \in Streams \cup Waiters, Result("ok") \in ToSet(lines[h]) PROVE servedJobs = 1
    <3>1. PICK i \in DOMAIN lines[h] : lines[h][i] = Result("ok")
      BY <2>2 DEF ToSet
    <3>2. lines[h][i].kind = "result" /\ lines[h][i].says = "ok"
      BY <3>1 DEF Result
    <3>3. job.counted
      BY <1>1, <3>2 DEF AnswerOK
    <3>. QED  BY <3>3 DEF FrontInv, JobOK
  <2>. QED  BY <2>1, <2>2 DEF CountedOnce
<1>6. PollsAgree
  BY <1>1 DEF PollOK, PollsAgree
<1>7. ListenersLeave
  BY <1>1 DEF StreamOK, Listening, ListenersLeave
<1>. QED  BY <1>2, <1>3, <1>4, <1>5, <1>6, <1>7 DEF ClientsAreServed

\* However the events of a job, its end, the deadlines and the losses of its clients fall
\* together: each client that stays gets one answer, which is the job's result; a stream has
\* been told every event since it joined, in order; a good job counts once; nobody listens on.
THEOREM ClientsAreServedForAll == FrontSpec => []ClientsAreServed
<1>1. FrontInit => FrontInv
  BY FrontInitInv
<1>2. FrontInv /\ [FrontNext]_frontVars => FrontInv'
  BY FrontStepInv
<1>3. FrontInv => ClientsAreServed
  BY FrontInvServes
<1>. QED  BY <1>1, <1>2, <1>3, PTL DEF FrontSpec

(***************************************************************************)
(* The hooks                                                               *)
(***************************************************************************)

\* A dispatcher goes through hooks of the document, and has at most one to launch.
Dispatchings ==
  [event : KnownEvents \cup {"none"}, now : Nat, todo : SUBSET specs, fires : SUBSET specs]
RunStates == [at : {"unused", "started", "runs", "counted", "ended"}, timeout : Nat, late : BOOLEAN]
Keys == (KnownEvents \cup {"none"}) \X {s.name : s \in specs}
Times == Keys \X Nat

SpecsOK == \A s \in specs : s.events \subseteq KnownEvents /\ s.timeout \in 1..NaN
DispatchersOK == dispatching \in [Dispatchers -> Dispatchings]
RunsOK ==
  /\ run \in [Runs -> RunStates]
  /\ live = {r \in Runs : run[r].at \in {"runs", "counted"}}
ClocksOK ==
  /\ clock \in Nat /\ deadline \in Nat
  /\ cleanup \in {"no", "dispatch", "look", "join", "rest", "over"}

\* The throttle remembers the last of the firings, whose times only grow.
ThrottleKnows ==
  /\ times \in Seq(Times)
  /\ \A k \in DOMAIN lastFired : lastFired[k] \in Nat
  /\ \A i \in DOMAIN times :
       times[i][1] \in DOMAIN lastFired /\ times[i][2] <= lastFired[times[i][1]]

AtWork == {r \in Runs : run[r].at \in {"started", "runs"}}
Launching == {d \in Dispatchers : dispatching[d].fires # {}}
StatsOK == stats \in [fired : Nat, ended : Nat]

\* Once drain() has looked and not given up, nobody is live who was not late.
LateOnes == cleanup \in {"rest", "over"} /\ ~gaveUp => \A r \in live : run[r].late

HooksInv ==
  /\ SpecsOK /\ DispatchersOK /\ RunsOK /\ ClocksOK /\ StatsOK
  /\ ThrottleKnows /\ FiresAreSpaced /\ HooksAreAccounted /\ LateOnes

LEMMA WorkIsFinite ==
  /\ IsFiniteSet(AtWork) /\ IsFiniteSet(Launching)
  /\ Cardinality(AtWork) \in Nat /\ Cardinality(Launching) \in Nat
<1>1. AtWork \in SUBSET Runs /\ Launching \in SUBSET Dispatchers
  BY DEF AtWork, Launching
<1>2. IsFiniteSet(AtWork) /\ IsFiniteSet(Launching)
  BY <1>1, FS_Subset, HooksAssumption
<1>. QED  BY <1>2, FS_CardinalityType

LEMMA NaNIsLarge == NaN \in Nat /\ NaN > 301
BY SMT DEF NaN

LEMMA AccountsMean ==
  /\ HooksAreAccounted <=> (stats.fired = stats.ended + Cardinality(AtWork) + Cardinality(Launching))
  /\ HooksAreAccounted' <=> (stats'.fired = stats'.ended + Cardinality(AtWork') + Cardinality(Launching'))
BY DEF HooksAreAccounted, AtWork, Launching

LEMMA HooksInitInv == HooksInit => HooksInv
<1>. SUFFICES ASSUME HooksInit PROVE HooksInv
  OBVIOUS
<1>1. SpecsOK
  <2>1. PICK d \in Documents : specs \in ParseHooks(d)
    BY DEF HooksInit
  <2>2. /\ \A e \in d : ValidEntry(e)
        /\ specs = {[e EXCEPT !.timeout = TimeoutOf(@)] : e \in d}
    BY <2>1 DEF ParseHooks
  <2>3. SUFFICES ASSUME NEW s \in specs PROVE s.events \subseteq KnownEvents /\ s.timeout \in 1..NaN
    BY DEF SpecsOK
  <2>4. PICK e \in d : s = [e EXCEPT !.timeout = TimeoutOf(@)]
    BY <2>2
  <2>5. ValidEntry(e) /\ DOMAIN e = {"name", "events", "command", "timeout"} /\ e.timeout \in 0..NaN
    BY <2>2, HooksAssumption
  <2>6. s.events = e.events /\ s.timeout = TimeoutOf(e.timeout)
    BY <2>4, <2>5
  <2>. QED  BY <2>5, <2>6, NaNIsLarge DEF ValidEntry, ValidTimeout, TimeoutOf
<1>2. DispatchersOK
  BY DEF HooksInit, DispatchersOK, Dispatchings, Resting
<1>3. run \in [Runs -> RunStates] /\ live = {}
  BY DEF HooksInit, RunStates, Unused
<1>4. RunsOK
  BY <1>3 DEF HooksInit, RunsOK, Unused
<1>5. ClocksOK
  BY HooksAssumption DEF HooksInit, ClocksOK
<1>6. StatsOK
  BY DEF HooksInit, StatsOK
<1>7. ThrottleKnows /\ FiresAreSpaced
  BY DEF HooksInit, ThrottleKnows, FiresAreSpaced
<1>8. HooksAreAccounted
  <2>1. AtWork = {} /\ Launching = {}
    BY DEF HooksInit, AtWork, Launching, Unused, Resting
  <2>2. Cardinality(AtWork) = 0 /\ Cardinality(Launching) = 0
    BY <2>1, FS_EmptySet
  <2>. QED  BY <2>2 DEF HooksInit, HooksAreAccounted, AtWork, Launching
<1>9. LateOnes
  BY DEF HooksInit, LateOnes
<1>. QED  BY <1>1, <1>2, <1>4, <1>5, <1>6, <1>7, <1>8, <1>9 DEF HooksInv

(* What keeps a part of the invariant. *)

LEMMA SpecsStay == ASSUME SpecsOK, UNCHANGED specs PROVE SpecsOK'
BY DEF SpecsOK

LEMMA RunsStay == ASSUME RunsOK, UNCHANGED <<run, live>> PROVE RunsOK'
BY DEF RunsOK, RunStates

LEMMA ThrottleStays ==
  ASSUME ThrottleKnows, FiresAreSpaced, UNCHANGED <<specs, times, lastFired>>
  PROVE  ThrottleKnows' /\ FiresAreSpaced'
BY DEF ThrottleKnows, FiresAreSpaced, Times, Keys

LEMMA AccountsStay ==
  ASSUME HooksAreAccounted, UNCHANGED stats, AtWork' = AtWork, Launching' = Launching
  PROVE  HooksAreAccounted'
BY DEF HooksAreAccounted, AtWork, Launching

LEMMA LateStay ==
  ASSUME LateOnes, UNCHANGED <<cleanup, gaveUp, live, run>>
  PROVE  LateOnes'
BY DEF LateOnes

\* A step that leaves the threads, the throttle and the counts alone, and sets a dispatcher
\* that has nothing to launch to another such state.
LEMMA DispatcherMoves ==
  ASSUME HooksInv, UNCHANGED <<specs, clock, lastFired, live, run, stats, times, gaveUp>>, ClocksOK', LateOnes',
         NEW d \in Dispatchers, NEW state \in Dispatchings,
         dispatching[d].fires = {}, state.fires = {}, dispatching' = [dispatching EXCEPT ![d] = state]
  PROVE  HooksInv'
<1>1. DispatchersOK'
  BY DEF HooksInv, DispatchersOK, Dispatchings
<1>2. AtWork' = AtWork
  BY DEF AtWork
<1>3. Launching' = Launching
  BY DEF Launching, HooksInv, DispatchersOK
<1>. QED
  BY <1>1, <1>2, <1>3, SpecsStay, RunsStay, ThrottleStays, AccountsStay DEF HooksInv, StatsOK

LEMMA BeginsInv ==
  ASSUME HooksInv, UNCHANGED <<specs, clock, lastFired, live, run, stats, times, gaveUp>>, ClocksOK', LateOnes',
         NEW d \in Dispatchers, NEW e \in KnownEvents, BeginsLoop(d, e)
  PROVE  HooksInv'
<1>. DEFINE state == [dispatching[d] EXCEPT !.event = e, !.now = clock, !.todo = Matching(e)]
<1>1. dispatching[d] = Resting /\ dispatching' = [dispatching EXCEPT ![d] = state]
  BY DEF BeginsLoop
<1>2. dispatching[d].fires = {} /\ state.fires = {}
  BY <1>1 DEF Resting
<1>3. clock \in Nat /\ dispatching[d] \in Dispatchings
  BY DEF HooksInv, ClocksOK, DispatchersOK
<1>4. state \in Dispatchings
  BY <1>3 DEF Dispatchings, Matching
<1>. HIDE DEF state
<1>. QED  BY <1>1, <1>2, <1>4, DispatcherMoves

LEMMA DispatchInv ==
  ASSUME HooksInv, NEW d \in Dispatchers, Dispatch(d) \/ BeginCleanup(d)
  PROVE  HooksInv'
<1>1. CASE Dispatch(d)
  <2>1. ClocksOK' /\ LateOnes'
    BY <1>1, LateStay DEF Dispatch, HooksInv, ClocksOK
  <2>2. PICK e \in KnownEvents : BeginsLoop(d, e)
    BY <1>1 DEF Dispatch
  <2>. QED  BY <1>1, <2>1, <2>2, BeginsInv DEF Dispatch
<1>2. CASE BeginCleanup(d)
  <2>1. ClocksOK' /\ LateOnes'
    BY <1>2 DEF BeginCleanup, HooksInv, ClocksOK, LateOnes
  <2>2. "on_shutdown" \in KnownEvents
    BY DEF KnownEvents
  <2>. QED  BY <1>2, <2>1, <2>2, BeginsInv DEF BeginCleanup
<1>. QED  BY <1>1, <1>2

LEMMA ReturnInv ==
  ASSUME HooksInv, NEW d \in Dispatchers, Return(d) \/ BeginDrain(d)
  PROVE  HooksInv'
<1>1. Resting \in Dispatchings /\ Resting.fires = {}
  BY DEF Resting, Dispatchings
<1>2. dispatching[d].fires = {} /\ dispatching' = [dispatching EXCEPT ![d] = Resting]
  BY DEF Return, BeginDrain
<1>3. ClocksOK'
  BY DEF HooksInv, ClocksOK, Return, BeginDrain, DrainTicks
<1>4. LateOnes'
  BY DEF HooksInv, LateOnes, Return, BeginDrain
<1>. QED  BY <1>1, <1>2, <1>3, <1>4, DispatcherMoves DEF Return, BeginDrain

LEMMA ThrottleInv ==
  ASSUME HooksInv, NEW d \in Dispatchers, NEW s \in specs, Throttle(d, s)
  PROVE  HooksInv'
<1>. DEFINE state == [dispatching[d] EXCEPT !.todo = @ \ {s}]
<1>1. dispatching[d] \in Dispatchings /\ dispatching[d].fires = {}
  BY DEF HooksInv, DispatchersOK, Throttle, IsNext
<1>2. dispatching' = [dispatching EXCEPT ![d] = state]
  BY DEF Throttle
<1>3. state \in Dispatchings /\ state.fires = {}
  BY <1>1 DEF Dispatchings
<1>4. ClocksOK' /\ LateOnes'
  BY LateStay DEF HooksInv, ClocksOK, Throttle
<1>. HIDE DEF state
<1>. QED  BY <1>1, <1>2, <1>3, <1>4, DispatcherMoves DEF Throttle

(* A firing: what is fired is launched next, and its time is the last of its hook. *)
LEMMA FireInv ==
  ASSUME HooksInv, NEW d \in Dispatchers, NEW s \in specs, Fire(d, s)
  PROVE  HooksInv'
<1>. DEFINE now == dispatching[d].now
            key == Key(d, s)
            state == [dispatching[d] EXCEPT !.todo = @ \ {s}, !.fires = {s}]
<1>1. /\ dispatching[d] \in Dispatchings /\ dispatching[d].fires = {}
      /\ now \in Nat /\ key \in Keys /\ <<key, now>> \in Times
  BY DEF HooksInv, DispatchersOK, Dispatchings, Fire, IsNext, Key, Keys, Times
<1>2. UNCHANGED <<specs, clock, live, run, cleanup, deadline, gaveUp>>
  BY DEF Fire
<1>3. SpecsOK' /\ RunsOK' /\ ClocksOK' /\ LateOnes'
  BY <1>2, SpecsStay, RunsStay, LateStay DEF HooksInv, ClocksOK
<1>4. state \in Dispatchings /\ state.fires = {s}
  BY <1>1 DEF Dispatchings
<1>5. dispatching' = [dispatching EXCEPT ![d] = state]
  BY DEF Fire
<1>6. DispatchersOK'
  BY <1>2, <1>4, <1>5 DEF HooksInv, DispatchersOK, Dispatchings
<1>7. StatsOK' /\ stats'.fired = stats.fired + 1 /\ stats'.ended = stats.ended
  BY DEF HooksInv, StatsOK, Fire
<1>8. /\ times' = Append(times, <<key, now>>)
      /\ lastFired' = [k \in DOMAIN lastFired \cup {key} |-> IF k = key THEN now ELSE lastFired[k]]
      /\ now >= LastFired(key) + MinInterval
  <2>1. ~TooSoon(d, s) /\ LastFired(key) \in Nat
    BY DEF Fire, HooksInv, ThrottleKnows, LastFired
  <2>. QED  BY <1>1, <2>1, HooksAssumption DEF Fire, TooSoon
<1>. HIDE DEF now, key, state
<1>9. /\ times' \in Seq(Times) /\ Len(times') = Len(times) + 1 /\ DOMAIN times = 1..Len(times)
      /\ DOMAIN times' = 1..(Len(times) + 1) /\ times'[Len(times) + 1] = <<key, now>>
      /\ \A i \in DOMAIN times : times'[i] = times[i]
  BY <1>1, <1>8, AppendProperties, LenProperties DEF HooksInv, ThrottleKnows
<1>10. \A i \in DOMAIN times :
         times[i][1] \in DOMAIN lastFired /\ times[i][2] \in Nat /\ times[i][2] <= lastFired[times[i][1]]
  BY ElementOfSeq, LenProperties DEF HooksInv, ThrottleKnows, Times
<1>11. \A i \in DOMAIN times : times[i][1] = key => times[i][2] + MinInterval <= now /\ times[i][2] <= now
  BY <1>1, <1>8, <1>10, HooksAssumption DEF LastFired, HooksInv, ThrottleKnows
<1>12. ThrottleKnows'
  <2>1. \A i \in DOMAIN times' :
          times'[i][1] \in DOMAIN lastFired' /\ times'[i][2] <= lastFired'[times'[i][1]]
    <3>. SUFFICES ASSUME NEW i \in DOMAIN times'
                  PROVE  times'[i][1] \in DOMAIN lastFired' /\ times'[i][2] <= lastFired'[times'[i][1]]
      OBVIOUS
    <3>1. CASE i \in DOMAIN times
      BY <3>1, <1>8, <1>9, <1>10, <1>11
    <3>2. CASE i = Len(times) + 1
      BY <3>2, <1>1, <1>8, <1>9
    <3>. QED  BY <3>1, <3>2, <1>9
  <2>2. \A k \in DOMAIN lastFired' : lastFired'[k] \in Nat
    BY <1>1, <1>8 DEF HooksInv, ThrottleKnows
  <2>. QED  BY <2>1, <2>2, <1>2, <1>9 DEF ThrottleKnows, Times, Keys
<1>13. FiresAreSpaced'
  <2>. SUFFICES ASSUME NEW i \in DOMAIN times', NEW j \in DOMAIN times', i < j, times'[i][1] = times'[j][1]
                PROVE  times'[j][2] >= times'[i][2] + MinInterval
    BY DEF FiresAreSpaced
  <2>1. i \in DOMAIN times
    BY <1>9, LenProperties DEF HooksInv, ThrottleKnows
  <2>2. CASE j \in DOMAIN times
    BY <2>1, <2>2, <1>9 DEF HooksInv, FiresAreSpaced
  <2>3. CASE j = Len(times) + 1
    BY <2>1, <2>3, <1>1, <1>9, <1>10, <1>11, HooksAssumption
  <2>. QED  BY <2>2, <2>3, <1>9
<1>14. HooksAreAccounted'
  <2>1. AtWork' = AtWork
    BY <1>2 DEF AtWork
  <2>2. Launching' = Launching \cup {d} /\ d \notin Launching
    BY <1>1, <1>4, <1>5 DEF Launching, HooksInv, DispatchersOK
  <2>3. Cardinality(Launching') = Cardinality(Launching) + 1
    BY <2>2, WorkIsFinite, FS_AddElement
  <2>. QED
    BY <2>1, <2>3, <1>7, WorkIsFinite, AccountsMean DEF HooksInv, StatsOK
<1>. QED  BY <1>3, <1>6, <1>7, <1>12, <1>13, <1>14 DEF HooksInv

\* After a firing the dispatcher has nothing to launch any more.
LEMMA FiredOnce ==
  ASSUME HooksInv, NEW d \in Dispatchers, Fired(d), UNCHANGED specs
  PROVE  /\ DispatchersOK' /\ IsFiniteSet(Launching') /\ Cardinality(Launching') \in Nat
         /\ Cardinality(Launching) = Cardinality(Launching') + 1
<1>. DEFINE state == [dispatching[d] EXCEPT !.fires = {}]
<1>1. dispatching[d] \in Dispatchings /\ dispatching[d].fires # {}
  BY DEF HooksInv, DispatchersOK, Fired
<1>2. dispatching' = [dispatching EXCEPT ![d] = state] /\ state \in Dispatchings /\ state.fires = {}
  BY <1>1 DEF Fired, Dispatchings
<1>. HIDE DEF state
<1>3. DispatchersOK'
  BY <1>2 DEF HooksInv, DispatchersOK, Dispatchings
<1>4. Launching' = Launching \ {d} /\ d \in Launching
  BY <1>1, <1>2 DEF Launching, HooksInv, DispatchersOK
<1>5. IsFiniteSet(Launching') /\ Cardinality(Launching') = Cardinality(Launching) - 1
  BY <1>4, WorkIsFinite, FS_RemoveElement
<1>. QED  BY <1>3, <1>5, WorkIsFinite, FS_CardinalityType

LEMMA StartFailsInv ==
  ASSUME HooksInv, NEW d \in Dispatchers, StartFails(d)
  PROVE  HooksInv'
<1>1. UNCHANGED <<specs, clock, lastFired, live, run, cleanup, deadline, times, gaveUp>>
  BY DEF StartFails
<1>2. /\ DispatchersOK' /\ Cardinality(Launching') \in Nat
      /\ Cardinality(Launching) = Cardinality(Launching') + 1
  BY <1>1, FiredOnce DEF StartFails
<1>3. StatsOK' /\ stats'.fired = stats.fired /\ stats'.ended = stats.ended + 1
  BY DEF HooksInv, StatsOK, StartFails, FailureCounted
<1>4. AtWork' = AtWork
  BY <1>1 DEF AtWork
<1>5. HooksAreAccounted'
  BY <1>2, <1>3, <1>4, WorkIsFinite, AccountsMean DEF HooksInv, StatsOK
<1>6. ClocksOK' /\ LateOnes'
  BY <1>1, LateStay DEF HooksInv, ClocksOK
<1>. QED
  BY <1>1, <1>2, <1>3, <1>5, <1>6, SpecsStay, RunsStay, ThrottleStays DEF HooksInv

LEMMA LaunchInv ==
  ASSUME HooksInv, NEW d \in Dispatchers, Launch(d)
  PROVE  HooksInv'
<1>. DEFINE r == CHOOSE r \in Runs : run[r].at = "unused"
            s == CHOOSE s \in dispatching[d].fires : TRUE
            state == [run[r] EXCEPT !.at = "started", !.timeout = s.timeout]
<1>1. UNCHANGED <<specs, clock, lastFired, live, stats, cleanup, deadline, times, gaveUp>>
  BY DEF Launch
<1>2. /\ DispatchersOK' /\ Cardinality(Launching') \in Nat
      /\ Cardinality(Launching) = Cardinality(Launching') + 1
  BY <1>1, FiredOnce DEF Launch
<1>3. r \in Runs /\ run[r].at = "unused"
  BY DEF Launch
<1>4. run' = [run EXCEPT ![r].at = "started", ![r].timeout = s.timeout]
  BY DEF Launch
<1>5. s \in specs
  BY DEF Launch, Fired, HooksInv, DispatchersOK, Dispatchings
<1>6. s.timeout \in Nat
  BY <1>5, NaNIsLarge DEF HooksInv, SpecsOK
<1>. HIDE DEF r, s
<1>7. run' = [run EXCEPT ![r] = state]
  BY <1>3, <1>4
<1>8. state \in RunStates /\ state.at = "started" /\ state.late = run[r].late
  BY <1>3, <1>6 DEF HooksInv, RunsOK, RunStates
<1>. HIDE DEF state
<1>9. RunsOK' /\ r \notin live
  BY <1>1, <1>3, <1>7, <1>8 DEF HooksInv, RunsOK, RunStates
<1>10. LateOnes'
  BY <1>1, <1>7, <1>9 DEF HooksInv, LateOnes, RunsOK
<1>11. AtWork' = AtWork \cup {r} /\ r \notin AtWork
  BY <1>3, <1>8, <1>7 DEF AtWork, HooksInv, RunsOK
<1>12. Cardinality(AtWork') = Cardinality(AtWork) + 1
  BY <1>11, WorkIsFinite, FS_AddElement
<1>13. HooksAreAccounted'
  BY <1>1, <1>2, <1>12, WorkIsFinite, AccountsMean DEF HooksInv, StatsOK
<1>14. ClocksOK' /\ StatsOK'
  BY <1>1 DEF HooksInv, ClocksOK, StatsOK
<1>. QED
  BY <1>1, <1>2, <1>9, <1>10, <1>13, <1>14, SpecsStay, ThrottleStays DEF HooksInv

(* The threads of the hooks. *)

LEMMA RunStepInv ==
  ASSUME HooksInv, NEW r \in Runs, RunStep(r) \/ CommandEnds(r)
  PROVE  HooksInv'
<1>1. UNCHANGED <<specs, clock, lastFired, dispatching, cleanup, deadline, times, gaveUp>>
  BY DEF RunStep, Enter, TimesOut, CommandEnds, Leave, Moves
<1>2. SpecsOK' /\ DispatchersOK' /\ ClocksOK' /\ ThrottleKnows' /\ FiresAreSpaced' /\ Launching' = Launching
  BY <1>1, SpecsStay, ThrottleStays DEF HooksInv, DispatchersOK, Dispatchings, ClocksOK, Launching
<1>3. \A from, to \in {"started", "runs", "counted", "ended"} :
        Moves(r, from, to) =>
          /\ run[r].at = from /\ run' \in [Runs -> RunStates]
          /\ run'[r].at = to /\ (run[r].late \/ (from = "started" /\ cleanup = "rest") => run'[r].late)
          /\ \A q \in Runs : q # r => run'[q] = run[q]
  <2>. SUFFICES ASSUME NEW from \in {"started", "runs", "counted", "ended"},
                       NEW to \in {"started", "runs", "counted", "ended"}, Moves(r, from, to)
                PROVE  /\ run[r].at = from /\ run' \in [Runs -> RunStates]
                       /\ run'[r].at = to
                       /\ run[r].late \/ (from = "started" /\ cleanup = "rest") => run'[r].late
                       /\ \A q \in Runs : q # r => run'[q] = run[q]
    OBVIOUS
  <2>. DEFINE cut == run[r].late \/ (from = "started" /\ cleanup = "rest")
  <2>1. run[r] \in RunStates /\ run[r].at = from
    BY DEF HooksInv, RunsOK, Moves
  <2>2. run' = [run EXCEPT ![r] = [run[r] EXCEPT !.at = to, !.late = cut]]
    BY DEF Moves
  <2>3. cut \in BOOLEAN
    BY <2>1 DEF RunStates
  <2>6. (run[r].late \/ (from = "started" /\ cleanup = "rest")) => cut
    OBVIOUS
  <2>. HIDE DEF cut
  <2>4. [run[r] EXCEPT !.at = to, !.late = cut] \in RunStates
    BY <2>1, <2>3 DEF RunStates
  <2>5. run' \in [Runs -> RunStates] /\ run'[r].at = to /\ run'[r].late = cut
    BY <2>1, <2>2, <2>4 DEF HooksInv, RunsOK, RunStates
  <2>. QED  BY <2>1, <2>2, <2>5, <2>6 DEF HooksInv, RunsOK
<1>4. CASE Enter(r)
  <2>1. /\ run[r].at = "started" /\ run' \in [Runs -> RunStates] /\ run'[r].at = "runs"
        /\ cleanup = "rest" => run'[r].late
        /\ \A q \in Runs : q # r => run'[q] = run[q]
    BY <1>3, <1>4 DEF Enter
  <2>2. RunsOK'
    BY <1>4, <2>1 DEF Enter, HooksInv, RunsOK
  <2>3. LateOnes'
    BY <1>1, <1>4, <2>1 DEF Enter, HooksInv, LateOnes, RunsOK, Moves, Serving
  <2>4. AtWork' = AtWork
    BY <2>1 DEF AtWork
  <2>5. HooksAreAccounted' /\ StatsOK'
    BY <1>2, <1>4, <2>4, AccountsStay DEF Enter, HooksInv, StatsOK
  <2>. QED  BY <1>2, <2>2, <2>3, <2>5 DEF HooksInv
<1>5. CASE CommandEnds(r)
  <2>1. /\ run[r].at = "runs" /\ run' \in [Runs -> RunStates] /\ run'[r].at = "counted"
        /\ run[r].late => run'[r].late
        /\ \A q \in Runs : q # r => run'[q] = run[q]
    BY <1>3, <1>5 DEF CommandEnds
  <2>2. RunsOK'
    BY <1>5, <2>1 DEF CommandEnds, HooksInv, RunsOK
  <2>3. LateOnes'
    BY <1>1, <1>5, <2>1 DEF CommandEnds, HooksInv, LateOnes, RunsOK
  <2>4. AtWork' = AtWork \ {r} /\ r \in AtWork
    BY <2>1 DEF AtWork
  <2>5. Cardinality(AtWork') = Cardinality(AtWork) - 1
    BY <2>4, WorkIsFinite, FS_RemoveElement
  <2>6. StatsOK' /\ stats'.fired = stats.fired /\ stats'.ended = stats.ended + 1
    BY <1>5 DEF CommandEnds, HooksInv, StatsOK
  <2>7. HooksAreAccounted'
    BY <1>2, <2>5, <2>6, WorkIsFinite, AccountsMean DEF HooksInv, StatsOK
  <2>. QED  BY <1>2, <2>2, <2>3, <2>6, <2>7 DEF HooksInv
<1>6. CASE Leave(r)
  <2>1. /\ run[r].at = "counted" /\ run' \in [Runs -> RunStates] /\ run'[r].at = "ended"
        /\ run[r].late => run'[r].late
        /\ \A q \in Runs : q # r => run'[q] = run[q]
    BY <1>3, <1>6 DEF Leave
  <2>2. RunsOK'
    BY <1>6, <2>1 DEF Leave, Discarded, HooksInv, RunsOK
  <2>3. LateOnes'
    BY <1>1, <1>6, <2>1 DEF Leave, Discarded, HooksInv, LateOnes, RunsOK
  <2>4. AtWork' = AtWork
    BY <2>1 DEF AtWork
  <2>5. HooksAreAccounted' /\ StatsOK'
    BY <1>2, <1>6, <2>4, AccountsStay DEF Leave, HooksInv, StatsOK
  <2>. QED  BY <1>2, <2>2, <2>3, <2>5 DEF HooksInv
<1>. QED  BY <1>4, <1>5, <1>6 DEF RunStep, TimesOut

(* The clock and the drain. *)
LEMMA DrainInv ==
  ASSUME HooksInv, Tick \/ DrainLooks \/ DrainJoins \/ Exit
  PROVE  HooksInv'
<1>1. UNCHANGED <<specs, lastFired, live, run, dispatching, stats, times>>
  BY DEF Tick, DrainLooks, DrainJoins, Exit
<1>2. AtWork' = AtWork /\ Launching' = Launching
  BY <1>1 DEF AtWork, Launching
<1>3. ClocksOK'
  BY DEF HooksInv, ClocksOK, Tick, DrainLooks, DrainJoins, Exit, AfterJoin
<1>4. LateOnes'
  <2>1. CASE Tick
    BY <2>1, LateStay DEF Tick, HooksInv
  <2>2. CASE DrainLooks
    BY <2>2 DEF DrainLooks, LateOnes
  <2>3. CASE DrainJoins
    BY <2>3 DEF DrainJoins, AfterJoin, LateOnes
  <2>4. CASE Exit
    BY <2>4 DEF Exit, LateOnes, HooksInv
  <2>. QED  BY <2>1, <2>2, <2>3, <2>4
<1>5. SpecsOK' /\ DispatchersOK' /\ RunsOK' /\ StatsOK' /\ ThrottleKnows' /\ FiresAreSpaced' /\ HooksAreAccounted'
  BY <1>1, <1>2, SpecsStay, RunsStay, ThrottleStays, AccountsStay
  DEF HooksInv, DispatchersOK, Dispatchings, StatsOK
<1>. QED  BY <1>3, <1>4, <1>5 DEF HooksInv

\* No hook fires again too early, none that fires is forgotten or counted twice, and the end
\* of the supervisor cuts off only those that came late, for any hooks, any number of threads
\* that dispatch them, any interval and any time a command takes.
THEOREM HooksConsistentForAll == HooksSpec => []HooksConsistent
<1>1. HooksInv /\ [HooksNext]_hookVars => HooksInv'
  <2>. SUFFICES ASSUME HooksInv, [HooksNext]_hookVars PROVE HooksInv'
    OBVIOUS
  <2>1. CASE UNCHANGED hookVars
    <3>1. AtWork' = AtWork /\ Launching' = Launching
      BY <2>1 DEF hookVars, AtWork, Launching
    <3>. QED
      BY <2>1, <3>1, SpecsStay, RunsStay, ThrottleStays, AccountsStay, LateStay
      DEF hookVars, HooksInv, DispatchersOK, Dispatchings, StatsOK, ClocksOK
  <2>2. CASE HooksNext
    BY <2>2, DispatchInv, ReturnInv, ThrottleInv, FireInv, LaunchInv, StartFailsInv, RunStepInv, DrainInv
    DEF HooksNext, DrainStep, DispatchStep
  <2>. QED  BY <2>1, <2>2
<1>2. HooksInv => HooksConsistent
  <2>1. HooksInv => HooksTypeOK
    BY DEF HooksInv, HooksTypeOK, SpecsOK, RunsOK, ClocksOK, StatsOK, RunStates
  <2>2. HooksInv => KilledOnlyIfLate
    BY DEF HooksInv, KilledOnlyIfLate, LateOnes
  <2>. QED  BY <2>1, <2>2 DEF HooksInv, HooksConsistent
<1>3. QED  BY <1>1, <1>2, HooksInitInv, PTL DEF HooksSpec

(***************************************************************************)
(* The kill of everything on the GPU                                       *)
(***************************************************************************)

\* A supervisor that is down has put what it had into its log.
DownIsQuiet == sup = "down" => Pending = {}

\* What is not to be killed is no target, from the time the list is made.
TargetsAreOthers ==
  /\ tool = "list" => protected = {p \in Bystanders : p[1] \in {"server", "caller"}}
  /\ targets \cap Bystanders = {}

\* Until it is answered the tool knows nothing, and if it goes on after an answer that
\* somebody gave, it knows of no job; who refuses has killed nobody.
AnswerCounts ==
  /\ tool \in {"probe", "fetch", "raised"} => known = {}
  /\ tool \in {"discover", "list", "term", "wait", "ended"} =>
       probed \in {"full", "unheard"} \/ known = {}
  /\ tool \in {"probe", "fetch", "raised", "discover", "list", "refused"} => hit = {}

KillInv == KillTypeOK /\ DownIsQuiet /\ TargetsAreOthers /\ AnswerCounts

LEMMA KillInitInv == KillInit => KillInv
<1>. SUFFICES ASSUME KillInit PROVE KillInv
  OBVIOUS
<1>1. KillTypeOK
  <2>1. jobs \in [KillJobs -> {"none", "queued", "running", "over", "failed", "logged"}]
    BY DEF KillInit
  <2>2. servings \in 0..MaxServings /\ pid \in Nat
    BY KillAssumption DEF KillInit
  <2>3. Bystanders \subseteq gpu /\ gpu \subseteq Bystanders \cup {Worker(n) : n \in 1..pid}
    BY DEF KillInit
  <2>. QED  BY <2>1, <2>2, <2>3 DEF KillInit, KillTypeOK
<1>2. DownIsQuiet
  BY DEF KillInit, DownIsQuiet, Pending
<1>3. TargetsAreOthers /\ AnswerCounts
  BY DEF KillInit, TargetsAreOthers, AnswerCounts
<1>. QED  BY <1>1, <1>2, <1>3 DEF KillInv

LEMMA WorkersAreNoBystanders == \A n : Worker(n) \notin Bystanders
BY KillAssumption DEF Worker, Bystanders

\* The steps of the supervisor leave what the tool knows alone.
LEMMA SupervisorKeepsAnswer ==
  ASSUME TargetsAreOthers, AnswerCounts, UNCHANGED toolVars
  PROVE  TargetsAreOthers' /\ AnswerCounts'
BY DEF TargetsAreOthers, AnswerCounts, toolVars, Bystanders

LEMMA SupStepInv ==
  ASSUME KillInv, SupStarts \/ SupCloses \/ SupEnds \/ SlotsChange
  PROVE  KillInv'
<1>1. TargetsAreOthers' /\ AnswerCounts'
  BY SupervisorKeepsAnswer DEF KillInv, SupStarts, SupCloses, SupEnds, SlotsChange
<1>2. CASE SupStarts
  BY <1>1, <1>2, KillAssumption DEF SupStarts, KillInv, KillTypeOK, DownIsQuiet, toolVars, Bystanders, Worker
<1>3. CASE SupCloses
  BY <1>1, <1>3, KillAssumption DEF SupCloses, KillInv, KillTypeOK, DownIsQuiet, toolVars, Bystanders, Worker
<1>4. CASE SupEnds
  <2>1. jobs' \in [KillJobs -> {"none", "queued", "running", "over", "failed", "logged"}]
    BY <1>4 DEF SupEnds, KillInv, KillTypeOK
  <2>2. \A j \in KillJobs : jobs'[j] \notin {"queued", "running"}
    BY <1>4 DEF SupEnds, Pending
  <2>3. Pending' = {}
    BY <2>2 DEF Pending
  <2>4. Bystanders' \subseteq gpu' /\ gpu' \subseteq Bystanders
    BY <1>4 DEF SupEnds, KillInv, KillTypeOK, Bystanders
  <2>. QED
    BY <1>1, <1>4, <2>1, <2>3, <2>4 DEF SupEnds, KillInv, KillTypeOK, DownIsQuiet, toolVars, Bystanders
<1>5. CASE SlotsChange
  BY <1>1, <1>5 DEF SlotsChange, KillInv, KillTypeOK, DownIsQuiet, toolVars, Bystanders, Worker
<1>. QED  BY <1>2, <1>3, <1>4, <1>5

LEMMA JobStepInv ==
  ASSUME KillInv, NEW j \in KillJobs, JobComes(j) \/ JobRuns(j) \/ JobIsOver(j)
  PROVE  KillInv'
<1>1. TargetsAreOthers' /\ AnswerCounts'
  BY SupervisorKeepsAnswer DEF KillInv, JobComes, JobRuns, JobIsOver
<1>2. CASE JobComes(j)
  BY <1>1, <1>2 DEF JobComes, KillInv, KillTypeOK, DownIsQuiet, toolVars, Bystanders, Worker
<1>3. CASE JobRuns(j)
  <2>1. pid' \in Nat /\ pid' >= pid /\ pid' >= 1
    <3>1. CASE Worker(pid) \in gpu
      BY <3>1, <1>3, WorkersAreNoBystanders DEF JobRuns, KillInv, KillTypeOK, Worker
    <3>2. CASE Worker(pid) \notin gpu
      BY <3>2, <1>3 DEF JobRuns, KillInv, KillTypeOK
    <3>. QED  BY <3>1, <3>2
  <2>2. Bystanders \subseteq gpu' /\ gpu' \subseteq Bystanders \cup {Worker(n) : n \in 1..pid'}
    BY <1>3, <2>1 DEF JobRuns, KillInv, KillTypeOK
  <2>3. jobs' \in [KillJobs -> {"none", "queued", "running", "over", "failed", "logged"}]
    BY <1>3 DEF JobRuns, KillInv, KillTypeOK
  <2>. QED
    BY <1>1, <1>3, <2>1, <2>2, <2>3 DEF JobRuns, KillInv, KillTypeOK, DownIsQuiet, toolVars, Bystanders, Worker
<1>4. CASE JobIsOver(j)
  BY <1>1, <1>4 DEF JobIsOver, KillInv, KillTypeOK, DownIsQuiet, toolVars, Bystanders, Worker
<1>. QED  BY <1>2, <1>3, <1>4

\* The steps before the signals: they ask, look, and make the list.
LEMMA AskStepInv ==
  ASSUME KillInv, ProbeFindsIt \/ ProbeFindsNone \/ ProbeRaises \/ ProbesAgain \/ Fetch
  PROVE  KillInv'
<1>1. DownIsQuiet'
  BY DEF KillInv, DownIsQuiet, Pending, ProbeFindsIt, ProbeFindsNone, ProbeRaises, ProbesAgain, Fetch, Else
<1>2. TargetsAreOthers'
  BY DEF KillInv, TargetsAreOthers, Bystanders, ProbeFindsIt, ProbeFindsNone, ProbeRaises, ProbesAgain, Fetch, At,
     PassesFor
<1>3. AnswerCounts'
  <2>1. CASE ProbeFindsIt \/ ProbeRaises
    BY <2>1 DEF KillInv, AnswerCounts, ProbeFindsIt, ProbeRaises, At
  <2>2. CASE ProbeFindsNone
    BY <2>2 DEF KillInv, AnswerCounts, DownIsQuiet, ProbeFindsNone, At
  <2>3. CASE ProbesAgain
    BY <2>3 DEF KillInv, AnswerCounts, DownIsQuiet, ProbesAgain
  <2>4. CASE Fetch
    BY <2>4 DEF KillInv, AnswerCounts, Fetch, PassesFor
  <2>. QED  BY <2>1, <2>2, <2>3, <2>4
<1>4. KillTypeOK'
  <2>1. known' \subseteq KillJobs
    BY DEF KillInv, KillTypeOK, ProbeFindsIt, ProbeFindsNone, ProbeRaises, ProbesAgain, Fetch, Pending
  <2>2. tool' \in {"fetch", "raised", "discover", "refused"}
    BY DEF ProbeFindsIt, ProbeFindsNone, ProbeRaises, ProbesAgain, Fetch, At
  <2>3. UNCHANGED <<sup, full, servings, jobs, pid, gpu, hit>>
    BY DEF ProbeFindsIt, ProbeFindsNone, ProbeRaises, ProbesAgain, Fetch, Else
  <2>. QED  BY <2>1, <2>2, <2>3 DEF KillInv, KillTypeOK, Bystanders, Worker
<1>. QED  BY <1>1, <1>2, <1>3, <1>4 DEF KillInv

LEMMA ListStepInv ==
  ASSUME KillInv, Discover \/ DiscoverRaises \/ ListApps
  PROVE  KillInv'
<1>1. UNCHANGED <<sup, full, servings, jobs, pid, gpu, known, hit, probed>>
  BY DEF Discover, DiscoverRaises, ListApps, Else
<1>2. tool' \in {"list", "refused", "ended", "term"} /\ (tool' = "list" => Discover)
  BY DEF Discover, DiscoverRaises, ListApps, At
<1>3. DownIsQuiet' /\ KillTypeOK'
  BY <1>1, <1>2 DEF KillInv, DownIsQuiet, KillTypeOK, Pending, Bystanders, Worker
<1>4. AnswerCounts'
  BY <1>1, <1>2 DEF KillInv, AnswerCounts, Discover, DiscoverRaises, ListApps, At
<1>5. targets' \cap Bystanders = {}
  <2>1. CASE ListApps
    BY <2>1, KillAssumption DEF KillInv, TargetsAreOthers, ListApps, Targets, Bystanders
  <2>2. CASE Discover \/ DiscoverRaises
    BY <2>2 DEF KillInv, TargetsAreOthers, Discover, DiscoverRaises
  <2>. QED  BY <2>1, <2>2
<1>6. TargetsAreOthers'
  BY <1>2, <1>5 DEF TargetsAreOthers, Discover, Bystanders
<1>. QED  BY <1>3, <1>4, <1>6 DEF KillInv

LEMMA SignalStepInv ==
  ASSUME KillInv, Term \/ KillRest
  PROVE  KillInv'
<1>1. PICK dying \in SUBSET (targets \cap gpu) : Signals(dying)
  BY DEF Term, KillRest
<1>2. tool \in {"term", "wait"} /\ tool' \in {"wait", "ended"}
  BY DEF Term, KillRest, At
<1>3. TargetsAreOthers' /\ AnswerCounts'
  BY <1>1, <1>2 DEF KillInv, TargetsAreOthers, AnswerCounts, Signals, Bystanders
<1>4. jobs' \in [KillJobs -> {"none", "queued", "running", "over", "failed", "logged"}]
  BY <1>1 DEF KillInv, KillTypeOK, Signals
<1>5. Bystanders \subseteq gpu' /\ gpu' \subseteq gpu
  BY <1>1 DEF KillInv, KillTypeOK, TargetsAreOthers, Signals
<1>6. hit' \subseteq KillJobs
  BY <1>1 DEF KillInv, KillTypeOK, Signals, RunningJob
<1>7. Pending = {} => Pending' = {}
  BY <1>1 DEF Pending, Signals
<1>. QED
  BY <1>1, <1>2, <1>3, <1>4, <1>5, <1>6, <1>7
  DEF KillInv, KillTypeOK, DownIsQuiet, Signals, Bystanders, Worker

\* Neither what is protected nor the work the tool was told of is killed, for any jobs, any
\* bystanders and any number of restarts of the supervisor meanwhile.
THEOREM KillSparesForAll == KillSpec => []KillSpares
<1>1. KillInv /\ [KillNext]_killVars => KillInv'
  <2>. SUFFICES ASSUME KillInv, [KillNext]_killVars PROVE KillInv'
    OBVIOUS
  <2>1. CASE UNCHANGED killVars
    BY <2>1 DEF killVars, toolVars, KillInv, KillTypeOK, DownIsQuiet, TargetsAreOthers, AnswerCounts, Pending,
       Bystanders, Worker
  <2>2. CASE KillNext
    BY <2>2, SupStepInv, JobStepInv, AskStepInv, ListStepInv, SignalStepInv DEF KillNext
  <2>. QED  BY <2>1, <2>2
<1>2. KillInv => KillSpares
  BY DEF KillInv, KillSpares, KillSparesKnownWork, KillTypeOK, AnswerCounts
<1>3. QED  BY <1>1, <1>2, KillInitInv, PTL DEF KillSpec

(***************************************************************************)
(* The server of agents                                                    *)
(***************************************************************************)

\* Where the number of a line may be, from its reading to its answer.
HandedOver == ToSet(tasks)
InHand == {busy[t] : t \in Pool} \ {0}
Responses == ToSet(responses)
InWriting == {writing} \ {0}
Out == ToSet(written)

Once(s) == \A i, j \in DOMAIN s : s[i] = s[j] => i = j

\* A line is in one of these places, and once.
OnePlace ==
  /\ Once(tasks) /\ Once(responses) /\ Once(written)
  /\ \A t, u \in Pool : busy[t] = busy[u] => t = u \/ busy[t] = 0
  /\ HandedOver \cap (InHand \cup Responses \cup InWriting \cup Out) = {}
  /\ InHand \cap (Responses \cup InWriting \cup Out) = {}
  /\ Responses \cap (InWriting \cup Out) = {}
  /\ InWriting \cap Out = {}

\* What kind of line is where.
KindsOK ==
  /\ \A n \in HandedOver \cup InHand : input[n] \in {"wait", "call", "note"}
  /\ \A n \in (Responses \ {0}) \cup InWriting \cup Out : Due(n)

\* As long as no write has failed, what has been read and is due is in one of the places.
NoneLost ==
  ~stop => \A n \in 1..nread : Due(n) => n \in HandedOver \cup InHand \cup Responses \cup InWriting \cup Out

\* The None is the last answer, put after the pool has ended; the writer returns when it
\* takes it, or when the host has closed stdout.
SentinelOK ==
  /\ 0 \in Responses => responses[Len(responses)] = 0
  /\ mainAt \in {"read", "shutdown"} => 0 \notin Responses
  /\ mainAt \in {"join", "ended"} => HandedOver = {} /\ InHand = {}
  /\ stop => host = "gone"
  /\ ~writer /\ ~stop => mainAt \in {"join", "ended"} /\ Responses = {} /\ writing = 0
  /\ mainAt = "ended" /\ writer => host = "blocks"

McpInv == McpTypeOK /\ OnePlace /\ KindsOK /\ NoneLost /\ SentinelOK

(* Sequences. *)

LEMMA AppendedSet ==
  ASSUME NEW S, NEW s \in Seq(S), NEW x \in S
  PROVE  /\ Append(s, x) \in Seq(S) /\ Append(s, x)[Len(Append(s, x))] = x
         /\ ToSet(Append(s, x)) = ToSet(s) \cup {x}
         /\ Once(s) /\ x \notin ToSet(s) => Once(Append(s, x))
<1>1. /\ Append(s, x) \in Seq(S) /\ Len(Append(s, x)) = Len(s) + 1 /\ Len(s) \in Nat
      /\ DOMAIN s = 1..Len(s) /\ DOMAIN Append(s, x) = 1..(Len(s) + 1)
      /\ Append(s, x)[Len(s) + 1] = x /\ \A i \in 1..Len(s) : Append(s, x)[i] = s[i]
  BY AppendProperties, LenProperties
<1>. DEFINE a == Append(s, x)
<1>. HIDE DEF a
<1>2. /\ a \in Seq(S) /\ Len(a) = Len(s) + 1 /\ Len(s) \in Nat
      /\ DOMAIN s = 1..Len(s) /\ DOMAIN a = 1..(Len(s) + 1)
      /\ a[Len(s) + 1] = x /\ \A i \in 1..Len(s) : a[i] = s[i]
  BY <1>1 DEF a
<1>3. ToSet(a) = ToSet(s) \cup {x}
  <2>1. \A y \in ToSet(a) : y \in ToSet(s) \cup {x}
    BY <1>2 DEF ToSet
  <2>2. x \in ToSet(a)
    BY <1>2 DEF ToSet
  <2>3. \A y \in ToSet(s) : y \in ToSet(a)
    BY <1>2 DEF ToSet
  <2>. QED  BY <2>1, <2>2, <2>3
<1>4. Once(s) /\ x \notin ToSet(s) => Once(a)
  BY <1>2 DEF ToSet, Once
<1>. QED  BY <1>2, <1>3, <1>4 DEF a

LEMMA TailSet ==
  ASSUME NEW S, NEW s \in Seq(S), s # <<>>
  PROVE  /\ Tail(s) \in Seq(S) /\ Head(s) \in S /\ Head(s) \in ToSet(s)
         /\ Once(s) => Once(Tail(s)) /\ ToSet(Tail(s)) = ToSet(s) \ {Head(s)}
         /\ Len(Tail(s)) = Len(s) - 1 /\ Head(s) = s[1] /\ Len(s) \in Nat /\ Len(s) > 0
         /\ Len(Tail(s)) > 0 => Tail(s)[Len(Tail(s))] = s[Len(s)]
<1>. DEFINE t == Tail(s)
<1>1. /\ t \in Seq(S) /\ Head(s) \in S /\ Len(t) = Len(s) - 1 /\ Head(s) = s[1]
      /\ Len(s) \in Nat /\ Len(s) > 0 /\ DOMAIN s = 1..Len(s) /\ DOMAIN t = 1..(Len(s) - 1)
      /\ \A i \in 1..Len(t) : t[i] = s[i + 1]
  BY HeadTailProperties, LenProperties, EmptySeq
<1>. HIDE DEF t
<1>5. \A i \in DOMAIN t : i + 1 \in DOMAIN s /\ t[i] = s[i + 1] /\ i \in Nat
  BY <1>1
<1>2. ASSUME Once(s) PROVE Once(t)
  <2>. SUFFICES ASSUME NEW i \in DOMAIN t, NEW j \in DOMAIN t, t[i] = t[j] PROVE i = j
    BY DEF Once
  <2>1. i + 1 = j + 1
    BY <1>2, <1>5 DEF Once
  <2>. QED  BY <1>5, <2>1
<1>3. ASSUME Once(s) PROVE ToSet(t) = ToSet(s) \ {Head(s)}
  <2>1. ASSUME NEW y \in ToSet(t) PROVE y \in ToSet(s) /\ y # Head(s)
    <3>1. PICK i \in DOMAIN t : y = t[i]
      BY DEF ToSet
    <3>2. i + 1 \in DOMAIN s /\ y = s[i + 1] /\ i + 1 # 1 /\ 1 \in DOMAIN s
      BY <1>1, <3>1
    <3>. QED  BY <1>1, <1>3, <3>2 DEF ToSet, Once
  <2>2. ASSUME NEW y \in ToSet(s), y # Head(s) PROVE y \in ToSet(t)
    <3>1. PICK i \in DOMAIN s : y = s[i]
      BY DEF ToSet
    <3>2. i # 1
      BY <1>1, <2>2, <3>1
    <3>3. i - 1 \in DOMAIN t /\ t[i - 1] = s[i - 1 + 1] /\ i - 1 + 1 = i
      BY <1>1, <3>1, <3>2
    <3>. QED  BY <3>1, <3>3 DEF ToSet
  <2>. QED  BY <2>1, <2>2
<1>4. Head(s) \in ToSet(s)
  BY <1>1 DEF ToSet
<1>. QED  BY <1>1, <1>2, <1>3, <1>4 DEF t

LEMMA EmptyHasNone == ToSet(<<>>) = {} /\ Once(<<>>)
BY DEF ToSet, Once

LEMMA NoneIsEmpty == ASSUME NEW S, NEW s \in Seq(S), ToSet(s) = {} PROVE s = <<>>
<1>1. DOMAIN s = {}
  BY DEF ToSet
<1>2. Len(s) = 0
  BY <1>1, LenProperties
<1>. QED  BY <1>2, EmptySeq

LEMMA McpInitInv == McpInit => McpInv
<1>. SUFFICES ASSUME McpInit PROVE McpInv
  OBVIOUS
<1>1. HandedOver = {} /\ InHand = {} /\ Responses = {} /\ InWriting = {} /\ Out = {}
  BY EmptyHasNone DEF McpInit, HandedOver, InHand, Responses, InWriting, Out
<1>2. McpTypeOK
  <2>1. Len(input) = 0 /\ input \in Seq(Kinds) /\ tasks \in Seq(1..nread) /\ responses \in Seq(0..nread)
        /\ written \in Seq(1..nread)
    BY EmptySeq DEF McpInit
  <2>2. busy \in [Pool -> 0..nread] /\ writing \in 0..nread /\ nread \in 0..Len(input)
    BY <2>1 DEF McpInit
  <2>3. /\ eof \in BOOLEAN /\ host \in {"reads", "blocks", "gone"} /\ mainAt \in {"read", "shutdown", "join", "ended"}
        /\ writer \in BOOLEAN /\ stop \in BOOLEAN
    BY DEF McpInit
  <2>. QED  BY <2>1, <2>2, <2>3 DEF McpTypeOK
<1>3. OnePlace
  BY <1>1, EmptyHasNone DEF McpInit, OnePlace
<1>4. KindsOK /\ NoneLost /\ SentinelOK
  BY <1>1 DEF McpInit, KindsOK, NoneLost, SentinelOK
<1>. QED  BY <1>2, <1>3, <1>4 DEF McpInv

LEMMA PlacesTyped ==
  ASSUME McpTypeOK
  PROVE  /\ HandedOver \subseteq 1..nread /\ InHand \subseteq 1..nread /\ Responses \subseteq 0..nread
         /\ InWriting \subseteq 1..nread /\ Out \subseteq 1..nread
         /\ nread \in Nat /\ Len(input) \in Nat /\ nread <= Len(input)
         /\ \A n \in 1..nread : input[n] \in Kinds
<1>1. \A i \in DOMAIN tasks : tasks[i] \in 1..nread
  BY ElementOfSeq, LenProperties DEF McpTypeOK
<1>2. \A i \in DOMAIN responses : responses[i] \in 0..nread
  BY ElementOfSeq, LenProperties DEF McpTypeOK
<1>3. \A i \in DOMAIN written : written[i] \in 1..nread
  BY ElementOfSeq, LenProperties DEF McpTypeOK
<1>4. nread \in Nat /\ Len(input) \in Nat /\ nread <= Len(input)
  BY LenProperties DEF McpTypeOK
<1>5. \A n \in 1..nread : input[n] \in Kinds
  BY <1>4, ElementOfSeq DEF McpTypeOK
<1>6. InHand \subseteq 1..nread /\ InWriting \subseteq 1..nread
  BY <1>4 DEF McpTypeOK, InHand, InWriting
<1>. QED  BY <1>1, <1>2, <1>3, <1>4, <1>5, <1>6 DEF HandedOver, Responses, Out, ToSet

\* What the places are made of, for the steps that leave them alone.
LEMMA PlacesStay ==
  ASSUME McpInv, UNCHANGED <<tasks, busy, responses, writing, written>>
  PROVE  /\ UNCHANGED <<HandedOver, InHand, Responses, InWriting, Out>>
         /\ OnePlace'
<1>1. UNCHANGED <<HandedOver, InHand, Responses, InWriting, Out>>
  BY DEF HandedOver, InHand, Responses, InWriting, Out
<1>. QED  BY <1>1 DEF McpInv, OnePlace, Once

\* The host, and the steps of the loop that read nothing.
LEMMA QuietInv ==
  ASSUME McpInv, HostStep \/ LoopEnds \/ Interrupted \/ Join \/ UNCHANGED mcpVars
  PROVE  McpInv'
<1>1. UNCHANGED <<nread, tasks, busy, responses, writing, writer, stop, written>>
  BY DEF HostStep, HostWrites, HostCloses, HostTurns, LoopEnds, Interrupted, Join, mcpVars
<1>2. /\ input' \in Seq(Kinds) /\ Len(input) <= Len(input')
      /\ \A n \in 1..nread : input'[n] = input[n]
  <2>1. CASE UNCHANGED input
    BY <2>1, PlacesTyped DEF McpInv, McpTypeOK
  <2>2. CASE \E kind \in Kinds : HostWrites(kind)
    BY <2>2, PlacesTyped, AppendProperties DEF McpInv, McpTypeOK, HostWrites
  <2>. QED
    BY <2>1, <2>2 DEF HostStep, HostCloses, HostTurns, LoopEnds, Interrupted, Join, mcpVars
<1>3. eof' \in BOOLEAN /\ host' \in {"reads", "blocks", "gone"} /\ mainAt' \in {"read", "shutdown", "join", "ended"}
  BY DEF McpInv, McpTypeOK, HostStep, HostWrites, HostCloses, HostTurns, LoopEnds, Interrupted, Join, mcpVars
<1>4. McpTypeOK'
  BY <1>1, <1>2, <1>3, PlacesTyped, LenProperties DEF McpInv, McpTypeOK
<1>5. OnePlace' /\ UNCHANGED <<HandedOver, InHand, Responses, InWriting, Out>>
  BY <1>1, PlacesStay
<1>6. \A n \in 1..nread : Due(n)' = Due(n)
  BY <1>2 DEF Due
<1>7. KindsOK' /\ NoneLost'
  BY <1>1, <1>2, <1>5, <1>6, PlacesTyped DEF McpInv, KindsOK, NoneLost
<1>8. SentinelOK'
  <2>1. CASE HostStep
    BY <2>1, <1>1, <1>5 DEF McpInv, SentinelOK, HostStep, HostWrites, HostCloses, HostTurns
  <2>2. CASE LoopEnds \/ Interrupted
    BY <2>2, <1>1, <1>5 DEF McpInv, SentinelOK, LoopEnds, Interrupted
  <2>3. CASE Join
    BY <2>3, <1>1, <1>5 DEF McpInv, SentinelOK, Join
  <2>4. CASE UNCHANGED mcpVars
    BY <2>4, <1>5 DEF McpInv, SentinelOK, mcpVars
  <2>. QED  BY <2>1, <2>2, <2>3, <2>4
<1>. QED  BY <1>4, <1>5, <1>7, <1>8 DEF McpInv

LEMMA ReadInv == ASSUME McpInv, Read PROVE McpInv'
<1>. DEFINE n == nread + 1
<1>1. /\ nread' = n /\ n \in Nat /\ n <= Len(input) /\ 1..n = (1..nread) \cup {n} /\ n \in 1..n
      /\ UNCHANGED <<input, eof, host, mainAt, busy, writing, writer, stop, written>> /\ mainAt = "read" /\ ~stop
  BY PlacesTyped, LenProperties DEF McpInv, McpTypeOK, Read
<1>2. input[n] \in Kinds
  BY <1>1, ElementOfSeq DEF McpInv, McpTypeOK
<1>3. /\ tasks \in Seq(1..n) /\ responses \in Seq(0..n) /\ written \in Seq(1..n)
  BY <1>1, SeqMonotonic DEF McpInv, McpTypeOK
<1>4. n \notin HandedOver \cup InHand \cup Responses \cup InWriting \cup Out
  BY PlacesTyped DEF McpInv
<1>5. UNCHANGED <<InHand, InWriting, Out>>
  BY <1>1 DEF InHand, InWriting, Out
<1>. HIDE DEF n
<1>6. /\ tasks' \in Seq(1..n)
      /\ HandedOver' = IF input[n] \in {"wait", "call", "note"} THEN HandedOver \cup {n} ELSE HandedOver
      /\ Once(tasks')
  <2>1. CASE input[n] \in {"wait", "call", "note"}
    <3>1. tasks' = Append(tasks, n)
      BY <2>1 DEF Read, n
    <3>. QED  BY <3>1, <2>1, <1>1, <1>3, <1>4, AppendedSet DEF HandedOver, McpInv, OnePlace
  <2>2. CASE input[n] \notin {"wait", "call", "note"}
    <3>1. tasks' = tasks
      BY <2>2 DEF Read, n
    <3>. QED  BY <3>1, <2>2, <1>3 DEF HandedOver, McpInv, OnePlace
  <2>. QED  BY <2>1, <2>2
<1>7. /\ responses' \in Seq(0..n)
      /\ Responses' = IF input[n] = "junk" THEN Responses \cup {n} ELSE Responses
      /\ Once(responses')
  <2>1. CASE input[n] = "junk"
    <3>1. responses' = Append(responses, n) /\ n \in 0..n
      BY <2>1, <1>1 DEF Read, n
    <3>. QED  BY <3>1, <2>1, <1>3, <1>4, AppendedSet DEF Responses, McpInv, OnePlace
  <2>2. CASE input[n] # "junk"
    <3>1. responses' = responses
      BY <2>2 DEF Read, n
    <3>. QED  BY <3>1, <2>2, <1>3 DEF Responses, McpInv, OnePlace
  <2>. QED  BY <2>1, <2>2
<1>8. McpTypeOK'
  <2>0. nread \in Nat /\ nread <= n /\ 0..nread \subseteq 0..n
    BY <1>1, PlacesTyped DEF McpInv, n
  <2>1. busy' \in [Pool -> 0..n] /\ writing' \in 0..n
    <3>1. busy \in [Pool -> 0..nread] /\ writing \in 0..nread
      BY DEF McpInv, McpTypeOK
    <3>. QED  BY <2>0, <3>1, <1>1
  <2>2. nread' \in 0..Len(input')
    BY <1>1, PlacesTyped DEF McpInv
  <2>. QED  BY <2>1, <2>2, <1>1, <1>3, <1>6, <1>7 DEF McpInv, McpTypeOK
<1>9. OnePlace'
  <2>1. Once(written') /\ \A t, u \in Pool : busy'[t] = busy'[u] => t = u \/ busy'[t] = 0
    BY <1>1 DEF McpInv, OnePlace
  <2>. QED  BY <2>1, <1>4, <1>5, <1>6, <1>7 DEF McpInv, OnePlace
<1>10. \A m \in 1..n : Due(m)' = Due(m)
  BY <1>1 DEF Due
<1>11. KindsOK'
  BY <1>1, <1>5, <1>6, <1>7, <1>10, PlacesTyped DEF McpInv, KindsOK, Due
<1>12. NoneLost'
  BY <1>1, <1>2, <1>5, <1>6, <1>7, <1>10 DEF McpInv, NoneLost, Due, Kinds
<1>13. SentinelOK'
  BY <1>1, <1>4, <1>7 DEF McpInv, SentinelOK
<1>. QED  BY <1>8, <1>9, <1>11, <1>12, <1>13 DEF McpInv

\* The None goes behind every answer.
LEMMA ExecutorEndsInv == ASSUME McpInv, ExecutorEnds PROVE McpInv'
<1>1. /\ UNCHANGED <<input, nread, eof, host, tasks, busy, writing, writer, stop, written>>
      /\ responses' = Append(responses, 0) /\ mainAt' = "join" /\ mainAt = "shutdown"
      /\ tasks = <<>> /\ \A t \in Pool : busy[t] = 0
  BY DEF ExecutorEnds, PoolIsDone
<1>2. UNCHANGED <<HandedOver, InHand, InWriting, Out>> /\ HandedOver = {} /\ InHand = {}
  BY <1>1, EmptyHasNone DEF HandedOver, InHand, InWriting, Out
<1>3. 0 \notin Responses /\ 0 \in 0..nread
  BY <1>1, PlacesTyped DEF McpInv, SentinelOK
<1>4. /\ responses' \in Seq(0..nread) /\ Responses' = Responses \cup {0} /\ Once(responses')
      /\ responses'[Len(responses')] = 0
  BY <1>1, <1>3, AppendedSet DEF McpInv, McpTypeOK, OnePlace, Responses
<1>5. McpTypeOK'
  BY <1>1, <1>4 DEF McpInv, McpTypeOK
<1>6. OnePlace'
  BY <1>1, <1>2, <1>4, PlacesTyped DEF McpInv, OnePlace, Once
<1>7. KindsOK' /\ NoneLost'
  BY <1>1, <1>2, <1>4 DEF McpInv, KindsOK, NoneLost, Due
<1>8. SentinelOK'
  BY <1>1, <1>2, <1>4 DEF McpInv, SentinelOK
<1>. QED  BY <1>5, <1>6, <1>7, <1>8 DEF McpInv

LEMMA TakeTaskInv == ASSUME McpInv, NEW t \in Pool, TakeTask(t) PROVE McpInv'
<1>. DEFINE n == Head(tasks)
<1>1. /\ UNCHANGED <<input, nread, eof, host, mainAt, responses, writing, writer, stop, written>>
      /\ tasks # <<>> /\ busy[t] = 0 /\ tasks' = Tail(tasks) /\ busy' = [busy EXCEPT ![t] = n]
  BY DEF TakeTask, MayTake
<1>2. /\ tasks' \in Seq(1..nread) /\ n \in 1..nread /\ n \in HandedOver /\ Once(tasks') /\ HandedOver' = HandedOver \ {n}
  BY <1>1, TailSet DEF McpInv, McpTypeOK, OnePlace, HandedOver
<1>. HIDE DEF n
<1>3. busy' \in [Pool -> 0..nread] /\ n # 0
  BY <1>1, <1>2, PlacesTyped DEF McpInv, McpTypeOK
<1>4. InHand' = InHand \cup {n} /\ n \notin InHand
  BY <1>1, <1>2, <1>3 DEF InHand, McpInv, McpTypeOK, OnePlace
<1>5. UNCHANGED <<Responses, InWriting, Out>>
  BY <1>1 DEF Responses, InWriting, Out
<1>6. McpTypeOK'
  BY <1>1, <1>2, <1>3 DEF McpInv, McpTypeOK
<1>7. \A u, v \in Pool : busy'[u] = busy'[v] => u = v \/ busy'[u] = 0
  <2>. SUFFICES ASSUME NEW u \in Pool, NEW v \in Pool, busy'[u] = busy'[v], u # v PROVE busy'[u] = 0
    OBVIOUS
  <2>1. \A w \in Pool : w # t => busy'[w] = busy[w] /\ busy'[w] # n
    BY <1>1, <1>3, <1>4 DEF McpInv, McpTypeOK, InHand
  <2>2. busy'[t] = n
    BY <1>1 DEF McpInv, McpTypeOK
  <2>. QED  BY <2>1, <2>2 DEF McpInv, OnePlace
<1>8. OnePlace'
  BY <1>1, <1>2, <1>4, <1>5, <1>7 DEF McpInv, OnePlace, Once
<1>9. KindsOK' /\ NoneLost'
  BY <1>1, <1>2, <1>4, <1>5 DEF McpInv, KindsOK, NoneLost, Due
<1>10. SentinelOK'
  BY <1>1, <1>2, <1>5 DEF McpInv, SentinelOK
<1>. QED  BY <1>6, <1>8, <1>9, <1>10 DEF McpInv

LEMMA HandleInv == ASSUME McpInv, NEW t \in Pool, Handle(t) PROVE McpInv'
<1>. DEFINE n == busy[t]
<1>1. /\ UNCHANGED <<input, nread, eof, host, mainAt, tasks, writing, writer, stop, written>>
      /\ n # 0 /\ busy' = [busy EXCEPT ![t] = 0]
      /\ responses' = IF input[n] # "note" THEN Append(responses, n) ELSE responses
  BY DEF Handle, HasAnswer
<1>2. n \in InHand /\ n \in 1..nread /\ n \in 0..nread
  BY <1>1, PlacesTyped DEF InHand, McpInv
<1>3. InHand' = InHand \ {n} /\ busy' \in [Pool -> 0..nread]
      /\ \A u, v \in Pool : busy'[u] = busy'[v] => u = v \/ busy'[u] = 0
  BY <1>1, <1>2, PlacesTyped DEF InHand, McpInv, McpTypeOK, OnePlace
<1>4. UNCHANGED <<HandedOver, InWriting, Out>>
  BY <1>1 DEF HandedOver, InWriting, Out
<1>5. n \notin Responses /\ n \notin HandedOver /\ n \notin InWriting /\ n \notin Out
  BY <1>2 DEF McpInv, OnePlace
<1>6. mainAt \in {"read", "shutdown"} /\ 0 \notin Responses
  BY <1>2 DEF McpInv, McpTypeOK, SentinelOK
<1>. HIDE DEF n
<1>7. /\ responses' \in Seq(0..nread) /\ Once(responses')
      /\ Responses' = IF input[n] # "note" THEN Responses \cup {n} ELSE Responses
  <2>1. CASE input[n] # "note"
    BY <2>1, <1>1, <1>2, <1>5, AppendedSet DEF McpInv, McpTypeOK, OnePlace, Responses
  <2>2. CASE input[n] = "note"
    BY <2>2, <1>1 DEF McpInv, McpTypeOK, OnePlace, Responses
  <2>. QED  BY <2>1, <2>2
<1>8. McpTypeOK'
  BY <1>1, <1>3, <1>7 DEF McpInv, McpTypeOK
<1>9. OnePlace'
  BY <1>1, <1>2, <1>3, <1>4, <1>5, <1>7 DEF McpInv, OnePlace, Once
<1>10. input[n] # "note" => Due(n)
  BY <1>2 DEF McpInv, KindsOK, Due
<1>11. KindsOK' /\ NoneLost'
  BY <1>1, <1>2, <1>3, <1>4, <1>7, <1>10 DEF McpInv, KindsOK, NoneLost, Due
<1>12. SentinelOK'
  <2>1. 0 \notin Responses'
    BY <1>1, <1>6, <1>7
  <2>2. writer \/ stop
    BY <1>6 DEF McpInv, SentinelOK
  <2>. QED  BY <2>1, <2>2, <1>1, <1>6 DEF McpInv, SentinelOK
<1>. QED  BY <1>8, <1>9, <1>11, <1>12 DEF McpInv

\* The writer takes an answer, or the None, which is then the last there was.
LEMMA GetInv == ASSUME McpInv, Get PROVE McpInv'
<1>. DEFINE n == Head(responses)
<1>1. /\ UNCHANGED <<input, nread, eof, host, mainAt, tasks, busy, stop, written>>
      /\ writer /\ writing = 0 /\ responses # <<>> /\ responses' = Tail(responses) /\ mainAt # "ended"
      /\ IF n = 0 THEN writer' = FALSE /\ writing' = 0 ELSE writer' = TRUE /\ writing' = n
  BY DEF Get
<1>2. /\ responses' \in Seq(0..nread) /\ n \in 0..nread /\ n \in Responses /\ Once(responses')
      /\ Responses' = Responses \ {n}
      /\ Len(responses') = Len(responses) - 1 /\ n = responses[1] /\ Len(responses) \in Nat /\ Len(responses) > 0
      /\ Len(responses') > 0 => responses'[Len(responses')] = responses[Len(responses)]
  BY <1>1, TailSet DEF McpInv, McpTypeOK, OnePlace, Responses
<1>. HIDE DEF n
<1>3. UNCHANGED <<HandedOver, InHand, Out>> /\ InWriting = {} /\ InWriting' = {n} \ {0}
  BY <1>1 DEF HandedOver, InHand, Out, InWriting
<1>4. McpTypeOK'
  BY <1>1, <1>2, PlacesTyped DEF McpInv, McpTypeOK
<1>5. OnePlace'
  BY <1>1, <1>2, <1>3 DEF McpInv, OnePlace, Once
<1>6. KindsOK' /\ NoneLost'
  <2>1. \A m \in 1..nread : Due(m)' = Due(m)
    BY <1>1 DEF Due
  <2>2. n # 0 => Due(n)
    BY <1>2 DEF McpInv, KindsOK
  <2>3. KindsOK'
    BY <2>1, <2>2, <1>1, <1>2, <1>3, PlacesTyped DEF McpInv, KindsOK
  <2>4. NoneLost'
    BY <2>1, <1>1, <1>2, <1>3 DEF McpInv, NoneLost
  <2>. QED  BY <2>3, <2>4
<1>7. SentinelOK'
  <2>1. CASE n # 0
    <3>1. 0 \in Responses' => Len(responses') > 0
      BY <1>2, LenProperties DEF Responses, ToSet
    <3>. QED  BY <2>1, <3>1, <1>1, <1>2, <1>3 DEF McpInv, SentinelOK
  <2>2. CASE n = 0
    <3>1. responses[Len(responses)] = 0 /\ mainAt = "join"
      BY <2>2, <1>1, <1>2 DEF McpInv, McpTypeOK, SentinelOK
    <3>2. DOMAIN responses = 1..Len(responses)
      BY LenProperties DEF McpInv, McpTypeOK
    <3>3. Len(responses) = 1
      BY <2>2, <3>1, <3>2, <1>2 DEF McpInv, OnePlace, Once
    <3>4. Responses' = {}
      BY <3>3, <1>2, LenProperties DEF Responses, ToSet
    <3>. QED  BY <2>2, <3>1, <3>4, <1>1, <1>3 DEF McpInv, SentinelOK
  <2>. QED  BY <2>1, <2>2
<1>. QED  BY <1>4, <1>5, <1>6, <1>7 DEF McpInv

LEMMA WriteInv == ASSUME McpInv, Write \/ WriteFails PROVE McpInv'
<1>1. /\ UNCHANGED <<input, nread, eof, host, mainAt, tasks, busy, responses>>
      /\ writer /\ writing # 0 /\ writing' = 0 /\ mainAt # "ended"
  BY DEF Write, WriteFails
<1>2. UNCHANGED <<HandedOver, InHand, Responses>> /\ InWriting = {writing} /\ InWriting' = {} /\ writing \in 1..nread
  BY <1>1, PlacesTyped DEF HandedOver, InHand, Responses, InWriting, McpInv
<1>3. \A m \in 1..nread : Due(m)' = Due(m)
  BY <1>1 DEF Due
<1>4. CASE Write
  <2>1. /\ written' \in Seq(1..nread) /\ Once(written') /\ Out' = Out \cup {writing} /\ UNCHANGED <<writer, stop>>
    BY <1>2, <1>4, AppendedSet DEF Write, McpInv, McpTypeOK, OnePlace, Out
  <2>6. writing' \in 0..nread
    BY <1>1, PlacesTyped DEF McpInv
  <2>2. McpTypeOK'
    BY <1>1, <2>1, <2>6 DEF McpInv, McpTypeOK
  <2>3. OnePlace'
    BY <1>1, <1>2, <2>1 DEF McpInv, OnePlace, Once
  <2>4. KindsOK' /\ NoneLost'
    BY <1>1, <1>2, <1>3, <2>1, PlacesTyped DEF McpInv, KindsOK, NoneLost
  <2>5. SentinelOK'
    BY <1>1, <1>2, <2>1 DEF McpInv, SentinelOK
  <2>. QED  BY <2>2, <2>3, <2>4, <2>5 DEF McpInv
<1>5. CASE WriteFails
  <2>1. stop' = TRUE /\ writer' = FALSE /\ UNCHANGED <<written, Out>> /\ host = "gone"
    BY <1>5 DEF WriteFails, Out
  <2>6. writing' \in 0..nread
    BY <1>1, PlacesTyped DEF McpInv
  <2>2. McpTypeOK'
    BY <1>1, <2>1, <2>6 DEF McpInv, McpTypeOK
  <2>3. OnePlace'
    BY <1>1, <1>2, <2>1 DEF McpInv, OnePlace, Once
  <2>4. KindsOK' /\ NoneLost'
    BY <1>1, <1>2, <1>3, <2>1, PlacesTyped DEF McpInv, KindsOK, NoneLost
  <2>5. SentinelOK'
    BY <1>1, <1>2, <2>1 DEF McpInv, SentinelOK
  <2>. QED  BY <2>2, <2>3, <2>4, <2>5 DEF McpInv
<1>. QED  BY <1>4, <1>5

LEMMA McpStepInv == McpInv /\ [McpNext]_mcpVars => McpInv'
BY QuietInv, ReadInv, ExecutorEndsInv, TakeTaskInv, HandleInv, GetInv, WriteInv
DEF McpNext, MainStep, WriterStep, PromptStep, JobEnds

LEMMA McpInvAnswers == McpInv => McpTypeOK /\ AnsweredOnce
<1>. SUFFICES ASSUME McpInv PROVE McpTypeOK /\ AnsweredOnce
  OBVIOUS
<1>1. \A i, j \in DOMAIN written : written[i] = written[j] => i = j
  BY DEF McpInv, OnePlace, Once
<1>2. \A i \in DOMAIN written : Due(written[i])
  BY DEF McpInv, KindsOK, Out, ToSet
<1>3. ASSUME mainAt = "ended", host = "reads", NEW n \in 1..nread, Due(n) PROVE n \in ToSet(written)
  <2>1. ~writer /\ ~stop
    BY <1>3 DEF McpInv, McpTypeOK, SentinelOK
  <2>2. HandedOver = {} /\ InHand = {} /\ Responses = {} /\ InWriting = {}
    BY <1>3, <2>1 DEF McpInv, SentinelOK, InWriting
  <2>. QED  BY <1>3, <2>1, <2>2 DEF McpInv, NoneLost, Out
<1>. QED  BY <1>1, <1>2, <1>3 DEF McpInv, AnsweredOnce

LEMMA SubmitsOnly ==
  ASSUME NEW args
  PROVE  Submission(args).cmd = "submit" /\ {"job_id", "stream"} \cap DOMAIN Submission(args) = {}
<1>. DEFINE reserved == [cmd |-> "submit", backend |-> "given"]
            keys == (DOMAIN reserved \cup DOMAIN args.request) \ {"job_id", "stream"}
            told == [key \in keys |-> IF key \in DOMAIN reserved THEN reserved[key] ELSE args.request[key]]
<1>1. "cmd" \in keys /\ "cmd" \in DOMAIN reserved /\ reserved["cmd"] = "submit"
  OBVIOUS
<1>2. DOMAIN told = keys /\ told["cmd"] = "submit"
  BY <1>1
<1>3. Submission(args) = told
  BY DEF Submission
<1>. QED  BY <1>2, <1>3

LEMMA SaysOnly == OnlyWhatItSays
<1>. SUFFICES ASSUME NEW which \in Tool, NEW args \in Arguments
              PROVE  /\ Sent(which, args).cmd \in {"release", "zero", "preload"} => args.confirm
                     /\ which = "vramd_submit" =>
                          /\ Sent(which, args).cmd \in {"submit", "none"}
                          /\ {"job_id", "stream"} \cap DOMAIN Sent(which, args) = {}
  BY DEF OnlyWhatItSays
<1>0. DOMAIN Reads = {"vramd_status", "vramd_queue", "vramd_backends", "vramd_stats", "vramd_learn"}
  BY DEF Reads
<1>1. CASE which \in DOMAIN Reads
  <2>1. Sent(which, args) = [cmd |-> Reads[which]]
    BY <1>0, <1>1 DEF Sent
  <2>2. Reads[which] \in {"status", "queue", "list_backends", "stats", "learn"}
    BY <1>0, <1>1 DEF Reads
  <2>. QED  BY <1>0, <1>1, <2>1, <2>2
<1>2. CASE which = "vramd_submit"
  <2>1. Sent(which, args) = IF args.backend THEN Submission(args) ELSE Nothing
    BY <1>0, <1>2 DEF Sent
  <2>. QED  BY <1>2, <2>1, SubmitsOnly DEF Nothing
<1>3. CASE which = "vramd_wait"
  <2>1. Sent(which, args) = IF args.job THEN [cmd |-> "wait", job_id |-> "given"] ELSE Nothing
    BY <1>0, <1>3 DEF Sent
  <2>. QED  BY <1>3, <2>1 DEF Nothing
<1>4. CASE which = "vramd_cancel"
  <2>1. Sent(which, args) = CancelOf(args)
    BY <1>0, <1>4 DEF Sent
  <2>. QED  BY <1>4, <2>1 DEF CancelOf, Nothing
<1>5. CASE which \in {"vramd_preload", "vramd_evict", "vramd_zero"}
  <2>1. ~args.confirm => Sent(which, args) = Nothing
    BY <1>0, <1>5 DEF Sent
  <2>. QED  BY <1>5, <2>1 DEF Nothing
<1>6. CASE which = "vramd_doctor"
  <2>1. Sent(which, args) = Nothing
    BY <1>0, <1>6 DEF Sent
  <2>. QED  BY <1>6, <2>1 DEF Nothing
<1>. QED  BY <1>0, <1>1, <1>2, <1>3, <1>4, <1>5, <1>6 DEF Tool

\* However the lines of the host, the ends of jobs, a full pipe, a broken one and Ctrl+C fall
\* together: no line is answered twice, none that wants no answer is, a host that still reads
\* at the end has the answer to all that was read; and no tool asks for more than it was told.
THEOREM AgentIsHeardForAll == ConversationsSpec => []AgentIsHeard
<1>1. ConversationsInit => McpInv
  BY McpInitInv DEF ConversationsInit
<1>2. McpInv /\ [ConversationsNext]_vars => McpInv'
  <2>1. [ConversationsNext]_vars => [McpNext]_mcpVars
    BY DEF ConversationsNext, vars, ForWorker, ForClients, ForHooks, ForTool, ForAgent
  <2>. QED  BY <2>1, McpStepInv
<1>3. McpInv => AgentIsHeard
  BY McpInvAnswers, SaysOnly DEF AgentIsHeard
<1>. QED  BY <1>1, <1>2, <1>3, PTL DEF ConversationsSpec
=============================================================================
