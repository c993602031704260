-------------------------- MODULE DurabilityProofs --------------------------
(***************************************************************************)
(* Proofs about JobQueue with its log: no accepted job is lost over any    *)
(* number of crashes, and the queue implements JobLifecycle, if no         *)
(* compaction falls while a job runs and the replay has room.  Without     *)
(* any compaction the log also keeps the order of arrival.                 *)
(***************************************************************************)
EXTENDS JobQueueRefinement, JobQueueProofs

(***************************************************************************)
(* Which jobs stay in the log                                              *)
(***************************************************************************)

\* A compaction keeps the queued jobs.
LEMMA CompactedKeeps ==
  ASSUME NEW q \in Seq(Job), IsInjective(q)
  PROVE  ToSet(q) \subseteq Pending(Compacted(q))
<1> PICK w : w = Compacted(q)
  OBVIOUS
<1>1. /\ DOMAIN q = 1..Len(q) /\ Len(q) \in Nat
      /\ w = [i \in 1..Len(q) |-> Rec("enqueue", q[i])]
      /\ Len(w) = Len(q)
  BY LenProperties DEF Compacted
<1> SUFFICES ASSUME NEW j \in ToSet(q)
             PROVE  j \in Pending(w)
  OBVIOUS
<1>2. PICK i \in 1..Len(q) : q[i] = j
  BY <1>1 DEF ToSet
<1>3. w[i] = Rec("enqueue", j) /\ i \in DOMAIN w
  BY <1>1, <1>2
<1>4. IsPhase(w[i], j) /\ w[i].op # "finished"
  BY <1>3 DEF IsPhase, Rec
<1>5. ASSUME NEW k \in (i + 1)..Len(w)
      PROVE  ~IsPhase(w[k], j)
  <2>1. k \in 1..Len(q) /\ k # i
    BY <1>1
  <2>2. w[k].job = q[k]
    BY <1>1, <2>1 DEF Rec
  <2>3. q[k] # j
    BY <1>1, <1>2, <2>1 DEF IsInjective
  <2>4. QED
    BY <2>2, <2>3 DEF IsPhase
<1>6. j \in Job
  BY SeqRange
<1>7. QED
  BY <1>3, <1>4, <1>5, <1>6 DEF Pending

\* A record keeps every job pending but the one whose end it is, and that of
\* an enqueue makes its job pending.
LEMMA AppendedKeeps ==
  ASSUME NEW w \in Seq(WalRecord), NEW o \in WalOp, NEW j \in Job
  PROVE  /\ \A i \in Pending(w) : i # j \/ o # "finished" =>
              i \in Pending(Append(w, Rec(o, j)))
         /\ o = "enqueue" => j \in Pending(Append(w, Rec(o, j)))
<1> DEFINE rec == Rec(o, j)
           v == Append(w, rec)
           n == Len(w)
<1>1. rec \in WalRecord /\ rec.job = j /\ rec.op = o
  BY DEF Rec, WalRecord
<1> HIDE DEF rec
<1>2. /\ n \in Nat /\ DOMAIN w = 1..n /\ DOMAIN v = 1..(n + 1) /\ Len(v) = n + 1
      /\ \A k \in 1..n : v[k] = w[k]
      /\ v[n + 1] = rec
  BY <1>1, LenProperties
<1> HIDE DEF v, n
<1>a. n + 1 \in 1..(n + 1) /\ (n + 1 + 1)..(n + 1) = {}
  BY <1>2
<1>3. ASSUME NEW i \in Pending(w), i # j \/ o # "finished"
      PROVE  i \in Pending(v)
  <2>1. PICK a \in 1..n : w[a] = Rec("enqueue", i)
    BY <1>2 DEF Pending
  <2>2. a \in DOMAIN v /\ v[a] = Rec("enqueue", i)
    BY <1>2, <2>1
  <2>3. PICK k \in 1..n : /\ IsPhase(w[k], i) /\ w[k].op # "finished"
                          /\ \A l \in (k + 1)..n : ~IsPhase(w[l], i)
    BY <1>2 DEF Pending, n
  <2>4. i \in Job
    BY DEF Pending
  <2>5. CASE IsPhase(rec, i)
    <3>1. v[n + 1].op # "finished" /\ IsPhase(v[n + 1], i)
      BY <1>1, <1>2, <1>3, <2>5 DEF IsPhase
    <3>2. QED
      BY <1>2, <1>a, <2>2, <2>4, <3>1 DEF Pending
  <2>6. CASE ~IsPhase(rec, i)
    <3>1. IsPhase(v[k], i) /\ v[k].op # "finished" /\ k \in DOMAIN v
      BY <1>2, <2>3
    <3>2. ASSUME NEW l \in (k + 1)..(n + 1)
          PROVE  ~IsPhase(v[l], i)
      <4>1. CASE l = n + 1
        BY <1>2, <2>6, <4>1
      <4>2. CASE l # n + 1
        <5>1. l \in 1..n /\ l \in (k + 1)..n
          BY <1>2, <4>2
        <5>2. QED
          BY <1>2, <2>3, <5>1
      <4>3. QED
        BY <4>1, <4>2
    <3>3. QED
      BY <1>2, <2>2, <2>4, <3>1, <3>2 DEF Pending
  <2>7. QED
    BY <2>5, <2>6
<1>4. ASSUME o = "enqueue"
      PROVE  j \in Pending(v)
  <2>1. v[n + 1] = Rec("enqueue", j)
    BY <1>2, <1>4 DEF rec
  <2>2. IsPhase(v[n + 1], j) /\ v[n + 1].op # "finished"
    BY <2>1 DEF IsPhase, Rec
  <2>3. QED
    BY <1>2, <1>a, <2>1, <2>2 DEF Pending
<1>5. QED
  BY <1>3, <1>4 DEF v, rec

\* The same for _append_wal, which may compact: then only q counts.
LEMMA LoggedKeeps ==
  ASSUME WalEnabled, NEW q \in Seq(Job), IsInjective(q), NEW o \in WalOp,
         NEW j \in Job, Log(Rec(o, j), q), wal \in Seq(WalRecord), NEW i \in Job,
         \/ i \in Pending(wal) /\ (i # j \/ o # "finished")
         \/ i = j /\ o = "enqueue",
         walOps + 1 >= CompactOps => i \in ToSet(q) \/ i \in Pending(wal')
  PROVE  i \in Pending(wal')
<1>1. CASE walOps + 1 >= CompactOps
  <2>1. wal' = Compacted(q)
    BY <1>1 DEF Log
  <2>2. QED
    BY <1>1, <2>1, CompactedKeeps
<1>2. CASE ~(walOps + 1 >= CompactOps)
  <2>1. wal' = Append(wal, Rec(o, j))
    BY <1>2 DEF Log
  <2>2. QED
    BY <2>1, AppendedKeeps
<1>3. QED
  BY <1>1, <1>2

\* A replay with room for all that is pending leaves nothing out.
LEMMA ReplayFindsAll ==
  ASSUME NEW n \in Nat, NEW q \in [1..n -> Job], IsReplay(wal, q),
         wal \in Seq(WalRecord), Cardinality(Pending(wal)) <= MaxDepth
  PROVE  Pending(wal) \subseteq ToSet(q)
<1> USE BoundAssumption
<1> SUFFICES ASSUME NEW j \in Pending(wal), j \notin ToSet(q)
             PROVE  FALSE
  OBVIOUS
<1> DEFINE P == Pending(wal)
<1>1. q \in Seq(Job) /\ IsInjective(q) /\ ToSet(q) \subseteq P
  BY ReplayProperties
<1>2. Len(q) = MaxDepth /\ Len(q) = n
  BY DEF IsReplay
<1>3. IsFiniteSet(P)
  BY JobAssumption, FS_Subset DEF Pending
<1> HIDE DEF P
<1>4. \A i \in 1..n : q[i] \in P \ {j}
  <2>1. ToSet(q) \subseteq P \ {j}
    BY <1>1
  <2>2. QED
    BY <2>1 DEF ToSet
<1>5. q \in Injection(1..n, P \ {j})
  BY <1>1, <1>4 DEF Injection
<1>6. IsFiniteSet(P \ {j}) /\ Cardinality(P \ {j}) = Cardinality(P) - 1
  BY <1>3, FS_RemoveElement DEF P
<1>7. Cardinality(1..n) <= Cardinality(P \ {j}) /\ IsFiniteSet(1..n)
  BY <1>5, <1>6, FS_Injection
<1>8. Cardinality(1..n) = n
  <2>1. Cardinality(1..n) = IF 1 > n THEN 0 ELSE n - 1 + 1
    BY FS_Interval
  <2>2. QED
    BY <2>1
<1>9. Cardinality(P) \in Nat /\ Cardinality(P) <= MaxDepth
  BY <1>3, FS_CardinalityType DEF P
<1>10. QED
  BY <1>2, <1>6, <1>7, <1>8, <1>9

(***************************************************************************)
(* The queued and the running jobs in a step                               *)
(***************************************************************************)

\* The job that ends leaves both sets; the purge leaves all others where they
\* are.
LEMMA EndMovesOne ==
  ASSUME QueueInv, NEW j \in Job, NEW o \in Terminal, state[j] \in Live,
         Purge([state EXCEPT ![j] = o], Append(finished, j))
  PROVE  /\ state'[j] \notin Live
         /\ \A i \in Job : i # j => /\ state'[i] = "queued" <=> state[i] = "queued"
                                    /\ state'[i] = "running" <=> state[i] = "running"
<1> USE DEF Live, Terminal
<1> DEFINE st == [state EXCEPT ![j] = o]
           fin == Append(finished, j)
<1>1. /\ state \in [Job -> {"none"} \cup Live \cup Terminal] /\ finished \in Seq(Job)
      /\ \A i \in ToSet(finished) : state[i] \notin Live
  BY DEF QueueInv, TypeOK, FinishedIsOver
<1>2. /\ fin \in Seq(Job) /\ ToSet(fin) = ToSet(finished) \cup {j}
      /\ ToSet(finished) \subseteq Job
  BY <1>1, PushBackProperties, SeqRange
<1>3. /\ st \in [Job -> {"none"} \cup Live \cup Terminal]
      /\ \A i \in Job : st[i] = IF i = j THEN o ELSE state[i]
      /\ Purge(st, fin)
  BY <1>1
<1> HIDE DEF st, fin
<1>4. \A i \in ToSet(fin) : st[i] \notin Live
  BY <1>1, <1>2, <1>3
<1>5. \A i \in Job : /\ state'[i] = "queued" <=> st[i] = "queued"
                     /\ state'[i] = "running" <=> st[i] = "running"
  BY <1>2, <1>3, <1>4, PurgeKeepsLive
<1>6. QED
  BY <1>3, <1>5

\* The purge at the end of cancel_all() leaves every job where it is.
LEMMA PurgeMovesNone ==
  ASSUME QueueInv, Purge(state, finished)
  PROVE  \A i \in Job : /\ state'[i] = "queued" <=> state[i] = "queued"
                        /\ state'[i] = "running" <=> state[i] = "running"
<1>1. /\ state \in [Job -> {"none"} \cup Live \cup Terminal] /\ finished \in Seq(Job)
      /\ \A i \in ToSet(finished) : state[i] \notin Live
  BY DEF QueueInv, TypeOK, FinishedIsOver
<1>2. QED
  BY <1>1, PurgeKeepsLive

\* cancel_all() cancels a queued job.
LEMMA FlushedIsQueued ==
  ASSUME QueueInv, queued # <<>>
  PROVE  Head(queued) \in Job /\ state[Head(queued)] = "queued"
<1>1. /\ queued \in Seq(Job) /\ IsInjective(queued)
      /\ ToSet(queued) = {i \in Job : state[i] = "queued"}
  BY DEF QueueInv, TypeOK, QueueConsistent
<1>2. QED
  BY <1>1, TailProperties

(***************************************************************************)
(* No accepted job is lost                                                 *)
(***************************************************************************)

\* A step that appends one record: a job whose end is not logged was in the
\* log and still is, unless the record is its enqueue.
LEMMA RecordLosesNone ==
  ASSUME WalEnabled, QueueInv, QueueInv', NothingAcceptedIsLost, QuietCompaction,
         up, up', NEW j \in Job, NEW o \in WalOp, Log(Rec(o, j), queued'),
         \A i \in accepted' : settled'[i] = "none" =>
           /\ state'[i] \in Live
           /\ \/ i \in accepted /\ settled[i] = "none" /\ (i # j \/ o # "finished")
              \/ i = j /\ o = "enqueue" /\ state'[i] = "queued"
  PROVE  NothingAcceptedIsLost'
<1> SUFFICES ASSUME NEW i \in accepted', settled'[i] = "none"
             PROVE  i \in Pending(wal') /\ state'[i] \in Live
  BY DEF NothingAcceptedIsLost
<1>1. /\ wal \in Seq(WalRecord) /\ queued' \in Seq(Job) /\ accepted' \subseteq Job
      /\ ToSet(queued') = {k \in Job : state'[k] = "queued"}
      /\ running' = {k \in Job : state'[k] = "running"}
      /\ IsInjective(queued')
  BY DEF QueueInv, TypeOK, QueueConsistent, WalRecord
<1>2. /\ i \in Job /\ state'[i] \in Live
      /\ \/ i \in Pending(wal) /\ (i # j \/ o # "finished")
         \/ i = j /\ o = "enqueue"
      /\ i \in Pending(wal) \/ i \in ToSet(queued')
  BY <1>1 DEF NothingAcceptedIsLost
<1>3. walOps + 1 >= CompactOps => i \in ToSet(queued') \/ i \in Pending(wal')
  <2>1. CASE disk' = disk
    BY <1>2, <2>1 DEF disk
  <2>2. CASE walOps + 1 >= CompactOps /\ disk' # disk
    BY <1>1, <1>2, <2>2 DEF QuietCompaction, Live
  <2>3. QED
    BY <2>1, <2>2
<1> PICK q : q = queued'
  OBVIOUS
<1>4. /\ q \in Seq(Job) /\ IsInjective(q) /\ Log(Rec(o, j), q)
      /\ walOps + 1 >= CompactOps => i \in ToSet(q) \/ i \in Pending(wal')
  BY <1>1, <1>3
<1>5. i \in Pending(wal')
  BY <1>1, <1>2, <1>4, LoggedKeeps
<1>6. QED
  BY <1>2, <1>5

\* No step of QuietNext loses an accepted job.
LEMMA QuietStepLosesNone ==
  ASSUME WalEnabled, QueueInv, QueueInv', EndInv, NothingAcceptedIsLost,
         [QuietNext]_queueVars
  PROVE  NothingAcceptedIsLost'
<1> USE DEF Live, Terminal, WalOp
<1>a. /\ state \in [Job -> {"none"} \cup Live \cup Terminal]
      /\ settled \in [Job -> {"none"} \cup Terminal] /\ accepted \subseteq Job
      /\ ToSet(queued) = {j \in Job : state[j] = "queued"}
      /\ accepted' \subseteq Job
  BY DEF QueueInv, TypeOK, QueueConsistent
<1>b. \A i \in accepted : settled[i] = "none" => i \in Pending(wal)
      /\ (up => state[i] \in Live)
  BY DEF NothingAcceptedIsLost
<1>1. ASSUME UNCHANGED <<wal, accepted, settled>>,
             up' => up /\ \A i \in Job : state[i] \in Live => state'[i] \in Live
      PROVE  NothingAcceptedIsLost'
  BY <1>a, <1>b, <1>1 DEF NothingAcceptedIsLost
<1>2. CASE UNCHANGED queueVars
  BY <1>1, <1>2 DEF queueVars, memory, disk, history
<1>3. CASE QuietNext
  <2>a. QueueNext /\ QuietCompaction /\ RoomToReplay
    BY <1>3 DEF QuietNext
  <2>1. ASSUME NEW j \in Job, Enqueue(j) PROVE NothingAcceptedIsLost'
    <3>1. /\ up /\ up' /\ accepted' = accepted \cup {j} /\ settled' = settled
          /\ queued' = Append(queued, j)
          /\ Log(Rec("enqueue", j), Append(queued, j))
          /\ state' = [state EXCEPT ![j] = "queued"] /\ j \notin accepted
      BY <2>1 DEF Enqueue, LockFree
    <3>2. Log(Rec("enqueue", j), queued')
      BY <3>1
    <3>3. \A i \in accepted' : settled'[i] = "none" =>
            /\ state'[i] \in Live
            /\ \/ i \in accepted /\ settled[i] = "none" /\ (i # j \/ "enqueue" # "finished")
               \/ i = j /\ "enqueue" = "enqueue" /\ state'[i] = "queued"
      BY <1>a, <1>b, <3>1
    <3>4. QED
      BY <2>a, <3>1, <3>2, <3>3, RecordLosesNone
  <2>2. ASSUME NEW j \in Job, Take(j) PROVE NothingAcceptedIsLost'
    <3>1. /\ up /\ up' /\ accepted' = accepted /\ settled' = settled
          /\ queued' = Without(queued, j) /\ Log(Rec("started", j), Without(queued, j))
          /\ state' = [state EXCEPT ![j] = "running"]
      BY <2>2 DEF Take, LockFree, history
    <3>2. Log(Rec("started", j), queued')
      BY <3>1
    <3>3. \A i \in accepted' : settled'[i] = "none" =>
            /\ state'[i] \in Live
            /\ i \in accepted /\ settled[i] = "none"
      BY <1>a, <1>b, <3>1
    <3>4. QED
      BY <2>a, <3>1, <3>2, <3>3, RecordLosesNone
  <2>3. ASSUME NEW j \in Job, Requeue(j) PROVE NothingAcceptedIsLost'
    <3>1. /\ up /\ up' /\ accepted' = accepted /\ settled' = settled
          /\ queued' = <<j>> \o queued /\ Log(Rec("requeue", j), <<j>> \o queued)
          /\ state' = [state EXCEPT ![j] = "queued"]
      BY <2>3 DEF Requeue, LockFree, history
    <3>2. Log(Rec("requeue", j), queued')
      BY <3>1
    <3>3. \A i \in accepted' : settled'[i] = "none" =>
            /\ state'[i] \in Live
            /\ i \in accepted /\ settled[i] = "none"
      BY <1>a, <1>b, <3>1
    <3>4. QED
      BY <2>a, <3>1, <3>2, <3>3, RecordLosesNone
  <2>4. ASSUME NEW j \in Job, NEW o \in Terminal, up, up', accepted' = accepted,
               settled' = [settled EXCEPT ![j] = o],
               Log(Rec("finished", j), queued'),
               \A i \in Job : i # j =>
                 /\ state'[i] = "queued" <=> state[i] = "queued"
                 /\ state'[i] = "running" <=> state[i] = "running"
        PROVE  NothingAcceptedIsLost'
    <3>1. \A i \in accepted' : settled'[i] = "none" =>
            /\ state'[i] \in Live
            /\ i \in accepted /\ settled[i] = "none" /\ i # j
      BY <1>a, <1>b, <2>4
    <3>2. QED
      BY <2>a, <2>4, <3>1, RecordLosesNone
  <2>5. ASSUME NEW j \in Job, NEW r \in {"ok", "error", "cancelError"},
               Finish(j, r)
        PROVE  NothingAcceptedIsLost'
    <3> DEFINE o == Outcome(r, cancelRequested[j])
    <3>1. o \in Terminal
      BY DEF Outcome
    <3>2. /\ up /\ up' /\ accepted' = accepted /\ state[j] = "running"
          /\ settled' = [settled EXCEPT ![j] = o]
          /\ Log(Rec("finished", j), queued) /\ queued' = queued
          /\ Purge([state EXCEPT ![j] = o], Append(finished, j))
      BY <2>5 DEF Finish, LockFree
    <3> HIDE DEF o
    <3>3. Log(Rec("finished", j), queued') /\ state[j] \in Live
      BY <3>2
    <3>4. \A i \in Job : i # j =>
                 /\ state'[i] = "queued" <=> state[i] = "queued"
                 /\ state'[i] = "running" <=> state[i] = "running"
      BY <3>1, <3>2, <3>3, EndMovesOne
    <3>5. QED
      BY <2>4, <3>1, <3>2, <3>3, <3>4
  <2>6. ASSUME NEW j \in Job, CancelQueued(j) PROVE NothingAcceptedIsLost'
    <3>1. /\ up /\ up' /\ accepted' = accepted /\ state[j] = "queued"
          /\ settled' = [settled EXCEPT ![j] = "cancelled"]
          /\ queued' = Without(queued, j)
          /\ Log(Rec("finished", j), Without(queued, j))
          /\ Purge([state EXCEPT ![j] = "cancelled"], Append(finished, j))
      BY <2>6 DEF CancelQueued, LockFree, CancelsAtOnce
    <3>2. Log(Rec("finished", j), queued') /\ state[j] \in Live
      BY <3>1
    <3>3. \A i \in Job : i # j =>
                 /\ state'[i] = "queued" <=> state[i] = "queued"
                 /\ state'[i] = "running" <=> state[i] = "running"
      BY <3>1, <3>2, EndMovesOne
    <3>4. QED
      BY <2>4, <3>1, <3>2, <3>3
  <2>7. ASSUME CancelAllStep PROVE NothingAcceptedIsLost'
    <3> DEFINE j == Head(queued)
    <3>1. /\ up /\ up' /\ accepted' = accepted /\ queued # <<>>
          /\ settled' = [settled EXCEPT ![j] = "cancelled"]
          /\ state' = [state EXCEPT ![j] = "cancelled"]
          /\ queued' = Tail(queued)
          /\ Log(Rec("finished", j), Tail(queued))
      BY <2>7 DEF CancelAllStep
    <3>2. j \in Job /\ state[j] = "queued"
      BY <3>1, FlushedIsQueued
    <3> HIDE DEF j
    <3>3. Log(Rec("finished", j), queued')
      BY <3>1
    <3>4. QED
      BY <1>a, <2>4, <3>1, <3>2, <3>3
  <2>8. ASSUME CancelAllEnd PROVE NothingAcceptedIsLost'
    <3>1. /\ up /\ UNCHANGED <<wal, accepted, settled>> /\ Purge(state, finished)
      BY <2>8 DEF CancelAllEnd, disk, history
    <3>2. QED
      BY <1>1, <3>1, PurgeMovesNone
  <2>9. ASSUME Crash PROVE NothingAcceptedIsLost'
    BY <1>1, <2>9 DEF Crash
  <2>10. ASSUME Restart PROVE NothingAcceptedIsLost'
    <3>1. /\ ~up /\ UNCHANGED <<accepted, settled>>
          /\ \E n \in 0..MaxDepth : \E q \in [1..n -> Job] :
               /\ IsReplay(wal, q)
               /\ state' = [j \in Job |-> IF j \in ToSet(q) THEN "queued" ELSE "none"]
               /\ wal' = IF WalEnabled THEN Compacted(q) ELSE wal
      BY <2>10 DEF Restart, history
    <3>2. PICK n \in 0..MaxDepth : \E q \in [1..n -> Job] :
               /\ IsReplay(wal, q)
               /\ state' = [j \in Job |-> IF j \in ToSet(q) THEN "queued" ELSE "none"]
               /\ wal' = IF WalEnabled THEN Compacted(q) ELSE wal
      BY <3>1
    <3>3. PICK q \in [1..n -> Job] :
               /\ IsReplay(wal, q)
               /\ state' = [j \in Job |-> IF j \in ToSet(q) THEN "queued" ELSE "none"]
               /\ wal' = IF WalEnabled THEN Compacted(q) ELSE wal
      BY <3>2
    <3>4. n \in Nat /\ wal \in Seq(WalRecord)
      BY DEF QueueInv, TypeOK, WalRecord
    <3>5. Cardinality(Pending(wal)) <= MaxDepth
      BY <2>a, <3>1 DEF RoomToReplay
    <3>6. Pending(wal) \subseteq ToSet(q)
      BY <3>3, <3>4, <3>5, ReplayFindsAll
    <3>7. q \in Seq(Job) /\ IsInjective(q)
      BY <3>3, <3>4, ReplayProperties
    <3>8. ToSet(q) \subseteq Pending(wal')
      BY <3>3, <3>7, CompactedKeeps
    <3>9. QED
      BY <1>a, <1>b, <3>1, <3>3, <3>6, <3>8 DEF NothingAcceptedIsLost
  <2>11. ASSUME NEW j \in Job, Notify(j) \/ CancelRunning(j)
         PROVE  NothingAcceptedIsLost'
    BY <1>1, <2>11 DEF Notify, CancelRunning, LockFree, disk, history
  <2>12. ASSUME NEW b \in BOOLEAN, CancelAllBegin(b) PROVE NothingAcceptedIsLost'
    BY <1>1, <2>12 DEF CancelAllBegin, LockFree, disk, history
  <2>13. ASSUME NEW j \in Job, RequeueVram(j) \/ RequeueWorker(j)
         PROVE  NothingAcceptedIsLost'
    BY <2>3, <2>13 DEF RequeueVram, RequeueWorker
  <2>14. QED
    BY <2>a, <2>1, <2>2, <2>5, <2>6, <2>7, <2>8, <2>9, <2>10, <2>11, <2>12,
       <2>13 DEF QueueNext
<1>4. QED
  BY <1>2, <1>3

\* A quiet queue is a queue.
LEMMA QuietIsQueue == QuietSpec => QueueSpec
<1>1. [QuietNext]_queueVars => [QueueNext]_queueVars
  BY DEF QuietNext
<1>2. QED
  BY <1>1, PTL DEF QuietSpec, QueueSpec

\* With a log, no accepted job is lost over any number of crashes, compactions
\* and replays, for any jobs and bounds, as long as no append compacts the log
\* while a job runs and every replay has room for what is pending.
THEOREM NothingIsLostWhenQuiet ==
  ASSUME WalEnabled
  PROVE  QuietSpec => []NothingAcceptedIsLost
<1>1. QueueInit => NothingAcceptedIsLost
  BY DEF QueueInit, NothingAcceptedIsLost
<1>2. QueueInv /\ QueueInv' /\ EndInv /\ NothingAcceptedIsLost
      /\ [QuietNext]_queueVars => NothingAcceptedIsLost'
  BY QuietStepLosesNone
<1>3. QED
  BY <1>1, <1>2, QuietIsQueue, QueueInvariant, EndInvariant, PTL DEF QuietSpec

(***************************************************************************)
(* The queue implements the lifecycle of a request                         *)
(***************************************************************************)

\* The phase of a request as long as none is "lost".
KeptPhase(j) ==
  IF settled[j] # "none" THEN settled[j]
  ELSE IF j \notin accepted THEN "new"
  ELSE IF state[j] = "running" THEN "active" ELSE "waiting"

\* None is, before and after the step.
LEMMA NoneIsLost ==
  ASSUME QueueInv, NothingAcceptedIsLost
  PROVE  Phases = [j \in Job |-> KeptPhase(j)]
<1>1. ASSUME NEW j \in Job PROVE PhaseOf(j) = KeptPhase(j)
  BY DEF PhaseOf, KeptPhase, QueueInv, DownIsEmpty, NothingAcceptedIsLost, Live
<1>2. QED
  BY <1>1 DEF Phases

LEMMA NoneIsLostNext ==
  ASSUME QueueInv', NothingAcceptedIsLost'
  PROVE  Phases' = [j \in Job |-> KeptPhase(j)']
<1>1. ASSUME NEW j \in Job PROVE PhaseOf(j)' = KeptPhase(j)'
  BY DEF PhaseOf, KeptPhase, QueueInv, DownIsEmpty, NothingAcceptedIsLost, Live
<1>2. QED
  BY <1>1 DEF Phases

\* Every step of QuietNext is a step of the lifecycle or changes nothing there.
LEMMA QuietStepIsLifeStep ==
  ASSUME WalEnabled, QueueInv, QueueInv', EndInv, EndInv', NothingAcceptedIsLost,
         NothingAcceptedIsLost', [QuietNext]_queueVars
  PROVE  [Life!LifeNext]_<<Phases, Cancelled>>
<1> USE DEF Live, Terminal
<1>a. /\ state \in [Job -> {"none"} \cup Live \cup Terminal]
      /\ settled \in [Job -> {"none"} \cup Terminal] /\ accepted \subseteq Job
      /\ cancelRequested \in [Job -> BOOLEAN]
      /\ cancelRequested' \in [Job -> BOOLEAN]
      /\ running = {j \in Job : state[j] = "running"}
      /\ inflight = Cardinality(running)
      /\ ToSet(queued) = {j \in Job : state[j] = "queued"}
  BY DEF QueueInv, TypeOK, QueueConsistent
<1>b. \A j \in Job : /\ state[j] \in Live => settled[j] = "none" /\ j \in accepted
                     /\ settled[j] # "none" => j \in accepted
  BY DEF QueueInv, OnlyAccepted, EndInv, NoResurrection
<1>c. /\ Phases = [j \in Job |-> KeptPhase(j)]
      /\ Phases' = [j \in Job |-> KeptPhase(j)']
  BY NoneIsLost, NoneIsLostNext
<1>d. /\ \A j \in Job : state[j] = "running" <=> Phases[j] = "active"
      /\ \A j \in Job : state[j] = "queued" => Phases[j] = "waiting"
  BY <1>a, <1>b, <1>c DEF KeptPhase
<1>e. Life!Active = running
  BY <1>a, <1>d DEF Life!Active
<1> DEFINE Kept(i) == KeptPhase(i)' = KeptPhase(i)
<1>1. ASSUME NEW j \in Job, NEW v, \A i \in Job : i # j => Kept(i),
             KeptPhase(j)' = v
      PROVE  Phases' = [Phases EXCEPT ![j] = v]
  BY <1>c, <1>1
<1>2. ASSUME \A i \in Job : Kept(i)
      PROVE  Phases' = Phases
  BY <1>c, <1>2
<1>3. ASSUME UNCHANGED cancelRequested
      PROVE  Cancelled' = Cancelled
  BY <1>3 DEF Cancelled
<1>4. ASSUME NEW j \in Job, cancelRequested' = [cancelRequested EXCEPT ![j] = TRUE]
      PROVE  Cancelled' = Cancelled \cup {j}
  BY <1>a, <1>4 DEF Cancelled
<1>5. CASE UNCHANGED queueVars
  <2>1. UNCHANGED <<state, accepted, settled, cancelRequested>>
    BY <1>5 DEF queueVars, memory, history
  <2>2. \A i \in Job : Kept(i)
    BY <2>1 DEF KeptPhase
  <2>3. QED
    BY <1>2, <1>3, <2>1, <2>2
<1>6. CASE QuietNext
  <2>1. ASSUME NEW j \in Job, Enqueue(j) PROVE Life!LifeNext
    <3>1. /\ accepted' = accepted \cup {j} /\ j \notin accepted
          /\ state' = [state EXCEPT ![j] = "queued"]
          /\ UNCHANGED <<settled, cancelRequested>>
      BY <2>1 DEF Enqueue
    <3>2. settled[j] = "none"
      BY <1>b, <3>1
    <3>3. KeptPhase(j) = "new" /\ KeptPhase(j)' = "waiting"
      BY <1>a, <3>1, <3>2 DEF KeptPhase
    <3>4. \A i \in Job : i # j => Kept(i)
      BY <1>a, <3>1 DEF KeptPhase
    <3>5. Life!Accept(j)
      BY <1>c, <1>1, <1>3, <3>1, <3>3, <3>4 DEF Life!Accept
    <3>6. QED
      BY <3>5 DEF Life!LifeNext
  <2>2. ASSUME NEW j \in Job, Take(j) PROVE Life!LifeNext
    <3>1. /\ inflight < MaxInflight /\ j \in ToSet(queued)
          /\ state' = [state EXCEPT ![j] = "running"]
          /\ UNCHANGED <<accepted, settled, cancelRequested>>
      BY <2>2 DEF Take, HasSlot, StillQueued, history
    <3>2. state[j] = "queued" /\ settled[j] = "none" /\ j \in accepted
      BY <1>a, <1>b, <3>1
    <3>3. KeptPhase(j)' = "active"
      BY <1>a, <3>1, <3>2 DEF KeptPhase
    <3>4. \A i \in Job : i # j => Kept(i)
      BY <1>a, <3>1 DEF KeptPhase
    <3>5. Phases' = [Phases EXCEPT ![j] = "active"]
      BY <1>1, <3>3, <3>4
    <3>a. Life!Cardinality(Life!Active) = Cardinality(Life!Active)
      BY DEF Life!Cardinality, Cardinality
    <3>6. Life!Cardinality(Life!Active) < MaxInflight
      BY <1>a, <1>e, <3>1, <3>a
    <3>7. Life!Start(j)
      BY <1>d, <1>3, <3>1, <3>2, <3>5, <3>6 DEF Life!Start
    <3>8. QED
      BY <3>7 DEF Life!LifeNext
  <2>3. ASSUME NEW j \in Job, Requeue(j) PROVE Life!LifeNext
    <3>1. /\ state[j] = "running" /\ ~cancelRequested[j]
          /\ state' = [state EXCEPT ![j] = "queued"]
          /\ UNCHANGED <<accepted, settled, cancelRequested>>
      BY <2>3 DEF Requeue, MayRequeue, history
    <3>2. KeptPhase(j)' = "waiting"
      BY <1>a, <1>b, <3>1 DEF KeptPhase
    <3>3. \A i \in Job : i # j => Kept(i)
      BY <1>a, <3>1 DEF KeptPhase
    <3>4. j \notin Cancelled
      BY <3>1 DEF Cancelled
    <3>5. Life!Retry(j)
      BY <1>d, <1>1, <1>3, <3>1, <3>2, <3>3, <3>4 DEF Life!Retry
    <3>6. QED
      BY <3>5 DEF Life!LifeNext
  <2>4. ASSUME NEW j \in Job, NEW o \in Terminal, state[j] \in Live,
               accepted' = accepted, settled' = [settled EXCEPT ![j] = o],
               \A i \in Job : i # j =>
                 /\ state'[i] = "queued" <=> state[i] = "queued"
                 /\ state'[i] = "running" <=> state[i] = "running"
        PROVE  Phases' = [Phases EXCEPT ![j] = o]
    <3>1. KeptPhase(j)' = o
      BY <1>a, <2>4 DEF KeptPhase
    <3>2. \A i \in Job : i # j => Kept(i)
      BY <1>a, <2>4 DEF KeptPhase
    <3>3. QED
      BY <1>1, <3>1, <3>2
  <2>5. ASSUME NEW j \in Job, NEW r \in {"ok", "error", "cancelError"},
               Finish(j, r)
        PROVE  Life!LifeNext
    <3> DEFINE o == Outcome(r, cancelRequested[j])
    <3>1. o \in Terminal /\ (cancelRequested[j] => o = "cancelled")
      BY DEF Outcome
    <3>2. /\ accepted' = accepted /\ state[j] = "running"
          /\ settled' = [settled EXCEPT ![j] = o] /\ UNCHANGED cancelRequested
          /\ Purge([state EXCEPT ![j] = o], Append(finished, j))
      BY <2>5 DEF Finish
    <3> HIDE DEF o
    <3>3. \A i \in Job : i # j =>
                 /\ state'[i] = "queued" <=> state[i] = "queued"
                 /\ state'[i] = "running" <=> state[i] = "running"
      BY <3>1, <3>2, EndMovesOne
    <3>4. Phases' = [Phases EXCEPT ![j] = o]
      BY <2>4, <3>1, <3>2, <3>3
    <3>5. Life!Complete(j, o)
      BY <1>d, <1>3, <3>1, <3>2, <3>4 DEF Life!Complete, Cancelled
    <3>6. o \in Life!Outcomes
      BY <3>1 DEF Life!Outcomes
    <3>7. QED
      BY <3>5, <3>6 DEF Life!LifeNext
  <2>6. ASSUME NEW j \in Job, CancelQueued(j) PROVE Life!LifeNext
    <3>1. /\ accepted' = accepted /\ state[j] = "queued"
          /\ settled' = [settled EXCEPT ![j] = "cancelled"]
          /\ cancelRequested' = [cancelRequested EXCEPT ![j] = TRUE]
          /\ Purge([state EXCEPT ![j] = "cancelled"], Append(finished, j))
      BY <2>6 DEF CancelQueued, CancelsAtOnce
    <3>2. \A i \in Job : i # j =>
                 /\ state'[i] = "queued" <=> state[i] = "queued"
                 /\ state'[i] = "running" <=> state[i] = "running"
      BY <3>1, EndMovesOne
    <3>3. Phases' = [Phases EXCEPT ![j] = "cancelled"]
      BY <2>4, <3>1, <3>2
    <3>4. Life!CancelWaiting(j)
      BY <1>d, <1>4, <3>1, <3>3 DEF Life!CancelWaiting
    <3>5. QED
      BY <3>4 DEF Life!LifeNext
  <2>7. ASSUME CancelAllStep PROVE Life!LifeNext
    <3> DEFINE j == Head(queued)
    <3>1. /\ accepted' = accepted /\ queued # <<>>
          /\ settled' = [settled EXCEPT ![j] = "cancelled"]
          /\ state' = [state EXCEPT ![j] = "cancelled"]
          /\ cancelRequested' = [cancelRequested EXCEPT ![j] = TRUE]
      BY <2>7 DEF CancelAllStep
    <3>2. j \in Job /\ state[j] = "queued"
      BY <3>1, FlushedIsQueued
    <3> HIDE DEF j
    <3>3. Phases' = [Phases EXCEPT ![j] = "cancelled"]
      BY <1>a, <2>4, <3>1, <3>2
    <3>4. Life!CancelWaiting(j)
      BY <1>d, <1>4, <3>1, <3>2, <3>3 DEF Life!CancelWaiting
    <3>5. QED
      BY <3>2, <3>4 DEF Life!LifeNext
  <2>8. ASSUME NEW j \in Job, CancelRunning(j) PROVE Life!LifeNext
    <3>1. /\ state[j] = "running" /\ UNCHANGED <<state, accepted, settled>>
          /\ cancelRequested' = [cancelRequested EXCEPT ![j] = TRUE]
      BY <2>8 DEF CancelRunning, history
    <3>2. \A i \in Job : Kept(i)
      BY <3>1 DEF KeptPhase
    <3>3. Life!CancelActive({j})
      BY <1>a, <1>e, <1>2, <1>4, <3>1, <3>2 DEF Life!CancelActive
    <3>4. QED
      BY <3>3 DEF Life!LifeNext
  <2>9. ASSUME CancelAllEnd PROVE Life!LifeNext
    <3> DEFINE S == {j \in running : flush.running}
    <3>1. /\ UNCHANGED <<accepted, settled>> /\ Purge(state, finished)
          /\ cancelRequested' = [j \in Job |-> cancelRequested[j]
                                       \/ (flush.running /\ j \in running)]
      BY <2>9 DEF CancelAllEnd, history
    <3>2. \A i \in Job : /\ state'[i] = "queued" <=> state[i] = "queued"
                         /\ state'[i] = "running" <=> state[i] = "running"
      BY <3>1, PurgeMovesNone
    <3>3. \A i \in Job : Kept(i)
      BY <3>1, <3>2 DEF KeptPhase
    <3>4. Cancelled' = Cancelled \cup S /\ S \subseteq running /\ S \subseteq Job
      BY <1>a, <3>1 DEF Cancelled
    <3>5. Life!CancelActive(S)
      BY <1>e, <1>2, <3>3, <3>4 DEF Life!CancelActive
    <3>6. QED
      BY <3>4, <3>5 DEF Life!LifeNext
  <2>10. ASSUME Crash PROVE Life!LifeNext
    <3>1. /\ state' = [j \in Job |-> "none"] /\ UNCHANGED <<accepted, settled>>
          /\ cancelRequested' = [j \in Job |-> FALSE]
      BY <2>10 DEF Crash
    <3>2. \A j \in Job : KeptPhase(j)' = IF KeptPhase(j) = "active" THEN "waiting"
                                                                  ELSE KeptPhase(j)
      BY <1>a, <3>1 DEF KeptPhase
    <3>3. Phases' = [j \in Job |-> IF Phases[j] = "active" THEN "waiting"
                                                           ELSE Phases[j]]
      BY <1>c, <3>2
    <3>4. Cancelled' = {}
      BY <3>1 DEF Cancelled
    <3>5. QED
      BY <3>3, <3>4 DEF Life!LifeNext, Life!Interrupt
  <2>11. ASSUME Restart PROVE UNCHANGED <<Phases, Cancelled>>
    <3>1. /\ ~up /\ UNCHANGED <<accepted, settled, cancelRequested>>
          /\ \A j \in Job : state'[j] # "running"
      BY <2>11 DEF Restart, history
    <3>2. \A j \in Job : state[j] # "running"
      BY <3>1 DEF QueueInv, DownIsEmpty
    <3>3. \A i \in Job : Kept(i)
      BY <3>1, <3>2 DEF KeptPhase
    <3>4. QED
      BY <1>2, <1>3, <3>1, <3>3
  <2>12. ASSUME UNCHANGED <<state, accepted, settled, cancelRequested>>
         PROVE  UNCHANGED <<Phases, Cancelled>>
    <3>1. \A i \in Job : Kept(i)
      BY <2>12 DEF KeptPhase
    <3>2. QED
      BY <1>2, <1>3, <2>12, <3>1
  <2>13. ASSUME NEW j \in Job, Notify(j) PROVE UNCHANGED <<Phases, Cancelled>>
    BY <2>12, <2>13 DEF Notify
  <2>14. ASSUME NEW b \in BOOLEAN, CancelAllBegin(b)
         PROVE  UNCHANGED <<Phases, Cancelled>>
    BY <2>12, <2>14 DEF CancelAllBegin, history
  <2>15. ASSUME NEW j \in Job, RequeueVram(j) \/ RequeueWorker(j)
         PROVE  Life!LifeNext
    BY <2>3, <2>15 DEF RequeueVram, RequeueWorker
  <2>16. QueueNext
    BY <1>6 DEF QuietNext
  <2>17. QED
    BY <2>1, <2>2, <2>5, <2>6, <2>7, <2>8, <2>9, <2>10, <2>11, <2>13, <2>14,
       <2>15, <2>16 DEF QueueNext
<1>7. QED
  BY <1>5, <1>6

\* Under the same conditions the queue, with its threads' interleavings, its
\* crashes and its replays, is the lifecycle it promises its clients: one
\* outcome per request, no retry after an acknowledged cancel, what a crash
\* interrupts waits again, and no more active requests than there are slots.
THEOREM QueueImplementsLifecycle ==
  ASSUME WalEnabled
  PROVE  QuietSpec => ImplementsLifecycle
<1>1. QueueInit => Life!LifeInit
  <2> SUFFICES ASSUME QueueInit PROVE Life!LifeInit
    OBVIOUS
  <2>1. \A j \in Job : PhaseOf(j) = "new" /\ ~cancelRequested[j]
    BY DEF QueueInit, PhaseOf
  <2>2. QED
    BY <2>1 DEF Life!LifeInit, Phases, Cancelled
<1>2. QueueInv /\ QueueInv' /\ EndInv /\ EndInv' /\ NothingAcceptedIsLost
      /\ NothingAcceptedIsLost' /\ [QuietNext]_queueVars
        => [Life!LifeNext]_<<Phases, Cancelled>>
  BY QuietStepIsLifeStep
<1>3. QED
  BY <1>1, <1>2, QuietIsQueue, QueueInvariant, EndInvariant,
     NothingIsLostWhenQuiet, PTL DEF QuietSpec, ImplementsLifecycle, Life!LifeSpec

(***************************************************************************)
(* The log keeps the order of arrival                                      *)
(***************************************************************************)

\* What makes the order inductive: the next number is larger than all given.
OrderInv == LogKeepsArrivalOrder /\ \A j \in Job : seq[j] <= nextSeq

\* An append that does not compact adds its record at the end.
LEMMA LoggedAtEnd ==
  ASSUME QueueInv, EndInv, NoCompaction, NEW o \in WalOp, NEW j \in Job,
         NEW q, Log(Rec(o, j), q)
  PROVE  \A i \in DOMAIN wal' :
           \/ i \in DOMAIN wal /\ wal'[i] = wal[i]
           \/ /\ wal'[i] = Rec(o, j) /\ i \notin DOMAIN wal
              /\ \A k \in DOMAIN wal' : k <= i
<1>1. wal \in Seq(WalRecord) /\ walOps \in Nat /\ CompactOps \in Nat
  BY BoundAssumption DEF QueueInv, TypeOK, WalRecord
<1>2. Rec(o, j) \in WalRecord
  BY DEF Rec, WalRecord
<1>3. ~(walOps + 1 >= CompactOps)
  BY <1>1 DEF NoCompaction
<1>4. wal' = wal \/ wal' = Append(wal, Rec(o, j))
  BY <1>3 DEF Log, disk
<1>5. /\ Len(wal) \in Nat /\ DOMAIN wal = 1..Len(wal)
      /\ DOMAIN Append(wal, Rec(o, j)) = 1..(Len(wal) + 1)
      /\ \A i \in 1..Len(wal) : Append(wal, Rec(o, j))[i] = wal[i]
      /\ Append(wal, Rec(o, j))[Len(wal) + 1] = Rec(o, j)
  BY <1>1, <1>2, LenProperties
<1> PICK w : w = Append(wal, Rec(o, j))
  OBVIOUS
<1>6. /\ DOMAIN w = 1..(Len(wal) + 1)
      /\ \A i \in 1..Len(wal) : w[i] = wal[i]
      /\ w[Len(wal) + 1] = Rec(o, j)
      /\ wal' = wal \/ wal' = w
  BY <1>4, <1>5
<1>7. CASE wal' = wal
  BY <1>7
<1>8. CASE wal' = w
  <2> SUFFICES ASSUME NEW i \in 1..(Len(wal) + 1)
               PROVE  \/ i \in DOMAIN wal /\ w[i] = wal[i]
                      \/ /\ w[i] = Rec(o, j) /\ i \notin DOMAIN wal
                         /\ \A k \in 1..(Len(wal) + 1) : k <= i
    BY <1>6, <1>8
  <2>1. CASE i = Len(wal) + 1
    BY <1>5, <1>6, <2>1
  <2>2. CASE i # Len(wal) + 1
    BY <1>5, <1>6, <2>2
  <2>3. QED
    BY <2>1, <2>2
<1>9. QED
  BY <1>6, <1>7, <1>8

\* No step without a compaction breaks the order.
LEMMA StepKeepsOrder ==
  ASSUME QueueInv, QueueInv', EndInv, OrderInv, NoCompaction,
         [QueueNext]_queueVars
  PROVE  OrderInv'
<1> USE DEF Live, Terminal, WalOp
<1>a. /\ state \in [Job -> {"none"} \cup Live \cup Terminal]
      /\ seq \in [Job -> Nat] /\ nextSeq \in Nat
      /\ wal \in Seq(WalRecord) /\ finished \in Seq(Job)
      /\ \A i \in DOMAIN wal : i \in Nat /\ wal[i].job \in accepted
      /\ ToSet(queued) = {j \in Job : state[j] = "queued"}
  <2>1. wal \in Seq(WalRecord) /\ \A i \in DOMAIN wal : wal[i].job \in accepted
    BY DEF QueueInv, TypeOK, WalRecord, OnlyAccepted
  <2>2. DOMAIN wal = 1..Len(wal)
    BY <2>1, LenProperties
  <2>3. QED
    BY <2>1, <2>2 DEF QueueInv, TypeOK, QueueConsistent
<1>b. /\ LogKeepsArrivalOrder
      /\ \A j \in Job : seq[j] <= nextSeq
  BY DEF OrderInv
<1>1. ASSUME UNCHANGED <<wal, seq, nextSeq>>,
             \A i \in Job : state'[i] \in Live => state[i] \in Live
      PROVE  OrderInv'
  BY <1>b, <1>1 DEF OrderInv, LogKeepsArrivalOrder
<1>2. CASE UNCHANGED queueVars
  BY <1>1, <1>2 DEF queueVars, memory, disk
<1>3. CASE QueueNext
  <2>1. ASSUME NEW j \in Job, NEW o \in WalOp, NEW q, o # "enqueue",
               Log(Rec(o, j), q), UNCHANGED <<seq, nextSeq>>,
               \A i \in Job : state'[i] \in Live => state[i] \in Live
        PROVE  OrderInv'
    <3>1. \A i \in DOMAIN wal' : \A k \in Job :
            wal'[i] = Rec("enqueue", k) => i \in DOMAIN wal /\ wal[i] = wal'[i]
      <4>1. \A k \in Job : Rec(o, j) # Rec("enqueue", k)
        BY <2>1 DEF Rec
      <4>2. QED
        BY <2>1, <4>1, LoggedAtEnd
    <3>2. QED
      BY <1>b, <2>1, <3>1 DEF OrderInv, LogKeepsArrivalOrder
  <2>2. ASSUME NEW j \in Job, Enqueue(j) PROVE OrderInv'
    <3>1. /\ j \notin accepted /\ nextSeq' = nextSeq + 1
          /\ seq' = [seq EXCEPT ![j] = nextSeq + 1]
          /\ state' = [state EXCEPT ![j] = "queued"]
          /\ Log(Rec("enqueue", j), Append(queued, j))
      BY <2>2 DEF Enqueue
    <3> PICK q : q = Append(queued, j)
      OBVIOUS
    <3>2. \A i \in DOMAIN wal' :
            \/ i \in DOMAIN wal /\ wal'[i] = wal[i]
            \/ /\ wal'[i] = Rec("enqueue", j) /\ i \notin DOMAIN wal
               /\ \A k \in DOMAIN wal' : k <= i
      <4>1. Log(Rec("enqueue", j), q) /\ "enqueue" \in WalOp
        BY <3>1
      <4>2. QED
        BY <4>1, LoggedAtEnd
    <3>3. \A i \in DOMAIN wal : wal[i] # Rec("enqueue", j)
      BY <1>a, <3>1 DEF Rec
    <3>4. /\ seq'[j] = nextSeq + 1
          /\ \A i \in Job : i # j => seq'[i] = seq[i] /\ state'[i] = state[i]
      BY <1>a, <3>1
    <3>5. \A i \in Job : seq'[i] <= nextSeq'
      BY <1>a, <1>b, <3>1, <3>4
    <3>6. ASSUME NEW a \in Job, NEW b \in Job, state'[a] \in Live,
                 state'[b] \in Live, seq'[a] < seq'[b],
                 NEW i \in DOMAIN wal', NEW k \in DOMAIN wal', i < k,
                 wal'[i] = Rec("enqueue", b), wal'[k] = Rec("enqueue", a)
          PROVE  FALSE
      <4>1. a # j
        BY <1>a, <1>b, <3>4, <3>6
      <4>2. k \in DOMAIN wal /\ wal[k] = Rec("enqueue", a) /\ k \in Nat
        BY <1>a, <3>2, <3>6, <4>1 DEF Rec
      <4>3. i \in DOMAIN wal /\ wal[i] = Rec("enqueue", b)
        <5>1. CASE i \in DOMAIN wal
          BY <3>2, <3>6, <5>1
        <5>2. CASE i \notin DOMAIN wal
          <6>1. k <= i /\ i \in Nat
            <7>1. k <= i
              BY <3>2, <3>6, <5>2
            <7>2. i \in Nat
              <8>1. wal' \in Seq(WalRecord)
                BY DEF QueueInv, TypeOK, WalRecord
              <8>2. DOMAIN wal' = 1..Len(wal')
                BY <8>1, LenProperties
              <8>3. QED
                BY <8>2
            <7>3. QED
              BY <7>1, <7>2
          <6>2. QED
            BY <3>6, <4>2, <6>1
        <5>3. QED
          BY <5>1, <5>2
      <4>4. b # j
        BY <3>3, <4>3
      <4>5. state[a] \in Live /\ state[b] \in Live /\ seq[a] < seq[b]
        BY <3>4, <3>6, <4>1, <4>4
      <4>6. QED
        BY <1>b, <3>6, <4>2, <4>3, <4>5 DEF LogKeepsArrivalOrder
    <3>7. QED
      BY <3>5, <3>6 DEF OrderInv, LogKeepsArrivalOrder
  <2>3. ASSUME NEW j \in Job, Take(j) PROVE OrderInv'
    <3>1. /\ j \in ToSet(queued) /\ state' = [state EXCEPT ![j] = "running"]
          /\ Log(Rec("started", j), Without(queued, j))
          /\ UNCHANGED <<seq, nextSeq>>
      BY <2>3 DEF Take, StillQueued
    <3>2. "started" \in WalOp /\ "started" # "enqueue"
      OBVIOUS
    <3>3. \A i \in Job : state'[i] \in Live => state[i] \in Live
      BY <1>a, <3>1
    <3>4. QED
      BY <2>1, <3>1, <3>2, <3>3
  <2>4. ASSUME NEW j \in Job, Requeue(j) PROVE OrderInv'
    <3>1. /\ state[j] = "running" /\ state' = [state EXCEPT ![j] = "queued"]
          /\ Log(Rec("requeue", j), <<j>> \o queued)
          /\ UNCHANGED <<seq, nextSeq>>
      BY <2>4 DEF Requeue, MayRequeue
    <3>2. "requeue" \in WalOp /\ "requeue" # "enqueue"
      OBVIOUS
    <3>3. \A i \in Job : state'[i] \in Live => state[i] \in Live
      BY <1>a, <3>1
    <3>4. QED
      BY <2>1, <3>1, <3>2, <3>3
  <2>5. "finished" \in WalOp /\ "finished" # "enqueue"
    OBVIOUS
  <2>6. ASSUME NEW j \in Job, NEW r \in {"ok", "error", "cancelError"},
               Finish(j, r)
        PROVE  OrderInv'
    <3> DEFINE o == Outcome(r, cancelRequested[j])
    <3>1. o \in Terminal
      BY DEF Outcome
    <3>2. /\ state[j] \in Live /\ Log(Rec("finished", j), queued)
          /\ UNCHANGED <<seq, nextSeq>>
          /\ Purge([state EXCEPT ![j] = o], Append(finished, j))
      BY <2>6 DEF Finish
    <3> HIDE DEF o
    <3>3. \A i \in Job : state'[i] \in Live => state[i] \in Live
      BY <3>1, <3>2, EndMovesOne
    <3>4. QED
      BY <2>1, <2>5, <3>2, <3>3
  <2>7. ASSUME NEW j \in Job, CancelQueued(j) PROVE OrderInv'
    <3>1. /\ state[j] \in Live /\ Log(Rec("finished", j), Without(queued, j))
          /\ UNCHANGED <<seq, nextSeq>>
          /\ Purge([state EXCEPT ![j] = "cancelled"], Append(finished, j))
      BY <2>7 DEF CancelQueued, CancelsAtOnce
    <3>2. \A i \in Job : state'[i] \in Live => state[i] \in Live
      BY <3>1, EndMovesOne
    <3>3. QED
      BY <2>1, <2>5, <3>1, <3>2
  <2>8. ASSUME CancelAllStep PROVE OrderInv'
    <3> DEFINE j == Head(queued)
    <3>1. /\ queued # <<>> /\ state' = [state EXCEPT ![j] = "cancelled"]
          /\ Log(Rec("finished", j), Tail(queued)) /\ UNCHANGED <<seq, nextSeq>>
      BY <2>8 DEF CancelAllStep
    <3>2. j \in Job
      BY <3>1, FlushedIsQueued
    <3> HIDE DEF j
    <3>3. \A i \in Job : state'[i] \in Live => state[i] \in Live
      BY <1>a, <3>1, <3>2
    <3>4. QED
      BY <2>1, <2>5, <3>1, <3>2, <3>3
  <2>9. ASSUME CancelAllEnd PROVE OrderInv'
    <3>1. UNCHANGED <<wal, seq, nextSeq>> /\ Purge(state, finished)
      BY <2>9 DEF CancelAllEnd, disk
    <3>2. \A i \in Job : state'[i] \in Live => state[i] \in Live
      BY <3>1, PurgeMovesNone
    <3>3. QED
      BY <1>1, <3>1, <3>2
  <2>10. ASSUME Crash PROVE OrderInv'
    <3>1. /\ state' = [j \in Job |-> "none"]
          /\ seq' = [j \in Job |-> 0] /\ nextSeq' = 0
      BY <2>10 DEF Crash
    <3>2. QED
      BY <3>1 DEF OrderInv, LogKeepsArrivalOrder
  <2>11. ASSUME Restart PROVE OrderInv'
    <3> DEFINE R(n, q) ==
          /\ IsReplay(wal, q)
          /\ state' = [j \in Job |-> IF j \in ToSet(q) THEN "queued" ELSE "none"]
          /\ seq' = [j \in Job |-> IF j \in ToSet(q)
                                   THEN CHOOSE i \in DOMAIN q : q[i] = j ELSE 0]
          /\ nextSeq' = n
          /\ wal' = IF WalEnabled THEN Compacted(q) ELSE wal
    <3>1. \E n \in 0..MaxDepth : \E q \in [1..n -> Job] : R(n, q)
      BY <2>11 DEF Restart
    <3>2. PICK n \in 0..MaxDepth : \E q \in [1..n -> Job] : R(n, q)
      BY <3>1
    <3>3. PICK q \in [1..n -> Job] : R(n, q)
      BY <3>2
    <3>4. n \in Nat
      OBVIOUS
    <3>5. q \in Seq(Job) /\ IsInjective(q)
      BY <1>a, <3>3, <3>4, ReplayProperties
    <3>6. \A i \in 1..n : q[i] \in ToSet(q) /\ seq'[q[i]] = i
      <4> SUFFICES ASSUME NEW i \in 1..n
                   PROVE  q[i] \in ToSet(q) /\ seq'[q[i]] = i
        OBVIOUS
      <4>1. q[i] \in ToSet(q) /\ q[i] \in Job
        BY DEF ToSet
      <4>2. seq'[q[i]] = CHOOSE k \in DOMAIN q : q[k] = q[i]
        BY <3>3, <4>1
      <4>3. \A k \in DOMAIN q : q[k] = q[i] <=> k = i
        BY <3>5 DEF IsInjective
      <4>4. i \in DOMAIN q
        OBVIOUS
      <4>5. (CHOOSE k \in DOMAIN q : q[k] = q[i]) = i
        BY <4>3, <4>4
      <4>6. QED
        BY <4>1, <4>2, <4>5
    <3>7. \A j \in Job : seq'[j] <= nextSeq'
      <4>1. ASSUME NEW j \in Job, j \in ToSet(q) PROVE seq'[j] <= nextSeq'
        <5>1. PICK i \in 1..n : q[i] = j
          BY <4>1 DEF ToSet
        <5>2. QED
          BY <3>3, <3>4, <3>6, <5>1
      <4>2. ASSUME NEW j \in Job, j \notin ToSet(q) PROVE seq'[j] <= nextSeq'
        BY <3>3, <3>4, <4>2
      <4>3. QED
        BY <4>1, <4>2
    <3>8. LogKeepsArrivalOrder'
      <4> SUFFICES ASSUME NEW a \in Job, NEW b \in Job, seq'[a] < seq'[b],
                          NEW i \in DOMAIN wal', NEW k \in DOMAIN wal', i < k,
                          wal'[i] = Rec("enqueue", b), wal'[k] = Rec("enqueue", a)
                   PROVE  FALSE
        BY DEF LogKeepsArrivalOrder
      <4>1. CASE WalEnabled
        <5>1. wal' = [l \in 1..n |-> Rec("enqueue", q[l])]
          BY <3>3, <4>1 DEF Compacted
        <5>2. i \in 1..n /\ k \in 1..n /\ q[i] = b /\ q[k] = a
          BY <5>1 DEF Rec
        <5>3. seq'[b] = i /\ seq'[a] = k
          BY <3>6, <5>2
        <5>4. QED
          BY <5>2, <5>3
      <4>2. CASE ~WalEnabled
        <5>1. DOMAIN wal' = {}
          BY <3>3, <4>2 DEF EndInv
        <5>2. QED
          BY <5>1
      <4>3. QED
        BY <4>1, <4>2
    <3>9. QED
      BY <3>7, <3>8 DEF OrderInv
  <2>12. ASSUME NEW j \in Job, Notify(j) \/ CancelRunning(j) PROVE OrderInv'
    BY <1>1, <2>12 DEF Notify, CancelRunning, disk
  <2>13. ASSUME NEW b \in BOOLEAN, CancelAllBegin(b) PROVE OrderInv'
    BY <1>1, <2>13 DEF CancelAllBegin, disk
  <2>14. ASSUME NEW j \in Job, RequeueVram(j) \/ RequeueWorker(j)
         PROVE  OrderInv'
    BY <2>4, <2>14 DEF RequeueVram, RequeueWorker
  <2>15. QED
    BY <1>3, <2>2, <2>3, <2>4, <2>6, <2>7, <2>8, <2>9, <2>10, <2>11, <2>12,
       <2>13, <2>14 DEF QueueNext
<1>4. QED
  BY <1>2, <1>3

\* As long as no append compacts the log, the log holds the live jobs in the
\* order of arrival, however they were taken, retried and replayed.
THEOREM ArrivalOrderIsKept ==
  QueueSpec /\ []NoCompaction => []LogKeepsArrivalOrder
<1>1. QueueInit => OrderInv
  BY DEF QueueInit, OrderInv, LogKeepsArrivalOrder
<1>2. QueueInv /\ QueueInv' /\ EndInv /\ OrderInv /\ NoCompaction
      /\ [QueueNext]_queueVars => OrderInv'
  <2> SUFFICES ASSUME QueueInv, QueueInv', EndInv, OrderInv, NoCompaction,
                      [QueueNext]_queueVars
               PROVE  OrderInv'
    OBVIOUS
  <2>1. QED
    BY StepKeepsOrder
<1>3. OrderInv => LogKeepsArrivalOrder
  BY DEF OrderInv
<1>4. QED
  BY <1>1, <1>2, <1>3, QueueInvariant, EndInvariant, PTL DEF QueueSpec

\* A log that is never compacted while the daemon is up is all a restart needs,
\* as long as the replay has room: no accepted job is missing from it, and the
\* live ones stand in it in the order in which they came.
THEOREM LogIsFaithfulWithoutCompaction ==
  ASSUME WalEnabled
  PROVE  QueueSpec /\ []NoCompaction /\ []RoomToReplay => []LogIsFaithful
<1>1. QueueInv /\ NoCompaction /\ RoomToReplay /\ [QueueNext]_queueVars
        => [QuietNext]_queueVars
  <2> SUFFICES ASSUME QueueInv, NoCompaction, RoomToReplay, QueueNext
               PROVE  QuietNext
    OBVIOUS
  <2>1. ~(walOps + 1 >= CompactOps)
    BY BoundAssumption DEF NoCompaction, QueueInv, TypeOK
  <2>2. QED
    BY <2>1 DEF QuietNext, QuietCompaction
<1>2. QueueSpec /\ []NoCompaction /\ []RoomToReplay => QuietSpec
  BY <1>1, QueueInvariant, PTL DEF QueueSpec, QuietSpec
<1>3. NothingAcceptedIsLost /\ LogKeepsArrivalOrder => LogIsFaithful
  BY DEF LogIsFaithful
<1>4. QED
  BY <1>2, <1>3, NothingIsLostWhenQuiet, ArrivalOrderIsKept, PTL
=============================================================================
