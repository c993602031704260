--------------------------- MODULE JobQueueProofs ---------------------------
(***************************************************************************)
(* Proofs about JobQueue, for every set of jobs and every value of the     *)
(* other constants: first its invariant, then what it makes of the end of  *)
(* a job.                                                                  *)
(***************************************************************************)
EXTENDS JobQueue, FiniteSetTheorems, SequenceTheorems, TLAPS

(***************************************************************************)
(* Lemmas on the queue as a sequence without duplicates                    *)
(***************************************************************************)

\* Removing a job drops one position that holds it.
LEMMA WithoutDropsOne ==
  ASSUME NEW S, NEW q \in Seq(S), NEW j \in ToSet(q)
  PROVE  \E i \in 1..Len(q) :
           /\ q[i] = j
           /\ Without(q, j) \in Seq(S)
           /\ DOMAIN Without(q, j) = 1..(Len(q) - 1)
           /\ \A k \in 1..(Len(q) - 1) : k < i => Without(q, j)[k] = q[k]
           /\ \A k \in 1..(Len(q) - 1) : i <= k => Without(q, j)[k] = q[k + 1]
<1> DEFINE i == CHOOSE k \in DOMAIN q : q[k] = j
           l == SubSeq(q, 1, i - 1)
           r == SubSeq(q, i + 1, Len(q))
<1>1. i \in DOMAIN q /\ q[i] = j
  BY DEF ToSet
<1>2. Without(q, j) = l \o r
  BY DEF Without, RemoveAt
<1> HIDE DEF i
<1>3. /\ DOMAIN q = 1..Len(q) /\ Len(q) \in Nat
      /\ i \in 1..Len(q) /\ i - 1 \in Int /\ i + 1 \in Int
      /\ \A k \in 1..Len(q) : q[k] \in S
  BY <1>1, LenProperties, ElementOfSeq
<1>4. /\ l \in Seq(S) /\ Len(l) = i - 1
      /\ \A k \in 1..(i - 1) : l[k] = q[k]
  <2>1. \A k \in 1..(i - 1) : q[k] \in S
    BY <1>3
  <2>2. /\ l \in Seq(S)
        /\ Len(l) = IF 1 <= i - 1 THEN (i - 1) - 1 + 1 ELSE 0
        /\ \A k \in 1..((i - 1) - 1 + 1) : l[k] = q[1 + k - 1]
    BY <1>3, <2>1, SubSeqProperties
  <2> HIDE DEF l
  <2>3. QED
    BY <1>3, <2>2
<1>5. /\ r \in Seq(S) /\ Len(r) = Len(q) - i
      /\ \A k \in 1..(Len(q) - i) : r[k] = q[i + k]
  <2>1. \A k \in (i + 1)..Len(q) : q[k] \in S
    BY <1>3
  <2>2. /\ r \in Seq(S)
        /\ Len(r) = IF i + 1 <= Len(q) THEN Len(q) - (i + 1) + 1 ELSE 0
        /\ \A k \in 1..(Len(q) - (i + 1) + 1) : r[k] = q[(i + 1) + k - 1]
    BY <1>3, <2>1, SubSeqProperties
  <2> HIDE DEF r
  <2>3. \A k \in 1..(Len(q) - i) : (i + 1) + k - 1 = i + k
    BY <1>3
  <2>4. QED
    BY <1>3, <2>2, <2>3
<1> HIDE DEF l, r
<1>6. /\ l \o r \in Seq(S) /\ Len(l \o r) = Len(q) - 1
      /\ \A k \in 1..(Len(q) - 1) :
           (l \o r)[k] = IF k < i THEN q[k] ELSE q[k + 1]
  <2>1. /\ l \o r \in Seq(S) /\ Len(l \o r) = Len(l) + Len(r)
        /\ \A k \in 1..(Len(l) + Len(r)) :
             (l \o r)[k] = IF k <= Len(l) THEN l[k] ELSE r[k - Len(l)]
    BY <1>4, <1>5, ConcatProperties
  <2>2. Len(l) + Len(r) = Len(q) - 1
    BY <1>3, <1>4, <1>5
  <2>3. ASSUME NEW k \in 1..(Len(q) - 1)
        PROVE  (l \o r)[k] = IF k < i THEN q[k] ELSE q[k + 1]
    <3>1. CASE k < i
      BY <1>3, <1>4, <2>1, <2>2, <3>1
    <3>2. CASE ~(k < i)
      <4>1. k - (i - 1) \in 1..(Len(q) - i) /\ i + (k - (i - 1)) = k + 1
        BY <1>3, <3>2
      <4>2. (l \o r)[k] = r[k - (i - 1)]
        BY <1>3, <1>4, <2>1, <2>2, <3>2
      <4>3. r[k - (i - 1)] = q[i + (k - (i - 1))]
        BY <1>5, <4>1
      <4>4. QED
        BY <3>2, <4>1, <4>2, <4>3
    <3>3. QED
      BY <3>1, <3>2
  <2>4. QED
    BY <2>1, <2>2, <2>3
<1> DEFINE p == l \o r
<1>7. /\ p \in Seq(S) /\ DOMAIN p = 1..(Len(q) - 1)
      /\ \A k \in 1..(Len(q) - 1) : k < i => p[k] = q[k]
      /\ \A k \in 1..(Len(q) - 1) : i <= k => p[k] = q[k + 1]
  <2>1. /\ p \in Seq(S) /\ Len(p) = Len(q) - 1
        /\ \A k \in 1..(Len(q) - 1) : p[k] = IF k < i THEN q[k] ELSE q[k + 1]
    BY <1>6
  <2> HIDE DEF p
  <2>2. DOMAIN p = 1..(Len(q) - 1)
    BY <2>1, LenProperties
  <2>3. \A k \in 1..(Len(q) - 1) : i <= k => ~(k < i)
    BY <1>3
  <2>4. QED
    BY <2>1, <2>2, <2>3
<1>8. QED
  BY <1>1, <1>2, <1>3, <1>7 DEF p

\* Whatever the job, the result is a queue.
LEMMA WithoutType ==
  ASSUME NEW S, NEW q \in Seq(S), NEW j
  PROVE  Without(q, j) \in Seq(S)
<1>1. CASE j \in ToSet(q)
  BY <1>1, WithoutDropsOne
<1>2. CASE j \notin ToSet(q)
  BY <1>2 DEF Without
<1>3. QED
  BY <1>1, <1>2

\* Removing a job from a duplicate-free queue removes it and nothing else.
LEMMA WithoutProperties ==
  ASSUME NEW S, NEW q \in Seq(S), IsInjective(q), NEW j \in ToSet(q)
  PROVE  /\ IsInjective(Without(q, j))
         /\ ToSet(Without(q, j)) = ToSet(q) \ {j}
<1> DEFINE p == Without(q, j)
<1>1. PICK i \in 1..Len(q) :
        /\ q[i] = j
        /\ p \in Seq(S)
        /\ DOMAIN p = 1..(Len(q) - 1)
        /\ \A k \in 1..(Len(q) - 1) : k < i => p[k] = q[k]
        /\ \A k \in 1..(Len(q) - 1) : i <= k => p[k] = q[k + 1]
  BY WithoutDropsOne
<1> HIDE DEF p
<1>3. /\ DOMAIN q = 1..Len(q) /\ Len(q) \in Nat
      /\ i \in 1..Len(q)
  BY LenProperties
<1>8. \A a, b \in 1..Len(q) : q[a] = q[b] => a = b
  BY <1>3 DEF IsInjective
<1>9. IsInjective(p)
  <2> SUFFICES ASSUME NEW a \in 1..(Len(q) - 1), NEW b \in 1..(Len(q) - 1),
                      p[a] = p[b]
               PROVE  a = b
    BY <1>1 DEF IsInjective
  <2>1. PICK c \in 1..Len(q) : p[a] = q[c] /\ c = IF a < i THEN a ELSE a + 1
    BY <1>3, <1>1
  <2>2. PICK d \in 1..Len(q) : p[b] = q[d] /\ d = IF b < i THEN b ELSE b + 1
    BY <1>3, <1>1
  <2>3. c = d
    BY <1>8, <2>1, <2>2
  <2>4. QED
    BY <1>3, <2>1, <2>2, <2>3
<1>10. ToSet(p) = ToSet(q) \ {j}
  <2>1. ASSUME NEW k \in 1..(Len(q) - 1)
        PROVE  p[k] \in ToSet(q) \ {j}
    <3>1. PICK c \in 1..Len(q) : p[k] = q[c] /\ c = IF k < i THEN k ELSE k + 1
      BY <1>3, <1>1
    <3>2. c # i
      BY <1>3, <3>1
    <3>3. q[c] # j
      BY <1>1, <1>3, <1>8, <3>2
    <3>4. QED
      BY <1>3, <3>1, <3>3 DEF ToSet
  <2>2. ASSUME NEW k \in 1..Len(q), q[k] # j
        PROVE  \E n \in 1..(Len(q) - 1) : p[n] = q[k]
    <3>1. CASE k < i
      <4>1. k \in 1..(Len(q) - 1)
        BY <1>3, <3>1
      <4>2. QED
        BY <1>1, <3>1, <4>1
    <3>2. CASE i < k
      <4>1. k - 1 \in 1..(Len(q) - 1) /\ i <= k - 1 /\ (k - 1) + 1 = k
        BY <1>3, <3>2
      <4>2. QED
        BY <1>1, <4>1
    <3>3. k # i
      BY <1>1, <2>2
    <3>4. QED
      BY <1>3, <3>1, <3>2, <3>3
  <2>3. /\ ToSet(p) = {p[k] : k \in 1..(Len(q) - 1)}
        /\ ToSet(q) = {q[k] : k \in 1..Len(q)}
    BY <1>3, <1>1 DEF ToSet
  <2>4. {p[k] : k \in 1..(Len(q) - 1)} \subseteq ToSet(q) \ {j}
    BY <2>1
  <2>5. {q[k] : k \in 1..Len(q)} \ {j} \subseteq {p[k] : k \in 1..(Len(q) - 1)}
    BY <2>2
  <2>6. QED
    BY <2>3, <2>4, <2>5
<1>11. QED
  BY <1>9, <1>10 DEF p

\* Appending a job that is not in the queue.
LEMMA PushBackProperties ==
  ASSUME NEW S, NEW q \in Seq(S), NEW j \in S
  PROVE  /\ Append(q, j) \in Seq(S)
         /\ ToSet(Append(q, j)) = ToSet(q) \cup {j}
         /\ IsInjective(q) /\ j \notin ToSet(q) => IsInjective(Append(q, j))
<1> DEFINE p == Append(q, j)
<1>1. /\ DOMAIN q = 1..Len(q) /\ Len(q) \in Nat
      /\ p \in Seq(S) /\ DOMAIN p = 1..(Len(q) + 1)
  BY LenProperties
<1>2. /\ \A k \in 1..Len(q) : p[k] = q[k]
      /\ p[Len(q) + 1] = j
  BY <1>1
<1> HIDE DEF p
<1>3. ToSet(p) = ToSet(q) \cup {j}
  <2>1. \A k \in 1..(Len(q) + 1) : k \in 1..Len(q) \/ k = Len(q) + 1
    BY <1>1
  <2>2. \A k \in 1..Len(q) : k \in 1..(Len(q) + 1)
    BY <1>1
  <2>3. Len(q) + 1 \in 1..(Len(q) + 1)
    BY <1>1
  <2>4. QED
    BY <1>1, <1>2, <2>1, <2>2, <2>3 DEF ToSet
<1>4. IsInjective(q) /\ j \notin ToSet(q) => IsInjective(p)
  <2> SUFFICES ASSUME IsInjective(q), j \notin ToSet(q),
                      NEW a \in 1..(Len(q) + 1), NEW b \in 1..(Len(q) + 1),
                      p[a] = p[b]
               PROVE  a = b
    BY <1>1 DEF IsInjective
  <2>1. \A k \in 1..Len(q) : q[k] # j
    BY <1>1 DEF ToSet
  <2>2. \A c, d \in 1..Len(q) : q[c] = q[d] => c = d
    BY <1>1 DEF IsInjective
  <2>3. QED
    BY <1>1, <1>2, <2>1, <2>2
<1>5. QED
  BY <1>1, <1>3, <1>4 DEF p

\* Putting a job that is not in the queue in front of it.
LEMMA PushFrontProperties ==
  ASSUME NEW S, NEW q \in Seq(S), NEW j \in S
  PROVE  /\ <<j>> \o q \in Seq(S)
         /\ ToSet(<<j>> \o q) = ToSet(q) \cup {j}
         /\ IsInjective(q) /\ j \notin ToSet(q) => IsInjective(<<j>> \o q)
<1> DEFINE p == <<j>> \o q
<1>1. /\ p \in Seq(S) /\ Len(p) = Len(q) + 1
      /\ \A k \in 1..(Len(q) + 1) : p[k] = IF k = 1 THEN j ELSE q[k - 1]
  <2>1. <<j>> \in Seq(S) /\ Len(<<j>>) = 1 /\ <<j>>[1] = j
    OBVIOUS
  <2>2. QED
    BY <2>1, ConcatProperties, LenProperties
<1>2. DOMAIN q = 1..Len(q) /\ Len(q) \in Nat /\ DOMAIN p = 1..(Len(q) + 1)
  BY <1>1, LenProperties
<1> HIDE DEF p
<1>3. ToSet(p) = ToSet(q) \cup {j}
  <2>1. ToSet(p) \subseteq ToSet(q) \cup {j}
    BY <1>1, <1>2 DEF ToSet
  <2>2. ToSet(q) \subseteq ToSet(p)
    <3>1. \A k \in 1..Len(q) : k + 1 \in 1..(Len(q) + 1) /\ p[k + 1] = q[k]
      BY <1>1, <1>2
    <3>2. QED
      BY <1>2, <3>1 DEF ToSet
  <2>3. j \in ToSet(p)
    BY <1>1, <1>2 DEF ToSet
  <2>4. QED
    BY <2>1, <2>2, <2>3
<1>4. IsInjective(q) /\ j \notin ToSet(q) => IsInjective(p)
  <2> SUFFICES ASSUME IsInjective(q), j \notin ToSet(q),
                      NEW a \in 1..(Len(q) + 1), NEW b \in 1..(Len(q) + 1),
                      p[a] = p[b]
               PROVE  a = b
    BY <1>2 DEF IsInjective
  <2>1. \A k \in 1..Len(q) : q[k] # j
    BY <1>2 DEF ToSet
  <2>2. \A c, d \in 1..Len(q) : q[c] = q[d] => c = d
    BY <1>2 DEF IsInjective
  <2>3. QED
    BY <1>1, <1>2, <2>1, <2>2
<1>5. QED
  BY <1>1, <1>3, <1>4 DEF p

\* Cancelling the head of the queue, as cancel_all() does.
LEMMA TailProperties ==
  ASSUME NEW S, NEW q \in Seq(S), q # <<>>, IsInjective(q)
  PROVE  /\ Head(q) \in ToSet(q) /\ Head(q) \in S
         /\ Tail(q) \in Seq(S)
         /\ ToSet(Tail(q)) = ToSet(q) \ {Head(q)}
         /\ IsInjective(Tail(q))
<1>1. /\ Head(q) = q[1] /\ Head(q) \in S
      /\ Tail(q) \in Seq(S) /\ Len(Tail(q)) = Len(q) - 1
      /\ \A k \in 1..(Len(q) - 1) : Tail(q)[k] = q[k + 1]
  BY HeadTailProperties
<1>2. /\ DOMAIN q = 1..Len(q) /\ Len(q) \in Nat \ {0}
      /\ DOMAIN Tail(q) = 1..(Len(q) - 1)
  BY <1>1, LenProperties, EmptySeq
<1>3. Head(q) \in ToSet(q)
  BY <1>1, <1>2 DEF ToSet
<1> DEFINE p == Tail(q)
<1>4. /\ DOMAIN p = 1..(Len(q) - 1)
      /\ \A k \in 1..(Len(q) - 1) : p[k] = q[k + 1]
  BY <1>1, <1>2
<1> HIDE DEF p
<1>5. \A a, b \in 1..Len(q) : q[a] = q[b] => a = b
  BY <1>2 DEF IsInjective
<1>6. ToSet(p) = ToSet(q) \ {q[1]}
  <2>1. ASSUME NEW k \in 1..(Len(q) - 1)
        PROVE  p[k] \in ToSet(q) \ {q[1]}
    <3>1. k + 1 \in 1..Len(q) /\ k + 1 # 1 /\ 1 \in 1..Len(q)
      BY <1>2
    <3>2. QED
      BY <1>2, <1>4, <1>5, <3>1 DEF ToSet
  <2>2. ASSUME NEW k \in 1..Len(q), q[k] # q[1]
        PROVE  \E n \in 1..(Len(q) - 1) : p[n] = q[k]
    <3>1. k - 1 \in 1..(Len(q) - 1) /\ (k - 1) + 1 = k
      BY <1>2, <2>2
    <3>2. QED
      BY <1>4, <3>1
  <2>3. /\ ToSet(p) = {p[k] : k \in 1..(Len(q) - 1)}
        /\ ToSet(q) = {q[k] : k \in 1..Len(q)}
    BY <1>2, <1>4 DEF ToSet
  <2>4. QED
    BY SMTT(30), <2>1, <2>2, <2>3
<1>7. IsInjective(p)
  <2> SUFFICES ASSUME NEW a \in 1..(Len(q) - 1), NEW b \in 1..(Len(q) - 1),
                      p[a] = p[b]
               PROVE  a = b
    BY <1>4 DEF IsInjective
  <2>1. a + 1 \in 1..Len(q) /\ b + 1 \in 1..Len(q)
    BY <1>2
  <2>2. a + 1 = b + 1
    BY <1>4, <1>5, <2>1
  <2>3. QED
    BY <2>2
<1>8. QED
  BY <1>1, <1>3, <1>6, <1>7 DEF p

(***************************************************************************)
(* What the two shared pieces of an operation, the append to the log and   *)
(* the purge, do to the variables they change                              *)
(***************************************************************************)
\* A record of the log: _append_wal writes op and job_id first.
WalRecord == [op : WalOp, job : Job]

\* A compacted log is a log of records.
LEMMA CompactedType ==
  ASSUME NEW q \in Seq(Job)
  PROVE  Compacted(q) \in Seq(WalRecord)
<1>1. DOMAIN q = 1..Len(q) /\ Len(q) \in Nat /\ \A i \in 1..Len(q) : q[i] \in Job
  BY LenProperties, ElementOfSeq
<1>2. Compacted(q) \in [1..Len(q) -> WalRecord]
  BY <1>1 DEF Compacted, Rec, WalRecord, WalOp
<1>3. QED
  BY <1>1, <1>2, SeqDef

\* An append, compacting or not, leaves a log of records and a counter.
LEMMA LogType ==
  ASSUME NEW q \in Seq(Job), NEW rec \in WalRecord, Log(rec, q),
         wal \in Seq(WalRecord), walOps \in Nat
  PROVE  wal' \in Seq(WalRecord) /\ walOps' \in Nat
<1>1. Compacted(q) \in Seq(WalRecord)
  BY CompactedType
<1>2. Append(wal, rec) \in Seq(WalRecord)
  OBVIOUS
<1>3. CASE ~WalEnabled
  BY <1>3 DEF Log, disk
<1>4. CASE WalEnabled
  <2>1. CASE walOps + 1 >= CompactOps
    BY <1>1, <1>4, <2>1, BoundAssumption DEF Log
  <2>2. CASE ~(walOps + 1 >= CompactOps)
    BY <1>2, <1>4, <2>2, BoundAssumption DEF Log
  <2>3. QED
    BY <2>1, <2>2
<1>5. QED
  BY <1>3, <1>4

\* A purge only forgets jobs of the finish order.
LEMMA PurgeProperties ==
  ASSUME NEW T, NEW st \in [Job -> T], NEW fin \in Seq(Job), "none" \in T,
         Purge(st, fin)
  PROVE  /\ state' \in [Job -> T] /\ finished' \in Seq(Job)
         /\ ToSet(finished') \subseteq ToSet(fin)
         /\ \A i \in Job : state'[i] = st[i]
                           \/ (state'[i] = "none" /\ i \in ToSet(fin))
<1>1. PICK k \in 0..Len(fin) :
        /\ finished' = SubSeq(fin, k + 1, Len(fin))
        /\ state' = [i \in Job |-> IF \E n \in 1..k : fin[n] = i
                                   THEN "none" ELSE st[i]]
  BY DEF Purge
<1>2. /\ DOMAIN fin = 1..Len(fin) /\ Len(fin) \in Nat
      /\ k \in Nat /\ k <= Len(fin)
  <2>1. DOMAIN fin = 1..Len(fin) /\ Len(fin) \in Nat
    BY LenProperties
  <2>2. QED
    BY <2>1
<1>3. /\ finished' \in Seq(Job) /\ DOMAIN finished' = 1..Len(finished')
      /\ Len(finished') = Len(fin) - k
      /\ \A i \in 1..(Len(fin) - k) : finished'[i] = fin[i + k]
  <2>1. \A i \in (k + 1)..Len(fin) : fin[i] \in Job
    BY <1>2, ElementOfSeq
  <2>2. k + 1 \in Int /\ Len(fin) \in Int
    BY <1>2
  <2> DEFINE r == SubSeq(fin, k + 1, Len(fin))
  <2>3. /\ r \in Seq(Job)
        /\ Len(r) = IF k + 1 <= Len(fin) THEN Len(fin) - (k + 1) + 1 ELSE 0
        /\ \A i \in 1..(Len(fin) - (k + 1) + 1) : r[i] = fin[(k + 1) + i - 1]
    BY <2>1, <2>2, SubSeqProperties
  <2> HIDE DEF r
  <2>4. finished' = r
    BY <1>1 DEF r
  <2>5. DOMAIN r = 1..Len(r)
    BY <2>3, LenProperties
  <2>6. Len(r) = Len(fin) - k
    <3>1. CASE k + 1 <= Len(fin)
      BY <1>2, <2>3, <3>1
    <3>2. CASE ~(k + 1 <= Len(fin))
      <4>1. Len(r) = 0
        BY <2>3, <3>2
      <4>2. k = Len(fin)
        <5>1. \A m, n \in Nat : m <= n /\ ~(m + 1 <= n) => m = n
          OBVIOUS
        <5>2. QED
          BY <1>2, <3>2, <5>1
      <4>3. QED
        BY <1>2, <4>1, <4>2
    <3>3. QED
      BY <3>1, <3>2
  <2>7. \A i \in 1..(Len(fin) - k) : r[i] = fin[i + k]
    <3>1. \A i \in 1..(Len(fin) - k) : (k + 1) + i - 1 = i + k
      BY <1>2
    <3>2. Len(fin) - (k + 1) + 1 = Len(fin) - k
      BY <1>2
    <3>3. QED
      BY <2>3, <3>1, <3>2
  <2>8. QED
    BY <2>3, <2>4, <2>5, <2>6, <2>7
<1>4. ToSet(finished') \subseteq ToSet(fin)
  <2>1. \A i \in 1..(Len(fin) - k) : i + k \in 1..Len(fin)
    BY <1>2
  <2>2. QED
    BY <1>2, <1>3, <2>1 DEF ToSet
<1>5. \A n \in 1..k : fin[n] \in ToSet(fin)
  <2>1. \A n \in 1..k : n \in DOMAIN fin
    BY <1>2
  <2>2. QED
    BY <2>1 DEF ToSet
<1>6. QED
  BY <1>1, <1>3, <1>4, <1>5

(***************************************************************************)
(* Type correctness                                                        *)
(***************************************************************************)

\* Every step of the queue keeps the types, however the jobs' retries are limited.
LEMMA QueueStepType ==
  TypeOK /\ [QueueNext]_queueVars => TypeOK'
<1> USE BoundAssumption
<1> SUFFICES ASSUME TypeOK, [QueueNext]_queueVars
             PROVE  TypeOK'
  OBVIOUS
<1> USE DEF Live, Terminal
<1>0. \A j \in Job, o \in WalOp : Rec(o, j) \in WalRecord
  BY DEF Rec, WalRecord
<1> DEFINE DiskOK == wal \in Seq(WalRecord) /\ walOps \in Nat
           States == {"none"} \cup Live \cup Terminal
<1>a. DiskOK
  BY DEF TypeOK, WalRecord
<1>1. ASSUME NEW j \in Job, Enqueue(j) PROVE TypeOK'
  <2>1. Append(queued, j) \in Seq(Job)
    BY DEF TypeOK
  <2>2. DiskOK'
    BY <1>0, <1>a, <1>1, <2>1, LogType DEF Enqueue, WalOp
  <2>3. QED
    BY <1>1, <2>1, <2>2 DEF Enqueue, TypeOK, WalRecord
<1>2. ASSUME NEW j \in Job, Take(j) PROVE TypeOK'
  <2>1. Without(queued, j) \in Seq(Job)
    BY WithoutType DEF TypeOK
  <2>2. DiskOK'
    BY <1>0, <1>a, <1>2, <2>1, LogType DEF Take, WalOp
  <2>3. QED
    BY <1>2, <2>1, <2>2 DEF Take, TypeOK, WalRecord, history
<1>3. ASSUME NEW j \in Job, Notify(j) PROVE TypeOK'
  BY <1>3 DEF Notify, TypeOK, disk
<1>4. ASSUME NEW j \in Job, Requeue(j),
             vramRetries' \in [Job -> Nat], workerRetries' \in [Job -> Nat]
      PROVE  TypeOK'
  <2>1. <<j>> \o queued \in Seq(Job)
    BY PushFrontProperties DEF TypeOK
  <2>2. DiskOK'
    BY <1>0, <1>a, <1>4, <2>1, LogType DEF Requeue, WalOp
  <2>3. QED
    BY SMTT(30), <1>4, <2>1, <2>2 DEF Requeue, Freed, TypeOK, WalRecord, history
<1>5. ASSUME NEW j \in Job, RequeueVram(j) PROVE TypeOK'
  <2>1. vramRetries' \in [Job -> Nat] /\ workerRetries' \in [Job -> Nat]
    BY <1>5 DEF RequeueVram, TypeOK
  <2>2. QED
    BY <1>4, <1>5, <2>1 DEF RequeueVram
<1>6. ASSUME NEW j \in Job, RequeueWorker(j) PROVE TypeOK'
  <2>1. vramRetries' \in [Job -> Nat] /\ workerRetries' \in [Job -> Nat]
    BY <1>6 DEF RequeueWorker, TypeOK
  <2>2. QED
    BY <1>4, <1>6, <2>1 DEF RequeueWorker
<1>7. ASSUME NEW j \in Job, CancelQueued(j) PROVE TypeOK'
  <2>1. Without(queued, j) \in Seq(Job)
    BY WithoutType DEF TypeOK
  <2>2. DiskOK'
    BY <1>0, <1>a, <1>7, <2>1, LogType DEF CancelQueued, WalOp
  <2>3. /\ [state EXCEPT ![j] = "cancelled"] \in [Job -> States]
        /\ Append(finished, j) \in Seq(Job)
    BY DEF TypeOK
  <2>4. Purge([state EXCEPT ![j] = "cancelled"], Append(finished, j))
    BY <1>7 DEF CancelQueued
  <2>5. state' \in [Job -> States] /\ finished' \in Seq(Job)
    BY <2>3, <2>4, PurgeProperties
  <2>6. /\ queued' = Without(queued, j)
        /\ cancelRequested' = [cancelRequested EXCEPT ![j] = TRUE]
        /\ settled' = [settled EXCEPT ![j] = "cancelled"]
        /\ notified' = [notified EXCEPT ![j] = @ + 1]
        /\ acked' = [acked EXCEPT ![j] = "kept"]
        /\ UNCHANGED <<up, running, inflight, vramRetries, workerRetries, seq,
                       nextSeq, toNotify, flush, accepted, crashes>>
    BY <1>7 DEF CancelQueued
  <2>7. QED
    BY SMTT(30), <2>1, <2>2, <2>5, <2>6 DEF TypeOK, WalRecord
<1>8. ASSUME NEW j \in Job, CancelRunning(j) PROVE TypeOK'
  BY <1>8 DEF CancelRunning, TypeOK, disk, history
<1>9. ASSUME NEW j \in Job, NEW r \in {"ok", "error", "cancelError"},
             Finish(j, r)
      PROVE  TypeOK'
  <2> DEFINE o == Outcome(r, cancelRequested[j])
  <2>1. o \in Terminal
    BY DEF Outcome
  <2> HIDE DEF o
  <2>2. DiskOK'
    BY <1>0, <1>a, <1>9, LogType DEF Finish, WalOp, TypeOK
  <2>3. /\ [state EXCEPT ![j] = o] \in [Job -> States]
        /\ Append(finished, j) \in Seq(Job)
    BY <2>1 DEF TypeOK
  <2>4. Purge([state EXCEPT ![j] = o], Append(finished, j))
    BY <1>9 DEF Finish, o
  <2>5. state' \in [Job -> States] /\ finished' \in Seq(Job)
    BY ZenonT(60), <2>3, <2>4, PurgeProperties
  <2>6. settled' = [settled EXCEPT ![j] = o]
    BY <1>9 DEF Finish, o
  <2>7. inflight' \in Nat
    BY <1>9 DEF Finish, Freed, TypeOK
  <2>8. /\ running' = running \ {j}
        /\ toNotify' = toNotify \cup {j}
        /\ UNCHANGED <<up, queued, cancelRequested, vramRetries, workerRetries,
                       seq, nextSeq, flush, accepted, notified, acked, crashes>>
    BY <1>9 DEF Finish
  <2>9. QED
    BY <2>1, <2>2, <2>5, <2>6, <2>7, <2>8 DEF TypeOK, WalRecord
<1>10. ASSUME NEW b \in BOOLEAN, CancelAllBegin(b) PROVE TypeOK'
  BY <1>10 DEF CancelAllBegin, TypeOK, disk, history
<1>11. ASSUME CancelAllStep PROVE TypeOK'
  <2>1. Tail(queued) \in Seq(Job) /\ Head(queued) \in Job
    BY <1>11, HeadTailProperties DEF CancelAllStep, TypeOK
  <2>2. DiskOK'
    BY <1>0, <1>a, <1>11, <2>1, LogType DEF CancelAllStep, WalOp
  <2>3. /\ queued' = Tail(queued)
        /\ state' = [state EXCEPT ![Head(queued)] = "cancelled"]
        /\ cancelRequested' = [cancelRequested EXCEPT ![Head(queued)] = TRUE]
        /\ settled' = [settled EXCEPT ![Head(queued)] = "cancelled"]
        /\ acked' = [acked EXCEPT ![Head(queued)] = "kept"]
        /\ UNCHANGED <<up, running, inflight, vramRetries, workerRetries, seq,
                       nextSeq, toNotify, accepted, notified, crashes>>
    BY <1>11 DEF CancelAllStep
  <2>4. flush' \in [on : BOOLEAN, running : BOOLEAN, cancelled : SUBSET Job]
    BY <1>11, <2>1 DEF CancelAllStep, TypeOK
  <2>5. finished' \in Seq(Job)
    BY <1>11, <2>1 DEF CancelAllStep, TypeOK
  <2>6. QED
    BY <2>1, <2>2, <2>3, <2>4, <2>5 DEF TypeOK, WalRecord
<1>12. ASSUME CancelAllEnd PROVE TypeOK'
  <2>1. state' \in [Job -> States] /\ finished' \in Seq(Job)
    <3>1. Purge(state, finished)
      BY <1>12 DEF CancelAllEnd
    <3>2. state \in [Job -> States] /\ finished \in Seq(Job)
      BY DEF TypeOK
    <3>3. QED
      BY <3>1, <3>2, PurgeProperties
  <2>2. /\ cancelRequested' \in [Job -> BOOLEAN]
        /\ acked' \in [Job -> {"no", "kept", "forgotten"}]
    BY <1>12 DEF CancelAllEnd, TypeOK
  <2>3. QED
    BY <1>12, <2>1, <2>2 DEF CancelAllEnd, TypeOK, NoFlush, disk, history
<1>13. ASSUME Crash PROVE TypeOK'
  <2>1. /\ up' = FALSE /\ flush' = NoFlush /\ finished' = <<>>
        /\ queued' = <<>> /\ running' = {} /\ toNotify' = {}
    BY <1>13 DEF Crash
  <2>2. /\ state' \in [Job -> States] /\ cancelRequested' \in [Job -> BOOLEAN]
        /\ vramRetries' \in [Job -> Nat] /\ workerRetries' \in [Job -> Nat]
        /\ seq' \in [Job -> Nat]
        /\ inflight' \in Nat /\ nextSeq' \in Nat /\ walOps' \in Nat
        /\ crashes' \in Nat /\ acked' \in [Job -> {"no", "kept", "forgotten"}]
    BY SMTT(30), <1>13 DEF Crash, TypeOK
  <2>3. UNCHANGED <<wal, accepted, settled, notified>>
    BY <1>13 DEF Crash
  <2>4. /\ <<>> \in Seq(Job) /\ {} \in SUBSET Job
        /\ NoFlush \in [on : BOOLEAN, running : BOOLEAN, cancelled : SUBSET Job]
    BY DEF NoFlush
  <2>5. /\ wal' \in Seq([op : WalOp, job : Job]) /\ accepted' \in SUBSET Job
        /\ settled' \in [Job -> {"none"} \cup Terminal]
        /\ notified' \in [Job -> Nat]
    BY <2>3 DEF TypeOK
  <2>6. /\ up' \in BOOLEAN /\ queued' \in Seq(Job) /\ running' \in SUBSET Job
        /\ finished' \in Seq(Job) /\ toNotify' \in SUBSET Job
        /\ flush' \in [on : BOOLEAN, running : BOOLEAN, cancelled : SUBSET Job]
    BY <2>1, <2>4
  <2>7. QED
    BY <2>2, <2>5, <2>6 DEF TypeOK
<1>14. ASSUME Restart PROVE TypeOK'
  <2>0. PICK n \in 0..MaxDepth : \E q \in [1..n -> Job] :
          /\ queued' = q
          /\ state' = [j \in Job |-> IF j \in ToSet(q) THEN "queued" ELSE "none"]
          /\ seq' = [j \in Job |-> IF j \in ToSet(q)
                                  THEN CHOOSE i \in DOMAIN q : q[i] = j ELSE 0]
          /\ nextSeq' = n
          /\ wal' = IF WalEnabled THEN Compacted(q) ELSE wal
    BY <1>14 DEF Restart
  <2>1. PICK q \in [1..n -> Job] :
          /\ queued' = q
          /\ state' = [j \in Job |-> IF j \in ToSet(q) THEN "queued" ELSE "none"]
          /\ seq' = [j \in Job |-> IF j \in ToSet(q)
                                  THEN CHOOSE i \in DOMAIN q : q[i] = j ELSE 0]
          /\ nextSeq' = n
          /\ wal' = IF WalEnabled THEN Compacted(q) ELSE wal
    BY <2>0
  <2>2. q \in Seq(Job) /\ n \in Nat /\ DOMAIN q = 1..n
    BY <2>1, SeqDef
  <2>3. Compacted(q) \in Seq(WalRecord)
    BY <2>2, CompactedType
  <2>4. \A j \in ToSet(q) : (CHOOSE i \in DOMAIN q : q[i] = j) \in Nat
    BY <2>2 DEF ToSet
  <2>5. seq' \in [Job -> Nat]
    BY <2>1, <2>4
  <2>6. wal' \in Seq(WalRecord)
    BY <1>a, <2>1, <2>3
  <2>7. state' \in [Job -> States]
    BY <2>1
  <2>8. QED
    BY <1>14, <2>1, <2>2, <2>5, <2>6, <2>7
    DEF Restart, TypeOK, history, WalRecord
<1>15. CASE UNCHANGED queueVars
  BY <1>15 DEF TypeOK, queueVars, memory, disk, history
<1>16. QED
  BY <1>1, <1>2, <1>3, <1>5, <1>6, <1>7, <1>8, <1>9, <1>10, <1>11, <1>12,
     <1>13, <1>14, <1>15 DEF QueueNext

\* Every variable of the queue keeps its type, for any number of jobs and
\* any bounds (take, finish, requeue_running, the cancels, crash, replay).
THEOREM QueueTypeCorrect == QueueSpec => []TypeOK
<1> USE BoundAssumption
<1>1. QueueInit => TypeOK
  BY DEF QueueInit, TypeOK, NoFlush, Live, Terminal
<1>2. TypeOK /\ [QueueNext]_queueVars => TypeOK'
  BY QueueStepType
<1>3. QED
  BY <1>1, <1>2, PTL DEF QueueSpec

(***************************************************************************)
(* Consistency of the queue                                                *)
(***************************************************************************)

\* Whatever memory or the log knows of was accepted, so that enqueue(), which
\* takes a job never accepted, meets no trace of it.
OnlyAccepted ==
  /\ \A j \in Job : state[j] # "none" => j \in accepted
  /\ ToSet(finished) \subseteq accepted
  /\ \A i \in DOMAIN wal : wal[i].job \in accepted

\* A purge forgets jobs of the finish order only: none of them is live.
FinishedIsOver == \A j \in ToSet(finished) : state[j] \notin Live

\* Between a death of the daemon and the replay there is nothing in memory.
DownIsEmpty ==
  ~up => /\ \A j \in Job : state[j] = "none" /\ ~cancelRequested[j]
         /\ finished = <<>>

\* The inductive invariant behind QueueConsistent.
QueueInv ==
  TypeOK /\ QueueConsistent /\ OnlyAccepted /\ FinishedIsOver /\ DownIsEmpty

\* take() counts one job more.
LEMMA SlotTaken ==
  ASSUME TypeOK, QueueConsistent, HasSlot, NEW j \in Job,
         state[j] # "running",
         running' = running \cup {j}, inflight' = inflight + 1
  PROVE  inflight' = Cardinality(running') /\ inflight' <= MaxInflight
<1>1. IsFiniteSet(running)
  BY JobAssumption, FS_Subset DEF TypeOK
<1>2. j \notin running
  BY DEF QueueConsistent
<1>3. Cardinality(running') = Cardinality(running) + 1
  BY <1>1, <1>2, FS_AddElement
<1>4. inflight = Cardinality(running)
  BY DEF QueueConsistent
<1>5. inflight + 1 <= MaxInflight
  BY BoundAssumption DEF TypeOK, HasSlot
<1>6. QED
  BY <1>3, <1>4, <1>5

\* finish() and requeue_running() count one job less.
LEMMA SlotFreed ==
  ASSUME TypeOK, QueueConsistent, NEW j \in Job, state[j] = "running",
         running' = running \ {j}, inflight' = Freed(inflight)
  PROVE  inflight' = Cardinality(running') /\ inflight' <= MaxInflight
<1>1. IsFiniteSet(running)
  BY JobAssumption, FS_Subset DEF TypeOK
<1>2. j \in running /\ inflight = Cardinality(running) /\ inflight <= MaxInflight
  BY DEF QueueConsistent
<1>3. Cardinality(running') = Cardinality(running) - 1
  BY <1>1, <1>2, FS_RemoveElement
<1>4. Cardinality(running) # 0
  BY <1>1, <1>2, FS_EmptySet
<1>5. inflight \in Nat /\ MaxInflight \in Nat
  BY BoundAssumption DEF TypeOK
<1>6. inflight' = inflight - 1 /\ inflight - 1 <= MaxInflight
  BY <1>2, <1>4, <1>5 DEF Freed
<1>7. QED
  BY <1>2, <1>3, <1>6

\* An append to the log, compacting or not, brings in no job but the one of
\* the record and those of the queue.
LEMMA LogAccepted ==
  ASSUME NEW A, NEW q \in Seq(Job), NEW rec \in WalRecord, Log(rec, q),
         wal \in Seq(WalRecord),
         \A i \in DOMAIN wal : wal[i].job \in A,
         rec.job \in A, ToSet(q) \subseteq A
  PROVE  \A i \in DOMAIN wal' : wal'[i].job \in A
<1>1. CASE UNCHANGED wal
  BY <1>1
<1>2. CASE wal' = Compacted(q)
  <2>1. DOMAIN Compacted(q) = DOMAIN q
        /\ \A i \in DOMAIN q : Compacted(q)[i].job = q[i]
    BY DEF Compacted, Rec
  <2>2. \A i \in DOMAIN q : q[i] \in A
    BY DEF ToSet
  <2>3. QED
    BY <1>2, <2>1, <2>2
<1>3. CASE wal' = Append(wal, rec)
  <2>1. Len(wal) \in Nat /\ DOMAIN wal = 1..Len(wal)
        /\ DOMAIN wal' = 1..(Len(wal) + 1)
    BY <1>3, LenProperties
  <2>2. (\A i \in 1..Len(wal) : wal'[i] = wal[i]) /\ wal'[Len(wal) + 1] = rec
    BY <1>3, <2>1
  <2>3. \A i \in 1..(Len(wal) + 1) : i \in 1..Len(wal) \/ i = Len(wal) + 1
    BY <2>1
  <2>4. QED
    BY <2>1, <2>2, <2>3
<1>4. QED
  BY <1>1, <1>2, <1>3 DEF Log, disk

\* The queue replay builds holds pending jobs of the log, each once: its order
\* is that of the jobs' first records.
LEMMA ReplayProperties ==
  ASSUME NEW n \in Nat, NEW q \in [1..n -> Job], IsReplay(wal, q),
         wal \in Seq(WalRecord)
  PROVE  q \in Seq(Job) /\ IsInjective(q) /\ ToSet(q) \subseteq Pending(wal)
<1>1. q \in Seq(Job) /\ DOMAIN q = 1..n
  BY SeqDef
<1>2. ToSet(q) \subseteq Pending(wal)
  BY DEF IsReplay
<1>3. ASSUME NEW a \in 1..n, NEW b \in 1..n, a < b
      PROVE  q[a] # q[b]
  <2>1. PICK i \in DOMAIN wal, k \in DOMAIN wal :
          i < k /\ FirstAt(wal, i, q[a]) /\ FirstAt(wal, k, q[b])
    BY <1>1, <1>3 DEF IsReplay
  <2>2. i \in 1..(k - 1)
    <3>1. DOMAIN wal = 1..Len(wal) /\ Len(wal) \in Nat
      BY LenProperties
    <3>2. QED
      BY <2>1, <3>1
  <2>3. IsPhase(wal[i], q[a]) /\ ~IsPhase(wal[i], q[b])
    BY <2>1, <2>2 DEF FirstAt
  <2>4. QED
    BY <2>3
<1>4. \A a, b \in 1..n : a < b \/ b < a \/ a = b
  OBVIOUS
<1>5. IsInjective(q)
  BY <1>1, <1>3, <1>4 DEF IsInjective
<1>6. QED
  BY <1>1, <1>2, <1>5

\* A pending job has a record.
LEMMA PendingHasRecord ==
  ASSUME NEW j \in Pending(wal)
  PROVE  j \in Job /\ \E i \in DOMAIN wal : wal[i].job = j
BY DEF Pending, Rec
\* A purge touches no queued or running job and brings nothing into memory.
LEMMA PurgeKeepsLive ==
  ASSUME NEW st \in [Job -> {"none"} \cup Live \cup Terminal],
         NEW fin \in Seq(Job), Purge(st, fin),
         \A j \in ToSet(fin) : st[j] \notin Live
  PROVE  /\ \A j \in Job : /\ state'[j] = "queued" <=> st[j] = "queued"
                           /\ state'[j] = "running" <=> st[j] = "running"
                           /\ state'[j] # "none" => st[j] # "none"
                           /\ state'[j] = st[j] \/ state'[j] = "none"
         /\ \A j \in ToSet(finished') : state'[j] \notin Live
         /\ ToSet(finished') \subseteq ToSet(fin)
<1>1. /\ ToSet(finished') \subseteq ToSet(fin)
      /\ \A i \in Job : state'[i] = st[i]
                        \/ (state'[i] = "none" /\ i \in ToSet(fin))
  <2> DEFINE T == {"none"} \cup Live \cup Terminal
  <2>1. st \in [Job -> T] /\ "none" \in T
    OBVIOUS
  <2> HIDE DEF T
  <2>2. QED
    BY <2>1, PurgeProperties
<1>2. ToSet(fin) \subseteq Job
  <2>1. DOMAIN fin = 1..Len(fin)
    BY LenProperties
  <2>2. QED
    BY <2>1, ElementOfSeq DEF ToSet
<1>3. \A j \in ToSet(finished') : state'[j] \notin Live
  BY <1>1, <1>2 DEF Live
<1>4. QED
  BY <1>1, <1>3 DEF Live

\* The jobs of a sequence are those at its positions.
LEMMA SeqRange ==
  ASSUME NEW S, NEW q \in Seq(S)
  PROVE  ToSet(q) \subseteq S
<1>1. DOMAIN q = 1..Len(q)
  BY LenProperties
<1>2. QED
  BY <1>1, ElementOfSeq DEF ToSet

\* No operation of the queue breaks the invariant.
LEMMA QueueStepKeeps ==
  QueueInv /\ TypeOK' /\ [QueueNext]_queueVars => QueueInv'
<1> USE BoundAssumption DEF Live, Terminal
<1> SUFFICES ASSUME QueueInv, TypeOK', [QueueNext]_queueVars
             PROVE  QueueInv'
  OBVIOUS
<1>0. TypeOK /\ QueueConsistent /\ OnlyAccepted /\ FinishedIsOver /\ DownIsEmpty
  BY DEF QueueInv
<1> DEFINE States == {"none"} \cup Live \cup Terminal
<1>a. /\ \A j \in Job, o \in WalOp : Rec(o, j) \in WalRecord /\ Rec(o, j).job = j
      /\ wal \in Seq(WalRecord)
      /\ queued \in Seq(Job) /\ finished \in Seq(Job)
      /\ state \in [Job -> States]
  BY <1>0 DEF Rec, WalRecord, TypeOK
<1>b. /\ running = {j \in Job : state[j] = "running"}
      /\ inflight = Cardinality(running) /\ inflight <= MaxInflight
      /\ ToSet(queued) = {j \in Job : state[j] = "queued"}
      /\ IsInjective(queued)
  BY <1>0 DEF QueueConsistent
<1>c. /\ \A j \in Job : state[j] # "none" => j \in accepted
      /\ ToSet(finished) \subseteq accepted
      /\ \A i \in DOMAIN wal : wal[i].job \in accepted
  BY <1>0 DEF OnlyAccepted
<1>d. \A j \in ToSet(finished) : state[j] \notin Live
  BY <1>0 DEF FinishedIsOver
<1>1. ASSUME NEW j \in Job, Enqueue(j) PROVE QueueInv'
  <2>1. /\ j \notin accepted /\ up' /\ up
        /\ state' = [state EXCEPT ![j] = "queued"]
        /\ queued' = Append(queued, j)
        /\ accepted' = accepted \cup {j}
        /\ Log(Rec("enqueue", j), queued')
        /\ UNCHANGED <<running, inflight, finished>>
    BY <1>1 DEF Enqueue, LockFree
  <2>2. state[j] = "none" /\ j \notin ToSet(finished) /\ j \notin ToSet(queued)
    BY <1>a, <1>b, <1>c, <2>1
  <2>3. /\ queued' \in Seq(Job) /\ IsInjective(queued')
        /\ ToSet(queued') = ToSet(queued) \cup {j}
    BY <1>a, <1>b, <2>1, <2>2, PushBackProperties
  <2>4. QueueConsistent'
    BY <1>a, <1>b, <2>1, <2>2, <2>3 DEF QueueConsistent
  <2>5. ToSet(queued') \subseteq accepted'
    BY <1>b, <1>c, <2>1, <2>3
  <2>6. \A i \in DOMAIN wal : wal[i].job \in accepted'
    BY <1>c, <2>1
  <2>7. Rec("enqueue", j) \in WalRecord /\ Rec("enqueue", j).job \in accepted'
    BY <1>a, <2>1 DEF WalOp
  <2>8. \A i \in DOMAIN wal' : wal'[i].job \in accepted'
    BY <1>a, <2>1, <2>3, <2>5, <2>6, <2>7, LogAccepted
  <2>9. OnlyAccepted'
    BY <1>a, <1>c, <2>1, <2>8 DEF OnlyAccepted
  <2>10. FinishedIsOver' /\ DownIsEmpty'
    BY <1>a, <1>d, <2>1, <2>2 DEF FinishedIsOver, DownIsEmpty
  <2>11. QED
    BY <2>4, <2>9, <2>10 DEF QueueInv
<1>2. ASSUME NEW j \in Job, Take(j) PROVE QueueInv'
  <2>1. /\ up' /\ up /\ HasSlot /\ j \in ToSet(queued)
        /\ queued' = Without(queued, j)
        /\ inflight' = inflight + 1
        /\ running' = running \cup {j}
        /\ state' = [state EXCEPT ![j] = "running"]
        /\ Log(Rec("started", j), queued')
        /\ UNCHANGED <<finished, accepted>>
    BY <1>2 DEF Take, LockFree, StillQueued, history
  <2>2. state[j] = "queued" /\ j \notin ToSet(finished) /\ j \in accepted
    BY <1>b, <1>c, <1>d, <2>1
  <2>3. /\ queued' \in Seq(Job) /\ IsInjective(queued')
        /\ ToSet(queued') = ToSet(queued) \ {j}
    BY <1>a, <1>b, <2>1, WithoutType, WithoutProperties
  <2>4. inflight' = Cardinality(running') /\ inflight' <= MaxInflight
    BY <1>0, <2>1, <2>2, SlotTaken
  <2>5. QueueConsistent'
    <3>1. running' = {i \in Job : state'[i] = "running"}
      BY <1>a, <1>b, <2>1
    <3>2. ToSet(queued') = {i \in Job : state'[i] = "queued"}
      BY <1>a, <1>b, <2>1, <2>3
    <3>3. QED
      BY <2>3, <2>4, <3>1, <3>2 DEF QueueConsistent
  <2>6. \A i \in DOMAIN wal' : wal'[i].job \in accepted
    <3>1. ToSet(queued') \subseteq accepted
      BY <1>b, <1>c, <2>3
    <3>2. Rec("started", j) \in WalRecord /\ Rec("started", j).job \in accepted
      BY <1>a, <2>2 DEF WalOp
    <3>3. QED
      BY <1>a, <1>c, <2>1, <2>3, <3>1, <3>2, LogAccepted
  <2>7. OnlyAccepted'
    BY <1>a, <1>c, <2>1, <2>2, <2>6 DEF OnlyAccepted
  <2>8. FinishedIsOver' /\ DownIsEmpty'
    BY <1>a, <1>d, <2>1, <2>2 DEF FinishedIsOver, DownIsEmpty
  <2>9. QED
    BY <2>5, <2>7, <2>8 DEF QueueInv
<1>3. ASSUME UNCHANGED <<up, state, queued, running, inflight, cancelRequested,
                         finished, wal, accepted>>
      PROVE  QueueInv'
  BY <1>0, <1>3 DEF QueueInv, QueueConsistent, OnlyAccepted, FinishedIsOver,
                    DownIsEmpty
<1>4. ASSUME NEW j \in Job, Requeue(j) PROVE QueueInv'
  <2>1. /\ up' /\ up /\ state[j] = "running"
        /\ running' = running \ {j}
        /\ inflight' = Freed(inflight)
        /\ state' = [state EXCEPT ![j] = "queued"]
        /\ queued' = <<j>> \o queued
        /\ Log(Rec("requeue", j), queued')
        /\ UNCHANGED <<finished, accepted>>
    BY <1>4 DEF Requeue, LockFree, MayRequeue, history
  <2>2. j \notin ToSet(queued) /\ j \notin ToSet(finished) /\ j \in accepted
    BY <1>b, <1>c, <1>d, <2>1
  <2>3. /\ queued' \in Seq(Job) /\ IsInjective(queued')
        /\ ToSet(queued') = ToSet(queued) \cup {j}
    BY <1>a, <1>b, <2>1, <2>2, PushFrontProperties
  <2>4. inflight' = Cardinality(running') /\ inflight' <= MaxInflight
    BY <1>0, <2>1, SlotFreed
  <2>5. QueueConsistent'
    <3>1. running' = {i \in Job : state'[i] = "running"}
      BY <1>a, <1>b, <2>1
    <3>2. ToSet(queued') = {i \in Job : state'[i] = "queued"}
      BY <1>a, <1>b, <2>1, <2>3
    <3>3. QED
      BY <2>3, <2>4, <3>1, <3>2 DEF QueueConsistent
  <2>6. \A i \in DOMAIN wal' : wal'[i].job \in accepted
    <3>1. ToSet(queued') \subseteq accepted
      BY <1>b, <1>c, <2>2, <2>3
    <3>2. Rec("requeue", j) \in WalRecord /\ Rec("requeue", j).job \in accepted
      BY <1>a, <2>2 DEF WalOp
    <3>3. QED
      BY <1>a, <1>c, <2>1, <2>3, <3>1, <3>2, LogAccepted
  <2>7. OnlyAccepted'
    BY <1>a, <1>c, <2>1, <2>2, <2>6 DEF OnlyAccepted
  <2>8. FinishedIsOver' /\ DownIsEmpty'
    BY <1>a, <1>d, <2>1, <2>2 DEF FinishedIsOver, DownIsEmpty
  <2>9. QED
    BY <2>5, <2>7, <2>8 DEF QueueInv
<1>5. ASSUME NEW j \in Job, NEW o \in Terminal,
             state[j] \in Live, up', UNCHANGED accepted,
             ToSet(queued') = ToSet(queued) \ {j}, IsInjective(queued'),
             queued' \in Seq(Job),
             running' = running \ {j},
             inflight' = Cardinality(running') /\ inflight' <= MaxInflight,
             Log(Rec("finished", j), queued'),
             Purge([state EXCEPT ![j] = o], Append(finished, j))
      PROVE  QueueInv'
  <2> DEFINE st == [state EXCEPT ![j] = o]
             fin == Append(finished, j)
  <2>1. /\ st \in [Job -> States] /\ fin \in Seq(Job)
        /\ ToSet(fin) = ToSet(finished) \cup {j}
        /\ \A i \in ToSet(fin) : st[i] \notin Live
    <3>1. fin \in Seq(Job) /\ ToSet(fin) = ToSet(finished) \cup {j}
      BY <1>a, PushBackProperties
    <3>2. ToSet(finished) \subseteq Job
      BY <1>a, SeqRange
    <3>3. QED
      BY <1>a, <1>d, <3>1, <3>2
  <2>2. /\ \A i \in Job : st[i] = IF i = j THEN o ELSE state[i]
        /\ j \in accepted
    BY <1>a, <1>c, <1>5
  <2>3. Purge(st, fin)
    BY <1>5
  <2> HIDE DEF st, fin
  <2>4. /\ \A i \in Job : /\ state'[i] = "queued" <=> st[i] = "queued"
                          /\ state'[i] = "running" <=> st[i] = "running"
                          /\ state'[i] # "none" => st[i] # "none"
        /\ \A i \in ToSet(finished') : state'[i] \notin Live
        /\ ToSet(finished') \subseteq ToSet(fin)
    BY <2>1, <2>3, PurgeKeepsLive
  <2>5. QueueConsistent'
    <3>1. running' = {i \in Job : state'[i] = "running"}
      BY <1>b, <1>5, <2>2, <2>4
    <3>2. ToSet(queued') = {i \in Job : state'[i] = "queued"}
      BY <1>b, <1>5, <2>2, <2>4
    <3>3. QED
      BY <1>5, <3>1, <3>2 DEF QueueConsistent
  <2>6. \A i \in DOMAIN wal' : wal'[i].job \in accepted
    <3>1. ToSet(queued') \subseteq accepted
      BY <1>b, <1>c, <1>5
    <3>2. Rec("finished", j) \in WalRecord /\ Rec("finished", j).job \in accepted
      BY <1>a, <2>2 DEF WalOp
    <3>3. QED
      BY <1>a, <1>c, <1>5, <3>1, <3>2, LogAccepted
  <2>7. OnlyAccepted'
    <3>1. \A i \in Job : state'[i] # "none" => i \in accepted'
      BY <1>c, <1>5, <2>2, <2>4
    <3>2. ToSet(finished') \subseteq accepted'
      BY <1>c, <1>5, <2>1, <2>2, <2>4
    <3>3. QED
      BY <1>5, <2>6, <3>1, <3>2 DEF OnlyAccepted
  <2>8. FinishedIsOver' /\ DownIsEmpty'
    BY <1>5, <2>4 DEF FinishedIsOver, DownIsEmpty
  <2>9. QED
    BY <2>5, <2>7, <2>8 DEF QueueInv
<1>6. ASSUME NEW j \in Job, NEW r \in {"ok", "error", "cancelError"},
             Finish(j, r)
      PROVE  QueueInv'
  <2> DEFINE o == Outcome(r, cancelRequested[j])
  <2>1. o \in Terminal
    BY DEF Outcome
  <2>2. /\ up' /\ state[j] = "running"
        /\ running' = running \ {j}
        /\ inflight' = IF j \in running THEN Freed(inflight) ELSE inflight
        /\ Log(Rec("finished", j), queued)
        /\ UNCHANGED <<queued, accepted>>
    BY <1>6 DEF Finish, LockFree
  <2>3. Purge([state EXCEPT ![j] = o], Append(finished, j))
    BY <1>6 DEF Finish
  <2> HIDE DEF o
  <2>4. inflight' = Cardinality(running') /\ inflight' <= MaxInflight
    BY <1>0, <1>b, <2>2, SlotFreed
  <2>5. /\ ToSet(queued') = ToSet(queued) \ {j} /\ IsInjective(queued')
        /\ queued' \in Seq(Job)
    BY <1>a, <1>b, <2>2
  <2>6. QED
    BY <1>5, <2>1, <2>2, <2>3, <2>4, <2>5
<1>7. ASSUME NEW j \in Job, CancelQueued(j) PROVE QueueInv'
  <2>1. /\ up' /\ state[j] = "queued"
        /\ queued' = Without(queued, j)
        /\ Log(Rec("finished", j), queued')
        /\ UNCHANGED <<running, inflight, accepted>>
    BY <1>7 DEF CancelQueued, LockFree, CancelsAtOnce
  <2>2. Purge([state EXCEPT ![j] = "cancelled"], Append(finished, j))
    BY <1>7 DEF CancelQueued
  <2>3. j \in ToSet(queued) /\ running = running \ {j}
    BY <1>b, <2>1
  <2>4. /\ queued' \in Seq(Job) /\ IsInjective(queued')
        /\ ToSet(queued') = ToSet(queued) \ {j}
    BY <1>a, <1>b, <2>1, <2>3, WithoutType, WithoutProperties
  <2>5. inflight' = Cardinality(running') /\ inflight' <= MaxInflight
    BY <1>b, <2>1
  <2>6. QED
    BY <1>5, <2>1, <2>2, <2>3, <2>4, <2>5
<1>8. ASSUME NEW j \in Job, CancelRunning(j) PROVE QueueInv'
  <2>1. /\ up' /\ UNCHANGED <<state, queued, running, inflight, finished, wal,
                              accepted>>
    BY <1>8 DEF CancelRunning, LockFree, disk, history
  <2>2. QED
    BY <1>0, <2>1 DEF QueueInv, QueueConsistent, OnlyAccepted, FinishedIsOver,
                      DownIsEmpty
<1>9. ASSUME CancelAllStep PROVE QueueInv'
  <2> DEFINE j == Head(queued)
  <2>1. /\ up' /\ queued # <<>>
        /\ queued' = Tail(queued)
        /\ state' = [state EXCEPT ![j] = "cancelled"]
        /\ finished' = Append(finished, j)
        /\ Log(Rec("finished", j), queued')
        /\ UNCHANGED <<running, inflight, accepted>>
    BY <1>9 DEF CancelAllStep
  <2>2. /\ j \in ToSet(queued) /\ j \in Job
        /\ queued' \in Seq(Job) /\ IsInjective(queued')
        /\ ToSet(queued') = ToSet(queued) \ {j}
    BY <1>a, <1>b, <2>1, TailProperties
  <2> HIDE DEF j
  <2>3. state[j] = "queued" /\ j \in accepted
    BY <1>b, <1>c, <2>2
  <2>4. QueueConsistent'
    <3>1. running' = {i \in Job : state'[i] = "running"}
      BY <1>a, <1>b, <2>1, <2>2, <2>3
    <3>2. ToSet(queued') = {i \in Job : state'[i] = "queued"}
      BY <1>a, <1>b, <2>1, <2>2, <2>3
    <3>3. QED
      BY <1>b, <2>1, <2>2, <3>1, <3>2 DEF QueueConsistent
  <2>5. \A i \in DOMAIN wal' : wal'[i].job \in accepted
    <3>1. ToSet(queued') \subseteq accepted
      BY <1>b, <1>c, <2>2
    <3>2. Rec("finished", j) \in WalRecord /\ Rec("finished", j).job \in accepted
      BY <1>a, <2>2, <2>3 DEF WalOp
    <3>3. QED
      BY <1>a, <1>c, <2>1, <2>2, <3>1, <3>2, LogAccepted
  <2>6. ToSet(finished') = ToSet(finished) \cup {j}
    BY <1>a, <2>1, <2>2, PushBackProperties
  <2>7. ToSet(finished) \subseteq Job
    BY <1>a, SeqRange
  <2>8. OnlyAccepted'
    BY <1>a, <1>c, <2>1, <2>2, <2>3, <2>5, <2>6 DEF OnlyAccepted
  <2>9. FinishedIsOver' /\ DownIsEmpty'
    BY <1>a, <1>d, <2>1, <2>2, <2>6, <2>7 DEF FinishedIsOver, DownIsEmpty
  <2>10. QED
    BY <2>4, <2>8, <2>9 DEF QueueInv
<1>10. ASSUME CancelAllEnd PROVE QueueInv'
  <2>1. up' /\ UNCHANGED <<queued, running, inflight, wal, accepted>>
    BY <1>10 DEF CancelAllEnd, disk, history
  <2>2. Purge(state, finished)
    BY <1>10 DEF CancelAllEnd
  <2>3. /\ \A i \in Job : /\ state'[i] = "queued" <=> state[i] = "queued"
                          /\ state'[i] = "running" <=> state[i] = "running"
                          /\ state'[i] # "none" => state[i] # "none"
        /\ \A i \in ToSet(finished') : state'[i] \notin Live
        /\ ToSet(finished') \subseteq ToSet(finished)
    BY <1>a, <1>d, <2>2, PurgeKeepsLive
  <2>4. QueueConsistent'
    BY <1>b, <2>1, <2>3 DEF QueueConsistent
  <2>5. OnlyAccepted' /\ FinishedIsOver' /\ DownIsEmpty'
    BY <1>c, <2>1, <2>3 DEF OnlyAccepted, FinishedIsOver, DownIsEmpty
  <2>6. QED
    BY <2>4, <2>5 DEF QueueInv
<1>11. ASSUME Crash PROVE QueueInv'
  <2>1. /\ state' = [j \in Job |-> "none"]
        /\ queued' = <<>> /\ running' = {} /\ inflight' = 0
        /\ cancelRequested' = [j \in Job |-> FALSE]
        /\ finished' = <<>>
        /\ UNCHANGED <<wal, accepted>>
    BY <1>11 DEF Crash
  <2>2. ToSet(queued') = {} /\ ToSet(finished') = {} /\ IsInjective(queued')
    BY <2>1 DEF ToSet, IsInjective
  <2>3. Cardinality(running') = 0
    BY <2>1, FS_EmptySet
  <2>4. QueueConsistent'
    BY <2>1, <2>2, <2>3 DEF QueueConsistent
  <2>5. OnlyAccepted' /\ FinishedIsOver' /\ DownIsEmpty'
    BY <1>c, <2>1, <2>2 DEF OnlyAccepted, FinishedIsOver, DownIsEmpty
  <2>6. QED
    BY <2>4, <2>5 DEF QueueInv
<1>12. ASSUME Restart PROVE QueueInv'
  <2>1. /\ ~up /\ up'
        /\ UNCHANGED <<running, inflight, finished, accepted>>
        /\ \E n \in 0..MaxDepth : \E q \in [1..n -> Job] :
             /\ IsReplay(wal, q)
             /\ queued' = q
             /\ state' = [j \in Job |-> IF j \in ToSet(q) THEN "queued" ELSE "none"]
             /\ wal' = IF WalEnabled THEN Compacted(q) ELSE wal
    BY <1>12 DEF Restart, history
  <2>2. PICK n \in 0..MaxDepth : \E q \in [1..n -> Job] :
             /\ IsReplay(wal, q)
             /\ queued' = q
             /\ state' = [j \in Job |-> IF j \in ToSet(q) THEN "queued" ELSE "none"]
             /\ wal' = IF WalEnabled THEN Compacted(q) ELSE wal
    BY <2>1
  <2>3. PICK q \in [1..n -> Job] :
             /\ IsReplay(wal, q)
             /\ queued' = q
             /\ state' = [j \in Job |-> IF j \in ToSet(q) THEN "queued" ELSE "none"]
             /\ wal' = IF WalEnabled THEN Compacted(q) ELSE wal
    BY <2>2
  <2>4. q \in Seq(Job) /\ IsInjective(q) /\ ToSet(q) \subseteq Pending(wal)
    <3>1. n \in Nat
      OBVIOUS
    <3>2. QED
      BY <1>a, <2>3, <3>1, ReplayProperties
  <2>5. ToSet(q) \subseteq Job /\ ToSet(q) \subseteq accepted
    BY <1>c, <2>4, PendingHasRecord
  <2>6. finished = <<>> /\ running = {}
    BY <1>0, <1>b, <2>1 DEF DownIsEmpty
  <2>7. QueueConsistent'
    <3>1. running' = {i \in Job : state'[i] = "running"}
      BY <2>1, <2>3, <2>6
    <3>2. ToSet(queued') = {i \in Job : state'[i] = "queued"}
      BY <2>3, <2>5
    <3>3. QED
      BY <1>b, <2>1, <2>3, <2>4, <3>1, <3>2 DEF QueueConsistent
  <2>8. \A i \in DOMAIN wal' : wal'[i].job \in accepted
    <3>1. DOMAIN Compacted(q) = DOMAIN q
          /\ \A i \in DOMAIN q : Compacted(q)[i].job = q[i]
      BY DEF Compacted, Rec
    <3>2. \A i \in DOMAIN q : q[i] \in accepted
      BY <2>5 DEF ToSet
    <3>3. QED
      BY <1>c, <2>3, <3>1, <3>2
  <2>9. ToSet(finished') = {}
    BY <2>1, <2>6 DEF ToSet
  <2>10. OnlyAccepted' /\ FinishedIsOver' /\ DownIsEmpty'
    BY <2>1, <2>3, <2>5, <2>8, <2>9 DEF OnlyAccepted, FinishedIsOver, DownIsEmpty
  <2>11. QED
    BY <2>7, <2>10 DEF QueueInv
<1>13. ASSUME NEW j \in Job, Notify(j) PROVE QueueInv'
  BY <1>3, <1>13 DEF Notify, disk
<1>14. ASSUME NEW b \in BOOLEAN, CancelAllBegin(b) PROVE QueueInv'
  BY <1>3, <1>14 DEF CancelAllBegin, disk, history
<1>15. CASE UNCHANGED queueVars
  BY <1>3, <1>15 DEF queueVars, memory, disk, history
<1>16. ASSUME NEW j \in Job, RequeueVram(j) \/ RequeueWorker(j) PROVE QueueInv'
  BY <1>4, <1>16 DEF RequeueVram, RequeueWorker
<1>17. QED
  BY <1>1, <1>2, <1>6, <1>7, <1>8, <1>9, <1>10, <1>11, <1>12, <1>13, <1>14,
     <1>15, <1>16 DEF QueueNext

\* The first start finds the invariant true: nothing is accepted or logged.
LEMMA QueueInitInv == QueueInit => QueueInv
<1> USE BoundAssumption DEF Live, Terminal
<1> SUFFICES ASSUME QueueInit PROVE QueueInv
  OBVIOUS
<1>1. TypeOK
  BY DEF QueueInit, TypeOK, NoFlush
<1>2. /\ ToSet(queued) = {} /\ ToSet(finished) = {}
      /\ IsInjective(queued) /\ DOMAIN wal = {}
  BY DEF QueueInit, ToSet, IsInjective
<1>3. Cardinality(running) = 0
  BY FS_EmptySet DEF QueueInit
<1>4. QueueConsistent
  <2>1. running = {j \in Job : state[j] = "running"}
    BY DEF QueueInit
  <2>2. ToSet(queued) = {j \in Job : state[j] = "queued"}
    BY <1>2 DEF QueueInit
  <2>3. inflight = 0 /\ inflight <= MaxInflight
    BY DEF QueueInit
  <2>4. QED
    BY <1>2, <1>3, <2>1, <2>2, <2>3 DEF QueueConsistent
<1>5. OnlyAccepted /\ FinishedIsOver /\ DownIsEmpty
  BY <1>2 DEF QueueInit, OnlyAccepted, FinishedIsOver, DownIsEmpty
<1>6. QED
  BY <1>1, <1>4, <1>5 DEF QueueInv

\* The invariant holds at the first start and no operation breaks it.
THEOREM QueueInvariant == QueueSpec => []QueueInv
<1>1. QueueInit => QueueInv
  BY QueueInitInv
<1>2. QueueInv /\ TypeOK' /\ [QueueNext]_queueVars => QueueInv'
  BY QueueStepKeeps
<1>3. QED
  BY <1>1, <1>2, QueueTypeCorrect, PTL DEF QueueSpec

\* At every moment the inflight counter equals the number of running jobs and
\* stays within the cap, and the queue holds exactly the queued jobs, once
\* each, for any number of jobs, any bounds and across crashes.
THEOREM QueueAlwaysConsistent == QueueSpec => []QueueConsistent
<1>1. QueueInv => QueueConsistent
  BY DEF QueueInv
<1>2. QED
  BY <1>1, QueueInvariant, PTL

(***************************************************************************)
(* The end of a job: a recorded end is final, a cancel sticks, the         *)
(* completion callback runs at most once.  These rest on QueueInvariant,   *)
(* whose invariant is used here on both sides of every step.               *)
(***************************************************************************)

(***************************************************************************)
(* Which jobs a log leaves to be replayed                                  *)
(***************************************************************************)

\* After a compaction only queued jobs are pending.
LEMMA PendingCompacted ==
  ASSUME NEW q \in Seq(Job)
  PROVE  Pending(Compacted(q)) \subseteq ToSet(q)
<1> SUFFICES ASSUME NEW j \in Pending(Compacted(q))
             PROVE  j \in ToSet(q)
  OBVIOUS
<1>1. PICK i \in DOMAIN Compacted(q) : Compacted(q)[i] = Rec("enqueue", j)
  BY DEF Pending
<1>2. i \in DOMAIN q /\ Compacted(q)[i] = Rec("enqueue", q[i])
  BY <1>1 DEF Compacted
<1>3. q[i] = j
  BY <1>1, <1>2 DEF Rec
<1>4. QED
  BY <1>2, <1>3 DEF ToSet

\* A record makes at most its own job pending, and one of a finish makes that
\* job not pending.
LEMMA PendingAppended ==
  ASSUME NEW w \in Seq(WalRecord), NEW o \in WalOp, NEW j \in Job
  PROVE  /\ Pending(Append(w, Rec(o, j))) \subseteq Pending(w) \cup {j}
         /\ o = "finished" => j \notin Pending(Append(w, Rec(o, j)))
<1> DEFINE rec == Rec(o, j)
           v == Append(w, rec)
           n == Len(w)
<1>1. rec \in WalRecord /\ rec.job = j /\ rec.op = o
  BY DEF Rec, WalRecord
<1> HIDE DEF rec
<1>2. /\ n \in Nat /\ DOMAIN w = 1..n /\ DOMAIN v = 1..(n + 1) /\ Len(v) = n + 1
      /\ \A k \in 1..n : v[k] = w[k]
      /\ v[n + 1] = rec
  BY <1>1, LenProperties
<1> HIDE DEF v, n
<1>3. \A k \in 1..(n + 1) : k \in 1..n \/ k = n + 1
  BY <1>2
<1>4. ASSUME NEW i \in Pending(v), i # j
      PROVE  i \in Pending(w)
  <2>1. i \in Job
    BY DEF Pending
  <2>2. ~IsPhase(rec, i) /\ rec # Rec("enqueue", i)
    BY <1>1, <1>4 DEF IsPhase, Rec
  <2>3. \E k \in DOMAIN w : w[k] = Rec("enqueue", i)
    <3>1. PICK k \in DOMAIN v : v[k] = Rec("enqueue", i)
      BY DEF Pending
    <3>2. k \in 1..n
      BY <1>2, <1>3, <2>2, <3>1
    <3>3. QED
      BY <1>2, <3>1, <3>2
  <2>4. \E k \in DOMAIN w : /\ IsPhase(w[k], i) /\ w[k].op # "finished"
                            /\ \A l \in (k + 1)..Len(w) : ~IsPhase(w[l], i)
    <3>1. PICK k \in DOMAIN v : /\ IsPhase(v[k], i) /\ v[k].op # "finished"
                                /\ \A l \in (k + 1)..Len(v) : ~IsPhase(v[l], i)
      BY DEF Pending
    <3>2. k \in 1..n /\ v[k] = w[k]
      BY <1>2, <1>3, <2>2, <3>1
    <3>3. \A l \in (k + 1)..n : l \in 1..n /\ l \in (k + 1)..(n + 1)
      BY <1>2, <3>2
    <3>4. \A l \in (k + 1)..n : ~IsPhase(w[l], i)
      BY <1>2, <3>1, <3>3
    <3>5. QED
      BY <1>2, <3>1, <3>2, <3>4 DEF n
  <2>5. QED
    BY <2>1, <2>3, <2>4 DEF Pending
<1>5. ASSUME o = "finished" PROVE j \notin Pending(v)
  <2> SUFFICES ASSUME NEW k \in DOMAIN v,
                      IsPhase(v[k], j), v[k].op # "finished",
                      \A l \in (k + 1)..Len(v) : ~IsPhase(v[l], j)
               PROVE  FALSE
    BY DEF Pending
  <2>1. k \in 1..n
    BY <1>1, <1>2, <1>3, <1>5
  <2>2. n + 1 \in (k + 1)..Len(v)
    BY <1>2, <2>1
  <2>3. IsPhase(v[n + 1], j)
    BY <1>1, <1>2, <1>5 DEF IsPhase
  <2>4. QED
    BY <2>2, <2>3
<1>6. QED
  BY <1>4, <1>5 DEF v, rec

\* The same for _append_wal, which may compact.
LEMMA PendingLogged ==
  ASSUME NEW q \in Seq(Job), NEW o \in WalOp, NEW j \in Job, Log(Rec(o, j), q),
         wal \in Seq(WalRecord), WalEnabled \/ wal = <<>>
  PROVE  /\ WalEnabled \/ wal' = <<>>
         /\ Pending(wal') \subseteq Pending(wal) \cup ToSet(q) \cup {j}
         /\ o = "finished" /\ j \notin ToSet(q) => j \notin Pending(wal')
<1>1. CASE ~WalEnabled
  <2>1. wal' = <<>> /\ wal = <<>>
    BY <1>1 DEF Log, disk
  <2>2. Pending(<<>>) = {}
    BY DEF Pending
  <2>3. QED
    BY <2>1, <2>2
<1>2. CASE WalEnabled /\ wal' = Compacted(q)
  BY <1>2, PendingCompacted
<1>3. CASE WalEnabled /\ wal' = Append(wal, Rec(o, j))
  BY <1>3, PendingAppended
<1>4. QED
  BY <1>1, <1>2, <1>3 DEF Log

(***************************************************************************)
(* A recorded end is final                                                 *)
(***************************************************************************)

\* NoResurrection with what makes it inductive: only accepted jobs end, and
\* without a WAL there is no log to replay.
EndInv ==
  /\ NoResurrection
  /\ \A j \in Job : settled[j] # "none" => j \in accepted
  /\ WalEnabled \/ wal = <<>>

\* It holds at the first start and no operation breaks it.
THEOREM EndInvariant == QueueSpec => []EndInv
<1> USE BoundAssumption DEF Live, Terminal
<1>1. QueueInit => EndInv
  BY DEF QueueInit, EndInv, NoResurrection
<1>2. QueueInv /\ QueueInv' /\ EndInv /\ [QueueNext]_queueVars => EndInv'
  <2> SUFFICES ASSUME QueueInv, QueueInv', EndInv, [QueueNext]_queueVars
               PROVE  EndInv'
    OBVIOUS
  <2>a. /\ \A j \in Job : settled[j] # "none" =>
             state[j] \notin Live /\ j \notin Pending(wal) /\ j \in accepted
        /\ WalEnabled \/ wal = <<>>
    BY DEF EndInv, NoResurrection
  <2>b. /\ wal \in Seq(WalRecord) /\ queued' \in Seq(Job)
        /\ ToSet(queued') = {j \in Job : state'[j] = "queued"}
        /\ settled \in [Job -> {"none"} \cup Terminal]
        /\ state \in [Job -> {"none"} \cup Live \cup Terminal]
        /\ finished \in Seq(Job)
    BY DEF QueueInv, TypeOK, QueueConsistent, WalRecord
  <2>c. \A j \in Job : state[j] \in Live => j \in accepted /\ settled[j] = "none"
    BY <2>a DEF QueueInv, OnlyAccepted
  <2>1. ASSUME NEW j \in Job, NEW o \in WalOp, Log(Rec(o, j), queued'),
               UNCHANGED settled, accepted \subseteq accepted',
               settled[j] = "none",
               \A i \in Job : i # j => state'[i] = state[i]
        PROVE  EndInv'
    <3>1. /\ WalEnabled \/ wal' = <<>>
          /\ Pending(wal') \subseteq Pending(wal) \cup ToSet(queued') \cup {j}
      BY <2>a, <2>b, <2>1, PendingLogged
    <3>2. ASSUME NEW i \in Job, settled[i] # "none"
          PROVE  state'[i] \notin Live /\ i \notin Pending(wal') /\ i \in accepted'
      <4>1. i # j /\ state'[i] = state[i]
        BY <2>1, <3>2
      <4>2. QED
        BY <2>a, <2>b, <2>1, <3>1, <3>2, <4>1
    <3>3. QED
      BY <2>1, <3>1, <3>2 DEF EndInv, NoResurrection
  <2>2. ASSUME NEW j \in Job, state[j] \in Live, state'[j] \notin Live,
               Log(Rec("finished", j), queued'), UNCHANGED accepted,
               \A i \in Job : i # j => settled'[i] = settled[i],
               \A i \in Job : i # j /\ state'[i] \in Live => state[i] \in Live
        PROVE  EndInv'
    <3>1. /\ WalEnabled \/ wal' = <<>>
          /\ Pending(wal') \subseteq Pending(wal) \cup ToSet(queued') \cup {j}
          /\ j \notin Pending(wal')
      <4>1. j \notin ToSet(queued')
        BY <2>b, <2>2
      <4>2. "finished" \in WalOp
        BY DEF WalOp
      <4>3. QED
        BY <2>a, <2>b, <2>2, <4>1, <4>2, PendingLogged
    <3>2. ASSUME NEW i \in Job, settled'[i] # "none"
          PROVE  state'[i] \notin Live /\ i \notin Pending(wal') /\ i \in accepted'
      <4>1. CASE i = j
        BY <2>c, <2>2, <3>1, <4>1
      <4>2. CASE i # j
        BY <2>a, <2>b, <2>2, <3>1, <3>2, <4>2
      <4>3. QED
        BY <4>1, <4>2
    <3>3. QED
      BY <3>1, <3>2 DEF EndInv, NoResurrection
  <2>3. ASSUME UNCHANGED <<settled, wal, accepted>>,
               \A i \in Job : state'[i] \in Live => state[i] \in Live
        PROVE  EndInv'
    BY <2>a, <2>3 DEF EndInv, NoResurrection
  <2>4. ASSUME NEW j \in Job, Enqueue(j) PROVE EndInv'
    <3>1. /\ j \notin accepted /\ accepted' = accepted \cup {j}
          /\ queued' = Append(queued, j)
          /\ Log(Rec("enqueue", j), Append(queued, j))
          /\ state' = [state EXCEPT ![j] = "queued"]
          /\ UNCHANGED settled
      BY <2>4 DEF Enqueue
    <3>2. settled[j] = "none"
      BY <2>a, <3>1
    <3>3. "enqueue" \in WalOp
      BY DEF WalOp
    <3>4. QED
      BY <2>1, <2>b, <3>1, <3>2, <3>3
  <2>5. ASSUME NEW j \in Job, Take(j) PROVE EndInv'
    <3>1. /\ j \in ToSet(queued) /\ queued' = Without(queued, j)
          /\ Log(Rec("started", j), Without(queued, j))
          /\ state' = [state EXCEPT ![j] = "running"]
          /\ UNCHANGED <<settled, accepted>>
      BY <2>5 DEF Take, StillQueued, history
    <3>2. settled[j] = "none"
      BY <2>c, <3>1 DEF QueueInv, QueueConsistent
    <3>3. "started" \in WalOp
      BY DEF WalOp
    <3>4. QED
      BY <2>1, <2>b, <3>1, <3>2, <3>3
  <2>6. ASSUME NEW j \in Job, Requeue(j) PROVE EndInv'
    <3>1. /\ state[j] = "running" /\ queued' = <<j>> \o queued
          /\ Log(Rec("requeue", j), <<j>> \o queued)
          /\ state' = [state EXCEPT ![j] = "queued"]
          /\ UNCHANGED <<settled, accepted>>
      BY <2>6 DEF Requeue, MayRequeue, history
    <3>2. settled[j] = "none"
      BY <2>c, <3>1
    <3>3. "requeue" \in WalOp
      BY DEF WalOp
    <3>4. QED
      BY <2>1, <2>b, <3>1, <3>2, <3>3
  <2>7. ASSUME NEW j \in Job, NEW o \in Terminal, state[j] \in Live,
               Purge([state EXCEPT ![j] = o], Append(finished, j)),
               Log(Rec("finished", j), queued'), UNCHANGED accepted,
               settled' = [settled EXCEPT ![j] = o]
        PROVE  EndInv'
    <3> DEFINE st == [state EXCEPT ![j] = o]
               fin == Append(finished, j)
               T == {"none"} \cup Live \cup Terminal
    <3>1. /\ st \in [Job -> T] /\ fin \in Seq(Job) /\ "none" \in T
          /\ Purge(st, fin)
      BY <2>b, <2>7
    <3>2. \A i \in Job : st[i] = IF i = j THEN o ELSE state[i]
      BY <2>b, <2>7
    <3> HIDE DEF st, fin, T
    <3>3. \A i \in Job : state'[i] = st[i] \/ state'[i] = "none"
      BY <3>1, PurgeProperties
    <3>4. QED
      BY <2>2, <2>b, <2>7, <3>2, <3>3
  <2>8. ASSUME NEW j \in Job, NEW r \in {"ok", "error", "cancelError"},
               Finish(j, r)
        PROVE  EndInv'
    <3> DEFINE o == Outcome(r, cancelRequested[j])
    <3>1. o \in Terminal
      BY DEF Outcome
    <3>2. /\ state[j] = "running"
          /\ Log(Rec("finished", j), queued)
          /\ UNCHANGED <<queued, accepted>>
          /\ settled' = [settled EXCEPT ![j] = o]
          /\ Purge([state EXCEPT ![j] = o], Append(finished, j))
      BY <2>8 DEF Finish
    <3> HIDE DEF o
    <3>3. QED
      BY <2>7, <3>1, <3>2
  <2>9. ASSUME NEW j \in Job, CancelQueued(j) PROVE EndInv'
    <3>1. /\ state[j] = "queued"
          /\ queued' = Without(queued, j)
          /\ Log(Rec("finished", j), Without(queued, j))
          /\ UNCHANGED accepted
          /\ settled' = [settled EXCEPT ![j] = "cancelled"]
          /\ Purge([state EXCEPT ![j] = "cancelled"], Append(finished, j))
      BY <2>9 DEF CancelQueued, CancelsAtOnce
    <3>2. QED
      BY <2>7, <3>1
  <2>10. ASSUME CancelAllStep PROVE EndInv'
    <3> DEFINE j == Head(queued)
    <3>1. /\ queued # <<>> /\ queued' = Tail(queued)
          /\ Log(Rec("finished", j), Tail(queued))
          /\ state' = [state EXCEPT ![j] = "cancelled"]
          /\ settled' = [settled EXCEPT ![j] = "cancelled"]
          /\ UNCHANGED accepted
      BY <2>10 DEF CancelAllStep
    <3>2. j \in Job /\ state[j] = "queued"
      <4>1. /\ queued \in Seq(Job) /\ IsInjective(queued)
            /\ ToSet(queued) = {i \in Job : state[i] = "queued"}
        BY DEF QueueInv, TypeOK, QueueConsistent
      <4>2. j \in ToSet(queued)
        BY <3>1, <4>1, TailProperties
      <4>3. QED
        BY <4>1, <4>2
    <3> HIDE DEF j
    <3>3. QED
      BY <2>2, <2>b, <3>1, <3>2
  <2>11. ASSUME CancelAllEnd PROVE EndInv'
    <3> DEFINE T == {"none"} \cup Live \cup Terminal
    <3>1. /\ state \in [Job -> T] /\ "none" \in T
          /\ Purge(state, finished)
      BY <2>b, <2>11 DEF CancelAllEnd
    <3> HIDE DEF T
    <3>2. \A i \in Job : state'[i] = state[i] \/ state'[i] = "none"
      BY <2>b, <3>1, PurgeProperties
    <3>3. UNCHANGED <<settled, wal, accepted>>
      BY <2>11 DEF CancelAllEnd, disk, history
    <3>4. QED
      BY <2>3, <3>2, <3>3
  <2>12. ASSUME Crash PROVE EndInv'
    <3>1. state' = [j \in Job |-> "none"] /\ UNCHANGED <<settled, wal, accepted>>
      BY <2>12 DEF Crash
    <3>2. QED
      BY <2>3, <3>1
  <2>13. ASSUME Restart PROVE EndInv'
    <3>1. /\ UNCHANGED <<settled, accepted>>
          /\ \E n \in 0..MaxDepth : \E q \in [1..n -> Job] :
               /\ IsReplay(wal, q)
               /\ queued' = q
               /\ state' = [j \in Job |-> IF j \in ToSet(q) THEN "queued" ELSE "none"]
               /\ wal' = IF WalEnabled THEN Compacted(q) ELSE wal
      BY <2>13 DEF Restart, history
    <3>2. /\ ToSet(queued') \subseteq Pending(wal)
          /\ state' = [j \in Job |-> IF j \in ToSet(queued') THEN "queued"
                                                            ELSE "none"]
          /\ wal' = IF WalEnabled THEN Compacted(queued') ELSE wal
      BY <3>1 DEF IsReplay
    <3>3. WalEnabled => Pending(wal') \subseteq ToSet(queued')
      BY <2>b, <3>2, PendingCompacted
    <3>4. ASSUME NEW i \in Job, settled'[i] # "none"
          PROVE  state'[i] \notin Live /\ i \notin Pending(wal') /\ i \in accepted'
      <4>1. i \notin Pending(wal) /\ i \in accepted'
        BY <2>a, <3>1, <3>4
      <4>2. QED
        BY <3>2, <3>3, <4>1
    <3>5. QED
      BY <2>a, <3>2, <3>4 DEF EndInv, NoResurrection
  <2>14. ASSUME UNCHANGED <<state, settled, wal, accepted>> PROVE EndInv'
    BY <2>3, <2>14
  <2>15. ASSUME NEW j \in Job, Notify(j) \/ CancelRunning(j) PROVE EndInv'
    BY <2>14, <2>15 DEF Notify, CancelRunning, disk, history
  <2>16. ASSUME NEW b \in BOOLEAN, CancelAllBegin(b) PROVE EndInv'
    BY <2>14, <2>16 DEF CancelAllBegin, disk, history
  <2>17. CASE UNCHANGED queueVars
    BY <2>14, <2>17 DEF queueVars, memory, disk, history
  <2>18. ASSUME NEW j \in Job, RequeueVram(j) \/ RequeueWorker(j) PROVE EndInv'
    BY <2>6, <2>18 DEF RequeueVram, RequeueWorker
  <2>19. QED
    BY <2>4, <2>5, <2>8, <2>9, <2>10, <2>11, <2>12, <2>13, <2>15, <2>16, <2>17,
       <2>18 DEF QueueNext
<1>3. QED
  BY <1>1, <1>2, QueueInvariant, PTL DEF QueueSpec

\* The end of a job, once logged, is final for any number of jobs, crashes,
\* replays and compactions: the job is never queued, run or replayed again.
THEOREM EndIsFinal == QueueSpec => []NoResurrection
<1>1. EndInv => NoResurrection
  BY DEF EndInv
<1>2. QED
  BY <1>1, EndInvariant, PTL

\* The purge at the end of a job leaves the other running jobs as they are.
LEMMA PurgeAfterEnd ==
  ASSUME NEW j \in Job, NEW o \in Terminal,
         state \in [Job -> {"none"} \cup Live \cup Terminal],
         finished \in Seq(Job),
         \A i \in ToSet(finished) : state[i] \notin Live,
         Purge([state EXCEPT ![j] = o], Append(finished, j))
  PROVE  \A i \in Job : i # j /\ state[i] = "running" => state'[i] = "running"
<1> DEFINE st == [state EXCEPT ![j] = o]
           fin == Append(finished, j)
           T == {"none"} \cup Live \cup Terminal
<1>1. /\ st \in [Job -> T] /\ fin \in Seq(Job) /\ "none" \in T
      /\ Purge(st, fin)
  OBVIOUS
<1>2. \A i \in Job : st[i] = IF i = j THEN o ELSE state[i]
  OBVIOUS
<1>3. ToSet(fin) = ToSet(finished) \cup {j}
  BY PushBackProperties
<1> HIDE DEF st, fin, T
<1>4. \A i \in Job : state'[i] = st[i] \/ i \in ToSet(fin)
  BY <1>1, PurgeProperties
<1>5. QED
  BY <1>2, <1>3, <1>4 DEF Live

(***************************************************************************)
(* A cancel sticks                                                         *)
(***************************************************************************)

\* Only an accepted job can be cancelled, a flag in memory is one of a cancel
\* that is known, and such a cancel is of a job that runs with its flag or one
\* the log has as cancelled.
CancelInv ==
  \A j \in Job :
    /\ cancelRequested[j] => acked[j] = "kept"
    /\ acked[j] = "kept" =>
         /\ j \in accepted
         /\ \/ state[j] = "running" /\ cancelRequested[j] /\ settled[j] = "none"
            \/ settled[j] = "cancelled"

\* A cancel that was acknowledged is undone by nothing but the death of the
\* daemon during the job's run: no requeue, retry, result, flush, compaction or
\* replay gives the job another end.
THEOREM CancelAlwaysSticks == QueueSpec => []CancelSticks
<1> USE DEF Live, Terminal
<1>1. QueueInit => CancelInv
  BY DEF QueueInit, CancelInv
<1>2. QueueInv /\ QueueInv' /\ EndInv /\ CancelInv /\ [QueueNext]_queueVars
        => CancelInv'
  <2> SUFFICES ASSUME QueueInv, QueueInv', EndInv, CancelInv,
                      [QueueNext]_queueVars
               PROVE  CancelInv'
    OBVIOUS
  <2>a. /\ settled \in [Job -> {"none"} \cup Terminal]
        /\ state \in [Job -> {"none"} \cup Live \cup Terminal]
        /\ cancelRequested \in [Job -> BOOLEAN]
        /\ acked \in [Job -> {"no", "kept", "forgotten"}]
        /\ finished \in Seq(Job) /\ running = {j \in Job : state[j] = "running"}
    BY DEF QueueInv, TypeOK, QueueConsistent
  <2>b. \A j \in Job : state[j] \in Live => j \in accepted /\ settled[j] = "none"
    BY DEF QueueInv, OnlyAccepted, EndInv, NoResurrection
  <2>c. \A j \in ToSet(finished) : state[j] \notin Live
    BY DEF QueueInv, FinishedIsOver
  <2>1. ASSUME UNCHANGED <<cancelRequested, acked, settled>>,
               accepted \subseteq accepted',
               \A i \in Job : state[i] = "running" /\ cancelRequested[i]
                              => state'[i] = "running"
        PROVE  CancelInv'
    BY <2>1 DEF CancelInv
  <2>2. ASSUME NEW j \in Job, NEW o \in Terminal, state[j] \in Live,
               \A i \in Job : i # j /\ state[i] = "running"
                              => state'[i] = "running",
               settled' = [settled EXCEPT ![j] = o],
               \/ UNCHANGED <<cancelRequested, acked>>
               \/ /\ cancelRequested' = [cancelRequested EXCEPT ![j] = TRUE]
                  /\ acked' = [acked EXCEPT ![j] = "kept"],
               cancelRequested'[j] => o = "cancelled",
               UNCHANGED accepted
        PROVE  CancelInv'
    <3>1. ASSUME NEW i \in Job, i # j
          PROVE  /\ cancelRequested'[i] = cancelRequested[i]
                 /\ acked'[i] = acked[i] /\ settled'[i] = settled[i]
      BY <2>a, <2>2, <3>1
    <3>2. /\ settled'[j] = o /\ j \in accepted' /\ settled[j] = "none"
          /\ acked'[j] = "kept" <=> cancelRequested'[j]
      BY <2>a, <2>b, <2>2 DEF CancelInv
    <3>3. ASSUME NEW i \in Job
          PROVE  /\ cancelRequested'[i] => acked'[i] = "kept"
                 /\ acked'[i] = "kept" =>
                      /\ i \in accepted'
                      /\ \/ /\ state'[i] = "running" /\ cancelRequested'[i]
                            /\ settled'[i] = "none"
                         \/ settled'[i] = "cancelled"
      <4>1. CASE i = j
        BY <2>2, <3>2, <4>1
      <4>2. CASE i # j
        BY <2>2, <3>1, <4>2 DEF CancelInv
      <4>3. QED
        BY <4>1, <4>2
    <3>4. QED
      BY <3>3 DEF CancelInv
  <2>3. ASSUME NEW j \in Job, Enqueue(j) PROVE CancelInv'
    <3>1. /\ UNCHANGED <<cancelRequested, acked, settled>> /\ j \notin accepted
          /\ accepted' = accepted \cup {j}
          /\ state' = [state EXCEPT ![j] = "queued"]
      BY <2>3 DEF Enqueue
    <3>2. \A i \in Job : state[i] = "running" => i # j
      BY <2>b, <3>1
    <3>3. QED
      BY <2>a, <2>1, <3>1, <3>2
  <2>4. ASSUME NEW j \in Job, Take(j) PROVE CancelInv'
    BY <2>a, <2>1, <2>4 DEF Take, history
  <2>5. ASSUME NEW j \in Job, Requeue(j) PROVE CancelInv'
    BY <2>a, <2>1, <2>5 DEF Requeue, MayRequeue, history
  <2>6. ASSUME NEW j \in Job, NEW r \in {"ok", "error", "cancelError"},
               Finish(j, r)
        PROVE  CancelInv'
    <3> DEFINE o == Outcome(r, cancelRequested[j])
    <3>1. o \in Terminal /\ (cancelRequested[j] => o = "cancelled")
      BY DEF Outcome
    <3>2. /\ state[j] = "running"
          /\ UNCHANGED <<cancelRequested, acked, accepted>>
          /\ settled' = [settled EXCEPT ![j] = o]
          /\ Purge([state EXCEPT ![j] = o], Append(finished, j))
      BY <2>6 DEF Finish
    <3> HIDE DEF o
    <3>3. \A i \in Job : i # j /\ state[i] = "running" => state'[i] = "running"
      BY <2>a, <2>c, <3>1, <3>2, PurgeAfterEnd
    <3>4. QED
      BY <2>2, <3>1, <3>2, <3>3
  <2>7. ASSUME NEW j \in Job, CancelQueued(j) PROVE CancelInv'
    <3>1. /\ state[j] = "queued" /\ UNCHANGED accepted
          /\ cancelRequested' = [cancelRequested EXCEPT ![j] = TRUE]
          /\ acked' = [acked EXCEPT ![j] = "kept"]
          /\ settled' = [settled EXCEPT ![j] = "cancelled"]
          /\ Purge([state EXCEPT ![j] = "cancelled"], Append(finished, j))
      BY <2>7 DEF CancelQueued, CancelsAtOnce
    <3>2. \A i \in Job : i # j /\ state[i] = "running" => state'[i] = "running"
      BY <2>a, <2>c, <3>1, PurgeAfterEnd
    <3>3. QED
      BY <2>2, <3>1, <3>2
  <2>8. ASSUME NEW j \in Job, CancelRunning(j) PROVE CancelInv'
    <3>1. /\ state[j] = "running"
          /\ cancelRequested' = [cancelRequested EXCEPT ![j] = TRUE]
          /\ acked' = [acked EXCEPT ![j] = "kept"]
          /\ UNCHANGED <<state, settled, accepted>>
      BY <2>8 DEF CancelRunning
    <3>2. QED
      BY <2>a, <2>b, <3>1 DEF CancelInv
  <2>9. ASSUME CancelAllStep PROVE CancelInv'
    <3> DEFINE j == Head(queued)
    <3>1. /\ queued # <<>>
          /\ state' = [state EXCEPT ![j] = "cancelled"]
          /\ cancelRequested' = [cancelRequested EXCEPT ![j] = TRUE]
          /\ acked' = [acked EXCEPT ![j] = "kept"]
          /\ settled' = [settled EXCEPT ![j] = "cancelled"]
          /\ UNCHANGED accepted
      BY <2>9 DEF CancelAllStep
    <3>2. j \in Job /\ state[j] = "queued"
      <4>1. /\ queued \in Seq(Job) /\ IsInjective(queued)
            /\ ToSet(queued) = {i \in Job : state[i] = "queued"}
        BY DEF QueueInv, TypeOK, QueueConsistent
      <4>2. QED
        BY <3>1, <4>1, TailProperties
    <3> HIDE DEF j
    <3>3. \A i \in Job : i # j /\ state[i] = "running" => state'[i] = "running"
      BY <2>a, <3>1, <3>2
    <3>4. QED
      BY <2>2, <3>1, <3>2, <3>3
  <2>10. ASSUME CancelAllEnd PROVE CancelInv'
    <3>1. /\ Purge(state, finished) /\ UNCHANGED <<settled, accepted>>
          /\ cancelRequested' = [i \in Job |-> cancelRequested[i]
                                        \/ (flush.running /\ i \in running)]
          /\ acked' = [i \in Job |-> IF flush.running /\ i \in running
                                    THEN "kept" ELSE acked[i]]
      BY <2>10 DEF CancelAllEnd
    <3>2. \A i \in Job : state[i] = "running" => state'[i] = "running"
      <4> DEFINE T == {"none"} \cup Live \cup Terminal
      <4>1. state \in [Job -> T] /\ "none" \in T
        BY <2>a
      <4> HIDE DEF T
      <4>2. \A i \in Job : state'[i] = state[i] \/ i \in ToSet(finished)
        BY <2>a, <3>1, <4>1, PurgeProperties
      <4>3. QED
        BY <2>c, <4>2
    <3>3. ASSUME NEW i \in Job
          PROVE  /\ cancelRequested'[i] => acked'[i] = "kept"
                 /\ acked'[i] = "kept" =>
                      /\ i \in accepted'
                      /\ \/ /\ state'[i] = "running" /\ cancelRequested'[i]
                            /\ settled'[i] = "none"
                         \/ settled'[i] = "cancelled"
      <4>1. CASE flush.running /\ i \in running
        <5>1. state[i] = "running" /\ acked'[i] = "kept" /\ cancelRequested'[i]
          BY <2>a, <3>1, <4>1
        <5>2. QED
          BY <2>b, <3>1, <3>2, <5>1
      <4>2. CASE ~(flush.running /\ i \in running)
        <5>1. acked'[i] = acked[i] /\ cancelRequested'[i] = cancelRequested[i]
          BY <2>a, <3>1, <4>2
        <5>2. QED
          BY <3>1, <3>2, <5>1 DEF CancelInv
      <4>3. QED
        BY <4>1, <4>2
    <3>4. QED
      BY <3>3 DEF CancelInv
  <2>11. ASSUME Crash PROVE CancelInv'
    <3>1. /\ cancelRequested' = [i \in Job |-> FALSE]
          /\ acked' = [i \in Job |-> IF state[i] = "running" /\ cancelRequested[i]
                                    THEN "forgotten" ELSE acked[i]]
          /\ UNCHANGED <<settled, accepted>>
      BY <2>11 DEF Crash
    <3>2. QED
      BY <3>1 DEF CancelInv
  <2>12. ASSUME Restart PROVE CancelInv'
    <3>1. UNCHANGED <<cancelRequested, acked, settled, accepted>> /\ ~up
      BY <2>12 DEF Restart, history
    <3>2. \A i \in Job : ~cancelRequested[i]
      BY <3>1 DEF QueueInv, DownIsEmpty
    <3>3. QED
      BY <2>1, <3>1, <3>2
  <2>13. ASSUME UNCHANGED <<state, cancelRequested, acked, settled, accepted>>
         PROVE  CancelInv'
    BY <2>13 DEF CancelInv
  <2>14. ASSUME NEW j \in Job, Notify(j) PROVE CancelInv'
    BY <2>13, <2>14 DEF Notify
  <2>15. ASSUME NEW b \in BOOLEAN, CancelAllBegin(b) PROVE CancelInv'
    BY <2>13, <2>15 DEF CancelAllBegin, history
  <2>16. CASE UNCHANGED queueVars
    BY <2>13, <2>16 DEF queueVars, memory, history
  <2>17. ASSUME NEW j \in Job, RequeueVram(j) \/ RequeueWorker(j) PROVE CancelInv'
    BY <2>5, <2>17 DEF RequeueVram, RequeueWorker
  <2>18. QED
    BY <2>3, <2>4, <2>6, <2>7, <2>8, <2>9, <2>10, <2>11, <2>12, <2>14, <2>15,
       <2>16, <2>17 DEF QueueNext
<1>3. CancelInv /\ EndInv => CancelSticks
  BY DEF CancelInv, EndInv, NoResurrection, CancelSticks
<1>4. QED
  BY <1>1, <1>2, <1>3, QueueInvariant, EndInvariant, PTL DEF QueueSpec

(***************************************************************************)
(* The completion callback                                                 *)
(***************************************************************************)

\* The callback of a job is due, or being collected by cancel_all(), or has
\* run: never two of these, and each only after the job's end.
NotifyInv ==
  /\ ~flush.on => flush.cancelled = {}
  /\ ~up => toNotify = {} /\ flush.cancelled = {}
  /\ toNotify \cap flush.cancelled = {}
  /\ \A j \in Job :
       /\ notified[j] \in {0, 1}
       /\ j \in toNotify \cup flush.cancelled =>
            notified[j] = 0 /\ settled[j] # "none"
       /\ notified[j] = 1 => settled[j] # "none"

\* finish(), cancel() and cancel_all() run the callback at most once for a
\* job, whatever they race with, and never for a job that has not ended.
THEOREM CallbackAtMostOnce == QueueSpec => []NotifiedAtMostOnce
<1> USE DEF Live, Terminal
<1>1. QueueInit => NotifyInv
  BY DEF QueueInit, NotifyInv, NoFlush
<1>2. QueueInv /\ EndInv /\ NotifyInv /\ [QueueNext]_queueVars => NotifyInv'
  <2> SUFFICES ASSUME QueueInv, EndInv, NotifyInv, [QueueNext]_queueVars
               PROVE  NotifyInv'
    OBVIOUS
  <2>a. /\ settled \in [Job -> {"none"} \cup Terminal]
        /\ notified \in [Job -> Nat]
        /\ flush \in [on : BOOLEAN, running : BOOLEAN, cancelled : SUBSET Job]
        /\ toNotify \subseteq Job
    BY DEF QueueInv, TypeOK
  <2>b. \A j \in Job : state[j] \in Live => settled[j] = "none"
    BY DEF EndInv, NoResurrection
  <2>1. ASSUME UNCHANGED <<settled, notified, toNotify, flush>>, up' \/ ~up
        PROVE  NotifyInv'
    BY <2>1 DEF NotifyInv
  <2>2. ASSUME NEW j \in Job, Notify(j) PROVE NotifyInv'
    <3>1. /\ up' /\ j \in toNotify
          /\ toNotify' = toNotify \ {j}
          /\ notified' = [notified EXCEPT ![j] = @ + 1]
          /\ UNCHANGED <<settled, flush>>
      BY <2>2 DEF Notify
    <3>2. notified[j] = 0 /\ settled[j] # "none" /\ j \notin flush.cancelled
      BY <3>1 DEF NotifyInv
    <3>3. notified'[j] = 1 /\ \A i \in Job : i # j => notified'[i] = notified[i]
      BY <2>a, <3>1, <3>2
    <3>4. QED
      BY <3>1, <3>2, <3>3 DEF NotifyInv
  <2>3. ASSUME NEW j \in Job, NEW r \in {"ok", "error", "cancelError"},
               Finish(j, r)
        PROVE  NotifyInv'
    <3>1. /\ up' /\ state[j] = "running"
          /\ settled' = [settled EXCEPT ![j] = Outcome(r, cancelRequested[j])]
          /\ toNotify' = toNotify \cup {j}
          /\ UNCHANGED <<notified, flush>>
      BY <2>3 DEF Finish, LockFree
    <3>2. /\ settled[j] = "none" /\ settled'[j] # "none"
          /\ \A i \in Job : i # j => settled'[i] = settled[i]
      BY <2>a, <2>b, <3>1 DEF Outcome
    <3>3. notified[j] = 0 /\ j \notin flush.cancelled
      BY <3>2 DEF NotifyInv
    <3>4. QED
      BY <3>1, <3>2, <3>3 DEF NotifyInv
  <2>4. ASSUME NEW j \in Job, CancelQueued(j) PROVE NotifyInv'
    <3>1. /\ up' /\ state[j] = "queued"
          /\ settled' = [settled EXCEPT ![j] = "cancelled"]
          /\ notified' = [notified EXCEPT ![j] = @ + 1]
          /\ UNCHANGED <<toNotify, flush>>
      BY <2>4 DEF CancelQueued, LockFree, CancelsAtOnce
    <3>2. settled[j] = "none" /\ settled'[j] # "none"
          /\ \A i \in Job : i # j => settled'[i] = settled[i]
      BY <2>a, <2>b, <3>1
    <3>3. notified[j] = 0 /\ j \notin toNotify /\ j \notin flush.cancelled
      BY <3>2 DEF NotifyInv
    <3>4. notified'[j] = 1 /\ \A i \in Job : i # j => notified'[i] = notified[i]
      BY <2>a, <3>1, <3>3
    <3>5. QED
      BY <3>1, <3>2, <3>3, <3>4 DEF NotifyInv
  <2>5. ASSUME NEW b \in BOOLEAN, CancelAllBegin(b) PROVE NotifyInv'
    <3>1. /\ up' /\ ~flush.on /\ flush'.cancelled = {}
          /\ UNCHANGED <<settled, notified, toNotify>>
      BY <2>5 DEF CancelAllBegin, LockFree, history
    <3>2. QED
      BY <3>1 DEF NotifyInv
  <2>6. ASSUME CancelAllStep PROVE NotifyInv'
    <3> DEFINE j == Head(queued)
    <3>1. /\ up' /\ flush.on /\ queued # <<>>
          /\ settled' = [settled EXCEPT ![j] = "cancelled"]
          /\ flush' = [flush EXCEPT !.cancelled = @ \cup {j}]
          /\ UNCHANGED <<toNotify, notified>>
      BY <2>6 DEF CancelAllStep
    <3>2. j \in Job /\ state[j] = "queued"
      <4>1. /\ queued \in Seq(Job) /\ IsInjective(queued)
            /\ ToSet(queued) = {i \in Job : state[i] = "queued"}
        BY DEF QueueInv, TypeOK, QueueConsistent
      <4>2. QED
        BY <3>1, <4>1, TailProperties
    <3> HIDE DEF j
    <3>3. settled[j] = "none" /\ settled'[j] # "none"
          /\ \A i \in Job : i # j => settled'[i] = settled[i]
      BY <2>a, <2>b, <3>1, <3>2
    <3>4. notified[j] = 0 /\ j \notin toNotify
      BY <3>2, <3>3 DEF NotifyInv
    <3>5. flush'.on /\ flush'.cancelled = flush.cancelled \cup {j}
      BY <2>a, <3>1
    <3>6. QED
      BY <3>1, <3>2, <3>3, <3>4, <3>5 DEF NotifyInv
  <2>7. ASSUME CancelAllEnd PROVE NotifyInv'
    <3>1. /\ up' /\ toNotify' = toNotify \cup flush.cancelled
          /\ flush'.cancelled = {}
          /\ UNCHANGED <<settled, notified>>
      BY <2>7 DEF CancelAllEnd, NoFlush, history
    <3>2. QED
      BY <3>1 DEF NotifyInv
  <2>8. ASSUME Crash PROVE NotifyInv'
    <3>1. /\ toNotify' = {} /\ flush'.cancelled = {}
          /\ UNCHANGED <<settled, notified>>
      BY <2>8 DEF Crash, NoFlush
    <3>2. QED
      BY <3>1 DEF NotifyInv
  <2>9. ASSUME NEW j \in Job,
               \/ Enqueue(j) \/ Take(j) \/ Requeue(j) \/ CancelRunning(j)
        PROVE  NotifyInv'
    BY <2>1, <2>9 DEF Enqueue, Take, Requeue, CancelRunning, LockFree, history
  <2>10. ASSUME NEW j \in Job, RequeueVram(j) \/ RequeueWorker(j)
         PROVE  NotifyInv'
    BY <2>9, <2>10 DEF RequeueVram, RequeueWorker
  <2>11. ASSUME Restart PROVE NotifyInv'
    BY <2>1, <2>11 DEF Restart, history
  <2>12. CASE UNCHANGED queueVars
    BY <2>1, <2>12 DEF queueVars, memory, history
  <2>13. QED
    BY <2>2, <2>3, <2>4, <2>5, <2>6, <2>7, <2>8, <2>9, <2>10, <2>11, <2>12
    DEF QueueNext
<1>3. NotifyInv => NotifiedAtMostOnce
  <2> SUFFICES ASSUME NotifyInv, NEW j \in Job
               PROVE  /\ notified[j] + (IF j \in toNotify THEN 1 ELSE 0)
                           + (IF j \in flush.cancelled THEN 1 ELSE 0) <= 1
                      /\ notified[j] = 1 => settled[j] # "none"
    BY DEF NotifiedAtMostOnce
  <2>1. /\ notified[j] = 0 \/ notified[j] = 1
        /\ j \in toNotify => notified[j] = 0 /\ j \notin flush.cancelled
        /\ j \in flush.cancelled => notified[j] = 0
        /\ notified[j] = 1 => settled[j] # "none"
    BY DEF NotifyInv
  <2>2. QED
    BY <2>1
<1>4. QED
  BY <1>1, <1>2, <1>3, QueueInvariant, EndInvariant, PTL DEF QueueSpec
=============================================================================
