-------------------------- MODULE SupervisorProofs --------------------------
(***************************************************************************)
(* For any supervisors, clients and directories, any number of slots and   *)
(* of troubles: slots add up with the connections, a serving supervisor is *)
(* the one that clients find, a restart finds in the log what was not      *)
(* finished and not left out by a compaction, and no worker of the family  *)
(* at work on it, and no client falls back on its own work while a         *)
(* supervisor that goes on serving, and hears it, has its job.             *)
(*                                                                         *)
(* The inductive invariant has a part per supervisor about the lock and    *)
(* the files of its directory, a part per client about its connection and  *)
(* its job, a part that says what a supervisor has found or ended before   *)
(* it serves, and the count of the slots.                                  *)
(***************************************************************************)
EXTENDS Supervisor, FiniteSetTheorems, TLAPS

\* Before the lock and after everything, and the two phases in between: with the lock,
\* and at the very end without.
Outside == {"off", "probing", "locking", "gone"}
Locked == {"listing", "reaping", "unlinking", "binding", "bound", "armed", "replaying",
           "serving", "draining", "stopped", "killed", "unlinked", "closed"}
Phases == Outside \cup Locked \cup {"released"}
ClientPlaces == {"idle", "starting", "connecting", "waiting", "rechecking", "answered",
                 "noResponse", "unheard", "fallback"}
Threaded == {"accepted", "reading", "waiting"}

TypeInv ==
  /\ pc \in [Supervisors -> Phases] /\ running \in [Supervisors -> BOOLEAN]
  /\ lock \in [Dirs -> Supervisors \cup {NoOne}]
  /\ sock \in [Dirs -> Supervisors \cup {NoOne}]
  /\ pidf \in [Dirs -> Supervisors \cup {NoOne}]
  /\ listed \in [Supervisors -> SUBSET (Supervisors \cup Clients)]
  /\ slots \in [Supervisors -> Nat] /\ served \in [Supervisors -> BOOLEAN]
  /\ client \in [Clients -> ClientPlaces]
  /\ link \in [Clients -> {"none", "backlog"} \cup Threaded]
  /\ peer \in [Clients -> Supervisors \cup {NoOne}]
  /\ job \in [Clients -> {"none", "queued", "running", "done", "failed"}]
  /\ home \in [Clients -> Supervisors \cup {NoOne}]
  /\ wal \in [Dirs -> SUBSET Clients] /\ forgotten \subseteq Clients /\ orphan \subseteq Clients

-----------------------------------------------------------------------------
(* The parts of the invariant. *)

\* Who is past the lock and not yet past its release has it, and who has made a file
\* and not yet removed it is named by it.
FilesOK(s) ==
  /\ pc[s] \in Locked => lock[DirOf[s]] = s
  /\ pc[s] \in {"bound", "armed", "replaying", "serving", "draining", "stopped", "killed"}
       => sock[DirOf[s]] = s
  /\ pc[s] \in {"armed", "replaying", "serving", "draining", "stopped", "killed"} => pidf[DirOf[s]] = s
SocketsOK == \A d \in Dirs : sock[d] # NoOne => DirOf[sock[d]] = d

\* The phases in which a supervisor has threads and jobs.
Up == {"serving", "draining", "stopped", "killed", "unlinked", "closed", "released"}

LinkOK(c) ==
  /\ client[c] \in {"idle", "starting", "connecting"} => link[c] = "none"
  /\ link[c] # "none" => peer[c] \in Supervisors /\ DirOf[peer[c]] = ClientDir
  /\ link[c] \in Threaded => pc[peer[c]] \in Up

JobOK(c) ==
  /\ job[c] # "none" => home[c] \in Supervisors /\ DirOf[home[c]] = ClientDir /\ pc[home[c]] \in Up
  /\ job[c] = "queued" => c \in wal[ClientDir]
  /\ job[c] = "running" => c \in wal[ClientDir] \cup forgotten
  /\ c \notin External /\ job[c] = "running" => c \notin orphan
LogsOK == \A d \in Dirs \ {ClientDir} : wal[d] = {}

\* A supervisor of the clients' directory that is about to reap has on its list whoever
\* was past the lock before it, and whatever the family's workers compute; once it has
\* reaped, nothing of that is left, and it is the only one with threads and jobs until
\* it is gone.
Runs == {c \in Clients : job[c] = "running"}
ReapOK(s) ==
  DirOf[s] = ClientDir =>
    /\ pc[s] = "reaping" =>
         /\ (orphan \cup Runs) \ External \subseteq listed[s]
         /\ \A t \in Supervisors \ {s} :
              DirOf[t] = ClientDir => pc[t] \in Outside \/ t \in listed[s]
    /\ pc[s] \in Locked \ {"listing", "reaping"} =>
         /\ orphan \subseteq External
         /\ \A t \in Supervisors \ {s} : DirOf[t] = ClientDir => pc[t] \in Outside
    /\ pc[s] \in Up => \A t \in Supervisors \ {s} : DirOf[t] = ClientDir => pc[t] \notin Up
ListsOthers == \A s \in Supervisors : s \notin listed[s]

ThreadsOf(s) == {c \in Clients : peer[c] = s /\ link[c] \in Threaded}
SlotsOK == \A s \in Supervisors :
  IsFiniteSet(ThreadsOf(s)) /\ slots[s] = Cardinality(ThreadsOf(s)) /\ slots[s] <= Slots

SupervisorInv ==
  /\ TypeInv
  /\ \A s \in Supervisors : FilesOK(s) /\ ReapOK(s)
  /\ \A c \in Clients : LinkOK(c) /\ JobOK(c)
  /\ SocketsOK /\ LogsOK /\ ListsOthers /\ SlotsOK

-----------------------------------------------------------------------------
(* The initial state. *)

LEMMA InitInv == SupervisorInit => SupervisorInv
<1> SUFFICES ASSUME SupervisorInit PROVE SupervisorInv  OBVIOUS
<1>1. TypeInv  BY DEF SupervisorInit, TypeInv, Phases, Outside, ClientPlaces
<1>2. \A s \in Supervisors : FilesOK(s) /\ ReapOK(s)
  BY DEF SupervisorInit, FilesOK, ReapOK, Locked, Up
<1>3. \A c \in Clients : LinkOK(c) /\ JobOK(c)  BY DEF SupervisorInit, LinkOK, JobOK, Threaded
<1>4. SocketsOK /\ LogsOK /\ ListsOthers  BY DEF SupervisorInit, SocketsOK, LogsOK, ListsOthers
<1>5. SlotsOK
  <2>1. \A s : ThreadsOf(s) = {}  BY DEF SupervisorInit, ThreadsOf, Threaded
  <2>2. IsFiniteSet({}) /\ Cardinality({}) = 0 /\ 0 <= Slots
    BY FS_EmptySet, SupervisorAssumption DEF SupervisorAssumption
  <2>3. \A s \in Supervisors : slots[s] = 0  BY DEF SupervisorInit
  <2>4. QED  BY <2>1, <2>2, <2>3 DEF SlotsOK
<1>6. QED  BY <1>1, <1>2, <1>3, <1>4, <1>5 DEF SupervisorInv

-----------------------------------------------------------------------------
(* The end of processes. *)

\* Whoever ends, and whatever next step is taken along with it, all but ReapOK is kept.
LEMMA EndKeeps ==
  ASSUME SupervisorInv, NEW K \in SUBSET Supervisors, NEW W, NEW next \in [Supervisors -> Phases],
         \A t \in Supervisors : next[t] = pc[t] \/ (pc[t] = "reaping" /\ next[t] = "unlinking"),
         End(K, W, next), listed' \in [Supervisors -> SUBSET (Supervisors \cup Clients)], ListsOthers'
  PROVE  /\ TypeInv' /\ (\A s \in Supervisors : FilesOK(s)') /\ (\A c \in Clients : LinkOK(c)' /\ JobOK(c)')
         /\ SocketsOK' /\ LogsOK' /\ SlotsOK'
<1> USE SupervisorAssumption DEF SupervisorAssumption
<1>1. TypeInv'
  BY DEF SupervisorInv, TypeInv, End, Phases, Outside, ClientPlaces
<1>2. ASSUME NEW s \in Supervisors PROVE FilesOK(s)'
  BY DEF SupervisorInv, TypeInv, End, FilesOK, Locked
<1>3. ASSUME NEW c \in Clients PROVE LinkOK(c)'
  BY DEF SupervisorInv, TypeInv, End, LinkOK, Up, Threaded
<1>4. ASSUME NEW c \in Clients PROVE JobOK(c)'
  BY DEF SupervisorInv, TypeInv, End, JobOK, Up
<1>5. SocketsOK' /\ LogsOK'  BY DEF SupervisorInv, SocketsOK, LogsOK, End
<1>6. SlotsOK'
  <2>1. ASSUME NEW s \in Supervisors, s \in K PROVE ThreadsOf(s)' = {} /\ slots'[s] = 0
    BY <2>1 DEF ThreadsOf, End, Threaded
  <2>2. ASSUME NEW s \in Supervisors, s \notin K PROVE ThreadsOf(s)' = ThreadsOf(s) /\ slots'[s] = slots[s]
    BY <2>2 DEF ThreadsOf, End, Threaded, SupervisorInv, TypeInv
  <2>3. IsFiniteSet({}) /\ Cardinality({}) = 0 /\ 0 <= Slots  BY FS_EmptySet
  <2>4. ASSUME NEW s \in Supervisors
        PROVE  IsFiniteSet(ThreadsOf(s)') /\ slots'[s] = Cardinality(ThreadsOf(s)') /\ slots'[s] <= Slots
    BY <2>1, <2>2, <2>3 DEF SlotsOK, SupervisorInv
  <2>5. QED  BY <2>4 DEF SlotsOK
<1>7. QED  BY <1>1, <1>2, <1>3, <1>4, <1>5, <1>6

\* Processes that end, and no step besides.
LEMMA EndsKeep ==
  ASSUME SupervisorInv, NEW K \in SUBSET Supervisors, NEW W, End(K, W, pc), listed' = listed
  PROVE  SupervisorInv'
<1>1. ListsOthers'  BY DEF SupervisorInv, ListsOthers
<1>2. ASSUME NEW s \in Supervisors PROVE ReapOK(s)'
  <2>1. ASSUME DirOf[s] = ClientDir, pc'[s] = "reaping"
        PROVE  /\ (orphan \cup Runs)' \ External \subseteq listed[s]
               /\ \A t \in Supervisors \ {s} :
                    DirOf[t] = ClientDir => pc'[t] \in Outside \/ t \in listed[s]
    BY <2>1 DEF SupervisorInv, TypeInv, End, ReapOK, Runs, Outside
  <2>2. ASSUME DirOf[s] = ClientDir, pc'[s] \in Locked \ {"listing", "reaping"}
        PROVE  /\ orphan' \subseteq External
               /\ \A t \in Supervisors \ {s} : DirOf[t] = ClientDir => pc'[t] \in Outside
    <3>1. s \notin K /\ pc[s] \in Locked \ {"listing", "reaping"}
      BY <2>2 DEF End, SupervisorInv, TypeInv, Locked
    <3>2. \A t \in Supervisors \ {s} : DirOf[t] = ClientDir => pc[t] \in Outside
      BY <2>2, <3>1 DEF SupervisorInv, ReapOK
    <3>3. \A c \in Clients : ~(home[c] \in K /\ job[c] = "running")
      BY <3>1, <3>2 DEF SupervisorInv, JobOK, Up, Outside
    <3>4. orphan \subseteq External  BY <2>2, <3>1 DEF SupervisorInv, ReapOK
    <3>5. QED  BY <3>2, <3>3, <3>4 DEF End, Outside
  <2>3. ASSUME DirOf[s] = ClientDir, pc'[s] \in Up
        PROVE  \A t \in Supervisors \ {s} : DirOf[t] = ClientDir => pc'[t] \notin Up
    BY <2>3 DEF SupervisorInv, TypeInv, End, ReapOK, Up
  <2>4. QED  BY <2>1, <2>2, <2>3 DEF ReapOK
<1>3. QED  BY <1>1, <1>2, EndKeeps DEF SupervisorInv, TypeInv

\* reap() leaves nobody of the directory, and no worker.
LEMMA ReapKeeps ==
  ASSUME SupervisorInv, NEW s \in Supervisors, Reap(s) PROVE SupervisorInv'
<1> USE SupervisorAssumption DEF SupervisorAssumption
<1> DEFINE K == {t \in listed[s] \cap Supervisors : Alive(t)}
           W == listed[s] \cap Clients
           next == [pc EXCEPT ![s] = "unlinking"]
<1>1. /\ K \in SUBSET Supervisors /\ pc[s] = "reaping" /\ End(K, W, next)
      /\ next \in [Supervisors -> Phases]
      /\ \A t \in Supervisors : next[t] = pc[t] \/ (pc[t] = "reaping" /\ next[t] = "unlinking")
  BY DEF Reap, SupervisorInv, TypeInv, Phases, Locked
<1>2. listed' = [listed EXCEPT ![s] = {}]  BY DEF Reap
<1>3. ListsOthers' /\ listed' \in [Supervisors -> SUBSET (Supervisors \cup Clients)]
  BY <1>2 DEF SupervisorInv, TypeInv, ListsOthers
<1>4. \A t \in Supervisors : t \in listed[s] => pc'[t] \in Outside
  <2>1. ASSUME NEW t \in Supervisors, t \in listed[s], Alive(t) PROVE pc'[t] \in Outside
    BY <1>1, <2>1 DEF End, Outside
  <2>2. ASSUME NEW t \in Supervisors, t \in listed[s], ~Alive(t) PROVE pc'[t] \in Outside
    <3>1. pc[t] \in Outside /\ t # s
      BY <2>2 DEF Alive, Starting, Closing, SupervisorInv, TypeInv, ListsOthers, Phases, Locked, Outside
    <3>2. QED  BY <1>1, <3>1 DEF End, SupervisorInv, TypeInv, Outside
  <2>3. QED  BY <2>1, <2>2
<1>5. ASSUME NEW u \in Supervisors PROVE ReapOK(u)'
  <2> SUFFICES ASSUME DirOf[u] = ClientDir, pc'[u] \in Locked \ {"listing"} \/ pc'[u] \in Up PROVE ReapOK(u)'
    BY DEF ReapOK, Locked
  <2>1. CASE u = s
    <3>1. (orphan \cup Runs) \ External \subseteq W
      BY <1>1, <2>1 DEF SupervisorInv, TypeInv, ReapOK, Runs
    <3>2. orphan' \subseteq External
      BY <3>1 DEF Runs, End, Reap
    <3>3. \A t \in Supervisors \ {s} : DirOf[t] = ClientDir => pc'[t] \in Outside
      BY <1>1, <1>4, <2>1 DEF SupervisorInv, TypeInv, ReapOK, End, Outside
    <3>4. pc'[s] \in {"gone", "unlinking"}  BY <1>1 DEF End
    <3>5. QED  BY <2>1, <3>2, <3>3, <3>4 DEF ReapOK, Up
  <2>2. CASE u # s
    <3>1. pc[u] = pc'[u] /\ u \notin K
      BY <1>1, <2>2 DEF End, SupervisorInv, TypeInv, Locked, Outside, Up
    <3>2. FilesOK(u) /\ FilesOK(s) /\ ReapOK(s)  BY DEF SupervisorInv
    <3>3. DirOf[s] # ClientDir
      <4>1. CASE pc[u] \in Locked  BY <1>1, <2>2, <3>2, <4>1 DEF FilesOK, Locked
      <4>2. CASE pc[u] \notin Locked
        <5>1. pc[u] = "released"  BY <3>1, <4>2 DEF Up, Locked
        <5>2. u \notin listed[s]  BY <3>1, <5>1 DEF Alive, Closing
        <5>3. QED  BY <1>1, <2>2, <3>2, <5>1, <5>2 DEF ReapOK, Outside
      <4>3. QED  BY <4>1, <4>2
    <3>4. pc'[u] = "reaping" => /\ (orphan \cup Runs)' \ External \subseteq listed[u]
             /\ \A t \in Supervisors \ {u} : DirOf[t] = ClientDir => pc'[t] \in Outside \/ t \in listed[u]
      BY <1>1, <3>1, <3>3 DEF SupervisorInv, TypeInv, ReapOK, Runs, End, Outside
    <3>5. pc'[u] \in Locked \ {"listing", "reaping"} => /\ orphan' \subseteq External
             /\ \A t \in Supervisors \ {u} : DirOf[t] = ClientDir => pc'[t] \in Outside
      <4> HAVE pc'[u] \in Locked \ {"listing", "reaping"}
      <4>1. /\ orphan \subseteq External
            /\ \A t \in Supervisors \ {u} : DirOf[t] = ClientDir => pc[t] \in Outside
        BY <3>1 DEF SupervisorInv, ReapOK
      <4>2. \A c \in Clients : ~(home[c] \in K /\ job[c] = "running")
        BY <3>1, <4>1 DEF SupervisorInv, JobOK, Up, Outside
      <4>3. QED  BY <1>1, <3>3, <4>1, <4>2 DEF End, Outside, SupervisorInv, TypeInv
    <3>6. pc'[u] \in Up => \A t \in Supervisors \ {u} : DirOf[t] = ClientDir => pc'[t] \notin Up
      BY <1>1, <3>1, <3>3 DEF End, SupervisorInv, TypeInv, ReapOK, Up
    <3>7. QED  BY <1>2, <2>2, <3>4, <3>5, <3>6 DEF ReapOK, SupervisorInv, TypeInv
  <2>3. QED  BY <2>1, <2>2
<1>6. QED
  <2> HIDE DEF K, W, next
  <2>1. QED  BY <1>1, <1>3, <1>5, EndKeeps DEF SupervisorInv

-----------------------------------------------------------------------------
(* What a step must do to keep the parts. *)

\* A supervisor touches the files of its own directory, under its lock, or takes the
\* lock when it is free.
LEMMA FilesKept ==
  ASSUME SupervisorInv, NEW s \in Supervisors,
         \A t \in Supervisors \ {s} : pc'[t] = pc[t],
         \A d \in Dirs \ {DirOf[s]} : lock'[d] = lock[d] /\ sock'[d] = sock[d] /\ pidf'[d] = pidf[d],
         pc[s] \in Locked \/ lock[DirOf[s]] = NoOne \/ UNCHANGED <<lock, sock, pidf>>,
         FilesOK(s)'
  PROVE  \A t \in Supervisors : FilesOK(t)'
<1> USE SupervisorAssumption DEF SupervisorAssumption
<1>1. ASSUME NEW t \in Supervisors \ {s} PROVE FilesOK(t)'
  <2>1. CASE UNCHANGED <<lock, sock, pidf>>  BY <2>1 DEF SupervisorInv, FilesOK
  <2>2. CASE DirOf[t] # DirOf[s]  BY <2>2 DEF SupervisorInv, FilesOK
  <2>3. CASE DirOf[t] = DirOf[s] /\ (pc[s] \in Locked \/ lock[DirOf[s]] = NoOne)
    <3>1. pc[t] \notin Locked  BY <2>3 DEF SupervisorInv, FilesOK
    <3>2. QED  BY <3>1 DEF FilesOK, Locked
  <2>4. QED  BY <2>1, <2>2, <2>3
<1>2. QED  BY <1>1

\* A phase of one supervisor that concerns neither connections nor jobs.
LEMMA PhaseKeeps ==
  ASSUME SupervisorInv, NEW s \in Supervisors, NEW l \in Phases, pc' = [pc EXCEPT ![s] = l],
         UNCHANGED <<listed, slots, job, home, wal, forgotten, orphan>>,
         pc[s] \in Up <=> l \in Up,
         l \notin {"reaping", "unlinking"},
         l \in Locked \ {"listing"} => pc[s] \in Locked \ {"listing", "reaping"},
         pc[s] \in Outside /\ l \notin Outside =>
           \A t \in Supervisors : DirOf[t] = DirOf[s] => pc[t] \notin Locked
  PROVE  /\ \A t \in Supervisors : ReapOK(t)'
         /\ \A c \in Clients : JobOK(c)'
         /\ LogsOK' /\ ListsOthers'
         /\ UNCHANGED <<client, link, peer>> => SlotsOK' /\ \A c \in Clients : LinkOK(c)'
<1>1. ASSUME NEW t \in Supervisors PROVE ReapOK(t)'
  <2>1. CASE t = s
    BY <2>1 DEF SupervisorInv, TypeInv, ReapOK, Locked, Up
  <2>2. CASE t # s
    <3>1. pc'[t] = pc[t] /\ Runs' = Runs  BY <2>2 DEF SupervisorInv, TypeInv, Runs
    <3>2. DirOf[t] = ClientDir /\ DirOf[s] = ClientDir /\ pc[t] \in Locked /\ pc[s] \in Outside => pc'[s] \in Outside
      BY DEF SupervisorInv, TypeInv
    <3>3. pc'[s] \in Up <=> pc[s] \in Up  BY DEF SupervisorInv, TypeInv
    <3>4. QED  BY <2>2, <3>1, <3>2, <3>3 DEF SupervisorInv, TypeInv, ReapOK, Locked
  <2>3. QED  BY <2>1, <2>2
<1>2. ASSUME NEW c \in Clients PROVE JobOK(c)'
  BY DEF SupervisorInv, TypeInv, JobOK
<1>3. LogsOK' /\ ListsOthers'  BY DEF SupervisorInv, LogsOK, ListsOthers
<1>4. ASSUME UNCHANGED <<client, link, peer>> PROVE SlotsOK' /\ \A c \in Clients : LinkOK(c)'
  <2>1. ASSUME NEW t \in Supervisors PROVE ThreadsOf(t)' = ThreadsOf(t)  BY <1>4 DEF ThreadsOf
  <2>2. SlotsOK'  BY <2>1 DEF SupervisorInv, SlotsOK
  <2>3. ASSUME NEW c \in Clients PROVE LinkOK(c)'
    <3>1. pc'[peer[c]] = pc[peer[c]] \/ (peer[c] = s /\ pc'[s] = l)  BY DEF SupervisorInv, TypeInv
    <3>2. QED  BY <1>4, <3>1 DEF SupervisorInv, LinkOK
  <2>4. QED  BY <2>2, <2>3
<1>5. QED  BY <1>1, <1>2, <1>3, <1>4

\* A step that leaves the processes where they are.
LEMMA StillKeeps ==
  ASSUME SupervisorInv, UNCHANGED <<pc, lock, sock, pidf, listed>>
  PROVE  /\ \A s \in Supervisors : FilesOK(s)'
         /\ SocketsOK' /\ ListsOthers'
         /\ orphan' \subseteq orphan /\ Runs' \subseteq Runs => \A s \in Supervisors : ReapOK(s)'
<1>1. \A s \in Supervisors : FilesOK(s)'  BY DEF SupervisorInv, FilesOK
<1>2. SocketsOK' /\ ListsOthers'  BY DEF SupervisorInv, SocketsOK, ListsOthers
<1>3. ASSUME orphan' \subseteq orphan, Runs' \subseteq Runs, NEW s \in Supervisors PROVE ReapOK(s)'
  BY <1>3 DEF SupervisorInv, ReapOK
<1>4. QED  BY <1>1, <1>2, <1>3

\* The slots: a step that leaves the threads alone, starts one, or ends one.
LEMMA SlotsStay ==
  ASSUME SlotsOK, slots' = slots, \A s \in Supervisors : ThreadsOf(s)' = ThreadsOf(s) PROVE SlotsOK'
  BY DEF SlotsOK

LEMMA SlotsAdd ==
  ASSUME TypeInv, SlotsOK, NEW s \in Supervisors, NEW c \in Clients, slots[s] < Slots,
         slots' = [slots EXCEPT ![s] = @ + 1], c \notin ThreadsOf(s),
         ThreadsOf(s)' = ThreadsOf(s) \cup {c}, \A t \in Supervisors \ {s} : ThreadsOf(t)' = ThreadsOf(t)
  PROVE  SlotsOK'
<1> USE SupervisorAssumption DEF SupervisorAssumption
<1>1. IsFiniteSet(ThreadsOf(s)') /\ Cardinality(ThreadsOf(s)') = Cardinality(ThreadsOf(s)) + 1
  BY FS_AddElement DEF SlotsOK
<1>2. slots'[s] = Cardinality(ThreadsOf(s)') /\ slots'[s] <= Slots
  BY <1>1 DEF SlotsOK, TypeInv
<1>3. ASSUME NEW t \in Supervisors \ {s} PROVE slots'[t] = slots[t]  BY DEF TypeInv
<1>4. ASSUME NEW t \in Supervisors
      PROVE  IsFiniteSet(ThreadsOf(t)') /\ slots'[t] = Cardinality(ThreadsOf(t)') /\ slots'[t] <= Slots
  BY <1>1, <1>2, <1>3 DEF SlotsOK
<1>5. QED  BY <1>4 DEF SlotsOK

LEMMA SlotsDrop ==
  ASSUME TypeInv, SlotsOK, NEW s \in Supervisors, NEW c \in Clients,
         slots' = [slots EXCEPT ![s] = @ - 1], c \in ThreadsOf(s),
         ThreadsOf(s)' = ThreadsOf(s) \ {c}, \A t \in Supervisors \ {s} : ThreadsOf(t)' = ThreadsOf(t)
  PROVE  SlotsOK' /\ slots' \in [Supervisors -> Nat]
<1> USE SupervisorAssumption DEF SupervisorAssumption
<1>1. /\ IsFiniteSet(ThreadsOf(s)') /\ Cardinality(ThreadsOf(s)') = Cardinality(ThreadsOf(s)) - 1
      /\ Cardinality(ThreadsOf(s)') \in Nat
  BY FS_RemoveElement, FS_CardinalityType DEF SlotsOK
<1>2. slots'[s] = Cardinality(ThreadsOf(s)') /\ slots'[s] <= Slots /\ slots' \in [Supervisors -> Nat]
  BY <1>1 DEF SlotsOK, TypeInv
<1>3. ASSUME NEW t \in Supervisors \ {s} PROVE slots'[t] = slots[t]  BY DEF TypeInv
<1>4. ASSUME NEW t \in Supervisors
      PROVE  IsFiniteSet(ThreadsOf(t)') /\ slots'[t] = Cardinality(ThreadsOf(t)') /\ slots'[t] <= Slots
  BY <1>1, <1>2, <1>3 DEF SlotsOK
<1>5. QED  BY <1>2, <1>4 DEF SlotsOK

-----------------------------------------------------------------------------
(* The phases of a supervisor. *)

LEMMA StartingKeeps ==
  ASSUME SupervisorInv, NEW s \in Supervisors,
         Start(s) \/ Probe(s) \/ Lock(s) \/ UnlinkStale(s) \/ Bind(s) \/ WritePid(s) \/ SetRunning(s)
  PROVE  SupervisorInv'
<1> USE SupervisorAssumption DEF SupervisorAssumption
<1> DEFINE Unchanged == UNCHANGED <<listed, slots, job, home, wal, forgotten, orphan, client, link, peer>>
<1>1. CASE Start(s) \/ Probe(s)
  <2>1. PICK l \in {"probing", "gone", "locking"} : pc' = [pc EXCEPT ![s] = l]
    BY <1>1 DEF Start, Spawned, Probe
  <2>2. pc[s] \in Outside /\ Unchanged /\ UNCHANGED <<lock, sock, pidf, running, served>>
    BY <1>1 DEF Start, Spawned, Probe, Outside, fileVars, loopVars, clientVars, jobVars
  <2>3. l \in Outside  BY DEF Outside
  <2>4. TypeInv'  BY <2>1, <2>2, <2>3 DEF SupervisorInv, TypeInv, Phases
  <2>5. FilesOK(s)'  BY <2>1, <2>2, <2>3 DEF SupervisorInv, TypeInv, FilesOK, Locked, Outside
  <2>6. SocketsOK'  BY <2>2 DEF SupervisorInv, SocketsOK
  <2>7. /\ pc[s] \notin Up /\ l \in Phases \ Up /\ l \notin Locked /\ l \notin {"reaping", "unlinking"}
        /\ \A t \in Supervisors \ {s} : pc'[t] = pc[t]
    BY <2>1, <2>2, <2>3 DEF Up, Outside, Locked, Phases, SupervisorInv, TypeInv
  <2>8. \A t \in Supervisors : FilesOK(t)'  BY <2>2, <2>5, <2>7, FilesKept
  <2>9. QED  BY <2>1, <2>2, <2>3, <2>4, <2>6, <2>7, <2>8, PhaseKeeps DEF SupervisorInv
<1>2. CASE Lock(s)
  <2>1. PICK l \in {"listing", "gone"} :
          /\ pc' = [pc EXCEPT ![s] = l]
          /\ IF l = "listing" THEN lock[DirOf[s]] = NoOne /\ lock' = [lock EXCEPT ![DirOf[s]] = s]
             ELSE lock' = lock
    BY <1>2 DEF Lock
  <2>2. pc[s] = "locking" /\ Unchanged /\ UNCHANGED <<sock, pidf, running, served>>
    BY <1>2 DEF Lock, loopVars, clientVars, jobVars
  <2>3. TypeInv'  BY <2>1, <2>2 DEF SupervisorInv, TypeInv, Phases, Locked, Outside
  <2>4. FilesOK(s)'  BY <2>1, <2>2 DEF SupervisorInv, TypeInv, FilesOK, Locked
  <2>5. SocketsOK'  BY <2>2 DEF SupervisorInv, SocketsOK
  <2>6. l = "listing" => \A t \in Supervisors : DirOf[t] = DirOf[s] => pc[t] \notin Locked
    BY <2>1 DEF SupervisorInv, FilesOK
  <2>7. /\ pc[s] \notin Up /\ l \in Phases \ Up /\ (l \in Locked => l = "listing") /\ l \notin {"reaping", "unlinking"}
        /\ (l \notin Outside => l = "listing")
        /\ \A t \in Supervisors \ {s} : pc'[t] = pc[t]
    BY <2>1, <2>2 DEF Up, Locked, Phases, Outside, SupervisorInv, TypeInv
  <2>8. /\ \A d \in Dirs \ {DirOf[s]} : lock'[d] = lock[d] /\ sock'[d] = sock[d] /\ pidf'[d] = pidf[d]
        /\ lock[DirOf[s]] = NoOne \/ UNCHANGED <<lock, sock, pidf>>
    BY <2>1, <2>2 DEF SupervisorInv, TypeInv
  <2>9. \A t \in Supervisors : FilesOK(t)'  BY <2>4, <2>7, <2>8, FilesKept
  <2>10. QED  BY <2>1, <2>2, <2>3, <2>5, <2>6, <2>7, <2>9, PhaseKeeps DEF SupervisorInv
<1>3. CASE UnlinkStale(s) \/ Bind(s) \/ WritePid(s) \/ SetRunning(s)
  <2>1. PICK l \in {"binding", "bound", "armed", "replaying"} : pc' = [pc EXCEPT ![s] = l]
    BY <1>3 DEF UnlinkStale, Bind, WritePid, SetRunning, Phase
  <2>2. Unchanged /\ UNCHANGED <<lock, served>> /\ pc[s] \in {"unlinking", "binding", "bound", "armed"}
    BY <1>3 DEF UnlinkStale, Bind, WritePid, SetRunning, Phase, fileVars, loopVars, clientVars, jobVars
  <2>3. TypeInv'
    <3>1. CASE UnlinkStale(s)  BY <2>2, <3>1 DEF UnlinkStale, Phase, SupervisorInv, TypeInv, Phases, Locked
    <3>2. CASE Bind(s)  BY <2>2, <3>2 DEF Bind, Phase, SupervisorInv, TypeInv, Phases, Locked
    <3>3. CASE WritePid(s)  BY <2>2, <3>3 DEF WritePid, Phase, SupervisorInv, TypeInv, Phases, Locked
    <3>4. CASE SetRunning(s)
      BY <2>2, <3>4 DEF SetRunning, Phase, fileVars, SupervisorInv, TypeInv, Phases, Locked
    <3>5. QED  BY <1>3, <3>1, <3>2, <3>3, <3>4
  <2>4. FilesOK(s)'
    <3>1. CASE UnlinkStale(s)  BY <2>2, <3>1 DEF UnlinkStale, Phase, SupervisorInv, TypeInv, FilesOK, Locked
    <3>2. CASE Bind(s)  BY <2>2, <3>2 DEF Bind, Phase, SupervisorInv, TypeInv, FilesOK, Locked
    <3>3. CASE WritePid(s)  BY <2>2, <3>3 DEF WritePid, Phase, SupervisorInv, TypeInv, FilesOK, Locked
    <3>4. CASE SetRunning(s)
      BY <2>2, <3>4 DEF SetRunning, Phase, fileVars, SupervisorInv, TypeInv, FilesOK, Locked
    <3>5. QED  BY <1>3, <3>1, <3>2, <3>3, <3>4
  <2>5. SocketsOK'
    BY <1>3, <2>2 DEF UnlinkStale, Bind, WritePid, SetRunning, fileVars, SupervisorInv, TypeInv, SocketsOK
  <2>6. /\ pc[s] \notin Up /\ l \in Phases \ Up /\ pc[s] \in Locked \ {"listing", "reaping"}
        /\ pc[s] \notin Outside /\ l \notin {"reaping", "unlinking"}
        /\ \A t \in Supervisors \ {s} : pc'[t] = pc[t]
    BY <2>1, <2>2 DEF Up, Locked, Phases, Outside, SupervisorInv, TypeInv
  <2>7. \A d \in Dirs \ {DirOf[s]} : lock'[d] = lock[d] /\ sock'[d] = sock[d] /\ pidf'[d] = pidf[d]
    BY <1>3, <2>2 DEF UnlinkStale, Bind, WritePid, SetRunning, fileVars, SupervisorInv, TypeInv
  <2>8. \A t \in Supervisors : FilesOK(t)'  BY <2>4, <2>6, <2>7, FilesKept
  <2>9. QED  BY <2>1, <2>2, <2>3, <2>5, <2>6, <2>8, PhaseKeeps DEF SupervisorInv
<1>4. QED  BY <1>1, <1>2, <1>3

\* What is listed under the lock is everybody past it, and every computation.
LEMMA ListStraysKeeps ==
  ASSUME SupervisorInv, NEW s \in Supervisors, ListStrays(s) PROVE SupervisorInv'
<1> USE SupervisorAssumption DEF SupervisorAssumption
<1>1. /\ pc[s] = "listing" /\ pc' = [pc EXCEPT ![s] = "reaping"]
      /\ listed' = [listed EXCEPT ![s] = Strays(s)]
      /\ UNCHANGED <<running, lock, sock, pidf, wal, forgotten, slots, served, client, link, peer, job, home, orphan>>
  BY DEF ListStrays, Phase, fileVars, loopVars, clientVars, jobVars
<1>2. Strays(s) \subseteq Supervisors \cup Clients /\ s \notin Strays(s)
  BY DEF Strays, SupervisorInv, TypeInv
<1>3. TypeInv'  BY <1>1, <1>2 DEF SupervisorInv, TypeInv, Phases, Locked
<1>4. ListsOthers'  BY <1>1, <1>2 DEF SupervisorInv, TypeInv, ListsOthers
<1>5. \A t \in Supervisors : FilesOK(t)'
  <2>1. FilesOK(s)'  BY <1>1 DEF SupervisorInv, TypeInv, FilesOK, Locked
  <2>2. pc[s] \in Locked /\ \A t \in Supervisors \ {s} : pc'[t] = pc[t]
    BY <1>1 DEF SupervisorInv, TypeInv, Locked
  <2>3. QED  BY <1>1, <2>1, <2>2, FilesKept
<1>6. ASSUME NEW u \in Supervisors PROVE ReapOK(u)'
  <2> SUFFICES ASSUME DirOf[u] = ClientDir PROVE ReapOK(u)'  BY DEF ReapOK
  <2>1. CASE u = s
    <3>1. (orphan \cup Runs) \ External \subseteq Strays(s)
      BY DEF Strays, Runs, SupervisorInv, JobOK
    <3>2. ASSUME NEW t \in Supervisors \ {s} PROVE pc'[t] \in Outside \/ t \in Strays(s)
      BY <1>1 DEF Strays, Alive, Starting, Closing, SupervisorInv, TypeInv, Phases, Locked, Outside
    <3>3. pc'[s] = "reaping" /\ listed'[s] = Strays(s) /\ (orphan \cup Runs)' = orphan \cup Runs
      BY <1>1 DEF SupervisorInv, TypeInv, Runs
    <3>4. QED  BY <2>1, <3>1, <3>2, <3>3 DEF ReapOK, Up
  <2>2. CASE u # s /\ pc[u] \in Locked
    <3>1. DirOf[s] # ClientDir
      BY <1>1, <2>2 DEF SupervisorInv, FilesOK, Locked
    <3>2. pc'[u] = pc[u] /\ listed'[u] = listed[u] /\ (orphan \cup Runs)' = orphan \cup Runs
      BY <1>1, <2>2 DEF SupervisorInv, TypeInv, Runs
    <3>3. \A t \in Supervisors : DirOf[t] = ClientDir => pc'[t] = pc[t]
      BY <1>1, <3>1 DEF SupervisorInv, TypeInv
    <3>4. ReapOK(u)  BY DEF SupervisorInv
    <3>5. QED  BY <1>1, <3>2, <3>3, <3>4 DEF ReapOK
  <2>3. CASE u # s /\ pc[u] \notin Locked
    BY <1>1, <2>3 DEF ReapOK, SupervisorInv, TypeInv, Locked, Up
  <2>4. QED  BY <2>1, <2>2, <2>3
<1>7. ASSUME NEW c \in Clients PROVE LinkOK(c)' /\ JobOK(c)'
  <2>1. ASSUME NEW t \in Supervisors, pc[t] \in Up PROVE pc'[t] = pc[t]
    BY <1>1, <2>1 DEF SupervisorInv, TypeInv, Up
  <2>2. LinkOK(c)'
    BY <1>1, <2>1 DEF SupervisorInv, LinkOK, Threaded
  <2>3. JobOK(c)'  BY <1>1, <2>1 DEF SupervisorInv, JobOK
  <2>4. QED  BY <2>2, <2>3
<1>8. SocketsOK' /\ LogsOK'  BY <1>1 DEF SupervisorInv, SocketsOK, LogsOK
<1>9. SlotsOK'
  <2>1. ASSUME NEW t \in Supervisors PROVE ThreadsOf(t)' = ThreadsOf(t)  BY <1>1 DEF ThreadsOf
  <2>2. QED  BY <1>1, <2>1, SlotsStay DEF SupervisorInv
<1>10. QED  BY <1>3, <1>4, <1>5, <1>6, <1>7, <1>8, <1>9 DEF SupervisorInv

\* The jobs in the log of the clients' directory become those of the supervisor that reads
\* it, which has none before and is the only one; what it has no room for leaves the log.
LEMMA ReplayKeeps ==
  ASSUME SupervisorInv, NEW s \in Supervisors, Replay(s) PROVE SupervisorInv'
<1> USE SupervisorAssumption DEF SupervisorAssumption
<1>1. PICK kept \in SUBSET wal[DirOf[s]] :
        Requeued(s, kept) /\ wal' = [wal EXCEPT ![DirOf[s]] = kept]
  BY DEF Replay
<1>2. /\ pc[s] = "replaying" /\ pc' = [pc EXCEPT ![s] = "serving"]
      /\ job' = [c \in Clients |-> IF c \in kept THEN "queued" ELSE job[c]]
      /\ home' = [c \in Clients |-> IF c \in kept THEN s ELSE home[c]]
      /\ UNCHANGED <<running, lock, sock, pidf, forgotten, listed, slots, served, client, link, peer, orphan>>
  BY <1>1 DEF Replay, Requeued, Phase, loopVars, clientVars
<1>3. TypeInv'  BY <1>1, <1>2 DEF SupervisorInv, TypeInv, Phases, Locked
<1>4. SocketsOK' /\ LogsOK' /\ ListsOthers'
  BY <1>1, <1>2 DEF SupervisorInv, TypeInv, SocketsOK, LogsOK, ListsOthers
<1>5. \A t \in Supervisors : FilesOK(t)'
  <2>1. FilesOK(s)'  BY <1>2 DEF SupervisorInv, TypeInv, FilesOK, Locked
  <2>2. pc[s] \in Locked /\ \A t \in Supervisors \ {s} : pc'[t] = pc[t]
    BY <1>2 DEF SupervisorInv, TypeInv, Locked
  <2>3. QED  BY <1>2, <2>1, <2>2, FilesKept
<1>6. Runs' \subseteq Runs  BY <1>2 DEF Runs
<1>7. DirOf[s] = ClientDir => \A t \in Supervisors : DirOf[t] = ClientDir => pc[t] \notin Up
  BY <1>2 DEF SupervisorInv, ReapOK, Locked, Up, Outside
<1>8. ASSUME NEW u \in Supervisors PROVE ReapOK(u)'
  <2>1. \A t \in Supervisors : pc'[t] = pc[t] \/ (t = s /\ pc[t] = "replaying" /\ pc'[t] = "serving")
    BY <1>2 DEF SupervisorInv, TypeInv
  <2>2. \A t \in Supervisors : pc[t] \in Outside => pc'[t] \in Outside
    BY <2>1 DEF Outside
  <2>3. DirOf[u] = ClientDir /\ pc'[u] \in Up =>
          \A t \in Supervisors \ {u} : DirOf[t] = ClientDir => pc'[t] \notin Up
    BY <1>7, <2>1 DEF SupervisorInv, ReapOK
  <2>4. QED  BY <1>2, <1>6, <2>1, <2>2, <2>3 DEF SupervisorInv, ReapOK, Locked
<1>9. \A t \in Supervisors : pc[t] \in Up => pc'[t] \in Up
  BY <1>2 DEF SupervisorInv, TypeInv, Up
<1>10. ASSUME NEW c \in Clients PROVE LinkOK(c)' /\ JobOK(c)'
  <2>1. LinkOK(c)'  BY <1>2, <1>9 DEF SupervisorInv, LinkOK, Threaded
  <2>2. CASE c \in kept
    <3>1. DirOf[s] = ClientDir  BY <1>1, <2>2 DEF SupervisorInv, LogsOK
    <3>2. pc'[s] \in Up  BY <1>2 DEF SupervisorInv, TypeInv, Up
    <3>3. c \in wal'[ClientDir]  BY <1>1, <2>2, <3>1 DEF SupervisorInv, TypeInv
    <3>4. QED  BY <1>2, <2>1, <2>2, <3>1, <3>2, <3>3 DEF JobOK
  <2>3. CASE c \notin kept
    <3>1. job'[c] = job[c] /\ home'[c] = home[c]  BY <1>2, <2>3
    <3>2. CASE DirOf[s] = ClientDir
      <4>1. job[c] = "none"  BY <1>7, <3>2 DEF SupervisorInv, JobOK
      <4>2. QED  BY <2>1, <3>1, <4>1 DEF JobOK
    <3>3. CASE DirOf[s] # ClientDir
      <4>1. wal'[ClientDir] = wal[ClientDir]  BY <1>1, <3>3 DEF SupervisorInv, TypeInv
      <4>2. QED  BY <1>2, <1>9, <2>1, <3>1, <4>1 DEF SupervisorInv, JobOK
    <3>4. QED  BY <3>2, <3>3
  <2>4. QED  BY <2>2, <2>3
<1>11. SlotsOK'
  <2>1. ASSUME NEW t \in Supervisors PROVE ThreadsOf(t)' = ThreadsOf(t)  BY <1>2 DEF ThreadsOf
  <2>2. QED  BY <1>2, <2>1, SlotsStay DEF SupervisorInv
<1>12. QED  BY <1>3, <1>4, <1>5, <1>8, <1>10, <1>11 DEF SupervisorInv

\* From the end of the loop to the release of the lock.
LEMMA ClosingKeeps ==
  ASSUME SupervisorInv, NEW s \in Supervisors,
         LoopEnds(s) \/ AcceptFails(s) \/ Drained(s) \/ KillWorkers(s) \/ UnlinkOwn(s) \/ CloseSocket(s) \/ ReleaseLock(s)
  PROVE  SupervisorInv'
<1> USE SupervisorAssumption DEF SupervisorAssumption
<1>1. PICK l \in {"draining", "stopped", "killed", "unlinked", "closed", "released"} :
        /\ pc' = [pc EXCEPT ![s] = l]
        /\ pc[s] = IF l = "draining" THEN "serving" ELSE IF l = "stopped" THEN "draining"
                   ELSE IF l = "killed" THEN "stopped" ELSE IF l = "unlinked" THEN "killed"
                   ELSE IF l = "closed" THEN "unlinked" ELSE "closed"
  BY DEF LoopEnds, AcceptFails, Drained, KillWorkers, UnlinkOwn, CloseSocket, ReleaseLock, Phase
<1>2. UNCHANGED <<running, wal, forgotten, listed, slots, served, job, home, orphan>>
  BY DEF LoopEnds, AcceptFails, Drained, KillWorkers, UnlinkOwn, CloseSocket, ReleaseLock, fileVars, loopVars, jobVars
<1>3. /\ pc[s] \in Up /\ pc[s] \in Locked \ {"listing", "reaping"} /\ pc[s] \notin Outside
      /\ l \in Up /\ l \in Phases /\ l \notin {"reaping", "unlinking"}
      /\ \A t \in Supervisors \ {s} : pc'[t] = pc[t]
  BY <1>1 DEF Up, Locked, Phases, Outside, SupervisorInv, TypeInv
<1>4. CASE CloseSocket(s)
  <2> DEFINE waiting == {c \in Clients : peer[c] = s /\ link[c] = "backlog"}
  <2>1. /\ client' = [c \in Clients |-> IF c \in waiting /\ client[c] = "waiting" THEN "rechecking" ELSE client[c]]
        /\ link' = [c \in Clients |-> IF c \in waiting THEN "none" ELSE link[c]]
        /\ peer' = [c \in Clients |-> IF c \in waiting THEN NoOne ELSE peer[c]]
        /\ UNCHANGED <<lock, sock, pidf>> /\ l = "closed"
    BY <1>1, <1>3, <1>4 DEF CloseSocket, fileVars, Phase
  <2>2. TypeInv'  BY <1>1, <1>2, <1>3, <2>1 DEF SupervisorInv, TypeInv, ClientPlaces
  <2>3. FilesOK(s)'  BY <1>1, <1>3, <2>1 DEF SupervisorInv, TypeInv, FilesOK
  <2>4. \A t \in Supervisors : FilesOK(t)'  BY <1>3, <2>1, <2>3, FilesKept
  <2>5. SocketsOK'  BY <2>1 DEF SupervisorInv, SocketsOK
  <2>6. ASSUME NEW c \in Clients PROVE LinkOK(c)'
    <3>1. CASE c \in waiting  BY <2>1, <3>1 DEF SupervisorInv, LinkOK, Threaded
    <3>2. CASE c \notin waiting
      BY <1>1, <1>3, <2>1, <3>2 DEF SupervisorInv, TypeInv, LinkOK
    <3>3. QED  BY <3>1, <3>2
  <2>7. SlotsOK'
    <3>1. ASSUME NEW t \in Supervisors PROVE ThreadsOf(t)' = ThreadsOf(t)
      BY <2>1 DEF ThreadsOf, Threaded
    <3>2. QED  BY <1>2, <3>1, SlotsStay DEF SupervisorInv
  <2>8. QED
    <3> HIDE DEF waiting
    <3>1. QED  BY <1>1, <1>2, <1>3, <2>2, <2>4, <2>5, <2>6, <2>7, PhaseKeeps DEF SupervisorInv
<1>5. CASE ReleaseLock(s)
  <2>1. /\ lock' = [lock EXCEPT ![DirOf[s]] = NoOne] /\ l = "released"
        /\ UNCHANGED <<client, link, peer, sock, pidf>>
    BY <1>1, <1>3, <1>5 DEF ReleaseLock, clientVars, Phase
  <2>2. TypeInv'  BY <1>1, <1>2, <1>3, <2>1 DEF SupervisorInv, TypeInv
  <2>3. FilesOK(s)'  BY <1>1, <1>3, <2>1 DEF SupervisorInv, TypeInv, FilesOK, Locked
  <2>4. \A t \in Supervisors : FilesOK(t)'
    <3>1. \A d \in Dirs \ {DirOf[s]} : lock'[d] = lock[d] /\ sock'[d] = sock[d] /\ pidf'[d] = pidf[d]
      BY <2>1 DEF SupervisorInv, TypeInv
    <3>2. QED  BY <1>3, <2>3, <3>1, FilesKept
  <2>5. SocketsOK'  BY <2>1 DEF SupervisorInv, SocketsOK
  <2>6. QED  BY <1>1, <1>2, <1>3, <2>1, <2>2, <2>4, <2>5, PhaseKeeps DEF SupervisorInv
<1>6. CASE UnlinkOwn(s)
  <2>1. /\ sock' = [sock EXCEPT ![DirOf[s]] = NoOne] /\ pidf' = [pidf EXCEPT ![DirOf[s]] = NoOne]
        /\ UNCHANGED <<client, link, peer, lock>> /\ l = "unlinked"
    BY <1>1, <1>3, <1>6 DEF UnlinkOwn, clientVars, Phase
  <2>2. TypeInv'  BY <1>1, <1>2, <1>3, <2>1 DEF SupervisorInv, TypeInv
  <2>3. FilesOK(s)'  BY <1>1, <1>3, <2>1 DEF SupervisorInv, TypeInv, FilesOK, Locked
  <2>4. \A t \in Supervisors : FilesOK(t)'
    <3>1. \A d \in Dirs \ {DirOf[s]} : lock'[d] = lock[d] /\ sock'[d] = sock[d] /\ pidf'[d] = pidf[d]
      BY <2>1 DEF SupervisorInv, TypeInv
    <3>2. QED  BY <1>3, <2>3, <3>1, FilesKept
  <2>5. SocketsOK'  BY <2>1 DEF SupervisorInv, TypeInv, SocketsOK
  <2>6. QED  BY <1>1, <1>2, <1>3, <2>1, <2>2, <2>4, <2>5, PhaseKeeps DEF SupervisorInv
<1>7. CASE LoopEnds(s) \/ AcceptFails(s) \/ Drained(s) \/ KillWorkers(s)
  <2>1. UNCHANGED <<client, link, peer, lock, sock, pidf>> /\ l \in {"draining", "stopped", "killed"}
    BY <1>1, <1>3, <1>7 DEF LoopEnds, AcceptFails, Drained, KillWorkers, clientVars, fileVars, Phase
  <2>2. TypeInv'  BY <1>1, <1>2, <1>3, <2>1 DEF SupervisorInv, TypeInv
  <2>3. FilesOK(s)'  BY <1>1, <1>3, <2>1 DEF SupervisorInv, TypeInv, FilesOK, Locked
  <2>4. \A t \in Supervisors : FilesOK(t)'  BY <1>3, <2>1, <2>3, FilesKept
  <2>5. SocketsOK'  BY <2>1 DEF SupervisorInv, SocketsOK
  <2>6. QED  BY <1>1, <1>2, <1>3, <2>1, <2>2, <2>4, <2>5, PhaseKeeps DEF SupervisorInv
<1>8. QED  BY <1>4, <1>5, <1>6, <1>7

-----------------------------------------------------------------------------
(* The connections. *)

\* A step of the connections alone keeps what is said of files, reaps and jobs.
LEMMA QuietKeeps ==
  ASSUME SupervisorInv, UNCHANGED <<pc, lock, sock, pidf, listed, wal, forgotten, job, home, orphan>>,
         TypeInv', \A c \in Clients : LinkOK(c)', SlotsOK'
  PROVE  SupervisorInv'
<1>1. Runs' = Runs /\ orphan' = orphan  BY DEF Runs
<1>2. \A s \in Supervisors : FilesOK(s)' /\ ReapOK(s)'  BY <1>1, StillKeeps
<1>3. SocketsOK' /\ ListsOthers'  BY StillKeeps
<1>4. ASSUME NEW c \in Clients PROVE JobOK(c)'  BY DEF SupervisorInv, JobOK
<1>5. LogsOK'  BY DEF SupervisorInv, LogsOK
<1>6. QED  BY <1>2, <1>3, <1>4, <1>5 DEF SupervisorInv

\* The connection of c ends, and what its client knows by then is no worse.
LEMMA LinkEnds ==
  ASSUME SupervisorInv, NEW c \in Clients, NEW answer \in ClientPlaces \ {"idle", "starting", "connecting"},
         link[c] # "none", pc' = pc,
         client' = [client EXCEPT ![c] = IF client[c] = "waiting" THEN answer ELSE client[c]],
         link' = [link EXCEPT ![c] = "none"], peer' = [peer EXCEPT ![c] = NoOne]
  PROVE  /\ \A b \in Clients : LinkOK(b)'
         /\ client' \in [Clients -> ClientPlaces]
         /\ link' \in [Clients -> {"none", "backlog"} \cup Threaded]
         /\ peer' \in [Clients -> Supervisors \cup {NoOne}]
         /\ \A s \in Supervisors : ThreadsOf(s)' = ThreadsOf(s) \ {c}
<1> USE SupervisorAssumption DEF SupervisorAssumption
<1>1. ASSUME NEW b \in Clients PROVE LinkOK(b)'
  <2>1. CASE b = c  BY <2>1 DEF SupervisorInv, TypeInv, LinkOK, Threaded
  <2>2. CASE b # c  BY <2>2 DEF SupervisorInv, TypeInv, LinkOK
  <2>3. QED  BY <2>1, <2>2
<1>2. /\ client' \in [Clients -> ClientPlaces]
      /\ link' \in [Clients -> {"none", "backlog"} \cup Threaded]
      /\ peer' \in [Clients -> Supervisors \cup {NoOne}]
  BY DEF SupervisorInv, TypeInv
<1>3. ASSUME NEW s \in Supervisors PROVE ThreadsOf(s)' = ThreadsOf(s) \ {c}
  BY DEF ThreadsOf, Threaded, SupervisorInv, TypeInv
<1>4. QED  BY <1>1, <1>2, <1>3

\* A thread that moves on, or is started, on the connection of c.
LEMMA LinkMoves ==
  ASSUME SupervisorInv, NEW c \in Clients, NEW l \in Threaded, link[c] # "none", pc[peer[c]] \in Up,
         pc' = pc, link' = [link EXCEPT ![c] = l], UNCHANGED <<client, peer>>
  PROVE  /\ \A b \in Clients : LinkOK(b)'
         /\ link' \in [Clients -> {"none", "backlog"} \cup Threaded]
         /\ ThreadsOf(peer[c])' = ThreadsOf(peer[c]) \cup {c}
         /\ \A s \in Supervisors \ {peer[c]} : ThreadsOf(s)' = ThreadsOf(s)
<1>1. ASSUME NEW b \in Clients PROVE LinkOK(b)'
  <2>1. CASE b = c  BY <2>1 DEF SupervisorInv, TypeInv, LinkOK, Threaded
  <2>2. CASE b # c  BY <2>2 DEF SupervisorInv, TypeInv, LinkOK
  <2>3. QED  BY <2>1, <2>2
<1>2. link' \in [Clients -> {"none", "backlog"} \cup Threaded]  BY DEF SupervisorInv, TypeInv
<1>3. ThreadsOf(peer[c])' = ThreadsOf(peer[c]) \cup {c}
  BY DEF ThreadsOf, SupervisorInv, TypeInv
<1>4. ASSUME NEW s \in Supervisors \ {peer[c]} PROVE ThreadsOf(s)' = ThreadsOf(s)
  BY DEF ThreadsOf, SupervisorInv, TypeInv
<1>5. QED  BY <1>1, <1>2, <1>3, <1>4

LEMMA AcceptKeeps ==
  ASSUME SupervisorInv, NEW c \in Clients, Accept(c) PROVE SupervisorInv'
<1> USE SupervisorAssumption DEF SupervisorAssumption
<1> PICK s : s = peer[c]  OBVIOUS
<1>1. /\ link[c] = "backlog" /\ pc[s] = "serving" /\ s \in Supervisors /\ c \notin ThreadsOf(s)
      /\ UNCHANGED <<pc, running, lock, sock, pidf, wal, forgotten, listed, served, job, home, orphan>>
  BY DEF Accept, fileVars, jobVars, SupervisorInv, LinkOK, ThreadsOf, Threaded
<1>2. CASE Refuse(c) \/ NoThread(c)
  <2>1. PICK answer \in {"answered", "rechecking"} :
          client' = [client EXCEPT ![c] = IF client[c] = "waiting" THEN answer ELSE client[c]]
    BY <1>2 DEF Refuse, NoThread
  <2>2. /\ link' = [link EXCEPT ![c] = "none"] /\ peer' = [peer EXCEPT ![c] = NoOne] /\ slots' = slots
        /\ answer \in ClientPlaces \ {"idle", "starting", "connecting"} /\ link[c] # "none"
    BY <1>1, <1>2 DEF Refuse, NoThread, ClientPlaces
  <2>3. /\ \A b \in Clients : LinkOK(b)'
        /\ client' \in [Clients -> ClientPlaces]
        /\ link' \in [Clients -> {"none", "backlog"} \cup Threaded]
        /\ peer' \in [Clients -> Supervisors \cup {NoOne}]
        /\ \A t \in Supervisors : ThreadsOf(t)' = ThreadsOf(t) \ {c}
    BY <1>1, <2>1, <2>2, LinkEnds
  <2>4. \A t \in Supervisors : c \notin ThreadsOf(t)  BY <1>1 DEF ThreadsOf, Threaded
  <2>5. ASSUME NEW t \in Supervisors PROVE ThreadsOf(t)' = ThreadsOf(t)
    <3>1. ThreadsOf(t)' = ThreadsOf(t) \ {c} /\ c \notin ThreadsOf(t)  BY <2>3, <2>4
    <3>2. QED  BY <3>1
  <2>6. SlotsOK'  BY <2>2, <2>5, SlotsStay DEF SupervisorInv
  <2>7. TypeInv'  BY <1>1, <2>2, <2>3 DEF SupervisorInv, TypeInv
  <2>8. QED  BY <1>1, <2>3, <2>6, <2>7, QuietKeeps
<1>3. CASE Thread(c)
  <2>1. /\ slots[s] < Slots /\ slots' = [slots EXCEPT ![s] = @ + 1]
        /\ link' = [link EXCEPT ![c] = "accepted"] /\ UNCHANGED <<client, peer>>
    BY <1>3 DEF Thread
  <2>2. "accepted" \in Threaded /\ link[c] # "none" /\ pc[peer[c]] \in Up
    BY <1>1 DEF Threaded, Up
  <2>3. /\ \A b \in Clients : LinkOK(b)'
        /\ link' \in [Clients -> {"none", "backlog"} \cup Threaded]
        /\ ThreadsOf(peer[c])' = ThreadsOf(peer[c]) \cup {c}
        /\ \A t \in Supervisors \ {peer[c]} : ThreadsOf(t)' = ThreadsOf(t)
    BY <1>1, <2>1, <2>2, LinkMoves
  <2>4. ThreadsOf(s)' = ThreadsOf(s) \cup {c}
    <3>1. ThreadsOf(s)' = ThreadsOf(peer[c])' /\ ThreadsOf(s) = ThreadsOf(peer[c])
      BY <2>1 DEF ThreadsOf
    <3>2. QED  BY <2>3, <3>1
  <2>5. SlotsOK'  BY <1>1, <2>1, <2>3, <2>4, SlotsAdd DEF SupervisorInv
  <2>6. TypeInv'  BY <1>1, <2>1, <2>3 DEF SupervisorInv, TypeInv
  <2>7. QED  BY <1>1, <2>3, <2>5, <2>6, QuietKeeps
<1>4. QED  BY <1>2, <1>3 DEF Accept

LEMMA GreetKeeps ==
  ASSUME SupervisorInv, NEW c \in Clients, Greet(c) PROVE SupervisorInv'
<1> PICK s : s = peer[c]  OBVIOUS
<1>1. /\ link[c] = "accepted" /\ link' = [link EXCEPT ![c] = "reading"]
      /\ UNCHANGED <<pc, running, lock, sock, pidf, wal, forgotten, listed, slots, served, client, peer, job, home, orphan>>
  BY DEF Greet, fileVars, jobVars
<1>2. "reading" \in Threaded /\ link[c] \in Threaded /\ link[c] # "none" /\ pc[s] \in Up
  BY <1>1 DEF Threaded, SupervisorInv, LinkOK
<1>3. /\ \A b \in Clients : LinkOK(b)'
      /\ link' \in [Clients -> {"none", "backlog"} \cup Threaded]
      /\ ThreadsOf(peer[c])' = ThreadsOf(peer[c]) \cup {c}
      /\ \A t \in Supervisors \ {peer[c]} : ThreadsOf(t)' = ThreadsOf(t)
  BY <1>1, <1>2, LinkMoves
<1>4. ASSUME NEW t \in Supervisors PROVE ThreadsOf(t)' = ThreadsOf(t)
  BY <1>1, <1>2 DEF ThreadsOf, Threaded, SupervisorInv, TypeInv
<1>5. SlotsOK'  BY <1>1, <1>4, SlotsStay DEF SupervisorInv
<1>6. TypeInv'  BY <1>1, <1>3 DEF SupervisorInv, TypeInv
<1>7. QED  BY <1>1, <1>3, <1>5, <1>6, QuietKeeps

\* A thread that ends gives its slot back.
LEMMA FinishKeeps ==
  ASSUME SupervisorInv, NEW c \in Clients, Reject(c) \/ Answer(c) PROVE SupervisorInv'
<1> PICK s : s = peer[c]  OBVIOUS
<1>1. /\ link[c] \in Threaded /\ link[c] # "none" /\ s \in Supervisors
      /\ UNCHANGED <<pc, running, lock, sock, pidf, wal, forgotten, listed, job, home, orphan>>
  BY DEF Reject, Answer, Threaded, fileVars, jobVars, SupervisorInv, LinkOK
<1>2. /\ client' = [client EXCEPT ![c] = IF client[c] = "waiting" THEN "answered" ELSE client[c]]
      /\ link' = [link EXCEPT ![c] = "none"] /\ peer' = [peer EXCEPT ![c] = NoOne]
      /\ slots' = [slots EXCEPT ![s] = @ - 1]
  BY DEF Reject, Answer, Finish
<1>3. "answered" \in ClientPlaces \ {"idle", "starting", "connecting"}  BY DEF ClientPlaces
<1>4. /\ \A b \in Clients : LinkOK(b)'
      /\ client' \in [Clients -> ClientPlaces]
      /\ link' \in [Clients -> {"none", "backlog"} \cup Threaded]
      /\ peer' \in [Clients -> Supervisors \cup {NoOne}]
      /\ \A t \in Supervisors : ThreadsOf(t)' = ThreadsOf(t) \ {c}
  BY <1>1, <1>2, <1>3, LinkEnds
<1>5. c \in ThreadsOf(s) /\ \A t \in Supervisors \ {s} : c \notin ThreadsOf(t)
  BY <1>1 DEF ThreadsOf
<1>6. ASSUME NEW t \in Supervisors \ {s} PROVE ThreadsOf(t)' = ThreadsOf(t)
  <2>1. ThreadsOf(t)' = ThreadsOf(t) \ {c} /\ c \notin ThreadsOf(t)  BY <1>4, <1>5
  <2>2. QED  BY <2>1
<1>7. SlotsOK' /\ slots' \in [Supervisors -> Nat]
  BY <1>1, <1>2, <1>4, <1>5, <1>6, SlotsDrop DEF SupervisorInv
<1>8. served' \in [Supervisors -> BOOLEAN]
  <2>1. CASE Reject(c)  BY <2>1 DEF Reject, SupervisorInv, TypeInv
  <2>2. CASE Answer(c)
    <3>1. (served[s] \/ CountsAsServed(c)) \in BOOLEAN
      BY <1>1 DEF CountsAsServed, SupervisorInv, TypeInv
    <3>2. QED  BY <1>1, <2>2, <3>1 DEF Answer, SupervisorInv, TypeInv
  <2>3. QED  BY <2>1, <2>2
<1>9. TypeInv'  BY <1>1, <1>4, <1>7, <1>8 DEF SupervisorInv, TypeInv
<1>10. QED  BY <1>1, <1>4, <1>7, <1>9, QuietKeeps

-----------------------------------------------------------------------------
(* The jobs. *)

\* Whether an append is one that compacts or not: what is queued is in the log, and so is
\* what runs, or a compaction has left it out.
LEMMA LoggedKeeps ==
  ASSUME SupervisorInv, NEW s \in Supervisors, DirOf[s] = ClientDir,
         job' \in [Clients -> {"none", "queued", "running", "done", "failed"}],
         NEW pending \in SUBSET Clients, Logged(s, pending),
         \A b \in Clients : job'[b] \in {"queued", "running"} =>
           home'[b] = s /\ (b \in pending \/ (job'[b] = "running" /\ b \in forgotten))
  PROVE  /\ wal' \in [Dirs -> SUBSET Clients] /\ forgotten' \subseteq Clients /\ LogsOK'
         /\ \A b \in Clients : job'[b] = "queued" => b \in wal'[ClientDir]
         /\ \A b \in Clients : job'[b] = "running" => b \in wal'[ClientDir] \cup forgotten'
         /\ \A b \in wal'[ClientDir] : b \in pending \/ job'[b] = "queued"
<1> USE SupervisorAssumption DEF SupervisorAssumption
<1> DEFINE runs == {b \in Clients : job'[b] = "running"}
           queue == {b \in Clients : home'[b] = s /\ job'[b] = "queued"}
<1>1. CASE wal' = [wal EXCEPT ![DirOf[s]] = pending] /\ forgotten' = forgotten \cap runs
  <2>1. wal'[ClientDir] = pending  BY <1>1 DEF SupervisorInv, TypeInv
  <2>2. QED  BY <1>1, <2>1 DEF SupervisorInv, TypeInv, LogsOK
<1>2. CASE /\ wal' = [wal EXCEPT ![DirOf[s]] = queue]
           /\ forgotten' = (forgotten \cap runs) \cup {b \in runs : home'[b] = s}
  <2>1. wal'[ClientDir] = queue  BY <1>2 DEF SupervisorInv, TypeInv
  <2>2. QED  BY <1>2, <2>1 DEF SupervisorInv, TypeInv, LogsOK
<1>3. QED  BY <1>1, <1>2 DEF Logged

\* The jobs that are not over are all those of the supervisor that is up.
LEMMA OneHome ==
  ASSUME SupervisorInv, NEW s \in Supervisors, DirOf[s] = ClientDir, pc[s] \in Up,
         NEW b \in Clients, job[b] # "none"
  PROVE  home[b] = s
  BY DEF SupervisorInv, JobOK, ReapOK

\* A job is accepted.
LEMMA EnqueueKeeps ==
  ASSUME SupervisorInv, NEW c \in Clients, Enqueue(c) PROVE SupervisorInv'
<1> USE SupervisorAssumption DEF SupervisorAssumption
<1> PICK s : s = peer[c]  OBVIOUS
<1>1. /\ link[c] = "reading" /\ link' = [link EXCEPT ![c] = "waiting"]
      /\ job' = [job EXCEPT ![c] = "queued"] /\ home' = [home EXCEPT ![c] = s]
      /\ Logged(s, wal[DirOf[s]] \cup {c})
      /\ UNCHANGED <<pc, running, lock, sock, pidf, listed, slots, served, client, peer, orphan>>
  BY DEF Enqueue, loopVars
<1>2. /\ "waiting" \in Threaded /\ link[c] \in Threaded /\ link[c] # "none"
      /\ s \in Supervisors /\ DirOf[s] = ClientDir /\ pc[s] \in Up
  BY <1>1 DEF Threaded, SupervisorInv, LinkOK
<1>3. /\ \A b \in Clients : LinkOK(b)'
      /\ link' \in [Clients -> {"none", "backlog"} \cup Threaded]
  BY <1>1, <1>2, LinkMoves
<1>4. ASSUME NEW t \in Supervisors PROVE ThreadsOf(t)' = ThreadsOf(t)
  BY <1>1, <1>2 DEF ThreadsOf, Threaded, SupervisorInv, TypeInv
<1>5. SlotsOK'  BY <1>1, <1>4, SlotsStay DEF SupervisorInv
<1>6. /\ job' \in [Clients -> {"none", "queued", "running", "done", "failed"}]
      /\ home' \in [Clients -> Supervisors \cup {NoOne}]
      /\ wal[DirOf[s]] \cup {c} \in SUBSET Clients
  BY <1>1, <1>2 DEF SupervisorInv, TypeInv
<1>7. ASSUME NEW b \in Clients, job'[b] \in {"queued", "running"}
      PROVE  home'[b] = s /\ (b \in wal[DirOf[s]] \cup {c} \/ (job'[b] = "running" /\ b \in forgotten))
  <2>1. CASE b = c  BY <1>1, <2>1 DEF SupervisorInv, TypeInv
  <2>2. CASE b # c
    <3>1. job'[b] = job[b] /\ home'[b] = home[b]  BY <1>1, <2>2 DEF SupervisorInv, TypeInv
    <3>2. home[b] = s  BY <1>2, <1>7, <3>1, OneHome
    <3>3. QED  BY <1>2, <1>7, <3>1, <3>2 DEF SupervisorInv, JobOK
  <2>3. QED  BY <2>1, <2>2
<1>8. /\ wal' \in [Dirs -> SUBSET Clients] /\ forgotten' \subseteq Clients /\ LogsOK'
      /\ \A b \in Clients : job'[b] = "queued" => b \in wal'[ClientDir]
      /\ \A b \in Clients : job'[b] = "running" => b \in wal'[ClientDir] \cup forgotten'
  BY <1>1, <1>2, <1>6, <1>7, LoggedKeeps
<1>9. TypeInv'  BY <1>1, <1>2, <1>3, <1>6, <1>8 DEF SupervisorInv, TypeInv
<1>10. ASSUME NEW b \in Clients PROVE JobOK(b)'
  BY <1>1, <1>2, <1>8 DEF SupervisorInv, TypeInv, JobOK
<1>11. Runs' \subseteq Runs /\ orphan' = orphan  BY <1>1 DEF Runs, SupervisorInv, TypeInv
<1>12. /\ \A t \in Supervisors : FilesOK(t)' /\ ReapOK(t)'
       /\ SocketsOK' /\ ListsOthers'
  BY <1>1, <1>11, StillKeeps
<1>13. QED  BY <1>3, <1>5, <1>8, <1>9, <1>10, <1>12 DEF SupervisorInv

\* A job starts in a supervisor that serves, where nothing is left of an earlier run, but
\* by a worker of the operator's own, and nobody is about to reap.
LEMMA JobStartsKeeps ==
  ASSUME SupervisorInv, NEW c \in Clients, JobStarts(c) PROVE SupervisorInv'
<1> USE SupervisorAssumption DEF SupervisorAssumption
<1> PICK s : s = home[c]  OBVIOUS
<1>1. /\ job[c] = "queued" /\ pc[s] \in {"serving", "draining"} /\ job' = [job EXCEPT ![c] = "running"]
      /\ s \in Supervisors /\ DirOf[s] = ClientDir /\ Logged(s, wal[DirOf[s]])
      /\ UNCHANGED <<pc, running, lock, sock, pidf, listed, slots, served, client, link, peer, home, orphan>>
  BY DEF JobStarts, loopVars, clientVars, SupervisorInv, JobOK
<1>2. orphan \subseteq External /\ \A t \in Supervisors \ {s} : DirOf[t] = ClientDir => pc[t] \in Outside
  BY <1>1 DEF SupervisorInv, ReapOK, Locked
<1>3. ASSUME NEW t \in Supervisors PROVE ReapOK(t)'
  <2>1. DirOf[t] = ClientDir => pc[t] # "reaping"  BY <1>1, <1>2 DEF Outside
  <2>2. QED  BY <1>1, <1>2, <2>1 DEF SupervisorInv, ReapOK
<1>4. /\ job' \in [Clients -> {"none", "queued", "running", "done", "failed"}]
      /\ wal[DirOf[s]] \in SUBSET Clients /\ pc[s] \in Up
  BY <1>1 DEF SupervisorInv, TypeInv, Up
<1>5. ASSUME NEW b \in Clients, job'[b] \in {"queued", "running"}
      PROVE  home'[b] = s /\ (b \in wal[DirOf[s]] \/ (job'[b] = "running" /\ b \in forgotten))
  <2>1. job[b] \in {"queued", "running"} /\ (job'[b] = job[b] \/ b = c) /\ home'[b] = home[b]
    BY <1>1, <1>5 DEF SupervisorInv, TypeInv
  <2>2. home[b] = s  BY <1>1, <1>4, <2>1, OneHome
  <2>3. QED  BY <1>1, <1>5, <2>1, <2>2 DEF SupervisorInv, JobOK
<1>6. /\ wal' \in [Dirs -> SUBSET Clients] /\ forgotten' \subseteq Clients /\ LogsOK'
      /\ \A b \in Clients : job'[b] = "queued" => b \in wal'[ClientDir]
      /\ \A b \in Clients : job'[b] = "running" => b \in wal'[ClientDir] \cup forgotten'
  BY <1>1, <1>4, <1>5, LoggedKeeps
<1>7. TypeInv'  BY <1>1, <1>4, <1>6 DEF SupervisorInv, TypeInv
<1>8. ASSUME NEW b \in Clients PROVE LinkOK(b)' /\ JobOK(b)'
  BY <1>1, <1>2, <1>6 DEF SupervisorInv, TypeInv, LinkOK, JobOK
<1>9. ASSUME NEW t \in Supervisors PROVE ThreadsOf(t)' = ThreadsOf(t)  BY <1>1 DEF ThreadsOf
<1>10. SlotsOK'  BY <1>1, <1>9, SlotsStay DEF SupervisorInv
<1>11. (\A t \in Supervisors : FilesOK(t)') /\ SocketsOK' /\ ListsOthers'  BY <1>1, StillKeeps
<1>12. QED  BY <1>3, <1>6, <1>7, <1>8, <1>10, <1>11 DEF SupervisorInv

LEMMA JobEndsKeeps ==
  ASSUME SupervisorInv, NEW c \in Clients, JobEnds(c) \/ OrphanEnds(c) PROVE SupervisorInv'
<1> USE SupervisorAssumption DEF SupervisorAssumption
<1>1. /\ orphan' \subseteq orphan
      /\ UNCHANGED <<pc, running, lock, sock, pidf, listed, slots, served, client, link, peer, home>>
  BY DEF JobEnds, OrphanEnds, fileVars, loopVars, clientVars
<1>2. /\ job' \in [Clients -> {"none", "queued", "running", "done", "failed"}]
      /\ \A b \in Clients : job'[b] = job[b] \/ (job[b] = "running" /\ job'[b] \in {"done", "failed"})
  <2>1. CASE JobEnds(c)  BY <2>1 DEF JobEnds, SupervisorInv, TypeInv
  <2>2. CASE OrphanEnds(c)  BY <2>2 DEF OrphanEnds, SupervisorInv, TypeInv
  <2>3. QED  BY <2>1, <2>2
<1>3. /\ wal' \in [Dirs -> SUBSET Clients] /\ forgotten' \subseteq Clients /\ LogsOK'
      /\ \A b \in Clients : job'[b] = "queued" => b \in wal'[ClientDir]
      /\ \A b \in Clients : job'[b] = "running" => b \in wal'[ClientDir] \cup forgotten'
  <2>1. CASE JobEnds(c)
    <3> PICK s : s = home[c]  OBVIOUS
    <3>1. /\ s \in Supervisors /\ DirOf[s] = ClientDir /\ pc[s] \in Up
          /\ Logged(s, wal[DirOf[s]] \ {c}) /\ wal[DirOf[s]] \ {c} \in SUBSET Clients
          /\ job'[c] \in {"done", "failed"}
      BY <2>1 DEF JobEnds, SupervisorInv, TypeInv, JobOK
    <3>2. ASSUME NEW b \in Clients, job'[b] \in {"queued", "running"}
          PROVE  home'[b] = s /\ (b \in wal[DirOf[s]] \ {c} \/ (job'[b] = "running" /\ b \in forgotten))
      <4>1. b # c /\ job'[b] = job[b] /\ home'[b] = home[b]  BY <1>1, <1>2, <3>1, <3>2
      <4>2. home[b] = s  BY <3>1, <3>2, <4>1, OneHome
      <4>3. QED  BY <3>1, <3>2, <4>1, <4>2 DEF SupervisorInv, JobOK
    <3>3. QED  BY <1>2, <3>1, <3>2, LoggedKeeps
  <2>2. CASE OrphanEnds(c)
    BY <2>2 DEF OrphanEnds, fileVars, SupervisorInv, TypeInv, JobOK, LogsOK
  <2>3. QED  BY <2>1, <2>2
<1>4. TypeInv'  BY <1>1, <1>2, <1>3 DEF SupervisorInv, TypeInv
<1>5. Runs' \subseteq Runs  BY <1>2 DEF Runs
<1>6. ASSUME NEW b \in Clients PROVE JobOK(b)'
  BY <1>1, <1>2, <1>3 DEF SupervisorInv, JobOK
<1>7. ASSUME NEW b \in Clients PROVE LinkOK(b)'  BY <1>1 DEF SupervisorInv, LinkOK
<1>8. ASSUME NEW t \in Supervisors PROVE ThreadsOf(t)' = ThreadsOf(t)  BY <1>1 DEF ThreadsOf
<1>9. SlotsOK'  BY <1>1, <1>8, SlotsStay DEF SupervisorInv
<1>10. /\ \A t \in Supervisors : FilesOK(t)' /\ ReapOK(t)'
       /\ SocketsOK' /\ ListsOthers'
  BY <1>1, <1>5, StillKeeps
<1>11. QED  BY <1>3, <1>4, <1>6, <1>7, <1>9, <1>10 DEF SupervisorInv

-----------------------------------------------------------------------------
(* The clients, and what comes from outside. *)

LEMMA ClientKeeps ==
  ASSUME SupervisorInv, NEW c \in Clients, Ask(c) \/ ClientStep(c) \/ GiveUp(c) PROVE SupervisorInv'
<1> USE SupervisorAssumption DEF SupervisorAssumption
<1>1. CASE Connect(c) /\ client'[c] = "waiting"
  <2>1. /\ client[c] = "connecting" /\ client' = [client EXCEPT ![c] = "waiting"]
        /\ link' = [link EXCEPT ![c] = "backlog"] /\ peer' = [peer EXCEPT ![c] = sock[ClientDir]]
        /\ sock[ClientDir] # NoOne
        /\ UNCHANGED <<pc, running, lock, sock, pidf, wal, forgotten, listed, slots, served, job, home, orphan>>
    BY <1>1 DEF Connect, fileVars, loopVars, jobVars, SupervisorInv, TypeInv
  <2>2. link[c] = "none" /\ sock[ClientDir] \in Supervisors /\ DirOf[sock[ClientDir]] = ClientDir
    BY <2>1 DEF SupervisorInv, LinkOK, SocketsOK, TypeInv
  <2>3. TypeInv'  BY <2>1, <2>2 DEF SupervisorInv, TypeInv, ClientPlaces
  <2>4. ASSUME NEW b \in Clients PROVE LinkOK(b)'
    <3>1. CASE b = c  BY <2>1, <2>2, <3>1 DEF SupervisorInv, TypeInv, LinkOK, Threaded
    <3>2. CASE b # c  BY <2>1, <3>2 DEF SupervisorInv, TypeInv, LinkOK
    <3>3. QED  BY <3>1, <3>2
  <2>5. ASSUME NEW t \in Supervisors PROVE ThreadsOf(t)' = ThreadsOf(t)
    BY <2>1, <2>2 DEF ThreadsOf, Threaded, SupervisorInv, TypeInv
  <2>6. SlotsOK'  BY <2>1, <2>5, SlotsStay DEF SupervisorInv
  <2>7. QED  BY <2>1, <2>3, <2>4, <2>6, QuietKeeps
<1>2. CASE ~(Connect(c) /\ client'[c] = "waiting")
  <2>1. PICK place \in ClientPlaces : client' = [client EXCEPT ![c] = place]
    <3>1. CASE Ask(c)  BY <3>1 DEF Ask, ClientPlaces
    <3>2. CASE ClientStep(c)
      BY <3>2 DEF ClientStep, AwaitStart, Connect, Recheck, ClientPlaces
    <3>3. CASE GiveUp(c)  BY <3>3 DEF GiveUp, ClientPlaces
    <3>4. QED  BY <3>1, <3>2, <3>3
  <2>2. /\ place \in {"idle", "starting", "connecting"} => client[c] \in {"idle", "starting", "connecting"}
        /\ UNCHANGED <<link, peer>>
    <3>1. CASE Ask(c)  BY <3>1 DEF Ask
    <3>2. CASE AwaitStart(c)  BY <3>2 DEF AwaitStart
    <3>3. CASE Connect(c)  BY <1>2, <2>1, <3>3 DEF Connect, SupervisorInv, TypeInv
    <3>4. CASE Recheck(c)  BY <2>1, <3>4 DEF Recheck, SupervisorInv, TypeInv
    <3>5. CASE GiveUp(c)  BY <2>1, <3>5 DEF GiveUp, SupervisorInv, TypeInv
    <3>6. QED  BY <3>1, <3>2, <3>3, <3>4, <3>5 DEF ClientStep
  <2>3. UNCHANGED <<running, asked, lock, sock, pidf, wal, forgotten, listed, slots, served, idle, job, home, orphan, troubles>>
    BY DEF Ask, ClientStep, AwaitStart, Connect, Recheck, GiveUp, fileVars, loopVars, jobVars
  <2>4. PICK s \in Supervisors \cup {NoOne} : IF s = NoOne THEN pc' = pc ELSE Spawned(s)
    <3>1. CASE Ask(c)  BY <3>1 DEF Ask
    <3>2. CASE ~Ask(c)
      <4>1. pc' = pc  BY <3>2 DEF ClientStep, AwaitStart, Connect, Recheck, GiveUp
      <4>2. QED  BY <4>1
    <3>3. QED  BY <3>1, <3>2
  <2>5. CASE s = NoOne
    <3>1. pc' = pc  BY <2>4, <2>5
    <3>2. TypeInv'  BY <2>1, <2>2, <2>3, <3>1 DEF SupervisorInv, TypeInv
    <3>3. ASSUME NEW b \in Clients PROVE LinkOK(b)'
      BY <2>1, <2>2, <3>1 DEF SupervisorInv, TypeInv, LinkOK
    <3>4. ASSUME NEW t \in Supervisors PROVE ThreadsOf(t)' = ThreadsOf(t)  BY <2>2 DEF ThreadsOf
    <3>5. SlotsOK'  BY <2>3, <3>4, SlotsStay DEF SupervisorInv
    <3>6. QED  BY <2>3, <3>1, <3>2, <3>3, <3>5, QuietKeeps
  <2>6. CASE s # NoOne
    <3>1. /\ s \in Supervisors /\ pc[s] = "off" /\ pc' = [pc EXCEPT ![s] = "probing"]
          /\ pc[s] \in Outside /\ pc[s] \notin Up /\ "probing" \in Outside /\ "probing" \in Phases \ Up
          /\ "probing" \notin Locked /\ \A t \in Supervisors \ {s} : pc'[t] = pc[t]
      BY <2>4, <2>6 DEF Spawned, Outside, Up, Phases, Locked, SupervisorInv, TypeInv
    <3>2. TypeInv'  BY <2>1, <2>2, <2>3, <3>1 DEF SupervisorInv, TypeInv
    <3>3. FilesOK(s)'  BY <3>1 DEF SupervisorInv, TypeInv, FilesOK, Locked
    <3>4. \A t \in Supervisors : FilesOK(t)'  BY <2>3, <3>1, <3>3, FilesKept
    <3>5. /\ \A t \in Supervisors : ReapOK(t)'
          /\ \A b \in Clients : JobOK(b)'
          /\ LogsOK' /\ ListsOthers'
      BY <2>3, <3>1, PhaseKeeps
    <3>6. ASSUME NEW b \in Clients PROVE LinkOK(b)'
      <4>1. \A t \in Supervisors : pc[t] \in Up => pc'[t] \in Up  BY <3>1
      <4>2. QED  BY <2>1, <2>2, <4>1 DEF SupervisorInv, TypeInv, LinkOK, Threaded
    <3>7. ASSUME NEW t \in Supervisors PROVE ThreadsOf(t)' = ThreadsOf(t)  BY <2>2 DEF ThreadsOf
    <3>8. SlotsOK'  BY <2>3, <3>7, SlotsStay DEF SupervisorInv
    <3>9. SocketsOK'  BY <2>3 DEF SupervisorInv, SocketsOK
    <3>10. QED  BY <3>2, <3>4, <3>5, <3>6, <3>8, <3>9 DEF SupervisorInv
  <2>7. QED  BY <2>5, <2>6
<1>3. QED  BY <1>1, <1>2

LEMMA OutsideKeeps ==
  ASSUME SupervisorInv, NEW s \in Supervisors,
         TimePasses(s) \/ Stop(s) \/ Kill(s) \/ BindFails(s) \/ Exit(s)
  PROVE  SupervisorInv'
<1>1. CASE TimePasses(s) \/ (Stop(s) /\ pc[s] \notin Starting \ {"armed", "replaying"})
  <2>1. /\ UNCHANGED <<pc, lock, sock, pidf, wal, forgotten, listed, slots, served, client, link, peer, job, home, orphan>>
        /\ running' \in [Supervisors -> BOOLEAN]
    BY <1>1 DEF TimePasses, Stop, fileVars, loopVars, clientVars, jobVars, SupervisorInv, TypeInv
  <2>2. TypeInv'  BY <2>1 DEF SupervisorInv, TypeInv
  <2>3. ASSUME NEW b \in Clients PROVE LinkOK(b)'  BY <2>1 DEF SupervisorInv, LinkOK
  <2>4. ASSUME NEW t \in Supervisors PROVE ThreadsOf(t)' = ThreadsOf(t)  BY <2>1 DEF ThreadsOf
  <2>5. SlotsOK'  BY <2>1, <2>4, SlotsStay DEF SupervisorInv
  <2>6. QED  BY <2>1, <2>2, <2>3, <2>5, QuietKeeps
<1>2. CASE Kill(s) \/ BindFails(s) \/ Exit(s) \/ (Stop(s) /\ pc[s] \in Starting \ {"armed", "replaying"})
  <2>1. PICK W : End({s}, W, pc) /\ listed' = listed
    BY <1>2 DEF Kill, BindFails, Exit, Stop
  <2>2. QED  BY <2>1, EndsKeep
<1>3. QED  BY <1>1, <1>2

LEMMA ReapFromShellKeeps == SupervisorInv /\ ReapFromShell => SupervisorInv'
<1> SUFFICES ASSUME SupervisorInv, ReapFromShell PROVE SupervisorInv'  OBVIOUS
<1>1. End({s \in Supervisors : Alive(s)}, Clients \ External, pc) /\ listed' = listed  BY DEF ReapFromShell
<1>2. PICK K \in SUBSET Supervisors : End(K, Clients \ External, pc)
  <2>1. {s \in Supervisors : Alive(s)} \in SUBSET Supervisors  OBVIOUS
  <2>2. QED  BY <1>1, <2>1
<1>3. QED  BY <1>1, <1>2, EndsKeep

LEMMA NextKeeps == SupervisorInv /\ [SupervisorNext]_supervisorVars => SupervisorInv'
<1> SUFFICES ASSUME SupervisorInv, [SupervisorNext]_supervisorVars PROVE SupervisorInv'  OBVIOUS
<1>1. ASSUME NEW s \in Supervisors, SupervisorStep(s) \/ Start(s) \/ TimePasses(s) \/ AcceptFails(s) \/ Stop(s) \/ Kill(s)
      PROVE  SupervisorInv'
  BY <1>1, StartingKeeps, ListStraysKeeps, ReapKeeps, ReplayKeeps, ClosingKeeps, OutsideKeeps
  DEF SupervisorStep
<1>2. ASSUME NEW c \in Clients, ThreadStep(c) \/ JobStep(c) \/ Ask(c) \/ ClientStep(c) \/ GiveUp(c)
      PROVE  SupervisorInv'
  BY <1>2, AcceptKeeps, GreetKeeps, EnqueueKeeps, FinishKeeps, JobStartsKeeps, JobEndsKeeps, ClientKeeps
  DEF ThreadStep, JobStep
<1>3. CASE UNCHANGED supervisorVars
  <2>1. UNCHANGED <<pc, running, lock, sock, pidf, wal, forgotten, listed, slots, served, client, link, peer, job, home, orphan>>
    BY <1>3 DEF supervisorVars, fileVars, loopVars, clientVars, jobVars
  <2>2. TypeInv'  BY <2>1 DEF SupervisorInv, TypeInv
  <2>3. ASSUME NEW b \in Clients PROVE LinkOK(b)'  BY <2>1 DEF SupervisorInv, LinkOK
  <2>4. ASSUME NEW t \in Supervisors PROVE ThreadsOf(t)' = ThreadsOf(t)  BY <2>1 DEF ThreadsOf
  <2>5. SlotsOK'  BY <2>1, <2>4, SlotsStay DEF SupervisorInv
  <2>6. QED  BY <2>1, <2>2, <2>3, <2>5, QuietKeeps
<1>4. QED  BY <1>1, <1>2, <1>3, ReapFromShellKeeps DEF SupervisorNext

\* The invariant holds in every state that supervisors and clients reach.
LEMMA Invariance == SupervisorSpec => []SupervisorInv
<1>1. SupervisorInit => SupervisorInv  BY InitInv
<1>2. SupervisorInv /\ [SupervisorNext]_supervisorVars => SupervisorInv'  BY NextKeeps
<1>3. QED  BY <1>1, <1>2, PTL DEF SupervisorSpec

-----------------------------------------------------------------------------
(* What follows from it. *)

\* The variables keep their types, and the slots of client_slots that are taken are as
\* many as the threads that will give them back: no order of refusals, failed threads,
\* lost clients and ends of processes makes a supervisor deaf.
THEOREM ConsistentForAll == SupervisorSpec => []SupervisorConsistent
<1> USE SupervisorAssumption DEF SupervisorAssumption
<1>1. SupervisorInv => SupervisorConsistent
  <2> SUFFICES ASSUME SupervisorInv PROVE SupervisorConsistent  OBVIOUS
  <2>1. \A s \in Supervisors : Alive(s) \/ pc[s] \in {"off", "gone"}
    BY DEF SupervisorInv, TypeInv, Phases, Outside, Locked, Alive, Starting, Closing
  <2>2. \A d \in Dirs : {lock[d], sock[d], pidf[d]} \subseteq Supervisors \cup {NoOne}
    BY DEF SupervisorInv, TypeInv
  <2>3. \A s \in Supervisors : slots[s] \in 0..Slots
    BY DEF SupervisorInv, TypeInv, SlotsOK
  <2>4. /\ \A c \in Clients : job[c] # "none" => home[c] # NoOne
        /\ \A c \in Clients : link[c] # "none" => peer[c] # NoOne
    BY DEF SupervisorInv, LinkOK, JobOK
  <2>5. \A d \in Dirs : wal[d] \subseteq Clients  BY DEF SupervisorInv, TypeInv
  <2>6. SlotsAreCounted  BY DEF SupervisorInv, SlotsOK, ThreadsOf, Threaded, SlotsAreCounted
  <2>7. SupervisorTypeOK  BY ONLY <2>1, <2>2, <2>3, <2>4, <2>5 DEF SupervisorTypeOK
  <2>8. QED  BY <2>6, <2>7 DEF SupervisorConsistent
<1>2. QED  BY <1>1, Invariance, PTL

\* A supervisor in its loop is the one that the socket and the pid file of its directory
\* lead to: no clean-up of another takes them away.
THEOREM ServingIsReachableForAll == SupervisorSpec => []ServingIsReachable
<1>1. SupervisorInv => ServingIsReachable
  BY DEF SupervisorInv, FilesOK, ServingIsReachable
<1>2. QED  BY <1>1, Invariance, PTL

\* A restart finds in the log whatever was accepted and not finished, but for what ran
\* when the log was compacted; and a job is not started again while a worker that an
\* earlier supervisor left behind still computes it, if the worker is the family's own.
THEOREM RestartsAreCleanForAll == SupervisorSpec => []RestartsAreClean
<1>1. SupervisorInv => RestartsAreClean
  BY DEF SupervisorInv, JobOK, RestartsAreClean, OrphansAreGone, UnfinishedIsLogged
<1>2. QED  BY <1>1, Invariance, PTL

-----------------------------------------------------------------------------
(* The fallback. *)

\* A client that has not connected yet has no job, neither in a queue nor in the log, which
\* matters when the supervisor does not hear it.
FreshOK(c) ==
  client[c] \in {"idle", "starting", "connecting"} => job[c] = "none" /\ c \notin wal[ClientDir]
FreshInv == \A c \in Clients : FreshOK(c)

LEMMA FreshKeeps ==
  SupervisorInv /\ FreshInv /\ [SupervisorNext]_supervisorVars => FreshInv'
<1> SUFFICES ASSUME SupervisorInv, FreshInv, [SupervisorNext]_supervisorVars,
                    NEW c \in Clients, client'[c] \in {"idle", "starting", "connecting"}
             PROVE  job'[c] = "none" /\ c \notin wal'[ClientDir]
  BY DEF FreshInv, FreshOK
<1> USE SupervisorAssumption DEF SupervisorAssumption
<1>1. ASSUME client[c] \in {"idle", "starting", "connecting"}
      PROVE  job[c] = "none" /\ c \notin wal[ClientDir] /\ link[c] = "none"
  BY <1>1 DEF FreshInv, FreshOK, SupervisorInv, LinkOK
<1>2. ASSUME NEW b \in Clients, Ask(b) \/ ClientStep(b) \/ GiveUp(b)
      PROVE  job'[c] = "none" /\ c \notin wal'[ClientDir]
  <2>1. client[c] \in {"idle", "starting", "connecting"}
    BY <1>2 DEF Ask, ClientStep, AwaitStart, Connect, Recheck, GiveUp, SupervisorInv, TypeInv
  <2>2. UNCHANGED <<job, wal>>
    BY <1>2 DEF Ask, ClientStep, AwaitStart, Connect, Recheck, GiveUp, fileVars, jobVars
  <2>3. QED  BY <1>1, <2>1, <2>2
<1>3. ASSUME NEW b \in Clients, Accept(b) \/ Greet(b) \/ Reject(b) \/ Answer(b) \/ OrphanEnds(b)
      PROVE  job'[c] = "none" /\ c \notin wal'[ClientDir]
  <2>1. client[c] \in {"idle", "starting", "connecting"}
    <3>1. CASE Accept(b)  BY <3>1 DEF Accept, Refuse, Thread, NoThread, SupervisorInv, TypeInv
    <3>2. CASE Reject(b) \/ Answer(b)  BY <3>2 DEF Reject, Answer, Finish, SupervisorInv, TypeInv
    <3>3. CASE Greet(b) \/ OrphanEnds(b)  BY <3>3 DEF Greet, OrphanEnds, clientVars
    <3>4. QED  BY <1>3, <3>1, <3>2, <3>3
  <2>2. UNCHANGED <<job, wal>>
    BY <1>3 DEF Accept, Greet, Reject, Answer, OrphanEnds, fileVars, jobVars
  <2>3. QED  BY <1>1, <2>1, <2>2
<1>4. ASSUME NEW b \in Clients, Enqueue(b) \/ JobStarts(b) \/ JobEnds(b)
      PROVE  job'[c] = "none" /\ c \notin wal'[ClientDir]
  <2>1. client[c] \in {"idle", "starting", "connecting"}
    BY <1>4 DEF Enqueue, JobStarts, JobEnds, clientVars
  <2>2. b # c  BY <1>1, <1>4, <2>1 DEF Enqueue, JobStarts, JobEnds
  <2>3. job'[c] = "none"
    BY <1>1, <1>4, <2>1, <2>2 DEF Enqueue, JobStarts, JobEnds, SupervisorInv, TypeInv
  <2>4. PICK s \in Supervisors, pending \in SUBSET Clients :
          DirOf[s] = ClientDir /\ c \notin pending /\ Logged(s, pending)
    <3>1. CASE Enqueue(b)
      <4>1. peer[b] \in Supervisors /\ DirOf[peer[b]] = ClientDir
        BY <3>1 DEF Enqueue, SupervisorInv, LinkOK
      <4>2. wal[DirOf[peer[b]]] \cup {b} \in SUBSET Clients /\ c \notin wal[DirOf[peer[b]]] \cup {b}
        BY <1>1, <2>1, <2>2, <4>1 DEF SupervisorInv, TypeInv
      <4>3. QED  BY <3>1, <4>1, <4>2 DEF Enqueue
    <3>2. CASE JobStarts(b) \/ JobEnds(b)
      <4>1. home[b] \in Supervisors /\ DirOf[home[b]] = ClientDir
        BY <3>2 DEF JobStarts, JobEnds, SupervisorInv, JobOK
      <4>2. wal[DirOf[home[b]]] \in SUBSET Clients /\ c \notin wal[DirOf[home[b]]]
        BY <1>1, <2>1, <4>1 DEF SupervisorInv, TypeInv
      <4>3. Logged(home[b], wal[DirOf[home[b]]]) \/ Logged(home[b], wal[DirOf[home[b]]] \ {b})
        BY <3>2 DEF JobStarts, JobEnds
      <4>4. wal[DirOf[home[b]]] \ {b} \in SUBSET Clients /\ c \notin wal[DirOf[home[b]]] \ {b}
        BY <4>2
      <4>5. QED  BY <4>1, <4>2, <4>3, <4>4
    <3>3. QED  BY <1>4, <3>1, <3>2
  <2>5. c \notin wal'[ClientDir]
    BY <2>3, <2>4 DEF Logged, SupervisorInv, TypeInv
  <2>6. QED  BY <2>3, <2>5
<1>5. ASSUME NEW K, NEW W, NEW next, End(K, W, next) PROVE job'[c] = "none" /\ c \notin wal'[ClientDir]
  <2>1. client[c] \in {"idle", "starting", "connecting"}
    BY <1>5 DEF End, SupervisorInv, TypeInv
  <2>2. QED  BY <1>1, <1>5, <2>1 DEF End
<1>6. ASSUME NEW s \in Supervisors, SupervisorStep(s) \/ Start(s) \/ TimePasses(s) \/ AcceptFails(s) \/ Stop(s) \/ Kill(s)
      PROVE  job'[c] = "none" /\ c \notin wal'[ClientDir]
  <2>1. CASE Reap(s) \/ BindFails(s) \/ Exit(s) \/ Kill(s)
             \/ (Stop(s) /\ pc[s] \in Starting \ {"armed", "replaying"})
    BY <1>5, <2>1 DEF Reap, BindFails, Exit, Kill, Stop
  <2>2. CASE Replay(s)
    <3>1. client[c] \in {"idle", "starting", "connecting"}  BY <2>2 DEF Replay, clientVars
    <3>2. c \notin wal[DirOf[s]]  BY <1>1, <3>1 DEF SupervisorInv, LogsOK
    <3>3. QED  BY <1>1, <2>2, <3>1, <3>2 DEF Replay, Requeued, SupervisorInv, TypeInv
  <2>3. CASE CloseSocket(s)
    <3>1. client[c] \in {"idle", "starting", "connecting"} /\ UNCHANGED <<job, wal>>
      BY <2>3 DEF CloseSocket, SupervisorInv, TypeInv, fileVars, jobVars
    <3>2. QED  BY <1>1, <3>1
  <2>4. CASE Start(s) \/ Probe(s) \/ Lock(s) \/ ListStrays(s) \/ UnlinkStale(s) \/ Bind(s) \/ WritePid(s)
             \/ SetRunning(s) \/ LoopEnds(s) \/ AcceptFails(s)
    <3>1. UNCHANGED <<client, job, wal>>
      BY <2>4 DEF Start, Probe, Lock, ListStrays, UnlinkStale, Bind, WritePid, SetRunning, LoopEnds, AcceptFails,
                  clientVars, fileVars, jobVars
    <3>2. QED  BY <1>1, <3>1
  <2>5. CASE Drained(s) \/ KillWorkers(s) \/ UnlinkOwn(s) \/ ReleaseLock(s) \/ TimePasses(s)
             \/ (Stop(s) /\ pc[s] \notin Starting \ {"armed", "replaying"})
    <3>1. UNCHANGED <<client, job, wal>>
      BY <2>5 DEF Drained, KillWorkers, UnlinkOwn, ReleaseLock, TimePasses, Stop, clientVars, fileVars, jobVars
    <3>2. QED  BY <1>1, <3>1
  <2>6. QED  BY <1>6, <2>1, <2>2, <2>3, <2>4, <2>5 DEF SupervisorStep
<1>7. CASE ReapFromShell  BY <1>5, <1>7 DEF ReapFromShell
<1>8. CASE UNCHANGED supervisorVars
  BY <1>1, <1>8 DEF supervisorVars, fileVars, clientVars, jobVars
<1>9. QED  BY <1>2, <1>3, <1>4, <1>6, <1>7, <1>8 DEF SupervisorNext, ThreadStep, JobStep

LEMMA FreshInvariance == SupervisorSpec => []FreshInv
<1>1. SupervisorInit => FreshInv
  BY SupervisorAssumption DEF SupervisorInit, FreshInv, FreshOK, SupervisorAssumption
<1>2. QED  BY <1>1, FreshKeeps, Invariance, PTL DEF SupervisorSpec

\* No client starts to do the work itself while a supervisor that goes on serving has its
\* job in its memory, unless that supervisor was too busy for the client's last probe.
THEOREM FallbackIsAloneForAll == SupervisorSpec => FallbackIsAlone
<1> DEFINE Alone == \A c \in Clients : client'[c] = "fallback" /\ client[c] # "fallback" =>
                       ~(job[c] \in {"queued", "running"} /\ pc[home[c]] = "serving")
<1>1. SupervisorInv /\ FreshInv /\ [SupervisorNext]_supervisorVars => [Alone]_supervisorVars
  <2> SUFFICES ASSUME SupervisorInv, FreshInv, SupervisorNext,
                      NEW c \in Clients, client'[c] = "fallback", client[c] # "fallback"
               PROVE  ~(job[c] \in {"queued", "running"} /\ pc[home[c]] = "serving")
    OBVIOUS
  <2>1. client[c] \in {"idle", "starting"} \/ ~Running(ClientDir)
    <3>1. ASSUME NEW b \in Clients, Ask(b) \/ ClientStep(b) \/ GiveUp(b)
          PROVE  client[c] \in {"idle", "starting"} \/ ~Running(ClientDir)
      <4>1. CASE Ask(b) \/ AwaitStart(b)  BY <4>1 DEF Ask, AwaitStart, SupervisorInv, TypeInv
      <4>2. CASE Recheck(b)  BY <4>2 DEF Recheck, Answers, SupervisorInv, TypeInv
      <4>3. CASE Connect(b) \/ GiveUp(b)  BY <4>3 DEF Connect, GiveUp, SupervisorInv, TypeInv
      <4>4. QED  BY <3>1, <4>1, <4>2, <4>3 DEF ClientStep
    <3>2. ASSUME NEW b \in Clients, ThreadStep(b) \/ JobStep(b) PROVE FALSE
      <4>1. CASE Accept(b)  BY <4>1 DEF Accept, Refuse, Thread, NoThread, SupervisorInv, TypeInv
      <4>2. CASE Reject(b) \/ Answer(b)  BY <4>2 DEF Reject, Answer, Finish, SupervisorInv, TypeInv
      <4>3. CASE Greet(b) \/ Enqueue(b) \/ JobStep(b)
        BY <4>3 DEF Greet, Enqueue, JobStep, JobStarts, JobEnds, OrphanEnds, clientVars
      <4>4. QED  BY <3>2, <4>1, <4>2, <4>3 DEF ThreadStep
    <3>3. ASSUME NEW s \in Supervisors, SupervisorStep(s) \/ Start(s) \/ TimePasses(s) \/ AcceptFails(s) \/ Stop(s) \/ Kill(s)
          PROVE  FALSE
      <4>1. ASSUME NEW K, NEW W, NEW next, End(K, W, next) PROVE FALSE  BY <4>1 DEF End
      <4>2. CASE CloseSocket(s)  BY <4>2 DEF CloseSocket
      <4>3. CASE Reap(s) \/ BindFails(s) \/ Exit(s) \/ Kill(s)  BY <4>1, <4>3 DEF Reap, BindFails, Exit, Kill
      <4>4. CASE Stop(s)
        <5>1. client' = client  BY <4>1, <4>4 DEF Stop, clientVars
        <5>2. QED  BY <5>1
      <4>5. CASE Start(s) \/ Probe(s) \/ Lock(s) \/ ListStrays(s) \/ UnlinkStale(s) \/ Bind(s) \/ WritePid(s)
                 \/ SetRunning(s) \/ Replay(s) \/ LoopEnds(s) \/ AcceptFails(s)
        <5>1. client' = client
          BY <4>5 DEF Start, Probe, Lock, ListStrays, UnlinkStale, Bind, WritePid, SetRunning, Replay, LoopEnds,
                    AcceptFails, clientVars
        <5>2. QED  BY <5>1
      <4>6. CASE Drained(s) \/ KillWorkers(s) \/ UnlinkOwn(s) \/ ReleaseLock(s) \/ TimePasses(s)
        BY <4>6 DEF Drained, KillWorkers, UnlinkOwn, ReleaseLock, TimePasses, clientVars
      <4>7. QED  BY <3>3, <4>2, <4>3, <4>4, <4>5, <4>6 DEF SupervisorStep
    <3>4. ReapFromShell => FALSE  BY DEF ReapFromShell, End
    <3>5. QED  BY <3>1, <3>2, <3>3, <3>4 DEF SupervisorNext
  <2>2. SUFFICES ASSUME job[c] \in {"queued", "running"}, pc[home[c]] = "serving"
                 PROVE  client[c] \notin {"idle", "starting"} /\ Running(ClientDir)
    BY <2>1
  <2>3. client[c] \notin {"idle", "starting"}  BY <2>2 DEF FreshInv, FreshOK
  <2>4. home[c] \in Supervisors /\ DirOf[home[c]] = ClientDir  BY <2>2 DEF SupervisorInv, JobOK
  <2>5. sock[ClientDir] = home[c] /\ pidf[ClientDir] = home[c]  BY <2>2, <2>4 DEF SupervisorInv, FilesOK
  <2>6. QED  BY <2>2, <2>3, <2>4, <2>5, SupervisorAssumption DEF Running, Alive, Listening, SupervisorAssumption
<1>2. QED  BY <1>1, Invariance, FreshInvariance, PTL DEF SupervisorSpec, FallbackIsAlone
=============================================================================
