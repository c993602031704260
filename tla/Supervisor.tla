---------------------------- MODULE Supervisor ----------------------------
(***************************************************************************)
(* The life of supervisor processes and of the clients that use them       *)
(* (src/vramd/server.py, process_guard.py, client.py and the start and     *)
(* reap commands of cli.py): the lock, the socket and the pid file of a    *)
(* directory, the killing of what an earlier run left behind, the loop     *)
(* that accepts connections, the clean-up, and clients that start a        *)
(* supervisor, delegate one job each, and fall back on doing the work      *)
(* themselves when there is none.                                          *)
(*                                                                         *)
(* A process only knows the others through what it reads: the lock, the    *)
(* two files, the process table, a connection.  The queue is what the      *)
(* clients see of it (JobQueue has it in full).                            *)
(***************************************************************************)
EXTENDS Naturals, FiniteSets

CONSTANTS
  Supervisors, Clients, Dirs, NoOne,
  DirOf,        \* the directory of the socket each supervisor is started on
  ClientDir,    \* the directory of the canonical socket
  Slots,        \* MAX_CONCURRENT_CLIENTS
  MaxDepth,     \* max_depth of the queue
  External,     \* the clients whose backend is a command of the operator's own:
                \* find_strays() knows a worker by its --ums-worker only
  MaxTroubles   \* bound: stops, SIGKILLs and reaps from the shell

ASSUME SupervisorAssumption ==
  /\ DirOf \in [Supervisors -> Dirs] /\ ClientDir \in Dirs
  /\ NoOne \notin Supervisors \cup Clients /\ Supervisors \cap Clients = {}
  /\ Slots \in Nat \ {0} /\ MaxDepth \in Nat \ {0}
  /\ External \subseteq Clients /\ MaxTroubles \in Nat

VARIABLES
  pc,        \* where each supervisor is in start_cmd, serve_forever and _cleanup
  running,   \* _running
  asked,     \* history: "early" or "late", a stop was asked for before or after
             \* _running was set; "no"
  lock,      \* who holds the flock of a directory
  sock,      \* who bound the socket file of a directory
  pidf,      \* who is named by its pid file
  listed,    \* the processes that a reap has found: supervisors, and workers by job
  slots,     \* the slots of client_slots that are taken
  served,    \* _requests_served > 0
  idle,      \* the time since _last_activity exceeds idle_timeout_sec
  client,    \* where each client is in delegate_to_ums
  link,      \* the server's end of its connection
  peer,      \* the supervisor at that end
  job,       \* its job in the memory of a supervisor
  home,      \* that supervisor
  wal,       \* the jobs that the log of a directory has accepted and not finished
  forgotten, \* history: the running jobs that a compaction has left out of the log
  orphan,    \* the jobs that a worker still computes whose supervisor is dead
  troubles

fileVars == <<lock, sock, pidf, wal, forgotten>>
clientVars == <<client, link, peer>>
jobVars == <<job, home, orphan>>
loopVars == <<slots, served, idle>>
supervisorVars == <<pc, running, asked, fileVars, listed, loopVars, clientVars, jobVars, troubles>>

-----------------------------------------------------------------------------
Starting == {"probing", "locking", "listing", "reaping", "unlinking", "binding", "bound",
             "armed", "replaying"}
Closing == {"draining", "stopped", "killed", "unlinked", "closed", "released"}
Alive(s) == pc[s] \in Starting \cup {"serving"} \cup Closing
Listening(s) == pc[s] \in {"bound", "armed", "replaying", "serving", "draining", "stopped",
                           "killed", "unlinked"}

\* The pid file names a live process, and somebody listens on the socket.
Running(d) ==
  /\ pidf[d] # NoOne /\ Alive(pidf[d])
  /\ sock[d] # NoOne /\ Listening(sock[d])

\* is_server_running(): a supervisor that is too busy to take another connection is not
\* found although it is there: with a full backlog the probe's connect() fails.
Answers(d) == IF Running(d) THEN {"found", "unheard"} ELSE {"none"}

JobsAt(s, state) == {c \in Clients : home[c] = s /\ job[c] = state}

SupervisorInit ==
  /\ pc = [s \in Supervisors |-> "off"]
  /\ running = [s \in Supervisors |-> FALSE] /\ asked = [s \in Supervisors |-> "no"]
  /\ lock = [d \in Dirs |-> NoOne] /\ sock = [d \in Dirs |-> NoOne] /\ pidf = [d \in Dirs |-> NoOne]
  /\ listed = [s \in Supervisors |-> {}]
  /\ slots = [s \in Supervisors |-> 0] /\ served = [s \in Supervisors |-> FALSE]
  /\ idle = [s \in Supervisors |-> FALSE]
  /\ client = [c \in Clients |-> "idle"] /\ link = [c \in Clients |-> "none"]
  /\ peer = [c \in Clients |-> NoOne]
  /\ job = [c \in Clients |-> "none"] /\ home = [c \in Clients |-> NoOne]
  /\ wal = [d \in Dirs |-> {}] /\ forgotten = {} /\ orphan = {}
  /\ troubles = 0

\* The end of the processes K, with the workers of the jobs W: the kernel drops their
\* locks and connections, what they had in memory is gone, and a worker that is not
\* killed with its supervisor computes on until it notices.
End(K, W, next) ==
  /\ pc' = [s \in Supervisors |-> IF s \in K THEN "gone" ELSE next[s]]
  /\ running' = [s \in Supervisors |-> s \notin K /\ running[s]]
  /\ lock' = [d \in Dirs |-> IF lock[d] \in K THEN NoOne ELSE lock[d]]
  /\ slots' = [s \in Supervisors |-> IF s \in K THEN 0 ELSE slots[s]]
  /\ client' = [c \in Clients |-> IF peer[c] \in K /\ client[c] = "waiting" THEN "rechecking"
                                  ELSE client[c]]
  /\ link' = [c \in Clients |-> IF peer[c] \in K THEN "none" ELSE link[c]]
  /\ peer' = [c \in Clients |-> IF peer[c] \in K THEN NoOne ELSE peer[c]]
  /\ job' = [c \in Clients |-> IF home[c] \in K THEN "none" ELSE job[c]]
  /\ home' = [c \in Clients |-> IF home[c] \in K THEN NoOne ELSE home[c]]
  /\ orphan' = (orphan \cup {c \in Clients : home[c] \in K /\ job[c] = "running"}) \ W
  /\ forgotten' = {c \in forgotten : home[c] \notin K}
  /\ served' = [s \in Supervisors |-> s \notin K /\ served[s]]
  /\ idle' = [s \in Supervisors |-> s \notin K /\ idle[s]]
  /\ asked' = [s \in Supervisors |-> IF s \in K THEN "no" ELSE asked[s]]
  /\ UNCHANGED <<sock, pidf, wal>>

-----------------------------------------------------------------------------
(* start_cmd and serve_forever, up to the loop. *)

\* One step of s: from a phase to the next.
Phase(s, from, to) == pc[s] = from /\ pc' = [pc EXCEPT ![s] = to]

\* Processes that have not been started are all alike: which one comes next is fixed.
Unborn(d) == {s \in Supervisors : pc[s] = "off" /\ DirOf[s] = d}
Spawned(s) ==
  /\ pc[s] = "off" /\ s = CHOOSE t \in Unborn(DirOf[s]) : TRUE
  /\ pc' = [pc EXCEPT ![s] = "probing"]

\* A supervisor started by hand.
Start(s) ==
  /\ Spawned(s)
  /\ UNCHANGED <<running, asked, fileVars, listed, loopVars, clientVars, jobVars, troubles>>

\* `vramd start` looks for a running supervisor before it does anything.
Probe(s) ==
  /\ pc[s] = "probing"
  /\ \E answer \in Answers(DirOf[s]) :
       pc' = [pc EXCEPT ![s] = IF answer = "found" THEN "gone" ELSE "locking"]
  /\ UNCHANGED <<running, asked, fileVars, listed, loopVars, clientVars, jobVars, troubles>>

\* SingletonLock.acquire(); the loser raises and leaves everything as it is.
LockOrClean(s) ==
  LET d == DirOf[s] IN
  /\ pc[s] = "locking"
  /\ IF lock[d] = NoOne
       THEN /\ pc' = [pc EXCEPT ![s] = "listing"] /\ lock' = [lock EXCEPT ![d] = s]
            /\ UNCHANGED <<sock, pidf>>
       ELSE /\ pc' = [pc EXCEPT ![s] = "gone"] /\ UNCHANGED lock
            /\ sock' = [sock EXCEPT ![d] = NoOne] /\ pidf' = [pidf EXCEPT ![d] = NoOne]
  /\ UNCHANGED <<running, asked, wal, forgotten, listed, loopVars, clientVars, jobVars, troubles>>
Lock(s) ==
  LET d == DirOf[s] IN
  /\ pc[s] = "locking"
  /\ IF lock[d] = NoOne
       THEN pc' = [pc EXCEPT ![s] = "listing"] /\ lock' = [lock EXCEPT ![d] = s]
       ELSE pc' = [pc EXCEPT ![s] = "gone"] /\ UNCHANGED lock
  /\ UNCHANGED <<running, asked, sock, pidf, wal, forgotten, listed, loopVars, clientVars, jobVars, troubles>>

\* find_strays(): every process of the family that is not s, on any socket, as far as
\* its command line tells; not a worker of the operator's own ...
Strays(s) == {t \in Supervisors \ {s} : Alive(t)}
             \cup ((orphan \cup {c \in Clients : home[c] # NoOne /\ job[c] = "running"}) \ External)
ListStrays(s) ==
  /\ Phase(s, "listing", "reaping")
  /\ listed' = [listed EXCEPT ![s] = Strays(s)]
  /\ UNCHANGED <<running, asked, fileVars, loopVars, clientVars, jobVars, troubles>>

\* ... and reap(): they are dead when it returns.
ReapSupervisors(s) ==
  /\ pc[s] = "reaping"
  /\ End({t \in listed[s] \cap Supervisors : Alive(t)}, {}, [pc EXCEPT ![s] = "unlinking"])
  /\ listed' = [listed EXCEPT ![s] = {}]
  /\ UNCHANGED troubles
Reap(s) ==
  /\ pc[s] = "reaping"
  /\ End({t \in listed[s] \cap Supervisors : Alive(t)}, listed[s] \cap Clients,
         [pc EXCEPT ![s] = "unlinking"])
  /\ listed' = [listed EXCEPT ![s] = {}]
  /\ UNCHANGED troubles

\* With the lock, a socket that exists is a stale one.
UnlinkStale(s) ==
  LET d == DirOf[s] IN
  /\ Phase(s, "unlinking", "binding")
  /\ IF sock[d] # NoOne
       THEN sock' = [sock EXCEPT ![d] = NoOne] /\ pidf' = [pidf EXCEPT ![d] = NoOne]
       ELSE UNCHANGED <<sock, pidf>>
  /\ UNCHANGED <<running, asked, lock, wal, forgotten, listed, loopVars, clientVars, jobVars, troubles>>

\* bind() and listen(); on an error the process exits without a clean-up.
Bind(s) ==
  /\ sock[DirOf[s]] = NoOne
  /\ Phase(s, "binding", "bound")
  /\ sock' = [sock EXCEPT ![DirOf[s]] = s]
  /\ UNCHANGED <<running, asked, lock, pidf, wal, forgotten, listed, loopVars, clientVars, jobVars, troubles>>

BindFails(s) ==
  /\ pc[s] = "binding"
  /\ End({s}, {}, pc)
  /\ UNCHANGED <<listed, troubles>>

WritePid(s) ==
  /\ Phase(s, "bound", "armed")
  /\ pidf' = [pidf EXCEPT ![DirOf[s]] = s]
  /\ UNCHANGED <<running, asked, lock, sock, wal, forgotten, listed, loopVars, clientVars, jobVars, troubles>>

\* The signal handlers are set; then _running is.
SetRunning(s) ==
  /\ Phase(s, "armed", "replaying")
  /\ running' = [running EXCEPT ![s] = TRUE]
  /\ UNCHANGED <<asked, fileVars, listed, loopVars, clientVars, jobVars, troubles>>

\* replay_from_wal(), and the threads are started: the jobs of the log are queued, as
\* many as there is room for, and the log is rewritten from the queue.
Requeued(s, kept) ==
  /\ kept = wal[DirOf[s]] \/ Cardinality(kept) = MaxDepth
  /\ job' = [c \in Clients |-> IF c \in kept THEN "queued" ELSE job[c]]
  /\ home' = [c \in Clients |-> IF c \in kept THEN s ELSE home[c]]
ReplayAndForget(s) ==
  /\ Phase(s, "replaying", "serving")
  /\ \E kept \in SUBSET wal[DirOf[s]] : Requeued(s, kept) /\ wal' = [wal EXCEPT ![DirOf[s]] = {}]
  /\ UNCHANGED <<running, asked, lock, sock, pidf, forgotten, listed, loopVars, clientVars, orphan, troubles>>
Replay(s) ==
  /\ Phase(s, "replaying", "serving")
  /\ \E kept \in SUBSET wal[DirOf[s]] : Requeued(s, kept) /\ wal' = [wal EXCEPT ![DirOf[s]] = kept]
  /\ UNCHANGED <<running, asked, lock, sock, pidf, forgotten, listed, loopVars, clientVars, orphan, troubles>>

-----------------------------------------------------------------------------
(* The loop and the threads of the connections. *)

\* _append_wal(): pending is what the log then holds.  Every _WAL_COMPACT_OPS-th append,
\* any of them here, rewrites the log from the queue, without what runs.
Logged(s, pending) ==
  LET runs == {c \in Clients : job'[c] = "running"} IN
  \/ wal' = [wal EXCEPT ![DirOf[s]] = pending] /\ forgotten' = forgotten \cap runs
  \/ /\ wal' = [wal EXCEPT ![DirOf[s]] = {c \in Clients : home'[c] = s /\ job'[c] = "queued"}]
     /\ forgotten' = (forgotten \cap runs) \cup {c \in runs : home'[c] = s}

TimePasses(s) ==
  /\ pc[s] = "serving" /\ ~idle[s]
  /\ idle' = [idle EXCEPT ![s] = TRUE]
  /\ UNCHANGED <<pc, running, asked, fileVars, listed, slots, served, clientVars, jobVars, troubles>>

\* The loop ends: a stop was asked for, or nobody has asked for anything in a while
\* and the queue is empty.  From here on nobody looks at the clock.
IsBusy(s) == JobsAt(s, "queued") \cup JobsAt(s, "running") # {}
LoopEndsWhenIdle(s) ==
  /\ Phase(s, "serving", "draining")
  /\ served[s] /\ idle[s] /\ ~IsBusy(s)
  /\ idle' = [idle EXCEPT ![s] = FALSE]
  /\ UNCHANGED <<running, asked, fileVars, listed, slots, served, clientVars, jobVars, troubles>>
LoopEnds(s) ==
  /\ Phase(s, "serving", "draining")
  /\ \/ ~running[s]
     \/ served[s] /\ idle[s] /\ ~IsBusy(s)
  /\ idle' = [idle EXCEPT ![s] = FALSE]
  /\ UNCHANGED <<running, asked, fileVars, listed, slots, served, clientVars, jobVars, troubles>>

\* accept() raises, and ends it whatever there is to do.
AcceptFails(s) ==
  /\ Phase(s, "serving", "draining")
  /\ troubles < MaxTroubles /\ troubles' = troubles + 1
  /\ idle' = [idle EXCEPT ![s] = FALSE]
  /\ UNCHANGED <<running, asked, fileVars, listed, slots, served, clientVars, jobVars>>

\* A connection is accepted; with every slot taken it is refused, and when the thread
\* cannot be started its slot is given back.
RefuseSilently(c) ==
  /\ slots[peer[c]] = Slots
  /\ link' = [link EXCEPT ![c] = "none"] /\ peer' = [peer EXCEPT ![c] = NoOne]
  /\ UNCHANGED <<client, slots>>
Refuse(c) ==
  /\ slots[peer[c]] = Slots
  /\ client' = [client EXCEPT ![c] = IF client[c] = "waiting" THEN "answered" ELSE client[c]]
  /\ link' = [link EXCEPT ![c] = "none"] /\ peer' = [peer EXCEPT ![c] = NoOne]
  /\ UNCHANGED slots
ThreadBeyond(c) ==
  /\ slots[peer[c]] <= Slots
  /\ slots' = [slots EXCEPT ![peer[c]] = @ + 1]
  /\ link' = [link EXCEPT ![c] = "accepted"]
  /\ UNCHANGED <<client, peer>>
Thread(c) ==
  /\ slots[peer[c]] < Slots
  /\ slots' = [slots EXCEPT ![peer[c]] = @ + 1]
  /\ link' = [link EXCEPT ![c] = "accepted"]
  /\ UNCHANGED <<client, peer>>
NoThreadLeaks(c) ==
  /\ slots[peer[c]] < Slots
  /\ slots' = [slots EXCEPT ![peer[c]] = @ + 1]
  /\ client' = [client EXCEPT ![c] = IF client[c] = "waiting" THEN "rechecking" ELSE client[c]]
  /\ link' = [link EXCEPT ![c] = "none"] /\ peer' = [peer EXCEPT ![c] = NoOne]
NoThread(c) ==
  /\ slots[peer[c]] < Slots
  /\ client' = [client EXCEPT ![c] = IF client[c] = "waiting" THEN "rechecking" ELSE client[c]]
  /\ link' = [link EXCEPT ![c] = "none"] /\ peer' = [peer EXCEPT ![c] = NoOne]
  /\ UNCHANGED slots
Accept(c) ==
  /\ link[c] = "backlog" /\ pc[peer[c]] = "serving" /\ running[peer[c]]
  /\ Refuse(c) \/ Thread(c) \/ NoThread(c)
  /\ UNCHANGED <<pc, running, asked, fileVars, listed, served, idle, jobVars, troubles>>

\* _handle_client(): the start of the thread counts as activity ...
Greet(c) ==
  /\ link[c] = "accepted"
  /\ idle' = [idle EXCEPT ![peer[c]] = FALSE]
  /\ link' = [link EXCEPT ![c] = "reading"]
  /\ UNCHANGED <<pc, running, asked, fileVars, listed, slots, served, client, peer, jobVars, troubles>>

\* The thread of c is done, with an answer for the client if it is still there.
Finish(c) ==
  /\ client' = [client EXCEPT ![c] = IF client[c] = "waiting" THEN "answered" ELSE client[c]]
  /\ link' = [link EXCEPT ![c] = "none"] /\ peer' = [peer EXCEPT ![c] = NoOne]
  /\ slots' = [slots EXCEPT ![peer[c]] = @ - 1]

\* ... the request is read and its job enqueued, whatever phase the supervisor is in ...
Enqueue(c) ==
  LET s == peer[c] IN
  /\ link[c] = "reading" /\ Cardinality(JobsAt(s, "queued")) < MaxDepth
  /\ job' = [job EXCEPT ![c] = "queued"] /\ home' = [home EXCEPT ![c] = s]
  /\ Logged(s, wal[DirOf[s]] \cup {c})
  /\ link' = [link EXCEPT ![c] = "waiting"]
  /\ UNCHANGED <<pc, running, asked, lock, sock, pidf, listed, loopVars, client, peer, orphan, troubles>>
\* ... or refused: it did not come in time, or is none, names no
\* backend, or the queue is full ...
Reject(c) ==
  /\ link[c] = "reading"
  /\ Finish(c)
  /\ UNCHANGED <<pc, running, asked, fileVars, listed, served, idle, jobVars, troubles>>
\* ... the job's result is sent, or that it did not come in time; a result that is
\* good counts as served.
CountsAsServed(c) == home[c] = peer[c] /\ job[c] = "done"
Answer(c) ==
  /\ link[c] = "waiting"
  /\ served' = [served EXCEPT ![peer[c]] = @ \/ CountsAsServed(c)]
  /\ Finish(c)
  /\ UNCHANGED <<pc, running, asked, fileVars, listed, idle, jobVars, troubles>>

-----------------------------------------------------------------------------
(* The jobs. *)

JobStarts(c) ==
  /\ job[c] = "queued" /\ pc[home[c]] \in {"serving", "draining"}
  /\ job' = [job EXCEPT ![c] = "running"] /\ UNCHANGED home
  /\ Logged(home[c], wal[DirOf[home[c]]])
  /\ UNCHANGED <<pc, running, asked, lock, sock, pidf, listed, loopVars, clientVars, orphan, troubles>>

\* A job whose worker was killed ends with an error.
JobEnds(c) ==
  /\ job[c] = "running"
  /\ job' = [job EXCEPT ![c] = IF pc[home[c]] \in {"killed", "unlinked", "closed", "released"}
                               THEN "failed" ELSE "done"]
  /\ UNCHANGED home
  /\ Logged(home[c], wal[DirOf[home[c]]] \ {c})
  /\ UNCHANGED <<pc, running, asked, lock, sock, pidf, listed, loopVars, clientVars, orphan, troubles>>

\* A worker without a supervisor reads the end of its stdin between two jobs, or its
\* watchdog sees another parent, and goes.
OrphanEnds(c) ==
  /\ c \in orphan
  /\ orphan' = orphan \ {c}
  /\ UNCHANGED <<pc, running, asked, fileVars, listed, loopVars, clientVars, job, home, troubles>>

-----------------------------------------------------------------------------
(* _cleanup(), in its order. *)

\* The hooks have had their time; the threads of the queue take no more jobs.
Drained(s) ==
  /\ Phase(s, "draining", "stopped")
  /\ UNCHANGED <<running, asked, fileVars, listed, loopVars, clientVars, jobVars, troubles>>
\* The evictor is stopped, the backends are evicted and the workers killed.
KillWorkers(s) ==
  /\ Phase(s, "stopped", "killed")
  /\ UNCHANGED <<running, asked, fileVars, listed, loopVars, clientVars, jobVars, troubles>>
\* The files go, whoever made them by now.
UnlinkOwn(s) ==
  /\ Phase(s, "killed", "unlinked")
  /\ sock' = [sock EXCEPT ![DirOf[s]] = NoOne]
  /\ pidf' = [pidf EXCEPT ![DirOf[s]] = NoOne]
  /\ UNCHANGED <<running, asked, lock, wal, forgotten, listed, loopVars, clientVars, jobVars, troubles>>
\* The socket is closed, which ends the connections nobody has accepted.
CloseSocket(s) ==
  LET waiting == {c \in Clients : peer[c] = s /\ link[c] = "backlog"} IN
  /\ Phase(s, "unlinked", "closed")
  /\ client' = [c \in Clients |-> IF c \in waiting /\ client[c] = "waiting" THEN "rechecking" ELSE client[c]]
  /\ link' = [c \in Clients |-> IF c \in waiting THEN "none" ELSE link[c]]
  /\ peer' = [c \in Clients |-> IF c \in waiting THEN NoOne ELSE peer[c]]
  /\ UNCHANGED <<running, asked, fileVars, listed, loopVars, jobVars, troubles>>
ReleaseLock(s) ==
  /\ Phase(s, "closed", "released")
  /\ lock' = [lock EXCEPT ![DirOf[s]] = NoOne]
  /\ UNCHANGED <<running, asked, sock, pidf, wal, forgotten, listed, loopVars, clientVars, jobVars, troubles>>
\* The process exits, with the threads of its connections; a worker that the pool had no
\* longer in its table has not been killed.
Exit(s) ==
  /\ pc[s] = "released"
  /\ \E W \in SUBSET {c \in Clients : home[c] = s} : End({s}, W, pc)
  /\ UNCHANGED <<listed, troubles>>

-----------------------------------------------------------------------------
(* What comes from outside. *)

\* A stop: the shutdown command, SIGTERM or SIGINT.  Before the handlers are set the
\* signal kills.
Stop(s) ==
  /\ Alive(s) /\ troubles < MaxTroubles /\ troubles' = troubles + 1
  /\ IF pc[s] \in Starting \ {"armed", "replaying"}
       THEN End({s}, {}, pc) /\ UNCHANGED listed
       ELSE /\ running' = [running EXCEPT ![s] = FALSE]
            /\ asked' = [asked EXCEPT ![s] = IF pc[s] = "armed" THEN "early" ELSE "late"]
            /\ UNCHANGED <<pc, fileVars, listed, loopVars, clientVars, jobVars>>

\* SIGKILL, or a failure that ends the process.
Kill(s) ==
  /\ Alive(s) /\ troubles < MaxTroubles /\ troubles' = troubles + 1
  /\ End({s}, {}, pc)
  /\ UNCHANGED listed

\* `vramd reap` finds no supervisor, or none that hears it: it kills the whole family.
ReapFromShell ==
  /\ troubles < MaxTroubles /\ troubles' = troubles + 1
  /\ End({s \in Supervisors : Alive(s)}, Clients \ External, pc)
  /\ UNCHANGED listed

-----------------------------------------------------------------------------
(* delegate_to_ums(), with ensure_ums_running(). *)

\* With a supervisor, the client goes on to connect; without, it may start one.
Ask(c) ==
  /\ client[c] = "idle"
  /\ \E answer \in Answers(ClientDir) :
       \/ /\ answer = "found" /\ UNCHANGED pc
          /\ client' = [client EXCEPT ![c] = "connecting"]
       \/ /\ answer # "found"
          /\ \E s \in Supervisors : DirOf[s] = ClientDir /\ Spawned(s)
          /\ client' = [client EXCEPT ![c] = "starting"]
       \/ /\ answer # "found" /\ UNCHANGED pc
          /\ client' = [client EXCEPT ![c] = "fallback"]
  /\ UNCHANGED <<running, asked, fileVars, listed, loopVars, link, peer, jobVars, troubles>>

\* The client waits until the socket is ready, but not for ever.
AwaitStart(c) ==
  /\ client[c] = "starting"
  /\ \E answer \in Answers(ClientDir) :
       client' = [client EXCEPT ![c] = IF answer = "found" THEN "connecting" ELSE "fallback"]
  /\ UNCHANGED <<pc, running, asked, fileVars, listed, loopVars, link, peer, jobVars, troubles>>

Connect(c) ==
  /\ client[c] = "connecting"
  /\ IF sock[ClientDir] # NoOne /\ Listening(sock[ClientDir])
       THEN /\ client' = [client EXCEPT ![c] = "waiting"]
            /\ link' = [link EXCEPT ![c] = "backlog"]
            /\ peer' = [peer EXCEPT ![c] = sock[ClientDir]]
       ELSE /\ client' = [client EXCEPT ![c] = "rechecking"]
            /\ UNCHANGED <<link, peer>>
  /\ UNCHANGED <<pc, running, asked, fileVars, listed, loopVars, jobVars, troubles>>

\* The client gives up on an answer; what the server does for it goes on.
GiveUp(c) ==
  /\ client[c] = "waiting"
  /\ client' = [client EXCEPT ![c] = "rechecking"]
  /\ UNCHANGED <<pc, running, asked, fileVars, listed, loopVars, link, peer, jobVars, troubles>>

\* Without an answer: an error while there is a supervisor, and the work in the
\* client's own process when there is none, or ("unheard") one that is too busy.
RecheckNever(c) ==
  /\ client[c] = "rechecking"
  /\ client' = [client EXCEPT ![c] = "fallback"]
  /\ UNCHANGED <<pc, running, asked, fileVars, listed, loopVars, link, peer, jobVars, troubles>>
Recheck(c) ==
  /\ client[c] = "rechecking"
  /\ \E answer \in Answers(ClientDir) :
       client' = [client EXCEPT ![c] = IF answer = "found" THEN "noResponse"
                                       ELSE IF answer = "unheard" THEN "unheard" ELSE "fallback"]
  /\ UNCHANGED <<pc, running, asked, fileVars, listed, loopVars, link, peer, jobVars, troubles>>

-----------------------------------------------------------------------------
SupervisorStep(s) ==
  \/ Probe(s) \/ Lock(s) \/ ListStrays(s) \/ Reap(s) \/ UnlinkStale(s) \/ Bind(s) \/ BindFails(s) \/ WritePid(s)
  \/ SetRunning(s) \/ Replay(s) \/ LoopEnds(s)
  \/ Drained(s) \/ KillWorkers(s) \/ UnlinkOwn(s) \/ CloseSocket(s) \/ ReleaseLock(s) \/ Exit(s)
ThreadStep(c) ==
  \/ Accept(c) \/ Greet(c) \/ Enqueue(c) \/ Reject(c) \/ Answer(c)
JobStep(c) == JobStarts(c) \/ JobEnds(c) \/ OrphanEnds(c)
ClientStep(c) == AwaitStart(c) \/ Connect(c) \/ Recheck(c)

SupervisorNext ==
  \/ \E s \in Supervisors : SupervisorStep(s) \/ Start(s) \/ TimePasses(s) \/ AcceptFails(s) \/ Stop(s) \/ Kill(s)
  \/ \E c \in Clients : ThreadStep(c) \/ JobStep(c) \/ Ask(c) \/ ClientStep(c) \/ GiveUp(c)
  \/ ReapFromShell

\* Processes and threads are scheduled; nobody has to stop, to kill, to ask or to lose
\* patience.
SupervisorSpec ==
  /\ SupervisorInit /\ [][SupervisorNext]_supervisorVars
  /\ \A s \in Supervisors : WF_supervisorVars(SupervisorStep(s))
  /\ \A c \in Clients : WF_supervisorVars(ThreadStep(c)) /\ WF_supervisorVars(JobStep(c))
                        /\ WF_supervisorVars(ClientStep(c))

-----------------------------------------------------------------------------
(* Properties. *)

\* Every variable keeps its type.
SupervisorTypeOK ==
  /\ \A s \in Supervisors : Alive(s) \/ pc[s] \in {"off", "gone"}
  /\ \A d \in Dirs : {lock[d], sock[d], pidf[d]} \subseteq Supervisors \cup {NoOne}
  /\ \A s \in Supervisors : slots[s] \in 0..Slots
  /\ \A c \in Clients : job[c] # "none" => home[c] # NoOne
  /\ \A c \in Clients : link[c] # "none" => peer[c] # NoOne
  /\ \A d \in Dirs : wal[d] \subseteq Clients

\* A supervisor in its loop is the one that clients find: neither the clean-up of the
\* one before it nor a second start on the same socket takes its files away.
ServingIsReachable ==
  \A s \in Supervisors : pc[s] = "serving" => sock[DirOf[s]] = s /\ pidf[DirOf[s]] = s

\* Every slot that is taken has a thread that will give it back.
SlotsAreCounted ==
  \A s \in Supervisors :
    slots[s] = Cardinality({c \in Clients : peer[c] = s /\ link[c] \in {"accepted", "reading", "waiting"}})

\* The variables keep their types, and a supervisor does not go deaf by threads that
\* end, fail to start or lose their client: the slots add up with the connections.
SupervisorConsistent == SupervisorTypeOK /\ SlotsAreCounted

\* After a crash, a job is not started again while the worker of its first run still
\* computes it, if that worker is one that find_strays() knows.  A worker of the operator's
\* own computes on beside the second run until it notices.
OrphansAreGone ==
  \A c \in Clients \ External : job[c] = "running" => c \notin orphan

\* A job that a supervisor has in its memory and has not finished is in the log of its
\* directory, until it is over; but one that runs while the log is compacted is not.
UnfinishedIsLogged ==
  \A c \in Clients : /\ job[c] = "queued" => c \in wal[DirOf[home[c]]]
                     /\ job[c] = "running" => c \in wal[DirOf[home[c]]] \cup forgotten

\* A restart, after a crash or an orderly stop, finds in the log whatever was not
\* finished, but for what ran when the log was compacted, and nobody else at work on it,
\* but for workers of the operator's own.
RestartsAreClean == OrphansAreGone /\ UnfinishedIsLogged

\* A client starts to do the work itself while a supervisor that goes on serving has its
\* job in one case only, "unheard": that supervisor is too busy for the client's probe.
FallbackIsAlone ==
  [][\A c \in Clients : client'[c] = "fallback" /\ client[c] # "fallback" =>
       ~(job[c] \in {"queued", "running"} /\ pc[home[c]] = "serving")]_supervisorVars

\* Every client gets an answer, an error or leave to do the work itself, and a client
\* that has connected does not need its own time limit for that.
ClientsDecide ==
  \A c \in Clients : client[c] # "idle" ~> client[c] \in {"answered", "noResponse", "fallback", "unheard"}

\* A supervisor that is asked to stop once it runs comes to its end.
StopIsObeyed == \A s \in Supervisors : asked[s] = "late" ~> pc[s] = "gone"
=============================================================================
