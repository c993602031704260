------------------------------- MODULE GpuKill -------------------------------
(***************************************************************************)
(* The kill of everything on the GPU that a tool may ask for,              *)
(* kill_gpu_compute_processes_aggressive() of src/vramd/gpu.py, beside a   *)
(* supervisor that goes on working: what the tool learns of the supervisor *)
(* through src/vramd/client.py is old when it acts on it.                  *)
(*                                                                         *)
(* The supervisor is abstracted to what the tool can see of it and to its  *)
(* jobs, in the order they come in; its worker is a process on the GPU     *)
(* like any other, with no pid file of its own.                            *)
(***************************************************************************)
EXTENDS Naturals, FiniteSets

CONSTANTS
  KillJobs,      \* the jobs that clients send
  Spares,        \* kinds of the other processes: "server", "desktop", "foreign", "caller"
  MaxServings    \* bound: starts of the supervisor

ASSUME KillAssumption ==
  /\ MaxServings \in Nat /\ IsFiniteSet(KillJobs)
  /\ Spares \subseteq {"server", "desktop", "foreign", "caller"}

VARIABLES
  sup,        \* what the supervisor does
  full,       \* its client slots are taken
  servings,   \* how often it started
  jobs,       \* from job to where it is
  pid,        \* the number of its last worker process
  gpu,        \* the processes on the GPU
  tool,       \* how far the tool is
  probed,     \* history: what it took the supervisor for: "down", "unheard", "full", "idle", ...
  known,      \* history: the jobs the queue held when it answered
  protected,  \* protected_pids
  targets,    \* targets
  hit         \* history: jobs whose worker was signalled by the tool

killVars == <<sup, full, servings, jobs, pid, gpu, tool, probed, known, protected, targets, hit>>
toolVars == <<tool, probed, known, protected, targets, hit>>

Bystanders == {<<kind, 0>> : kind \in Spares}
Worker(n) == <<"worker", n>>

KillInit ==
  /\ sup = "down" /\ full = FALSE /\ servings = 0
  /\ jobs = [j \in KillJobs |-> "none"] /\ pid = 0 /\ gpu = Bystanders
  /\ tool = "probe" /\ probed = "nothing" /\ known = {} /\ protected = {} /\ targets = {} /\ hit = {}

Pending == {j \in KillJobs : jobs[j] \in {"queued", "running"}}
RunningJob == {j \in KillJobs : jobs[j] = "running"}

(***************************************************************************)
(* The supervisor                                                          *)
(***************************************************************************)

SupStarts ==
  /\ sup = "down" /\ servings < MaxServings
  /\ sup' = "up" /\ servings' = servings + 1
  /\ UNCHANGED <<full, jobs, pid, gpu, toolVars>>

\* After the accept loop it still has its socket and its pid file; at last it takes its
\* worker down, and what was not finished is in the log.
SupCloses ==
  /\ sup = "up" /\ sup' = "closing" /\ full' = FALSE
  /\ UNCHANGED <<servings, jobs, pid, gpu, toolVars>>
SupEnds ==
  /\ sup = "closing" /\ sup' = "down"
  /\ gpu' = gpu \cap Bystanders
  /\ jobs' = [j \in KillJobs |-> IF j \in Pending THEN "logged" ELSE jobs[j]]
  /\ UNCHANGED <<full, servings, pid, toolVars>>

SlotsChange ==
  /\ sup = "up" /\ full' = ~full
  /\ UNCHANGED <<sup, servings, jobs, pid, gpu, toolVars>>

JobComes(j) ==
  /\ sup = "up" /\ ((jobs[j] = "none" /\ ~full) \/ jobs[j] = "logged")
  /\ jobs' = [jobs EXCEPT ![j] = "queued"]
  /\ UNCHANGED <<sup, full, servings, pid, gpu, toolVars>>

\* A worker that is not alive is started afresh, with a new pid.
JobRuns(j) ==
  /\ sup # "down" /\ jobs[j] = "queued" /\ RunningJob = {}
  /\ jobs' = [jobs EXCEPT ![j] = "running"]
  /\ pid' = IF Worker(pid) \in gpu THEN pid ELSE pid + 1
  /\ gpu' = gpu \cup {Worker(pid')}
  /\ UNCHANGED <<sup, full, servings, toolVars>>

JobIsOver(j) ==
  /\ sup # "down" /\ jobs[j] = "running"
  /\ jobs' = [jobs EXCEPT ![j] = "over"]
  /\ UNCHANGED <<sup, full, servings, pid, gpu, toolVars>>

(***************************************************************************)
(* The tool                                                                *)
(***************************************************************************)

At(from, to) == tool = from /\ tool' = to
Else == UNCHANGED <<sup, full, servings, jobs>>

\* is_ums_running().  A backlog nobody empties for 2 s looks like no supervisor at all.
ProbeFindsIt ==
  /\ sup # "down" /\ At("probe", "fetch")
  /\ Else /\ UNCHANGED <<pid, gpu, probed, known, protected, targets, hit>>
ProbeFindsNone ==
  /\ sup = "down" \/ full
  /\ At("probe", "discover")
  /\ probed' = (IF sup = "down" THEN "down" ELSE "unheard") /\ known' = Pending
  /\ Else /\ UNCHANGED <<pid, gpu, protected, targets, hit>>

\* The probe, or the client, raises.  A second probe decides: finding the supervisor
\* refuses, and so does raising again.
ProbeRaises ==
  /\ At("probe", "raised")
  /\ Else /\ UNCHANGED <<pid, gpu, probed, known, protected, targets, hit>>
ProbesAgain ==
  /\ tool = "raised"
  /\ \/ tool' = "refused" /\ UNCHANGED <<probed, known>>
     \/ /\ sup = "down" \/ full
        /\ tool' = "discover"
        /\ probed' = (IF sup = "down" THEN "down" ELSE "unheard") /\ known' = Pending
  /\ Else /\ UNCHANGED <<pid, gpu, protected, targets, hit>>

NoAnswerPasses(answer) == answer \in {"idle", "full", "unknown"}

\* A refusal for want of a slot is an answer as well, and one that counts no jobs.
PassesFor(answer) == answer \in {"idle", "full"}

\* fetch_ums_queue_snapshot() and ums_is_busy().
Fetch ==
  /\ tool = "fetch"
  /\ LET answer == IF sup # "up" THEN "unknown" ELSE IF full THEN "full"
                   ELSE IF Pending = {} THEN "idle" ELSE "working" IN
     /\ probed' = answer
     /\ tool' = IF PassesFor(answer) THEN "discover" ELSE "refused"
     /\ known' = Pending
  /\ Else /\ UNCHANGED <<pid, gpu, protected, targets, hit>>

\* discover_server_pids(): from the pid files, the supervisor's and other servers', none
\* of them a worker's.
Discover ==
  /\ At("discover", "list")
  /\ protected' = {p \in Bystanders : p[1] \in {"server", "caller"}}
  /\ Else /\ UNCHANGED <<pid, gpu, probed, known, targets, hit>>
DiscoverRaises ==
  /\ At("discover", "refused")
  /\ Else /\ UNCHANGED <<pid, gpu, probed, known, protected, targets, hit>>

TargetsByName == {p \in gpu : p[1] \notin {"desktop", "foreign"}}

\* What is protected, by pid, by name or by its owner, is no target.
Targets == {p \in gpu \ protected : p[1] \notin {"desktop", "foreign"}}

ListApps ==
  /\ tool = "list"
  /\ targets' = Targets /\ tool' = IF targets' = {} THEN "ended" ELSE "term"
  /\ Else /\ UNCHANGED <<pid, gpu, probed, known, protected, hit>>

\* A signal to the pids in the list, whoever works there by now; a process may not heed
\* the first.  The dispatcher tries the job again, once, on a worker with another pid.
Signals(dying) ==
  /\ gpu' = gpu \ dying
  /\ hit' = hit \cup (IF Worker(pid) \in dying THEN RunningJob ELSE {})
  /\ \E next \in {"queued", "failed"} :
       jobs' = [j \in KillJobs |-> IF Worker(pid) \in dying /\ jobs[j] = "running" THEN next ELSE jobs[j]]
  /\ UNCHANGED <<sup, full, servings, pid, probed, known, protected, targets>>

Term == At("term", "wait") /\ \E dying \in SUBSET (targets \cap gpu) : Signals(dying)
KillRest == At("wait", "ended") /\ Signals(targets \cap gpu)

KillNext ==
  \/ SupStarts \/ SupCloses \/ SupEnds \/ SlotsChange
  \/ \E j \in KillJobs : JobComes(j) \/ JobRuns(j) \/ JobIsOver(j)
  \/ ProbeFindsIt \/ ProbeFindsNone \/ ProbeRaises \/ ProbesAgain
  \/ Fetch \/ Discover \/ DiscoverRaises \/ ListApps \/ Term \/ KillRest
KillSpec == KillInit /\ [][KillNext]_killVars

(***************************************************************************)
(* Properties                                                              *)
(***************************************************************************)

\* Every variable keeps its type, and what one is not to kill is still there.
KillTypeOK ==
  /\ sup \in {"down", "up", "closing"} /\ full \in BOOLEAN /\ servings \in 0..MaxServings
  /\ jobs \in [KillJobs -> {"none", "queued", "running", "over", "failed", "logged"}]
  /\ pid \in Nat /\ Bystanders \subseteq gpu /\ gpu \subseteq Bystanders \cup {Worker(n) : n \in 1..pid}
  /\ tool \in {"probe", "fetch", "raised", "discover", "list", "term", "wait", "refused", "ended"}
  /\ known \subseteq KillJobs /\ hit \subseteq KillJobs

\* The kill takes no job the queue held when it was asked, as long as the supervisor gave
\* its answer: one that is shutting down, cannot be read or raises makes the tool refuse.
\* Two holes are left, a supervisor without a free slot and one behind a full backlog.
KillSparesKnownWork == hit # {} =>
  \/ probed \in {"full", "unheard"}
  \/ hit \cap known = {}

\* The kill takes neither what it protects nor the work it was told of.
KillSpares == KillTypeOK /\ KillSparesKnownWork
=============================================================================
