---------------------------- MODULE ProcessTree ----------------------------
(***************************************************************************)
(* Which processes a starting supervisor takes for leftovers               *)
(* (src/vramd/process_guard.py): those of the family, by their command     *)
(* line, that neither started it nor were started by it.  The table        *)
(* `parent' is what one reading of /proc gave, process by process: a       *)
(* parent may be missing (Unread), and a reused PID may close a circle.    *)
(***************************************************************************)
EXTENDS Integers, FiniteSets, FiniteSetsExt

Unread == 0
Init1 == 1      \* the process everything descends from

(* classify_cmdline(): a command line by what is looked for in it. *)
Kind(cmd) ==
  IF cmd.worker_flag THEN "worker"
  ELSE IF /\ cmd.start
          /\ \/ cmd.module \in {"vramd", "vramd.cli"}
             \/ cmd.exe \in {"vramd", "ums"}
             \/ cmd.exe = "python" /\ cmd.names_supervisor
    THEN "supervisor"
    ELSE "none"

Family(cmds) == {p \in DOMAIN cmds : Kind(cmds[p]) # "none"}

\* The processes that a walk from one to its parent, and so on, comes by; it ends at
\* init, at a parent that could not be read, and where it has been before.
Walk(parent, pid) ==
  LET at[n \in 0..Cardinality(DOMAIN parent)] ==
        IF n = 0 THEN pid
        ELSE IF at[n-1] \in DOMAIN parent THEN parent[at[n-1]] ELSE Unread
  IN {at[n] : n \in 1..Cardinality(DOMAIN parent)} \ {Unread}

DescendantsDirect(parent, pid) == {p \in DOMAIN parent : parent[p] = pid}
Descendants(parent, pid) == {p \in DOMAIN parent : pid \in Walk(parent, p)}
Ancestors(parent, pid) == Walk(parent, pid) \ {Init1}

\* find_strays() after the lock is won.
FindStrays(parent, cmds, me) ==
  Family(cmds) \ ({me} \cup Descendants(parent, me) \cup Ancestors(parent, me))

\* stray_report(): how many, and the VRAM they hold.
HeldBy(procs, vram) == MapThenSumSet(LAMBDA p : vram[p], procs)
StrayReport(parent, cmds, me, vram) ==
  LET strays == FindStrays(parent, cmds, me) IN
  [count |-> Cardinality(strays), vram_mib |-> HeldBy(strays, vram)]
=============================================================================
