---------------------------- MODULE JobLifecycle ----------------------------
(***************************************************************************)
(* What the daemon promises about a generation request, with no queue, no  *)
(* threads and no log: an accepted request waits, runs, may be put back to *)
(* wait (a transient failure, or the death of the daemon), and gets one    *)
(* outcome that nothing changes.  At most Slots requests run at a time.    *)
(***************************************************************************)
EXTENDS Naturals, FiniteSets

CONSTANTS Job, Slots

VARIABLES
  phase,     \* where each request stands
  cancelled  \* the requests whose cancellation was acknowledged and is known

Outcomes == {"done", "failed", "cancelled"}
Active == {j \in Job : phase[j] = "active"}

LifeInit == phase = [j \in Job |-> "new"] /\ cancelled = {}

Accept(j) ==
  /\ phase[j] = "new"
  /\ phase' = [phase EXCEPT ![j] = "waiting"]
  /\ UNCHANGED cancelled

Start(j) ==
  /\ phase[j] = "waiting" /\ Cardinality(Active) < Slots
  /\ phase' = [phase EXCEPT ![j] = "active"]
  /\ UNCHANGED cancelled

\* A request whose cancel was acknowledged is not retried.
Retry(j) ==
  /\ phase[j] = "active" /\ j \notin cancelled
  /\ phase' = [phase EXCEPT ![j] = "waiting"]
  /\ UNCHANGED cancelled

\* ... and has only one outcome left.
Complete(j, outcome) ==
  /\ phase[j] = "active"
  /\ j \in cancelled => outcome = "cancelled"
  /\ phase' = [phase EXCEPT ![j] = outcome]
  /\ UNCHANGED cancelled

CancelWaiting(j) ==
  /\ phase[j] = "waiting"
  /\ phase' = [phase EXCEPT ![j] = "cancelled"]
  /\ cancelled' = cancelled \cup {j}

CancelActive(S) ==
  /\ S \subseteq Active
  /\ cancelled' = cancelled \cup S
  /\ UNCHANGED phase

\* The daemon dies: what ran waits again, and the acknowledged cancels of what
\* ran are forgotten.
Interrupt ==
  /\ phase' = [j \in Job |-> IF phase[j] = "active" THEN "waiting" ELSE phase[j]]
  /\ cancelled' = {}

LifeNext ==
  \/ \E j \in Job : \/ Accept(j) \/ Start(j) \/ Retry(j) \/ CancelWaiting(j)
                    \/ \E o \in Outcomes : Complete(j, o)
  \/ \E S \in SUBSET Job : CancelActive(S)
  \/ Interrupt

LifeSpec == LifeInit /\ [][LifeNext]_<<phase, cancelled>>
=============================================================================
