-------------------------- MODULE MCJobQueueDurable --------------------------
(* JobQueue and its refinement of JobLifecycle on small instances. *)
EXTENDS JobQueueRefinement

CONSTANTS j1, j2

Jobs2 == {j1, j2}
JobSymmetry == Permutations(Job)
=============================================================================
