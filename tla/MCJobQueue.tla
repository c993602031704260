----------------------------- MODULE MCJobQueue -----------------------------
(* JobQueue on small instances for TLC. *)
EXTENDS JobQueue

CONSTANTS j1, j2, j3

Jobs2 == {j1, j2}
Jobs3 == {j1, j2, j3}
JobSymmetry == Permutations(Job)
=============================================================================
