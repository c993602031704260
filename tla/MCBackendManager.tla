-------------------------- MODULE MCBackendManager --------------------------
(* BackendManager on small instances for TLC. *)
EXTENDS BackendManager, TLC

CONSTANTS t1, t2, a1, b1, b2, s1, s2

Alike == Permutations(Jobs)
=============================================================================
