--------------------------- MODULE MCSupervisor ---------------------------
(* Supervisor on small instances for TLC. *)
EXTENDS Supervisor, TLC

CONSTANTS s1, s2, c1, c2, here, there

OneDir == [s \in Supervisors |-> here]
TwoDirs == s1 :> here @@ s2 :> there
=============================================================================
