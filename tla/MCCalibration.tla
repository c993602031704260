--------------------------- MODULE MCCalibration ---------------------------
(* A calibration alone, on a small instance. *)
EXTENDS Calibration
=============================================================================
