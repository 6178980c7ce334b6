-------------------------- MODULE MCCalibrationRun --------------------------
(* A plan of Cells attempts, in at most MaxRuns runs on one journal. *)
EXTENDS CalibrationRun
=============================================================================
