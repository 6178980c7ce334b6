-------------------------- MODULE MCTrainingBatch --------------------------
(* Two jobs of one phase, two batch owners with up to two slots, and the     *)
(* owner of canonical-run-job.                                               *)
EXTENDS TrainingBatch
=============================================================================
