-------------------------- MODULE MCWorkflowReader --------------------------
(* A calibration and a validation job, and one reader. *)
EXTENDS WorkflowReader, TLC

CONSTANTS c1, v1

MCJobs == {c1, v1}
MCPhase == c1 :> "calibration" @@ v1 :> "validation"
Symmetry == Permutations(Owners) \cup Permutations(Tokens) \cup Permutations(Artifacts)
=============================================================================
