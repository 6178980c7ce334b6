--------------------------- MODULE MCR3BWorkflow ---------------------------
(* A calibration, a validation and a test job. *)
EXTENDS R3BWorkflow, TLC

CONSTANTS c1, v1, s1

MCJobs == {c1, v1, s1}
MCPhase == c1 :> "calibration" @@ v1 :> "validation" @@ s1 :> "test"
Symmetry == Permutations(Owners) \cup Permutations(Tokens) \cup Permutations(Artifacts)
=============================================================================
