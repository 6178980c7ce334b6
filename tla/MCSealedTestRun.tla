-------------------------- MODULE MCSealedTestRun --------------------------
(* One validation job, sealed jobs s1 and s2 or s1 alone, the baseline batch. *)
EXTENDS SealedTestRun, TLC

CONSTANTS v1, s1, s2, two, error, paddings

MCJobs == IF two THEN {v1, s1, s2} ELSE {v1, s1}
MCPhase == [j \in MCJobs |-> IF j = v1 THEN "validation" ELSE "test"]
MCErrors == [about : {error}, padded : paddings]
Symmetry == Permutations({s1, s2}) \cup
  Permutations(ClaimTokens) \cup Permutations(LeaseTokens) \cup Permutations(Owners)
=============================================================================
