CONSTANTS
  v1 = v1
  s1 = s1
  s2 = s2
  two = TRUE
  Batch = batch
  None = None
  WorkflowJobs <- MCJobs
  Phase <- MCPhase
  Budget = 1
  Owners = {w1, w2}
  ClaimTokens = {t1, t2}
  LeaseTokens = {l1, l2, l3}
  Artifacts = {a1}
  Outputs = {out1}
  Outcomes = {oc1}
  Reasons = {error, orphaned}
  Orphaned = orphaned
  error = error
  paddings = {TRUE}
  Errors <- MCErrors
SPECIFICATION RunSpec
SYMMETRY Symmetry
INVARIANTS
  RunTypeOK
  WorkflowFollowsLedger
  NoAuthorityIsLost
  OneActiveJob
  DecisionIsMirrored
CHECK_DEADLOCK FALSE
