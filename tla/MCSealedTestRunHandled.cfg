CONSTANTS
  v1 = v1
  s1 = s1
  s2 = s2
  two = FALSE
  Batch = batch
  None = None
  WorkflowJobs <- MCJobs
  Phase <- MCPhase
  Budget = 1
  Owners = {w1}
  ClaimTokens = {t1, t2}
  LeaseTokens = {l1, l2, l3}
  Artifacts = {a1}
  Outputs = {out1, out2}
  Outcomes = {oc1}
  Reasons = {error, orphaned}
  Orphaned = orphaned
  error = error
  paddings = {TRUE, FALSE}
  Errors <- MCErrors
SPECIFICATION RunSpec
PROPERTIES
  FailureIsReconciled
CHECK_DEADLOCK FALSE
