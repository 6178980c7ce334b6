CONSTANTS
  c1 = c1
  v1 = v1
  s1 = s1
  None = None
  Jobs <- MCJobs
  Phase <- MCPhase
  Budget = 2
  Owners = {w1, w2}
  Tokens = {t1, t2}
  Artifacts = {a1}
  Outputs = {out}
  Outcomes = {oc}
  Texts = {error}
  MaxClock = 1
  ClockStepsBack = FALSE
SPECIFICATION WorkflowSpec
SYMMETRY Symmetry
INVARIANTS
  WorkflowTypeOK
  VerifyStateMachine
  ExclusiveAuthority
  PhaseGate
PROPERTIES
  NothingIsRedone
CHECK_DEADLOCK FALSE
