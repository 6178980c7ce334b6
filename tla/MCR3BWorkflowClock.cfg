CONSTANTS
  c1 = c1
  v1 = v1
  s1 = s1
  None = None
  Jobs <- MCJobs
  Phase <- MCPhase
  Budget = 2
  Owners = {w1, w2}
  Tokens = {t1, t2}
  Artifacts = {a1, a2}
  Outputs = {out}
  Outcomes = {oc}
  Texts = {error}
  MaxClock = 1
  ClockStepsBack = TRUE
SPECIFICATION WorkflowSpec
INVARIANT
  VerifyStateMachine
CHECK_DEADLOCK FALSE
