CONSTANTS
  c1 = c1
  v1 = v1
  None = None
  Jobs <- MCJobs
  Phase <- MCPhase
  Budget = 1
  Owners = {w1, w2}
  Tokens = {t1, t2}
  Artifacts = {a1, a2}
  Outputs = {out}
  Outcomes = {oc}
  Texts = {error}
  MaxClock = 0
  ClockStepsBack = FALSE
SPECIFICATION ReaderSpec
INVARIANTS
  RefusesOnlyCorruption
CHECK_DEADLOCK FALSE
