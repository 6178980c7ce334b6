CONSTANTS
  c1 = c1
  v1 = v1
  None = None
  Jobs <- MCJobs
  Phase <- MCPhase
  Budget = 2
  Owners = {w1, w2}
  Tokens = {t1, t2}
  Artifacts = {a1}
  Outputs = {out}
  Outcomes = {oc}
  Texts = {error}
  MaxClock = 0
  ClockStepsBack = FALSE
SPECIFICATION ReaderSpec
SYMMETRY Symmetry
INVARIANTS
  ReaderTypeOK
PROPERTIES
  AcceptedReadIsCommitted
CHECK_DEADLOCK FALSE
