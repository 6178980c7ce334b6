CONSTANTS
  None = None
  BatchJobs = {j1, j2}
  Budget = 1
  BatchOwners = {b1, b2}
  Policies = {p1}
  MaxSlots = 2
  Single = single
  Tokens = {t1, t2, t3}
  Artifacts = {a1}
  Outputs = {out}
  Errors = {error}
SPECIFICATION LiveSpec
INVARIANTS
  BatchTypeOK
  NoSecretIsLost
  BoundWhileClaimed
  WaveHoldsTheBatch
  OneJobPerSlot
PROPERTIES
  WaveIsImmutable
  PhaseEnds
CHECK_DEADLOCK FALSE
