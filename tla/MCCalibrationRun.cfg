SPECIFICATION CalibrationSpec
CONSTANTS
  None = None
  LeaseTime = 5
  Stale = 2
  Press = 1
  Margin = 1
  Error = 1
  ClickInterval = 1
  Capacity = 1
  Horizon = 5
  Cells = 2
  MaxRuns = 2
INVARIANTS
  PressIsOnRecord
  PressIsCovered
  NeutralIsTrue
  SampleIsOnePress
CHECK_DEADLOCK FALSE
