SPECIFICATION FairSessionSpec
CONSTANTS
  l1 = l1
  l2 = l2
  None = None
  Lanes = {l1, l2}
  Library <- LibraryValue
  EpisodeLength = 2
  Budget = 3
  Sweep = 1
  Interval = 2
  Decisions = 1
  MaxSkips = 1
  MaxCrashes = 1
INVARIANTS
  LogIsWorld
  RestoreIsAtomic
  NoWorkerLeaks
  CurrentIsWorld
  TailIsPure
  ResumeIsInvisible
PROPERTIES
  TrainingEnds
CHECK_DEADLOCK FALSE
