CONSTANTS
  o1 = o1
  o2 = o2
  w1 = w1
  w2 = w2
  w3 = w3
  r1 = r1
  r2 = r2
  None = None
  Operators <- MCOperators
  Pool <- MCPool
  Run <- MCRun
SPECIFICATION LiveSpec
INVARIANTS
  LockTypeOK
  OrphansAreGone
  OneOperator
  NoLockLeaks
PROPERTIES
  SomeoneOperates
