CONSTANTS
  j1 = j1
  j2 = j2
  t1 = t1
  t2 = t2
  t3 = t3
  Batch = batch
  None = None
  Jobs <- MCJobs
  Tokens <- MCTokens
  Outcomes = {o1, o2}
  Reasons = {error, orphaned}
SPECIFICATION LedgerSpec
INVARIANTS
  LedgerTypeOK
  ConnectionVerifies
PROPERTIES
  DecisionIsLast
  ImplementsTrial
CHECK_DEADLOCK FALSE
