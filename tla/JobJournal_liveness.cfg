SPECIFICATION FairSpec
CONSTANTS
  i1 = i1  i2 = i2  i3 = i3  s1 = s1  m1 = m1  w1 = w1  w2 = w2  o1 = o1  o2 = o2
  None = None
  MaxJobs = 2
  MaxAttempts = 2
  ScanLimit = 1
  HistoryMax = 1
  MaxRevision = 2
  Intent = {i2, i3}
  Scope = {s1}
  Memory = {}
  Worker = {w1}
  Operator = {}
  IntentScope <- MCIntentScope
  IntentInputs <- MCIntentInputs
  MemoryScope <- MCMemoryScope
  WorkerName <- MCWorkerName
  Grant <- MCGrant
  OperatorScope <- MCOperatorScope
INVARIANTS
  LiveJobHoldsSlot
PROPERTIES
  JobsSettleOrStarve
