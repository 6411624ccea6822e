SPECIFICATION FairSpec
CONSTANTS
  i1 = i1  i2 = i2  i3 = i3  s1 = s1  m1 = m1  w1 = w1  w2 = w2  o1 = o1  o2 = o2
  None = None
  MaxJobs = 1
  MaxAttempts = 1
  ScanLimit = 1
  HistoryMax = 1
  MaxRevision = 2
  Intent = {i2}
  Scope = {s1}
  Memory = {m1}
  Worker = {w1}
  Operator = {}
  IntentScope <- MCIntentScope
  IntentInputs <- MCIntentInputs
  MemoryScope <- MCMemoryScope
  WorkerName <- MCWorkerName
  Grant <- MCGrant
  OperatorScope <- MCOperatorScope
PROPERTIES
  ExhaustedLeaseIsResolved
