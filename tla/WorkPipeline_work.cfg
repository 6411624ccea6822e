SPECIFICATION FairSpec
CONSTANTS
  c1 = c1  c2 = c2  k1 = k1  self = self  plain = plain  None = None
  JobIds <- MCJobIds
  Worker = {w1}
  Concurrency = 2
  Quota = 1
  MaxMemories = 2
  MaxAttempts <- MCAttempts
  Writer = {c1, c2}
  Key = {k1}
  SelfIntent = {self}
  PlainIntent = {plain}
  Asks <- MCAsks
INVARIANTS
  TypeOK LeasesAreAccountedFor WritesAndJobsAgree
PROPERTIES
  StopEndsTheRun
CHECK_DEADLOCK FALSE
