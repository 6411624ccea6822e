SPECIFICATION Spec
CONSTANTS
  a = a  b = b  c = c  h = h  k = k
  MaxRows = 3
  MaxTime = 2
  Limits = {1, 2}
  CountLimit = 1
  PageCap = 2
  Node = {a, b, c}
  Links <- MCLinks
  MaxTouched = 1
  Seeds = {a}
  Depths = {0, 1, 2}
  Visits = {2, 4}
  Scans = {2, 5}
  Limit = 2
  ExpandDepths = {1, 2}
  SeedCaps = {1, 2}
  CandidateCaps = {1, 2}
  MaxScans = 3
  MaxFrom = 1
  Card = {1, 2, 3, 4}
  Scores = {1, 2}
  MaxPasses = 2
  RecallLimit = 2
  MorePerPass = 1
  Floors = {0, 2}
  MinHits = 1
  Size <- MCSize
  ReferenceSize = 2
  HeaderSize = 1
  Budgets = {2, 5, 8}
  CardCaps = {1, 3}
  Evidence = {a, b}
  Excerpt <- MCExcerpt
  Stub <- MCStub
  Category <- MCCategory
  ProposalHeader = 94
  CharsPerToken = 4
  Ceilings = {50, 84}
  BlockCaps = {1, 2}
  Tasks = {1}
  Host = {h, k}
  MaxPacks = 2
  MaxEvents = 3
  CategoryOf <- MCCategoryOf
  LengthOf <- MCLengthOf
  Similar <- MCSimilar
  Old = {1, 2}
  Batches <- MCBatches
  Policies <- MCPolicies
  MaxBatch = 2
  PageSize = 2
  ScanCap = 3
  MaxProposals = 3
  MaxVersion = 2
INVARIANTS
  OneAcknowledgment
CHECK_DEADLOCK FALSE
