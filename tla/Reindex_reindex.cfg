SPECIFICATION ReindexSpec
CONSTANTS
  c1 = c1  r1 = r1  r2 = r2  f1 = f1  f2 = f2
  Unknown = Unknown  Raw = Raw
  MaxGenerations = 2
  MaxMemories = 2
  Model = {f1, f2}
  Caller = {c1}
  Runner = {r1, r2}
  Batch = 1
  MaxTokens = 2
  Offered <- MCEveryOperation
SYMMETRY Symmetry
INVARIANTS
  TypeOK StampsAreTruthful CheckpointFollowsEffects
PROPERTIES
  ActivationIsComplete
CHECK_DEADLOCK FALSE
