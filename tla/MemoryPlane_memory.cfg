SPECIFICATION Spec
CONSTANTS
  c1 = c1  c2 = c2  s1 = s1  s2 = s2  b1 = b1  b2 = b2  k1 = k1
  x1 = x1  x2 = x2  None = None
  MaxMemories = 3
  MaxRelations = 2
  MaxEvents = 2
  MaxEdgeVersion = 2
  MaxLinks = 2
  Client = {c1, c2}
  Scope = {s1, s2}
  Key = {k1}
  Body = {b1, b2}
  Mark = {x1, x2}
  Predicate = {"derived_from"}
  Usages <- MCUsages
SYMMETRY Symmetry
INVARIANTS
  TypeOK KeyNamesOneMemory LineageIsLinear JournalReplays
PROPERTIES
  GuardedAnnotationsKeep ScopeIsolation InvalidationIsFinal
CHECK_DEADLOCK FALSE
