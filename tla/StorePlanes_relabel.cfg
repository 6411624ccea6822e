SPECIFICATION Spec
CONSTANTS
  p1 = p1  p2 = p2  p3 = p3  e1 = e1  a1 = a1  a2 = a2  c1 = c1  c2 = c2
  s1 = s1  s2 = s2
  Unknown = Unknown  Missing = Missing  Absent = Absent  Nothing = Nothing
  Process = {p1, p2, p3}
  Version <- MCVersion
  Dimension <- MCDimension
  Declared <- MCDeclared
  Script <- MCScript
  Fleets <- MCFleets
  Caller = {c1, c2}
  MaxVersion = 3
  Trace = {t1}
  TraceScope = {s1, s2}
  Actor = {a1, a2}
  Files = {f1}
  Buckets = {b1}
  Bytes = {x1}
  Tenant = {s1, s2}
  MaxArtifacts = 2
  MaxOutages = 1
PROPERTIES
  NeverRelabelledOlder
CHECK_DEADLOCK FALSE
