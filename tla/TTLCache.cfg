SPECIFICATION Spec
CONSTANTS
  Keys = {"content", "languages"}
  Values = {v1, v2}
  Callers = {c1, c2}
  TTL = 2
INVARIANT TypeOK
PROPERTY KeepsLeases
