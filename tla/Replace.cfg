SPECIFICATION FairSpec
CONSTANTS
  Writers = {"w1", "w2", "w3"}
  Initial = "seed"
  Body <- MCBody
INVARIANTS
  TypeOK
  OneGetsThrough
  WaitsEnd
PROPERTIES
  KeepsPromise
  AllEnd
CHECK_DEADLOCK FALSE
