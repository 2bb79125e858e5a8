SPECIFICATION StatsSpec
CONSTANTS
  Writers = {"w1", "w2"}
  Initial = "seed"
  Body <- MCBody
INVARIANT SavedIsStored
CHECK_DEADLOCK FALSE
