SPECIFICATION FairSpec
CONSTANTS
  Requests = {r1, r2}
  Keys = {"content"}
  ContentSections <- MCContentSections
  Lists = {"stats", "languages"}
  Bodies = {b}
  ZeroValue = zero
  Unreadable = unreadable
  Mixed = mixed
  Lost = lost
  None = none
  TTL = 1
INVARIANTS
  TypeOK
  StaleOnlyIfExcused
  InFlightExcused
PROPERTY Convergence
