SPECIFICATION FairSpec
CONSTANTS
  Requests = {r1, r2}
  Queries = {1, 3}
  BootSteps <- MCBootSteps
  ReadTimeout = 5
  DbTimeout = 4
  DrainTimeout = 7
  Grace = 5
INVARIANT TypeOK
PROPERTIES
  CutOnlyIfSlow
  SignalEnds
  ServesOrDeaf
