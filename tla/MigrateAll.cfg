SPECIFICATION CalmSpec
CONSTANTS
  Procs = {p1}
  Versions <- MCVersions
INVARIANT EveryFileRuns
