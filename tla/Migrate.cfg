SPECIFICATION FairSpec
CONSTANTS
  Procs = {p1, p2, p3}
  Versions <- MCVersions
INVARIANTS
  TypeOK
  ExactlyOnce
  InOrder
PROPERTIES
  KeepsLedger
  AllGetReady
