SPECIFICATION FairSpec
CONSTANTS
  Procs = {p1, p2, p3}
  Inserts <- MCInserts
  Defaults = {"en", "fa"}
  Custom = {"de"}
  None = none
INVARIANTS
  TypeOK
  SeededWhole
PROPERTIES
  EditsKept
  KeepsPlanting
  AllGetReady
