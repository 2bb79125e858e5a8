SPECIFICATION Spec
CONSTANTS
  IPs = {ip1, ip2}
  Requests = {r1, r2}
  None = none
  Minute = 6
  PerMinute = 9
  CleanupAfter = 6
  Stall = 1
INVARIANTS
  TypeOK
  WindowBound
  ForgetsOnlyFull
  RetryAfterHonest
PROPERTY ImplementsBuckets
