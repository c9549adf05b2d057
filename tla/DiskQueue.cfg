CONSTANTS
  Procs = {p1, p2, p3}
  Bufs = {b1, b2, b3}
  NUM = 8
  MaxCalls = 2
  Exclusive = TRUE
  NoBuf = NoBuf
SPECIFICATION DiskFairSpec
CHECK_DEADLOCK FALSE
INVARIANTS DescsPartition InFlightIsOwned
PROPERTY CallsReturn
