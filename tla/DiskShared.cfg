CONSTANTS
  Procs = {p1, p2, p3}
  Bufs = {b1, b2, b3}
  NUM = 8
  MaxCalls = 2
  Exclusive = FALSE
  NoBuf = NoBuf
SPECIFICATION DiskSpec
CHECK_DEADLOCK FALSE
INVARIANT NoNullBuf
