CONSTANTS
  Procs = {p1, p2, p3}
  Bufs = {b1, b2}
  NUM = 4
  MaxCalls = 2
  Exclusive = TRUE
  NoBuf = NoBuf
  Blocks = {k1, k2, k3}
  Values = {v1, v2}
  Blank = Blank
  NoBlock = NoBlock
  Serial = TRUE
SYMMETRY Symmetry
SPECIFICATION BioSpec
CHECK_DEADLOCK FALSE
INVARIANTS BreadReturnsBlock HeldBufferKeepsBlock RefcntCountsHolders
