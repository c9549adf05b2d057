CONSTANTS
  Procs = {p1, p2}
  Bufs = {b1, b2}
  NUM = 4
  MaxCalls = 1
  Exclusive = FALSE
  NoBuf = NoBuf
  Blocks = {k1, k2, k3}
  Values = {v1, v2}
  Blank = Blank
  NoBlock = NoBlock
  Serial = TRUE
SYMMETRY Symmetry
SPECIFICATION BioSpec
CHECK_DEADLOCK FALSE
INVARIANTS BreadReturnsBlock
