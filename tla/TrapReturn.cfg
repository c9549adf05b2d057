SPECIFICATION Spec
CONSTANTS
  NPROC = 2
  MaxDepth = 3
  Quiet = FALSE
INVARIANT ReturnsToInterrupted
