CONSTANTS
  NPROC = 2
  MaxForks = 1
  ExitBlocks = TRUE
  MemFails = FALSE
SPECIFICATION Spec
INVARIANT NoPanic
