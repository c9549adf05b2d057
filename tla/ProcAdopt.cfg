CONSTANTS
  NPROC = 3
  MaxForks = 3
  ExitBlocks = FALSE
  MemFails = FALSE
SPECIFICATION Spec
PROPERTY WaitReapsOwnChild
