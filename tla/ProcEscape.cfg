CONSTANTS
  NPROC = 3
  MaxForks = 2
  ExitBlocks = FALSE
  MemFails = FALSE
SPECIFICATION Spec
PROPERTY CtrlCReachesChildren
