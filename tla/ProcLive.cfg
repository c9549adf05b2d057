CONSTANTS
  NPROC = 3
  MaxForks = 2
  ExitBlocks = FALSE
  MemFails = FALSE
SPECIFICATION FairSpec
INVARIANT NoPanic
PROPERTIES NoStarvation KilledProcessesEnd WaitReturns
