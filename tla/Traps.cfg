SPECIFICATION FairSpec
CONSTANTS
  NPROC = 2
  MaxDepth = 3
  Quiet = TRUE
INVARIANTS
  LocksMaskInterrupts
  LocksAreFree
  VectorMatchesMode
  ReturnsToInterrupted
PROPERTY ReadyProcessesRun
