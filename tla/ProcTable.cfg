CONSTANTS
  NPROC = 3
  MaxForks = 3
  ExitBlocks = TRUE
  MemFails = TRUE
SPECIFICATION Spec
INVARIANTS TypeOK CurrentIsRunning NoStackReuse NoLostExit ForksAreDisjoint NoLostCompletion IoDoneBeforeReturn
CHECK_DEADLOCK FALSE
