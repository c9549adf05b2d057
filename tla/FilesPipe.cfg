SPECIFICATION Spec
CONSTANTS
  NPROC = 2
  NFILE = 3
  NOFILE = 2
  NINODE = 2
  NPAGE = 1
  Dirs = {1}
  Serial = TRUE
  Atomic = TRUE
  MaxIref = 2
  MaxIrefs = 3
INVARIANTS
  PipeCleanupSound
CHECK_DEADLOCK FALSE
