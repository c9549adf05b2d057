SPECIFICATION Spec
CONSTANTS
  NPROC = 1
  NPAGE = 17
  MaxCalls = 3
  PGSIZE = 2
  MaxSz = 6
  ImagePages = 3
  Near = {10, 11, 12, 13}
  Spared = {12, 13}
  Serial = TRUE
INVARIANTS
  UnmapsWhatIsMapped
CHECK_DEADLOCK FALSE
