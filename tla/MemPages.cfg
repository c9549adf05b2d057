SPECIFICATION Spec
CONSTANTS
  NPROC = 2
  NPAGE = 16
  MaxCalls = 6
  PGSIZE = 2
  MaxSz = 8
  ImagePages = 3
  Near = {10, 11, 12, 13}
  Spared = {12, 13}
  Serial = TRUE
INVARIANTS
  PagesHaveOneOwner
  NoOtherLeak
  SizeIsMapped
CHECK_DEADLOCK FALSE
