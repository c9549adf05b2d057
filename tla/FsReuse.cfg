SPECIFICATION Spec
CONSTANTS
  p1 = p1  p2 = p2
  n1 = n1  short = short  long = long
  Procs = {p1, p2}
  Names = {n1, short, long}
  Cut <- MCCut
  NINODES = 2
  NBLOCKS = 2
  NSLOTS = 3
  NENTRIES = 2
  Excl = FALSE
  MaxCrashes = 0
  MaxLost = 0
INVARIANT OpenFilesStay
CHECK_DEADLOCK FALSE
