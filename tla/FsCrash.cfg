SPECIFICATION Spec
SYMMETRY Symmetry
VIEW View
CONSTANTS
  p1 = p1  p2 = p2
  n1 = n1  short = short  long = long
  Procs = {p1, p2}
  Names = {n1, short, long}
  Cut <- MCCut
  NINODES = 2
  NBLOCKS = 2
  NSLOTS = 2
  NENTRIES = 2
  Excl = TRUE
  MaxCrashes = 1
  MaxLost = 1
INVARIANTS
  EntriesNameLiveInodes
  BlocksHaveOneOwner
  OpenFilesStay
  NothingElseLeaks
  LinksAreCounted
CHECK_DEADLOCK FALSE
