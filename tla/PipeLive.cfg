CONSTANTS
  Writers = {w1, w2}
  Readers = {r1}
  Bytes = {0}
  PIPESIZE = 2
  W = 4
  MaxLen = 3
  MaxBytes = 4
  Faults = TRUE
SPECIFICATION FairSpec
CHECK_DEADLOCK FALSE
PROPERTIES ClosedEndIsSeen KilledLeaves
