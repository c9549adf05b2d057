CONSTANTS
  Writers = {w1, w2}
  Readers = {r1, r2}
  Bytes = {0, 1}
  PIPESIZE = 2
  W = 4
  MaxLen = 2
  MaxBytes = 4
  Faults = FALSE
SYMMETRY Symmetry
SPECIFICATION Spec
CHECK_DEADLOCK FALSE
INVARIANTS RingIsFifo NoLostWakeup NoUseAfterFree
PROPERTY ImplementsChannel
