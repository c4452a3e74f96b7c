SPECIFICATION MCSpec
CONSTANTS
  NSeq = 2
  N = 3
  NStream = 2
  MaxPos = 2
  Windows <- MCWindows
  Batches <- MCBatches
  Ranges <- MCRanges
  Shifts <- MCShifts
INVARIANTS IndexesAgree ShiftIsOwed
PROPERTIES WindowKept NoNewGaps
CHECK_DEADLOCK FALSE
