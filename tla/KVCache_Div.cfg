SPECIFICATION MCSpecDiv
CONSTANTS
  NSeq = 2
  N = 3
  NStream = 2
  MaxPos = 3
  Windows <- MCWindows
  Batches <- MCBatches
  Ranges <- MCRanges
  Shifts <- MCShifts
INVARIANT ShiftIsOwed
CHECK_DEADLOCK FALSE
