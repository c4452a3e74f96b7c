SPECIFICATION MCSpecLong
CONSTANTS
  NSeq = 2
  N = 5
  NStream = 2
  MaxPos = 4
  Windows <- MCLongWindows
  Batches <- MCLongBatches
  Ranges <- MCFullRange
  Shifts <- MCShifts
PROPERTY RefusalKeepsWindow
CHECK_DEADLOCK FALSE
