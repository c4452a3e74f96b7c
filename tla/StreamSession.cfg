SPECIFICATION MCSpec
CONSTANTS
  Requests = {1, 2}
  Convs = {c1}
  ConvOf <- MCConvOf
  Readers = {d1}
  Stoppers = {s1}
  Cap = 3
  MaxBytes = 4
  Sizes = {2, 4}
  Offsets = {0}
  None = 0
INVARIANTS BufferIsWindow ReplayContiguous EndedHasAll FoundIsComplete LiveIsFound
PROPERTIES ReplayEnds CancelledEnds
CHECK_DEADLOCK FALSE
