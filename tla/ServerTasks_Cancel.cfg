SPECIFICATION Spec
CONSTANTS
  A = A
  B = B
  a1 = a1
  a2 = a2
  b = b
  Readers = {A, B}
  Tasks = {a1, a2, b}
  ReaderOf <- MCReaderOf
  NSlots = 2
  Envs <- Half
  None = None
  Loop = Loop
PROPERTY CancelCleansUp
CHECK_DEADLOCK FALSE
