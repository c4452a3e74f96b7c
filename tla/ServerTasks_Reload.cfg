SPECIFICATION Spec
CONSTANTS
  A = A
  B = B
  a1 = a1
  a2 = a2
  b = b
  Readers = {A, B}
  Tasks = {a1, a2, b}
  ReaderOf <- MCReaderOf
  NSlots = 2
  Envs <- Sleeping
  None = None
  Loop = Loop
PROPERTY NewTaskReloads
CHECK_DEADLOCK FALSE
