SPECIFICATION Spec
CONSTANTS
  A = A
  B = B
  a1 = a1
  a2 = a2
  b = b
  Readers = {A, B}
  Tasks = {a1, a2, b}
  ReaderOf <- MCReaderOf
  NSlots = 2
  Envs <- OneSlot
  None = None
  Loop = Loop
INVARIANT DeferredUntilSlotAvailable
CHECK_DEADLOCK FALSE
