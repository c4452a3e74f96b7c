SPECIFICATION FairSpec
CONSTANTS
  Experts = {e1, e2}
  Workers = {w1, w2}
  Readers = {r1}
  Tensors = {t1}
  NSlots = 1
  HotSlots = 1
  PoolSlots = 1
  Budget = 1
  None = None
PROPERTY FillsAndWindowsEnd
