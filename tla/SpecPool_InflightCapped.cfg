SPECIFICATION Spec
CONSTANTS
  Experts = {e1, e2}
  Workers = {w1, w2}
  Readers = {r1}
  Tensors = {t1, t2}
  NSlots = 2
  HotSlots = 1
  PoolSlots = 1
  Budget = 1
  None = None
INVARIANT InflightCapped
