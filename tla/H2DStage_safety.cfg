SPECIFICATION Spec
CONSTANTS
  Regions = {r1, r2, r3}
  Large = {r3}
  Experts = {e1, e2}
  NSlots = 2
  MaxGen = 4
  None = None
INVARIANTS ReadExact StagingStable
