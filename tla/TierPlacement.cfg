SPECIFICATION FairSpec
CONSTANTS
  Experts = {0, 1, 2, 3}
  LayerSlots = 2
  PoolSlots = {0}
  MinDwell = 2
  MaxScore = 2
  SlotFits = TRUE
  None = None
  Mmap = Mmap
  Zero = Zero
INVARIANTS ComputedOnce TablesAgree
PROPERTIES Converges
