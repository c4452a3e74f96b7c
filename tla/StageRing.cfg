SPECIFICATION FairSpec
CONSTANTS
  Threads = {p1, p2}
  Layers = {l1, l2}
  Experts = {e1, e2}
  Tensors = {gate}
  NBuffers = 2
  Attempts = 2
  Fetches = 2
  None = None
INVARIANTS FetchExact OneLoader FetchedOnce
PROPERTY FetchEnds
