SPECIFICATION Spec
CONSTANTS
  Threads = {p1, p2}
  Layers = {l1, l2}
  Experts = {e1, e2, e3}
  Tensors = {gate}
  NBuffers = 2
  Attempts = 2
  Fetches = 1
  None = None
INVARIANTS FullMeansLive
