SPECIFICATION FairSpec
CONSTANTS
  Experts = {e1, e2}
  Workers = {w1, w2, w3}
  Cap = 2
  TopK = 2
  MaxTokens = 2
INVARIANTS QueueBounded NoLostWakeup
PROPERTIES RequestsAreTaken ShutdownEnds
