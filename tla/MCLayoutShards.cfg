SPECIFICATION Spec
CONSTANTS
  MaxIters = 2
  Corpora <- MCCorpora
  Shardings <- MCShardings
  CallerOrders <- MCCallerOrders
  M = 1
  MMax = 2
  Graphs <- MCGraphs
  None = None
INVARIANTS MergedIsOneGraph
CHECK_DEADLOCK FALSE
