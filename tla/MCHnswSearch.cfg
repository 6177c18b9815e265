SPECIFICATION HybridSpec
CONSTANTS
  Node <- MCNode
  Graphs <- MCGraphs
  Distances <- MCDistances
  UpperGraphs <- MCUpperGraphs
  EntrySets = {}
  Efs = {1}
  EntryPoints = {1, None}
  EfSearches = {1, 2}
  Ks = {0, 1, 3}
  Approximations <- MCApproximations
  RerankRatios <- MCRerankRatios
  BatchSizes = {0, 4}
  None = None
INVARIANTS AnswerIsFull ExactAnswerIsLocallyBest AnswerIsBestFetched
PROPERTIES LeavesAtLocalMinimum SearchReturns
CHECK_DEADLOCK FALSE
