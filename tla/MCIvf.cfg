SPECIFICATION IvfSpec
CONSTANTS
  MaxIters = 3
  Stores <- MCStores
  Params <- MCParams
  Queries <- MCQueries
  Configs <- MCConfigs
INVARIANTS AllCellsIsBruteForce StoredVectorIsFound LosslessCodesGateExactly
PROPERTIES CostNeverRises
CHECK_DEADLOCK FALSE
