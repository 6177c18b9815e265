SPECIFICATION Spec
CONSTANTS
  Node = {0, 1, 2, 3, 4}
  NoNode = NoNode
  Metrics <- Line
  TopLevel = 2
  M = 1
  MMax = 3
  EfConstruction = 2
INVARIANTS DegreesAreCapped NobodyIsStranded EntryStandsIn OthersAreTrimmed BuildKeepsPromise
PROPERTY OnRampsKept
CHECK_DEADLOCK FALSE
