SPECIFICATION FairSpec
CONSTANTS
  Node <- MCNode
  Graphs <- MCGraphs
  Distances <- MCDistances
  EntrySets <- MCEntrySets
  Efs = {1, 2}
  None = None
INVARIANTS TypeOK SoundBeam ReadsOnce
PROPERTIES ImplementsPromise Terminates
CHECK_DEADLOCK FALSE
