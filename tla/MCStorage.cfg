SPECIFICATION FairStorageSpec
CONSTANTS
  HeaderSize = 2
  Layouts <- AllLayouts
  MaxVectors = 5
  FieldRange = 32
  Pad = Pad
  Zeroes = Zeroes
  MaxBatch = 3
  IovMax = 3
INVARIANTS OpenedIsWhole DeliversWhatWasPushed ChargesWhatItReads
PROPERTIES EventuallyOpens BatchEnds
CHECK_DEADLOCK FALSE
