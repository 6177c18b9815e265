SPECIFICATION StorageSpec
CONSTANTS
  HeaderSize = 2
  Layouts <- AllLayouts
  MaxVectors = 5
  FieldRange = 32
  Pad = Pad
  Zeroes = Zeroes
  MaxBatch = 3
  IovMax = 3
INVARIANT RunsFitOneCall
CHECK_DEADLOCK FALSE
