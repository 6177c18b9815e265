SPECIFICATION KernelSpec
CONSTANT MaxLen = 35
INVARIANTS SumsEachOnce LoadsInBounds OnlyWhatTheCpuHas
CHECK_DEADLOCK FALSE
