\* The ratio and the ceiling of the code, with blocks of eight bytes.
SPECIFICATION Spec
CONSTANTS
    BlockSize = 8
    RemainRatio = 8
    LowUseCeil = 10
    Values = 1
    MaxLen = 8
    MaxBlocks = 4
INVARIANT LeavesRoom
CHECK_DEADLOCK FALSE
