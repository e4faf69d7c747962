\* Blocks of two bytes, lists of up to six: every fill level around every block boundary.
SPECIFICATION Spec
CONSTANTS
    BlockSize = 2
    RemainRatio = 2
    LowUseCeil = 2
    Values = 5
    MaxLen = 4
    MaxBlocks = 5
INVARIANTS
    TypeOK
    SoundUntilShrunk
    GathersAll
PROPERTY
    ImplementsByteQueue
\* A buffer whose behaviour is undefined does nothing that could be said.
CHECK_DEADLOCK FALSE
