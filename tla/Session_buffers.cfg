\* The session destroyed before the handler of its write is called.
SPECIFICATION Spec
CONSTANTS
    Shared = FALSE
    Mask = 0
    MaxIn = 0
    MaxOut = 1
    SizeMod = 8
    PeerMayReset = FALSE
INVARIANT BuffersOutliveOperations
\* The process may die, and a session ends.
CHECK_DEADLOCK FALSE
