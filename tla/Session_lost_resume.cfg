\* The resume that the I/O and the work thread lose between them.
SPECIFICATION Spec
CONSTANTS
    Shared = FALSE
    Mask = 2
    MaxIn = 2
    MaxOut = 0
    SizeMod = 8
    PeerMayReset = FALSE
INVARIANT NoLostResume
\* The process may die, and a session ends.
CHECK_DEADLOCK FALSE
