\* A client that writes before it is connected, and after, and whose decoder
\* meets every kind of frame behind a read high water mask.
SPECIFICATION FairClientSpec
CONSTANTS
    Shared = TRUE
    Mask = 1
    Header = 1
    Longest = 3
    Strip = 2
    Claims = {0, 1, 2, 3, 4}
    MaxIn = 3
    MaxOut = 2
    SizeMod = 8
    PeerMayReset = TRUE
INVARIANTS
    ReadsOnUnlessHeldUp
    NothingAfterClosed
PROPERTY EarlyWritesLeave
\* The process may die, and a session ends.
CHECK_DEADLOCK FALSE
