\* Progress of a server's session that stops reading at one unread unit.
SPECIFICATION FairSpec
CONSTANTS
    Shared = FALSE
    Mask = 1
    MaxIn = 1
    MaxOut = 2
    SizeMod = 8
    PeerMayReset = TRUE
PROPERTIES
    CloseCompletes
    WritesLeave
\* The process may die, and a session ends.
CHECK_DEADLOCK FALSE
