\* A server's session: three threads, a high water mark, any end of the connection.
SPECIFICATION Spec
CONSTANTS
    Shared = FALSE
    Mask = 2
    MaxIn = 2
    MaxOut = 2
    SizeMod = 8
    PeerMayReset = TRUE
INVARIANTS
    TypeOK
    FlagsTruthful
    WorkReadCountExact
    HandleCountSound
    PendingExact
    NoForgottenWrite
    NoLimbo
PROPERTY ImplementsLife
\* The process may die, and a session ends.
CHECK_DEADLOCK FALSE
