\* Two delimiters, one the end of the other as \n is of \r\n, that overlap with false starts of themselves.
SPECIFICATION FairSpec
CONSTANTS
    Chars = {"a", "n", "x"}
    Delimiters <- Overlapping
    MaxFrameLength = 2
    Strip = TRUE
    MaxWire = 6
INVARIANTS
    TypeOK
    StreamKept
    CutAtFirst
PROPERTIES
    AllPassedOn
    HoldsTheThread
\* The peer stops sending.
CHECK_DEADLOCK FALSE
