\* Wheels of 2, 2 and 2 spokes: intervals on both sides of every threshold, a lag of several turns.
SPECIFICATION Spec
CONSTANTS
    Granularity = 2
    Size1 = 2
    Size2 = 2
    WheelNum = 3
    Intervals = {0, 5, 17}
    MaxTasks = 2
    MaxNow = 18
    MaxLag = 6
INVARIANTS
    TypeOK
    OneHome
    NoneOverdue
PROPERTY
    EarlyOnlyByLag
\* The clock stops at its bound.
CHECK_DEADLOCK FALSE
