\* A server with two sessions, one I/O thread, two work threads, and a script that may call back.
SPECIFICATION FairSpec
CONSTANTS
    MaxId = 2
    MaxUnread = 1
    Acc = acc
    Main = main
    io1 = io1
    work1 = work1
    work2 = work2
    IoPool <- OneIo
    WorkPool <- TwoWork
    Nobody = nobody
    CallbacksCall = TRUE
    MainCalls = {"write_message", "close_connection"}
INVARIANTS
    ContextsExact
    InOneMap
PROPERTIES
    EndedSessionsLeave
    StuckStopsAll
    FollowsLife
\* The process may end.
CHECK_DEADLOCK FALSE
