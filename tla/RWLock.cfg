\* A reader inside, a writer awake, one asleep and two newcomers; fair holders and woken threads.
SPECIFICATION FairSpec
CONSTANT Threads = {t1, t2, t3, t4, t5}
INVARIANTS
    CountersExact
    NoLostWakeup
PROPERTIES
    ImplementsPromise
    SomeWriterGetsIn
    ReadersGetInAfterWriters
