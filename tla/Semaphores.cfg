SPECIFICATION Spec
CONSTANTS
    Threads = {main, t1, t2, t3}
    MainThread = main
    NULL = NULL
    Sems = {s1, s2}
    Event = s1
    InitialValue <- MCInitialValue
    MaxValue = 2
INVARIANTS
    ReadyExactlyOnce
    FinishedFreedOnce
    NoLostWakeup
PROPERTIES
    ReadyThreadRuns
    
