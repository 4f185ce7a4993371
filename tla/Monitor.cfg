SPECIFICATION MCSpec
CONSTANTS
    Threads = {t1, t2, t3, t4}
    NULL = NULL
    Items = {a}
    MaxLen = 2
INVARIANTS
    NoMissedSignal
PROPERTIES
    BroadcastWakesAll
    UsesMonitor
    ItemGetsTaken
CHECK_DEADLOCK FALSE
