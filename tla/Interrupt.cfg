SPECIFICATION Spec
CONSTANTS
    Threads = {main, t1, t2}
    MainThread = main
    NULL = NULL
    Timer = timer
    Pollers = {poll}
    Shots = {shot}
    UserTick = 1
    SystemTick = 3
    TimerTicks = 5
    PollTicks = 4
    Delays = {2}
    MaxDepth = 2
INVARIANTS
    HandlersOnTime
    StatusOfCurrent
PROPERTIES
    TimeSlices
