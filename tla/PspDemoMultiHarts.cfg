CONSTANTS
    Harts <- MCHarts
    BootHart = 0
    NumMutexes = 1
    NULL = NULL
    Disciplined = FALSE
    Iterations = 3
    ArraySize = 2
    TimerInterrupts <- MCTimerInterrupts
SPECIFICATION DemoSpec
CHECK_DEADLOCK FALSE
INVARIANTS
    SyncPointsAreBarriers
    NoIncrementIsLost
PROPERTIES
    DemoEnds
