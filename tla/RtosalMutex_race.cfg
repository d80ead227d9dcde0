SPECIFICATION Spec
CONSTANTS
    idle = idle
    low = low
    mid = mid
    high = high
    mutex = mutex
    sem = sem
    NoTask = NoTask
    xListEnd = xListEnd
    Idle = idle
    Tasks <- MCTasks
    uxInitialPriority <- MCPriority
    EventLists <- MCEventLists
    Mutexes <- MCMutexes
    uxMaxCount <- MCMaxCount
    iInitialCount <- MCInitial
    Uses <- MCUses
    WaitTicks <- MCWaitTicks
    Nested = FALSE
    MaxPendedTicks = 1
    MaxLockedGives = 2
INVARIANTS
    NoInheritanceAtZero
CHECK_DEADLOCK FALSE
