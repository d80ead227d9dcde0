SPECIFICATION TaskSpec
CONSTANTS
    idle = idle
    main = main
    work = work
    sem = sem
    NoTask = NoTask
    xListEnd = xListEnd
    Idle = idle
    Tasks <- MCTasks
    uxInitialPriority <- MCPriority
    EventLists <- MCEventLists
    Mutexes = {}
    uxMaxCount <- MCCount
    iInitialCount <- MCInitial
    Uses <- MCUses
    WaitTicks <- MCWaitTicks
    Nested = FALSE
    MaxPendedTicks = 1
    MaxLockedGives = 1
    Started <- MCStarted
    Calls <- MCCalls
    SleepTicks = {1}
INVARIANTS
    ListsExact
    HighestRuns
PROPERTIES
    StaysSuspended
CHECK_DEADLOCK FALSE
