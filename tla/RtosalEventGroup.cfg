SPECIFICATION Spec
CONSTANTS
    idle = idle
    daemon = daemon
    low = low
    mid = mid
    high = high
    group = group
    queue = queue
    rx = rx
    tx = tx
    NoTask = NoTask
    xListEnd = xListEnd
    Idle = idle
    Daemon = daemon
    Group = group
    TimerQueue = queue
    Tasks <- MCTasks
    uxInitialPriority <- MCPriority
    EventLists <- MCLists
    EventBits <- MCBits
    Requests <- MCRequests
    BitsToSet <- MCToSet
    BitsOfISR <- MCOfISR
    WaitTicks <- MCTicks
    Destroyer = high
    configTIMER_QUEUE_LENGTH = 2
INVARIANTS
    NoMissedEvent
PROPERTIES
    SetsAreBroadcasts
    DaemonIsNotStarved
CHECK_DEADLOCK FALSE
