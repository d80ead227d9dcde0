SPECIFICATION Spec
CONSTANTS
    periodic = periodic
    once = once
    NoTimer = NoTimer
    Timers <- MCTimers
    uxAutoReload <- MCReload
    InitialPeriod <- MCPeriod
    NewPeriods = {1, 2}
    Services <- MCServices
    configTIMER_QUEUE_LENGTH = 2
    Wrap = 8
    MaxLate = 2
PROPERTY EveryTimerExpires
CHECK_DEADLOCK FALSE
