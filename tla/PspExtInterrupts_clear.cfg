CONSTANTS
    Harts <- MCHarts
    Irqs <- OneLine
    EdgeIrqs <- OneLine
    ActiveLow <- None
    MaxPriority = 1
    Owner <- HartOne
    Services <- ClearServices
    Disciplined = TRUE
    Shared <- None
SPECIFICATION FairSpec
CHECK_DEADLOCK FALSE
PROPERTIES
    ClearInHandlerReturns
