CONSTANTS
    Harts <- MCHarts
    Irqs <- OneLine
    EdgeIrqs <- None
    ActiveLow <- None
    MaxPriority = 1
    Owner <- HartOne
    Services <- SetUpServices
    Disciplined = TRUE
    Shared <- Disabling
SPECIFICATION Spec
CHECK_DEADLOCK FALSE
INVARIANTS
    HandlerFound
