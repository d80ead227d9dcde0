CONSTANTS
    Harts <- MCHarts
    Irqs <- OneLine
    EdgeIrqs <- OneLine
    ActiveLow <- OneLine
    MaxPriority = 1
    Owner <- HartOne
    Services <- EdgeServices
    Disciplined = TRUE
    Shared <- Gateway
SPECIFICATION FairSpec
CHECK_DEADLOCK FALSE
INVARIANTS
    PicSectionsExclude
    GatewaysKeepRequests
PROPERTIES
    InterruptsAreServed
