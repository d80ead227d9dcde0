CONSTANTS
    Harts <- MCHarts
    Irqs <- TwoLines
    EdgeIrqs <- None
    ActiveLow <- Line4
    MaxPriority = 1
    Owner <- SplitOwner
    Services <- SetUpServices
    Disciplined = TRUE
    Shared <- None
SPECIFICATION Spec
INVARIANTS
    InterruptsComeBack
    HandlerFound
    ClaimIsCurrent
