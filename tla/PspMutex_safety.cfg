CONSTANTS
    Harts <- MCHarts
    BootHart = 0
    NumMutexes = 2
    NULL = NULL
    Disciplined = TRUE
SPECIFICATION FairSpec
INVARIANTS
    BlocksMatchHandles
    CreateReturnsFreshMutex
    HoldersExclude
PROPERTIES
    ImplementsMutexService
    HeapLockStarvesOnlyUnderTraffic
