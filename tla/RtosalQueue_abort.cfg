CONSTANTS
    t1 = t1  t2 = t2  a = a  b = b
    NoTask = NoTask
    Tasks <- MCTasks
    Priority <- MCPriority
    EventLists <- MCEventLists
    Items <- MCItems
    Requests <- MCRequests
    Aborts <- MCAborts
    TickModulus = 4
    uxLength = 2
    MaxLock = 1
    MaxPended = 1
    MaxElapsed = 3
SPECIFICATION Spec
SYMMETRY Symmetry
VIEW View
PROPERTY EmptyMeansWindowPassed
