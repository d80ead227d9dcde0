--------------------------- MODULE MCRtosalMutex ---------------------------
(***************************************************************************)
(* Three tasks of three priorities, a mutex and a semaphore of one         *)
(* instance.                                                               *)
(***************************************************************************)
EXTENDS RtosalMutex

CONSTANTS idle, low, mid, high, mutex, sem

MCTasks      == {idle, low, mid, high}
MCPriority   == [t \in MCTasks |-> CASE t = high -> 2 [] t = mid -> 1 [] OTHER -> 0]
MCEventLists == {mutex, sem}
MCMutexes    == {mutex}
MCMaxCount   == [o \in {sem} |-> 1]
MCInitial    == [o \in {sem} |-> 0]
MCUses       == [t \in MCTasks |-> IF t = low THEN {mutex} ELSE {mutex, sem}]
MCWaitTicks  == [t \in MCTasks |-> {1, Forever}]
=============================================================================
