---------------------------- MODULE MCRtosalTask ----------------------------
(***************************************************************************)
(* Two tasks and a semaphore.  The first creates the other.                *)
(***************************************************************************)
EXTENDS RtosalTask

CONSTANTS idle, main, work, sem

MCTasks      == {idle, main, work}
MCPriority   == [t \in MCTasks |-> IF t = idle THEN 0 ELSE 1]
MCEventLists == {sem}
MCCount      == [o \in {sem} |-> 1]
MCInitial    == [o \in {sem} |-> 0]
MCUses       == [t \in MCTasks |-> {sem}]
MCWaitTicks  == [t \in MCTasks |-> {1, Forever}]
MCStarted    == {idle, main}
MCCalls      == [t \in MCTasks |->
    IF t = main THEN {"create", "destroy", "suspend", "resume", "priority", "abort", "yield"}
    ELSE {"destroy", "suspend", "sleep", "priority"}]
=============================================================================
