--------------------------- MODULE MCRtosalEventGroup ---------------------------
(***************************************************************************)
(* Two waiters and a task that sets bits, at the priority of the daemon.   *)
(***************************************************************************)
EXTENDS RtosalEventGroup

CONSTANTS idle, daemon, low, mid, high, group, queue, rx, tx

MCTasks    == {idle, daemon, low, mid, high}
MCPriority == [t \in MCTasks |-> CASE t \in {high, daemon} -> 2 [] t = mid -> 1 [] OTHER -> 0]
MCLists    == {group, queue}
MCBits     == {rx, tx}
Request(bits, all, clear) == [waitFor |-> bits, all |-> all, clear |-> clear]
MCUsers    == {low, mid, high}
MCRequests == [t \in MCUsers |->
    CASE t = low  -> {Request({rx, tx}, TRUE, TRUE)}
      [] t = mid  -> {Request({rx}, FALSE, TRUE), Request({rx, tx}, FALSE, FALSE)}
      [] t = high -> {Request({tx}, TRUE, TRUE)}]
MCToSet    == [t \in MCUsers |-> CASE t = low -> {{tx}} [] t = mid -> {} [] t = high -> {{rx}, {rx, tx}}]
MCOfISR    == {{rx}, {tx}}
MCTicks    == {1, Forever}
===============================================================================
