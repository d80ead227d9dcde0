----------------------------- MODULE MCRtosalQueue -----------------------------
(***************************************************************************)
(* Instances of RtosalQueue: two tasks of different priority that receive  *)
(* with different timeouts, one of which also sends, for as long as it     *)
(* takes, and is aborted by the other.  The tick count has two bits; its   *)
(* largest value is a wait without end.                                    *)
(***************************************************************************)
EXTENDS RtosalQueue, TLC

CONSTANTS t1, t2, a, b

MCTasks      == {t1, t2}
MCPriority   == t1 :> 1 @@ t2 :> 2
MCEventLists == {"xTasksWaitingToSend", "xTasksWaitingToReceive"}
MCItems      == {a, b}
MCRequests   == t1 :> {<<"receive", 2>>, <<"send", portMAX_DELAY>>} @@ t2 :> {<<"receive", 1>>}
MCAborts     == t1 :> {} @@ t2 :> {t1}

\* The overflow parity matters only where a call has recorded one, and a slot that
\* holds no message is not read before it is written.
View ==
    <<listVars, xTickCount, xNextTaskUnblockTime, suspender, uxPendedTicks, ucDelayAborted,
      Contents, pcWriteTo, pcReadFrom, lockVars, pc, clock, aborted, transfer,
      [t \in Tasks |-> [call[t] EXCEPT !.count =
          IF call[t].set /\ @ # xNumOfOverflows THEN 1 ELSE 0]]>>

Symmetry == Permutations(MCItems)
===============================================================================
