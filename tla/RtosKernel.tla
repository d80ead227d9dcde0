------------------------------ MODULE RtosKernel ------------------------------
(***************************************************************************)
(* The part of the FreeRTOS kernel (tasks.c, list.c) that the objects of   *)
(* rtosal block on: in which list each task is, the tick, the suspension   *)
(* of the scheduler and the event lists.  Its operators are the kernel     *)
(* functions those objects call; the modules of the objects extend it.     *)
(*                                                                         *)
(* A critical section is one step: RtosalPort says when nothing interrupts *)
(* one.  A task's code runs only while the task is ready or has suspended  *)
(* the scheduler itself.  Which ready task runs is left open, so that what *)
(* is shown holds for every priority and every time slice; only the order  *)
(* of the event lists depends on Priority.                                 *)
(***************************************************************************)
EXTENDS RtosLists, FiniteSetsExt

CONSTANTS
    Tasks,
    NoTask,
    Priority,        \* [task -> uxPriority]
    EventLists,      \* the event lists of the objects in use
    TickModulus      \* values of TickType_t, 2^32 in the build

ASSUME KernelAssumption ==
    /\ IsFiniteSet(Tasks) /\ NoTask \notin Tasks
    /\ Priority \in [Tasks -> Nat]
    /\ TickModulus \in Nat /\ TickModulus > 2

portMAX_DELAY == TickModulus - 1
Ticks         == 0 .. portMAX_DELAY

VARIABLES
    xStateListItem,        \* [task -> the list its state item is in]
    xItemValue,            \* [task -> the tick it wakes at, 0 unless it is delayed]
    eventList,             \* [event list -> the tasks that wait in it]
    xPendingReadyList,     \* the tasks woken while the scheduler is suspended
    suspender,             \* the task that has suspended it: uxSchedulerSuspended is 1
                           \* and pxCurrentTCB stays, or NoTask
    xTickCount,
    xNumOfOverflows,       \* its parity
    xNextTaskUnblockTime,
    uxPendedTicks,
    ucDelayAborted         \* [task -> BOOLEAN]

timeVars   == <<xTickCount, xNumOfOverflows, xNextTaskUnblockTime>>
listVars   == <<xStateListItem, xItemValue, eventList, xPendingReadyList>>
kernelVars == <<listVars, timeVars, suspender, uxPendedTicks, ucDelayAborted>>

StateLists == {"ready", "delayed", "overflow", "suspended", "none"}

\* xTaskResumeAll is in its loop over the ticks that were pended: a critical section.
Processing == suspender = NoTask /\ uxPendedTicks > 0

Ready(t)   == xStateListItem[t] = "ready"
CanRun(t)  == \/ suspender = t
              \/ suspender = NoTask /\ ~Processing /\ Ready(t)
Waiting(t) == \E l \in EventLists : \E i \in DOMAIN eventList[l] : eventList[l][i] = t
Pending(t) == \E i \in DOMAIN xPendingReadyList : xPendingReadyList[i] = t

-------------------------------------------------------------------------------
\* After vTaskStartScheduler; configINITIAL_TICK_COUNT is 0.
KernelInit ==
    /\ xStateListItem = [t \in Tasks |-> "ready"]
    /\ xItemValue = [t \in Tasks |-> 0]
    /\ eventList = [l \in EventLists |-> <<>>]
    /\ xPendingReadyList = <<>>
    /\ suspender = NoTask
    /\ xTickCount = 0 /\ xNumOfOverflows = 0
    /\ xNextTaskUnblockTime = portMAX_DELAY
    /\ uxPendedTicks = 0
    /\ ucDelayAborted = [t \in Tasks |-> FALSE]

\* The head of the delayed list, which is sorted by wake time.
prvResetNextTaskUnblockTime(list, wake) ==
    LET delayed == {wake[t] : t \in {u \in Tasks : list[u] = "delayed"}}
    IN  IF delayed = {} THEN portMAX_DELAY ELSE Min(delayed)

vTaskSuspendAll(t) ==
    /\ suspender = NoTask
    /\ suspender' = t

\* taskSWITCH_DELAYED_LISTS
taskSWITCH_DELAYED_LISTS ==
    [t \in Tasks |-> CASE xStateListItem[t] = "delayed" -> "overflow"
                       [] xStateListItem[t] = "overflow" -> "delayed"
                       [] OTHER -> xStateListItem[t]]

\* xTaskIncrementTick while the scheduler runs: the tasks whose time has come
\* leave the delayed list and their event list.
xTaskIncrementTick ==
    LET now   == (xTickCount + 1) % TickModulus
        list  == IF now = 0 THEN taskSWITCH_DELAYED_LISTS ELSE xStateListItem
        next  == IF now = 0 THEN prvResetNextTaskUnblockTime(list, xItemValue)
                            ELSE xNextTaskUnblockTime
        due   == {t \in Tasks : /\ now >= next
                                /\ list[t] = "delayed" /\ xItemValue[t] <= now}
        after == [t \in Tasks |-> IF t \in due THEN "ready" ELSE list[t]]
    IN  /\ xTickCount' = now
        /\ xNumOfOverflows' = IF now = 0 THEN 1 - xNumOfOverflows ELSE xNumOfOverflows
        /\ xStateListItem' = after
        /\ xItemValue' = [t \in Tasks |-> IF t \in due THEN 0 ELSE xItemValue[t]]
        /\ eventList' = [l \in EventLists |-> Drop(eventList[l], due)]
        /\ xNextTaskUnblockTime' =
               IF now >= next THEN prvResetNextTaskUnblockTime(after, xItemValue) ELSE next

\* xTaskRemoveFromEventList as long as there is a waiter, at most n times: to the
\* ready list, or to the pending list while the scheduler is suspended.
RemoveFromEventList(l, n) ==
    LET k     == IF n < Len(eventList[l]) THEN n ELSE Len(eventList[l])
        woken == {eventList[l][i] : i \in 1 .. k}
    IN  /\ eventList' = [eventList EXCEPT ![l] = SubSeq(@, k + 1, Len(@))]
        /\ IF suspender = NoTask
           THEN /\ xStateListItem' = [t \in Tasks |-> IF t \in woken THEN "ready"
                                                      ELSE xStateListItem[t]]
                /\ xItemValue' = [t \in Tasks |-> IF t \in woken THEN 0
                                                  ELSE xItemValue[t]]
                /\ UNCHANGED xPendingReadyList
           ELSE /\ xPendingReadyList' = xPendingReadyList \o SubSeq(eventList[l], 1, k)
                /\ UNCHANGED <<xStateListItem, xItemValue>>

\* vListInsert: behind the waiters of the same or a higher priority.
InsertByPriority(s, t) ==
    LET n == Cardinality({i \in DOMAIN s : Priority[s[i]] >= Priority[t]})
    IN  SubSeq(s, 1, n) \o <<t>> \o SubSeq(s, n + 1, Len(s))

\* Mutant: the next time to unblock a task is not brought forward.
PlaceOnEventListLate(t, l, ticks) ==
    LET wake == (xTickCount + ticks) % TickModulus
        list == IF ticks = portMAX_DELAY THEN "suspended"
                ELSE IF wake < xTickCount THEN "overflow" ELSE "delayed"
    IN  /\ eventList' = [eventList EXCEPT ![l] = InsertByPriority(@, t)]
        /\ ucDelayAborted' = [ucDelayAborted EXCEPT ![t] = FALSE]
        /\ xStateListItem' = [xStateListItem EXCEPT ![t] = list]
        /\ xItemValue' = [xItemValue EXCEPT ![t] = IF list = "suspended" THEN 0 ELSE wake]
        /\ UNCHANGED xNextTaskUnblockTime

\* vTaskPlaceOnEventList and prvAddCurrentTaskToDelayedList: a wait without end
\* is in the suspended list, one that ends after the tick count wraps in the
\* overflow list.
vTaskPlaceOnEventList(t, l, ticks) ==
    LET wake == (xTickCount + ticks) % TickModulus
        list == IF ticks = portMAX_DELAY THEN "suspended"
                ELSE IF wake < xTickCount THEN "overflow" ELSE "delayed"
    IN  /\ eventList' = [eventList EXCEPT ![l] = InsertByPriority(@, t)]
        /\ ucDelayAborted' = [ucDelayAborted EXCEPT ![t] = FALSE]
        /\ xStateListItem' = [xStateListItem EXCEPT ![t] = list]
        /\ xItemValue' = [xItemValue EXCEPT ![t] = IF list = "suspended" THEN 0 ELSE wake]
        /\ xNextTaskUnblockTime' = IF list = "delayed" /\ wake < xNextTaskUnblockTime
                                   THEN wake ELSE xNextTaskUnblockTime

\* xTaskResumeAll up to its loop over the pended ticks.
ResumeAll ==
    LET woken == {xPendingReadyList[i] : i \in DOMAIN xPendingReadyList}
        list  == [t \in Tasks |-> IF t \in woken THEN "ready" ELSE xStateListItem[t]]
    IN  /\ suspender' = NoTask
        /\ xPendingReadyList' = <<>>
        /\ xStateListItem' = list
        /\ xItemValue' = [t \in Tasks |-> IF t \in woken THEN 0 ELSE xItemValue[t]]
        /\ xNextTaskUnblockTime' = IF woken = {} THEN xNextTaskUnblockTime
                                   ELSE prvResetNextTaskUnblockTime(list, xItemValue)

\* One round of that loop.
ProcessPendedTick ==
    /\ Processing
    /\ xTaskIncrementTick
    /\ uxPendedTicks' = uxPendedTicks - 1
    /\ UNCHANGED <<xPendingReadyList, suspender, ucDelayAborted>>

\* The tick interrupt.
TickInterrupt ==
    /\ ~Processing
    /\ IF suspender = NoTask
       THEN xTaskIncrementTick /\ UNCHANGED uxPendedTicks
       ELSE /\ uxPendedTicks' = uxPendedTicks + 1
            /\ UNCHANGED <<xStateListItem, xItemValue, eventList, timeVars>>
    /\ UNCHANGED <<xPendingReadyList, suspender, ucDelayAborted>>

\* xTaskCheckForTimeOut, for a call that has `ticks` left of those it had when
\* the tick count was `entering` with overflow parity `count`.
Elapsed(entering) == (xTickCount - entering) % TickModulus

TimedOut(ticks, entering, count) ==
    /\ ticks # portMAX_DELAY
    /\ \/ xNumOfOverflows # count /\ xTickCount >= entering
       \/ Elapsed(entering) >= ticks

\* eTaskGetState(t) = eBlocked: a wait without end shows by its event item only.
Blocked(t) == \/ xStateListItem[t] \in {"delayed", "overflow"}
              \/ xStateListItem[t] = "suspended" /\ (Waiting(t) \/ Pending(t))

\* xTaskAbortDelay of a blocked task: its state item first, then, in a critical
\* section, the event item, which an interrupt may have moved meanwhile.
AbortState(t) ==
    /\ xStateListItem' = [xStateListItem EXCEPT ![t] = "none"]
    /\ xItemValue' = [xItemValue EXCEPT ![t] = 0]

\* Mutant: an event item that an interrupt has moved to the pending list stays there.
AbortWaitingOnly(t) ==
    /\ ucDelayAborted' = [ucDelayAborted EXCEPT ![t] = @ \/ Waiting(t)]
    /\ eventList' = [l \in EventLists |-> Without(eventList[l], t)]
    /\ UNCHANGED xPendingReadyList
    /\ xStateListItem' = [xStateListItem EXCEPT ![t] = "ready"]

AbortEvent(t) ==
    /\ ucDelayAborted' = [ucDelayAborted EXCEPT ![t] = @ \/ Waiting(t) \/ Pending(t)]
    /\ eventList' = [l \in EventLists |-> Without(eventList[l], t)]
    /\ xPendingReadyList' = Without(xPendingReadyList, t)
    /\ xStateListItem' = [xStateListItem EXCEPT ![t] = "ready"]
-------------------------------------------------------------------------------
KernelTypeOK ==
    /\ xStateListItem \in [Tasks -> StateLists]
    /\ xItemValue \in [Tasks -> Ticks]
    /\ eventList \in [EventLists -> Seq(Tasks)]
    /\ xPendingReadyList \in Seq(Tasks)
    /\ suspender \in Tasks \cup {NoTask}
    /\ xTickCount \in Ticks /\ xNumOfOverflows \in {0, 1}
    /\ xNextTaskUnblockTime \in Ticks
    /\ uxPendedTicks \in Nat
    /\ ucDelayAborted \in [Tasks -> BOOLEAN]
===============================================================================
