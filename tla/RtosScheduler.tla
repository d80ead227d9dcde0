---------------------------- MODULE RtosScheduler ----------------------------
(***************************************************************************)
(* The FreeRTOS scheduler (tasks.c, list.c): the ready list of each        *)
(* priority with its round robin, the bit map of the priorities that have  *)
(* ready tasks, which task runs, what makes it yield, inherited            *)
(* priorities, the suspension of the scheduler and the delayed and event   *)
(* lists.                                                                  *)
(*                                                                         *)
(* The scheduler's variables are one record, k.  An operator is a kernel   *)
(* function: it maps the record before the call to the one after it, so    *)
(* that a caller composes them in the order the code calls them.  A yield  *)
(* is an ecall that switches at once, in a critical section too, so it is  *)
(* the last thing an operator does.                                        *)
(*                                                                         *)
(* Time is relative: the wake time of a delayed task, and what is left of  *)
(* the time-out a task has set (TimeOut_t with its ticks to wait), count   *)
(* the ticks to come.  The tick count itself, its overflow and the cached next unblock  *)
(* time are in RtosKernel, which leaves open which ready task runs.        *)
(***************************************************************************)
EXTENDS RtosLists, SequencesExt

CONSTANTS
    Tasks,
    Idle,            \* the idle task, always ready
    NoTask,
    uxInitialPriority,   \* [task -> the priority it is created with]
    EventLists,      \* the event lists of the objects in use
    xListEnd         \* the end marker of a list

configMAX_PRIORITIES == 3
tskIDLE_PRIORITY     == 0
Priorities           == 0 .. configMAX_PRIORITIES - 1

ASSUME SchedulerAssumption ==
    /\ IsFiniteSet(Tasks)
    /\ Idle \in Tasks /\ NoTask \notin Tasks /\ xListEnd \notin Tasks
    /\ uxInitialPriority \in [Tasks -> Priorities]
    /\ uxInitialPriority[Idle] = tskIDLE_PRIORITY

Forever == -1        \* portMAX_DELAY: a wait that no tick ends
-------------------------------------------------------------------------------
(***************************************************************************)
(* A ready list is a ring with an index.  It is written from the item      *)
(* behind the index round to the index, which stands last.                 *)
(***************************************************************************)
EmptyRing == <<xListEnd>>

\* vListInsertEnd: before the index, so as the last to be selected.
RingInsert(r, t) == InsertAt(r, Len(r), t)

\* listGET_OWNER_OF_NEXT_ENTRY: the index moves on, over the end marker.
RingNext(r) == IF Last(Turn(r)) = xListEnd THEN Turn(Turn(r)) ELSE Turn(r)

ReadyAt(k, p) == Members(k.ready[p]) \ {xListEnd}
Ready(k, t)   == t \in ReadyAt(k, k.uxPriority[t])
Waiting(k, t) == \E l \in EventLists : t \in Members(k.event[l])
Pending(k, t) == t \in Members(k.pendingReady)

\* Mutant: the bit of a priority that has no ready task any more stays.
BitStays(k, p) == k

\* taskRESET_READY_PRIORITY
taskRESET_READY_PRIORITY(k, p) ==
    IF k.ready[p] = EmptyRing THEN [k EXCEPT !.uxTopReadyPriority = @ \ {p}] ELSE k

\* prvAddTaskToReadyList
prvAddTaskToReadyList(k, t) ==
    [k EXCEPT !.uxTopReadyPriority = @ \cup {k.uxPriority[t]},
              !.ready[k.uxPriority[t]] = RingInsert(@, t)]

\* uxListRemove of the state item, from whichever list it is in.  The index of
\* a ready list that pointed to it points to the item before it.
RemoveStateItem(k, t) ==
    [k EXCEPT !.ready = [p \in Priorities |-> Without(@[p], t)],
              !.delayed = Without(@, t),
              !.suspended = @ \ {t}]

\* uxListRemove of the event item.
RemoveEventItem(k, t) ==
    [k EXCEPT !.event = [l \in EventLists |-> Without(@[l], t)],
              !.pendingReady = Without(@, t)]

MakeReady(k, t) == prvAddTaskToReadyList(RemoveStateItem(k, t), t)

\* vListInsert into an event list: before the first item of a lower priority.
InsertByPriority(k, s, t) ==
    LET i == SelectInSeq(s, LAMBDA u : k.eventPriority[u] < k.eventPriority[t])
    IN  IF i = 0 THEN Append(s, t) ELSE InsertAt(s, i, t)

\* vListInsert into the delayed list: behind those that wake no later.
InsertByWake(k, t) ==
    LET i == SelectInSeq(k.delayed, LAMBDA u : k.wake[u] > k.wake[t])
    IN  IF i = 0 THEN Append(k.delayed, t) ELSE InsertAt(k.delayed, i, t)
-------------------------------------------------------------------------------
\* After the creation of the tasks of S and vTaskStartScheduler: the last created
\* of the highest priority runs.  A task in no list does not exist.
SchedulerInit(S, order) ==
    LET empty == [ready |-> [p \in Priorities |-> EmptyRing],
                  uxTopReadyPriority |-> {},
                  pxCurrentTCB |-> Idle,
                  uxPriority |-> uxInitialPriority,
                  uxBasePriority |-> uxInitialPriority,
                  uxMutexesHeld |-> [t \in Tasks |-> 0],
                  eventPriority |-> uxInitialPriority,
                  delayed |-> <<>>, wake |-> [t \in Tasks |-> 0],
                  left |-> [t \in Tasks |-> 0],
                  suspended |-> {},
                  event |-> [l \in EventLists |-> <<>>],
                  pendingReady |-> <<>>,
                  uxSchedulerSuspended |-> 0, uxPendedTicks |-> 0,
                  xYieldPending |-> FALSE,
                  ucDelayAborted |-> [t \in Tasks |-> FALSE],
                  halted |-> FALSE]
        alive == Drop(order, Tasks \ S)
        lower == {t \in S : \E u \in S : uxInitialPriority[u] > uxInitialPriority[t]}
        added[n \in 0 .. Len(alive)] ==
            IF n = 0 THEN empty ELSE prvAddTaskToReadyList(added[n - 1], alive[n])
    IN  [added[Len(alive)] EXCEPT !.pxCurrentTCB = Last(Drop(alive, lower))]

\* configASSERT: interrupts off and an endless loop.
Halt(k) == [k EXCEPT !.halted = TRUE]

\* vTaskSwitchContext and taskSELECT_HIGHEST_PRIORITY_TASK: the highest bit of the
\* map, and the next task of its ready list, which the code asserts not to be empty.
vTaskSwitchContext(k) ==
    IF k.uxSchedulerSuspended # 0 THEN [k EXCEPT !.xYieldPending = TRUE]
    ELSE LET p == Max(k.uxTopReadyPriority)
             r == RingNext(k.ready[p])
         IN  IF ReadyAt(k, p) = {} THEN Halt(k)
             ELSE [k EXCEPT !.xYieldPending = FALSE, !.ready[p] = r, !.pxCurrentTCB = Last(r)]

YieldIf(condition, k) == IF condition THEN vTaskSwitchContext(k) ELSE k

vTaskSuspendAll(k) == [k EXCEPT !.uxSchedulerSuspended = @ + 1]

\* prvAddCurrentTaskToDelayedList
prvAddCurrentTaskToDelayedList(k, ticks) ==
    LET t == k.pxCurrentTCB
        j == [taskRESET_READY_PRIORITY(RemoveStateItem(k, t), k.uxPriority[t])
                  EXCEPT !.ucDelayAborted[t] = FALSE]
        w == [j EXCEPT !.wake[t] = ticks]
    IN  IF ticks = Forever THEN [j EXCEPT !.suspended = @ \cup {t}]
        ELSE [w EXCEPT !.delayed = InsertByWake(w, t)]

\* vTaskPlaceOnEventList
vTaskPlaceOnEventList(k, l, ticks) ==
    prvAddCurrentTaskToDelayedList(
        [k EXCEPT !.event[l] = InsertByPriority(k, @, k.pxCurrentTCB)], ticks)

\* xTaskRemoveFromEventList of a list with a waiter, and what it returns: whether
\* the task it wakes has a higher priority than the one that runs.
WakesHigher(k, l) == k.uxPriority[Head(k.event[l])] > k.uxPriority[k.pxCurrentTCB]

xTaskRemoveFromEventList(k, l) ==
    LET t == Head(k.event[l])
        j == [k EXCEPT !.event[l] = Tail(@), !.xYieldPending = @ \/ WakesHigher(k, l)]
    IN  IF k.uxSchedulerSuspended = 0 THEN MakeReady(j, t)
        ELSE [j EXCEPT !.pendingReady = Append(@, t)]

\* xTaskCheckForTimeOut: an aborted wait has timed out, whatever is left of it.
TimedOut(k, t) == k.ucDelayAborted[t] \/ k.left[t] = 0

xTaskCheckForTimeOut(k, t) == [k EXCEPT !.ucDelayAborted[t] = FALSE]
-------------------------------------------------------------------------------
\* xTaskIncrementTick with the scheduler running.  It asks for a switch, left in
\* xYieldPending, if a task it wakes is no lower than the one that runs or another
\* task shares the priority of that one.
TimeOut(k, t) == MakeReady(RemoveEventItem(k, t), t)

TimeOutAll(k, due) ==
    LET after[n \in 0 .. Len(due)] == IF n = 0 THEN k ELSE TimeOut(after[n - 1], due[n])
    IN  after[Len(due)]

\* One tick passes for the delayed tasks and for the time-outs that are set.
Passed(k) ==
    [k EXCEPT !.wake = [t \in Tasks |-> IF t \in Members(k.delayed) THEN @[t] - 1 ELSE 0],
              !.left = [t \in Tasks |-> IF @[t] > 0 THEN @[t] - 1 ELSE @[t]]]

Due(k) == Drop(k.delayed, {t \in Tasks : k.wake[t] > 0})

\* Mutant: tasks of the same priority do not share the time.
ProcessTickUnsliced(k) ==
    LET now == Passed(k)
        due == Due(now)
    IN  [TimeOutAll(now, due) EXCEPT !.xYieldPending =
            \/ @
            \/ \E t \in Members(due) : k.uxPriority[t] > k.uxPriority[k.pxCurrentTCB]]

ProcessTick(k) ==
    LET now == Passed(k)
        due == Due(now)
        j   == TimeOutAll(now, due)
        own == k.uxPriority[k.pxCurrentTCB]
    IN  [j EXCEPT !.xYieldPending =
            \/ @
            \/ \E t \in Members(due) : k.uxPriority[t] >= own
            \/ Cardinality(ReadyAt(j, own)) > 1]

\* The tick interrupt: xTaskIncrementTick, and the switch on the way out of the trap.
TickInterrupt(k) ==
    IF k.uxSchedulerSuspended # 0 THEN [k EXCEPT !.uxPendedTicks = @ + 1]
    ELSE LET j == ProcessTick(k) IN YieldIf(j.xYieldPending, j)

\* xTaskResumeAll up to its yield: the tasks that were woken meanwhile, then the
\* ticks that were pended.
MovePending(k, t) ==
    LET j == MakeReady(RemoveEventItem(k, t), t)
    IN  [j EXCEPT !.xYieldPending = @ \/ k.uxPriority[t] >= k.uxPriority[k.pxCurrentTCB]]

MoveAllPending(k) ==
    LET after[n \in 0 .. Len(k.pendingReady)] ==
            IF n = 0 THEN k ELSE MovePending(after[n - 1], k.pendingReady[n])
    IN  after[Len(k.pendingReady)]

ProcessTicks(k, ticks) ==
    LET after[n \in 0 .. ticks] == IF n = 0 THEN k ELSE ProcessTick(after[n - 1])
    IN  after[ticks]

ResumeAll(k) ==
    LET open == [k EXCEPT !.uxSchedulerSuspended = @ - 1]
    IN  IF open.uxSchedulerSuspended # 0 THEN open
        ELSE [ProcessTicks(MoveAllPending(open), k.uxPendedTicks) EXCEPT !.uxPendedTicks = 0]

\* Mutant: a switch that became due during the suspension is dropped.
ResumeWithoutYield(k) == [ResumeAll(k) EXCEPT !.xYieldPending = FALSE]

\* xTaskResumeAll alone, and followed by the yield of a caller that has blocked.
xTaskResumeAll(k)  == LET j == ResumeAll(k) IN YieldIf(j.xYieldPending, j)
ResumeAndYield(k)  == vTaskSwitchContext(ResumeAll(k))

-------------------------------------------------------------------------------
\* A task that is ready moves to the ready list of its new priority.
MoveReady(k, t, p) ==
    IF Ready(k, t)
    THEN LET j == taskRESET_READY_PRIORITY(RemoveStateItem(k, t), k.uxPriority[t])
         IN  prvAddTaskToReadyList([j EXCEPT !.uxPriority[t] = p], t)
    ELSE [k EXCEPT !.uxPriority[t] = p]

\* xTaskPriorityInherit, called by the running task, and what it returns.
xTaskPriorityInherit(k, holder) ==
    LET p == k.uxPriority[k.pxCurrentTCB]
    IN  IF holder # NoTask /\ k.uxPriority[holder] < p
        THEN MoveReady([k EXCEPT !.eventPriority[holder] = p], holder, p)
        ELSE k

InheritanceOccurred(k, holder) ==
    /\ holder # NoTask
    /\ \/ k.uxPriority[holder] < k.uxPriority[k.pxCurrentTCB]
       \/ k.uxBasePriority[holder] < k.uxPriority[k.pxCurrentTCB]

\* xTaskPriorityDisinherit, called by the task that gives the mutex, which must be
\* its holder, and what it returns.
\* Mutant: the mutex that is given counts among those the task still holds.
DisinheritsTooLate(k, holder) ==
    /\ holder # NoTask
    /\ k.uxPriority[holder] # k.uxBasePriority[holder]
    /\ k.uxMutexesHeld[holder] = 0

DisinheritYields(k, holder) ==
    /\ holder # NoTask
    /\ k.uxPriority[holder] # k.uxBasePriority[holder]
    /\ k.uxMutexesHeld[holder] = 1

xTaskPriorityDisinherit(k, holder) ==
    LET j == [k EXCEPT !.uxMutexesHeld[holder] = @ - 1]
        b == k.uxBasePriority[holder]
    IN  CASE holder = NoTask -> k
          [] holder # NoTask /\ (holder # k.pxCurrentTCB \/ k.uxMutexesHeld[holder] = 0) ->
                 Halt(k)
          [] OTHER -> IF DisinheritYields(k, holder)
                      THEN [MoveReady(j, holder, b) EXCEPT !.eventPriority[holder] = b]
                      ELSE j

\* vTaskPriorityDisinheritAfterTimeout.  The bit that is reset when a ready list
\* becomes empty is that of the new priority.
vTaskPriorityDisinheritAfterTimeout(k, holder, highestWaiting) ==
    LET b == k.uxBasePriority[holder]
        p == IF b < highestWaiting THEN highestWaiting ELSE b
        j == [k EXCEPT !.uxPriority[holder] = p, !.eventPriority[holder] = p]
    IN  CASE holder = NoTask -> k
          [] holder # NoTask /\ k.uxMutexesHeld[holder] = 0 -> Halt(k)
          [] OTHER ->
                 IF k.uxPriority[holder] = p \/ k.uxMutexesHeld[holder] # 1 THEN k
                 ELSE IF holder = k.pxCurrentTCB THEN Halt(k)
                 ELSE IF Ready(k, holder)
                 THEN prvAddTaskToReadyList(
                          taskRESET_READY_PRIORITY(RemoveStateItem(j, holder), p), holder)
                 ELSE j
-------------------------------------------------------------------------------
(***************************************************************************)
(* What the kernel functions keep of the record.                           *)
(***************************************************************************)
KernelType ==
    [ready : [Priorities -> Seq(Tasks \cup {xListEnd})], uxTopReadyPriority : SUBSET Priorities,
     pxCurrentTCB : Tasks, uxPriority : [Tasks -> Priorities],
     uxBasePriority : [Tasks -> Priorities], uxMutexesHeld : [Tasks -> Int],
     eventPriority : [Tasks -> Priorities], delayed : Seq(Tasks), wake : [Tasks -> Int],
     left : [Tasks -> Int], suspended : SUBSET Tasks, event : [EventLists -> Seq(Tasks)],
     pendingReady : Seq(Tasks), uxSchedulerSuspended : Nat, uxPendedTicks : Nat,
     xYieldPending : BOOLEAN, ucDelayAborted : [Tasks -> BOOLEAN], halted : BOOLEAN]

ReadyTasks(k)   == {t \in Tasks : Ready(k, t)}
BlockedTasks(k) == Members(k.delayed) \cup k.suspended

\* The ready list of p is a ring through its end marker, the tasks in it have priority p,
\* and the bit of p says whether there are any.
RingOK(k, p) ==
    /\ Distinct(k.ready[p]) /\ xListEnd \in Members(k.ready[p])
    /\ p \in k.uxTopReadyPriority <=> ReadyAt(k, p) # {}
    /\ \A t \in ReadyAt(k, p) : k.uxPriority[t] = p

\* A state item is in one list.
StateItemsOK(k) ==
    /\ \A p \in Priorities : RingOK(k, p)
    /\ Distinct(k.delayed)
    /\ ReadyTasks(k) \cap BlockedTasks(k) = {}
    /\ Members(k.delayed) \cap k.suspended = {}

\* An event item is in one list, that of an object or the pending list.
EventItemsOK(k) ==
    /\ Distinct(k.pendingReady)
    /\ \A l \in EventLists : Distinct(k.event[l])
    /\ \A l \in EventLists : Members(k.event[l]) \cap Members(k.pendingReady) = {}
    /\ \A l, m \in EventLists : l # m => Members(k.event[l]) \cap Members(k.event[m]) = {}

KernelOK(k) == k \in KernelType /\ StateItemsOK(k) /\ EventItemsOK(k)

\* The tasks in an event list or the pending list are blocked.
WaitersAreBlocked(k) ==
    /\ Members(k.pendingReady) \subseteq BlockedTasks(k)
    /\ \A l \in EventLists : Members(k.event[l]) \subseteq BlockedTasks(k)
===============================================================================
