----------------------------- MODULE RtosalMutex -----------------------------
(***************************************************************************)
(* Mutexes and semaphores of the RTOS abstraction layer (rtosal_mutex.c,   *)
(* rtosal_semaphore.c) on the queues without items of FreeRTOS (queue.c):  *)
(* taking with a time-out, priority inheritance and its end, giving, the   *)
(* calls from interrupt handlers, under the scheduler of RtosScheduler.    *)
(*                                                                         *)
(* A step is a critical section, or what the running task does with the    *)
(* scheduler suspended before the next point where an interrupt matters.   *)
(* Only the task the scheduler has chosen takes steps; the tick and the    *)
(* interrupts come between any two of them.                                *)
(***************************************************************************)
EXTENDS RtosScheduler

CONSTANTS
    Mutexes,            \* the event lists that are of mutexes, the others are
                        \* of semaphores
    uxMaxCount,         \* [semaphore -> its maximal count]
    iInitialCount,      \* [semaphore -> its initial count]
    Uses,               \* [task -> the objects it calls the functions with]
    WaitTicks,          \* [task -> the time-outs it waits with]
    Nested,             \* may a task that holds a mutex wait for another?
    MaxPendedTicks,     \* bound: ticks during one suspension of the scheduler
    MaxLockedGives      \* bound: gives of interrupts while a queue is locked

Semaphores == EventLists \ Mutexes
Users      == Tasks \ {Idle}

ASSUME MutexAssumption ==
    /\ Mutexes \subseteq EventLists /\ NoTask \notin EventLists
    /\ uxMaxCount \in [Semaphores -> Nat \ {0}]
    /\ iInitialCount \in [Semaphores -> Nat]
    /\ \A o \in Semaphores : iInitialCount[o] <= uxMaxCount[o]
    /\ Uses \in [Tasks -> SUBSET EventLists]
    /\ WaitTicks \in [Tasks -> SUBSET (Nat \cup {Forever})]
    /\ Nested \in BOOLEAN /\ MaxPendedTicks \in Nat /\ MaxLockedGives \in Nat

VARIABLES
    kernel,             \* the scheduler, see RtosScheduler
    uxMessagesWaiting,  \* [EventLists -> the count]
    xMutexHolder,       \* [Mutexes -> the task that holds it, or NoTask]
    cTxLock,            \* [EventLists -> queueUNLOCKED or the gives of interrupts
                        \*                while a task has the queue locked]
    call                \* [task -> where it is in xQueueSemaphoreTake]

objects == <<uxMessagesWaiting, xMutexHolder, cTxLock>>
vars    == <<kernel, objects, call>>

queueUNLOCKED == -1

NoCall == [at |-> "task", obj |-> NoTask, expired |-> FALSE, inherited |-> FALSE]

Places == {"task", "try", "suspend", "wait", "unlockBlocked", "unlock",
           "unlockLate", "recheck", "disinherit"}

uxLength(o) == IF o \in Mutexes THEN 1 ELSE uxMaxCount[o]
Available(o) == uxMessagesWaiting[o] > 0

Running(t) == kernel.pxCurrentTCB = t /\ ~kernel.halted
In(t, at)  == Running(t) /\ call[t].at = at
Goto(t, at) == call' = [call EXCEPT ![t].at = at]

Holds(t) == {m \in Mutexes : xMutexHolder[m] = t}

InitWith(S, order) ==
    /\ kernel = SchedulerInit(S, order)
    /\ uxMessagesWaiting = [o \in EventLists |-> IF o \in Mutexes THEN 1 ELSE iInitialCount[o]]
    /\ xMutexHolder = [m \in Mutexes |-> NoTask]
    /\ cTxLock = [o \in EventLists |-> queueUNLOCKED]
    /\ call = [t \in Tasks |-> NoCall]

\* The idle task is created last, by vTaskStartScheduler.
Init == \E order \in SetToSeqs(Users) : InitWith(Tasks, Append(order, Idle))
-------------------------------------------------------------------------------
(***************************************************************************)
(* rtosalMutexWait, rtosalSemaphoreWait: xQueueSemaphoreTake.              *)
(***************************************************************************)
Return(t, k) ==
    /\ kernel' = [k EXCEPT !.left[t] = 0]
    /\ call' = [call EXCEPT ![t] = NoCall]

\* pvTaskIncrementMutexHeldCount
HoldOneMore(k, t) == [k EXCEPT !.uxMutexesHeld[t] = @ + 1]

\* The critical section of the loop: take, or give up, or go on to wait.  A time-out
\* of 0 has expired from the start, any other when xTaskCheckForTimeOut says so.
TryTake(t, c, ticks) ==
    LET o == c.obj
    IN  \/ /\ Available(o)
           /\ uxMessagesWaiting' = [uxMessagesWaiting EXCEPT ![o] = @ - 1]
           /\ xMutexHolder' = [m \in Mutexes |-> IF m = o THEN t ELSE xMutexHolder[m]]
           /\ Return(t, IF o \in Mutexes THEN HoldOneMore(kernel, t) ELSE kernel)
           /\ UNCHANGED cTxLock
        \/ /\ ~Available(o) /\ c.expired /\ ~c.inherited
           /\ Return(t, kernel)
           /\ UNCHANGED objects
        \/ /\ ~Available(o) /\ c.expired /\ c.inherited
           /\ kernel' = Halt(kernel)
           /\ UNCHANGED <<objects, call>>
        \/ /\ ~Available(o) /\ ~c.expired
           /\ kernel' = [kernel EXCEPT !.left[t] = ticks]
           /\ call' = [call EXCEPT ![t] = [c EXCEPT !.at = "suspend"]]
           /\ UNCHANGED objects

\* A task does not wait for a mutex it holds.
MayTake(t) == Uses[t] \ IF Nested \/ Holds(t) = {} THEN Holds(t) ELSE Mutexes

Take(t) ==
    /\ In(t, "task")
    /\ \E o \in MayTake(t), ticks \in WaitTicks[t] :
           TryTake(t, [NoCall EXCEPT !.obj = o, !.expired = (ticks = 0)], ticks)

Retry(t) == In(t, "try") /\ TryTake(t, call[t], kernel.left[t])

\* vTaskSuspendAll and prvLockQueue.
LockQueue(t) ==
    /\ In(t, "suspend")
    /\ kernel' = vTaskSuspendAll(kernel)
    /\ cTxLock' = [cTxLock EXCEPT ![call[t].obj] = 0]
    /\ Goto(t, "wait")
    /\ UNCHANGED <<uxMessagesWaiting, xMutexHolder>>

\* The task is put on the event list, after the holder of a mutex has inherited its
\* priority.
Block(t) ==
    LET o == call[t].obj
        holder == IF o \in Mutexes THEN xMutexHolder[o] ELSE NoTask
    IN  /\ kernel' = vTaskPlaceOnEventList(xTaskPriorityInherit(kernel, holder), o, kernel.left[t])
        /\ call' = [call EXCEPT ![t].at = "unlockBlocked",
                                ![t].inherited = InheritanceOccurred(kernel, holder)]

\* The time-out is 0 from here on if it has passed, not if the wait was aborted.
Late(t) ==
    /\ kernel' = xTaskCheckForTimeOut(kernel, t)
    /\ call' = [call EXCEPT ![t].at = "unlockLate",
                            ![t].expired = @ \/ ~kernel.ucDelayAborted[t]]

Wait(t) ==
    /\ In(t, "wait")
    /\ UNCHANGED objects
    /\ \/ TimedOut(kernel, t) /\ Late(t)
       \/ ~TimedOut(kernel, t) /\ ~Available(call[t].obj) /\ Block(t)
       \/ ~TimedOut(kernel, t) /\ Available(call[t].obj) /\ Goto(t, "unlock") /\ UNCHANGED kernel

\* Mutant: what interrupts gave while the queue was locked wakes no one.
WakeNoOne(k, o) == k

\* prvUnlockQueue: one waiter for each give of an interrupt while it was locked.
prvUnlockQueue(k, o) ==
    LET after[n \in 0 .. Max({cTxLock[o], 0})] ==
            IF n = 0 THEN k
            ELSE IF after[n - 1].event[o] = <<>> THEN after[n - 1]
            ELSE xTaskRemoveFromEventList(after[n - 1], o)
    IN  after[cTxLock[o]]

\* prvUnlockQueue, xTaskResumeAll and the yield (queue.c:1566-1588).  An interrupt between
\* the resumption and the yield finds the scheduler running, the queue unlocked and the
\* caller in its lists already: for the properties below it is as if it came after the yield.
Unlock(t) ==
    LET k == prvUnlockQueue(kernel, call[t].obj)
    IN  /\ call[t].at \in {"unlockBlocked", "unlock", "unlockLate"}
        /\ cTxLock' = [cTxLock EXCEPT ![call[t].obj] = queueUNLOCKED]
        /\ UNCHANGED <<uxMessagesWaiting, xMutexHolder>>
        /\ \/ In(t, "unlockBlocked") /\ kernel' = ResumeAndYield(k) /\ Goto(t, "try")
           \/ In(t, "unlock")        /\ kernel' = xTaskResumeAll(k) /\ Goto(t, "try")
           \/ In(t, "unlockLate")    /\ kernel' = xTaskResumeAll(k) /\ Goto(t, "recheck")

\* After a time-out: prvIsQueueEmpty decides whether to try once more.
Recheck(t) ==
    /\ In(t, "recheck")
    /\ UNCHANGED objects
    /\ \/ Available(call[t].obj) /\ Goto(t, "try") /\ UNCHANGED kernel
       \/ ~Available(call[t].obj) /\ call[t].inherited /\ Goto(t, "disinherit") /\ UNCHANGED kernel
       \/ ~Available(call[t].obj) /\ ~call[t].inherited /\ Return(t, kernel)

\* Mutant: the other waiters are forgotten.
LowestWaiting(k, o) == tskIDLE_PRIORITY

\* The priority of the first of the tasks that still wait.
prvGetDisinheritPriorityAfterTimeout(k, o) ==
    IF k.event[o] = <<>> THEN tskIDLE_PRIORITY ELSE k.eventPriority[Head(k.event[o])]

Disinherit(t) ==
    LET o == call[t].obj
    IN  /\ In(t, "disinherit")
        /\ Return(t, vTaskPriorityDisinheritAfterTimeout(
                         kernel, xMutexHolder[o], prvGetDisinheritPriorityAfterTimeout(kernel, o)))
        /\ UNCHANGED objects
-------------------------------------------------------------------------------
(***************************************************************************)
(* rtosalMutexRelease, rtosalSemaphoreRelease: xQueueGenericSend without a *)
(* wait.  A mutex that is given loses its holder; the first waiter, or     *)
(* else the end of the inherited priority, may make the giver yield.       *)
(***************************************************************************)
AfterGive(k, o, disinherited) ==
    IF k.event[o] # <<>>
    THEN YieldIf(WakesHigher(k, o), xTaskRemoveFromEventList(k, o))
    ELSE YieldIf(disinherited, k)

Give(t, o) ==
    LET holder == IF o \in Mutexes THEN xMutexHolder[o] ELSE NoTask
        k == xTaskPriorityDisinherit(kernel, holder)
    IN  /\ In(t, "task")
        /\ uxMessagesWaiting[o] < uxLength(o)
        /\ UNCHANGED <<cTxLock, call>>
        /\ IF k.halted THEN kernel' = k /\ UNCHANGED <<uxMessagesWaiting, xMutexHolder>>
           ELSE /\ kernel' = AfterGive(k, o, DisinheritYields(kernel, holder))
                /\ uxMessagesWaiting' = [uxMessagesWaiting EXCEPT ![o] = @ + 1]
                /\ xMutexHolder' = [m \in Mutexes |-> IF m = o THEN NoTask ELSE xMutexHolder[m]]

\* xQueueGiveFromISR, and the switch on the way out of the interrupt.
GiveFromISR(o) ==
    /\ ~kernel.halted
    /\ uxMessagesWaiting[o] < uxLength(o)
    /\ uxMessagesWaiting' = [uxMessagesWaiting EXCEPT ![o] = @ + 1]
    /\ UNCHANGED <<xMutexHolder, call>>
    /\ \/ /\ cTxLock[o] = queueUNLOCKED
          /\ kernel' = AfterGive(kernel, o, FALSE)
          /\ UNCHANGED cTxLock
       \/ /\ cTxLock[o] \in 0 .. MaxLockedGives - 1
          /\ cTxLock' = [cTxLock EXCEPT ![o] = @ + 1]
          /\ UNCHANGED kernel

\* xQueueReceiveFromISR.  No task waits to give, so none is woken.
TakeFromISR(o) ==
    /\ ~kernel.halted
    /\ Available(o)
    /\ uxMessagesWaiting' = [uxMessagesWaiting EXCEPT ![o] = @ - 1]
    /\ UNCHANGED <<kernel, xMutexHolder, cTxLock, call>>

Tick ==
    /\ ~kernel.halted
    /\ kernel.uxPendedTicks < MaxPendedTicks \/ kernel.uxSchedulerSuspended = 0
    /\ kernel' = TickInterrupt(kernel)
    /\ UNCHANGED <<objects, call>>

TakeStep(t) == \/ Take(t) \/ Retry(t) \/ LockQueue(t) \/ Wait(t) \/ Unlock(t)
               \/ Recheck(t) \/ Disinherit(t)

Next ==
    \/ \E t \in Users : TakeStep(t) \/ \E o \in Uses[t] : Give(t, o)
    \/ \E o \in Semaphores : GiveFromISR(o) \/ TakeFromISR(o)
    \/ Tick

Spec == Init /\ [][Next]_vars
-------------------------------------------------------------------------------
(***************************************************************************)
(* Properties.                                                             *)
(***************************************************************************)
\* A ready task stands once in the ready list of the priority it has, inherited or
\* not, and the bit map names exactly the priorities with a ready task: a missing
\* bit starves them, a stale one stops the system (taskSELECT_HIGHEST_PRIORITY_TASK).
ReadyListsExact ==
    \A p \in Priorities :
        /\ p \in kernel.uxTopReadyPriority <=> ReadyAt(kernel, p) # {}
        /\ \A t \in ReadyAt(kernel, p) : kernel.uxPriority[t] = p
        /\ IsInjective(kernel.ready[p])

\* xTaskPriorityDisinherit (tasks.c:4097) says that a switch follows when the last
\* mutex is returned, so that no ready task ever has a higher priority than the one
\* that runs, which is ready but for the end of a call that blocks.
RunsHighestReady ==
    ~kernel.halted =>
        /\ kernel.uxSchedulerSuspended = 0 => Ready(kernel, kernel.pxCurrentTCB)
        /\ \A t \in Tasks : Ready(kernel, t) =>
               kernel.uxPriority[t] <= kernel.uxPriority[kernel.pxCurrentTCB]

\* Whatever wakes, raises or lowers a task, in a call, an interrupt, a tick or at the
\* end of a suspension, the switch it needs is not forgotten (every xYieldPending
\* and yield of tasks.c and queue.c) - but for a holder that gives the mutex it
\* inherited a priority by to a waiter no higher than the priority it falls back to.
LowersItself ==
    LET t == kernel.pxCurrentTCB
    IN  /\ kernel'.pxCurrentTCB = t
        /\ kernel'.uxPriority[t] < kernel.uxPriority[t]
        /\ \E m \in Holds(t) : xMutexHolder'[m] = NoTask /\ kernel.event[m] # <<>>

SwitchesWhenNeeded == [][RunsHighestReady => RunsHighestReady' \/ LowersItself]_vars

\* Priority inheritance: the holder of a mutex runs at no lower a priority than any
\* task that waits for it, after the time-outs of the other waiters as well.
NoPriorityInversion ==
    \A m \in Mutexes : xMutexHolder[m] # NoTask =>
        \A t \in Members(kernel.event[m]) :
            kernel.uxPriority[xMutexHolder[m]] >= kernel.uxBasePriority[t]

\* The end of inheritance: a task has a raised priority only while some task is in
\* a call for a mutex it holds, and counts exactly the mutexes it holds.
RaisedOnlyForWaiters ==
    \A h \in Tasks :
        /\ kernel.uxMutexesHeld[h] = Cardinality(Holds(h))
        /\ \/ kernel.uxPriority[h] = kernel.uxBasePriority[h]
           \/ \E t \in Tasks : /\ call[t].obj \in Holds(h)
                               /\ kernel.uxPriority[h] = kernel.uxBasePriority[t]

\* No give is lost: as long as a task waits for an object, each instance of it that
\* is free has been promised to a task on its way to take it, or is an interrupt's
\* that prvUnlockQueue is still to hand on.
OnTheWay(o) == {t \in Tasks : /\ call[t].obj = o /\ call[t].at # "disinherit"
                              /\ t \notin Members(kernel.event[o])}

NoLostGive ==
    \A o \in EventLists : kernel.event[o] # <<>> =>
        uxMessagesWaiting[o] <= Cardinality(OnTheWay(o)) + Max({cTxLock[o], 0})

\* xQueueSemaphoreTake (queue.c:1500) asserts that a caller whose time-out has come
\* to 0 and that finds nothing has not made the holder inherit its priority.
NoInheritanceAtZero ==
    \A t \in Tasks : In(t, "try") /\ call[t].expired /\ ~Available(call[t].obj) =>
        ~call[t].inherited
-------------------------------------------------------------------------------
(***************************************************************************)
(* The invariant from which the safety properties follow when there is at  *)
(* most one mutex.                                                         *)
(***************************************************************************)
LockedPlaces == {"wait", "unlockBlocked", "unlock", "unlockLate"}

MutexTypeOK ==
    /\ kernel \in KernelType
    /\ uxMessagesWaiting \in [EventLists -> Nat]
    /\ xMutexHolder \in [Mutexes -> Tasks \cup {NoTask}]
    /\ cTxLock \in [EventLists -> Int]
    /\ call \in [Tasks -> [at : Places, obj : EventLists \cup {NoTask},
                           expired : BOOLEAN, inherited : BOOLEAN]]

\* Where a call is, and what that says of the scheduler, the queue and the task's items.
CallsInv ==
    /\ kernel.uxSchedulerSuspended \in {0, 1}
    /\ \A t \in Tasks : call[t].at \in LockedPlaces <=>
           t = kernel.pxCurrentTCB /\ kernel.uxSchedulerSuspended = 1
    /\ \A o \in EventLists : cTxLock[o] = queueUNLOCKED \/
           /\ cTxLock[o] >= 0 /\ call[kernel.pxCurrentTCB].at \in LockedPlaces
           /\ call[kernel.pxCurrentTCB].obj = o
    /\ \A t \in Tasks : IF call[t].at = "task" THEN call[t] = NoCall ELSE call[t].obj \in EventLists
    /\ \A t \in Tasks : call[t].at \in LockedPlaces => cTxLock[call[t].obj] >= 0
    /\ \A m \in Mutexes : cTxLock[m] <= 0
    /\ call[Idle] = NoCall

\* A task is blocked exactly while it waits for the object of its call, or has been
\* given it by an interrupt while the scheduler is suspended.
WaitsInv ==
    /\ ReadyTasks(kernel) \cup BlockedTasks(kernel) = Tasks
    /\ \A t \in BlockedTasks(kernel) : Waiting(kernel, t) \/ Pending(kernel, t)
    /\ \A l \in EventLists : \A t \in Members(kernel.event[l]) :
           call[t].obj = l /\ call[t].at \in {"unlockBlocked", "try"}
    /\ \A t \in Members(kernel.pendingReady) :
           call[t].obj \in Semaphores /\ call[t].at \in {"unlockBlocked", "try"}
    /\ kernel.pendingReady # <<>> => kernel.uxSchedulerSuspended = 1
    /\ Ready(kernel, kernel.pxCurrentTCB) \/ call[kernel.pxCurrentTCB].at = "unlockBlocked"

HoldersInv ==
    /\ \A m \in Mutexes : uxMessagesWaiting[m] = IF xMutexHolder[m] = NoTask THEN 1 ELSE 0
    /\ \A t \in Tasks : kernel.uxMutexesHeld[t] = Cardinality(Holds(t))
    /\ \A m \in Mutexes, t \in Tasks : xMutexHolder[m] = t => call[t].obj # m
    /\ \A t \in Tasks : call[t].inherited \/ call[t].at = "disinherit" => call[t].obj \in Mutexes

\* Only a holder's priority is not its own, an event item has its task's priority,
\* and the tasks that wait for a mutex stand in the order of their priorities.
PrioritiesInv ==
    /\ kernel.eventPriority = kernel.uxPriority
    /\ \A t \in Tasks : kernel.uxPriority[t] >= kernel.uxBasePriority[t]
    /\ \A t \in Tasks : Holds(t) = {} => kernel.uxPriority[t] = kernel.uxBasePriority[t]
    /\ \A m \in Mutexes : \A i, j \in DOMAIN kernel.event[m] :
           i < j => kernel.uxBasePriority[kernel.event[m][i]] >= kernel.uxBasePriority[kernel.event[m][j]]

\* A mutex that is held: its holder runs at the priority of a waiter, or at that of a
\* caller that has lent it and not yet taken it back.
LentInv ==
    \A m \in Mutexes, h \in Tasks : xMutexHolder[m] = h =>
        /\ \A t \in Members(kernel.event[m]) :
               /\ kernel.uxPriority[h] >= kernel.uxBasePriority[t]
               /\ kernel.uxBasePriority[t] > kernel.uxBasePriority[h] => call[t].inherited
        /\ \/ kernel.uxPriority[h] = kernel.uxBasePriority[h]
           \/ \E t \in Tasks : /\ call[t].obj = m /\ call[t].inherited
                               /\ kernel.uxPriority[h] = kernel.uxBasePriority[t]

\* A mutex that is free: whoever runs is no lower than those that wait, and so is one
\* that has been woken to take it.
FreeInv ==
    \A m \in Mutexes : xMutexHolder[m] = NoTask =>
        /\ \A t \in Members(kernel.event[m]) :
               kernel.uxPriority[kernel.pxCurrentTCB] >= kernel.uxBasePriority[t]
        /\ kernel.event[m] # <<>> =>
               \E w \in OnTheWay(m) : \A t \in Members(kernel.event[m]) :
                   kernel.uxBasePriority[w] >= kernel.uxBasePriority[t]

MutexInv ==
    /\ MutexTypeOK /\ KernelOK(kernel) /\ WaitersAreBlocked(kernel)
    /\ CallsInv /\ WaitsInv /\ HoldersInv /\ PrioritiesInv /\ LentInv /\ FreeInv /\ NoLostGive
===============================================================================
