------------------------------ MODULE RtosalTask ------------------------------
(***************************************************************************)
(* The task services of the RTOS abstraction layer (rtosal_task.c) over    *)
(* tasks.c: creation, destruction, suspension, resumption, also from an    *)
(* interrupt, sleep, priority change, the abort of a wait and yields,      *)
(* beside the mutexes and semaphores of RtosalMutex, whose waits they cut  *)
(* short.                                                                  *)
(*                                                                         *)
(* A call that ends with a yield outside its critical section leaves the   *)
(* task in the place "yield" between the two: an interrupt may come there. *)
(***************************************************************************)
EXTENDS RtosalMutex

CONSTANTS
    Started,         \* the tasks the application creates before the scheduler starts
    Calls,           \* [task -> the services it calls on the other tasks]
    SleepTicks       \* the times tasks sleep

D_MAX_PRIORITY == configMAX_PRIORITIES - 1

ASSUME TaskAssumption ==
    /\ Idle \in Started /\ Started \subseteq Tasks
    /\ SleepTicks \subseteq Nat \ {0}

VARIABLE
    life             \* [task -> "none", "alive" or "terminating": deleted by itself
                     \*  and still to be cleaned up by the idle task]

taskVars == <<vars, life>>

\* The handle of a task is stored when the call that creates it returns: until then
\* no other task can name it, and it does not end itself.
BeingCreated(u) ==
    \E t \in Tasks : call[t].at \in {"created", "dontStart", "suspendNew"} /\ call[t].obj = u

Alive(t) == life[t] = "alive" /\ ~BeingCreated(t)

\* In the list of suspended tasks, and not to wait for an object without a time-out.
prvTaskIsTaskSuspended(k, t) == t \in k.suspended /\ ~Pending(k, t) /\ ~Waiting(k, t)

\* Mutant: a suspended task counts as one that waits for an object.
NotReady(k, t) == t \in Members(k.delayed) \cup k.suspended

\* eTaskGetState(t) = eBlocked
Blocked(k, t) == t \in Members(k.delayed) \/ (t \in k.suspended /\ (Waiting(k, t) \/ Pending(k, t)))

\* Mutant: the task stays on the event list it waits in.
RemoveStateItemOnly(k, t) ==
    IF Ready(k, t) THEN taskRESET_READY_PRIORITY(RemoveStateItem(k, t), k.uxPriority[t])
    ELSE RemoveStateItem(k, t)

\* uxListRemove of both items, and the bit of a ready list that it leaves empty.
RemoveItems(k, t) ==
    LET j == RemoveEventItem(RemoveStateItem(k, t), t)
    IN  IF Ready(k, t) THEN taskRESET_READY_PRIORITY(j, k.uxPriority[t]) ELSE j

\* The running task t starts a service; u is the task it is about.
Serves(t, name) == In(t, "task") /\ name \in Calls[t]
Then(t, at, u)  == call' = [call EXCEPT ![t] = [NoCall EXCEPT !.at = at, !.obj = u]]
Own(t, u)       == IF t = u THEN "yield" ELSE "task"

Yield(t) ==
    /\ In(t, "yield")
    /\ kernel' = vTaskSwitchContext(kernel)
    /\ call' = [call EXCEPT ![t] = NoCall]
    /\ UNCHANGED <<objects, life>>
-------------------------------------------------------------------------------
(***************************************************************************)
(* rtosalTaskCreate: the new task is ready, and runs at once if it has the *)
(* higher priority; D_RTOSAL_DONT_START suspends it after that.            *)
(***************************************************************************)
prvInitialiseNewTask(k, u) ==
    [k EXCEPT !.uxPriority[u] = uxInitialPriority[u], !.uxBasePriority[u] = uxInitialPriority[u],
              !.eventPriority[u] = uxInitialPriority[u], !.uxMutexesHeld[u] = 0,
              !.ucDelayAborted[u] = FALSE, !.left[u] = 0, !.wake[u] = 0]

Create(t, u) ==
    /\ Serves(t, "create")
    /\ life[u] = "none"
    /\ life' = [life EXCEPT ![u] = "alive"]
    /\ kernel' = prvAddTaskToReadyList(prvInitialiseNewTask(kernel, u), u)
    /\ \E at \in {"created", "dontStart"} :
           call' = [call EXCEPT ![u] = NoCall, ![t] = [NoCall EXCEPT !.at = at, !.obj = u]]
    /\ UNCHANGED objects

\* prvAddNewTaskToReadyList: the yield behind its critical section.
CreateYield(t) ==
    LET u == call[t].obj
        k == kernel
    IN  /\ Running(t) /\ call[t].at \in {"created", "dontStart"}
        /\ kernel' = YieldIf(k.uxPriority[t] < k.uxPriority[u], k)
        /\ IF call[t].at = "created" THEN Then(t, "task", NoTask) ELSE Then(t, "suspendNew", u)
        /\ UNCHANGED <<objects, life>>

SuspendNew(t) ==
    LET u == call[t].obj
        k == RemoveItems(kernel, u)
    IN  /\ In(t, "suspendNew")
        /\ kernel' = [k EXCEPT !.suspended = @ \cup {u}]
        /\ Then(t, "task", NoTask)
        /\ UNCHANGED <<objects, life>>

\* rtosalTaskDestroy: vTaskDelete.  Whatever the task was doing is over; a task that
\* destroys itself runs on to its yield.
Destroy(t, u) ==
    /\ Serves(t, "destroy")
    /\ Alive(u)
    /\ kernel' = RemoveItems(kernel, u)
    /\ life' = [life EXCEPT ![u] = IF t = u THEN "terminating" ELSE "none"]
    /\ call' = [call EXCEPT ![u] = [NoCall EXCEPT !.at = Own(t, u)]]
    /\ UNCHANGED objects

\* The idle task: prvCheckTasksWaitingTermination, and a yield to the other ready
\* tasks of its priority.
IdleTask ==
    /\ Running(Idle)
    /\ UNCHANGED <<objects, call>>
    /\ \/ /\ \E u \in Tasks : life[u] = "terminating" /\ life' = [life EXCEPT ![u] = "none"]
          /\ UNCHANGED kernel
       \/ /\ Cardinality(ReadyAt(kernel, tskIDLE_PRIORITY)) > 1
          /\ kernel' = vTaskSwitchContext(kernel)
          /\ UNCHANGED life
-------------------------------------------------------------------------------
\* rtosalTaskSuspend: vTaskSuspend, of the calling task too.
Suspend(t, u) ==
    /\ Serves(t, "suspend")
    /\ Alive(u) \/ u = t
    /\ kernel' = [RemoveItems(kernel, u) EXCEPT !.suspended = @ \cup {u}]
    /\ Then(t, Own(t, u), NoTask)
    /\ UNCHANGED <<objects, life>>

\* rtosalTaskResume: vTaskResume, which does nothing for a task that is not suspended.
Resume(t, u) ==
    /\ Serves(t, "resume")
    /\ Alive(u) /\ u # t /\ prvTaskIsTaskSuspended(kernel, u)
    /\ kernel' = YieldIf(kernel.uxPriority[u] >= kernel.uxPriority[t], MakeReady(kernel, u))
    /\ UNCHANGED <<objects, call, life>>

\* rtosalTaskResume in an interrupt: xTaskResumeFromISR, and the switch on the way out.
ResumeFromISR(u) ==
    /\ ~kernel.halted
    /\ Alive(u) /\ prvTaskIsTaskSuspended(kernel, u)
    /\ UNCHANGED <<objects, call, life>>
    /\ \/ /\ kernel.uxSchedulerSuspended = 0
          /\ kernel' = YieldIf(kernel.uxPriority[u] >= kernel.uxPriority[kernel.pxCurrentTCB],
                               MakeReady(kernel, u))
       \/ /\ kernel.uxSchedulerSuspended # 0
          /\ kernel' = [kernel EXCEPT !.pendingReady = Append(@, u)]

\* rtosalTaskSleep: vTaskDelay.  What interrupts do while it has the scheduler
\* suspended takes effect at the end of the step, as it does just after it; so does what
\* they do between the resumption and the yield (tasks.c:1354-1365), when the caller is in
\* the delayed list already.
Sleep(t) ==
    /\ Serves(t, "sleep")
    /\ \E ticks \in SleepTicks : kernel' = ResumeAndYield(
           prvAddCurrentTaskToDelayedList(vTaskSuspendAll(kernel), ticks))
    /\ UNCHANGED <<objects, call, life>>

\* rtosalTaskYield
TaskYield(t) ==
    /\ Serves(t, "yield")
    /\ kernel' = vTaskSwitchContext(kernel)
    /\ UNCHANGED <<objects, call, life>>
-------------------------------------------------------------------------------
\* rtosalTaskPriorityChange: vTaskPrioritySet.  An inherited priority stays; the event
\* item gets the new value where it stands.
SetPriority(k, u, p) ==
    LET raised == [k EXCEPT !.uxBasePriority[u] = p, !.eventPriority[u] = p]
    IN  IF k.uxBasePriority[u] = k.uxPriority[u] THEN MoveReady(raised, u, p)
        ELSE MoveReady(raised, u, k.uxPriority[u])

\* Mutant: the task that lowers itself runs on.
YieldsForHigher(k, t, u, p) ==
    k.uxBasePriority[u] < p /\ u # t /\ p >= k.uxPriority[t]

PrioritySetYields(k, t, u, p) ==
    \/ k.uxBasePriority[u] < p /\ u # t /\ p >= k.uxPriority[t]
    \/ k.uxBasePriority[u] > p /\ u = t

PriorityChange(t, u) ==
    /\ Serves(t, "priority")
    /\ Alive(u) \/ u = t
    /\ \E p \in 0 .. D_MAX_PRIORITY :
          /\ p # kernel.uxBasePriority[u]
          /\ kernel' = YieldIf(PrioritySetYields(kernel, t, u, p), SetPriority(kernel, u, p))
    /\ UNCHANGED <<objects, call, life>>

\* rtosalTaskWaitAbort: xTaskAbortDelay, with the scheduler suspended in between.
WaitAbort(t, u) ==
    /\ Serves(t, "abort")
    /\ Alive(u) /\ u # t
    /\ kernel' = vTaskSuspendAll(kernel)
    /\ Then(t, "abort", u)
    /\ UNCHANGED <<objects, life>>

Unblock(k, t, u) ==
    [MakeReady(RemoveEventItem(k, u), u) EXCEPT
        !.ucDelayAborted[u] = @ \/ Waiting(k, u) \/ Pending(k, u),
        !.xYieldPending = @ \/ k.uxPriority[u] > k.uxPriority[t]]

Abort(t) ==
    LET u == call[t].obj
    IN  /\ In(t, "abort")
        /\ kernel' = xTaskResumeAll(IF Blocked(kernel, u) THEN Unblock(kernel, t, u) ELSE kernel)
        /\ Then(t, "task", NoTask)
        /\ UNCHANGED <<objects, life>>
-------------------------------------------------------------------------------
TaskInit ==
    /\ life = [t \in Tasks |-> IF t \in Started THEN "alive" ELSE "none"]
    /\ \E order \in SetToSeqs(Started \ {Idle}) : InitWith(Started, Append(order, Idle))

ServiceStep(t) ==
    \/ \E u \in Users : \/ Create(t, u) \/ Destroy(t, u) \/ Suspend(t, u) \/ Resume(t, u)
                        \/ PriorityChange(t, u) \/ WaitAbort(t, u)
    \/ Sleep(t) \/ TaskYield(t)
    \/ CreateYield(t) \/ SuspendNew(t) \/ Abort(t) \/ Yield(t)

TaskNext ==
    \/ Next /\ UNCHANGED life
    \/ \E t \in Users : ServiceStep(t)
    \/ \E u \in Users : ResumeFromISR(u)
    \/ IdleTask

TaskSpec == TaskInit /\ [][TaskNext]_taskVars
-------------------------------------------------------------------------------
(***************************************************************************)
(* Properties.                                                             *)
(***************************************************************************)
StateLists(t) ==
    Cardinality({p \in Priorities : t \in ReadyAt(kernel, p)})
    + Cardinality({i \in DOMAIN kernel.delayed : kernel.delayed[i] = t})
    + (IF t \in kernel.suspended THEN 1 ELSE 0)

\* After any sequence of calls a task that exists is in exactly one list of tasks and
\* one that does not is in none; a task waits for the object of its call and for no
\* other, and only in the blocked state; the pending list is empty unless the
\* scheduler is suspended (the items vTaskDelete, vTaskSuspend and xTaskAbortDelay
\* take out of whichever lists they are in).
ListsExact ==
    /\ ReadyListsExact
    /\ \A t \in Tasks :
          /\ StateLists(t) = IF life[t] = "alive" THEN 1 ELSE 0
          /\ \A l \in EventLists : t \in Members(kernel.event[l]) =>
                 call[t].obj = l /\ Blocked(kernel, t) /\ ~Pending(kernel, t)
          /\ Pending(kernel, t) => kernel.uxSchedulerSuspended # 0

\* The task that runs has the highest priority of those that are ready, whatever is
\* created, resumed, raised, lowered, woken or aborted, but between the critical
\* section and the yield of vTaskDelete, vTaskSuspend and xTaskCreate.
HighestRuns ==
    LET t == kernel.pxCurrentTCB
    IN  /\ kernel.uxSchedulerSuspended = 0 => Ready(kernel, t) \/ call[t].at = "yield"
        /\ call[t].at \notin {"created", "dontStart", "yield"} =>
               \A u \in Tasks : Ready(kernel, u) => kernel.uxPriority[u] <= kernel.uxPriority[t]

\* A suspended task stays suspended until it is resumed or destroyed: no tick, give,
\* abort or end of a suspension of the scheduler makes it ready.  One resumed by an
\* interrupt while the scheduler is suspended is on the pending list.
StaysSuspended ==
    [][\A u \in Tasks : prvTaskIsTaskSuspended(kernel, u) /\ u \notin kernel'.suspended =>
          \/ ResumeFromISR(u)
          \/ \E t \in Users : Resume(t, u) \/ Destroy(t, u)]_taskVars

\* The flag of an aborted wait is for the call it aborts: a task outside a call does
\* not have it, or its next wait fails at once.
AbortEndsWithCall ==
    \A t \in Tasks : kernel.ucDelayAborted[t] => call[t].at # "task"
-------------------------------------------------------------------------------
(***************************************************************************)
(* The invariant from which ListsExact and HighestRuns follow when there   *)
(* are no mutexes.                                                         *)
(***************************************************************************)
TakePlaces   == {"try", "suspend", "wait", "unlockBlocked", "unlock", "unlockLate", "recheck"}
CreatePlaces == {"created", "dontStart", "suspendNew"}
TaskPlaces   == {"task", "yield", "abort"} \cup TakePlaces \cup CreatePlaces

TaskTypeOK ==
    /\ kernel \in KernelType
    /\ uxMessagesWaiting \in [EventLists -> Nat]
    /\ xMutexHolder \in [Mutexes -> Tasks \cup {NoTask}]
    /\ cTxLock \in [EventLists -> Int]
    /\ call \in [Tasks -> [at : TaskPlaces, obj : EventLists \cup Tasks \cup {NoTask},
                           expired : BOOLEAN, inherited : {FALSE}]]
    /\ life \in [Tasks -> {"none", "alive", "terminating"}]

\* The scheduler is suspended exactly while the running task is in one of the places
\* behind vTaskSuspendAll.
Suspends(t) == call[t].at \in LockedPlaces \cup {"abort"}

SuspensionInv ==
    /\ kernel.uxSchedulerSuspended \in {0, 1}
    /\ \A t \in Tasks : Suspends(t) <=> t = kernel.pxCurrentTCB /\ kernel.uxSchedulerSuspended = 1
    /\ kernel.pendingReady # <<>> => kernel.uxSchedulerSuspended = 1

\* What a call is about.
ObjectOf(t) ==
    LET c == call[t]
    IN  /\ c.at \in TakePlaces => c.obj \in EventLists
        /\ c.at \in LockedPlaces => cTxLock[c.obj] >= 0
        /\ c.at \in CreatePlaces => c.obj \in Users \ {t} /\ life[c.obj] = "alive"
        /\ c.at = "abort" => c.obj \in Users \ {t}

WaiterOf(t) ==
    \A l \in EventLists : t \in Members(kernel.event[l]) =>
        call[t].obj = l /\ call[t].at \in {"unlockBlocked", "try"}

\* Which tasks the lists know, and that the idle task is always ready and calls nothing.
LifeInv ==
    /\ ReadyTasks(kernel) \cup BlockedTasks(kernel) = {t \in Tasks : life[t] = "alive"}
    /\ Ready(kernel, Idle) /\ call[Idle] = NoCall

\* Nothing is inherited, and no assertion fails.
PlainInv == kernel.uxBasePriority = kernel.uxPriority /\ ~kernel.halted

\* The running task is ready unless it is about to yield, and no ready task is higher
\* than it, but for the one it has just created.
RunningInv ==
    LET t == kernel.pxCurrentTCB
        c == call[t]
    IN  /\ Ready(kernel, t) \/ c.at \in {"yield", "unlockBlocked"}
        /\ c.at # "yield" =>
               \A u \in ReadyTasks(kernel) :
                   \/ kernel.uxPriority[u] <= kernel.uxPriority[t]
                   \/ c.at \in {"created", "dontStart"} /\ u = c.obj

TaskInv ==
    /\ TaskTypeOK /\ KernelOK(kernel) /\ WaitersAreBlocked(kernel)
    /\ SuspensionInv /\ LifeInv /\ PlainInv /\ RunningInv
    /\ \A t \in Tasks : ObjectOf(t) /\ WaiterOf(t)
===============================================================================
