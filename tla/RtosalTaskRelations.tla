-------------------------- MODULE RtosalTaskRelations --------------------------
(***************************************************************************)
(* The relations in which RtosalTaskProofs states what a function of the   *)
(* kernel does to the scheduler's record, k before and j after it, and     *)
(* what a step of RtosalMutex or RtosalTask does to the calls.             *)
(***************************************************************************)
EXTENDS RtosalTask

\* Functions of the kernel.

\* What no kernel function that only moves items changes.
Steady(k, j) ==
    /\ j.uxPriority = k.uxPriority /\ j.uxBasePriority = k.uxBasePriority
    /\ j.eventPriority = k.eventPriority
    /\ j.uxMutexesHeld = k.uxMutexesHeld /\ j.pxCurrentTCB = k.pxCurrentTCB
    /\ j.uxSchedulerSuspended = k.uxSchedulerSuspended /\ j.halted = k.halted

\* The lists of events, and those of tasks, are as they were.
SameEvents(k, j) == j.event = k.event /\ j.pendingReady = k.pendingReady

SameStates(k, j) ==
    /\ j.ready = k.ready /\ j.uxTopReadyPriority = k.uxTopReadyPriority
    /\ j.delayed = k.delayed /\ j.suspended = k.suspended

\* The tasks in each of the lists of tasks.
StateSets(k, ready, delayed, suspended) ==
    ReadyTasks(k) = ready /\ Members(k.delayed) = delayed /\ k.suspended = suspended

\* A function that moves items and asks for no switch.
Quiet(k, j) ==
    Steady(k, j) /\ j.uxPendedTicks = k.uxPendedTicks /\ j.xYieldPending = k.xYieldPending

\* What is left of an event list stands in the order it had.
KeepsOrder(k, j) ==
    \A l \in EventLists : \A f : SortedBy(k.event[l], f) => SortedBy(j.event[l], f)

\* The tasks of gone have left the event lists and the pending list.
EventSets(k, j, gone) ==
    /\ KeepsOrder(k, j)
    /\ \A l \in EventLists : Members(j.event[l]) = Members(k.event[l]) \ gone
    /\ Members(j.pendingReady) = Members(k.pendingReady) \ gone

\* The running task blocks on an object.
Blocks(k, j, t, o) ==
    /\ KernelOK(j) /\ WaitersAreBlocked(j) /\ Quiet(k, j)
    /\ ReadyTasks(j) = ReadyTasks(k) \ {t}
    /\ BlockedTasks(j) = BlockedTasks(k) \cup {t}
    /\ j.suspended \ {t} = k.suspended \ {t}
    /\ Members(j.delayed) \ {t} = Members(k.delayed) \ {t}
    /\ j.pendingReady = k.pendingReady
    /\ \A l \in EventLists : Members(j.event[l]) =
           IF l = o THEN Members(k.event[l]) \cup {t} ELSE Members(k.event[l])
    /\ \A l \in EventLists \ {o} : j.event[l] = k.event[l]
    /\ j.event[o] = InsertByPriority(k, k.event[o], t)

\* Who waits, who exists, and lists in order.
Waiters(k) == {t \in Tasks : Pending(k, t) \/ Waiting(k, t)}
Known(k)   == ReadyTasks(k) \cup BlockedTasks(k)
Good(k)    == KernelOK(k) /\ WaitersAreBlocked(k)

\* No ready task but those of X is higher than the one that runs, or a switch is asked for.
Highest(k, X) == \A t \in ReadyTasks(k) \ X : k.uxPriority[t] <= k.uxPriority[k.pxCurrentTCB]

Covered(k, X) == k.xYieldPending \/ Highest(k, X)

\* Tasks become ready and leave the event lists for it.
Wakes(k, j) ==
    /\ j.uxPriority = k.uxPriority /\ j.uxBasePriority = k.uxBasePriority
    /\ j.eventPriority = k.eventPriority
    /\ j.uxMutexesHeld = k.uxMutexesHeld /\ j.halted = k.halted
    /\ ReadyTasks(k) \subseteq ReadyTasks(j) /\ Known(j) = Known(k)
    /\ KeepsOrder(k, j)
    /\ \A l \in EventLists : Members(j.event[l]) \subseteq Members(k.event[l])
    /\ Waiters(k) \subseteq Waiters(j) \cup ReadyTasks(j)

\* No task begins to wait; those that are suspended and do not wait stay suspended.
Awakens(k, j) ==
    /\ Wakes(k, j) /\ Waiters(j) \subseteq Waiters(k)
    /\ k.suspended \ Waiters(k) \subseteq j.suspended

\* Nothing moves but the index of a ready list.
Switches(k, j) ==
    /\ j.uxPriority = k.uxPriority /\ j.uxBasePriority = k.uxBasePriority
    /\ j.eventPriority = k.eventPriority
    /\ j.uxMutexesHeld = k.uxMutexesHeld /\ j.halted = k.halted
    /\ j.uxSchedulerSuspended = k.uxSchedulerSuspended /\ j.uxPendedTicks = k.uxPendedTicks
    /\ SameEvents(k, j) /\ j.delayed = k.delayed /\ j.suspended = k.suspended
    /\ ReadyTasks(j) = ReadyTasks(k)

\* The tasks of M become ready and leave all other lists.
Moved(k, j, M) ==
    /\ KernelOK(j) /\ Steady(k, j) /\ j.uxPendedTicks = k.uxPendedTicks
    /\ EventSets(k, j, M)
    /\ StateSets(j, ReadyTasks(k) \cup M, Members(k.delayed) \ M, k.suspended \ M)

\* What a tick may do, and so any number of them.
Ticked(k, j) ==
    /\ Good(j) /\ Steady(k, j) /\ j.uxPendedTicks = k.uxPendedTicks /\ Awakens(k, j)
    /\ Members(j.pendingReady) \subseteq Members(k.pendingReady)

\* A step that wakes tasks and may end with a switch, to which the task that runs after it
\* is ready and no lower than any ready task but those of X.
Settled(k, j, X) ==
    /\ Good(j) /\ Awakens(k, j)
    /\ \/ j.pxCurrentTCB \in ReadyTasks(j) /\ Highest(j, X) /\ Highest(j, {})
       \/ j.pxCurrentTCB = k.pxCurrentTCB /\ (Highest(k, X) => Highest(j, X))

\* The tasks of S are ready, each as it was created, nobody waits and the highest runs.
StartsWith(k, S) ==
    /\ KernelOK(k) /\ ReadyTasks(k) = S /\ BlockedTasks(k) = {}
    /\ k.pendingReady = <<>> /\ \A l \in EventLists : k.event[l] = <<>>
    /\ k.uxSchedulerSuspended = 0 /\ k.halted = FALSE
    /\ k.uxPriority = uxInitialPriority /\ k.uxBasePriority = uxInitialPriority
    /\ k.eventPriority = uxInitialPriority
    /\ k.uxMutexesHeld = [t \in Tasks |-> 0]
    /\ k.pxCurrentTCB \in S
    /\ \A t \in S : uxInitialPriority[t] <= uxInitialPriority[k.pxCurrentTCB]

\* What becomes of the running task and of the tasks above it.
Runs(k, j, X) ==
    \/ j.pxCurrentTCB \in ReadyTasks(j) /\ Highest(j, X) /\ Highest(j, {})
    \/ j.pxCurrentTCB = k.pxCurrentTCB /\ (Highest(k, X) => Highest(j, X))

\* A step outside of a call of the task that runs.
Undisturbing(k, j, X) ==
    /\ Good(j) /\ Runs(k, j, X) /\ Wakes(k, j)
    /\ j.uxSchedulerSuspended = k.uxSchedulerSuspended
    /\ k.uxSchedulerSuspended = 0 => Members(j.pendingReady) \subseteq Members(k.pendingReady)
    /\ k.uxSchedulerSuspended # 0 => j.pxCurrentTCB = k.pxCurrentTCB

\* Who is suspended and does not wait stays suspended.
KeepsSuspended(k, j) == k.suspended \ Waiters(k) \subseteq j.suspended

\* prvUnlockQueue with the scheduler suspended.
Unlocks(k, j, X) ==
    /\ Good(j) /\ Steady(k, j) /\ Awakens(k, j) /\ ReadyTasks(j) = ReadyTasks(k)
    /\ Covered(k, X) => Covered(j, X)

\* The first waiter is woken if there is one.
WakeIfAny(k, o) == IF k.event[o] = <<>> THEN k ELSE xTaskRemoveFromEventList(k, o)

\* prvUnlockQueue, with how many waiters it wakes at least.
WakesMany(k, j, o, n, X) ==
    /\ Unlocks(k, j, X) /\ j.uxPendedTicks = k.uxPendedTicks
    /\ \A l \in EventLists \ {o} : j.event[l] = k.event[l]
    /\ Members(j.pendingReady) \subseteq Members(k.pendingReady) \cup Members(k.event[o])
    /\ n = 0 => j = k
    /\ \/ j.event[o] = <<>>
       \/ Cardinality(Members(k.event[o]) \ Members(j.event[o])) >= n

\* What a call or an interrupt does that gives: the first waiter is woken, and the highest
\* ready task runs, or the one that ran if the task that was woken is no higher.
Gives(k, j, o, asks) ==
    /\ Good(j) /\ Wakes(k, j) /\ j.uxSchedulerSuspended = k.uxSchedulerSuspended
    /\ \A l \in EventLists \ {o} : j.event[l] = k.event[l]
    /\ k.event[o] = <<>> => /\ j.event[o] = <<>> /\ j.pendingReady = k.pendingReady
                            /\ ~asks => j = k
    /\ k.event[o] # <<>> =>
           /\ Head(k.event[o]) \in Members(k.event[o]) /\ j.event[o] = Tail(k.event[o])
           /\ \/ j.pxCurrentTCB # k.pxCurrentTCB
              \/ Highest(j, {})
              \/ k.uxSchedulerSuspended # 0
              \/ k.uxPriority[Head(k.event[o])] <= k.uxPriority[k.pxCurrentTCB]
    /\ j.pxCurrentTCB # k.pxCurrentTCB => j.pxCurrentTCB \in ReadyTasks(j) /\ Highest(j, {})
    /\ k.uxSchedulerSuspended # 0 => j.pxCurrentTCB = k.pxCurrentTCB
    /\ k.uxSchedulerSuspended = 0 => j.pendingReady = k.pendingReady
    /\ Members(j.pendingReady) \subseteq Members(k.pendingReady) \cup Members(k.event[o])
    /\ \/ k.uxSchedulerSuspended = 0 /\ Highest(j, {})
       \/ Highest(k, {}) => Highest(j, {})
       \/ k.event[o] = <<>> /\ asks

\* The task h gets the priority p, in its items too, and no task changes its state.
Reprioritised(k, j, h, p) ==
    /\ Good(j) /\ SameEvents(k, j)
    /\ StateSets(j, ReadyTasks(k), Members(k.delayed), k.suspended)
    /\ j.uxPriority = [k.uxPriority EXCEPT ![h] = p] /\ j.eventPriority = j.uxPriority
    /\ j.uxBasePriority = k.uxBasePriority
    /\ j.pxCurrentTCB = k.pxCurrentTCB /\ j.halted = k.halted
    /\ j.uxSchedulerSuspended = k.uxSchedulerSuspended
-------------------------------------------------------------------------------
\* Steps of calls for semaphores and mutexes.

\* What the theorems about mutexes assume.  With two, a task that gives one and falls back
\* to its own priority without a switch (queue.c looks at the waiter only) may take the
\* second, just given to a task that has not run yet, ahead of a higher waiter.
AtMostOneMutex == \A m, n \in Mutexes : m = n

\* A step after which no task waits for more than before, nor at another priority.
Grows(k, j) ==
    /\ Good(j)
    /\ j.uxPriority = k.uxPriority /\ j.uxBasePriority = k.uxBasePriority
    /\ j.eventPriority = k.eventPriority
    /\ ReadyTasks(k) \subseteq ReadyTasks(j) /\ Known(j) = Known(k)
    /\ KeepsOrder(k, j)
    /\ \A l \in EventLists : Members(j.event[l]) \subseteq Members(k.event[l])
    /\ Waiters(k) \subseteq Waiters(j) \cup ReadyTasks(j)

\* The task that runs afterwards is the same or the highest that is ready.
GoesOn(k, j) ==
    \/ j.pxCurrentTCB = k.pxCurrentTCB
    \/ j.pxCurrentTCB \in ReadyTasks(j) /\ Highest(j, {})

\* A step that leaves all lists and priorities as they are.
Rests(k, j) ==
    /\ j \in KernelType /\ SameStates(k, j) /\ SameEvents(k, j)
    /\ j.uxPriority = k.uxPriority /\ j.uxBasePriority = k.uxBasePriority
    /\ j.eventPriority = k.eventPriority /\ j.pxCurrentTCB = k.pxCurrentTCB

\* No task waits for more than before, whatever becomes of the priorities.
Releases(k, j) ==
    /\ Good(j) /\ ReadyTasks(k) \subseteq ReadyTasks(j) /\ Known(j) = Known(k)
    /\ \A l \in EventLists : Members(j.event[l]) \subseteq Members(k.event[l])
    /\ Waiters(k) \subseteq Waiters(j) \cup ReadyTasks(j)

\* Whoever has lent the holder of a mutex its priority is still in its call afterwards.
LendersStay ==
    \A t \in Tasks, m \in Mutexes :
        call[t].inherited /\ call[t].obj = m /\ xMutexHolder[m] # NoTask =>
            call'[t].obj = m /\ call'[t].inherited

\* The counts of one object.
NoGiveLostOf(o) ==
    kernel.event[o] # <<>> =>
        uxMessagesWaiting[o] <= Cardinality(OnTheWay(o)) + Max({cTxLock[o], 0})

\* Fields that no list is about: the rest of a time-out, the count of the mutexes that are
\* held, the suspension, the end of an aborted wait and the stop of the system.
RestsAs(k, j, suspended, halted, held) ==
    /\ Rests(k, j) /\ j.uxSchedulerSuspended = suspended /\ j.halted = halted
    /\ j.uxMutexesHeld = held

\* The switch that a step makes necessary has been made, but where SwitchesWhenNeeded says.
SwitchKept ==
    Highest(kernel, {}) => Highest(kernel', {}) \/ kernel'.halted \/ LowersItself

\* A call of xQueueSemaphoreTake.
TakeCallType == [at : Places, obj : EventLists \cup {NoTask},
                 expired : BOOLEAN, inherited : BOOLEAN]

\* The call c follows the one that the task is in, which it may end without success.
Proceeds(t, c) ==
    /\ c \in TakeCallType
    /\ c.obj \in EventLists => c.obj = call[t].obj \/ c.obj \notin Holds(t)
    /\ c.inherited \/ c.at = "disinherit" => c.obj \in Mutexes
    /\ \A m \in Mutexes : call[t].inherited /\ call[t].obj = m /\ xMutexHolder[m] # NoTask =>
           c.obj = m /\ c.inherited
    /\ call[t].obj \in EventLists /\ Available(call[t].obj) /\ call[t].at # "disinherit" =>
           c.obj = call[t].obj /\ c.at # "disinherit"

\* A queue may become locked, without gives to hand on.
LocksOnly ==
    /\ cTxLock' \in [EventLists -> Int]
    /\ \A o \in EventLists : \/ cTxLock'[o] = cTxLock[o]
                             \/ cTxLock'[o] = 0 /\ cTxLock[o] = queueUNLOCKED

\* The holder of an object that a task of the call asks for in vain.
HolderOf(o) == IF o \in Mutexes THEN xMutexHolder[o] ELSE NoTask

\* The holder of a mutex inherits the priority of the task that is about to wait for it.
Inherits(i, t, o) ==
    LET h == xMutexHolder[o]
    IN  /\ Good(i) /\ SameEvents(kernel, i)
        /\ ReadyTasks(i) = ReadyTasks(kernel) /\ BlockedTasks(i) = BlockedTasks(kernel)
        /\ i.uxBasePriority = kernel.uxBasePriority /\ i.uxMutexesHeld = kernel.uxMutexesHeld
        /\ i.eventPriority = i.uxPriority /\ i.pxCurrentTCB = t
        /\ i.uxSchedulerSuspended = kernel.uxSchedulerSuspended
        /\ IF o \in Mutexes
           THEN i.uxPriority = [kernel.uxPriority EXCEPT ![h] =
                    IF kernel.uxPriority[h] < kernel.uxPriority[t] THEN kernel.uxPriority[t]
                    ELSE kernel.uxPriority[h]]
           ELSE i.uxPriority = kernel.uxPriority

\* What prvUnlockQueue and xTaskResumeAll do together.
Released(k, j, o, n) ==
    /\ Grows(k, j) /\ GoesOn(k, j) /\ (Highest(k, {}) => Highest(j, {}))
    /\ j.uxMutexesHeld = k.uxMutexesHeld /\ j.uxSchedulerSuspended = 0
    /\ j.pendingReady = <<>> /\ j.pxCurrentTCB \in ReadyTasks(j)
    /\ k.event[o] = <<>> => j.event[o] = <<>>
    /\ \/ j.event[o] = <<>>
       \/ Cardinality(Members(k.event[o]) \ Members(j.event[o])) >= n
-------------------------------------------------------------------------------
\* Steps of tasks.

\* The call of a task, without mutexes.
CallType == [at : TaskPlaces, obj : EventLists \cup Tasks \cup {NoTask},
             expired : BOOLEAN, inherited : {FALSE}]

\* The types of the objects.
ObjectsOK ==
    /\ uxMessagesWaiting \in [EventLists -> Nat]
    /\ xMutexHolder \in [Mutexes -> Tasks \cup {NoTask}]
    /\ cTxLock \in [EventLists -> Int]

\* The tasks that may be higher than one that runs in the call c.
Except(c) ==
    IF c.at = "yield" THEN Tasks ELSE IF c.at \in {"created", "dontStart"} THEN {c.obj} ELSE {}

\* The places between suspension and resumption of the scheduler.
SuspendedPlaces == LockedPlaces \cup {"abort"}

\* What a record of the calls must say of a task.
CallOK(t, c, lives, locks) ==
    /\ c.at \in TakePlaces => c.obj \in EventLists
    /\ c.at \in LockedPlaces => locks[c.obj] >= 0
    /\ c.at \in CreatePlaces => c.obj \in Users \ {t} /\ lives[c.obj] = "alive"
    /\ c.at = "abort" => c.obj \in Users \ {t}

\* The task t that ran before the step runs on in the call c, or one that may.
RunsOn(t, c, j) ==
    \/ /\ j.pxCurrentTCB = t
       /\ t \in ReadyTasks(j) \/ c.at \in {"yield", "unlockBlocked"}
       /\ Highest(j, Except(c))
    \/ j.pxCurrentTCB \in ReadyTasks(j) /\ Highest(j, {})

\* vTaskSuspend of u.
Suspended(k, j, u) ==
    /\ Good(j) /\ Steady(k, j) /\ EventSets(k, j, {u})
    /\ StateSets(j, ReadyTasks(k) \ {u}, Members(k.delayed) \ {u}, k.suspended \cup {u})

\* The tasks that a step may take off the list of suspended tasks.
Unsuspends(u) ==
    \/ ResumeFromISR(u)
    \/ \E t \in Users : Resume(t, u) \/ Destroy(t, u)
===============================================================================
