--------------------------- MODULE RtosalEventGroup ---------------------------
(***************************************************************************)
(* Event groups of the RTOS abstraction layer (rtosal_event.c) over        *)
(* event_groups.c: waiting for any or all of some bits, setting bits from  *)
(* a task, and from an interrupt by way of the timer daemon, destruction   *)
(* and creation, under the scheduler of RtosScheduler.                     *)
(*                                                                         *)
(* Every access to the group has the scheduler suspended or interrupts     *)
(* disabled, and interrupts do not touch the group: a step is one such     *)
(* section.  What interrupts do during a suspension takes effect at the    *)
(* end of the step, as it does just after it.                              *)
(***************************************************************************)
EXTENDS RtosScheduler

CONSTANTS
    Daemon,          \* the timer task
    Group,           \* the event list of the event group
    TimerQueue,      \* the event list of the daemon's queue
    EventBits,
    Requests,        \* [task -> what it waits for]
    BitsToSet,       \* [task -> the sets of bits it sets]
    BitsOfISR,       \* the sets of bits interrupts set
    WaitTicks,       \* the time-outs of the waits
    Destroyer,       \* the task that destroys and creates the group, or NoTask
    configTIMER_QUEUE_LENGTH

Users == Tasks \ {Idle, Daemon}

RequestType == [waitFor : SUBSET EventBits \ {{}}, all : BOOLEAN, clear : BOOLEAN]

ASSUME EventAssumption ==
    /\ Daemon \in Tasks \ {Idle}
    /\ EventLists = {Group, TimerQueue} /\ Group # TimerQueue
    /\ Requests \in [Users -> SUBSET RequestType]
    /\ BitsToSet \in [Users -> SUBSET SUBSET EventBits]
    /\ BitsOfISR \subseteq SUBSET EventBits
    /\ WaitTicks \subseteq (Nat \ {0}) \cup {Forever}
    /\ configTIMER_QUEUE_LENGTH \in Nat \ {0}

VARIABLES
    kernel,          \* the scheduler, see RtosScheduler
    uxEventBits,
    created,         \* whether the group is there
    wait,            \* [task -> its call of xEventGroupWaitBits: the request in the
                     \*  value of its event item, and what replaces it there]
    xTimerQueue,     \* the calls of vEventGroupSetBitsCallback posted to the daemon
    xTickCount       \* its lowest bit

vars == <<kernel, uxEventBits, created, wait, xTimerQueue, xTickCount>>

NoRequest == [waitFor |-> {}, all |-> FALSE, clear |-> FALSE]
NoWait    == [request |-> NoRequest, unblocked |-> FALSE, bits |-> {}]

Running(t) == kernel.pxCurrentTCB = t /\ ~kernel.halted
InWait(t)  == wait[t] # NoWait
Blocked(t) == t \in Members(kernel.event[Group])

Init ==
    /\ \E order \in SetToSeqs(Tasks \ {Idle, Daemon}) :
           kernel = SchedulerInit(Tasks, order \o <<Idle, Daemon>>)
    /\ uxEventBits = {} /\ created = TRUE
    /\ wait = [t \in Tasks |-> NoWait]
    /\ xTimerQueue = <<>> /\ xTickCount = 0
-------------------------------------------------------------------------------
\* prvTestWaitCondition
TestWaitCondition(bits, request) ==
    IF request.all THEN request.waitFor \subseteq bits ELSE request.waitFor \cap bits # {}

\* vTaskPlaceOnUnorderedEventList: behind the other waiters.
vTaskPlaceOnUnorderedEventList(k, ticks) ==
    prvAddCurrentTaskToDelayedList([k EXCEPT !.event[Group] = Append(@, k.pxCurrentTCB)], ticks)

\* vTaskRemoveFromUnorderedEventList, with the scheduler suspended.
vTaskRemoveFromUnorderedEventList(k, t) ==
    [MakeReady(RemoveEventItem(k, t), t) EXCEPT
        !.xYieldPending = @ \/ k.uxPriority[t] > k.uxPriority[k.pxCurrentTCB]]

AfterExit(request) == IF request.clear THEN uxEventBits \ request.waitFor ELSE uxEventBits

\* rtosalEventGroupGet: xEventGroupWaitBits up to where the task blocks.
Get(t) ==
    /\ Running(t) /\ ~InWait(t) /\ created
    /\ UNCHANGED <<created, xTimerQueue>>
    /\ \E request \in Requests[t] :
          \/ /\ TestWaitCondition(uxEventBits, request)
             /\ uxEventBits' = AfterExit(request)
             /\ UNCHANGED <<kernel, wait>>
          \/ /\ ~TestWaitCondition(uxEventBits, request)
             /\ \E ticks \in WaitTicks : kernel' = ResumeAndYield(
                    vTaskPlaceOnUnorderedEventList(vTaskSuspendAll(kernel), ticks))
             /\ wait' = [wait EXCEPT ![t].request = request]
             /\ UNCHANGED uxEventBits

\* The rest of it, when the task runs again: a wait that no one ended looks at the bits
\* once more.
Return(t) ==
    /\ Running(t) /\ InWait(t)
    /\ wait' = [wait EXCEPT ![t] = NoWait]
    /\ uxEventBits' = IF wait[t].unblocked \/ ~TestWaitCondition(uxEventBits, wait[t].request)
                      THEN uxEventBits ELSE AfterExit(wait[t].request)
    /\ UNCHANGED <<kernel, created, xTimerQueue>>

Unblock(w, bits) == [w EXCEPT !.unblocked = TRUE, !.bits = bits]

\* The loop of xEventGroupSetBits over the waiters; g is the group, its waiters and
\* the bits that are to be cleared after the loop.
\* Mutant: the bits are cleared at once.
VisitAndClear(g, t) ==
    LET request == wait[t].request
        bits    == g.bits \ (IF request.clear THEN request.waitFor ELSE {})
    IN  IF ~TestWaitCondition(g.bits, request) THEN g
        ELSE [k |-> vTaskRemoveFromUnorderedEventList(g.k, t), bits |-> bits,
              wait |-> [g.wait EXCEPT ![t] = Unblock(@, g.bits)], clear |-> {}]

\* Mutant: every waiter waits for all of its bits.
VisitForAll(g, t) ==
    LET request == wait[t].request
    IN  IF ~(request.waitFor \subseteq g.bits) THEN g
        ELSE [g EXCEPT !.k = vTaskRemoveFromUnorderedEventList(@, t),
                       !.wait[t] = Unblock(@, g.bits),
                       !.clear = @ \cup (IF request.clear THEN request.waitFor ELSE {})]

Visit(g, t) ==
    LET request == wait[t].request
    IN  IF ~TestWaitCondition(g.bits, request) THEN g
        ELSE [g EXCEPT !.k = vTaskRemoveFromUnorderedEventList(@, t),
                       !.wait[t] = Unblock(@, g.bits),
                       !.clear = @ \cup (IF request.clear THEN request.waitFor ELSE {})]

VisitAll(g, waiters) ==
    LET after[n \in 0 .. Len(waiters)] == IF n = 0 THEN g ELSE Visit(after[n - 1], waiters[n])
    IN  after[Len(waiters)]

xEventGroupSetBits(bits) ==
    LET start == [k |-> vTaskSuspendAll(kernel), bits |-> uxEventBits \cup bits,
                  wait |-> wait, clear |-> {}]
        end   == VisitAll(start, kernel.event[Group])
    IN  /\ kernel' = xTaskResumeAll(end.k)
        /\ wait' = end.wait
        /\ uxEventBits' = end.bits \ end.clear

\* rtosalEventGroupSet in a task.
Set(t) ==
    /\ Running(t) /\ ~InWait(t) /\ created
    /\ \E bits \in BitsToSet[t] : xEventGroupSetBits(bits)
    /\ UNCHANGED <<created, xTimerQueue>>

\* rtosalEventGroupSet in an interrupt: xEventGroupSetBitsFromISR, which fails when the
\* daemon's queue is full.
SetFromISR ==
    /\ ~kernel.halted /\ created
    /\ Len(xTimerQueue) < configTIMER_QUEUE_LENGTH
    /\ \E bits \in BitsOfISR : xTimerQueue' = Append(xTimerQueue, bits)
    /\ kernel' = IF kernel.event[TimerQueue] = <<>> THEN kernel
                 ELSE YieldIf(WakesHigher(kernel, TimerQueue),
                              xTaskRemoveFromEventList(kernel, TimerQueue))
    /\ UNCHANGED <<uxEventBits, created, wait>>

\* The daemon: prvProcessReceivedCommands with these calls, and its wait for the next.
RunsPending ==
    /\ Running(Daemon)
    /\ \/ /\ xTimerQueue # <<>>
          /\ xTimerQueue' = Tail(xTimerQueue)
          /\ xEventGroupSetBits(Head(xTimerQueue))
       \/ /\ xTimerQueue = <<>>
          /\ kernel' = ResumeAndYield(
                 vTaskPlaceOnEventList(vTaskSuspendAll(kernel), TimerQueue, Forever))
          /\ UNCHANGED <<uxEventBits, wait, xTimerQueue>>
    /\ UNCHANGED created

\* The loop of vEventGroupDelete over the waiters.
RemoveAll(k, waiters) ==
    LET after[n \in 0 .. Len(waiters)] ==
            IF n = 0 THEN k ELSE vTaskRemoveFromUnorderedEventList(after[n - 1], waiters[n])
    IN  after[Len(waiters)]

\* rtosalEventGroupDestroy: vEventGroupDelete gives every waiter no bits.
Destroy(t) ==
    /\ t = Destroyer /\ Running(t) /\ ~InWait(t) /\ created
    /\ created' = FALSE
    /\ kernel' = xTaskResumeAll(RemoveAll(vTaskSuspendAll(kernel), kernel.event[Group]))
    /\ wait' = [u \in Tasks |-> IF Blocked(u) THEN Unblock(wait[u], {}) ELSE wait[u]]
    /\ UNCHANGED <<uxEventBits, xTimerQueue>>

\* rtosalEventGroupCreate, in the storage of the one that was destroyed.
Create(t) ==
    /\ t = Destroyer /\ Running(t) /\ ~InWait(t) /\ ~created
    /\ created' = TRUE /\ uxEventBits' = {}
    /\ UNCHANGED <<kernel, wait, xTimerQueue>>

Tick ==
    /\ ~kernel.halted
    /\ kernel' = TickInterrupt(kernel)
    /\ xTickCount' = 1 - xTickCount
    /\ UNCHANGED <<uxEventBits, created, wait, xTimerQueue>>

UserStep(t) == Get(t) \/ Return(t) \/ Set(t) \/ Destroy(t) \/ Create(t)

Next ==
    \/ /\ RunsPending \/ SetFromISR \/ \E t \in Users : UserStep(t)
       /\ UNCHANGED xTickCount
    \/ Tick

\* Nothing but the tick is sure to happen.
TickCounted == ~kernel.halted /\ xTickCount' = 1 - xTickCount

Spec == Init /\ [][Next]_vars /\ WF_xTickCount(TickCounted)
-------------------------------------------------------------------------------
(***************************************************************************)
(* Properties.                                                             *)
(***************************************************************************)
\* No task goes on waiting for bits that are there, whoever set them, cleared others
\* or timed out in between; a task in a wait is on the list or about to return.
NoMissedEvent ==
    \A t \in Users : Blocked(t) =>
        /\ created /\ ~wait[t].unblocked
        /\ ~TestWaitCondition(uxEventBits, wait[t].request)

\* A set is a broadcast (event_groups.c:545): all waiters it satisfies are woken with
\* the same bits, those included that are cleared for one of them, and no others are.
SetsAreBroadcasts ==
    [][\A bits \in SUBSET EventBits : xEventGroupSetBits(bits) /\ kernel.event[Group] # <<>> =>
          LET all == uxEventBits \cup bits
          IN  \A t \in Users : Blocked(t) =>
                 IF TestWaitCondition(all, wait[t].request)
                 THEN wait'[t].unblocked /\ wait'[t].bits = all
                 ELSE t \in Members(kernel'.event[Group])]_vars

\* The destruction of a group ends every wait for its bits. It does not hold: a task
\* that has timed out and not run since is on no list, is not told, and looks at the bits
\* later (event_groups.c:395), in storage that may hold another group by then, of which
\* it clears bits (RtosalEventGroup_destroyed.cfg).
DestroyEndsEveryWait ==
    [][\A t \in Users : Destroy(t) =>
          \A u \in Users : wait'[u] # NoWait => wait'[u].unblocked]_vars

\* What an interrupt sets does not wait for ever, though a task of the daemon's priority
\* may never block: configTIMER_TASK_PRIORITY is above the highest priority there is and
\* is cut down to it (tasks.c:921), so that only the time slices let the daemon run.
DaemonIsNotStarved == []<>(xTimerQueue = <<>> \/ Running(Daemon))
===============================================================================
