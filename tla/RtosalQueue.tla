----------------------------- MODULE RtosalQueue ------------------------------
(***************************************************************************)
(* A message queue of rtosal (rtosal_queue.c over queue.c): tasks send and *)
(* receive, with or without waiting, interrupt handlers send and receive   *)
(* through the FromISR functions, tasks abort each other's waits and the   *)
(* tick goes on.                                                           *)
(*                                                                         *)
(* A call that has to wait suspends the scheduler, locks the queue, looks  *)
(* at the time and at the queue again, joins an event list, unlocks and    *)
(* resumes; each of these is a step, and between any two an interrupt may  *)
(* come.  While the queue is locked an interrupt only counts what it did,  *)
(* and prvUnlockQueue wakes the waiters.                                   *)
(***************************************************************************)
EXTENDS RtosKernel

CONSTANTS
    Items,
    uxLength,
    Requests,        \* [task -> the calls it makes, <<operation, waiting time>>]
    Aborts,          \* [task -> the tasks whose waits it aborts]
    MaxLock,         \* bound: what interrupts do to a queue while it is locked
    MaxPended,       \* bound: ticks during one suspension of the scheduler
    MaxElapsed       \* bound: ticks during one call that counts them

ASSUME QueueAssumption ==
    /\ EventLists = {"xTasksWaitingToSend", "xTasksWaitingToReceive"}
    /\ uxLength \in Nat \ {0}
    /\ Requests \in [Tasks -> SUBSET ({"send", "receive"} \X Ticks)]
    /\ Aborts \in [Tasks -> SUBSET Tasks]
    /\ MaxLock \in Nat /\ MaxPended \in Nat /\ MaxElapsed \in Nat
    /\ MaxElapsed <= TickModulus        \* so that the overflow parity tells

queueUNLOCKED          == -1
queueLOCKED_UNMODIFIED == 0

Slots == 0 .. uxLength - 1
Ends  == {"back", "front"}

VARIABLES
    storage,             \* [slot -> item], pcHead .. pcTail
    pcWriteTo, pcReadFrom,
    uxMessagesWaiting,
    cTxLock, cRxLock,
    pc,                  \* [task -> place in its call]
    call,                \* [task -> the call's arguments and locals]
    clock,               \* [task -> ticks since the call began to wait, if it counts them]
    aborted,             \* [task -> was it aborted since it last blocked or gave up
                         \* early: "no", in an "earlier" call or "now"]
    transfer             \* what the last step moved into or out of the queue

ringVars  == <<storage, pcWriteTo, pcReadFrom, uxMessagesWaiting>>
lockVars  == <<cTxLock, cRxLock>>
queueVars == <<ringVars, lockVars>>
callVars  == <<pc, call, clock, aborted>>
vars      == <<kernelVars, queueVars, callVars, transfer>>

\* then: where the call goes on when the scheduler has been resumed.
Calls == [op : {"send", "receive", "abort", "none"}, wait : Ticks, ticks : Ticks,
          set : BOOLEAN, entering : Ticks, count : {0, 1},
          then : {"try", "recheck", "app"}, target : Tasks \cup {NoTask}]

NoCall == [op |-> "none", wait |-> 0, ticks |-> 0, set |-> FALSE, entering |-> 0,
           count |-> 0, then |-> "try", target |-> NoTask]

LockedPc == {"check", "full", "place", "unlock_tx"}
Pc == LockedPc \cup {"app", "try", "suspend", "lock", "unlock_rx", "resume",
                     "recheck", "abort_state", "abort_event"}

Sending(t)   == call[t].op = "send"
Receiving(t) == call[t].op = "receive"
NoRoom       == uxMessagesWaiting = uxLength
NoMessage    == uxMessagesWaiting = 0
MustWait(t)  == IF Receiving(t) THEN NoMessage ELSE NoRoom

\* t's next piece of code is p, and t runs.
At(t, p)   == CanRun(t) /\ pc[t] = p
Goto(t, p) == pc' = [pc EXCEPT ![t] = p]

Quiet == transfer' = <<>>

\* rtosalMsgQueueCreate: an empty queue in whatever storage the caller gave.
Init ==
    /\ KernelInit
    /\ storage \in [Slots -> Items]
    /\ pcWriteTo = 0 /\ pcReadFrom = uxLength - 1
    /\ uxMessagesWaiting = 0
    /\ cTxLock = queueUNLOCKED /\ cRxLock = queueUNLOCKED
    /\ pc = [t \in Tasks |-> "app"]
    /\ call = [t \in Tasks |-> NoCall]
    /\ clock = [t \in Tasks |-> 0]
    /\ aborted = [t \in Tasks |-> "no"]
    /\ transfer = <<>>
-------------------------------------------------------------------------------
\* The ring buffer.

\* Mutant: an item sent to the front does not take the read pointer back.
CopyInPlace(end, item) ==
    /\ IF end = "back"
       THEN /\ storage' = [storage EXCEPT ![pcWriteTo] = item]
            /\ pcWriteTo' = IF pcWriteTo + 1 = uxLength THEN 0 ELSE pcWriteTo + 1
       ELSE /\ storage' = [storage EXCEPT ![pcReadFrom] = item]
            /\ UNCHANGED pcWriteTo
    /\ UNCHANGED pcReadFrom
    /\ uxMessagesWaiting' = uxMessagesWaiting + 1
    /\ transfer' = <<"send", item>>

prvCopyDataToQueue(end, item) ==
    /\ IF end = "back"
       THEN /\ storage' = [storage EXCEPT ![pcWriteTo] = item]
            /\ pcWriteTo' = IF pcWriteTo + 1 = uxLength THEN 0 ELSE pcWriteTo + 1
            /\ UNCHANGED pcReadFrom
       ELSE /\ storage' = [storage EXCEPT ![pcReadFrom] = item]
            /\ pcReadFrom' = IF pcReadFrom = 0 THEN uxLength - 1 ELSE pcReadFrom - 1
            /\ UNCHANGED pcWriteTo
    /\ uxMessagesWaiting' = uxMessagesWaiting + 1
    /\ transfer' = <<"send", item>>

prvCopyDataFromQueue ==
    LET from == IF pcReadFrom + 1 = uxLength THEN 0 ELSE pcReadFrom + 1
    IN  /\ pcReadFrom' = from
        /\ uxMessagesWaiting' = uxMessagesWaiting - 1
        /\ transfer' = <<"receive", storage[from]>>
        /\ UNCHANGED <<storage, pcWriteTo>>
-------------------------------------------------------------------------------
\* A task's call, up to the point where it has to wait.  What a sender's buffer
\* holds, and which of the two send functions it calls, matters when it is copied.

Call(t) ==
    /\ At(t, "app")
    /\ \E r \in Requests[t] :
          call' = [call EXCEPT ![t] = [NoCall EXCEPT !.op = r[1], !.wait = r[2], !.ticks = r[2]]]
    /\ Goto(t, "try")
    /\ Quiet /\ UNCHANGED <<kernelVars, queueVars, clock, aborted>>

\* The call returns.
Return(t) ==
    /\ Goto(t, "app")
    /\ call' = [call EXCEPT ![t] = NoCall]
    /\ clock' = [clock EXCEPT ![t] = 0]
    /\ aborted' = [aborted EXCEPT ![t] =
                      IF @ = "no" \/ (transfer' = <<>> /\ clock[t] < call[t].wait)
                      THEN "no" ELSE "earlier"]

Send(t) ==
    /\ At(t, "try") /\ Sending(t) /\ ~NoRoom
    /\ \E end \in Ends, item \in Items : prvCopyDataToQueue(end, item)
    /\ RemoveFromEventList("xTasksWaitingToReceive", 1)
    /\ Return(t)
    /\ UNCHANGED <<timeVars, suspender, uxPendedTicks, ucDelayAborted, lockVars>>

Receive(t) ==
    /\ At(t, "try") /\ Receiving(t) /\ ~NoMessage
    /\ prvCopyDataFromQueue
    /\ RemoveFromEventList("xTasksWaitingToSend", 1)
    /\ Return(t)
    /\ UNCHANGED <<timeVars, suspender, uxPendedTicks, ucDelayAborted, lockVars>>

\* errQUEUE_FULL or errQUEUE_EMPTY without waiting (any more).
GiveUp(t) ==
    /\ At(t, "try") /\ MustWait(t) /\ call[t].ticks = 0
    /\ Quiet /\ Return(t)
    /\ UNCHANGED <<kernelVars, queueVars>>

\* vTaskInternalSetTimeOutState; a wait without end never looks at the two.
Entered(c) ==
    IF c.wait = portMAX_DELAY THEN [c EXCEPT !.set = TRUE]
    ELSE [c EXCEPT !.set = TRUE, !.entering = xTickCount, !.count = xNumOfOverflows]

EnterWait(t) ==
    /\ At(t, "try") /\ MustWait(t) /\ call[t].ticks # 0
    /\ call' = [call EXCEPT ![t] = IF @.set THEN @ ELSE Entered(@)]
    /\ Goto(t, "suspend")
    /\ Quiet /\ UNCHANGED <<kernelVars, queueVars, clock, aborted>>
-------------------------------------------------------------------------------
\* The way into and out of a wait.

SuspendAll(t) ==
    /\ At(t, "suspend")
    /\ vTaskSuspendAll(t)
    /\ Goto(t, "lock")
    /\ Quiet
    /\ UNCHANGED <<listVars, timeVars, uxPendedTicks, ucDelayAborted, queueVars,
                   call, clock, aborted>>

prvLockQueue(t) ==
    /\ At(t, "lock")
    /\ cTxLock' = IF cTxLock = queueUNLOCKED THEN queueLOCKED_UNMODIFIED ELSE cTxLock
    /\ cRxLock' = IF cRxLock = queueUNLOCKED THEN queueLOCKED_UNMODIFIED ELSE cRxLock
    /\ Goto(t, "check")
    /\ Quiet /\ UNCHANGED <<kernelVars, ringVars, call, clock, aborted>>

\* Mutant: the time that has passed is subtracted, but still counted from then.
SubtractOnly(c) == [c EXCEPT !.ticks = @ - Elapsed(c.entering)]

Remaining(c) == Entered([c EXCEPT !.ticks = @ - Elapsed(c.entering)])

\* xTaskCheckForTimeOut.  An aborted wait counts as expired, but keeps its ticks,
\* and so does one whose ticks the tick count has wrapped past.
CheckForTimeOut(t) ==
    /\ At(t, "check")
    /\ LET c       == call[t]
           wrapped == xNumOfOverflows # c.count /\ xTickCount >= c.entering
           expired == \/ ucDelayAborted[t]
                      \/ TimedOut(c.ticks, c.entering, c.count)
           after   == IF ucDelayAborted[t] \/ c.ticks = portMAX_DELAY \/ wrapped THEN c
                      ELSE IF expired THEN [c EXCEPT !.ticks = 0]
                      ELSE Remaining(c)
       IN  /\ call' = [call EXCEPT ![t] =
                 IF expired
                 THEN [after EXCEPT !.then = IF Receiving(t) THEN "recheck" ELSE "app"]
                 ELSE [after EXCEPT !.then = "try"]]
           /\ Goto(t, IF expired THEN "unlock_tx" ELSE "full")
    /\ ucDelayAborted' = [ucDelayAborted EXCEPT ![t] = FALSE]
    /\ Quiet
    /\ UNCHANGED <<listVars, timeVars, suspender, uxPendedTicks, queueVars, clock, aborted>>

\* prvIsQueueFull or prvIsQueueEmpty; if there is room again the call tries again.
LookAgain(t) ==
    /\ At(t, "full")
    /\ Goto(t, IF MustWait(t) THEN "place" ELSE "unlock_tx")
    /\ Quiet /\ UNCHANGED <<kernelVars, queueVars, call, clock, aborted>>

EventList(t) == IF Receiving(t) THEN "xTasksWaitingToReceive" ELSE "xTasksWaitingToSend"

PlaceOnEventList(t) ==
    /\ At(t, "place")
    /\ vTaskPlaceOnEventList(t, EventList(t), call[t].ticks)
    /\ aborted' = [aborted EXCEPT ![t] = "no"]
    /\ Goto(t, "unlock_tx")
    /\ Quiet
    /\ UNCHANGED <<xPendingReadyList, xTickCount, xNumOfOverflows, suspender,
                   uxPendedTicks, queueVars, call, clock>>

\* prvUnlockQueue has a critical section for each of the two counts.
UnlockTx(t) ==
    /\ At(t, "unlock_tx")
    /\ RemoveFromEventList("xTasksWaitingToReceive", cTxLock)
    /\ cTxLock' = queueUNLOCKED
    /\ Goto(t, "unlock_rx")
    /\ Quiet
    /\ UNCHANGED <<timeVars, suspender, uxPendedTicks, ucDelayAborted, ringVars, cRxLock,
                   call, clock, aborted>>

UnlockRx(t) ==
    /\ At(t, "unlock_rx")
    /\ RemoveFromEventList("xTasksWaitingToSend", cRxLock)
    /\ cRxLock' = queueUNLOCKED
    /\ Goto(t, "resume")
    /\ Quiet
    /\ UNCHANGED <<timeVars, suspender, uxPendedTicks, ucDelayAborted, ringVars, cTxLock,
                   call, clock, aborted>>

\* xTaskResumeAll; a send whose time is over then returns, and so does an abort.
Resume(t) ==
    /\ At(t, "resume")
    /\ ResumeAll
    /\ Quiet
    /\ IF call[t].then = "app" THEN Return(t)
       ELSE /\ Goto(t, call[t].then)
            /\ call' = [call EXCEPT ![t].then = "try"]
            /\ UNCHANGED <<clock, aborted>>
    /\ UNCHANGED <<eventList, xTickCount, xNumOfOverflows, uxPendedTicks,
                   ucDelayAborted, queueVars>>

\* A receive whose time is over looks a last time and tries again if there is a
\* message.
Recheck(t) ==
    /\ At(t, "recheck")
    /\ Quiet
    /\ IF NoMessage THEN Return(t) ELSE Goto(t, "try") /\ UNCHANGED <<call, clock, aborted>>
    /\ UNCHANGED <<kernelVars, queueVars>>
-------------------------------------------------------------------------------
\* rtosalTaskWaitAbort(u), called by t.

Abort(t) ==
    /\ At(t, "app")
    /\ vTaskSuspendAll(t)
    /\ \E u \in Aborts[t] : call' = [call EXCEPT ![t] =
                             [NoCall EXCEPT !.op = "abort", !.target = u, !.then = "app"]]
    /\ Goto(t, "abort_state")
    /\ Quiet
    /\ UNCHANGED <<listVars, timeVars, uxPendedTicks, ucDelayAborted, queueVars,
                   clock, aborted>>

AbortStateItem(t) ==
    /\ At(t, "abort_state")
    /\ Quiet
    /\ IF Blocked(call[t].target)
       THEN AbortState(call[t].target) /\ Goto(t, "abort_event")
       ELSE UNCHANGED <<xStateListItem, xItemValue>> /\ Goto(t, "resume")
    /\ UNCHANGED <<eventList, xPendingReadyList, timeVars, suspender, uxPendedTicks,
                   ucDelayAborted, queueVars, call, clock, aborted>>

AbortEventItem(t) ==
    /\ At(t, "abort_event")
    /\ AbortEvent(call[t].target)
    /\ aborted' = [aborted EXCEPT ![call[t].target] = "now"]
    /\ Goto(t, "resume")
    /\ Quiet
    /\ UNCHANGED <<xItemValue, timeVars, suspender, uxPendedTicks, queueVars, call, clock>>
-------------------------------------------------------------------------------
\* Interrupt handlers and the tick.

\* Mutant: the handler does not count what it did to a locked queue.
IsrSendUncounted ==
    /\ ~Processing /\ ~NoRoom
    /\ \E end \in Ends, item \in Items : prvCopyDataToQueue(end, item)
    /\ IF cTxLock = queueUNLOCKED
       THEN RemoveFromEventList("xTasksWaitingToReceive", 1)
       ELSE UNCHANGED listVars
    /\ UNCHANGED <<timeVars, suspender, uxPendedTicks, ucDelayAborted, lockVars, callVars>>

\* xQueueGenericSendFromISR
IsrSend ==
    /\ ~Processing /\ ~NoRoom
    /\ \E end \in Ends, item \in Items : prvCopyDataToQueue(end, item)
    /\ IF cTxLock = queueUNLOCKED
       THEN RemoveFromEventList("xTasksWaitingToReceive", 1) /\ UNCHANGED cTxLock
       ELSE cTxLock < MaxLock /\ cTxLock' = cTxLock + 1 /\ UNCHANGED listVars
    /\ UNCHANGED <<timeVars, suspender, uxPendedTicks, ucDelayAborted, cRxLock, callVars>>

\* xQueueReceiveFromISR
IsrReceive ==
    /\ ~Processing /\ ~NoMessage
    /\ prvCopyDataFromQueue
    /\ IF cRxLock = queueUNLOCKED
       THEN RemoveFromEventList("xTasksWaitingToSend", 1) /\ UNCHANGED cRxLock
       ELSE cRxLock < MaxLock /\ cRxLock' = cRxLock + 1 /\ UNCHANGED listVars
    /\ UNCHANGED <<timeVars, suspender, uxPendedTicks, ucDelayAborted, cTxLock, callVars>>

\* The clocks of the calls that count their ticks.
Advance ==
    clock' = [t \in Tasks |-> IF call[t].set /\ call[t].wait # portMAX_DELAY
                              THEN clock[t] + 1 ELSE 0]

PendedTick ==
    /\ ProcessPendedTick
    /\ Advance
    /\ Quiet /\ UNCHANGED <<queueVars, pc, call, aborted>>

Tick ==
    /\ uxPendedTicks < MaxPended
    /\ \A t \in Tasks : clock[t] + uxPendedTicks < MaxElapsed
    /\ TickInterrupt
    /\ IF suspender = NoTask THEN Advance ELSE UNCHANGED clock
    /\ Quiet /\ UNCHANGED <<queueVars, pc, call, aborted>>

QueueStep(t) ==
    \/ Send(t) \/ Receive(t) \/ GiveUp(t) \/ EnterWait(t) \/ SuspendAll(t)
    \/ prvLockQueue(t) \/ CheckForTimeOut(t) \/ LookAgain(t) \/ PlaceOnEventList(t)
    \/ UnlockTx(t) \/ UnlockRx(t) \/ Resume(t) \/ Recheck(t)
    \/ AbortStateItem(t) \/ AbortEventItem(t)

Next ==
    \/ \E t \in Tasks : Call(t) \/ Abort(t) \/ QueueStep(t)
    \/ IsrSend \/ IsrReceive \/ Tick \/ PendedTick

Spec == Init /\ [][Next]_vars
-------------------------------------------------------------------------------
TypeOK ==
    /\ KernelTypeOK
    /\ storage \in [Slots -> Items]
    /\ pcWriteTo \in Slots /\ pcReadFrom \in Slots
    /\ uxMessagesWaiting \in 0 .. uxLength
    /\ cTxLock \in queueUNLOCKED .. MaxLock /\ cRxLock \in queueUNLOCKED .. MaxLock
    /\ pc \in [Tasks -> Pc]
    /\ call \in [Tasks -> Calls]
    /\ clock \in [Tasks -> 0 .. MaxElapsed]
    /\ aborted \in [Tasks -> {"no", "earlier", "now"}]

\* The places of a task in the event lists and in the pending list.
Places(t) ==
    LET in(s) == {i \in DOMAIN s : s[i] = t}
    IN  (UNION {{<<l, i>> : i \in in(eventList[l])} : l \in EventLists})
            \cup {<<"pending", i>> : i \in in(xPendingReadyList)}

\* A task is in one event list or the pending list exactly while its state item is
\* in a list of blocked tasks, tasks are pending only while the scheduler is
\* suspended, and a waiter is in the list of its own operation: timeouts, aborts,
\* handlers and xTaskResumeAll take the two items of a task out together.
BlockedTasksWaitOnce ==
    /\ \A t \in Tasks :
          /\ Cardinality(Places(t)) <= 1
          /\ xStateListItem[t] = "ready" => Places(t) = {}
          /\ xStateListItem[t] # "none" /\ Places(t) = {} => xStateListItem[t] = "ready"
          /\ \A l \in EventLists : \A i \in DOMAIN eventList[l] :
                eventList[l][i] = t => l = EventList(t)
          /\ xStateListItem[t] = "none" =>
                \E u \in Tasks : pc[u] = "abort_event" /\ call[u].target = t
    /\ xPendingReadyList # <<>> => suspender # NoTask

\* A task that will look at the queue again without being woken.
WillTry(t) ==
    /\ ~Waiting(t)
    /\ \/ pc[t] = "try"
       \/ pc[t] \in {"unlock_rx", "resume"} /\ call[t].then = "try"

Coming(op) == {t \in Tasks : WillTry(t) /\ call[t].op = op}

\* No message is left lying while receivers wait for one, and no room while
\* senders wait: once the queue is unlocked, each message that is not announced to
\* a waiter has another receiver on its way to it.  A handler that posts between
\* the look at the queue and the event list, or while a wait is aborted or runs
\* out of time, must not leave a waiter behind.
NoLostWakeup ==
    /\ cTxLock = queueUNLOCKED /\ eventList["xTasksWaitingToReceive"] # <<>>
          => uxMessagesWaiting <= Cardinality(Coming("receive"))
    /\ cRxLock = queueUNLOCKED /\ eventList["xTasksWaitingToSend"] # <<>>
          => uxLength - uxMessagesWaiting <= Cardinality(Coming("send"))

\* No wait lasts longer than the caller allowed: a task that is still in a delayed
\* list has seen fewer ticks than its waiting time, whatever the tick count's
\* wrapping, pended ticks and the cached next unblock time did.
WakesOnTime ==
    \A t \in Tasks : xStateListItem[t] \in {"delayed", "overflow"} => clock[t] < call[t].wait

\* A call that returns without a transfer.
GivesUp(t) ==
    (Sending(t) \/ Receiving(t)) /\ call[t] # call'[t] /\ pc'[t] = "app"
        /\ transfer' = <<>>

\* A call gives up only when its time is over, or when the task has been aborted
\* since the last call that gave up early.
EarlyReturnNeedsAbort ==
    [][\A t \in Tasks : GivesUp(t) => clock[t] >= call[t].wait \/ aborted[t] # "no"]_vars

\* rtosal_queue.c promises QUEUE_EMPTY or QUEUE_FULL only if the queue was so for
\* the waiting time: a call that nobody aborts waits as long as it was asked to.
EmptyMeansWindowPassed ==
    [][\A t \in Tasks : GivesUp(t) => clock[t] >= call[t].wait \/ aborted[t] = "now"]_vars

\* The i-th slot behind `from`, and the items between the two pointers, the next
\* to leave first.
Slot(from, i) == IF from + i < uxLength THEN from + i ELSE from + i - uxLength

Contents == [i \in 1 .. uxMessagesWaiting |-> storage[Slot(pcReadFrom, i)]]

Abstract == INSTANCE MessageQueue WITH Length <- uxLength, queue <- Contents

\* Tasks and handlers send to and receive from one queue, first in first out from
\* the back, whatever is locked, suspended or waiting.
ImplementsMessageQueue == Abstract!Spec
-------------------------------------------------------------------------------
(***************************************************************************)
(* The inductive invariant of the proof: the write pointer stands behind   *)
(* the last item, or at the first one if the ring is full.                 *)
(***************************************************************************)
RingInv ==
    /\ storage \in [Slots -> Items]
    /\ pcReadFrom \in Slots
    /\ uxMessagesWaiting \in 0 .. uxLength
    /\ pcWriteTo = Slot(pcReadFrom, IF NoRoom THEN 1 ELSE uxMessagesWaiting + 1)

(***************************************************************************)
(* And those of the proofs about waiting.                                  *)
(***************************************************************************)

\* A task has suspended the scheduler exactly between the call that suspends it and
\* the one that resumes it, and the queue is locked before it is looked at.
SuspendedPc == LockedPc \cup {"lock", "unlock_rx", "resume", "abort_state", "abort_event"}

SuspendOf(t) ==
    /\ suspender = t <=> pc[t] \in SuspendedPc
    /\ pc[t] \in LockedPc => cTxLock # queueUNLOCKED
    /\ pc[t] \in LockedPc \cup {"unlock_rx"} => cRxLock # queueUNLOCKED

Leaving(t) == pc[t] \in {"unlock_tx", "unlock_rx", "resume"}

\* What a call's record c and its clock k say at each place p.
CallFits(p, c, k) ==
    /\ p = "app" => c = NoCall
    /\ p \in {"abort_state", "abort_event"} => c.op = "abort"
    /\ p = "resume" => c.op \in {"send", "receive", "abort"}
    /\ p \notin {"app", "abort_state", "abort_event", "resume"} => c.op \in {"send", "receive"}
    /\ c.op = "abort" => c.wait = 0 /\ c.then = "app" /\ c.target \in Tasks
    /\ c.then # "try" => p \in {"unlock_tx", "unlock_rx", "resume"} \/ c.op = "abort"
    /\ c.ticks <= c.wait
    /\ c.wait = portMAX_DELAY => c.ticks = portMAX_DELAY /\ k = 0
    /\ ~c.set => c.ticks = c.wait /\ k = 0
    /\ p \notin {"app", "try"} /\ c.op # "abort" => c.set

CallOf(t) ==
    /\ CallFits(pc[t], call[t], clock[t])
    /\ clock[t] + uxPendedTicks <= MaxElapsed

\* BlockedTasksWaitOnce list by list; and a task that is not ready is on its way out
\* of the code that blocked it, or waits to try again.
EventListsInv ==
    /\ \A l \in EventLists :
          /\ Distinct(eventList[l])
          /\ \A t \in Members(eventList[l]) : l = EventList(t) /\ ~Pending(t)
    /\ Distinct(xPendingReadyList)
    /\ xPendingReadyList # <<>> => suspender # NoTask

BlockedOf(t) ==
    /\ xStateListItem[t] = "ready" => ~Waiting(t) /\ ~Pending(t)
    /\ xStateListItem[t] \notin {"ready", "none"} => Waiting(t) \/ Pending(t)
    /\ xStateListItem[t] = "none" =>
          \E u \in Tasks : pc[u] = "abort_event" /\ call[u].target = t
    /\ xStateListItem[t] # "ready" => pc[t] = "try" \/ (Leaving(t) /\ call[t].then = "try")

\* A record that counts ticks, and how many have passed since it recorded the time.
Counts(c)    == c.set /\ c.wait # portMAX_DELAY
Passed(c, k) == k - (c.wait - c.ticks)

\* The recorded time, tick count and overflow parity tell what has passed of a wait.
RecordFits(p, c, k) ==
    /\ Counts(c) /\ c.ticks # 0 =>
          /\ Passed(c, k) >= 0
          /\ c.entering + Passed(c, k) =
                xTickCount + (IF xNumOfOverflows = c.count THEN 0 ELSE TickModulus)
    /\ Counts(c) /\ c.ticks = 0 => k >= c.wait
    /\ p \in {"full", "place"} => c.ticks # 0 /\ (Counts(c) => k + c.ticks = c.wait)

\* The list and the wake time of a task tell what is left of it.
WakeFits(list, wake, c, k) ==
    /\ list \in {"delayed", "overflow"} => Counts(c)
    /\ list = "delayed" =>
          /\ xTickCount < wake /\ xNextTaskUnblockTime <= wake
          /\ k + (wake - xTickCount) = c.wait
    /\ list = "overflow" => k + (wake + TickModulus - xTickCount) = c.wait

TimeOf(t) ==
    /\ RecordFits(pc[t], call[t], clock[t])
    /\ WakeFits(xStateListItem[t], xItemValue[t], call[t], clock[t])

\* An abort that counts is one since the last call that gave up early, and a call
\* that is about to give up has had its time or was aborted.
AbortOf(t) ==
    /\ ucDelayAborted[t] => aborted[t] # "no"
    /\ \/ pc[t] = "recheck"
       \/ Leaving(t) /\ call[t].op # "abort" /\ call[t].then # "try"
       => ~ucDelayAborted[t] /\ (clock[t] >= call[t].wait \/ aborted[t] # "no")

CallsInv == \A t \in Tasks : SuspendOf(t) /\ CallOf(t)
ListInv  == EventListsInv /\ \A t \in Tasks : BlockedOf(t)
TimeInv  == \A t \in Tasks : TimeOf(t)
AbortInv == \A t \in Tasks : AbortOf(t)

\* NoLostWakeup, also while the queue is locked and for a task that has looked at it
\* and is about to wait: what handlers did meanwhile has been counted.
Counted(lock) == IF lock = queueUNLOCKED THEN 0 ELSE lock

Operations == {"send", "receive"}
ListOf(op) == IF op = "receive" THEN "xTasksWaitingToReceive" ELSE "xTasksWaitingToSend"
Goods(op)  == IF op = "receive" THEN uxMessagesWaiting ELSE uxLength - uxMessagesWaiting
LockOf(op) == IF op = "receive" THEN cTxLock ELSE cRxLock

WakeOf(op) ==
    \/ eventList[ListOf(op)] # <<>>
    \/ \E t \in Tasks : pc[t] = "place" /\ call[t].op = op
    => Goods(op) <= Cardinality(Coming(op)) + Counted(LockOf(op))

WakeInv == \A op \in Operations : WakeOf(op)
===============================================================================
