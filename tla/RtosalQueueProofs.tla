--------------------------- MODULE RtosalQueueProofs ---------------------------
(***************************************************************************)
(* Proofs about RtosalQueue, for every length, every set of items, tasks,  *)
(* priorities and calls: the queue is the FIFO of MessageQueue, and the    *)
(* waits are sound - each task waits in one place, no wakeup is lost, and  *)
(* no wait ends late, or early without an abort.                           *)
(*                                                                         *)
(* A step of a task, a handler or the tick does one of three things to the *)
(* ring buffer: it copies an item in where there is room, it copies one    *)
(* out where there is one, or it leaves the ring alone.  The first two are *)
(* a step of MessageQueue by the arithmetic of the two pointers.           *)
(*                                                                         *)
(* The waits need one invariant of five parts (IInv).  CallsInv says what  *)
(* a call has done when it is at a place, ListInv where the list items of  *)
(* a task are, TimeInv what is left of a wait, AbortInv that what ends a   *)
(* wait early is an abort, and WakeInv that whoever could be woken is met  *)
(* by as many tasks on their way as there are goods for them, or by a      *)
(* locked queue that counts what has come.  A step is described by what it *)
(* does to one task (Moves, StaysIn, PlaceMoves, ...), and each part is    *)
(* kept by every such description.                                         *)
(***************************************************************************)
EXTENDS RtosalQueue, RtosLemmas

\* The n items behind slot r.
Ring(st, r, n) == [i \in 1 .. n |-> st[Slot(r, i)]]

\* What a step does to the ring.
RingStep ==
    \/ /\ uxMessagesWaiting < uxLength
       /\ \E end \in Ends, item \in Items : prvCopyDataToQueue(end, item)
    \/ uxMessagesWaiting > 0 /\ prvCopyDataFromQueue
    \/ UNCHANGED ringVars /\ transfer' = <<>>

\* A slot counted from a slot is a slot.
LEMMA SlotIsSlot ==
    ASSUME NEW r \in Slots, NEW i \in 1 .. uxLength
    PROVE  Slot(r, i) \in Slots
BY QueueAssumption DEF Slot, Slots

\* The contents of a ring are a sequence of its length.
LEMMA RingIsSeq ==
    ASSUME NEW st \in [Slots -> Items], NEW r \in Slots, NEW n \in 0 .. uxLength
    PROVE  /\ Ring(st, r, n) \in Seq(Items)
           /\ Len(Ring(st, r, n)) = n
           /\ \A i \in 1 .. n : Ring(st, r, n)[i] = st[Slot(r, i)]
<1>1. n \in Nat /\ \A i \in 1 .. n : i \in 1 .. uxLength
  BY QueueAssumption
<1>2. \A i \in 1 .. n : st[Slot(r, i)] \in Items
  BY <1>1, SlotIsSlot
<1>3. Ring(st, r, n) \in [1 .. n -> Items]
  BY <1>2 DEF Ring
<1> QED
  BY <1>1, <1>3 DEF Ring

\* An item written behind the last one is appended.
LEMMA BackAppends ==
    ASSUME NEW st \in [Slots -> Items], NEW r \in Slots,
           NEW n \in 0 .. uxLength - 1, NEW item \in Items
    PROVE  Ring([st EXCEPT ![Slot(r, n + 1)] = item], r, n + 1)
               = Append(Ring(st, r, n), item)
<1> DEFINE new == [st EXCEPT ![Slot(r, n + 1)] = item]
<1>1. n \in 0 .. uxLength /\ n + 1 \in 0 .. uxLength /\ n + 1 \in 1 .. uxLength /\ n \in Nat
  BY QueueAssumption
<1>2. new \in [Slots -> Items]
  OBVIOUS
<1>3. Slot(r, n + 1) \in Slots
  BY <1>1, SlotIsSlot
<1>4. \A i \in 1 .. n : Slot(r, i) # Slot(r, n + 1) /\ Slot(r, i) \in Slots
  BY <1>1, QueueAssumption DEF Slot, Slots
<1>5. \A i \in 1 .. n : new[Slot(r, i)] = st[Slot(r, i)]
  BY <1>4
<1>6. new[Slot(r, n + 1)] = item
  BY <1>3
<1> DEFINE a == Ring(new, r, n + 1)
           b == Append(Ring(st, r, n), item)
<1>7. a \in Seq(Items) /\ Len(a) = n + 1 /\ \A i \in 1 .. n + 1 : a[i] = new[Slot(r, i)]
  BY <1>1, <1>2, RingIsSeq
<1>8. /\ Ring(st, r, n) \in Seq(Items) /\ Len(Ring(st, r, n)) = n
      /\ \A i \in 1 .. n : Ring(st, r, n)[i] = st[Slot(r, i)]
  BY <1>1, RingIsSeq
<1>9. /\ b \in Seq(Items) /\ Len(b) = n + 1 /\ b[n + 1] = item
      /\ \A i \in 1 .. n : b[i] = Ring(st, r, n)[i]
  BY <1>8, AppendProperties
<1>10. ASSUME NEW i \in 1 .. Len(a) PROVE a[i] = b[i]
  <2>1. CASE i = n + 1
    BY <2>1, <1>1, <1>6, <1>7, <1>9
  <2>2. CASE i # n + 1
    <3>1. i \in 1 .. n
      BY <2>2, <1>1, <1>7
    <3> QED
      BY <3>1, <1>1, <1>5, <1>7, <1>8, <1>9
  <2> QED
    BY <2>1, <2>2
<1> HIDE DEF a, b, new
<1>11. a = b
  BY <1>7, <1>9, <1>10, SeqEqual
<1> QED
  BY <1>11 DEF a, b, new

\* An item written at the read pointer, which then moves back, leaves first.
LEMMA FrontPrepends ==
    ASSUME NEW st \in [Slots -> Items], NEW r \in Slots,
           NEW n \in 0 .. uxLength - 1, NEW item \in Items
    PROVE  Ring([st EXCEPT ![r] = item], IF r = 0 THEN uxLength - 1 ELSE r - 1, n + 1)
               = <<item>> \o Ring(st, r, n)
<1> DEFINE new == [st EXCEPT ![r] = item]
           q   == IF r = 0 THEN uxLength - 1 ELSE r - 1
<1>1. n \in 0 .. uxLength /\ n + 1 \in 0 .. uxLength /\ n \in Nat /\ q \in Slots
  BY QueueAssumption DEF Slots
<1>2. new \in [Slots -> Items]
  OBVIOUS
<1>3. Slot(q, 1) = r
  BY QueueAssumption DEF Slot, Slots
<1>4. \A i \in 1 .. n : Slot(q, i + 1) = Slot(r, i) /\ Slot(r, i) # r /\ Slot(r, i) \in Slots
  BY QueueAssumption DEF Slot, Slots
<1>5. \A i \in 1 .. n : new[Slot(q, i + 1)] = st[Slot(r, i)]
  BY <1>4
<1>6. new[Slot(q, 1)] = item
  BY <1>3
<1> DEFINE a == Ring(new, q, n + 1)
           b == <<item>> \o Ring(st, r, n)
<1>7. a \in Seq(Items) /\ Len(a) = n + 1 /\ \A i \in 1 .. n + 1 : a[i] = new[Slot(q, i)]
  <2> HIDE DEF new, q
  <2> QED
    BY <1>1, <1>2, RingIsSeq
<1>8. /\ Ring(st, r, n) \in Seq(Items) /\ Len(Ring(st, r, n)) = n
      /\ \A i \in 1 .. n : Ring(st, r, n)[i] = st[Slot(r, i)]
  BY <1>1, RingIsSeq
<1>9. <<item>> \in Seq(Items) /\ Len(<<item>>) = 1 /\ <<item>>[1] = item
  OBVIOUS
<1>10. /\ b \in Seq(Items) /\ Len(b) = 1 + n
       /\ \A i \in 1 .. 1 + n : b[i] = IF i <= 1 THEN <<item>>[i]
                                       ELSE Ring(st, r, n)[i - 1]
  BY <1>8, <1>9, ConcatProperties
<1> HIDE DEF a, b, new, q
<1>11. ASSUME NEW i \in 1 .. Len(a) PROVE a[i] = b[i]
  <2>1. CASE i = 1
    <3>1. 1 \in 1 .. n + 1 /\ 1 \in 1 .. 1 + n /\ 1 <= 1
      BY <1>1
    <3> QED
      BY <2>1, <3>1, <1>6, <1>7, <1>9, <1>10
  <2>2. CASE i # 1
    <3>1. i - 1 \in 1 .. n /\ (i - 1) + 1 = i /\ ~(i <= 1) /\ i \in 1 .. n + 1 /\ i \in 1 .. 1 + n
      BY <2>2, <1>1, <1>7
    <3>2. a[i] = st[Slot(r, i - 1)]
      BY <3>1, <1>5, <1>7
    <3> QED
      BY <3>1, <3>2, <1>8, <1>10
  <2> QED
    BY <2>1, <2>2
<1>12. a = b
  BY <1>1, <1>7, <1>10, <1>11, SeqEqual
<1> QED
  BY <1>12 DEF a, b, new, q

\* What is read behind the read pointer is the head, and the rest remains.
LEMMA ReceiveTakesHead ==
    ASSUME NEW st \in [Slots -> Items], NEW r \in Slots, NEW n \in 1 .. uxLength
    PROVE  LET from == IF r + 1 = uxLength THEN 0 ELSE r + 1
           IN  /\ Ring(st, r, n) # <<>>
               /\ Head(Ring(st, r, n)) = st[from]
               /\ Tail(Ring(st, r, n)) = Ring(st, from, n - 1)
<1> DEFINE from == IF r + 1 = uxLength THEN 0 ELSE r + 1
           a == Ring(st, r, n)
           b == Ring(st, from, n - 1)
<1>1. n \in 0 .. uxLength /\ n - 1 \in 0 .. uxLength /\ n \in Nat /\ from \in Slots
  BY QueueAssumption DEF Slots
<1>2. Slot(r, 1) = from
  BY QueueAssumption DEF Slot, Slots
<1>3. \A i \in 1 .. n - 1 : Slot(from, i) = Slot(r, i + 1)
  BY QueueAssumption DEF Slot, Slots
<1>4. a \in Seq(Items) /\ Len(a) = n /\ \A i \in 1 .. n : a[i] = st[Slot(r, i)]
  BY <1>1, RingIsSeq
<1>5. b \in Seq(Items) /\ Len(b) = n - 1 /\ \A i \in 1 .. n - 1 : b[i] = st[Slot(from, i)]
  <2> HIDE DEF from
  <2> QED
    BY <1>1, RingIsSeq
<1> HIDE DEF a, b, from
<1>6. a # <<>> /\ Head(a) = a[1]
  BY <1>4
<1>7. Head(a) = st[from]
  BY <1>2, <1>4, <1>6
<1>8. Tail(a) \in Seq(Items) /\ Len(Tail(a)) = n - 1
      /\ \A i \in 1 .. n - 1 : Tail(a)[i] = a[i + 1]
  BY <1>4, <1>6, HeadTailProperties
<1>9. \A i \in 1 .. n - 1 : Tail(a)[i] = b[i]
  BY <1>1, <1>3, <1>4, <1>5, <1>8
<1>10. Tail(a) = b
  BY <1>1, <1>5, <1>8, <1>9, SeqEqual
<1> QED
  BY <1>6, <1>7, <1>10 DEF a, b, from
-------------------------------------------------------------------------------
\* Whoever takes a step, it does one of the three things to the ring.
LEMMA StepsOfTheRing ==
    ASSUME RingInv, Next
    PROVE  RingStep
<1> USE QueueAssumption DEF RingInv, RingStep, NoRoom, NoMessage, Quiet
<1>1. ASSUME NEW t \in Tasks, Call(t) \/ Abort(t)
      PROVE  RingStep
  BY <1>1 DEF Call, Abort, queueVars, ringVars
<1>2. ASSUME NEW t \in Tasks, QueueStep(t)
      PROVE  RingStep
  <2>1. CASE Send(t)
    BY <2>1 DEF Send
  <2>2. CASE Receive(t)
    BY <2>2 DEF Receive
  <2>3. CASE GiveUp(t) \/ EnterWait(t)
    BY <2>3 DEF GiveUp, EnterWait, queueVars, ringVars
  <2>4. CASE SuspendAll(t) \/ prvLockQueue(t)
    BY <2>4 DEF SuspendAll, prvLockQueue, queueVars, ringVars
  <2>5. CASE CheckForTimeOut(t) \/ LookAgain(t) \/ PlaceOnEventList(t)
    BY <2>5 DEF CheckForTimeOut, LookAgain, PlaceOnEventList, queueVars, ringVars
  <2>6. CASE UnlockTx(t) \/ UnlockRx(t)
    BY <2>6 DEF UnlockTx, UnlockRx, queueVars, ringVars
  <2>7. CASE Resume(t) \/ Recheck(t)
    BY <2>7 DEF Resume, Recheck, queueVars, ringVars
  <2>8. CASE AbortStateItem(t) \/ AbortEventItem(t)
    BY <2>8 DEF AbortStateItem, AbortEventItem, queueVars, ringVars
  <2> QED
    BY <1>2, <2>1, <2>2, <2>3, <2>4, <2>5, <2>6, <2>7, <2>8 DEF QueueStep
<1>3. CASE IsrSend
  BY <1>3 DEF IsrSend
<1>4. CASE IsrReceive
  BY <1>4 DEF IsrReceive
<1>5. CASE Tick \/ PendedTick
  BY <1>5 DEF Tick, PendedTick, queueVars, ringVars
<1> QED
  BY <1>1, <1>2, <1>3, <1>4, <1>5 DEF Next

\* The three things keep the pointers and the count together.
LEMMA RingStepKeepsRing ==
    ASSUME RingInv, RingStep
    PROVE  RingInv'
<1> USE QueueAssumption DEF RingInv, NoRoom, Slot, Slots
<1>1. CASE uxMessagesWaiting < uxLength
           /\ \E end \in Ends, item \in Items : prvCopyDataToQueue(end, item)
  <2> PICK end \in Ends, item \in Items : prvCopyDataToQueue(end, item)
    BY <1>1
  <2>1. CASE end = "back"
    <3>1. storage' \in [Slots -> Items]
      BY <1>1, <2>1 DEF prvCopyDataToQueue
    <3>2. pcReadFrom' \in Slots /\ uxMessagesWaiting' \in 0 .. uxLength
      BY <1>1, <2>1 DEF prvCopyDataToQueue
    <3>3. pcWriteTo' = Slot(pcReadFrom, IF NoRoom THEN 1 ELSE uxMessagesWaiting + 1)'
      BY <1>1, <2>1 DEF prvCopyDataToQueue
    <3> QED
      BY <3>1, <3>2, <3>3
  <2>2. CASE end # "back"
    <3>1. storage' \in [Slots -> Items]
      BY <1>1, <2>2 DEF prvCopyDataToQueue
    <3>2. pcReadFrom' \in Slots /\ uxMessagesWaiting' \in 0 .. uxLength
      BY <1>1, <2>2 DEF prvCopyDataToQueue
    <3>3. pcWriteTo' = Slot(pcReadFrom, IF NoRoom THEN 1 ELSE uxMessagesWaiting + 1)'
      BY SMTT(30), <1>1, <2>2 DEF prvCopyDataToQueue
    <3> QED
      BY <3>1, <3>2, <3>3
  <2> QED
    BY <2>1, <2>2
<1>2. CASE uxMessagesWaiting > 0 /\ prvCopyDataFromQueue
  BY <1>2 DEF prvCopyDataFromQueue
<1>3. CASE UNCHANGED ringVars
  BY <1>3 DEF ringVars
<1> QED
  BY <1>1, <1>2, <1>3 DEF RingStep

\* The three things are steps of the abstract queue.
LEMMA RingStepIsAbstract ==
    ASSUME RingInv, RingStep
    PROVE  Abstract!Next
<1> USE QueueAssumption DEF RingInv
<1>1. Contents = Ring(storage, pcReadFrom, uxMessagesWaiting)
      /\ Contents' = Ring(storage', pcReadFrom', uxMessagesWaiting')
  BY DEF Contents, Ring, Slot
<1>2. ASSUME uxMessagesWaiting < uxLength,
             NEW end \in Ends, NEW item \in Items, prvCopyDataToQueue(end, item)
      PROVE  Abstract!Send(item) \/ Abstract!SendToFront(item)
  <2>1. uxMessagesWaiting \in 0 .. uxLength - 1 /\ ~NoRoom
    BY <1>2 DEF NoRoom
  <2>2. Len(Contents) < uxLength
    BY <1>1, <1>2, RingIsSeq
  <2>3. CASE end = "back"
    <3>1. pcWriteTo = Slot(pcReadFrom, uxMessagesWaiting + 1)
      BY <2>1
    <3>2. Contents' = Append(Contents, item)
      BY <1>1, <1>2, <2>1, <2>3, <3>1, BackAppends DEF prvCopyDataToQueue
    <3> QED
      BY <1>2, <2>2, <3>2 DEF Abstract!Send, prvCopyDataToQueue
  <2>4. CASE end # "back"
    <3>1. /\ storage' = [storage EXCEPT ![pcReadFrom] = item]
          /\ pcReadFrom' = IF pcReadFrom = 0 THEN uxLength - 1 ELSE pcReadFrom - 1
          /\ uxMessagesWaiting' = uxMessagesWaiting + 1
      BY <1>2, <2>4 DEF prvCopyDataToQueue
    <3>2. Contents' = <<item>> \o Contents
      BY <1>1, <2>1, <3>1, FrontPrepends
    <3> QED
      BY <1>2, <2>2, <3>2 DEF Abstract!SendToFront, prvCopyDataToQueue
  <2> QED
    BY <2>3, <2>4
<1>3. CASE uxMessagesWaiting > 0 /\ prvCopyDataFromQueue
  <2>1. uxMessagesWaiting \in 1 .. uxLength
    BY <1>3
  <2>2. /\ Contents # <<>>
        /\ transfer' = <<"receive", Head(Contents)>>
        /\ Contents' = Tail(Contents)
    BY <1>1, <1>3, <2>1, ReceiveTakesHead DEF prvCopyDataFromQueue
  <2> QED
    BY <2>2 DEF Abstract!Next, Abstract!Receive
<1>4. CASE UNCHANGED ringVars /\ transfer' = <<>>
  BY <1>1, <1>4 DEF ringVars, Abstract!Next, Abstract!Other
<1> QED
  BY <1>2, <1>3, <1>4 DEF RingStep, Abstract!Next

\* Create leaves a ring whose write pointer is at the first slot.
LEMMA InitRing == Init => RingInv /\ Abstract!Init
<1> SUFFICES ASSUME Init PROVE RingInv /\ Abstract!Init
  OBVIOUS
<1>1. RingInv
  BY QueueAssumption DEF Init, RingInv, NoRoom, Slot, Slots
<1>2. Contents = <<>>
  BY DEF Init, Contents
<1> QED
  BY <1>1, <1>2 DEF Init, Abstract!Init

\* In every reachable state the write pointer stands behind the last item, the
\* count is within the length and the slots hold items: what
\* prvCopyDataToQueue and prvCopyDataFromQueue rely on.
THEOREM RingIsSound == Spec => []RingInv
<1>1. RingInv /\ [Next]_vars => RingInv'
  <2> SUFFICES ASSUME RingInv, [Next]_vars PROVE RingInv'
    OBVIOUS
  <2>1. CASE Next
    BY <2>1, StepsOfTheRing, RingStepKeepsRing
  <2>2. CASE UNCHANGED vars
    BY <2>2 DEF vars, queueVars, ringVars, RingInv, NoRoom, Slot
  <2> QED
    BY <2>1, <2>2
<1> QED
  BY <1>1, InitRing, PTL DEF Spec

\* Whatever tasks, handlers and the tick do to each other, a queue of rtosal gives
\* out what was sent, once, in the order of MessageQueue, and holds no more than
\* its length.
THEOREM QueueImplementsFifo == Spec => ImplementsMessageQueue
<1>1. RingInv /\ [Next]_vars => [Abstract!Next]_<<Contents, transfer>>
  <2> SUFFICES ASSUME RingInv, [Next]_vars
               PROVE  [Abstract!Next]_<<Contents, transfer>>
    OBVIOUS
  <2>1. CASE Next
    BY <2>1, StepsOfTheRing, RingStepIsAbstract
  <2>2. CASE UNCHANGED vars
    BY <2>2 DEF vars, queueVars, ringVars, Contents, Slot
  <2> QED
    BY <2>1, <2>2
<1> QED
  BY <1>1, InitRing, RingIsSound, PTL DEF Spec, ImplementsMessageQueue, Abstract!Spec
-------------------------------------------------------------------------------
(***************************************************************************)
(* Waiting.  First, what the kernel's operations do to the members of the  *)
(* lists.                                                                  *)
(***************************************************************************)

\* The event lists and the pending list hold tasks, each once.
ListsAreDistinct ==
    /\ \A l \in EventLists :
          /\ Distinct(eventList[l])
          /\ Members(eventList[l]) \cap Members(xPendingReadyList) = {}
          /\ \A k \in EventLists \ {l} : Members(eventList[k]) \cap Members(eventList[l]) = {}
    /\ Distinct(xPendingReadyList)

ListsAreTyped ==
    /\ eventList \in [EventLists -> Seq(Tasks)]
    /\ xPendingReadyList \in Seq(Tasks)

LEMMA PlacesAreMembers ==
    ASSUME ListsAreTyped, NEW t \in Tasks
    PROVE  /\ Waiting(t) <=> \E l \in EventLists : t \in Members(eventList[l])
           /\ Pending(t) <=> t \in Members(xPendingReadyList)
BY DEF ListsAreTyped, Waiting, Pending, Members

LEMMA EmptyLists ==
    ASSUME ListsAreTyped
    PROVE  /\ \A l \in EventLists : /\ eventList[l] = <<>> <=> Members(eventList[l]) = {}
                                    /\ Members(eventList[l]) \subseteq Tasks
           /\ xPendingReadyList = <<>> <=> Members(xPendingReadyList) = {}
           /\ Members(xPendingReadyList) \subseteq Tasks
BY MembersProperties DEF ListsAreTyped

LEMMA DistinctLists ==
    ASSUME ListsAreTyped, EventListsInv
    PROVE  ListsAreDistinct
<1>1. \A l \in EventLists : Members(eventList[l]) \subseteq Tasks
  BY EmptyLists
<1> QED
  BY <1>1, PlacesAreMembers DEF EventListsInv, ListsAreDistinct

\* The tasks of `woken` leave list l for the ready list or the pending list.
Wakes(l, woken) ==
    /\ woken \subseteq Members(eventList[l])
    /\ \A k \in EventLists : Members(eventList'[k]) =
          IF k = l THEN Members(eventList[l]) \ woken ELSE Members(eventList[k])
    /\ IF suspender = NoTask
       THEN /\ xStateListItem' = [t \in Tasks |-> IF t \in woken THEN "ready"
                                                  ELSE xStateListItem[t]]
            /\ xItemValue' = [t \in Tasks |-> IF t \in woken THEN 0 ELSE xItemValue[t]]
            /\ xPendingReadyList' = xPendingReadyList
       ELSE /\ Members(xPendingReadyList') = Members(xPendingReadyList) \cup woken
            /\ UNCHANGED <<xStateListItem, xItemValue>>

\* Removing from an event list wakes as many as were asked for or all there are.
LEMMA RemovalWakes ==
    ASSUME ListsAreTyped, ListsAreDistinct, NEW l \in EventLists, NEW n \in Nat,
           RemoveFromEventList(l, n)
    PROVE  /\ ListsAreTyped' /\ ListsAreDistinct'
           /\ \E woken : /\ Wakes(l, woken)
                         /\ IsFiniteSet(woken)
                         /\ Cardinality(woken) = n \/ Members(eventList[l]) = woken
<1> DEFINE s     == eventList[l]
           k     == IF n < Len(s) THEN n ELSE Len(s)
           first == SubSeq(s, 1, k)
           rest  == SubSeq(s, k + 1, Len(s))
           woken == Members(first)
<1>1. s \in Seq(Tasks) /\ Len(s) \in Nat /\ k \in 0 .. Len(s) /\ Distinct(s)
  BY DEF ListsAreTyped, ListsAreDistinct
<1>2. /\ first \in Seq(Tasks) /\ rest \in Seq(Tasks)
      /\ Len(first) = k /\ Len(rest) = Len(s) - k
      /\ woken = {s[i] : i \in 1 .. k}
      /\ Members(s) = woken \cup Members(rest)
      /\ Distinct(first) /\ Distinct(rest) /\ Members(rest) = Members(s) \ woken
  <2> HIDE DEF k, s
  <2> QED
    BY <1>1, SplitProperties
<1>3. eventList' = [eventList EXCEPT ![l] = rest]
  BY DEF RemoveFromEventList
<1>4. IF suspender = NoTask
      THEN /\ xStateListItem' = [t \in Tasks |-> IF t \in woken THEN "ready"
                                                 ELSE xStateListItem[t]]
           /\ xItemValue' = [t \in Tasks |-> IF t \in woken THEN 0 ELSE xItemValue[t]]
           /\ xPendingReadyList' = xPendingReadyList
      ELSE /\ xPendingReadyList' = xPendingReadyList \o first
           /\ UNCHANGED <<xStateListItem, xItemValue>>
  <2>1. woken = {eventList[l][i] : i \in 1 .. k}
    BY <1>2
  <2> HIDE DEF woken
  <2> QED
    BY <2>1 DEF RemoveFromEventList
<1>5. IsFiniteSet(woken) /\ Cardinality(woken) = k
  <2> HIDE DEF first
  <2> QED
    BY <1>2, DistinctCounts
<1>6. Cardinality(woken) = n \/ Members(s) = woken
  <2>1. CASE k = n
    BY <1>5, <2>1
  <2>2. CASE k # n
    <3>1. k = Len(s)
      BY <2>2
    <3>2. Len(rest) = 0
      <4> HIDE DEF k, s, rest
      <4> QED
        BY <1>1, <1>2, <3>1
    <3>3. rest = <<>>
      <4> HIDE DEF rest
      <4> QED
        BY <1>2, <3>2
    <3>4. Members(rest) = {}
      BY <3>3 DEF Members
    <3> HIDE DEF woken, rest
    <3> QED
      BY <1>2, <3>4
  <2> QED
    BY <2>1, <2>2
<1> HIDE DEF k, first, rest, woken, s
<1>7. eventList' \in [EventLists -> Seq(Tasks)] /\ eventList'[l] = rest
      /\ \A m \in EventLists : m # l => eventList'[m] = eventList[m]
  BY <1>2, <1>3 DEF ListsAreTyped
<1>8. woken \subseteq Members(s) /\ Members(s) = Members(eventList[l])
  BY <1>2 DEF s
<1>9. suspender # NoTask =>
         /\ xPendingReadyList' \in Seq(Tasks)
         /\ Members(xPendingReadyList') = Members(xPendingReadyList) \cup woken
         /\ Distinct(xPendingReadyList')
  <2> SUFFICES ASSUME suspender # NoTask
               PROVE  /\ xPendingReadyList \o first \in Seq(Tasks)
                      /\ Members(xPendingReadyList \o first) =
                            Members(xPendingReadyList) \cup woken
                      /\ Distinct(xPendingReadyList \o first)
    BY <1>4
  <2>1. Members(xPendingReadyList) \cap woken = {} /\ Distinct(xPendingReadyList)
    BY <1>8 DEF ListsAreDistinct
  <2>2. Members(first) = woken
    BY DEF woken
  <2> QED
    BY <1>2, <2>1, <2>2, JoinProperties DEF ListsAreTyped
<1>10. Wakes(l, woken)
  BY <1>2, <1>4, <1>7, <1>8, <1>9 DEF Wakes
<1>11. ListsAreTyped'
  BY <1>4, <1>7, <1>9 DEF ListsAreTyped
<1>12. ListsAreDistinct'
  <2>1. \A m \in EventLists : Distinct(eventList'[m])
    BY <1>2, <1>7 DEF ListsAreDistinct
  <2>2. Distinct(xPendingReadyList')
    BY <1>4, <1>9 DEF ListsAreDistinct
  <2>3. ASSUME NEW m \in EventLists
        PROVE  Members(eventList'[m]) \cap Members(xPendingReadyList') = {}
    <3>1. CASE suspender = NoTask
      <4>1. Members(eventList'[m]) \subseteq Members(eventList[m])
        BY <1>10 DEF Wakes
      <4>2. xPendingReadyList' = xPendingReadyList
        BY <1>4, <3>1
      <4> QED
        BY <4>1, <4>2 DEF ListsAreDistinct
    <3>2. CASE suspender # NoTask
      <4>1. CASE m = l
        BY <1>10, <3>2, <4>1 DEF Wakes, ListsAreDistinct
      <4>2. CASE m # l
        BY <1>10, <3>2, <4>2 DEF Wakes, ListsAreDistinct
      <4> QED
        BY <4>1, <4>2
    <3> QED
      BY <3>1, <3>2
  <2> QED
    <3>1. ASSUME NEW m \in EventLists, NEW j \in EventLists \ {m}
          PROVE  Members(eventList'[j]) \cap Members(eventList'[m]) = {}
      BY <1>10 DEF Wakes, ListsAreDistinct
    <3> QED
      BY <2>1, <2>2, <2>3, <3>1 DEF ListsAreDistinct
<1> QED
  BY <1>5, <1>6, <1>8, <1>10, <1>11, <1>12

\* Tasks that go out of every event list, and perhaps out of the pending list.
LEMMA DropLeaves ==
    ASSUME ListsAreTyped, ListsAreDistinct, NEW gone,
           eventList' = [l \in EventLists |-> Drop(eventList[l], gone)],
           xPendingReadyList' = xPendingReadyList
              \/ xPendingReadyList' = Drop(xPendingReadyList, gone)
    PROVE  /\ ListsAreTyped' /\ ListsAreDistinct'
           /\ \A l \in EventLists : Members(eventList'[l]) = Members(eventList[l]) \ gone
           /\ xPendingReadyList' = Drop(xPendingReadyList, gone)
                 => Members(xPendingReadyList') = Members(xPendingReadyList) \ gone
<1>1. \A l \in EventLists : /\ Drop(eventList[l], gone) \in Seq(Tasks)
                            /\ Members(Drop(eventList[l], gone)) = Members(eventList[l]) \ gone
                            /\ Distinct(Drop(eventList[l], gone))
  <2> TAKE l \in EventLists
  <2>1. eventList[l] \in Seq(Tasks) /\ Distinct(eventList[l])
    BY DEF ListsAreTyped, ListsAreDistinct
  <2> QED
    BY <2>1, DropProperties
<1>2. /\ Drop(xPendingReadyList, gone) \in Seq(Tasks)
      /\ Members(Drop(xPendingReadyList, gone)) = Members(xPendingReadyList) \ gone
      /\ Distinct(Drop(xPendingReadyList, gone))
  BY DropProperties DEF ListsAreTyped, ListsAreDistinct
<1>3. eventList' \in [EventLists -> Seq(Tasks)]
      /\ \A l \in EventLists : eventList'[l] = Drop(eventList[l], gone)
  BY <1>1
<1>4. /\ xPendingReadyList' \in Seq(Tasks) /\ Distinct(xPendingReadyList')
      /\ Members(xPendingReadyList') \subseteq Members(xPendingReadyList)
  BY <1>2 DEF ListsAreTyped, ListsAreDistinct
<1>5. ListsAreTyped'
  BY <1>3, <1>4 DEF ListsAreTyped
<1>6. ListsAreDistinct'
  <2>1. ASSUME NEW l \in EventLists
        PROVE  /\ Distinct(eventList'[l])
               /\ Members(eventList'[l]) \cap Members(xPendingReadyList') = {}
               /\ \A k \in EventLists \ {l} : Members(eventList'[k]) \cap Members(eventList'[l]) = {}
    BY <1>1, <1>3, <1>4 DEF ListsAreDistinct
  <2> QED
    BY <1>4, <2>1 DEF ListsAreDistinct
<1> QED
  BY <1>1, <1>2, <1>3, <1>5, <1>6

\* A task that joins an event list.
LEMMA InsertJoins ==
    ASSUME ListsAreTyped, ListsAreDistinct, NEW t \in Tasks, NEW l \in EventLists,
           ~Waiting(t), ~Pending(t),
           eventList' = [eventList EXCEPT ![l] = InsertByPriority(@, t)],
           xPendingReadyList' = xPendingReadyList
    PROVE  /\ ListsAreTyped' /\ ListsAreDistinct'
           /\ \A k \in EventLists : Members(eventList'[k]) =
                 IF k = l THEN Members(eventList[l]) \cup {t} ELSE Members(eventList[k])
<1> DEFINE s == eventList[l]
           I == {i \in DOMAIN s : Priority[s[i]] >= Priority[t]}
           n == Cardinality(I)
<1>1. s \in Seq(Tasks) /\ Distinct(s) /\ DOMAIN s = 1 .. Len(s) /\ Len(s) \in Nat
  BY DEF ListsAreTyped, ListsAreDistinct
<1>2. \A k \in EventLists : t \notin Members(eventList[k])
  BY PlacesAreMembers
<1>3. t \notin Members(xPendingReadyList)
  BY PlacesAreMembers
<1>4. n \in 0 .. Len(s)
  <2>1. I \in SUBSET (1 .. Len(s))
    BY <1>1
  <2>2. IsFiniteSet(1 .. Len(s)) /\ Cardinality(1 .. Len(s)) = Len(s)
    <3>1. \A m \in Nat : IsFiniteSet(1 .. m) /\ Cardinality(1 .. m) = m
      BY FS_Interval
    <3> QED
      BY <1>1, <3>1
  <2> HIDE DEF I
  <2>3. IsFiniteSet(I) /\ Cardinality(I) <= Len(s) /\ Cardinality(I) \in Nat
    BY <2>1, <2>2, FS_Subset, FS_CardinalityType
  <2> QED
    BY <1>1, <2>3
<1> HIDE DEF n
<1>5. /\ InsertByPriority(s, t) \in Seq(Tasks)
      /\ Members(InsertByPriority(s, t)) = Members(s) \cup {t}
      /\ Distinct(InsertByPriority(s, t))
  <2>1. InsertByPriority(s, t) = PutIn(s, n, t)
    BY DEF InsertByPriority, PutIn, n
  <2> HIDE DEF s
  <2>2. t \notin Members(s)
    BY <1>2 DEF s
  <2> QED
    BY <1>1, <1>4, <2>1, <2>2, InsertProperties
<1>6. /\ eventList' \in [EventLists -> Seq(Tasks)]
      /\ eventList'[l] = InsertByPriority(s, t)
      /\ \A k \in EventLists : k # l => eventList'[k] = eventList[k]
  BY <1>5 DEF ListsAreTyped
<1> HIDE DEF s
<1>7. ListsAreTyped'
  BY <1>6 DEF ListsAreTyped
<1>8. \A k \in EventLists : Members(eventList'[k]) =
         IF k = l THEN Members(eventList[l]) \cup {t} ELSE Members(eventList[k])
  BY <1>5, <1>6 DEF s
<1>9. ListsAreDistinct'
  <2>1. ASSUME NEW k \in EventLists
        PROVE  /\ Distinct(eventList'[k])
               /\ Members(eventList'[k]) \cap Members(xPendingReadyList') = {}
    BY <1>3, <1>5, <1>6, <1>8 DEF ListsAreDistinct
  <2>2. ASSUME NEW k \in EventLists, NEW j \in EventLists \ {k}
        PROVE  Members(eventList'[j]) \cap Members(eventList'[k]) = {}
    <3>1. Members(eventList[j]) \cap Members(eventList[k]) = {}
      BY DEF ListsAreDistinct
    <3> QED
      BY <1>2, <1>8, <3>1
  <2>3. Distinct(xPendingReadyList')
    BY DEF ListsAreDistinct
  <2> QED
    BY <2>1, <2>2, <2>3 DEF ListsAreDistinct
<1> QED
  BY <1>7, <1>8, <1>9
\* The cached time is that of the task that wakes first.
LEMMA NextUnblockTime ==
    ASSUME NEW list \in [Tasks -> StateLists], NEW wake \in [Tasks -> Ticks]
    PROVE  /\ prvResetNextTaskUnblockTime(list, wake) \in Ticks
           /\ \A t \in Tasks : list[t] = "delayed" =>
                 prvResetNextTaskUnblockTime(list, wake) <= wake[t]
<1> DEFINE delayed == {wake[t] : t \in {u \in Tasks : list[u] = "delayed"}}
<1>1. Ticks \subseteq Nat /\ portMAX_DELAY \in Ticks
  BY KernelAssumption DEF Ticks, portMAX_DELAY
<1>2. prvResetNextTaskUnblockTime(list, wake) =
         IF delayed = {} THEN portMAX_DELAY ELSE Min(delayed)
  BY DEF prvResetNextTaskUnblockTime
<1>3. \A t \in Tasks : list[t] = "delayed" => wake[t] \in delayed
  OBVIOUS
<1>4. delayed \in SUBSET Ticks
  OBVIOUS
<1> HIDE DEF delayed
<1>5. CASE delayed = {}
  BY <1>1, <1>2, <1>3, <1>5
<1>6. CASE delayed # {}
  <2>1. \E x \in delayed : \A y \in delayed : x <= y
    BY <1>1, <1>4, <1>6, LeastNumber
  <2>2. Min(delayed) \in delayed /\ \A y \in delayed : Min(delayed) <= y
    BY <2>1 DEF Min
  <2> QED
    BY <1>2, <1>3, <1>4, <1>6, <2>2
<1> QED
  BY <1>5, <1>6

\* What one increment of the tick count does: the tasks of `due` go out of their
\* lists, no delayed task has its time behind it, and the cached time is not late.
TickMoves(due) ==
    LET now == IF xTickCount = portMAX_DELAY THEN 0 ELSE xTickCount + 1
        switched(t) == IF now = 0 /\ xStateListItem[t] = "delayed" THEN "overflow"
                       ELSE IF now = 0 /\ xStateListItem[t] = "overflow" THEN "delayed"
                       ELSE xStateListItem[t]
    IN  /\ xTickCount' = now
        /\ xNumOfOverflows' = IF now = 0 THEN 1 - xNumOfOverflows ELSE xNumOfOverflows
        /\ \A t \in Tasks : t \in due => /\ switched(t) = "delayed"
                                         /\ xItemValue[t] <= now
                                         /\ xStateListItem'[t] = "ready"
        /\ \A t \in Tasks : t \notin due => /\ xStateListItem'[t] = switched(t)
                                            /\ xItemValue'[t] = xItemValue[t]
        /\ \A t \in Tasks : xStateListItem'[t] = "delayed" =>
              now < xItemValue[t] /\ xNextTaskUnblockTime' <= xItemValue[t]
        /\ \A l \in EventLists : Members(eventList'[l]) = Members(eventList[l]) \ due

\* The order of the delayed list and the cached time.
NotOverdue ==
    \A t \in Tasks : xStateListItem[t] = "delayed" =>
        xTickCount < xItemValue[t] /\ xNextTaskUnblockTime <= xItemValue[t]

LEMMA TickIsTickMoves ==
    ASSUME KernelTypeOK, ListsAreDistinct, NotOverdue,
           xTaskIncrementTick, UNCHANGED <<xPendingReadyList, suspender, ucDelayAborted>>,
           uxPendedTicks' \in Nat
    PROVE  /\ KernelTypeOK' /\ ListsAreDistinct'
           /\ \E due : TickMoves(due)
<1> USE KernelAssumption DEF KernelTypeOK
<1> DEFINE now   == (xTickCount + 1) % TickModulus
           list  == IF now = 0 THEN taskSWITCH_DELAYED_LISTS ELSE xStateListItem
           next  == IF now = 0 THEN prvResetNextTaskUnblockTime(list, xItemValue)
                               ELSE xNextTaskUnblockTime
           due   == {t \in Tasks : /\ now >= next
                                   /\ list[t] = "delayed" /\ xItemValue[t] <= now}
           after == [t \in Tasks |-> IF t \in due THEN "ready" ELSE list[t]]
<1>1. now = (IF xTickCount = portMAX_DELAY THEN 0 ELSE xTickCount + 1) /\ now \in Ticks
  <2>1. TickModulus \in Nat \ {0} /\ xTickCount \in 0 .. TickModulus - 1
        /\ 1 \in 0 .. TickModulus - 1
    BY DEF Ticks, portMAX_DELAY
  <2>2. now = IF xTickCount + 1 < TickModulus THEN xTickCount + 1
              ELSE xTickCount + 1 - TickModulus
    BY <2>1, UnsignedSum
  <2> HIDE DEF now
  <2> QED
    BY <2>1, <2>2 DEF Ticks, portMAX_DELAY
<1>2. /\ xTickCount' = now
      /\ xNumOfOverflows' = IF now = 0 THEN 1 - xNumOfOverflows ELSE xNumOfOverflows
      /\ xStateListItem' = after
      /\ xItemValue' = [t \in Tasks |-> IF t \in due THEN 0 ELSE xItemValue[t]]
      /\ eventList' = [l \in EventLists |-> Drop(eventList[l], due)]
      /\ xNextTaskUnblockTime' =
             IF now >= next THEN prvResetNextTaskUnblockTime(after, xItemValue) ELSE next
  BY DEF xTaskIncrementTick
<1> HIDE DEF now
<1>3. /\ list \in [Tasks -> StateLists]
      /\ \A t \in Tasks : list[t] = IF now = 0 /\ xStateListItem[t] = "delayed" THEN "overflow"
                       ELSE IF now = 0 /\ xStateListItem[t] = "overflow" THEN "delayed"
                       ELSE xStateListItem[t]
  <2>1. CASE now = 0
    <3>1. list = taskSWITCH_DELAYED_LISTS
      BY <2>1
    <3>2. \A t \in Tasks : xStateListItem[t] \in StateLists
      OBVIOUS
    <3> HIDE DEF list
    <3> QED
      BY <2>1, <3>1, <3>2 DEF taskSWITCH_DELAYED_LISTS, StateLists
  <2>2. CASE now # 0
    BY <2>2
  <2> QED
    BY <2>1, <2>2
<1> HIDE DEF list
<1>4. /\ next \in Ticks
      /\ \A t \in Tasks : list[t] = "delayed" => next <= xItemValue[t]
  <2>1. CASE now = 0
    BY <1>3, <2>1, NextUnblockTime
  <2>2. CASE now # 0
    BY <1>3, <2>2 DEF NotOverdue
  <2> QED
    BY <2>1, <2>2
<1> HIDE DEF next
<1>5. after \in [Tasks -> StateLists]
      /\ \A t \in Tasks : after[t] = IF t \in due THEN "ready" ELSE list[t]
  BY <1>3 DEF StateLists
<1>6. \A t \in Tasks : t \in due <=> now >= next /\ list[t] = "delayed" /\ xItemValue[t] <= now
  OBVIOUS
<1> HIDE DEF after, due
<1>7. /\ xItemValue' \in [Tasks -> Ticks]
      /\ \A t \in Tasks : t \notin due => xItemValue'[t] = xItemValue[t]
  BY <1>2 DEF Ticks, portMAX_DELAY
<1>8. /\ ListsAreTyped' /\ ListsAreDistinct'
      /\ \A l \in EventLists : Members(eventList'[l]) = Members(eventList[l]) \ due
  BY <1>2, DropLeaves DEF ListsAreTyped
<1>9. \A t \in Tasks : after[t] = "delayed" => t \notin due /\ list[t] = "delayed"
  BY <1>5
<1>10. \A t \in Tasks : after[t] = "delayed" => now < xItemValue[t]
  BY <1>1, <1>4, <1>6, <1>9 DEF Ticks, portMAX_DELAY
<1>11. /\ xNextTaskUnblockTime' \in Ticks
       /\ \A t \in Tasks : after[t] = "delayed" => xNextTaskUnblockTime' <= xItemValue[t]
  <2>1. CASE now >= next
    BY <1>2, <1>5, <2>1, NextUnblockTime
  <2>2. CASE ~(now >= next)
    BY <1>2, <1>4, <1>9, <2>2
  <2> QED
    BY <2>1, <2>2
<1>12. xNumOfOverflows' \in {0, 1}
  BY <1>2
<1>13. KernelTypeOK'
  BY <1>1, <1>2, <1>5, <1>7, <1>8, <1>11, <1>12 DEF ListsAreTyped
<1>14. TickMoves(due)
  BY <1>1, <1>2, <1>3, <1>5, <1>6, <1>7, <1>8, <1>10, <1>11 DEF TickMoves
<1> QED
  BY <1>8, <1>13, <1>14

\* The other operations: the types of what they change, and what becomes of each task.
LEMMA RemovalIsTyped ==
    ASSUME KernelTypeOK, ListsAreDistinct, NEW l \in EventLists, NEW n \in Nat,
           RemoveFromEventList(l, n),
           UNCHANGED <<timeVars, suspender, uxPendedTicks, ucDelayAborted>>
    PROVE  KernelTypeOK'
<1> USE DEF KernelTypeOK
<1>1. ListsAreTyped'
  BY RemovalWakes DEF ListsAreTyped
<1>2. PICK woken : Wakes(l, woken)
  BY RemovalWakes DEF ListsAreTyped
<1>3. xStateListItem' \in [Tasks -> StateLists] /\ xItemValue' \in [Tasks -> Ticks]
  <2>1. CASE suspender = NoTask
    <3>1. 0 \in Ticks /\ "ready" \in StateLists
      BY KernelAssumption DEF Ticks, portMAX_DELAY, StateLists
    <3>2. /\ xStateListItem' = [t \in Tasks |-> IF t \in woken THEN "ready"
                                               ELSE xStateListItem[t]]
          /\ xItemValue' = [t \in Tasks |-> IF t \in woken THEN 0 ELSE xItemValue[t]]
      BY <1>2, <2>1 DEF Wakes
    <3> QED
      BY <3>1, <3>2
  <2>2. CASE suspender # NoTask
    BY <1>2, <2>2 DEF Wakes
  <2> QED
    BY <2>1, <2>2
<1> QED
  BY <1>1, <1>3 DEF ListsAreTyped, timeVars

\* A task that blocks for `ticks`.
PlaceMoves(t, l, ticks) ==
    LET wraps == xTickCount + ticks >= TickModulus
        list  == IF ticks = portMAX_DELAY THEN "suspended"
                 ELSE IF wraps THEN "overflow" ELSE "delayed"
    IN  /\ xStateListItem'[t] = list
        /\ ticks # portMAX_DELAY =>
              xItemValue'[t] = IF wraps THEN xTickCount + ticks - TickModulus
                               ELSE xTickCount + ticks
        /\ \A u \in Tasks : u # t => /\ xStateListItem'[u] = xStateListItem[u]
                                     /\ xItemValue'[u] = xItemValue[u]
        /\ xNextTaskUnblockTime' <= xNextTaskUnblockTime
        /\ list = "delayed" => xNextTaskUnblockTime' <= xItemValue'[t]
        /\ \A k \in EventLists : Members(eventList'[k]) =
              IF k = l THEN Members(eventList[l]) \cup {t} ELSE Members(eventList[k])

LEMMA PlaceIsPlaceMoves ==
    ASSUME KernelTypeOK, ListsAreDistinct, NEW t \in Tasks, NEW l \in EventLists,
           NEW ticks \in Ticks, ~Waiting(t), ~Pending(t),
           vTaskPlaceOnEventList(t, l, ticks),
           UNCHANGED <<xPendingReadyList, xTickCount, xNumOfOverflows, suspender,
                       uxPendedTicks>>
    PROVE  /\ KernelTypeOK' /\ ListsAreDistinct'
           /\ PlaceMoves(t, l, ticks)
<1> USE KernelAssumption DEF KernelTypeOK
<1> DEFINE wraps == xTickCount + ticks >= TickModulus
           wake  == (xTickCount + ticks) % TickModulus
           list  == IF ticks = portMAX_DELAY THEN "suspended"
                    ELSE IF wake < xTickCount THEN "overflow" ELSE "delayed"
<1>1. /\ wake = IF wraps THEN xTickCount + ticks - TickModulus ELSE xTickCount + ticks
      /\ wake \in Ticks
      /\ wake < xTickCount <=> wraps
  <2>1. TickModulus \in Nat \ {0} /\ xTickCount \in 0 .. TickModulus - 1
        /\ ticks \in 0 .. TickModulus - 1
    BY DEF Ticks, portMAX_DELAY
  <2>2. wake = IF xTickCount + ticks < TickModulus THEN xTickCount + ticks
               ELSE xTickCount + ticks - TickModulus
    BY <2>1, UnsignedSum
  <2> HIDE DEF wake
  <2> QED
    BY <2>1, <2>2 DEF Ticks, portMAX_DELAY
<1>2. /\ eventList' = [eventList EXCEPT ![l] = InsertByPriority(@, t)]
      /\ ucDelayAborted' = [ucDelayAborted EXCEPT ![t] = FALSE]
      /\ xStateListItem' = [xStateListItem EXCEPT ![t] = list]
      /\ xItemValue' = [xItemValue EXCEPT ![t] = IF list = "suspended" THEN 0 ELSE wake]
      /\ xNextTaskUnblockTime' = IF list = "delayed" /\ wake < xNextTaskUnblockTime
                                 THEN wake ELSE xNextTaskUnblockTime
  BY DEF vTaskPlaceOnEventList
<1> HIDE DEF wake, wraps
<1>3. /\ ListsAreTyped' /\ ListsAreDistinct'
      /\ \A k \in EventLists : Members(eventList'[k]) =
            IF k = l THEN Members(eventList[l]) \cup {t} ELSE Members(eventList[k])
  BY <1>2, InsertJoins DEF ListsAreTyped
<1>4. 0 \in Ticks /\ list \in StateLists
  BY DEF Ticks, portMAX_DELAY, StateLists
<1>5. /\ xStateListItem' \in [Tasks -> StateLists] /\ xItemValue' \in [Tasks -> Ticks]
      /\ xNextTaskUnblockTime' \in Ticks /\ ucDelayAborted' \in [Tasks -> BOOLEAN]
  BY <1>1, <1>2, <1>4
<1>6. KernelTypeOK'
  BY <1>3, <1>5 DEF ListsAreTyped
<1>7. /\ xStateListItem'[t] = list
      /\ xItemValue'[t] = IF list = "suspended" THEN 0 ELSE wake
      /\ \A u \in Tasks : u # t => /\ xStateListItem'[u] = xStateListItem[u]
                                   /\ xItemValue'[u] = xItemValue[u]
  BY <1>2
<1>8. xNextTaskUnblockTime' <= xNextTaskUnblockTime
      /\ (list = "delayed" => xNextTaskUnblockTime' <= wake)
  BY <1>1, <1>2 DEF Ticks, portMAX_DELAY
<1>9. list = IF ticks = portMAX_DELAY THEN "suspended"
             ELSE IF wraps THEN "overflow" ELSE "delayed"
  BY <1>1
<1> HIDE DEF list
<1>10. PlaceMoves(t, l, ticks)
  BY <1>1, <1>3, <1>7, <1>8, <1>9 DEF PlaceMoves, wraps
<1> QED
  BY <1>3, <1>6, <1>10

\* The tasks that became pending while the scheduler was suspended get ready.
ResumeMoves ==
    /\ suspender' = NoTask /\ xPendingReadyList' = <<>>
    /\ \A t \in Tasks :
          IF Pending(t) THEN xStateListItem'[t] = "ready"
          ELSE xStateListItem'[t] = xStateListItem[t] /\ xItemValue'[t] = xItemValue[t]
    /\ \A t \in Tasks : xStateListItem'[t] = "delayed" =>
          \/ xNextTaskUnblockTime' = xNextTaskUnblockTime
          \/ xNextTaskUnblockTime' <= xItemValue[t]

LEMMA ResumeIsResumeMoves ==
    ASSUME KernelTypeOK, ListsAreDistinct, ResumeAll,
           UNCHANGED <<eventList, xTickCount, xNumOfOverflows, uxPendedTicks, ucDelayAborted>>
    PROVE  KernelTypeOK' /\ ListsAreDistinct' /\ ResumeMoves
<1> USE KernelAssumption DEF KernelTypeOK
<1> DEFINE woken == {xPendingReadyList[i] : i \in DOMAIN xPendingReadyList}
           list  == [t \in Tasks |-> IF t \in woken THEN "ready" ELSE xStateListItem[t]]
<1>1. /\ suspender' = NoTask /\ xPendingReadyList' = <<>>
      /\ xStateListItem' = list
      /\ xItemValue' = [t \in Tasks |-> IF t \in woken THEN 0 ELSE xItemValue[t]]
      /\ xNextTaskUnblockTime' = IF woken = {} THEN xNextTaskUnblockTime
                                 ELSE prvResetNextTaskUnblockTime(list, xItemValue)
  BY DEF ResumeAll
<1>2. \A t \in Tasks : t \in woken <=> Pending(t)
  BY DEF Pending
<1> HIDE DEF woken
<1>3. list \in [Tasks -> StateLists] /\ 0 \in Ticks
  BY DEF StateLists, Ticks, portMAX_DELAY
<1>4. \A t \in Tasks : list[t] = IF t \in woken THEN "ready" ELSE xStateListItem[t]
  OBVIOUS
<1> HIDE DEF list
<1>5. /\ xNextTaskUnblockTime' \in Ticks
      /\ \A t \in Tasks : list[t] = "delayed" =>
            \/ xNextTaskUnblockTime' = xNextTaskUnblockTime
            \/ xNextTaskUnblockTime' <= xItemValue[t]
  BY <1>1, <1>3, NextUnblockTime
<1>6. KernelTypeOK'
  BY <1>1, <1>3, <1>5
<1>7. Members(<<>>) = {} /\ Distinct(<<>>)
  BY DEF Members, Distinct
<1>8. ListsAreDistinct'
  BY <1>1, <1>7 DEF ListsAreDistinct
<1>9. ResumeMoves
  BY <1>1, <1>2, <1>4, <1>5 DEF ResumeMoves
<1> QED
  BY <1>6, <1>8, <1>9

\* A task whose two items xTaskAbortDelay takes out.
LEMMA AbortIsTyped ==
    ASSUME KernelTypeOK, NEW t \in Tasks, AbortState(t),
           UNCHANGED <<eventList, xPendingReadyList, timeVars, suspender, uxPendedTicks,
                       ucDelayAborted>>
    PROVE  KernelTypeOK'
BY KernelAssumption DEF KernelTypeOK, AbortState, timeVars, StateLists, Ticks, portMAX_DELAY

LEMMA AbortEventRemoves ==
    ASSUME KernelTypeOK, ListsAreDistinct, NEW t \in Tasks, AbortEvent(t),
           UNCHANGED <<xItemValue, timeVars, suspender, uxPendedTicks>>
    PROVE  /\ KernelTypeOK' /\ ListsAreDistinct'
           /\ \A l \in EventLists : Members(eventList'[l]) = Members(eventList[l]) \ {t}
           /\ Members(xPendingReadyList') = Members(xPendingReadyList) \ {t}
<1> USE DEF KernelTypeOK
<1>1. /\ eventList' = [l \in EventLists |-> Drop(eventList[l], {t})]
      /\ xPendingReadyList' = Drop(xPendingReadyList, {t})
  BY DEF AbortEvent, Without
<1> DEFINE gone == {t}
<1> HIDE DEF gone
<1>2. /\ ListsAreTyped' /\ ListsAreDistinct'
      /\ \A l \in EventLists : Members(eventList'[l]) = Members(eventList[l]) \ gone
      /\ Members(xPendingReadyList') = Members(xPendingReadyList) \ gone
  BY <1>1, DropLeaves DEF ListsAreTyped, gone
<1>3. xStateListItem' \in [Tasks -> StateLists]
  BY DEF AbortEvent, StateLists
<1>4. ucDelayAborted' \in [Tasks -> BOOLEAN]
  BY DEF AbortEvent, Waiting, Pending
<1> QED
  BY <1>2, <1>3, <1>4 DEF ListsAreTyped, timeVars, gone
-------------------------------------------------------------------------------
(***************************************************************************)
(* The calls: where each task is, and what it runs with.                   *)
(***************************************************************************)

CallTypes ==
    /\ cTxLock \in queueUNLOCKED .. MaxLock /\ cRxLock \in queueUNLOCKED .. MaxLock
    /\ pc \in [Tasks -> Pc]
    /\ call \in [Tasks -> Calls]
    /\ clock \in [Tasks -> 0 .. MaxElapsed]
    /\ aborted \in [Tasks -> {"no", "earlier", "now"}]

LEMMA TypesSplit == TypeOK => KernelTypeOK /\ CallTypes
BY DEF TypeOK, CallTypes

\* A task runs the code of its place, outside a suspension or in its own; only on
\* the way out of a wait can it run without being in the ready list.
LEMMA RunsReady ==
    ASSUME KernelTypeOK, CallTypes, CallsInv, ListInv, NEW t \in Tasks, NEW p \in Pc, At(t, p)
    PROVE  /\ pc[t] = p /\ ~Processing /\ t # NoTask
           /\ suspender = IF p \in SuspendedPc THEN t ELSE NoTask
           /\ p \notin {"unlock_tx", "unlock_rx", "resume"} => Ready(t)
<1> USE KernelAssumption DEF KernelTypeOK
<1>1. pc[t] = p /\ CanRun(t) /\ t # NoTask
  BY DEF At
<1>2. suspender = t <=> p \in SuspendedPc
  BY <1>1 DEF CallsInv, SuspendOf
<1>3. suspender \in {t, NoTask}
  BY <1>1 DEF CanRun
<1>4. ~Processing
  BY <1>1 DEF CanRun, Processing
<1>5. ASSUME p \notin {"unlock_tx", "unlock_rx", "resume"} PROVE Ready(t)
  <2>1. CASE p = "try"
    <3>1. suspender # t
      BY <1>2, <2>1 DEF SuspendedPc, LockedPc
    <3> QED
      BY <1>1, <3>1 DEF CanRun
  <2>2. CASE p # "try"
    BY <1>1, <1>5, <2>2 DEF ListInv, BlockedOf, Leaving, Ready
  <2> QED
    BY <2>1, <2>2
<1> QED
  BY <1>1, <1>2, <1>3, <1>4, <1>5

\* The fields of a call's record.
LEMMA CallFields ==
    ASSUME NEW c \in Calls
    PROVE  /\ c.op \in {"send", "receive", "abort", "none"}
           /\ c.wait \in Ticks /\ c.ticks \in Ticks /\ c.set \in BOOLEAN
           /\ c.entering \in Ticks /\ c.count \in {0, 1}
           /\ c.then \in {"try", "recheck", "app"} /\ c.target \in Tasks \cup {NoTask}
BY DEF Calls

LEMMA NoCallIsCall == NoCall \in Calls
BY KernelAssumption DEF NoCall, Calls, Ticks, portMAX_DELAY

\* The assumptions on the constants, as numbers.
LEMMA Bounds ==
    /\ MaxElapsed \in Nat /\ MaxLock \in Nat /\ uxLength \in Nat \ {0}
    /\ MaxElapsed <= TickModulus /\ TickModulus \in Nat /\ TickModulus > 2
    /\ portMAX_DELAY \in Nat /\ TickModulus = portMAX_DELAY + 1
    /\ Ticks = 0 .. portMAX_DELAY /\ 0 \in Ticks /\ portMAX_DELAY \in Ticks
BY QueueAssumption, KernelAssumption DEF Ticks, portMAX_DELAY

\* Outside its calls a task's clock stands at 0.
LEMMA QuietCall ==
    ASSUME KernelTypeOK, CallTypes, CallsInv, NEW t \in Tasks, ~call[t].set
    PROVE  clock[t] = 0 /\ uxPendedTicks \in Nat /\ uxPendedTicks <= MaxElapsed
<1>1. clock[t] = 0 /\ clock[t] + uxPendedTicks <= MaxElapsed
  BY DEF CallsInv, CallOf, CallFits
<1>2. uxPendedTicks \in Nat
  BY DEF KernelTypeOK
<1> QED
  BY <1>1, <1>2, Bounds

\* A task's code moves it to place p, with record c and clock k.
Moves(t, p, c, k) ==
    /\ pc' = [pc EXCEPT ![t] = p]
    /\ call' = [call EXCEPT ![t] = c]
    /\ clock' = [clock EXCEPT ![t] = k]
    /\ suspender' = IF p \in SuspendedPc THEN t ELSE NoTask
    /\ uxPendedTicks' = uxPendedTicks

\* Then what is said of the other tasks' calls stays, and of its own if c and k fit.
LEMMA MovesKeepCalls ==
    ASSUME KernelTypeOK, CallTypes, CallsInv, NEW t \in Tasks, suspender \in {t, NoTask},
           NEW p \in Pc, NEW c \in Calls, NEW k \in Nat, k <= clock[t], CallFits(p, c, k),
           Moves(t, p, c, k),
           p \in LockedPc => cTxLock' # queueUNLOCKED,
           p \in LockedPc \cup {"unlock_rx"} => cRxLock' # queueUNLOCKED,
           cTxLock' \in queueUNLOCKED .. MaxLock, cRxLock' \in queueUNLOCKED .. MaxLock,
           aborted' \in [Tasks -> {"no", "earlier", "now"}]
    PROVE  CallTypes' /\ CallsInv'
<1>1. /\ clock[t] \in 0 .. MaxElapsed /\ k \in 0 .. MaxElapsed /\ uxPendedTicks \in Nat
      /\ t # NoTask
  BY Bounds, KernelAssumption DEF CallTypes, KernelTypeOK
<1>2. /\ pc' \in [Tasks -> Pc] /\ call' \in [Tasks -> Calls]
      /\ clock' \in [Tasks -> 0 .. MaxElapsed]
      /\ pc'[t] = p /\ call'[t] = c /\ clock'[t] = k
      /\ \A u \in Tasks : u # t => pc'[u] = pc[u] /\ call'[u] = call[u] /\ clock'[u] = clock[u]
  BY <1>1 DEF Moves, CallTypes
<1>3. suspender' = (IF p \in SuspendedPc THEN t ELSE NoTask) /\ uxPendedTicks' = uxPendedTicks
  BY DEF Moves
<1>4. CallTypes'
  BY <1>2 DEF CallTypes
<1>5. SuspendOf(t)' /\ CallOf(t)'
  <2>1. k + uxPendedTicks <= MaxElapsed
    <3>1. clock[t] + uxPendedTicks <= MaxElapsed
      BY DEF CallsInv, CallOf
    <3> QED
      BY <1>1, <3>1, Bounds
  <2>2. SuspendOf(t)'
    BY <1>1, <1>2, <1>3 DEF SuspendOf
  <2> QED
    BY <1>2, <1>3, <2>1, <2>2 DEF CallOf
<1>6. ASSUME NEW u \in Tasks, u # t PROVE SuspendOf(u)' /\ CallOf(u)'
  <2>1. SuspendOf(u) /\ CallOf(u) /\ suspender # u /\ suspender' # u
    BY <1>3, <1>6, KernelAssumption DEF CallsInv
  <2>2. SuspendOf(u)'
    BY <1>2, <1>6, <2>1 DEF SuspendOf, SuspendedPc
  <2>3. CallOf(u)'
    BY <1>2, <1>3, <1>6, <2>1 DEF CallOf
  <2> QED
    BY <2>2, <2>3
<1> QED
  BY <1>4, <1>5, <1>6 DEF CallsInv

\* A move that leaves the record and the clock alone.
StaysIn(t, p) == Moves(t, p, call[t], clock[t])

LEMMA StayingIsMoving ==
    ASSUME CallTypes, NEW t \in Tasks, NEW p,
           pc' = [pc EXCEPT ![t] = p], UNCHANGED <<call, clock, uxPendedTicks>>,
           suspender' = IF p \in SuspendedPc THEN t ELSE NoTask
    PROVE  StaysIn(t, p)
BY DEF StaysIn, Moves, CallTypes

\* The call of a task that runs, with the types of its parts.
LEMMA OwnCall ==
    ASSUME KernelTypeOK, CallTypes, CallsInv, NEW t \in Tasks
    PROVE  /\ call[t] \in Calls /\ pc[t] \in Pc
           /\ clock[t] \in Nat /\ clock[t] <= MaxElapsed
           /\ CallFits(pc[t], call[t], clock[t])
           /\ pc[t] \in LockedPc => cTxLock # queueUNLOCKED
           /\ pc[t] \in LockedPc \cup {"unlock_rx"} => cRxLock # queueUNLOCKED
<1>1. call[t] \in Calls /\ pc[t] \in Pc /\ clock[t] \in 0 .. MaxElapsed
  BY DEF CallTypes
<1> QED
  BY <1>1, Bounds DEF CallsInv, CallOf, SuspendOf

LEMMA CallMoves ==
    ASSUME KernelTypeOK, CallTypes, CallsInv, ListInv, NEW t \in Tasks, Call(t)
    PROVE  \E r \in Requests[t] :
              LET c == [NoCall EXCEPT !.op = r[1], !.wait = r[2], !.ticks = r[2]]
              IN  c \in Calls /\ CallFits("try", c, 0) /\ Moves(t, "try", c, 0)
<1>1. "app" \in Pc /\ At(t, "app")
  BY DEF Pc, Call
<1>2. pc[t] = "app" /\ suspender = NoTask
  BY <1>1, RunsReady DEF SuspendedPc, LockedPc
<1>3. PICK r \in Requests[t] :
          call' = [call EXCEPT ![t] = [NoCall EXCEPT !.op = r[1], !.wait = r[2], !.ticks = r[2]]]
  BY DEF Call
<1>4. r[1] \in {"send", "receive"} /\ r[2] \in Ticks
  BY QueueAssumption
<1> DEFINE c == [NoCall EXCEPT !.op = r[1], !.wait = r[2], !.ticks = r[2]]
<1>5. c \in Calls
  BY <1>4, NoCallIsCall DEF Calls
<1>6. /\ c.op \in {"send", "receive"} /\ c.ticks = c.wait /\ ~c.set
      /\ c.then = "try" /\ c.wait \in Nat /\ c.ticks \in Nat
  BY <1>4, Bounds DEF NoCall
<1> HIDE DEF c
<1>7. CallFits("try", c, 0)
  BY <1>6 DEF CallFits
<1>8. clock[t] = 0
  <2>1. ~call[t].set
    BY <1>2 DEF CallsInv, CallOf, CallFits, NoCall
  <2> QED
    BY <2>1, QuietCall
<1>9. Moves(t, "try", c, 0)
  <2>1. clock' = [clock EXCEPT ![t] = 0]
    BY <1>8 DEF Call, CallTypes
  <2> QED
    BY <1>2, <1>3, <2>1 DEF Moves, c, Call, Goto, kernelVars, SuspendedPc, LockedPc
<1> QED
  BY <1>5, <1>7, <1>9 DEF c

\* The calls that return.
LEMMA ReturnMoves ==
    ASSUME NEW t \in Tasks, Return(t), suspender' = NoTask, uxPendedTicks' = uxPendedTicks
    PROVE  Moves(t, "app", NoCall, 0) /\ CallFits("app", NoCall, 0) /\ NoCall \in Calls
<1>1. CallFits("app", NoCall, 0)
  BY Bounds DEF CallFits, NoCall
<1> QED
  BY <1>1, NoCallIsCall DEF Return, Goto, Moves, SuspendedPc, LockedPc

LEMMA TryMoves ==
    ASSUME KernelTypeOK, CallTypes, CallsInv, ListInv, NEW t \in Tasks,
           Send(t) \/ Receive(t) \/ GiveUp(t)
    PROVE  /\ At(t, "try") /\ pc[t] = "try" /\ Ready(t) /\ suspender = NoTask
           /\ Moves(t, "app", NoCall, 0) /\ CallFits("app", NoCall, 0)
           /\ NoCall \in Calls
<1>1. "try" \in Pc /\ At(t, "try")
  BY DEF Pc, Send, Receive, GiveUp
<1>2. pc[t] = "try" /\ suspender = NoTask /\ Ready(t)
  BY <1>1, RunsReady DEF SuspendedPc, LockedPc
<1>3. UNCHANGED <<suspender, uxPendedTicks>> /\ Return(t)
  BY DEF Send, Receive, GiveUp, kernelVars
<1> QED
  BY <1>1, <1>2, <1>3, ReturnMoves

LEMMA EnterWaitMoves ==
    ASSUME KernelTypeOK, CallTypes, CallsInv, ListInv, NEW t \in Tasks, EnterWait(t)
    PROVE  LET c == IF call[t].set THEN call[t] ELSE Entered(call[t])
           IN  /\ pc[t] = "try" /\ Ready(t) /\ suspender = NoTask
               /\ Moves(t, "suspend", c, clock[t]) /\ CallFits("suspend", c, clock[t])
               /\ c \in Calls
<1> DEFINE c == IF call[t].set THEN call[t] ELSE Entered(call[t])
<1>1. "try" \in Pc /\ At(t, "try")
  BY DEF Pc, EnterWait
<1>2. pc[t] = "try" /\ suspender = NoTask /\ Ready(t)
  BY <1>1, RunsReady DEF SuspendedPc, LockedPc
<1>3. call[t] \in Calls /\ CallFits("try", call[t], clock[t])
  BY <1>2, OwnCall
<1>4. /\ c \in Calls /\ c.set
      /\ c.op = call[t].op /\ c.wait = call[t].wait /\ c.ticks = call[t].ticks
      /\ c.then = call[t].then /\ c.target = call[t].target
  <2>1. CASE call[t].set
    BY <1>3, <2>1
  <2>2. CASE ~call[t].set
    <3>1. c = Entered(call[t])
      BY <2>2
    <3>2. xTickCount \in Ticks /\ xNumOfOverflows \in {0, 1}
      BY DEF KernelTypeOK
    <3> QED
      BY <1>3, <3>1, <3>2 DEF Entered, Calls
  <2> QED
    BY <2>1, <2>2
<1>5. CallFits("suspend", c, clock[t])
  <2> HIDE DEF c
  <2> QED
    BY <1>3, <1>4 DEF CallFits
<1>6. Moves(t, "suspend", c, clock[t])
  <2>1. call' = [call EXCEPT ![t] = c] /\ clock' = [clock EXCEPT ![t] = clock[t]]
    BY DEF EnterWait, CallTypes
  <2> HIDE DEF c
  <2> QED
    BY <1>2, <2>1 DEF Moves, EnterWait, Goto, kernelVars, SuspendedPc, LockedPc
<1> QED
  BY <1>2, <1>4, <1>5, <1>6

LEMMA SuspendAllMoves ==
    ASSUME KernelTypeOK, CallTypes, CallsInv, ListInv, NEW t \in Tasks, SuspendAll(t)
    PROVE  /\ pc[t] = "suspend" /\ Ready(t) /\ suspender = NoTask
           /\ StaysIn(t, "lock") /\ CallFits("lock", call[t], clock[t])
<1>1. "suspend" \in Pc /\ At(t, "suspend")
  BY DEF Pc, SuspendAll
<1>2. pc[t] = "suspend" /\ suspender = NoTask /\ Ready(t)
  BY <1>1, RunsReady DEF SuspendedPc, LockedPc
<1>3. CallFits("lock", call[t], clock[t])
  BY <1>2, OwnCall DEF CallFits
<1> QED
  BY <1>2, <1>3, StayingIsMoving DEF SuspendAll, vTaskSuspendAll, Goto, SuspendedPc

LEMMA LockMoves ==
    ASSUME KernelTypeOK, CallTypes, CallsInv, ListInv, NEW t \in Tasks, prvLockQueue(t)
    PROVE  /\ pc[t] = "lock" /\ Ready(t) /\ suspender = t
           /\ StaysIn(t, "check") /\ CallFits("check", call[t], clock[t])
<1>1. "lock" \in Pc /\ At(t, "lock")
  BY DEF Pc, prvLockQueue
<1>2. pc[t] = "lock" /\ suspender = t /\ Ready(t)
  BY <1>1, RunsReady DEF SuspendedPc
<1>3. CallFits("check", call[t], clock[t])
  BY <1>2, OwnCall DEF CallFits
<1> QED
  BY <1>2, <1>3, StayingIsMoving DEF prvLockQueue, Goto, kernelVars, SuspendedPc, LockedPc

LEMMA LookAgainMoves ==
    ASSUME KernelTypeOK, CallTypes, CallsInv, ListInv, NEW t \in Tasks, LookAgain(t)
    PROVE  LET p == IF MustWait(t) THEN "place" ELSE "unlock_tx"
           IN  /\ pc[t] = "full" /\ Ready(t) /\ suspender = t
               /\ StaysIn(t, p) /\ CallFits(p, call[t], clock[t])
<1> DEFINE p == IF MustWait(t) THEN "place" ELSE "unlock_tx"
<1>1. "full" \in Pc /\ At(t, "full")
  BY DEF Pc, LockedPc, LookAgain
<1>2. pc[t] = "full" /\ suspender = t /\ Ready(t)
  BY <1>1, RunsReady DEF SuspendedPc, LockedPc
<1>3. p \in {"place", "unlock_tx"} /\ pc' = [pc EXCEPT ![t] = p]
  BY DEF LookAgain, Goto
<1> HIDE DEF p
<1>4. CallFits(p, call[t], clock[t])
  BY <1>2, <1>3, OwnCall DEF CallFits
<1>5. StaysIn(t, p)
  BY <1>2, <1>3, StayingIsMoving DEF LookAgain, kernelVars, SuspendedPc, LockedPc
<1> QED
  BY <1>2, <1>4, <1>5 DEF p

LEMMA PlaceCallMoves ==
    ASSUME KernelTypeOK, CallTypes, CallsInv, ListInv, NEW t \in Tasks, PlaceOnEventList(t)
    PROVE  /\ pc[t] = "place" /\ Ready(t) /\ suspender = t
           /\ StaysIn(t, "unlock_tx") /\ CallFits("unlock_tx", call[t], clock[t])
           /\ call[t].then = "try"
<1>1. "place" \in Pc /\ At(t, "place")
  BY DEF Pc, LockedPc, PlaceOnEventList
<1>2. pc[t] = "place" /\ suspender = t /\ Ready(t)
  BY <1>1, RunsReady DEF SuspendedPc, LockedPc
<1>3. CallFits("unlock_tx", call[t], clock[t]) /\ call[t].then = "try"
  BY <1>2, OwnCall DEF CallFits
<1> QED
  BY <1>2, <1>3, StayingIsMoving DEF PlaceOnEventList, Goto, kernelVars, SuspendedPc, LockedPc

LEMMA UnlockTxMoves ==
    ASSUME KernelTypeOK, CallTypes, CallsInv, ListInv, NEW t \in Tasks, UnlockTx(t)
    PROVE  /\ pc[t] = "unlock_tx" /\ suspender = t /\ cTxLock \in Nat
           /\ cRxLock # queueUNLOCKED
           /\ StaysIn(t, "unlock_rx") /\ CallFits("unlock_rx", call[t], clock[t])
<1>1. "unlock_tx" \in Pc /\ At(t, "unlock_tx")
  BY DEF Pc, LockedPc, UnlockTx
<1>2. pc[t] = "unlock_tx" /\ suspender = t
  BY <1>1, RunsReady DEF SuspendedPc, LockedPc
<1>3. CallFits("unlock_rx", call[t], clock[t])
  BY <1>2, OwnCall DEF CallFits
<1>4. cTxLock \in Nat /\ cRxLock # queueUNLOCKED
  BY <1>2, OwnCall, Bounds DEF LockedPc, CallTypes, queueUNLOCKED
<1> QED
  BY <1>2, <1>3, <1>4, StayingIsMoving DEF UnlockTx, Goto, SuspendedPc, LockedPc

LEMMA UnlockRxMoves ==
    ASSUME KernelTypeOK, CallTypes, CallsInv, ListInv, NEW t \in Tasks, UnlockRx(t)
    PROVE  /\ pc[t] = "unlock_rx" /\ suspender = t /\ cRxLock \in Nat
           /\ StaysIn(t, "resume") /\ CallFits("resume", call[t], clock[t])
<1>1. "unlock_rx" \in Pc /\ At(t, "unlock_rx")
  BY DEF Pc, UnlockRx
<1>2. pc[t] = "unlock_rx" /\ suspender = t
  BY <1>1, RunsReady DEF SuspendedPc, LockedPc
<1>3. CallFits("resume", call[t], clock[t])
  BY <1>2, OwnCall DEF CallFits
<1>4. cRxLock \in Nat
  BY <1>2, OwnCall, Bounds DEF LockedPc, CallTypes, queueUNLOCKED
<1> QED
  BY <1>2, <1>3, <1>4, StayingIsMoving DEF UnlockRx, Goto, SuspendedPc, LockedPc

\* What xTaskCheckForTimeOut makes of the record.
Checked(t) ==
    LET c       == call[t]
        wrapped == xNumOfOverflows # c.count /\ xTickCount >= c.entering
        expired == ucDelayAborted[t] \/ TimedOut(c.ticks, c.entering, c.count)
        after   == IF ucDelayAborted[t] \/ c.ticks = portMAX_DELAY \/ wrapped THEN c
                   ELSE IF expired THEN [c EXCEPT !.ticks = 0]
                   ELSE Remaining(c)
    IN  IF expired THEN [after EXCEPT !.then = IF Receiving(t) THEN "recheck" ELSE "app"]
        ELSE [after EXCEPT !.then = "try"]

Expires(t) == \/ ucDelayAborted[t]
              \/ TimedOut(call[t].ticks, call[t].entering, call[t].count)

\* The ticks that the counts show.
LEMMA ElapsedTicks ==
    ASSUME KernelTypeOK, NEW e \in Ticks
    PROVE  /\ Elapsed(e) = IF e <= xTickCount THEN xTickCount - e
                           ELSE xTickCount - e + TickModulus
           /\ Elapsed(e) \in Ticks
<1>1. /\ TickModulus \in Nat \ {0} /\ xTickCount \in 0 .. TickModulus - 1
      /\ e \in 0 .. TickModulus - 1
  BY Bounds DEF KernelTypeOK
<1>2. Elapsed(e) = IF e <= xTickCount THEN xTickCount - e ELSE xTickCount - e + TickModulus
  BY <1>1, UnsignedDifference DEF Elapsed
<1> QED
  BY <1>1, <1>2, Bounds

\* It changes nothing but the four fields, and counts the ticks down.
LEMMA CheckedCall ==
    ASSUME KernelTypeOK, CallTypes, CallsInv, NEW t \in Tasks, pc[t] = "check"
    PROVE  LET c == call[t]
               d == Checked(t)
           IN  /\ d \in Calls /\ d.op = c.op /\ d.wait = c.wait /\ d.set /\ d.target = c.target
               /\ d.ticks <= c.ticks
               /\ c.wait = portMAX_DELAY => d.ticks = c.ticks
               /\ Expires(t) => d.then = IF Receiving(t) THEN "recheck" ELSE "app"
               /\ ~Expires(t) => d.then = "try"
               /\ CallFits(IF Expires(t) THEN "unlock_tx" ELSE "full", d, clock[t])
<1> DEFINE c       == call[t]
           wrapped == xNumOfOverflows # c.count /\ xTickCount >= c.entering
           expired == Expires(t)
           after   == IF ucDelayAborted[t] \/ c.ticks = portMAX_DELAY \/ wrapped THEN c
                      ELSE IF expired THEN [c EXCEPT !.ticks = 0]
                      ELSE Remaining(c)
           d       == Checked(t)
<1>1. c \in Calls /\ CallFits("check", c, clock[t]) /\ clock[t] \in Nat
  BY OwnCall
<1>2. c.op \in {"send", "receive"} /\ c.set /\ c.ticks <= c.wait /\ c.then = "try"
      /\ (c.wait = portMAX_DELAY => c.ticks = portMAX_DELAY /\ clock[t] = 0)
  BY <1>1 DEF CallFits
<1>3. /\ c.wait \in Nat /\ c.ticks \in Ticks /\ c.entering \in Ticks /\ c.ticks \in Nat
  BY <1>1, Bounds, CallFields
<1>4. d = IF expired THEN [after EXCEPT !.then = IF Receiving(t) THEN "recheck" ELSE "app"]
          ELSE [after EXCEPT !.then = "try"]
  BY DEF Checked, Expires
<1>5. /\ after \in Calls /\ after.op = c.op /\ after.wait = c.wait /\ after.set
      /\ after.target = c.target /\ after.ticks \in Nat /\ after.ticks <= c.ticks
      /\ c.wait = portMAX_DELAY => after.ticks = c.ticks
  <2>1. CASE ucDelayAborted[t] \/ c.ticks = portMAX_DELAY \/ wrapped
    BY <1>1, <1>2, <1>3, <2>1
  <2>2. CASE ~(ucDelayAborted[t] \/ c.ticks = portMAX_DELAY \/ wrapped) /\ expired
    <3>1. after = [c EXCEPT !.ticks = 0] /\ c.wait # portMAX_DELAY
      BY <1>2, <2>2
    <3>2. 0 \in Ticks /\ 0 <= c.ticks /\ 0 \in Nat
      BY <1>3, Bounds
    <3> HIDE DEF after
    <3> QED
      BY <1>1, <1>2, <3>1, <3>2 DEF Calls
  <2>3. CASE ~(ucDelayAborted[t] \/ c.ticks = portMAX_DELAY \/ wrapped) /\ ~expired
    <3> DEFINE e == Elapsed(c.entering)
               r == c.ticks - e
    <3>1. ~TimedOut(c.ticks, c.entering, c.count) /\ c.wait # portMAX_DELAY
      BY <1>2, <2>3 DEF Expires
    <3>2. e \in Ticks /\ ~(e >= c.ticks)
      BY <1>3, <2>3, <3>1, ElapsedTicks DEF TimedOut
    <3>3. r \in Ticks /\ r \in Nat /\ r <= c.ticks
      <4> HIDE DEF e
      <4> QED
        BY <1>3, <3>2, Bounds
    <3>4. after = Entered([c EXCEPT !.ticks = r])
      BY <2>3 DEF Remaining
    <3>5. xTickCount \in Ticks /\ xNumOfOverflows \in {0, 1}
      BY DEF KernelTypeOK
    <3> HIDE DEF after, r
    <3>6. [c EXCEPT !.ticks = r] \in Calls
      BY <1>1, <3>3 DEF Calls
    <3>7. after = [[c EXCEPT !.ticks = r] EXCEPT !.set = TRUE, !.entering = xTickCount,
                                                 !.count = xNumOfOverflows]
      BY <1>1, <3>1, <3>4 DEF Entered, Calls
    <3> QED
      BY <1>1, <1>2, <3>1, <3>3, <3>5, <3>7 DEF Calls
  <2> QED
    BY <2>1, <2>2, <2>3
<1> HIDE DEF after, d, expired
<1>6. /\ d \in Calls /\ d.op = c.op /\ d.wait = c.wait /\ d.set /\ d.target = c.target
      /\ d.ticks = after.ticks
      /\ expired => d.then = IF Receiving(t) THEN "recheck" ELSE "app"
      /\ ~expired => d.then = "try"
  <2>1. CASE expired
    BY <1>4, <1>5, <2>1 DEF Calls
  <2>2. CASE ~expired
    BY <1>4, <1>5, <2>2 DEF Calls
  <2> QED
    BY <2>1, <2>2
<1>7. d.ticks <= d.wait /\ (d.wait = portMAX_DELAY => d.ticks = portMAX_DELAY /\ clock[t] = 0)
  <2>1. \A x, y, z \in Nat : x <= y /\ y <= z => x <= z
    OBVIOUS
  <2> QED
    BY <1>2, <1>3, <1>5, <1>6, <2>1
<1>8. CASE expired
  BY <1>2, <1>5, <1>6, <1>7, <1>8 DEF CallFits, expired, d
<1>9. CASE ~expired
  BY <1>2, <1>5, <1>6, <1>7, <1>9 DEF CallFits, expired, d
<1> QED
  BY <1>8, <1>9

LEMMA CheckMoves ==
    ASSUME KernelTypeOK, CallTypes, CallsInv, ListInv, NEW t \in Tasks, CheckForTimeOut(t)
    PROVE  LET p == IF Expires(t) THEN "unlock_tx" ELSE "full"
           IN  /\ pc[t] = "check" /\ Ready(t) /\ suspender = t
               /\ Moves(t, p, Checked(t), clock[t]) /\ CallFits(p, Checked(t), clock[t])
               /\ Checked(t) \in Calls
<1> DEFINE p == IF Expires(t) THEN "unlock_tx" ELSE "full"
<1>1. "check" \in Pc /\ At(t, "check")
  BY DEF Pc, LockedPc, CheckForTimeOut
<1>2. pc[t] = "check" /\ suspender = t /\ Ready(t)
  BY <1>1, RunsReady DEF SuspendedPc, LockedPc
<1>3. pc' = [pc EXCEPT ![t] = p] /\ call' = [call EXCEPT ![t] = Checked(t)]
  BY DEF CheckForTimeOut, Goto, Checked, Expires
<1>4. clock' = [clock EXCEPT ![t] = clock[t]]
  BY DEF CheckForTimeOut, CallTypes
<1>5. p \in {"unlock_tx", "full"} /\ CallFits(p, Checked(t), clock[t]) /\ Checked(t) \in Calls
  BY <1>2, CheckedCall
<1> HIDE DEF p
<1>6. Moves(t, p, Checked(t), clock[t])
  BY <1>2, <1>3, <1>4, <1>5 DEF Moves, CheckForTimeOut, SuspendedPc, LockedPc
<1> QED
  BY <1>2, <1>5, <1>6 DEF p

LEMMA ResumeCallMoves ==
    ASSUME KernelTypeOK, CallTypes, CallsInv, ListInv, NEW t \in Tasks, Resume(t)
    PROVE  LET d == [call[t] EXCEPT !.then = "try"]
           IN  /\ pc[t] = "resume" /\ suspender = t /\ d \in Calls /\ NoCall \in Calls
               /\ IF call[t].then = "app"
                  THEN Moves(t, "app", NoCall, 0) /\ CallFits("app", NoCall, 0)
                  ELSE /\ call[t].then \in {"try", "recheck"}
                       /\ Moves(t, call[t].then, d, clock[t])
                       /\ CallFits(call[t].then, d, clock[t])
<1> DEFINE d == [call[t] EXCEPT !.then = "try"]
<1>1. "resume" \in Pc /\ At(t, "resume")
  BY DEF Pc, Resume
<1>2. pc[t] = "resume" /\ suspender = t
  BY <1>1, RunsReady DEF SuspendedPc
<1>3. call[t] \in Calls /\ CallFits("resume", call[t], clock[t])
  BY <1>2, OwnCall
<1>4. suspender' = NoTask /\ uxPendedTicks' = uxPendedTicks
  BY DEF Resume, ResumeAll
<1>5. /\ d \in Calls /\ d.op = call[t].op /\ d.wait = call[t].wait
      /\ d.ticks = call[t].ticks /\ d.set = call[t].set /\ d.then = "try"
  BY <1>3 DEF Calls
<1>6. CASE call[t].then = "app"
  BY <1>2, <1>4, <1>5, <1>6, ReturnMoves, NoCallIsCall DEF Resume
<1>7. CASE call[t].then # "app"
  <2>1. call[t].then \in {"try", "recheck"}
    BY <1>3, <1>7, CallFields
  <2>2. /\ pc' = [pc EXCEPT ![t] = call[t].then]
        /\ call' = [call EXCEPT ![t] = d]
        /\ clock' = [clock EXCEPT ![t] = clock[t]]
    BY <1>7 DEF Resume, Goto, CallTypes
  <2> HIDE DEF d
  <2>3. Moves(t, call[t].then, d, clock[t])
    BY <1>4, <2>1, <2>2 DEF Moves, SuspendedPc, LockedPc
  <2>4. CallFits(call[t].then, d, clock[t])
    <3>1. call[t].op # "abort"
      BY <1>3, <1>7 DEF CallFits
    <3> QED
      BY <1>3, <1>5, <2>1, <3>1 DEF CallFits
  <2> QED
    BY <1>2, <1>5, <1>7, <2>1, <2>3, <2>4, NoCallIsCall DEF d
<1> QED
  BY <1>6, <1>7

LEMMA RecheckMoves ==
    ASSUME KernelTypeOK, CallTypes, CallsInv, ListInv, NEW t \in Tasks, Recheck(t)
    PROVE  /\ pc[t] = "recheck" /\ Ready(t) /\ suspender = NoTask /\ NoCall \in Calls
           /\ IF NoMessage THEN Moves(t, "app", NoCall, 0) /\ CallFits("app", NoCall, 0)
              ELSE StaysIn(t, "try") /\ CallFits("try", call[t], clock[t])
<1>1. "recheck" \in Pc /\ At(t, "recheck")
  BY DEF Pc, Recheck
<1>2. pc[t] = "recheck" /\ suspender = NoTask /\ Ready(t)
  BY <1>1, RunsReady DEF SuspendedPc, LockedPc
<1>3. suspender' = NoTask /\ uxPendedTicks' = uxPendedTicks
  BY <1>2 DEF Recheck, kernelVars
<1>4. CASE NoMessage
  BY <1>2, <1>3, <1>4, ReturnMoves DEF Recheck
<1>5. CASE ~NoMessage
  <2>1. CallFits("try", call[t], clock[t])
    BY <1>2, OwnCall DEF CallFits
  <2>2. StaysIn(t, "try")
    BY <1>3, <1>5, StayingIsMoving DEF Recheck, Goto, SuspendedPc, LockedPc
  <2> QED
    BY <1>2, <1>5, <2>1, <2>2, NoCallIsCall
<1> QED
  BY <1>4, <1>5

LEMMA AbortMoves ==
    ASSUME KernelTypeOK, CallTypes, CallsInv, ListInv, NEW t \in Tasks, Abort(t)
    PROVE  \E u \in Aborts[t] :
              LET c == [NoCall EXCEPT !.op = "abort", !.target = u, !.then = "app"]
              IN  /\ pc[t] = "app" /\ Ready(t) /\ suspender = NoTask
                  /\ Moves(t, "abort_state", c, 0) /\ CallFits("abort_state", c, 0)
                  /\ c \in Calls
<1>1. "app" \in Pc /\ At(t, "app")
  BY DEF Pc, Abort
<1>2. pc[t] = "app" /\ suspender = NoTask /\ Ready(t)
  BY <1>1, RunsReady DEF SuspendedPc, LockedPc
<1>3. PICK u \in Aborts[t] :
          call' = [call EXCEPT ![t] = [NoCall EXCEPT !.op = "abort", !.target = u, !.then = "app"]]
  BY DEF Abort
<1>4. u \in Tasks
  BY QueueAssumption
<1> DEFINE c == [NoCall EXCEPT !.op = "abort", !.target = u, !.then = "app"]
<1>5. c \in Calls
  BY <1>4, NoCallIsCall DEF Calls
<1>6. /\ c.op = "abort" /\ c.ticks = 0 /\ c.wait = 0 /\ ~c.set
      /\ c.then = "app" /\ c.target = u
  BY DEF NoCall
<1> HIDE DEF c
<1>7. CallFits("abort_state", c, 0)
  BY <1>4, <1>6, Bounds DEF CallFits
<1>8. clock[t] = 0
  <2>1. ~call[t].set
    BY <1>2 DEF CallsInv, CallOf, CallFits, NoCall
  <2> QED
    BY <2>1, QuietCall
<1>9. Moves(t, "abort_state", c, 0)
  <2>1. clock' = [clock EXCEPT ![t] = 0]
    BY <1>8 DEF Abort, CallTypes
  <2> QED
    BY <1>2, <1>3, <2>1 DEF Moves, c, Abort, vTaskSuspendAll, Goto, SuspendedPc
<1> QED
  BY <1>2, <1>5, <1>7, <1>9 DEF c

LEMMA AbortStateMoves ==
    ASSUME KernelTypeOK, CallTypes, CallsInv, ListInv, NEW t \in Tasks, AbortStateItem(t)
    PROVE  LET p == IF Blocked(call[t].target) THEN "abort_event" ELSE "resume"
           IN  /\ pc[t] = "abort_state" /\ Ready(t) /\ suspender = t
               /\ call[t].target \in Tasks /\ call[t].op = "abort"
               /\ StaysIn(t, p) /\ CallFits(p, call[t], clock[t])
<1> DEFINE p == IF Blocked(call[t].target) THEN "abort_event" ELSE "resume"
<1>1. "abort_state" \in Pc /\ At(t, "abort_state")
  BY DEF Pc, AbortStateItem
<1>2. pc[t] = "abort_state" /\ suspender = t /\ Ready(t)
  BY <1>1, RunsReady DEF SuspendedPc
<1>3. p \in {"abort_event", "resume"} /\ pc' = [pc EXCEPT ![t] = p]
  BY DEF AbortStateItem, Goto
<1> HIDE DEF p
<1>4. CallFits(p, call[t], clock[t]) /\ call[t].target \in Tasks /\ call[t].op = "abort"
  BY <1>2, <1>3, OwnCall DEF CallFits
<1>5. StaysIn(t, p)
  BY <1>2, <1>3, StayingIsMoving DEF AbortStateItem, SuspendedPc
<1> QED
  BY <1>2, <1>4, <1>5 DEF p

LEMMA AbortEventMoves ==
    ASSUME KernelTypeOK, CallTypes, CallsInv, ListInv, NEW t \in Tasks, AbortEventItem(t)
    PROVE  /\ pc[t] = "abort_event" /\ Ready(t) /\ suspender = t
           /\ call[t].target \in Tasks /\ call[t].op = "abort"
           /\ StaysIn(t, "resume") /\ CallFits("resume", call[t], clock[t])
<1>1. "abort_event" \in Pc /\ At(t, "abort_event")
  BY DEF Pc, AbortEventItem
<1>2. pc[t] = "abort_event" /\ suspender = t /\ Ready(t)
  BY <1>1, RunsReady DEF SuspendedPc
<1>3. CallFits("resume", call[t], clock[t]) /\ call[t].target \in Tasks /\ call[t].op = "abort"
  BY <1>2, OwnCall DEF CallFits
<1> QED
  BY <1>2, <1>3, StayingIsMoving DEF AbortEventItem, Goto, SuspendedPc

\* The locks and the marks of aborted tasks: bounds and values.
LEMMA LocksAreTyped ==
    ASSUME CallTypes, Next
    PROVE  /\ cTxLock' \in queueUNLOCKED .. MaxLock /\ cRxLock' \in queueUNLOCKED .. MaxLock
           /\ aborted' \in [Tasks -> {"no", "earlier", "now"}]
<1>1. /\ queueUNLOCKED \in queueUNLOCKED .. MaxLock
      /\ queueLOCKED_UNMODIFIED \in queueUNLOCKED .. MaxLock
      /\ \A n \in queueUNLOCKED .. MaxLock : n < MaxLock => n + 1 \in queueUNLOCKED .. MaxLock
  BY Bounds DEF queueUNLOCKED, queueLOCKED_UNMODIFIED
<1>2. ASSUME NEW t \in Tasks, Return(t)
      PROVE  aborted' \in [Tasks -> {"no", "earlier", "now"}]
  BY <1>2 DEF Return, CallTypes
<1>3. ASSUME NEW t \in Tasks, Call(t) \/ Abort(t)
      PROVE  UNCHANGED <<cTxLock, cRxLock, aborted>>
  BY <1>3 DEF Call, Abort, queueVars, lockVars
<1>4. ASSUME NEW t \in Tasks, Send(t) \/ Receive(t) \/ GiveUp(t)
      PROVE  UNCHANGED <<cTxLock, cRxLock>> /\ Return(t)
  BY <1>4 DEF Send, Receive, GiveUp, queueVars, lockVars
<1>5. ASSUME NEW t \in Tasks, EnterWait(t) \/ SuspendAll(t) \/ CheckForTimeOut(t) \/ LookAgain(t)
      PROVE  UNCHANGED <<cTxLock, cRxLock, aborted>>
  BY <1>5 DEF EnterWait, SuspendAll, CheckForTimeOut, LookAgain, queueVars, lockVars
<1>6. ASSUME NEW t \in Tasks, prvLockQueue(t) \/ UnlockTx(t) \/ UnlockRx(t)
      PROVE  /\ UNCHANGED aborted
             /\ cTxLock' \in {cTxLock, queueUNLOCKED, queueLOCKED_UNMODIFIED}
             /\ cRxLock' \in {cRxLock, queueUNLOCKED, queueLOCKED_UNMODIFIED}
  BY <1>6 DEF prvLockQueue, UnlockTx, UnlockRx
<1>7. ASSUME NEW t \in Tasks, PlaceOnEventList(t) \/ AbortStateItem(t) \/ AbortEventItem(t)
      PROVE  /\ UNCHANGED <<cTxLock, cRxLock>>
             /\ aborted' \in [Tasks -> {"no", "earlier", "now"}]
  BY <1>7 DEF PlaceOnEventList, AbortStateItem, AbortEventItem, queueVars, lockVars, CallTypes
<1>8. ASSUME NEW t \in Tasks, Resume(t) \/ Recheck(t)
      PROVE  UNCHANGED <<cTxLock, cRxLock>> /\ (Return(t) \/ UNCHANGED aborted)
  BY <1>8 DEF Resume, Recheck, queueVars, lockVars
<1>9. CASE IsrSend \/ IsrReceive
  <2>1. UNCHANGED aborted
    BY <1>9 DEF IsrSend, IsrReceive, callVars
  <2>2. /\ UNCHANGED cTxLock \/ (cTxLock < MaxLock /\ cTxLock' = cTxLock + 1)
        /\ UNCHANGED cRxLock \/ (cRxLock < MaxLock /\ cRxLock' = cRxLock + 1)
    BY <1>9 DEF IsrSend, IsrReceive
  <2> QED
    BY <1>1, <2>1, <2>2 DEF CallTypes
<1>10. CASE Tick \/ PendedTick
  BY <1>10 DEF Tick, PendedTick, queueVars, lockVars, CallTypes
<1>11. ASSUME NEW t \in Tasks, QueueStep(t)
       PROVE  /\ cTxLock' \in queueUNLOCKED .. MaxLock /\ cRxLock' \in queueUNLOCKED .. MaxLock
              /\ aborted' \in [Tasks -> {"no", "earlier", "now"}]
  BY <1>1, <1>2, <1>4, <1>5, <1>6, <1>7, <1>8, <1>11 DEF QueueStep, CallTypes
<1> QED
  BY <1>3, <1>9, <1>10, <1>11 DEF Next, CallTypes

\* No step takes a call to a place that does not fit its record, its clock, the
\* suspension or the locks.
LEMMA CallsStep ==
    ASSUME KernelTypeOK, CallTypes, CallsInv, ListInv, Next
    PROVE  CallTypes' /\ CallsInv'
<1> USE LocksAreTyped
<1>0. \A t \in Tasks : clock[t] \in Nat /\ 0 \in Nat /\ 0 <= clock[t] /\ clock[t] <= clock[t]
  BY OwnCall
<1>1. ASSUME NEW t \in Tasks, Call(t) PROVE CallTypes' /\ CallsInv'
  <2>1. PICK r \in Requests[t] :
            LET c == [NoCall EXCEPT !.op = r[1], !.wait = r[2], !.ticks = r[2]]
            IN  c \in Calls /\ CallFits("try", c, 0) /\ Moves(t, "try", c, 0)
    BY <1>1, CallMoves
  <2>2. suspender = NoTask
    BY <1>1, RunsReady DEF Call, Pc, SuspendedPc, LockedPc
  <2>3. "try" \in Pc /\ "try" \notin LockedPc \cup {"unlock_rx"}
    BY DEF Pc, LockedPc
  <2> QED
    BY <1>0, <2>1, <2>2, <2>3, MovesKeepCalls
<1>2. ASSUME NEW t \in Tasks, Abort(t) PROVE CallTypes' /\ CallsInv'
  <2>1. PICK u \in Aborts[t] :
            LET c == [NoCall EXCEPT !.op = "abort", !.target = u, !.then = "app"]
            IN  /\ suspender = NoTask
                /\ Moves(t, "abort_state", c, 0) /\ CallFits("abort_state", c, 0)
                /\ c \in Calls
    BY <1>2, AbortMoves
  <2>2. "abort_state" \in Pc /\ "abort_state" \notin LockedPc \cup {"unlock_rx"}
    BY DEF Pc, LockedPc
  <2> QED
    BY <1>0, <2>1, <2>2, MovesKeepCalls
<1>3. ASSUME NEW t \in Tasks, Send(t) \/ Receive(t) \/ GiveUp(t)
      PROVE  CallTypes' /\ CallsInv'
  <2>1. "app" \in Pc /\ "app" \notin LockedPc \cup {"unlock_rx"}
    BY DEF Pc, LockedPc
  <2> QED
    BY <1>0, <1>3, <2>1, TryMoves, MovesKeepCalls
<1>4. ASSUME NEW t \in Tasks, EnterWait(t) PROVE CallTypes' /\ CallsInv'
  <2>1. "suspend" \in Pc /\ "suspend" \notin LockedPc \cup {"unlock_rx"}
    BY DEF Pc, LockedPc
  <2> DEFINE c == IF call[t].set THEN call[t] ELSE Entered(call[t])
  <2>2. /\ suspender = NoTask /\ Moves(t, "suspend", c, clock[t])
        /\ CallFits("suspend", c, clock[t]) /\ c \in Calls
    BY <1>4, EnterWaitMoves
  <2> HIDE DEF c
  <2> QED
    BY <1>0, <2>1, <2>2, MovesKeepCalls
<1>5. ASSUME NEW t \in Tasks, SuspendAll(t) PROVE CallTypes' /\ CallsInv'
  <2>1. "lock" \in Pc /\ "lock" \notin LockedPc \cup {"unlock_rx"}
    BY DEF Pc, LockedPc
  <2>2. suspender = NoTask /\ Moves(t, "lock", call[t], clock[t])
        /\ CallFits("lock", call[t], clock[t])
    BY <1>5, SuspendAllMoves DEF StaysIn
  <2> QED
    BY <1>0, <2>1, <2>2, OwnCall, MovesKeepCalls
<1>6. ASSUME NEW t \in Tasks, prvLockQueue(t) PROVE CallTypes' /\ CallsInv'
  <2>1. "check" \in Pc
    BY DEF Pc, LockedPc
  <2>2. suspender = t /\ Moves(t, "check", call[t], clock[t])
        /\ CallFits("check", call[t], clock[t])
    BY <1>6, LockMoves DEF StaysIn
  <2>3. cTxLock' # queueUNLOCKED /\ cRxLock' # queueUNLOCKED
    BY <1>6 DEF prvLockQueue, queueUNLOCKED, queueLOCKED_UNMODIFIED
  <2> QED
    BY <1>0, <2>1, <2>2, <2>3, OwnCall, MovesKeepCalls
<1>7. ASSUME NEW t \in Tasks, CheckForTimeOut(t) PROVE CallTypes' /\ CallsInv'
  <2> DEFINE p == IF Expires(t) THEN "unlock_tx" ELSE "full"
  <2>1. p \in Pc /\ p \in LockedPc
    BY DEF Pc, LockedPc
  <2>2. /\ pc[t] = "check" /\ suspender = t /\ Moves(t, p, Checked(t), clock[t])
        /\ CallFits(p, Checked(t), clock[t]) /\ Checked(t) \in Calls
    BY <1>7, CheckMoves
  <2> HIDE DEF p
  <2>3. cTxLock' # queueUNLOCKED /\ cRxLock' # queueUNLOCKED
    <3>1. cTxLock # queueUNLOCKED /\ cRxLock # queueUNLOCKED
      BY <2>2, OwnCall DEF LockedPc
    <3> QED
      BY <1>7, <3>1 DEF CheckForTimeOut, queueVars, lockVars
  <2> QED
    BY <1>0, <2>1, <2>2, <2>3, MovesKeepCalls
<1>8. ASSUME NEW t \in Tasks, LookAgain(t) PROVE CallTypes' /\ CallsInv'
  <2> DEFINE p == IF MustWait(t) THEN "place" ELSE "unlock_tx"
  <2>1. p \in Pc /\ p \in LockedPc
    BY DEF Pc, LockedPc
  <2>2. /\ pc[t] = "full" /\ suspender = t /\ Moves(t, p, call[t], clock[t])
        /\ CallFits(p, call[t], clock[t])
    BY <1>8, LookAgainMoves DEF StaysIn
  <2> HIDE DEF p
  <2>3. cTxLock' # queueUNLOCKED /\ cRxLock' # queueUNLOCKED
    <3>1. cTxLock # queueUNLOCKED /\ cRxLock # queueUNLOCKED
      BY <2>2, OwnCall DEF LockedPc
    <3> QED
      BY <1>8, <3>1 DEF LookAgain, queueVars, lockVars
  <2> QED
    BY <1>0, <2>1, <2>2, <2>3, OwnCall, MovesKeepCalls
<1>9. ASSUME NEW t \in Tasks, PlaceOnEventList(t) PROVE CallTypes' /\ CallsInv'
  <2>1. "unlock_tx" \in Pc
    BY DEF Pc, LockedPc
  <2>2. /\ pc[t] = "place" /\ suspender = t /\ Moves(t, "unlock_tx", call[t], clock[t])
        /\ CallFits("unlock_tx", call[t], clock[t])
    BY <1>9, PlaceCallMoves DEF StaysIn
  <2>3. cTxLock' # queueUNLOCKED /\ cRxLock' # queueUNLOCKED
    <3>1. cTxLock # queueUNLOCKED /\ cRxLock # queueUNLOCKED
      BY <2>2, OwnCall DEF LockedPc
    <3> QED
      BY <1>9, <3>1 DEF PlaceOnEventList, queueVars, lockVars
  <2> QED
    BY <1>0, <2>1, <2>2, <2>3, OwnCall, MovesKeepCalls
<1>10. ASSUME NEW t \in Tasks, UnlockTx(t) PROVE CallTypes' /\ CallsInv'
  <2>1. "unlock_rx" \in Pc /\ "unlock_rx" \notin LockedPc
    BY DEF Pc, LockedPc
  <2>2. /\ suspender = t /\ Moves(t, "unlock_rx", call[t], clock[t])
        /\ CallFits("unlock_rx", call[t], clock[t]) /\ cRxLock # queueUNLOCKED
    BY <1>10, UnlockTxMoves DEF StaysIn
  <2>3. cRxLock' # queueUNLOCKED
    BY <1>10, <2>2 DEF UnlockTx
  <2> QED
    BY <1>0, <2>1, <2>2, <2>3, OwnCall, MovesKeepCalls
<1>11. ASSUME NEW t \in Tasks, UnlockRx(t) PROVE CallTypes' /\ CallsInv'
  <2>1. "resume" \in Pc /\ "resume" \notin LockedPc \cup {"unlock_rx"}
    BY DEF Pc, LockedPc
  <2>2. /\ suspender = t /\ Moves(t, "resume", call[t], clock[t])
        /\ CallFits("resume", call[t], clock[t])
    BY <1>11, UnlockRxMoves DEF StaysIn
  <2> QED
    BY <1>0, <2>1, <2>2, OwnCall, MovesKeepCalls
<1>12. ASSUME NEW t \in Tasks, Resume(t) PROVE CallTypes' /\ CallsInv'
  <2>1. \A p \in {"app", "try", "recheck"} : p \in Pc /\ p \notin LockedPc \cup {"unlock_rx"}
    BY DEF Pc, LockedPc
  <2> DEFINE d == [call[t] EXCEPT !.then = "try"]
  <2>2. /\ suspender = t /\ d \in Calls /\ NoCall \in Calls
        /\ IF call[t].then = "app"
           THEN Moves(t, "app", NoCall, 0) /\ CallFits("app", NoCall, 0)
           ELSE /\ call[t].then \in {"try", "recheck"}
                /\ Moves(t, call[t].then, d, clock[t])
                /\ CallFits(call[t].then, d, clock[t])
    BY <1>12, ResumeCallMoves
  <2> HIDE DEF d
  <2>3. CASE call[t].then = "app"
    BY <1>0, <2>1, <2>2, <2>3, MovesKeepCalls
  <2>4. CASE call[t].then # "app"
    <3> DEFINE p == call[t].then
    <3>1. /\ p \in Pc /\ p \notin LockedPc \cup {"unlock_rx"}
          /\ Moves(t, p, d, clock[t]) /\ CallFits(p, d, clock[t])
      BY <2>1, <2>2, <2>4
    <3> HIDE DEF p
    <3> QED
      BY <1>0, <2>2, <3>1, MovesKeepCalls
  <2> QED
    BY <2>3, <2>4
<1>13. ASSUME NEW t \in Tasks, Recheck(t) PROVE CallTypes' /\ CallsInv'
  <2>1. \A p \in {"app", "try"} : p \in Pc /\ p \notin LockedPc \cup {"unlock_rx"}
    BY DEF Pc, LockedPc
  <2>2. /\ suspender = NoTask /\ NoCall \in Calls
        /\ IF NoMessage THEN Moves(t, "app", NoCall, 0) /\ CallFits("app", NoCall, 0)
           ELSE Moves(t, "try", call[t], clock[t]) /\ CallFits("try", call[t], clock[t])
    BY <1>13, RecheckMoves DEF StaysIn
  <2>3. CASE NoMessage
    BY <1>0, <2>1, <2>2, <2>3, MovesKeepCalls
  <2>4. CASE ~NoMessage
    BY <1>0, <2>1, <2>2, <2>4, OwnCall, MovesKeepCalls
  <2> QED
    BY <2>3, <2>4
<1>14. ASSUME NEW t \in Tasks, AbortStateItem(t) PROVE CallTypes' /\ CallsInv'
  <2> DEFINE p == IF Blocked(call[t].target) THEN "abort_event" ELSE "resume"
  <2>1. p \in Pc /\ p \notin LockedPc \cup {"unlock_rx"}
    BY DEF Pc, LockedPc
  <2>2. suspender = t /\ Moves(t, p, call[t], clock[t]) /\ CallFits(p, call[t], clock[t])
    BY <1>14, AbortStateMoves DEF StaysIn
  <2> HIDE DEF p
  <2> QED
    BY <1>0, <2>1, <2>2, OwnCall, MovesKeepCalls
<1>15. ASSUME NEW t \in Tasks, AbortEventItem(t) PROVE CallTypes' /\ CallsInv'
  <2>1. "resume" \in Pc /\ "resume" \notin LockedPc \cup {"unlock_rx"}
    BY DEF Pc, LockedPc
  <2>2. suspender = t /\ Moves(t, "resume", call[t], clock[t])
        /\ CallFits("resume", call[t], clock[t])
    BY <1>15, AbortEventMoves DEF StaysIn
  <2> QED
    BY <1>0, <2>1, <2>2, OwnCall, MovesKeepCalls
<1>16. CASE IsrSend \/ IsrReceive
  <2>1. UNCHANGED <<pc, call, clock, aborted, suspender, uxPendedTicks>>
    BY <1>16 DEF IsrSend, IsrReceive, callVars
  <2>2. /\ cTxLock # queueUNLOCKED => cTxLock' # queueUNLOCKED
        /\ cRxLock # queueUNLOCKED => cRxLock' # queueUNLOCKED
    <3>1. /\ UNCHANGED cTxLock \/ cTxLock' = cTxLock + 1
          /\ UNCHANGED cRxLock \/ cRxLock' = cRxLock + 1
      BY <1>16 DEF IsrSend, IsrReceive
    <3> QED
      BY <3>1 DEF CallTypes, queueUNLOCKED
  <2>3. CallTypes'
    BY <2>1 DEF CallTypes
  <2>4. CallsInv'
    BY <2>1, <2>2 DEF CallsInv, SuspendOf, CallOf
  <2> QED
    BY <2>3, <2>4
<1>17. CASE Tick \/ PendedTick
  <2>1. /\ UNCHANGED <<pc, call, aborted, suspender, cTxLock, cRxLock>>
        /\ uxPendedTicks \in Nat
    BY <1>17 DEF Tick, PendedTick, TickInterrupt, ProcessPendedTick, queueVars, lockVars,
                 KernelTypeOK
  <2>2. ASSUME NEW t \in Tasks
        PROVE  \E k \in 0 .. MaxElapsed :
                  /\ clock'[t] = k /\ CallFits(pc[t], call[t], k)
                  /\ k + uxPendedTicks' <= MaxElapsed
    <3>1. /\ clock[t] \in Nat /\ clock[t] <= MaxElapsed /\ MaxElapsed \in Nat
          /\ CallFits(pc[t], call[t], clock[t])
          /\ clock[t] + uxPendedTicks <= MaxElapsed
      BY OwnCall, Bounds DEF CallsInv, CallOf
    <3>2. CASE Tick /\ suspender = NoTask
      <4>1. uxPendedTicks = 0 /\ uxPendedTicks' = 0 /\ clock[t] < MaxElapsed
        BY <2>1, <3>1, <3>2 DEF Tick, TickInterrupt, Processing
      <4>2. clock'[t] = IF call[t].set /\ call[t].wait # portMAX_DELAY THEN clock[t] + 1 ELSE 0
        BY <3>2 DEF Tick, Advance
      <4>3. CASE call[t].set /\ call[t].wait # portMAX_DELAY
        <5>1. clock[t] + 1 \in 0 .. MaxElapsed /\ clock[t] + 1 + 0 <= MaxElapsed
          BY <3>1, <4>1
        <5> QED
          BY <3>1, <4>1, <4>2, <4>3, <5>1 DEF CallFits
      <4>4. CASE ~(call[t].set /\ call[t].wait # portMAX_DELAY)
        <5>1. 0 \in 0 .. MaxElapsed /\ 0 + 0 <= MaxElapsed
          BY <3>1
        <5> QED
          BY <3>1, <4>1, <4>2, <4>4, <5>1 DEF CallFits
      <4> QED
        BY <4>3, <4>4
    <3>3. CASE Tick /\ suspender # NoTask
      <4>1. /\ uxPendedTicks' = uxPendedTicks + 1 /\ clock' = clock
            /\ clock[t] + uxPendedTicks < MaxElapsed
        BY <3>3 DEF Tick, TickInterrupt
      <4>2. clock[t] \in 0 .. MaxElapsed /\ clock[t] + (uxPendedTicks + 1) <= MaxElapsed
        BY <2>1, <3>1, <4>1
      <4> QED
        BY <3>1, <4>1, <4>2
    <3>4. CASE PendedTick
      <4>1. uxPendedTicks > 0 /\ uxPendedTicks' = uxPendedTicks - 1
        BY <3>4 DEF PendedTick, ProcessPendedTick, Processing
      <4>2. clock'[t] = IF call[t].set /\ call[t].wait # portMAX_DELAY THEN clock[t] + 1 ELSE 0
        BY <3>4 DEF PendedTick, Advance
      <4>3. CASE call[t].set /\ call[t].wait # portMAX_DELAY
        <5>1. clock[t] + 1 \in 0 .. MaxElapsed /\ clock[t] + 1 + (uxPendedTicks - 1) <= MaxElapsed
          BY <2>1, <3>1, <4>1
        <5> QED
          BY <3>1, <4>1, <4>2, <4>3, <5>1 DEF CallFits
      <4>4. CASE ~(call[t].set /\ call[t].wait # portMAX_DELAY)
        <5>1. 0 \in 0 .. MaxElapsed /\ 0 + (uxPendedTicks - 1) <= MaxElapsed
          BY <2>1, <3>1, <4>1
        <5> QED
          BY <3>1, <4>1, <4>2, <4>4, <5>1 DEF CallFits
      <4> QED
        BY <4>3, <4>4
    <3> QED
      BY <1>17, <3>2, <3>3, <3>4
  <2>3. clock' \in [Tasks -> 0 .. MaxElapsed]
    <3>1. \E f : clock' = [t \in Tasks |-> f[t]]
      BY <1>17 DEF Tick, PendedTick, Advance, CallTypes
    <3> QED
      BY <2>2, <3>1
  <2>4. CallTypes'
    BY <2>1, <2>3 DEF CallTypes
  <2>5. CallsInv'
    <3> SUFFICES ASSUME NEW t \in Tasks PROVE SuspendOf(t)' /\ CallOf(t)'
      BY DEF CallsInv
    <3>1. SuspendOf(t)'
      BY <2>1 DEF CallsInv, SuspendOf
    <3>2. CallOf(t)'
      BY <2>1, <2>2 DEF CallOf
    <3> QED
      BY <3>1, <3>2
  <2> QED
    BY <2>4, <2>5
<1> QED
  BY <1>1, <1>2, <1>3, <1>4, <1>5, <1>6, <1>7, <1>8, <1>9, <1>10, <1>11, <1>12, <1>13,
     <1>14, <1>15, <1>16, <1>17 DEF Next, QueueStep
-------------------------------------------------------------------------------
(***************************************************************************)
(* The lists: what every step does to the places of a task.                *)
(***************************************************************************)

LEMMA NextPlacesAreMembers ==
    ASSUME ListsAreTyped', NEW t \in Tasks
    PROVE  /\ Waiting(t)' <=> \E l \in EventLists : t \in Members(eventList'[l])
           /\ Pending(t)' <=> t \in Members(xPendingReadyList')
BY DEF ListsAreTyped, Waiting, Pending, Members

\* A task's code goes on; if it has blocked, only on its way out of the wait.
CodeMoves ==
    \A t \in Tasks :
        \/ pc'[t] = pc[t] /\ call'[t] = call[t]
        \/ Ready(t) /\ xStateListItem'[t] = "ready"
        \/ Leaving(t) /\ Leaving(t)' /\ call'[t] = call[t]
        \/ /\ Leaving(t) /\ pc'[t] = "try"
           /\ call[t].then = "try" /\ call'[t].op = call[t].op

\* A task gets ready and out of every list, or stays blocked and in one.
PlacesMove ==
    \A t \in Tasks :
        \/ /\ xStateListItem'[t] = "ready" /\ t \notin Members(xPendingReadyList')
           /\ \A l \in EventLists : t \notin Members(eventList'[l])
        \/ /\ xStateListItem[t] # "ready" /\ xStateListItem'[t] # "ready"
           /\ xStateListItem[t] = "none" => xStateListItem'[t] = "none"
           /\ Waiting(t) \/ Pending(t) =>
                 \/ t \in Members(xPendingReadyList')
                 \/ \E l \in EventLists : t \in Members(eventList'[l])

\* A task in no list is one that somebody aborts.
AbortedByOne ==
    \A t \in Tasks : xStateListItem[t] = "none" =>
        \E u \in Tasks : pc[u] = "abort_event" /\ call[u].target = t

LEMMA ListsMove ==
    ASSUME ListsAreTyped, ListInv, ListsAreTyped', ListsAreDistinct',
           CodeMoves, PlacesMove, AbortedByOne',
           xPendingReadyList' # <<>> => suspender' # NoTask,
           \A l \in EventLists : Members(eventList'[l]) \subseteq Members(eventList[l])
    PROVE  ListInv'
<1>1. \A l \in EventLists : Members(eventList[l]) \subseteq Tasks
  BY EmptyLists
<1>2. ASSUME NEW l \in EventLists, NEW t \in Members(eventList'[l])
      PROVE  l = EventList(t)' /\ ~Pending(t)'
  <2>1. t \in Tasks /\ t \in Members(eventList[l]) /\ Waiting(t)
    BY <1>1, PlacesAreMembers
  <2>2. l = EventList(t) /\ xStateListItem[t] # "ready"
    BY <2>1 DEF ListInv, EventListsInv, BlockedOf
  <2>3. call'[t].op = call[t].op
    BY <2>1, <2>2 DEF CodeMoves, Ready
  <2>4. t \notin Members(xPendingReadyList')
    BY DEF ListsAreDistinct
  <2> QED
    BY <2>1, <2>2, <2>3, <2>4, NextPlacesAreMembers DEF EventList, Receiving
<1>3. EventListsInv'
  BY <1>2 DEF EventListsInv, ListsAreDistinct
<1>4. ASSUME NEW t \in Tasks PROVE BlockedOf(t)'
  <2>1. BlockedOf(t)
    BY DEF ListInv
  <2>2. xStateListItem'[t] = "ready" => ~Waiting(t)' /\ ~Pending(t)'
    BY NextPlacesAreMembers DEF PlacesMove
  <2>3. xStateListItem'[t] \notin {"ready", "none"} => Waiting(t)' \/ Pending(t)'
    BY <2>1, NextPlacesAreMembers DEF PlacesMove, BlockedOf
  <2>4. xStateListItem'[t] # "ready" => pc'[t] = "try" \/ (Leaving(t)' /\ call'[t].then = "try")
    <3> SUFFICES ASSUME xStateListItem'[t] # "ready"
                 PROVE  pc'[t] = "try" \/ (Leaving(t)' /\ call'[t].then = "try")
      OBVIOUS
    <3>1. xStateListItem[t] # "ready"
      BY DEF PlacesMove
    <3>2. pc[t] = "try" \/ (Leaving(t) /\ call[t].then = "try")
      BY <2>1, <3>1 DEF BlockedOf
    <3> QED
      BY <3>1, <3>2 DEF CodeMoves, Leaving, Ready
  <2>5. xStateListItem'[t] = "none" =>
            \E u \in Tasks : pc'[u] = "abort_event" /\ call'[u].target = t
    BY DEF AbortedByOne
  <2> QED
    BY <2>2, <2>3, <2>4, <2>5 DEF BlockedOf
<1> QED
  BY <1>3, <1>4 DEF ListInv

\* Unless the abort itself goes on, the tasks in no list stay accounted for.
LEMMA AbortsStay ==
    ASSUME ListInv, \A t \in Tasks : xStateListItem'[t] = "none" => xStateListItem[t] = "none",
           \A u \in Tasks : pc[u] = "abort_event" => pc'[u] = pc[u] /\ call'[u] = call[u]
    PROVE  AbortedByOne'
BY DEF AbortedByOne, ListInv, BlockedOf

\* Steps that leave the lists alone.
LEMMA ListsStay ==
    ASSUME ListsAreTyped, ListInv, UNCHANGED listVars, CodeMoves,
           suspender' = suspender \/ suspender = NoTask,
           \A u \in Tasks : pc[u] = "abort_event" => pc'[u] = pc[u] /\ call'[u] = call[u]
    PROVE  ListInv'
<1>1. UNCHANGED <<xStateListItem, eventList, xPendingReadyList>>
  BY DEF listVars
<1>2. ListsAreTyped' /\ ListsAreDistinct'
  BY <1>1, DistinctLists DEF ListInv, ListsAreTyped, ListsAreDistinct
<1>3. PlacesMove
  <2> SUFFICES ASSUME NEW t \in Tasks
               PROVE  \/ /\ xStateListItem'[t] = "ready" /\ t \notin Members(xPendingReadyList')
                         /\ \A l \in EventLists : t \notin Members(eventList'[l])
                      \/ /\ xStateListItem[t] # "ready" /\ xStateListItem'[t] # "ready"
                         /\ xStateListItem[t] = "none" => xStateListItem'[t] = "none"
                         /\ Waiting(t) \/ Pending(t) =>
                               \/ t \in Members(xPendingReadyList')
                               \/ \E l \in EventLists : t \in Members(eventList'[l])
    BY DEF PlacesMove
  <2>1. BlockedOf(t)
    BY DEF ListInv
  <2> QED
    BY <1>1, <2>1, PlacesAreMembers DEF BlockedOf
<1>4. AbortedByOne'
  BY <1>1, AbortsStay
<1>5. xPendingReadyList' # <<>> => suspender' # NoTask
  BY <1>1 DEF ListInv, EventListsInv
<1> QED
  BY <1>1, <1>2, <1>3, <1>4, <1>5, ListsMove

\* Waiters that are woken.
LEMMA WakingKeepsLists ==
    ASSUME KernelTypeOK, ListInv, NEW l \in EventLists, NEW n \in Nat,
           RemoveFromEventList(l, n), CodeMoves, suspender' = suspender,
           \A u \in Tasks : pc[u] = "abort_event" => pc'[u] = pc[u] /\ call'[u] = call[u]
    PROVE  ListInv' /\ ListsAreDistinct'
<1>1. ListsAreTyped /\ ListsAreDistinct
  BY DistinctLists DEF KernelTypeOK, ListsAreTyped, ListInv
<1>2. PICK woken : /\ ListsAreTyped' /\ ListsAreDistinct'
                   /\ Wakes(l, woken)
  BY <1>1, RemovalWakes
<1>3. /\ \A k \in EventLists : Members(eventList'[k]) =
            IF k = l THEN Members(eventList[l]) \ woken ELSE Members(eventList[k])
      /\ woken \subseteq Members(eventList[l]) /\ woken \subseteq Tasks
  BY <1>1, <1>2, EmptyLists DEF Wakes
<1>4. suspender = NoTask => xPendingReadyList' = <<>> /\ Members(xPendingReadyList') = {}
  BY <1>2 DEF ListInv, EventListsInv, Wakes, Members
<1>5. ASSUME NEW t \in Tasks
      PROVE  /\ \/ /\ xStateListItem'[t] = "ready" /\ t \notin Members(xPendingReadyList')
                   /\ \A k \in EventLists : t \notin Members(eventList'[k])
                \/ /\ xStateListItem[t] # "ready" /\ xStateListItem'[t] # "ready"
                   /\ xStateListItem[t] = "none" => xStateListItem'[t] = "none"
                   /\ Waiting(t) \/ Pending(t) =>
                         \/ t \in Members(xPendingReadyList')
                         \/ \E k \in EventLists : t \in Members(eventList'[k])
             /\ xStateListItem'[t] = "none" => xStateListItem[t] = "none"
  <2>1. BlockedOf(t) /\ (Waiting(t) <=> \E k \in EventLists : t \in Members(eventList[k]))
        /\ (Pending(t) <=> t \in Members(xPendingReadyList))
    BY <1>1, PlacesAreMembers DEF ListInv
  <2>2. CASE suspender = NoTask
    <3>1. xStateListItem'[t] = IF t \in woken THEN "ready" ELSE xStateListItem[t]
      BY <1>2, <2>2 DEF Wakes
    <3>2. ~Pending(t) /\ t \notin Members(xPendingReadyList')
      BY <1>2, <1>4, <2>1, <2>2 DEF Wakes
    <3>3. CASE t \in woken
      <4>1. \A k \in EventLists : t \notin Members(eventList'[k])
        BY <1>1, <1>3, <3>3 DEF ListsAreDistinct
      <4> QED
        BY <3>1, <3>2, <3>3, <4>1
    <3>4. CASE t \notin woken
      <4>1. \A k \in EventLists : t \in Members(eventList'[k]) <=> t \in Members(eventList[k])
        BY <1>3, <3>4
      <4> QED
        BY <2>1, <3>1, <3>2, <3>4, <4>1 DEF BlockedOf
    <3> QED
      BY <3>3, <3>4
  <2>3. CASE suspender # NoTask
    <3>1. xStateListItem'[t] = xStateListItem[t]
          /\ Members(xPendingReadyList') = Members(xPendingReadyList) \cup woken
      BY <1>2, <2>3 DEF Wakes
    <3>2. CASE xStateListItem[t] = "ready"
      BY <1>3, <2>1, <3>1, <3>2 DEF BlockedOf
    <3>3. CASE xStateListItem[t] # "ready"
      BY <1>3, <2>1, <3>1, <3>3
    <3> QED
      BY <3>2, <3>3
  <2> QED
    BY <2>2, <2>3
<1>6. PlacesMove
  BY <1>5 DEF PlacesMove
<1>7. AbortedByOne'
  BY <1>5, AbortsStay
<1>8. xPendingReadyList' # <<>> => suspender' # NoTask
  BY <1>4
<1> QED
  BY <1>1, <1>2, <1>3, <1>6, <1>7, <1>8, ListsMove

\* A move in code is a move of CodeMoves, and no task but the one that aborts leaves
\* the place where it does.
LEMMA MovesAreCodeMoves ==
    ASSUME CallTypes, NEW t \in Tasks, NEW p, NEW c, NEW k, Moves(t, p, c, k),
           \/ Ready(t) /\ xStateListItem'[t] = "ready"
           \/ Leaving(t) /\ p \in {"unlock_tx", "unlock_rx", "resume"} /\ c = call[t]
           \/ Leaving(t) /\ p = "try" /\ call[t].then = "try" /\ c.op = call[t].op
    PROVE  /\ CodeMoves
           /\ pc[t] # "abort_event" => \A u \in Tasks : pc[u] = "abort_event" =>
                 pc'[u] = pc[u] /\ call'[u] = call[u]
<1>1. /\ pc'[t] = p /\ call'[t] = c
      /\ \A u \in Tasks : u # t => pc'[u] = pc[u] /\ call'[u] = call[u]
  BY DEF Moves, CallTypes
<1> QED
  BY <1>1 DEF CodeMoves, Leaving

LEMMA ReadyStaysReady ==
    ASSUME KernelTypeOK, NEW t \in Tasks, Ready(t), NEW l \in EventLists, NEW n,
           RemoveFromEventList(l, n)
    PROVE  xStateListItem'[t] = "ready"
BY DEF RemoveFromEventList, Ready

LEMMA TwoEventLists ==
    /\ "xTasksWaitingToSend" \in EventLists /\ "xTasksWaitingToReceive" \in EventLists
    /\ \A t : EventList(t) \in EventLists
BY QueueAssumption DEF EventList

\* Calls that leave the lists alone.
LEMMA ListsOfQuietCalls ==
    ASSUME KernelTypeOK, CallTypes, CallsInv, ListInv, NEW t \in Tasks,
           \/ Call(t) \/ Abort(t) \/ GiveUp(t) \/ EnterWait(t) \/ SuspendAll(t)
           \/ prvLockQueue(t) \/ CheckForTimeOut(t) \/ LookAgain(t) \/ Recheck(t)
    PROVE  KernelTypeOK' /\ ListInv'
<1>1. UNCHANGED listVars /\ UNCHANGED <<timeVars, uxPendedTicks>>
  BY DEF Call, Abort, GiveUp, EnterWait, SuspendAll, prvLockQueue, CheckForTimeOut, LookAgain,
         Recheck, kernelVars
<1>2. UNCHANGED ucDelayAborted \/ ucDelayAborted' = [ucDelayAborted EXCEPT ![t] = FALSE]
  BY DEF Call, Abort, GiveUp, EnterWait, SuspendAll, prvLockQueue, CheckForTimeOut, LookAgain,
         Recheck, kernelVars
<1>3. suspender' \in {suspender, t} /\ (suspender' = suspender \/ suspender = NoTask)
  BY DEF Call, Abort, GiveUp, EnterWait, SuspendAll, prvLockQueue, CheckForTimeOut, LookAgain,
         Recheck, kernelVars, vTaskSuspendAll
<1>4. KernelTypeOK'
  BY <1>1, <1>2, <1>3 DEF KernelTypeOK, listVars, timeVars
<1>5. Ready(t) /\ pc[t] # "abort_event"
  <2>1. "app" \in Pc /\ "try" \in Pc /\ "suspend" \in Pc /\ "lock" \in Pc /\ "check" \in Pc
        /\ "full" \in Pc /\ "recheck" \in Pc
    BY DEF Pc, LockedPc
  <2>2. \E p \in {"app", "try", "suspend", "lock", "check", "full", "recheck"} : At(t, p)
    BY DEF Call, Abort, GiveUp, EnterWait, SuspendAll, prvLockQueue, CheckForTimeOut,
           LookAgain, Recheck
  <2> QED
    BY <2>1, <2>2, RunsReady
<1>6. \A u \in Tasks : u # t => pc'[u] = pc[u] /\ call'[u] = call[u]
  BY DEF Call, Abort, GiveUp, EnterWait, SuspendAll, prvLockQueue, CheckForTimeOut, LookAgain,
         Recheck, Goto, Return, CallTypes
<1>7. CodeMoves /\ \A u \in Tasks : pc[u] = "abort_event" => pc'[u] = pc[u] /\ call'[u] = call[u]
  BY <1>1, <1>5, <1>6 DEF CodeMoves, Ready, listVars
<1> QED
  BY <1>1, <1>3, <1>4, <1>7, ListsStay DEF KernelTypeOK, ListsAreTyped

\* Calls that wake a waiter or unlock the queue.
LEMMA ListsOfWakingCalls ==
    ASSUME KernelTypeOK, CallTypes, CallsInv, ListInv, NEW t \in Tasks,
           Send(t) \/ Receive(t) \/ UnlockTx(t) \/ UnlockRx(t)
    PROVE  KernelTypeOK' /\ ListInv'
<1>1. ListsAreDistinct
  BY DistinctLists DEF KernelTypeOK, ListsAreTyped, ListInv
<1>2. UNCHANGED <<timeVars, suspender, uxPendedTicks, ucDelayAborted>>
  BY DEF Send, Receive, UnlockTx, UnlockRx
<1>3. CASE Send(t) \/ Receive(t)
  <2>1. PICK l \in EventLists : RemoveFromEventList(l, 1)
    BY <1>3, TwoEventLists DEF Send, Receive
  <2>2. pc[t] = "try" /\ Ready(t) /\ Moves(t, "app", NoCall, 0)
    BY <1>3, TryMoves
  <2>3. CodeMoves /\ \A u \in Tasks : pc[u] = "abort_event" =>
                        pc'[u] = pc[u] /\ call'[u] = call[u]
    BY <2>1, <2>2, ReadyStaysReady, MovesAreCodeMoves
  <2> QED
    BY <1>1, <1>2, <2>1, <2>3, RemovalIsTyped, WakingKeepsLists
<1>4. CASE UnlockTx(t)
  <2>1. cTxLock \in Nat /\ RemoveFromEventList("xTasksWaitingToReceive", cTxLock)
        /\ pc[t] = "unlock_tx" /\ Moves(t, "unlock_rx", call[t], clock[t])
    BY <1>4, UnlockTxMoves DEF UnlockTx, StaysIn
  <2>2. Leaving(t)
    BY <2>1 DEF Leaving
  <2>3. CodeMoves /\ \A u \in Tasks : pc[u] = "abort_event" =>
                        pc'[u] = pc[u] /\ call'[u] = call[u]
    BY <2>1, <2>2, MovesAreCodeMoves
  <2> QED
    BY <1>1, <1>2, <2>1, <2>3, TwoEventLists, RemovalIsTyped, WakingKeepsLists
<1>5. CASE UnlockRx(t)
  <2>1. cRxLock \in Nat /\ RemoveFromEventList("xTasksWaitingToSend", cRxLock)
        /\ pc[t] = "unlock_rx" /\ Moves(t, "resume", call[t], clock[t])
    BY <1>5, UnlockRxMoves DEF UnlockRx, StaysIn
  <2>2. Leaving(t)
    BY <2>1 DEF Leaving
  <2>3. CodeMoves /\ \A u \in Tasks : pc[u] = "abort_event" =>
                        pc'[u] = pc[u] /\ call'[u] = call[u]
    BY <2>1, <2>2, MovesAreCodeMoves
  <2> QED
    BY <1>1, <1>2, <2>1, <2>3, TwoEventLists, RemovalIsTyped, WakingKeepsLists
<1> QED
  BY <1>3, <1>4, <1>5

\* Interrupt handlers.
LEMMA ListsOfHandlers ==
    ASSUME KernelTypeOK, CallTypes, CallsInv, ListInv, IsrSend \/ IsrReceive
    PROVE  KernelTypeOK' /\ ListInv'
<1>1. ListsAreDistinct
  BY DistinctLists DEF KernelTypeOK, ListsAreTyped, ListInv
<1>2. UNCHANGED <<timeVars, suspender, uxPendedTicks, ucDelayAborted, pc, call>>
  BY DEF IsrSend, IsrReceive, callVars
<1>3. CodeMoves
  BY <1>2 DEF CodeMoves
<1>4. UNCHANGED listVars \/ \E l \in EventLists : RemoveFromEventList(l, 1)
  BY TwoEventLists DEF IsrSend, IsrReceive
<1>5. CASE UNCHANGED listVars
  <2>1. KernelTypeOK'
    BY <1>2, <1>5 DEF KernelTypeOK, listVars, timeVars
  <2> QED
    BY <1>2, <1>3, <1>5, <2>1, ListsStay DEF KernelTypeOK, ListsAreTyped
<1>6. ASSUME NEW l \in EventLists, RemoveFromEventList(l, 1)
      PROVE  KernelTypeOK' /\ ListInv'
  BY <1>1, <1>2, <1>3, <1>6, RemovalIsTyped, WakingKeepsLists
<1> QED
  BY <1>4, <1>5, <1>6

\* The tick: whose time has come leaves both lists.
LEMMA TimeOrdersLists ==
    ASSUME TimeInv
    PROVE  NotOverdue
BY DEF TimeInv, TimeOf, WakeFits, NotOverdue

LEMMA ListsOfTick ==
    ASSUME KernelTypeOK, CallTypes, ListInv, TimeInv, Tick \/ PendedTick
    PROVE  /\ KernelTypeOK' /\ ListInv'
           /\ UNCHANGED <<pc, call, suspender>>
           /\ \/ /\ Tick /\ suspender # NoTask
                 /\ UNCHANGED <<listVars, timeVars>>
              \/ /\ PendedTick \/ suspender = NoTask
                 /\ \E due : TickMoves(due)
<1>1. /\ UNCHANGED <<pc, call, xPendingReadyList, suspender, ucDelayAborted>>
      /\ uxPendedTicks' \in Nat
  <2>1. UNCHANGED <<pc, call, xPendingReadyList, suspender, ucDelayAborted>>
    BY DEF Tick, PendedTick, TickInterrupt, ProcessPendedTick
  <2>2. \/ uxPendedTicks' = uxPendedTicks
        \/ uxPendedTicks' = uxPendedTicks + 1
        \/ uxPendedTicks > 0 /\ uxPendedTicks' = uxPendedTicks - 1
    BY DEF Tick, PendedTick, TickInterrupt, ProcessPendedTick, Processing
  <2>3. uxPendedTicks \in Nat
    BY DEF KernelTypeOK
  <2> QED
    BY <2>1, <2>2, <2>3
<1>2. CodeMoves /\ \A u \in Tasks : pc[u] = "abort_event" => pc'[u] = pc[u] /\ call'[u] = call[u]
  BY <1>1 DEF CodeMoves
<1>3. CASE Tick /\ suspender # NoTask
  <2>1. UNCHANGED <<xStateListItem, xItemValue, eventList, timeVars>>
    BY <1>3 DEF Tick, TickInterrupt
  <2>2. KernelTypeOK'
    BY <1>1, <2>1 DEF KernelTypeOK, timeVars
  <2>3. UNCHANGED listVars
    BY <1>1, <2>1 DEF listVars
  <2>4. ListInv'
    BY <1>1, <1>2, <2>3, ListsStay DEF KernelTypeOK, ListsAreTyped
  <2> QED
    BY <1>1, <1>3, <2>1, <2>2, <2>3, <2>4
<1>4. CASE PendedTick \/ (Tick /\ suspender = NoTask)
  <2>1. xTaskIncrementTick /\ suspender = NoTask
    BY <1>4 DEF Tick, PendedTick, TickInterrupt, ProcessPendedTick, Processing
  <2>2. ListsAreTyped /\ ListsAreDistinct
    BY DistinctLists DEF KernelTypeOK, ListsAreTyped, ListInv
  <2>3. KernelTypeOK' /\ ListsAreDistinct' /\ \E due : TickMoves(due)
    BY <1>1, <2>1, <2>2, TimeOrdersLists, TickIsTickMoves
  <2>4. PICK due : TickMoves(due)
    BY <2>3
  <2> DEFINE now == IF xTickCount = portMAX_DELAY THEN 0 ELSE xTickCount + 1
             switched(t) == IF now = 0 /\ xStateListItem[t] = "delayed" THEN "overflow"
                            ELSE IF now = 0 /\ xStateListItem[t] = "overflow" THEN "delayed"
                            ELSE xStateListItem[t]
  <2>5. /\ \A t \in Tasks : t \in due => switched(t) = "delayed" /\ xStateListItem'[t] = "ready"
        /\ \A t \in Tasks : t \notin due => xStateListItem'[t] = switched(t)
        /\ \A l \in EventLists : Members(eventList'[l]) = Members(eventList[l]) \ due
    BY <2>4 DEF TickMoves
  <2>6. xPendingReadyList' = <<>> /\ Members(xPendingReadyList') = {}
        /\ Members(xPendingReadyList) = {}
    BY <1>1, <2>1 DEF ListInv, EventListsInv, Members
  <2>7. ASSUME NEW t \in Tasks
        PROVE  /\ xStateListItem[t] = "ready" <=> switched(t) = "ready"
               /\ xStateListItem[t] = "none" <=> switched(t) = "none"
    OBVIOUS
  <2> HIDE DEF switched
  <2>8. ASSUME NEW t \in Tasks
        PROVE  /\ \/ /\ xStateListItem'[t] = "ready" /\ t \notin Members(xPendingReadyList')
                     /\ \A l \in EventLists : t \notin Members(eventList'[l])
                  \/ /\ xStateListItem[t] # "ready" /\ xStateListItem'[t] # "ready"
                     /\ xStateListItem[t] = "none" => xStateListItem'[t] = "none"
                     /\ Waiting(t) \/ Pending(t) =>
                           \/ t \in Members(xPendingReadyList')
                           \/ \E l \in EventLists : t \in Members(eventList'[l])
               /\ xStateListItem'[t] = "none" => xStateListItem[t] = "none"
    <3>1. BlockedOf(t) /\ (Waiting(t) <=> \E l \in EventLists : t \in Members(eventList[l]))
          /\ ~Pending(t)
      BY <2>2, <2>6, PlacesAreMembers DEF ListInv
    <3>2. CASE t \in due
      BY <2>5, <2>6, <3>2
    <3>3. CASE t \notin due
      BY <2>5, <2>6, <2>7, <3>1, <3>3 DEF BlockedOf
    <3> QED
      BY <3>2, <3>3
  <2>9. PlacesMove
    BY <2>8 DEF PlacesMove
  <2>10. AbortedByOne'
    BY <1>2, <2>8, AbortsStay
  <2>11. ListsAreTyped'
    BY <2>3 DEF KernelTypeOK, ListsAreTyped
  <2>12. ListInv'
    BY <1>2, <2>2, <2>3, <2>5, <2>6, <2>9, <2>10, <2>11, ListsMove
  <2> QED
    BY <1>1, <1>4, <2>3, <2>12
<1> QED
  BY <1>3, <1>4

\* Resuming the scheduler.
LEMMA ListsOfResume ==
    ASSUME KernelTypeOK, CallTypes, CallsInv, ListInv, NEW t \in Tasks, Resume(t)
    PROVE  KernelTypeOK' /\ ListInv' /\ ResumeMoves
<1>1. ListsAreTyped /\ ListsAreDistinct
  BY DistinctLists DEF KernelTypeOK, ListsAreTyped, ListInv
<1>2. /\ ResumeAll
      /\ UNCHANGED <<eventList, xTickCount, xNumOfOverflows, uxPendedTicks, ucDelayAborted>>
  BY DEF Resume
<1>3. KernelTypeOK' /\ ListsAreDistinct' /\ ResumeMoves
  BY <1>1, <1>2, ResumeIsResumeMoves
<1>4. ListsAreTyped'
  BY <1>3 DEF KernelTypeOK, ListsAreTyped
<1>5. pc[t] = "resume" /\ suspender = t /\ t # NoTask
  BY ResumeCallMoves, KernelAssumption
<1>6. \A u \in Tasks : pc[u] # "abort_event"
  BY <1>5 DEF CallsInv, SuspendOf, SuspendedPc
<1>7. \A u \in Tasks : xStateListItem[u] # "none" /\ xStateListItem'[u] # "none"
  <2>1. \A u \in Tasks : xStateListItem[u] # "none"
    BY <1>6 DEF ListInv, BlockedOf
  <2> QED
    BY <1>3, <2>1 DEF ResumeMoves
<1>8. xPendingReadyList' = <<>> /\ Members(xPendingReadyList') = {}
  BY <1>3 DEF ResumeMoves, Members
<1>9. PlacesMove
  <2> SUFFICES ASSUME NEW u \in Tasks
               PROVE  \/ /\ xStateListItem'[u] = "ready" /\ u \notin Members(xPendingReadyList')
                         /\ \A l \in EventLists : u \notin Members(eventList'[l])
                      \/ /\ xStateListItem[u] # "ready" /\ xStateListItem'[u] # "ready"
                         /\ xStateListItem[u] = "none" => xStateListItem'[u] = "none"
                         /\ Waiting(u) \/ Pending(u) =>
                               \/ u \in Members(xPendingReadyList')
                               \/ \E l \in EventLists : u \in Members(eventList'[l])
    BY DEF PlacesMove
  <2>1. BlockedOf(u) /\ (Waiting(u) <=> \E l \in EventLists : u \in Members(eventList[l]))
        /\ (Pending(u) <=> u \in Members(xPendingReadyList))
    BY <1>1, PlacesAreMembers DEF ListInv
  <2>2. CASE Pending(u)
    BY <1>1, <1>2, <1>3, <1>8, <2>1, <2>2 DEF ResumeMoves, ListsAreDistinct
  <2>3. CASE ~Pending(u)
    BY <1>2, <1>3, <1>8, <2>1, <2>3 DEF ResumeMoves, BlockedOf
  <2> QED
    BY <2>2, <2>3
<1>10. CodeMoves
  <2>1. Leaving(t)
    BY <1>5 DEF Leaving
  <2> DEFINE d == [call[t] EXCEPT !.then = "try"]
  <2>2. IF call[t].then = "app" THEN Moves(t, "app", NoCall, 0)
        ELSE /\ call[t].then \in {"try", "recheck"}
             /\ Moves(t, call[t].then, d, clock[t])
    BY ResumeCallMoves
  <2>3. d.op = call[t].op
    BY DEF CallTypes, Calls
  <2>4. call[t].then # "try" => Ready(t) /\ xStateListItem'[t] = "ready"
    <3>1. call[t].then # "try" => Ready(t)
      BY <1>5 DEF ListInv, BlockedOf, Ready
    <3> QED
      BY <1>3, <3>1 DEF ResumeMoves, Ready
  <2> HIDE DEF d
  <2>5. CASE call[t].then = "app"
    BY <2>2, <2>4, <2>5, MovesAreCodeMoves
  <2>6. CASE call[t].then = "try"
    BY <2>1, <2>2, <2>3, <2>6, MovesAreCodeMoves
  <2>7. CASE call[t].then \notin {"app", "try"}
    BY <2>2, <2>4, <2>7, MovesAreCodeMoves
  <2> QED
    BY <2>5, <2>6, <2>7
<1>11. AbortedByOne'
  BY <1>7 DEF AbortedByOne
<1> QED
  BY <1>1, <1>2, <1>3, <1>4, <1>8, <1>9, <1>10, <1>11, ListsMove

\* A task that begins to wait.
LEMMA ListsOfPlace ==
    ASSUME KernelTypeOK, CallTypes, CallsInv, ListInv, NEW t \in Tasks, PlaceOnEventList(t)
    PROVE  /\ KernelTypeOK' /\ ListInv'
           /\ PlaceMoves(t, EventList(t), call[t].ticks)
<1>1. ListsAreTyped /\ ListsAreDistinct
  BY DistinctLists DEF KernelTypeOK, ListsAreTyped, ListInv
<1>2. pc[t] = "place" /\ Ready(t) /\ suspender = t /\ call[t].then = "try"
      /\ Moves(t, "unlock_tx", call[t], clock[t])
  BY PlaceCallMoves DEF StaysIn
<1>3. ~Waiting(t) /\ ~Pending(t)
  BY <1>2 DEF ListInv, BlockedOf, Ready
<1>4. call[t].ticks \in Ticks
  BY OwnCall, CallFields
<1>5. /\ vTaskPlaceOnEventList(t, EventList(t), call[t].ticks)
      /\ UNCHANGED <<xPendingReadyList, xTickCount, xNumOfOverflows, suspender, uxPendedTicks>>
  BY DEF PlaceOnEventList
<1>6. KernelTypeOK' /\ ListsAreDistinct' /\ PlaceMoves(t, EventList(t), call[t].ticks)
  BY <1>1, <1>3, <1>4, <1>5, TwoEventLists, PlaceIsPlaceMoves
<1>7. /\ \A u \in Tasks : u # t => xStateListItem'[u] = xStateListItem[u]
      /\ xStateListItem'[t] \in {"suspended", "overflow", "delayed"}
      /\ \A k \in EventLists : Members(eventList'[k]) =
            IF k = EventList(t) THEN Members(eventList[k]) \cup {t} ELSE Members(eventList[k])
  BY <1>6 DEF PlaceMoves
<1>8. /\ pc'[t] = "unlock_tx" /\ \A u \in Tasks : u # t => pc'[u] = pc[u]
      /\ \A u \in Tasks : call'[u] = call[u]
  BY <1>2 DEF Moves, CallTypes
<1>9. ListsAreTyped'
  BY <1>6 DEF KernelTypeOK, ListsAreTyped
<1>10. \A u \in Tasks : Pending(u)' <=> Pending(u)
  BY <1>5 DEF Pending
<1>11. ASSUME NEW u \in Tasks, u # t PROVE Waiting(u)' <=> Waiting(u)
  BY <1>1, <1>7, <1>9, <1>11, PlacesAreMembers, NextPlacesAreMembers
<1>12. Waiting(t)'
  BY <1>7, <1>9, NextPlacesAreMembers, TwoEventLists
<1>13. EventListsInv'
  <2>1. ASSUME NEW l \in EventLists, NEW u \in Members(eventList'[l])
        PROVE  l = EventList(u)' /\ ~Pending(u)'
    <3>1. u \in Tasks /\ EventList(u)' = EventList(u)
      <4>1. u \in Tasks
        BY <1>1, <1>7, EmptyLists
      <4> QED
        BY <1>8, <4>1 DEF EventList, Receiving
    <3>2. CASE u \in Members(eventList[l])
      BY <1>10, <3>1, <3>2 DEF ListInv, EventListsInv
    <3>3. CASE u \notin Members(eventList[l])
      BY <1>3, <1>7, <1>10, <3>1, <3>3
    <3> QED
      BY <3>2, <3>3
  <2>2. xPendingReadyList' # <<>> => suspender' # NoTask
    BY <1>5 DEF ListInv, EventListsInv
  <2> QED
    BY <1>6, <2>1, <2>2 DEF EventListsInv, ListsAreDistinct
<1>14. \A u \in Tasks : Leaving(u) => Leaving(u)'
  BY <1>2, <1>8 DEF Leaving
<1>15. AbortedByOne'
  <2>1. \A u \in Tasks : xStateListItem'[u] = "none" => xStateListItem[u] = "none"
    BY <1>7
  <2>2. \A u \in Tasks : pc[u] = "abort_event" => pc'[u] = pc[u] /\ call'[u] = call[u]
    BY <1>2, <1>8
  <2> QED
    BY <2>1, <2>2, AbortsStay
<1>16. ASSUME NEW u \in Tasks PROVE BlockedOf(u)'
  <2>1. BlockedOf(u)
    BY DEF ListInv
  <2>2. CASE u = t
    BY <1>2, <1>7, <1>8, <1>12, <2>2 DEF BlockedOf, Leaving
  <2>3. CASE u # t
    BY <1>7, <1>8, <1>10, <1>11, <1>14, <1>15, <2>1, <2>3 DEF BlockedOf, AbortedByOne
  <2> QED
    BY <2>2, <2>3
<1> QED
  BY <1>6, <1>13, <1>16 DEF ListInv

\* The two steps of an abort.
LEMMA ListsOfAborts ==
    ASSUME KernelTypeOK, CallTypes, CallsInv, ListInv, NEW t \in Tasks,
           AbortStateItem(t) \/ AbortEventItem(t)
    PROVE  KernelTypeOK' /\ ListInv'
<1>1. ListsAreTyped /\ ListsAreDistinct
  BY DistinctLists DEF KernelTypeOK, ListsAreTyped, ListInv
<1> DEFINE u == call[t].target
<1>2. ASSUME NEW p, Moves(t, p, call[t], clock[t])
      PROVE  /\ \A v \in Tasks : v # t => pc'[v] = pc[v]
             /\ \A v \in Tasks : call'[v] = call[v]
             /\ pc'[t] = p
  BY <1>2 DEF Moves, CallTypes
<1>3. CASE AbortStateItem(t)
  <2> DEFINE p == IF Blocked(u) THEN "abort_event" ELSE "resume"
  <2>1. pc[t] = "abort_state" /\ Ready(t) /\ suspender = t /\ u \in Tasks
        /\ Moves(t, p, call[t], clock[t])
    BY <1>3, AbortStateMoves DEF StaysIn
  <2>2. UNCHANGED <<eventList, xPendingReadyList, timeVars, suspender, uxPendedTicks,
                    ucDelayAborted>>
    BY <1>3 DEF AbortStateItem
  <2>3. /\ \A v \in Tasks : v # t => pc'[v] = pc[v]
        /\ \A v \in Tasks : call'[v] = call[v]
        /\ pc'[t] = p
    <3> HIDE DEF p
    <3> QED
      BY <1>2, <2>1
  <2>4. CASE ~Blocked(u)
    <3>1. UNCHANGED listVars
      BY <1>3, <2>2, <2>4 DEF AbortStateItem, listVars
    <3>2. KernelTypeOK'
      BY <2>2, <3>1 DEF KernelTypeOK, listVars, timeVars
    <3>3. CodeMoves /\ \A v \in Tasks : pc[v] = "abort_event" => pc'[v] = pc[v] /\ call'[v] = call[v]
      BY <2>1, <2>3, <3>1 DEF CodeMoves, Ready, listVars
    <3> QED
      BY <1>1, <2>2, <3>1, <3>2, <3>3, ListsStay
  <2>5. CASE Blocked(u)
    <3>1. AbortState(u) /\ p = "abort_event"
      BY <1>3, <2>5 DEF AbortStateItem
    <3>2. KernelTypeOK'
      BY <2>1, <2>2, <3>1, AbortIsTyped
    <3>3. /\ xStateListItem'[u] = "none" /\ xStateListItem[u] # "ready"
          /\ \A v \in Tasks : v # u => xStateListItem'[v] = xStateListItem[v]
      BY <2>1, <2>5, <3>1 DEF AbortState, Blocked, KernelTypeOK
    <3>4. t # u
      BY <2>1, <3>3 DEF Ready
    <3>5. CodeMoves
      BY <2>1, <2>3, <3>3, <3>4 DEF CodeMoves, Ready
    <3>6. AbortedByOne'
      <4> SUFFICES ASSUME NEW v \in Tasks, xStateListItem'[v] = "none"
                   PROVE  \E w \in Tasks : pc'[w] = "abort_event" /\ call'[w].target = v
        BY DEF AbortedByOne
      <4>1. CASE v = u
        BY <2>3, <3>1, <4>1
      <4>2. CASE v # u
        <5>1. PICK w \in Tasks : pc[w] = "abort_event" /\ call[w].target = v
          BY <3>3, <4>2 DEF ListInv, BlockedOf
        <5> QED
          BY <2>1, <2>3, <5>1
      <4> QED
        BY <4>1, <4>2
    <3>7. PlacesMove
      <4> SUFFICES ASSUME NEW v \in Tasks
                   PROVE  \/ /\ xStateListItem'[v] = "ready"
                             /\ v \notin Members(xPendingReadyList')
                             /\ \A l \in EventLists : v \notin Members(eventList'[l])
                          \/ /\ xStateListItem[v] # "ready" /\ xStateListItem'[v] # "ready"
                             /\ xStateListItem[v] = "none" => xStateListItem'[v] = "none"
                             /\ Waiting(v) \/ Pending(v) =>
                                   \/ v \in Members(xPendingReadyList')
                                   \/ \E l \in EventLists : v \in Members(eventList'[l])
        BY DEF PlacesMove
      <4>1. BlockedOf(v)
        BY DEF ListInv
      <4>2. (xStateListItem'[v] = "ready" <=> xStateListItem[v] = "ready")
            /\ (xStateListItem[v] = "none" => xStateListItem'[v] = "none")
        BY <3>3
      <4> QED
        BY <1>1, <2>2, <4>1, <4>2, PlacesAreMembers DEF BlockedOf
    <3>8. ListsAreTyped' /\ ListsAreDistinct'
      BY <1>1, <2>2 DEF ListsAreTyped, ListsAreDistinct
    <3>9. xPendingReadyList' # <<>> => suspender' # NoTask
      BY <2>2 DEF ListInv, EventListsInv
    <3> QED
      BY <1>1, <2>2, <3>2, <3>5, <3>6, <3>7, <3>8, <3>9, ListsMove
  <2> QED
    BY <2>4, <2>5
<1>4. CASE AbortEventItem(t)
  <2>1. pc[t] = "abort_event" /\ Ready(t) /\ suspender = t /\ u \in Tasks
        /\ Moves(t, "resume", call[t], clock[t]) /\ t # NoTask
    BY <1>4, AbortEventMoves, KernelAssumption DEF StaysIn
  <2>2. /\ AbortEvent(u)
        /\ UNCHANGED <<xItemValue, timeVars, suspender, uxPendedTicks>>
    BY <1>4 DEF AbortEventItem
  <2>3. /\ KernelTypeOK' /\ ListsAreDistinct'
        /\ \A l \in EventLists : Members(eventList'[l]) = Members(eventList[l]) \ {u}
        /\ Members(xPendingReadyList') = Members(xPendingReadyList) \ {u}
    BY <1>1, <2>1, <2>2, AbortEventRemoves
  <2>4. ListsAreTyped'
    BY <2>3 DEF KernelTypeOK, ListsAreTyped
  <2>5. /\ \A v \in Tasks : v # t => pc'[v] = pc[v]
        /\ \A v \in Tasks : call'[v] = call[v]
        /\ pc'[t] = "resume"
    BY <1>2, <2>1
  <2>6. /\ xStateListItem'[u] = "ready"
        /\ \A v \in Tasks : v # u => xStateListItem'[v] = xStateListItem[v]
    BY <2>1, <2>2 DEF AbortEvent, KernelTypeOK
  <2>7. \A v \in Tasks : xStateListItem'[v] # "none"
    <3> SUFFICES ASSUME NEW v \in Tasks, v # u, xStateListItem[v] = "none" PROVE FALSE
      BY <2>6
    <3>1. PICK w \in Tasks : pc[w] = "abort_event" /\ call[w].target = v
      BY DEF ListInv, BlockedOf
    <3>2. w = t
      BY <2>1, <3>1 DEF CallsInv, SuspendOf, SuspendedPc
    <3> QED
      BY <3>1, <3>2
  <2>8. CodeMoves
    BY <2>1, <2>5, <2>6 DEF CodeMoves, Ready
  <2>9. PlacesMove
    <3> SUFFICES ASSUME NEW v \in Tasks
                 PROVE  \/ /\ xStateListItem'[v] = "ready"
                           /\ v \notin Members(xPendingReadyList')
                           /\ \A l \in EventLists : v \notin Members(eventList'[l])
                        \/ /\ xStateListItem[v] # "ready" /\ xStateListItem'[v] # "ready"
                           /\ xStateListItem[v] = "none" => xStateListItem'[v] = "none"
                           /\ Waiting(v) \/ Pending(v) =>
                                 \/ v \in Members(xPendingReadyList')
                                 \/ \E l \in EventLists : v \in Members(eventList'[l])
      BY DEF PlacesMove
    <3>1. BlockedOf(v) /\ (Waiting(v) <=> \E l \in EventLists : v \in Members(eventList[l]))
          /\ (Pending(v) <=> v \in Members(xPendingReadyList))
      BY <1>1, PlacesAreMembers DEF ListInv
    <3>2. CASE v = u
      BY <2>3, <2>6, <3>2
    <3>3. CASE v # u
      BY <2>3, <2>6, <2>7, <3>1, <3>3 DEF BlockedOf
    <3> QED
      BY <3>2, <3>3
  <2>10. AbortedByOne'
    BY <2>7 DEF AbortedByOne
  <2>11. xPendingReadyList' # <<>> => suspender' # NoTask
    BY <2>1, <2>2
  <2>12. \A l \in EventLists : Members(eventList'[l]) \subseteq Members(eventList[l])
    BY <2>3
  <2> QED
    BY <1>1, <2>3, <2>4, <2>8, <2>9, <2>10, <2>11, <2>12, ListsMove
<1> QED
  BY <1>3, <1>4

\* No step leaves a task in two lists, or in none without somebody who puts it back.
LEMMA ListsStep ==
    ASSUME KernelTypeOK, CallTypes, CallsInv, ListInv, TimeInv, Next
    PROVE  KernelTypeOK' /\ ListInv'
BY ListsOfQuietCalls, ListsOfWakingCalls, ListsOfHandlers, ListsOfTick, ListsOfResume,
   ListsOfPlace, ListsOfAborts DEF Next, QueueStep
-------------------------------------------------------------------------------
(***************************************************************************)
(* The time: what the counts and the lists say of each wait.               *)
(***************************************************************************)

\* Steps between ticks: nobody is delayed anew.
WakesStay ==
    /\ UNCHANGED <<xTickCount, xNumOfOverflows>>
    /\ \A t \in Tasks : xStateListItem'[t] \in {"delayed", "overflow"} =>
          /\ xStateListItem'[t] = xStateListItem[t] /\ xItemValue'[t] = xItemValue[t]
          /\ xStateListItem[t] = "delayed" => xNextTaskUnblockTime' <= xItemValue[t]

LEMMA TimeStays ==
    ASSUME TimeInv, WakesStay,
           \A t \in Tasks : RecordFits(pc'[t], call'[t], clock'[t]),
           \A t \in Tasks : xStateListItem'[t] \in {"delayed", "overflow"} =>
              /\ call'[t].set = call[t].set /\ call'[t].wait = call[t].wait
              /\ clock'[t] = clock[t]
    PROVE  TimeInv'
<1> SUFFICES ASSUME NEW t \in Tasks
             PROVE  RecordFits(pc[t], call[t], clock[t])'
                    /\ WakeFits(xStateListItem[t], xItemValue[t], call[t], clock[t])'
  BY DEF TimeInv, TimeOf
<1>1. UNCHANGED <<xTickCount, xNumOfOverflows>>
  BY DEF WakesStay
<1>2. RecordFits(pc[t], call[t], clock[t])'
  BY <1>1 DEF RecordFits
<1>3. WakeFits(xStateListItem[t], xItemValue[t], call[t], clock[t])'
  <2>1. CASE xStateListItem'[t] \in {"delayed", "overflow"}
    <3>1. /\ xStateListItem'[t] = xStateListItem[t] /\ xItemValue'[t] = xItemValue[t]
          /\ xStateListItem[t] = "delayed" => xNextTaskUnblockTime' <= xItemValue[t]
          /\ call'[t].set = call[t].set /\ call'[t].wait = call[t].wait
          /\ clock'[t] = clock[t]
      BY <2>1 DEF WakesStay
    <3>2. WakeFits(xStateListItem[t], xItemValue[t], call[t], clock[t])
      BY DEF TimeInv, TimeOf
    <3> QED
      BY <1>1, <3>1, <3>2 DEF WakeFits, Counts
  <2>2. CASE xStateListItem'[t] \notin {"delayed", "overflow"}
    BY <2>2 DEF WakeFits
  <2> QED
    BY <2>1, <2>2
<1> QED
  BY <1>2, <1>3

\* For the step of a task.
LEMMA TimeOfMoves ==
    ASSUME CallTypes, TimeInv, WakesStay, NEW t \in Tasks, NEW p, NEW c, NEW k,
           Moves(t, p, c, k), RecordFits(p, c, k),
           xStateListItem'[t] \in {"delayed", "overflow"} =>
              c.set = call[t].set /\ c.wait = call[t].wait /\ k = clock[t]
    PROVE  TimeInv'
<1>1. /\ pc'[t] = p /\ call'[t] = c /\ clock'[t] = k
      /\ \A u \in Tasks : u # t =>
            pc'[u] = pc[u] /\ call'[u] = call[u] /\ clock'[u] = clock[u]
  BY DEF Moves, CallTypes
<1>2. \A u \in Tasks : RecordFits(pc[u], call[u], clock[u])
  BY DEF TimeInv, TimeOf
<1>3. ASSUME NEW u \in Tasks
      PROVE  /\ RecordFits(pc'[u], call'[u], clock'[u])
             /\ xStateListItem'[u] \in {"delayed", "overflow"} =>
                   /\ call'[u].set = call[u].set /\ call'[u].wait = call[u].wait
                   /\ clock'[u] = clock[u]
  <2>1. CASE u = t
    BY <1>1, <2>1
  <2>2. CASE u # t
    BY <1>1, <1>2, <2>2
  <2> QED
    BY <2>1, <2>2
<1> QED
  BY <1>3, TimeStays

\* A record that counts nothing fits every place but those where the call has
\* just looked at the time.
LEMMA UnsetFits ==
    ASSUME NEW p, NEW c, NEW k, ~c.set, p \notin {"full", "place"}
    PROVE  RecordFits(p, c, k)
BY DEF RecordFits, Counts

LEMMA SameRecordFits ==
    ASSUME NEW p, NEW q, NEW c, NEW k, RecordFits(p, c, k),
           q \notin {"full", "place"} \/ p \in {"full", "place"}
    PROVE  RecordFits(q, c, k)
BY DEF RecordFits

\* What the kernel's operations leave of the times.
LEMMA UnchangedWakes ==
    ASSUME TimeInv, UNCHANGED listVars, UNCHANGED timeVars
    PROVE  WakesStay
BY DEF TimeInv, TimeOf, WakeFits, WakesStay, listVars, timeVars

LEMMA RemovalWakesStay ==
    ASSUME KernelTypeOK, TimeInv, NEW l \in EventLists, NEW n, RemoveFromEventList(l, n),
           UNCHANGED timeVars
    PROVE  WakesStay
<1>1. ASSUME NEW t \in Tasks, xStateListItem'[t] \in {"delayed", "overflow"}
      PROVE  /\ xStateListItem'[t] = xStateListItem[t] /\ xItemValue'[t] = xItemValue[t]
             /\ xStateListItem[t] = "delayed" => xNextTaskUnblockTime' <= xItemValue[t]
  <2>1. /\ xStateListItem'[t] = xStateListItem[t] /\ xItemValue'[t] = xItemValue[t]
    <3>1. CASE suspender = NoTask
      BY <1>1, <3>1 DEF RemoveFromEventList
    <3>2. CASE suspender # NoTask
      BY <3>2 DEF RemoveFromEventList
    <3> QED
      BY <3>1, <3>2
  <2>2. xStateListItem[t] = "delayed" => xNextTaskUnblockTime' <= xItemValue[t]
    BY DEF TimeInv, TimeOf, WakeFits, timeVars
  <2> QED
    BY <2>1, <2>2
<1> QED
  BY <1>1 DEF WakesStay, timeVars

LEMMA ResumeWakesStay ==
    ASSUME KernelTypeOK, TimeInv, ResumeMoves, UNCHANGED <<xTickCount, xNumOfOverflows>>
    PROVE  WakesStay
<1>1. ASSUME NEW t \in Tasks, xStateListItem'[t] \in {"delayed", "overflow"}
      PROVE  /\ xStateListItem'[t] = xStateListItem[t] /\ xItemValue'[t] = xItemValue[t]
             /\ xStateListItem[t] = "delayed" => xNextTaskUnblockTime' <= xItemValue[t]
  <2>1. xStateListItem'[t] = xStateListItem[t] /\ xItemValue'[t] = xItemValue[t]
    BY <1>1 DEF ResumeMoves
  <2>2. xStateListItem[t] = "delayed" => xNextTaskUnblockTime <= xItemValue[t]
    BY DEF TimeInv, TimeOf, WakeFits
  <2> QED
    BY <2>1, <2>2 DEF ResumeMoves
<1> QED
  BY <1>1 DEF WakesStay

LEMMA AbortWakesStay ==
    ASSUME KernelTypeOK, TimeInv, NEW t \in Tasks, UNCHANGED timeVars,
           \/ UNCHANGED <<xStateListItem, xItemValue>>
           \/ AbortState(t)
           \/ AbortEvent(t) /\ UNCHANGED xItemValue
    PROVE  WakesStay
<1>1. ASSUME NEW u \in Tasks, xStateListItem'[u] \in {"delayed", "overflow"}
      PROVE  /\ xStateListItem'[u] = xStateListItem[u] /\ xItemValue'[u] = xItemValue[u]
             /\ xStateListItem[u] = "delayed" => xNextTaskUnblockTime' <= xItemValue[u]
  <2>1. xStateListItem'[u] = xStateListItem[u] /\ xItemValue'[u] = xItemValue[u]
    BY <1>1 DEF AbortState, AbortEvent, KernelTypeOK
  <2>2. xStateListItem[u] = "delayed" => xNextTaskUnblockTime' <= xItemValue[u]
    BY DEF TimeInv, TimeOf, WakeFits, timeVars
  <2> QED
    BY <2>1, <2>2
<1> QED
  BY <1>1 DEF WakesStay, timeVars

\* The record when a call begins to wait.
LEMMA EnteredFits ==
    ASSUME KernelTypeOK, CallTypes, CallsInv, TimeInv, NEW t \in Tasks, EnterWait(t),
           pc[t] = "try"
    PROVE  RecordFits("suspend", IF call[t].set THEN call[t] ELSE Entered(call[t]), clock[t])
<1> DEFINE c == call[t]
           d == Entered(c)
<1>1. c \in Calls /\ CallFits("try", c, clock[t]) /\ RecordFits("try", c, clock[t])
  BY OwnCall DEF TimeInv, TimeOf
<1>2. CASE c.set
  BY <1>1, <1>2, SameRecordFits
<1>3. CASE ~c.set /\ c.wait = portMAX_DELAY
  <2>1. d.wait = portMAX_DELAY
    BY <1>1, <1>3 DEF Entered, Calls
  <2> HIDE DEF d
  <2> QED
    BY <1>3, <2>1 DEF RecordFits, Counts, d
<1>4. CASE ~c.set /\ c.wait # portMAX_DELAY
  <2>1. /\ d.set /\ d.wait = c.wait /\ d.ticks = c.ticks
        /\ d.entering = xTickCount /\ d.count = xNumOfOverflows
    BY <1>1, <1>4 DEF Entered, Calls
  <2>2. clock[t] = 0 /\ c.ticks = c.wait /\ c.ticks # 0
    BY <1>1, <1>4 DEF CallFits, EnterWait
  <2>3. c.wait \in Nat /\ xTickCount \in Nat
    BY <1>1, CallFields, Bounds DEF KernelTypeOK
  <2> HIDE DEF d
  <2>4. Passed(d, 0) = 0
    BY <2>1, <2>2, <2>3 DEF Passed
  <2>5. RecordFits("suspend", d, 0)
    BY <2>1, <2>2, <2>3, <2>4 DEF RecordFits
  <2> QED
    BY <1>4, <2>2, <2>5 DEF d
<1> QED
  BY <1>2, <1>3, <1>4

\* xTaskCheckForTimeOut tells how many ticks have passed: by the difference of the
\* counts, or by the parity if a whole turn of them has passed.
LEMMA PassedShows ==
    ASSUME KernelTypeOK, CallTypes, CallsInv, TimeInv, NEW t \in Tasks,
           Counts(call[t]), call[t].ticks # 0
    PROVE  LET c == call[t]
               e == Passed(c, clock[t])
           IN  /\ e \in Nat
               /\ TimedOut(c.ticks, c.entering, c.count) <=> e >= c.ticks
               /\ ~(xNumOfOverflows # c.count /\ xTickCount >= c.entering)
                     => Elapsed(c.entering) = e
<1> DEFINE c == call[t]
           e == Passed(c, clock[t])
           n == c.entering
           w == c.wait
           d == c.ticks
           k == clock[t]
<1>1. /\ c \in Calls /\ CallFits(pc[t], c, k) /\ k \in Nat /\ k <= MaxElapsed
      /\ RecordFits(pc[t], c, k)
  BY OwnCall DEF TimeInv, TimeOf
<1>2. w \in 0 .. portMAX_DELAY /\ d \in 0 .. portMAX_DELAY /\ n \in 0 .. portMAX_DELAY
  BY <1>1, CallFields, Bounds
<1>3. w # portMAX_DELAY /\ d <= w /\ d # 0
  BY <1>1 DEF Counts, CallFits
<1>4. /\ e >= 0 /\ e = k - (w - d)
      /\ n + e = xTickCount + (IF xNumOfOverflows = c.count THEN 0 ELSE TickModulus)
  BY <1>1 DEF RecordFits, Passed
<1>5. /\ xTickCount \in 0 .. portMAX_DELAY
      /\ Elapsed(n) = IF n <= xTickCount THEN xTickCount - n ELSE xTickCount - n + TickModulus
  BY <1>2, ElapsedTicks, Bounds DEF KernelTypeOK
<1>6. TimedOut(d, n, c.count) <=>
         \/ xNumOfOverflows # c.count /\ xTickCount >= n
         \/ Elapsed(n) >= d
  <2>1. d # portMAX_DELAY
    BY <1>2, <1>3, Bounds
  <2> QED
    BY <2>1 DEF TimedOut
<1> HIDE DEF e, n, w, d, k, c
<1>7. e \in Nat /\ e <= TickModulus
  <2>1. k <= TickModulus
    BY <1>1, Bounds
  <2> QED
    BY <1>1, <1>2, <1>3, <1>4, <2>1, Bounds
<1>8. CASE xNumOfOverflows = c.count
  <2>1. n + e = xTickCount
    BY <1>4, <1>5, <1>8, Bounds
  <2>2. Elapsed(n) = e
    BY <1>2, <1>5, <1>7, <2>1, Bounds
  <2> QED
    BY <1>6, <1>7, <1>8, <2>2 DEF c, d, n, e, k
<1>9. CASE xNumOfOverflows # c.count
  <2>1. n + e = xTickCount + TickModulus
    BY <1>4, <1>9
  <2>2. CASE xTickCount >= n
    <3>1. e >= d
      BY <1>2, <1>5, <1>7, <2>1, <2>2, Bounds
    <3> QED
      BY <1>6, <1>7, <1>9, <2>2, <3>1 DEF c, d, n, e, k
  <2>3. CASE ~(xTickCount >= n)
    <3>1. Elapsed(n) = e
      BY <1>2, <1>5, <1>7, <2>1, <2>3, Bounds
    <3> QED
      BY <1>6, <1>7, <1>9, <2>3, <3>1 DEF c, d, n, e, k
  <2> QED
    BY <2>2, <2>3
<1> QED
  BY <1>8, <1>9

\* What it writes into the record fits.
LEMMA CheckedFits ==
    ASSUME KernelTypeOK, CallTypes, CallsInv, TimeInv, NEW t \in Tasks, pc[t] = "check"
    PROVE  RecordFits(IF Expires(t) THEN "unlock_tx" ELSE "full", Checked(t), clock[t])
<1> DEFINE c       == call[t]
           wrapped == xNumOfOverflows # c.count /\ xTickCount >= c.entering
           expired == Expires(t)
           p       == IF expired THEN "unlock_tx" ELSE "full"
           after   == IF ucDelayAborted[t] \/ c.ticks = portMAX_DELAY \/ wrapped THEN c
                      ELSE IF expired THEN [c EXCEPT !.ticks = 0]
                      ELSE Remaining(c)
           d       == Checked(t)
           k       == clock[t]
<1>1. c \in Calls /\ CallFits("check", c, k) /\ k \in Nat /\ RecordFits("check", c, k)
  BY OwnCall DEF TimeInv, TimeOf
<1>2. c.set /\ c.ticks <= c.wait /\ (c.wait = portMAX_DELAY => c.ticks = portMAX_DELAY)
  BY <1>1 DEF CallFits
<1>3. /\ c.wait \in Nat /\ c.ticks \in Nat /\ c.entering \in Ticks /\ xTickCount \in Nat
      /\ c.wait <= portMAX_DELAY
  BY <1>1, Bounds, CallFields DEF KernelTypeOK
<1>4. d = IF expired THEN [after EXCEPT !.then = IF Receiving(t) THEN "recheck" ELSE "app"]
          ELSE [after EXCEPT !.then = "try"]
  BY DEF Checked, Expires
<1>5. expired <=> ucDelayAborted[t] \/ TimedOut(c.ticks, c.entering, c.count)
  BY DEF Expires
<1>6. CASE ~Counts(c)
  <2>1. c.wait = portMAX_DELAY /\ c.ticks = portMAX_DELAY /\ c.ticks # 0
    BY <1>2, <1>6, Bounds DEF Counts
  <2>2. d.wait = c.wait /\ d.ticks = c.ticks
    <3>1. after = c
      BY <2>1
    <3> HIDE DEF after, d, expired
    <3> QED
      BY <1>1, <1>4, <3>1 DEF Calls
  <2> HIDE DEF d
  <2> QED
    BY <2>1, <2>2 DEF RecordFits, Counts, d
<1>7. CASE Counts(c) /\ (ucDelayAborted[t] \/ wrapped)
  <2>1. expired
    <3>1. c.wait # portMAX_DELAY
      BY <1>7 DEF Counts
    <3>2. c.ticks # portMAX_DELAY
      BY <1>2, <1>3, <3>1, Bounds
    <3> QED
      BY <1>5, <1>7, <3>2 DEF TimedOut
  <2>2. /\ d.set = c.set /\ d.wait = c.wait /\ d.ticks = c.ticks
        /\ d.entering = c.entering /\ d.count = c.count
    <3>1. after = c
      BY <1>7
    <3> HIDE DEF after, d, expired
    <3> QED
      BY <1>1, <1>4, <3>1 DEF Calls
  <2> HIDE DEF d
  <2>3. RecordFits("unlock_tx", d, k)
    BY <1>1, <2>2 DEF RecordFits, Counts, Passed
  <2> QED
    BY <2>1, <2>3 DEF d
<1>8. CASE Counts(c) /\ ~(ucDelayAborted[t] \/ wrapped) /\ expired
  <2>1. c.wait # portMAX_DELAY /\ c.ticks # portMAX_DELAY
    <3>1. c.wait # portMAX_DELAY
      BY <1>8 DEF Counts
    <3> QED
      BY <1>2, <1>3, <3>1, Bounds
  <2>2. d.set = c.set /\ d.wait = c.wait /\ d.ticks = 0
    <3>1. after = [c EXCEPT !.ticks = 0]
      BY <1>8, <2>1
    <3> HIDE DEF after, d, expired
    <3> QED
      BY <1>1, <1>4, <1>8, <3>1 DEF Calls
  <2>3. k >= c.wait
    <3>1. CASE c.ticks = 0
      BY <1>1, <1>8, <3>1 DEF RecordFits
    <3>2. CASE c.ticks # 0
      <4>1. Passed(c, k) \in Nat /\ Passed(c, k) >= c.ticks
        BY <1>5, <1>8, <3>2, PassedShows
      <4>2. Passed(c, k) = k - (c.wait - c.ticks)
        BY DEF Passed
      <4> QED
        BY <1>1, <1>3, <4>1, <4>2
    <3> QED
      BY <3>1, <3>2
  <2> HIDE DEF d
  <2>4. RecordFits("unlock_tx", d, k)
    BY <2>2, <2>3 DEF RecordFits
  <2> QED
    BY <1>8, <2>4 DEF d
<1>9. CASE Counts(c) /\ ~expired /\ ~wrapped
  <2> DEFINE e == Passed(c, k)
             r == c.ticks - Elapsed(c.entering)
  <2>1. c.wait # portMAX_DELAY /\ c.ticks # portMAX_DELAY /\ ~ucDelayAborted[t]
        /\ ~TimedOut(c.ticks, c.entering, c.count)
    <3>1. c.wait # portMAX_DELAY
      BY <1>9 DEF Counts
    <3> QED
      BY <1>2, <1>3, <1>5, <1>9, <3>1, Bounds
  <2>2. c.ticks # 0
    <3>1. Elapsed(c.entering) \in Nat
      BY SMTT(30), <1>3, ElapsedTicks, Bounds
    <3> QED
      BY <2>1, <3>1 DEF TimedOut
  <2>3. e \in Nat /\ ~(e >= c.ticks) /\ Elapsed(c.entering) = e
    BY <1>9, <2>1, <2>2, PassedShows
  <2>4. e = k - (c.wait - c.ticks)
    BY DEF Passed
  <2>5. r = c.ticks - e
    BY <2>3
  <2>6. /\ d.set /\ d.wait = c.wait /\ d.ticks = r
        /\ d.entering = xTickCount /\ d.count = xNumOfOverflows
    <3>1. after = Entered([c EXCEPT !.ticks = r])
      BY <1>9, <2>1 DEF Remaining
    <3> HIDE DEF after, d, expired, r
    <3>2. after = [[c EXCEPT !.ticks = r] EXCEPT !.set = TRUE, !.entering = xTickCount,
                                                 !.count = xNumOfOverflows]
      BY <1>1, <2>1, <3>1 DEF Entered, Calls
    <3> QED
      BY <1>1, <1>4, <1>9, <3>2 DEF Calls
  <2> HIDE DEF d, e, r
  <2>7. r # 0 /\ k + r = c.wait /\ k - (c.wait - r) = 0 /\ r \in Nat
    BY <1>1, <1>3, <2>3, <2>4, <2>5
  <2>8. Passed(d, k) = 0
    BY <2>6, <2>7 DEF Passed
  <2>9. xTickCount + 0 = xTickCount
    BY <1>3
  <2>10. RecordFits("full", d, k)
    BY <2>6, <2>7, <2>8, <2>9 DEF RecordFits
  <2> QED
    BY <1>9, <2>10 DEF d
<1> QED
  BY <1>6, <1>7, <1>8, <1>9

\* RecordFits and WakeFits as facts about values: at a given tick count, overflow
\* count and unblock time.
RecordHolds(p, c, k, now, over) ==
    /\ Counts(c) /\ c.ticks # 0 =>
          /\ Passed(c, k) >= 0
          /\ c.entering + Passed(c, k) = now + (IF over = c.count THEN 0 ELSE TickModulus)
    /\ Counts(c) /\ c.ticks = 0 => k >= c.wait
    /\ p \in {"full", "place"} => c.ticks # 0 /\ (Counts(c) => k + c.ticks = c.wait)

WakeHolds(list, wake, c, k, now, unblock) ==
    /\ list \in {"delayed", "overflow"} => Counts(c)
    /\ list = "delayed" =>
          /\ now < wake /\ unblock <= wake
          /\ k + (wake - now) = c.wait
    /\ list = "overflow" => k + (wake + TickModulus - now) = c.wait

Following(now) == IF now = portMAX_DELAY THEN 0 ELSE now + 1

\* One more tick of a record that counts.
LEMMA RecordTicks ==
    ASSUME NEW p, p \notin {"full", "place"}, NEW c \in Calls, NEW k \in Nat,
           NEW now \in 0 .. portMAX_DELAY, NEW over \in {0, 1}, NEW over1,
           over1 = IF Following(now) = 0 THEN 1 - over ELSE over,
           Counts(c), c.ticks <= c.wait, k + 1 <= TickModulus, RecordHolds(p, c, k, now, over)
    PROVE  RecordHolds(p, c, k + 1, Following(now), over1)
<1> DEFINE w == c.wait
           d == c.ticks
           n == c.entering
           m == c.count
           e == Passed(c, k)
           e1 == Passed(c, k + 1)
           next == Following(now)
           M == TickModulus
<1>1. /\ w \in 0 .. portMAX_DELAY /\ d \in 0 .. portMAX_DELAY
      /\ n \in 0 .. portMAX_DELAY /\ m \in {0, 1}
      /\ M = portMAX_DELAY + 1 /\ portMAX_DELAY \in Nat
  BY CallFields, Bounds
<1>2. e = k - (w - d) /\ e1 = (k + 1) - (w - d) /\ d <= w
  BY DEF Passed
<1>3. /\ d # 0 => e >= 0 /\ n + e = now + (IF over = m THEN 0 ELSE M)
      /\ d = 0 => k >= w
  BY DEF RecordHolds
<1>4. next = IF now = portMAX_DELAY THEN 0 ELSE now + 1
  BY DEF Following
<1>5. over1 = IF next = 0 THEN 1 - over ELSE over
  OBVIOUS
<1>6. k + 1 <= M
  OBVIOUS
<1> HIDE DEF w, d, n, m, e, e1, next, M
<1>7. d = 0 => k + 1 >= w
  BY <1>1, <1>3
<1>8. CASE d # 0
  <2>1. e \in Nat /\ e + 1 <= M /\ e1 = e + 1
    BY <1>1, <1>2, <1>3, <1>6, <1>8
  <2>2. n + e1 = next + (IF over1 = m THEN 0 ELSE M)
    <3>1. CASE now = portMAX_DELAY
      <4>1. over = m
        BY <1>1, <1>3, <1>8, <2>1, <3>1
      <4>2. over1 = 1 - over /\ over1 # m /\ next = 0
        BY <1>1, <1>4, <1>5, <3>1, <4>1
      <4> QED
        BY <1>1, <1>3, <1>8, <2>1, <3>1, <4>1, <4>2
    <3>2. CASE now # portMAX_DELAY
      <4>1. next = now + 1 /\ next # 0 /\ over1 = over
        BY <1>4, <1>5, <3>2
      <4> QED
        BY <1>1, <1>3, <1>8, <2>1, <4>1
    <3> QED
      BY <3>1, <3>2
  <2>3. e1 >= 0
    BY <2>1
  <2> QED
    BY <1>8, <2>2, <2>3 DEF RecordHolds, d, n, m, e1, next, M
<1>9. CASE d = 0
  BY <1>7, <1>9 DEF RecordHolds, d, w
<1> QED
  BY <1>8, <1>9

\* One more tick of a wait.
LEMMA WakeTicks ==
    ASSUME NEW c \in Calls, NEW k \in Nat, NEW now \in 0 .. portMAX_DELAY,
           NEW wake \in 0 .. portMAX_DELAY, NEW list, NEW list1, NEW unblock, NEW unblock1,
           WakeHolds(list, wake, c, k, now, unblock),
           list1 = IF Following(now) = 0 /\ list = "delayed" THEN "overflow"
                   ELSE IF Following(now) = 0 /\ list = "overflow" THEN "delayed" ELSE list,
           list1 = "delayed" => Following(now) < wake /\ unblock1 <= wake
    PROVE  WakeHolds(list1, wake, c, k + 1, Following(now), unblock1)
<1> DEFINE w == c.wait
           next == Following(now)
           M == TickModulus
<1>1. w \in Nat /\ M = portMAX_DELAY + 1 /\ portMAX_DELAY \in Nat
  BY CallFields, Bounds
<1>2. next = IF now = portMAX_DELAY THEN 0 ELSE now + 1
  BY DEF Following
<1>3. /\ list \in {"delayed", "overflow"} => Counts(c)
      /\ list = "delayed" => now < wake /\ k + (wake - now) = w
      /\ list = "overflow" => k + (wake + M - now) = w
  BY DEF WakeHolds
<1>4. list1 = IF next = 0 /\ list = "delayed" THEN "overflow"
              ELSE IF next = 0 /\ list = "overflow" THEN "delayed" ELSE list
  OBVIOUS
<1>5. list1 \in {"delayed", "overflow"} => Counts(c)
  BY <1>3, <1>4
<1>6. list1 = "delayed" => next < wake /\ unblock1 <= wake
  OBVIOUS
<1> HIDE DEF w, next, M
<1>7. CASE now = portMAX_DELAY
  <2>1. next = 0 /\ list # "delayed"
    BY <1>1, <1>2, <1>3, <1>7
  <2>2. list1 # "overflow" /\ (list1 = "delayed" => list = "overflow")
    BY <1>4, <2>1
  <2>3. list = "overflow" => (k + 1) + (wake - next) = w
    BY <1>1, <1>3, <1>7, <2>1
  <2> QED
    BY <1>5, <1>6, <2>2, <2>3 DEF WakeHolds, w, next
<1>8. CASE now # portMAX_DELAY
  <2>1. next = now + 1 /\ next # 0
    BY <1>2, <1>8
  <2>2. list1 = list
    BY <1>4, <2>1
  <2>3. /\ list = "delayed" => (k + 1) + (wake - next) = w
        /\ list = "overflow" => (k + 1) + (wake + M - next) = w
    BY <1>1, <1>3, <2>1
  <2> QED
    BY <1>5, <1>6, <2>2, <2>3 DEF WakeHolds, w, next, M
<1> QED
  BY <1>7, <1>8

\* The tick.
LEMMA TimeOfTick ==
    ASSUME KernelTypeOK, CallTypes, CallsInv, CallTypes', TimeInv,
           Tick \/ PendedTick, UNCHANGED <<pc, call, suspender>>, suspender = NoTask,
           NEW due, TickMoves(due)
    PROVE  TimeInv'
<1> SUFFICES ASSUME NEW t \in Tasks
             PROVE  RecordFits(pc[t], call[t], clock[t])'
                    /\ WakeFits(xStateListItem[t], xItemValue[t], call[t], clock[t])'
  BY DEF TimeInv, TimeOf
<1> DEFINE c    == call[t]
           k    == clock[t]
           k1   == clock'[t]
           list == xStateListItem[t]
           list1 == xStateListItem'[t]
           now1 == xTickCount'
           over1 == xNumOfOverflows'
           unblock1 == xNextTaskUnblockTime'
<1>1. /\ c \in Calls /\ CallFits(pc[t], c, k) /\ k \in Nat
      /\ RecordHolds(pc[t], c, k, xTickCount, xNumOfOverflows)
      /\ WakeHolds(list, xItemValue[t], c, k, xTickCount, xNextTaskUnblockTime)
  <2>1. RecordFits(pc[t], c, k) /\ WakeFits(list, xItemValue[t], c, k)
    BY DEF TimeInv, TimeOf
  <2> QED
    BY OwnCall, <2>1 DEF RecordFits, WakeFits, RecordHolds, WakeHolds
<1>2. c.ticks <= c.wait
  BY <1>1 DEF CallFits
<1>3. /\ xTickCount \in 0 .. portMAX_DELAY /\ xItemValue[t] \in 0 .. portMAX_DELAY
      /\ xNumOfOverflows \in {0, 1}
  <2>1. xTickCount \in Ticks /\ xItemValue[t] \in Ticks
    BY DEF KernelTypeOK
  <2> QED
    BY <2>1, Bounds DEF KernelTypeOK
<1>4. /\ now1 = Following(xTickCount)
      /\ over1 = IF Following(xTickCount) = 0 THEN 1 - xNumOfOverflows ELSE xNumOfOverflows
      /\ list1 = "ready" \/
            /\ list1 = (IF Following(xTickCount) = 0 /\ list = "delayed" THEN "overflow"
                        ELSE IF Following(xTickCount) = 0 /\ list = "overflow" THEN "delayed"
                        ELSE list)
            /\ xItemValue'[t] = xItemValue[t]
      /\ list1 = "delayed" => Following(xTickCount) < xItemValue[t] /\ unblock1 <= xItemValue[t]
  BY DEF TickMoves, Following
<1>5. pc[t] \notin {"full", "place"}
  <2>1. t # NoTask
    BY KernelAssumption
  <2> QED
    BY <2>1 DEF CallsInv, SuspendOf, SuspendedPc, LockedPc
<1>6. call'[t] = c /\ pc'[t] = pc[t]
  OBVIOUS
<1>7. Counts(c) => k1 = k + 1
  BY DEF Tick, PendedTick, Advance, Counts
<1>8. Counts(c) => k + 1 <= TickModulus
  <2>1. k1 \in 0 .. MaxElapsed
    BY DEF CallTypes
  <2> HIDE DEF k1
  <2> QED
    BY <1>1, <1>7, <2>1, Bounds
<1> HIDE DEF k1, now1, over1, list1, unblock1
<1>9. RecordHolds(pc[t], c, k1, now1, over1)
  <2>1. CASE Counts(c)
    <3>1. RecordHolds(pc[t], c, k + 1, Following(xTickCount), over1)
      BY <1>1, <1>2, <1>3, <1>4, <1>5, <1>8, <2>1, RecordTicks
    <3> QED
      BY <1>4, <1>7, <2>1, <3>1
  <2>2. CASE ~Counts(c)
    BY <1>5, <2>2 DEF RecordHolds
  <2> QED
    BY <2>1, <2>2
<1>10. WakeHolds(list1, xItemValue[t], c, k1, now1, unblock1)
       /\ (list1 \in {"delayed", "overflow"} => xItemValue'[t] = xItemValue[t])
  <2>1. CASE list1 \in {"delayed", "overflow"}
    <3>1. list1 # "ready" /\ list \in {"delayed", "overflow"}
      BY <1>4, <2>1
    <3>2. Counts(c)
      BY <1>1, <3>1 DEF WakeHolds
    <3>3. WakeHolds(list1, xItemValue[t], c, k + 1, Following(xTickCount), unblock1)
      BY <1>1, <1>3, <1>4, <3>1, WakeTicks
    <3> QED
      BY <1>4, <1>7, <3>1, <3>2, <3>3
  <2>2. CASE list1 \notin {"delayed", "overflow"}
    BY <2>2 DEF WakeHolds
  <2> QED
    BY <2>1, <2>2
<1>11. RecordFits(pc[t], call[t], clock[t])'
  BY <1>6, <1>9 DEF RecordFits, RecordHolds, Counts, Passed, k1, now1, over1
<1>12. WakeFits(xStateListItem[t], xItemValue[t], call[t], clock[t])'
  BY <1>6, <1>10 DEF WakeFits, WakeHolds, Counts, k1, now1, list1, unblock1
<1> QED
  BY <1>11, <1>12

\* The steps of a call that leave the kernel's lists alone.
LEMMA TimeOfQuietCalls ==
    ASSUME KernelTypeOK, CallTypes, CallsInv, ListInv, TimeInv, NEW t \in Tasks,
           \/ Call(t) \/ Abort(t) \/ GiveUp(t) \/ EnterWait(t) \/ SuspendAll(t)
           \/ prvLockQueue(t) \/ CheckForTimeOut(t) \/ LookAgain(t) \/ Recheck(t)
    PROVE  TimeInv'
<1>1. UNCHANGED listVars /\ UNCHANGED timeVars
  BY DEF Call, Abort, GiveUp, EnterWait, SuspendAll, prvLockQueue, CheckForTimeOut,
         LookAgain, Recheck, kernelVars
<1>2. WakesStay
  BY <1>1, UnchangedWakes
<1>3. xStateListItem'[t] = xStateListItem[t]
  BY <1>1 DEF listVars
<1>4. RecordFits(pc[t], call[t], clock[t])
  BY DEF TimeInv, TimeOf
<1>5. ASSUME NEW p, NEW c, NEW k, Moves(t, p, c, k), RecordFits(p, c, k), Ready(t)
      PROVE  TimeInv'
  <2>1. xStateListItem'[t] \notin {"delayed", "overflow"}
    BY <1>3, <1>5 DEF Ready
  <2> QED
    BY <1>2, <1>5, <2>1, TimeOfMoves
<1>6. RecordFits("app", NoCall, 0)
  BY UnsetFits DEF NoCall
<1>7. CASE Call(t)
  <2>1. PICK r \in Requests[t] :
            Moves(t, "try", [NoCall EXCEPT !.op = r[1], !.wait = r[2], !.ticks = r[2]], 0)
    BY <1>7, CallMoves
  <2> DEFINE c == [NoCall EXCEPT !.op = r[1], !.wait = r[2], !.ticks = r[2]]
  <2>2. ~c.set
    BY DEF NoCall
  <2>3. Ready(t)
    <3>1. "app" \in Pc /\ At(t, "app")
      BY <1>7 DEF Pc, Call
    <3> QED
      BY <3>1, RunsReady
  <2> HIDE DEF c
  <2>4. RecordFits("try", c, 0)
    BY <2>2, UnsetFits
  <2> QED
    BY <1>5, <2>1, <2>3, <2>4 DEF c
<1>8. CASE Abort(t)
  <2>1. PICK u \in Aborts[t] :
            /\ Moves(t, "abort_state",
                     [NoCall EXCEPT !.op = "abort", !.target = u, !.then = "app"], 0)
            /\ Ready(t)
    BY <1>8, AbortMoves
  <2> DEFINE c == [NoCall EXCEPT !.op = "abort", !.target = u, !.then = "app"]
  <2>2. ~c.set
    BY DEF NoCall
  <2> HIDE DEF c
  <2>3. RecordFits("abort_state", c, 0)
    BY <2>2, UnsetFits
  <2> QED
    BY <1>5, <2>1, <2>3 DEF c
<1>9. CASE GiveUp(t)
  BY <1>5, <1>6, <1>9, TryMoves
<1>10. CASE EnterWait(t)
  <2> DEFINE c == IF call[t].set THEN call[t] ELSE Entered(call[t])
  <2>1. pc[t] = "try" /\ Ready(t) /\ Moves(t, "suspend", c, clock[t])
    BY <1>10, EnterWaitMoves
  <2>2. RecordFits("suspend", c, clock[t])
    BY <1>10, <2>1, EnteredFits
  <2> HIDE DEF c
  <2> QED
    BY <1>5, <2>1, <2>2
<1>11. ASSUME NEW p, StaysIn(t, p), Ready(t),
              p \notin {"full", "place"} \/ pc[t] \in {"full", "place"}
       PROVE  TimeInv'
  <2>1. RecordFits(p, call[t], clock[t])
    BY <1>4, <1>11, SameRecordFits
  <2> QED
    BY <1>5, <1>11, <2>1 DEF StaysIn
<1>12. CASE SuspendAll(t)
  BY <1>11, <1>12, SuspendAllMoves
<1>13. CASE prvLockQueue(t)
  BY <1>11, <1>13, LockMoves
<1>14. CASE CheckForTimeOut(t)
  <2> DEFINE p == IF Expires(t) THEN "unlock_tx" ELSE "full"
  <2>1. pc[t] = "check" /\ Ready(t) /\ Moves(t, p, Checked(t), clock[t])
    BY <1>14, CheckMoves
  <2>2. RecordFits(p, Checked(t), clock[t])
    BY <2>1, CheckedFits
  <2> HIDE DEF p
  <2> QED
    BY <1>5, <2>1, <2>2
<1>15. CASE LookAgain(t)
  <2> DEFINE p == IF MustWait(t) THEN "place" ELSE "unlock_tx"
  <2>1. pc[t] = "full" /\ Ready(t) /\ StaysIn(t, p)
    BY <1>15, LookAgainMoves
  <2> HIDE DEF p
  <2> QED
    BY <1>11, <2>1
<1>16. CASE Recheck(t)
  <2>1. Ready(t) /\ (Moves(t, "app", NoCall, 0) \/ StaysIn(t, "try"))
    BY <1>16, RecheckMoves
  <2> QED
    BY <1>5, <1>6, <1>11, <2>1
<1> QED
  BY <1>7, <1>8, <1>9, <1>10, <1>12, <1>13, <1>14, <1>15, <1>16

\* Those that wake a waiter.
LEMMA TimeOfWakingCalls ==
    ASSUME KernelTypeOK, CallTypes, CallsInv, ListInv, TimeInv, NEW t \in Tasks,
           Send(t) \/ Receive(t) \/ UnlockTx(t) \/ UnlockRx(t)
    PROVE  TimeInv'
<1>1. PICK l \in EventLists : \E n : RemoveFromEventList(l, n) /\ UNCHANGED timeVars
  BY TwoEventLists DEF Send, Receive, UnlockTx, UnlockRx
<1>2. WakesStay
  BY <1>1, RemovalWakesStay
<1>3. CASE Send(t) \/ Receive(t)
  <2>1. Ready(t) /\ Moves(t, "app", NoCall, 0)
    BY <1>3, TryMoves
  <2>2. xStateListItem'[t] = "ready"
    BY <1>1, <2>1, ReadyStaysReady
  <2>3. RecordFits("app", NoCall, 0)
    BY UnsetFits DEF NoCall
  <2> QED
    BY <1>2, <2>1, <2>2, <2>3, TimeOfMoves
<1>4. CASE UnlockTx(t) \/ UnlockRx(t)
  <2>1. PICK p \in {"unlock_rx", "resume"} : StaysIn(t, p)
    BY <1>4, UnlockTxMoves, UnlockRxMoves
  <2>2. RecordFits(pc[t], call[t], clock[t])
    BY DEF TimeInv, TimeOf
  <2>3. RecordFits(p, call[t], clock[t])
    BY <2>2, SameRecordFits
  <2> QED
    BY <1>2, <2>1, <2>3, TimeOfMoves DEF StaysIn
<1> QED
  BY <1>3, <1>4

LEMMA TimeOfHandlers ==
    ASSUME KernelTypeOK, TimeInv, IsrSend \/ IsrReceive
    PROVE  TimeInv'
<1>1. UNCHANGED <<pc, call, clock>> /\ UNCHANGED timeVars
  BY DEF IsrSend, IsrReceive, callVars
<1>2. (\E l \in EventLists : RemoveFromEventList(l, 1)) \/ UNCHANGED listVars
  BY TwoEventLists DEF IsrSend, IsrReceive
<1>3. WakesStay
  BY <1>1, <1>2, RemovalWakesStay, UnchangedWakes
<1>4. \A t \in Tasks : RecordFits(pc'[t], call'[t], clock'[t])
  BY <1>1 DEF TimeInv, TimeOf
<1> QED
  BY <1>1, <1>3, <1>4, TimeStays

LEMMA TimeOfResume ==
    ASSUME KernelTypeOK, CallTypes, CallsInv, ListInv, TimeInv, NEW t \in Tasks, Resume(t)
    PROVE  TimeInv'
<1> DEFINE d == [call[t] EXCEPT !.then = "try"]
<1>1. ResumeMoves /\ UNCHANGED <<xTickCount, xNumOfOverflows>>
  BY ListsOfResume DEF Resume
<1>2. WakesStay
  BY <1>1, ResumeWakesStay
<1>3. /\ pc[t] = "resume"
      /\ IF call[t].then = "app" THEN Moves(t, "app", NoCall, 0)
         ELSE call[t].then \in {"try", "recheck"} /\ Moves(t, call[t].then, d, clock[t])
  BY ResumeCallMoves
<1>4. /\ d.set = call[t].set /\ d.wait = call[t].wait /\ d.ticks = call[t].ticks
      /\ d.entering = call[t].entering /\ d.count = call[t].count
  BY OwnCall DEF Calls
<1> HIDE DEF d
<1>5. CASE call[t].then = "app"
  <2>1. Ready(t)
    BY <1>3, <1>5 DEF ListInv, BlockedOf, Leaving, Ready
  <2>2. xStateListItem'[t] = "ready"
    BY <1>1, <2>1 DEF ResumeMoves, Ready
  <2>3. RecordFits("app", NoCall, 0)
    BY UnsetFits DEF NoCall
  <2> QED
    BY <1>2, <1>3, <1>5, <2>2, <2>3, TimeOfMoves
<1>6. CASE call[t].then # "app"
  <2> DEFINE p == call[t].then
  <2>1. p \notin {"full", "place"}
    BY <1>3, <1>6
  <2> HIDE DEF p
  <2>2. RecordFits(p, d, clock[t])
    <3>1. RecordFits(pc[t], call[t], clock[t])
      BY DEF TimeInv, TimeOf
    <3> QED
      BY <1>4, <2>1, <3>1 DEF RecordFits, Counts, Passed
  <2> QED
    BY <1>2, <1>3, <1>4, <1>6, <2>2, TimeOfMoves DEF p
<1> QED
  BY <1>5, <1>6

LEMMA TimeOfAborts ==
    ASSUME KernelTypeOK, CallTypes, CallsInv, ListInv, TimeInv, NEW t \in Tasks,
           AbortStateItem(t) \/ AbortEventItem(t)
    PROVE  TimeInv'
<1>1. PICK p \in {"abort_event", "resume"} : StaysIn(t, p) /\ call[t].target \in Tasks
  BY AbortStateMoves, AbortEventMoves
<1>2. WakesStay
  BY <1>1, AbortWakesStay DEF AbortStateItem, AbortEventItem
<1>3. RecordFits(pc[t], call[t], clock[t])
  BY DEF TimeInv, TimeOf
<1>4. RecordFits(p, call[t], clock[t])
  BY <1>3, SameRecordFits
<1> QED
  BY <1>1, <1>2, <1>4, TimeOfMoves DEF StaysIn

\* A task that begins to wait is put where what is left of its time says.
LEMMA TimeOfPlace ==
    ASSUME KernelTypeOK, CallTypes, CallsInv, ListInv, TimeInv, NEW t \in Tasks,
           PlaceOnEventList(t)
    PROVE  TimeInv'
<1> DEFINE c      == call[t]
           k      == clock[t]
           ticks  == c.ticks
           wake   == xItemValue'[t]
           list   == xStateListItem'[t]
           next   == xNextTaskUnblockTime'
           now    == xTickCount
           M      == TickModulus
<1>1. PlaceMoves(t, EventList(t), ticks) /\ UNCHANGED <<xTickCount, xNumOfOverflows>>
  BY ListsOfPlace DEF PlaceOnEventList
<1>2. pc[t] = "place" /\ Moves(t, "unlock_tx", c, k)
  BY PlaceCallMoves DEF StaysIn
<1>3. /\ \A u \in Tasks : call'[u] = call[u] /\ clock'[u] = clock[u]
      /\ \A u \in Tasks : pc'[u] \notin {"full", "place"} \/ pc[u] \in {"full", "place"}
  BY <1>2 DEF Moves, CallTypes
<1>4. /\ c \in Calls /\ CallFits("place", c, k) /\ k \in Nat
      /\ RecordFits("place", c, k)
  BY <1>2, OwnCall DEF TimeInv, TimeOf
<1>5. /\ ticks \in 0 .. portMAX_DELAY /\ c.wait \in Nat /\ now \in 0 .. portMAX_DELAY
      /\ ticks <= c.wait /\ c.wait <= portMAX_DELAY
      /\ portMAX_DELAY \in Nat /\ M = portMAX_DELAY + 1
  BY <1>4, Bounds, CallFields DEF KernelTypeOK, CallFits
<1>6. ticks # 0 /\ c.set /\ (c.wait # portMAX_DELAY => k + ticks = c.wait)
  <2>1. c.set
    BY <1>4 DEF CallFits
  <2> QED
    BY <1>4, <2>1 DEF RecordFits, Counts
<1>7. /\ list = IF ticks = portMAX_DELAY THEN "suspended"
                ELSE IF now + ticks >= M THEN "overflow" ELSE "delayed"
      /\ ticks # portMAX_DELAY => wake = IF now + ticks >= M THEN now + ticks - M ELSE now + ticks
      /\ list = "delayed" => next <= wake
  BY <1>1 DEF PlaceMoves
<1>8. ASSUME ticks # portMAX_DELAY PROVE c.wait # portMAX_DELAY
  BY <1>4, <1>8 DEF CallFits
<1>9. WakeHolds(list, wake, c, k, now, next)
  <2> HIDE DEF c, k, ticks, now, M, list, wake, next
  <2>1. CASE ticks = portMAX_DELAY
    BY <1>7, <2>1 DEF WakeHolds
  <2>2. CASE ticks # portMAX_DELAY
    <3>1. Counts(c) /\ k + ticks = c.wait
      BY <1>6, <1>8, <2>2 DEF Counts
    <3>2. CASE now + ticks >= M
      <4>1. k + (wake + M - now) = c.wait
        BY <1>4, <1>5, <1>7, <2>2, <3>1, <3>2
      <4> QED
        BY <1>7, <2>2, <3>1, <3>2, <4>1 DEF WakeHolds, M
    <3>3. CASE ~(now + ticks >= M)
      <4>1. now < wake /\ k + (wake - now) = c.wait
        BY <1>4, <1>5, <1>6, <1>7, <2>2, <3>1, <3>3
      <4> QED
        BY <1>7, <2>2, <3>1, <3>3, <4>1 DEF WakeHolds
    <3> QED
      BY <3>2, <3>3
  <2> QED
    BY <2>1, <2>2
<1>10. ASSUME NEW u \in Tasks PROVE RecordFits(pc[u], call[u], clock[u])'
  BY <1>1, <1>3 DEF TimeInv, TimeOf, RecordFits
<1>11. ASSUME NEW u \in Tasks, u # t
       PROVE  WakeFits(xStateListItem[u], xItemValue[u], call[u], clock[u])'
  <2>1. WakeFits(xStateListItem[u], xItemValue[u], call[u], clock[u])
    BY DEF TimeInv, TimeOf
  <2>2. xStateListItem'[u] = xStateListItem[u] /\ xItemValue'[u] = xItemValue[u]
        /\ next <= xNextTaskUnblockTime
    BY <1>1, <1>11 DEF PlaceMoves
  <2>3. xStateListItem[u] = "delayed" => next <= xItemValue[u]
    <3>1. /\ xItemValue[u] \in Nat /\ xNextTaskUnblockTime \in Nat /\ next \in Nat
      <4>1. KernelTypeOK'
        BY ListsOfPlace
      <4> QED
        BY <4>1, Bounds DEF KernelTypeOK
    <3> HIDE DEF next
    <3> QED
      BY <2>1, <2>2, <3>1 DEF WakeFits
  <2> QED
    BY <1>1, <1>3, <2>1, <2>2, <2>3 DEF WakeFits
<1>12. WakeFits(xStateListItem[t], xItemValue[t], call[t], clock[t])'
  BY <1>1, <1>3, <1>9 DEF WakeFits, WakeHolds, Counts
<1> QED
  BY <1>10, <1>11, <1>12 DEF TimeInv, TimeOf

\* No step makes the lists and the records tell a wrong time.
LEMMA TimeStep ==
    ASSUME KernelTypeOK, CallTypes, CallsInv, ListInv, TimeInv, CallTypes', Next
    PROVE  TimeInv'
<1>1. ASSUME Tick \/ PendedTick PROVE TimeInv'
  <2>1. UNCHANGED <<pc, call, suspender>>
    BY <1>1, ListsOfTick
  <2>2. CASE Tick /\ suspender # NoTask /\ UNCHANGED <<listVars, timeVars>>
    <3>1. UNCHANGED clock
      BY <2>2 DEF Tick
    <3>2. WakesStay
      BY <2>2, UnchangedWakes
    <3>3. \A t \in Tasks : RecordFits(pc'[t], call'[t], clock'[t])
      BY <2>1, <3>1 DEF TimeInv, TimeOf
    <3> QED
      BY <2>1, <3>1, <3>2, <3>3, TimeStays
  <2>3. CASE (PendedTick \/ suspender = NoTask) /\ \E due : TickMoves(due)
    <3>1. suspender = NoTask
      BY <2>3 DEF PendedTick, ProcessPendedTick, Processing
    <3> QED
      BY <1>1, <2>1, <2>3, <3>1, TimeOfTick
  <2> QED
    BY <1>1, <2>2, <2>3, ListsOfTick
<1> QED
  BY <1>1, TimeOfQuietCalls, TimeOfWakingCalls, TimeOfHandlers, TimeOfResume, TimeOfAborts,
     TimeOfPlace DEF Next, QueueStep
-------------------------------------------------------------------------------
(***************************************************************************)
(* The marks of aborted waits.                                             *)
(***************************************************************************)

GivingUp(p, c) == \/ p = "recheck"
                  \/ p \in {"unlock_tx", "unlock_rx", "resume"} /\ c.op # "abort" /\ c.then # "try"

\* AbortOf as a fact about values.
AbortFits(p, c, k, flag, mark) ==
    /\ flag => mark # "no"
    /\ GivingUp(p, c) => ~flag /\ (k >= c.wait \/ mark # "no")

LEMMA AbortIsAbortFits ==
    /\ AbortInv <=> \A t \in Tasks :
          AbortFits(pc[t], call[t], clock[t], ucDelayAborted[t], aborted[t])
    /\ AbortInv' <=> \A t \in Tasks :
          AbortFits(pc'[t], call'[t], clock'[t], ucDelayAborted'[t], aborted'[t])
<1>1. AbortInv <=> \A t \in Tasks :
          AbortFits(pc[t], call[t], clock[t], ucDelayAborted[t], aborted[t])
  BY DEF AbortInv, AbortOf, AbortFits, GivingUp, Leaving
<1>2. AbortInv' <=> \A t \in Tasks :
          AbortFits(pc'[t], call'[t], clock'[t], ucDelayAborted'[t], aborted'[t])
  BY DEF AbortInv, AbortOf, AbortFits, GivingUp, Leaving
<1> QED
  BY <1>1, <1>2

\* For the step of a task.
LEMMA AbortOfMoves ==
    ASSUME CallTypes, AbortInv, NEW t \in Tasks, NEW p, NEW c, NEW k, Moves(t, p, c, k),
           \A u \in Tasks : u # t => /\ ucDelayAborted'[u] = ucDelayAborted[u]
                                     /\ aborted'[u] = aborted[u],
           AbortFits(p, c, k, ucDelayAborted'[t], aborted'[t])
    PROVE  AbortInv'
<1>1. /\ pc'[t] = p /\ call'[t] = c /\ clock'[t] = k
      /\ \A u \in Tasks : u # t =>
            pc'[u] = pc[u] /\ call'[u] = call[u] /\ clock'[u] = clock[u]
  BY DEF Moves, CallTypes
<1> QED
  BY <1>1, AbortIsAbortFits

\* A call that returns keeps the mark, unless it gives up early.
LEMMA ReturnMarks ==
    ASSUME CallTypes, NEW t \in Tasks, Return(t),
           transfer' # <<>> \/ ~(clock[t] < call[t].wait) \/ ~ucDelayAborted[t],
           ucDelayAborted' = ucDelayAborted, AbortInv, Moves(t, "app", NoCall, 0)
    PROVE  AbortInv'
<1>1. aborted'[t] = IF aborted[t] = "no" \/ (transfer' = <<>> /\ clock[t] < call[t].wait)
                    THEN "no" ELSE "earlier"
  BY DEF Return, CallTypes
<1>2. \A u \in Tasks : u # t => aborted'[u] = aborted[u]
  BY DEF Return, CallTypes
<1>3. ucDelayAborted[t] => aborted[t] # "no"
  BY DEF AbortInv, AbortOf
<1>4. AbortFits("app", NoCall, 0, ucDelayAborted'[t], aborted'[t])
  BY <1>1, <1>3 DEF AbortFits, GivingUp
<1> QED
  BY <1>2, <1>4, AbortOfMoves

\* A call with no ticks left has had its time.
LEMMA NothingLeft ==
    ASSUME KernelTypeOK, CallTypes, CallsInv, TimeInv, NEW t \in Tasks, call[t].ticks = 0
    PROVE  clock[t] >= call[t].wait
<1> DEFINE c == call[t]
<1>1. c \in Calls /\ CallFits(pc[t], c, clock[t]) /\ RecordFits(pc[t], c, clock[t])
      /\ clock[t] \in Nat
  BY OwnCall DEF TimeInv, TimeOf
<1>2. CASE Counts(c)
  BY <1>1, <1>2 DEF RecordFits
<1>3. CASE ~Counts(c)
  <2>1. c.wait # portMAX_DELAY
    BY <1>1, Bounds DEF CallFits
  <2>2. c.wait = 0
    BY <1>1, <1>3, <2>1 DEF Counts, CallFits
  <2> QED
    BY <1>1, <2>2
<1> QED
  BY <1>2, <1>3

\* A call whose time xTaskCheckForTimeOut finds over has had it.
LEMMA TimedOutIsOver ==
    ASSUME KernelTypeOK, CallTypes, CallsInv, TimeInv, NEW t \in Tasks, pc[t] = "check",
           TimedOut(call[t].ticks, call[t].entering, call[t].count)
    PROVE  clock[t] >= call[t].wait
<1> DEFINE c == call[t]
           k == clock[t]
           e == Passed(c, k)
<1>1. CASE c.ticks = 0
  BY <1>1, NothingLeft
<1>2. CASE c.ticks # 0
  <2>1. /\ CallFits("check", c, k) /\ k \in Nat /\ c.wait \in Nat /\ c.ticks \in Nat
    BY OwnCall, CallFields, Bounds
  <2>2. c.wait # portMAX_DELAY
    BY <2>1 DEF TimedOut, CallFits
  <2>3. Counts(c)
    <3>1. c.op # "abort" => c.set
      BY <2>1 DEF CallFits
    <3>2. c.op # "abort"
      BY <2>1 DEF CallFits
    <3> QED
      BY <2>2, <3>1, <3>2 DEF Counts
  <2>4. e \in Nat /\ e >= c.ticks
    BY <1>2, <2>3, PassedShows
  <2>5. e = k - (c.wait - c.ticks)
    BY DEF Passed
  <2> HIDE DEF e
  <2> QED
    BY <2>1, <2>4, <2>5
<1> QED
  BY <1>1, <1>2

\* Steps of a call that change neither its flag nor its mark.
LEMMA MarksOfQuietCalls ==
    ASSUME KernelTypeOK, CallTypes, CallsInv, ListInv, TimeInv, AbortInv, NEW t \in Tasks,
           \/ Call(t) \/ Abort(t) \/ EnterWait(t) \/ SuspendAll(t) \/ prvLockQueue(t)
           \/ LookAgain(t) \/ UnlockTx(t) \/ UnlockRx(t) \/ AbortStateItem(t)
    PROVE  AbortInv'
<1>1. UNCHANGED <<ucDelayAborted, aborted>>
  BY DEF Call, Abort, EnterWait, SuspendAll, prvLockQueue, LookAgain, UnlockTx, UnlockRx,
         AbortStateItem, kernelVars
<1>2. AbortFits(pc[t], call[t], clock[t], ucDelayAborted[t], aborted[t])
  BY AbortIsAbortFits
<1>3. ASSUME NEW p, NEW c, NEW k, Moves(t, p, c, k),
             \/ ~GivingUp(p, c)
             \/ GivingUp(pc[t], call[t]) /\ c = call[t] /\ k = clock[t]
      PROVE  AbortInv'
  <2>1. AbortFits(p, c, k, ucDelayAborted'[t], aborted'[t])
    BY <1>1, <1>2, <1>3 DEF AbortFits
  <2> QED
    BY <1>1, <1>3, <2>1, AbortOfMoves
<1>4. ASSUME NEW p, StaysIn(t, p), ~GivingUp(p, call[t]) \/ GivingUp(pc[t], call[t])
      PROVE  AbortInv'
  BY <1>3, <1>4 DEF StaysIn
<1>5. CASE Call(t)
  BY <1>3, <1>5, CallMoves DEF GivingUp
<1>6. CASE Abort(t)
  BY <1>3, <1>6, AbortMoves DEF GivingUp
<1>7. CASE EnterWait(t)
  <2> DEFINE c == IF call[t].set THEN call[t] ELSE Entered(call[t])
  <2>1. Moves(t, "suspend", c, clock[t])
    BY <1>7, EnterWaitMoves
  <2> HIDE DEF c
  <2> QED
    BY <1>3, <2>1 DEF GivingUp
<1>8. CASE SuspendAll(t)
  BY <1>4, <1>8, SuspendAllMoves DEF GivingUp
<1>9. CASE prvLockQueue(t)
  BY <1>4, <1>9, LockMoves DEF GivingUp
<1>10. CASE LookAgain(t)
  <2> DEFINE p == IF MustWait(t) THEN "place" ELSE "unlock_tx"
  <2>1. pc[t] = "full" /\ StaysIn(t, p) /\ p \in {"place", "unlock_tx"}
    BY <1>10, LookAgainMoves
  <2> HIDE DEF p
  <2>2. call[t].then = "try"
    BY <2>1, OwnCall DEF CallFits
  <2> QED
    BY <1>4, <2>1, <2>2 DEF GivingUp
<1>11. CASE UnlockTx(t)
  BY <1>4, <1>11, UnlockTxMoves DEF GivingUp
<1>12. CASE UnlockRx(t)
  BY <1>4, <1>12, UnlockRxMoves DEF GivingUp
<1>13. CASE AbortStateItem(t)
  <2> DEFINE p == IF Blocked(call[t].target) THEN "abort_event" ELSE "resume"
  <2>1. call[t].op = "abort" /\ StaysIn(t, p) /\ p # "recheck"
    BY <1>13, AbortStateMoves
  <2> HIDE DEF p
  <2> QED
    BY <1>4, <2>1 DEF GivingUp
<1> QED
  BY <1>5, <1>6, <1>7, <1>8, <1>9, <1>10, <1>11, <1>12, <1>13

\* Calls that return, or go on once the scheduler runs again.
LEMMA MarksOfReturns ==
    ASSUME KernelTypeOK, CallTypes, CallsInv, ListInv, TimeInv, AbortInv, NEW t \in Tasks,
           Send(t) \/ Receive(t) \/ GiveUp(t) \/ Resume(t) \/ Recheck(t)
    PROVE  AbortInv'
<1>1. ucDelayAborted' = ucDelayAborted
  BY DEF Send, Receive, GiveUp, Resume, Recheck, kernelVars
<1>2. AbortFits(pc[t], call[t], clock[t], ucDelayAborted[t], aborted[t])
  BY AbortIsAbortFits
<1>3. clock[t] \in Nat /\ call[t].wait \in Nat
  BY OwnCall, CallFields, Bounds
<1>4. CASE Send(t) \/ Receive(t)
  <2>1. transfer' # <<>>
    BY <1>4 DEF Send, Receive, prvCopyDataToQueue, prvCopyDataFromQueue
  <2>2. Return(t) /\ Moves(t, "app", NoCall, 0)
    BY <1>4, TryMoves DEF Send, Receive
  <2> QED
    BY <1>1, <2>1, <2>2, ReturnMarks
<1>5. CASE GiveUp(t)
  <2>1. clock[t] >= call[t].wait
    BY <1>5, NothingLeft DEF GiveUp
  <2>2. ~(clock[t] < call[t].wait)
    BY <1>3, <2>1
  <2>3. Return(t) /\ Moves(t, "app", NoCall, 0)
    BY <1>5, TryMoves DEF GiveUp
  <2> QED
    BY <1>1, <2>2, <2>3, ReturnMarks
<1>6. CASE Resume(t)
  <2> DEFINE d == [call[t] EXCEPT !.then = "try"]
  <2>1. /\ pc[t] = "resume"
        /\ IF call[t].then = "app" THEN Moves(t, "app", NoCall, 0)
           ELSE call[t].then \in {"try", "recheck"} /\ Moves(t, call[t].then, d, clock[t])
    BY <1>6, ResumeCallMoves
  <2>2. d.wait = call[t].wait
    BY OwnCall DEF Calls
  <2> HIDE DEF d
  <2>3. CallFits("resume", call[t], clock[t])
    BY <2>1, OwnCall
  <2>4. CASE call[t].then = "app"
    <3>1. Return(t)
      BY <1>6, <2>4 DEF Resume
    <3>2. ~ucDelayAborted[t] \/ ~(clock[t] < call[t].wait)
      <4>1. CASE call[t].op = "abort"
        <5>1. call[t].wait = 0
          BY <2>3, <4>1 DEF CallFits
        <5> QED
          BY <1>3, <5>1
      <4>2. CASE call[t].op # "abort"
        BY <1>2, <2>1, <2>4, <4>2 DEF AbortFits, GivingUp
      <4> QED
        BY <4>1, <4>2
    <3> QED
      BY <1>1, <2>1, <2>4, <3>1, <3>2, ReturnMarks
  <2>5. CASE call[t].then = "try"
    <3>1. AbortFits("try", d, clock[t], ucDelayAborted[t], aborted[t])
      BY <1>2 DEF AbortFits, GivingUp
    <3>2. aborted' = aborted
      BY <1>6, <2>5 DEF Resume
    <3> QED
      BY <1>1, <2>1, <2>5, <3>1, <3>2, AbortOfMoves
  <2>6. CASE call[t].then = "recheck"
    <3>1. GivingUp("resume", call[t])
      BY <2>3, <2>6 DEF CallFits, GivingUp
    <3>2. AbortFits("recheck", d, clock[t], ucDelayAborted[t], aborted[t])
      BY <1>2, <2>1, <2>2, <3>1 DEF AbortFits
    <3>3. aborted' = aborted
      BY <1>6, <2>6 DEF Resume
    <3> QED
      BY <1>1, <2>1, <2>6, <3>2, <3>3, AbortOfMoves
  <2> QED
    BY <2>1, <2>4, <2>5, <2>6
<1>7. CASE Recheck(t)
  <2>1. /\ pc[t] = "recheck"
        /\ IF NoMessage THEN Moves(t, "app", NoCall, 0) ELSE StaysIn(t, "try")
    BY <1>7, RecheckMoves
  <2>2. ~ucDelayAborted[t]
    BY <1>2, <2>1 DEF AbortFits, GivingUp
  <2>3. CASE NoMessage
    <3>1. Return(t)
      BY <1>7, <2>3 DEF Recheck
    <3> QED
      BY <1>1, <2>1, <2>2, <2>3, <3>1, ReturnMarks
  <2>4. CASE ~NoMessage
    <3>1. AbortFits("try", call[t], clock[t], ucDelayAborted[t], aborted[t])
      BY <1>2 DEF AbortFits, GivingUp
    <3>2. aborted' = aborted
      BY <1>7, <2>4 DEF Recheck
    <3> QED
      BY <1>1, <2>1, <2>4, <3>1, <3>2, AbortOfMoves DEF StaysIn
  <2> QED
    BY <2>3, <2>4
<1> QED
  BY <1>4, <1>5, <1>6, <1>7

\* The steps that set or clear the flag.
LEMMA MarksOfFlags ==
    ASSUME KernelTypeOK, CallTypes, CallsInv, ListInv, TimeInv, AbortInv, NEW t \in Tasks,
           CheckForTimeOut(t) \/ PlaceOnEventList(t) \/ AbortEventItem(t)
    PROVE  AbortInv'
<1>1. AbortFits(pc[t], call[t], clock[t], ucDelayAborted[t], aborted[t])
  BY AbortIsAbortFits
<1>2. CASE CheckForTimeOut(t)
  <2> DEFINE p == IF Expires(t) THEN "unlock_tx" ELSE "full"
             c == Checked(t)
  <2>1. pc[t] = "check" /\ Moves(t, p, c, clock[t])
    BY <1>2, CheckMoves
  <2>2. c.wait = call[t].wait /\ (~Expires(t) => c.then = "try")
    BY <2>1, CheckedCall
  <2>3. /\ ~ucDelayAborted'[t] /\ aborted' = aborted
        /\ \A u \in Tasks : u # t => ucDelayAborted'[u] = ucDelayAborted[u]
    BY <1>2 DEF CheckForTimeOut, KernelTypeOK
  <2>4. Expires(t) => clock[t] >= call[t].wait \/ aborted[t] # "no"
    BY <1>1, <2>1, TimedOutIsOver DEF Expires, AbortFits
  <2> HIDE DEF c
  <2>5. AbortFits(p, c, clock[t], ucDelayAborted'[t], aborted'[t])
    BY <2>2, <2>3, <2>4 DEF AbortFits, GivingUp
  <2> HIDE DEF p
  <2> QED
    BY <2>1, <2>3, <2>5, AbortOfMoves
<1>3. CASE PlaceOnEventList(t)
  <2>1. Moves(t, "unlock_tx", call[t], clock[t]) /\ call[t].then = "try"
    BY <1>3, PlaceCallMoves DEF StaysIn
  <2>2. /\ ~ucDelayAborted'[t]
        /\ \A u \in Tasks : u # t => /\ ucDelayAborted'[u] = ucDelayAborted[u]
                                     /\ aborted'[u] = aborted[u]
    BY <1>3 DEF PlaceOnEventList, vTaskPlaceOnEventList, KernelTypeOK, CallTypes
  <2>3. AbortFits("unlock_tx", call[t], clock[t], ucDelayAborted'[t], aborted'[t])
    BY <2>1, <2>2 DEF AbortFits, GivingUp
  <2> QED
    BY <2>1, <2>2, <2>3, AbortOfMoves
<1>4. CASE AbortEventItem(t)
  <2> DEFINE u == call[t].target
  <2>1. u \in Tasks /\ call[t].op = "abort" /\ Moves(t, "resume", call[t], clock[t])
    BY <1>4, AbortEventMoves DEF StaysIn
  <2>2. /\ ucDelayAborted'[u] = (ucDelayAborted[u] \/ Waiting(u) \/ Pending(u))
        /\ aborted'[u] = "now"
        /\ \A v \in Tasks : v # u => /\ ucDelayAborted'[v] = ucDelayAborted[v]
                                     /\ aborted'[v] = aborted[v]
    BY <1>4, <2>1 DEF AbortEventItem, AbortEvent, KernelTypeOK, CallTypes
  <2>3. ASSUME NEW v \in Tasks
        PROVE  AbortFits(pc'[v], call'[v], clock'[v], ucDelayAborted'[v], aborted'[v])
    <3>1. AbortFits(pc[v], call[v], clock[v], ucDelayAborted[v], aborted[v])
      BY AbortIsAbortFits
    <3>2. /\ call'[v] = call[v] /\ clock'[v] = clock[v]
          /\ pc'[v] = IF v = t THEN "resume" ELSE pc[v]
      BY <2>1 DEF Moves, CallTypes
    <3>3. GivingUp(pc'[v], call'[v]) => v # t
      BY <2>1, <3>2 DEF GivingUp
    <3>4. GivingUp(pc'[v], call'[v]) => GivingUp(pc[v], call[v])
      BY <3>2, <3>3
    <3>5. GivingUp(pc[v], call[v]) => ~Waiting(v) /\ ~Pending(v)
      BY DEF GivingUp, ListInv, BlockedOf, Leaving
    <3>6. CASE v = u
      BY <2>2, <3>1, <3>2, <3>4, <3>5, <3>6 DEF AbortFits
    <3>7. CASE v # u
      BY <2>2, <3>1, <3>2, <3>4, <3>7 DEF AbortFits
    <3> QED
      BY <3>6, <3>7
  <2> QED
    BY <2>3, AbortIsAbortFits
<1> QED
  BY <1>2, <1>3, <1>4

\* No step makes a call give up without its time or a mark.
LEMMA AbortStep ==
    ASSUME KernelTypeOK, CallTypes, CallsInv, ListInv, TimeInv, AbortInv, CallTypes', Next
    PROVE  AbortInv'
<1>1. CASE IsrSend \/ IsrReceive
  <2>1. UNCHANGED <<ucDelayAborted, callVars>>
    BY <1>1 DEF IsrSend, IsrReceive
  <2> QED
    BY <2>1 DEF AbortInv, AbortOf, Leaving, callVars
<1>2. CASE Tick \/ PendedTick
  <2>1. UNCHANGED <<ucDelayAborted, pc, call, aborted>>
    BY <1>2 DEF Tick, PendedTick, TickInterrupt, ProcessPendedTick
  <2>2. ASSUME NEW t \in Tasks
        PROVE  clock[t] >= call[t].wait => clock'[t] >= call[t].wait
    <3> DEFINE w == call[t].wait
               k == clock[t]
               k1 == clock'[t]
    <3>1. CallFits(pc[t], call[t], k) /\ w \in Nat /\ k \in Nat
      BY OwnCall, CallFields, Bounds
    <3>2. k1 = (IF call[t].set /\ w # portMAX_DELAY THEN k + 1 ELSE 0) \/ k1 = k
      BY <1>2 DEF Tick, PendedTick, Advance
    <3>3. ~(call[t].set /\ w # portMAX_DELAY) => k = 0
      BY <3>1 DEF CallFits
    <3> HIDE DEF w, k, k1
    <3>4. k1 = k + 1 \/ k1 = k
      BY <3>2, <3>3
    <3>5. k >= w => k1 >= w
      BY <3>1, <3>4
    <3> QED
      BY <3>5 DEF w, k, k1
  <2>3. ASSUME NEW t \in Tasks
        PROVE  AbortFits(pc'[t], call'[t], clock'[t], ucDelayAborted'[t], aborted'[t])
    BY <2>1, <2>2, AbortIsAbortFits DEF AbortFits
  <2> QED
    BY <2>3, AbortIsAbortFits
<1> QED
  BY <1>1, <1>2, MarksOfQuietCalls, MarksOfReturns, MarksOfFlags DEF Next, QueueStep
-------------------------------------------------------------------------------
(***************************************************************************)
(* Wake-ups: what is in the queue for those who wait, and who is coming.   *)
(***************************************************************************)

Tries(p, c) == p = "try" \/ (p \in {"unlock_rx", "resume"} /\ c.then = "try")

Held(op) == \/ eventList[ListOf(op)] # <<>>
            \/ \E t \in Tasks : pc[t] = "place" /\ call[t].op = op

LEMMA ComingAre ==
    ASSUME NEW op
    PROVE  /\ \A t : t \in Coming(op) <=> t \in Tasks /\ ~Waiting(t) /\ Tries(pc[t], call[t])
                                          /\ call[t].op = op
           /\ \A t : t \in Coming(op)' <=>
                 t \in Tasks /\ ~Waiting(t)' /\ Tries(pc'[t], call'[t]) /\ call'[t].op = op
<1>1. \A t : t \in Coming(op) <=> t \in Tasks /\ ~Waiting(t) /\ Tries(pc[t], call[t])
                                  /\ call[t].op = op
  BY DEF Coming, WillTry, Tries
<1>2. \A t : t \in Coming(op)' <=> t \in Tasks /\ ~Waiting(t)' /\ Tries(pc'[t], call'[t])
                                   /\ call'[t].op = op
  BY DEF Coming, WillTry, Tries
<1> QED
  BY <1>1, <1>2

LEMMA ComingIsFinite ==
    ASSUME NEW op
    PROVE  /\ IsFiniteSet(Coming(op)) /\ Cardinality(Coming(op)) \in Nat
           /\ IsFiniteSet(Coming(op)') /\ Cardinality(Coming(op)') \in Nat
<1> DEFINE S  == Coming(op)
           S1 == Coming(op)'
<1>1. S \subseteq Tasks /\ S1 \subseteq Tasks
  BY DEF Coming
<1> HIDE DEF S, S1
<1>2. IsFiniteSet(S) /\ IsFiniteSet(S1)
  BY <1>1, KernelAssumption, FS_Subset
<1>3. Cardinality(S) \in Nat /\ Cardinality(S1) \in Nat
  BY <1>2, FS_CardinalityType
<1> QED
  BY <1>2, <1>3 DEF S, S1

LEMMA CountedIsNat ==
    ASSUME CallTypes, NEW op
    PROVE  Counted(LockOf(op)) \in Nat /\ (LockOf(op) # queueUNLOCKED => LockOf(op) \in Nat)
BY Bounds DEF CallTypes, Counted, LockOf, queueUNLOCKED

LEMMA NextCountedIsNat ==
    ASSUME CallTypes', NEW op
    PROVE  Counted(LockOf(op))' \in Nat
<1>1. cTxLock' \in queueUNLOCKED .. MaxLock /\ cRxLock' \in queueUNLOCKED .. MaxLock
  BY DEF CallTypes
<1>2. \A n \in queueUNLOCKED .. MaxLock : Counted(n) \in Nat
  BY Bounds DEF Counted, queueUNLOCKED
<1>3. Counted(LockOf(op))' = Counted(IF op = "receive" THEN cTxLock' ELSE cRxLock')
  BY DEF Counted, LockOf
<1> QED
  BY <1>1, <1>2, <1>3

LEMMA GoodsAreNat ==
    ASSUME RingInv, NEW op
    PROVE  Goods(op) \in Nat
BY Bounds DEF RingInv, Goods

\* As many come as goods do, and those that were coming still do.
LEMMA WakeOfGain ==
    ASSUME RingInv, CallTypes, CallTypes', NEW op, WakeOf(op), Held(op)' => Held(op),
           NEW woken \in SUBSET Tasks, woken \cap Coming(op) = {},
           Coming(op) \cup woken \subseteq Coming(op)',
           NEW goods \in Nat, Goods(op)' = goods,
           NEW count \in Nat, Counted(LockOf(op))' = count,
           goods + Counted(LockOf(op)) <= Goods(op) + Cardinality(woken) + count
    PROVE  WakeOf(op)'
<1> DEFINE S  == Coming(op)
           S1 == Coming(op)'
           m  == Cardinality(S)
           m1 == Cardinality(S1)
           n  == Cardinality(woken)
           k  == Counted(LockOf(op))
           g  == Goods(op)
<1>1. SUFFICES ASSUME Held(op)' PROVE goods <= m1 + count
  <2>1. Cardinality(Coming(op)') = Cardinality(Coming(op))'
    OBVIOUS
  <2> QED
    BY <2>1 DEF WakeOf, Held
<1>2. g <= m + k
  BY <1>1 DEF WakeOf, Held
<1>3. g \in Nat /\ k \in Nat /\ m \in Nat /\ m1 \in Nat
  BY GoodsAreNat, CountedIsNat, ComingIsFinite
<1>4. IsFiniteSet(S) /\ IsFiniteSet(S1) /\ IsFiniteSet(woken)
  BY ComingIsFinite, KernelAssumption, FS_Subset
<1>5. S \cup woken \subseteq S1 /\ S \cap woken = {}
  OBVIOUS
<1>6. goods + k <= g + n + count
  OBVIOUS
<1> HIDE DEF S, S1, m, m1, n, k, g
<1>7. n \in Nat
  BY <1>4, FS_CardinalityType DEF n
<1>8. Cardinality(S \cup woken) = m + n
  <2>1. Cardinality(S \cup woken) = Cardinality(S) + Cardinality(woken) - Cardinality(S \cap woken)
    BY <1>4, FS_Union
  <2>2. Cardinality(S \cap woken) = 0
    BY <1>5, FS_EmptySet
  <2> QED
    BY <1>3, <1>7, <2>1, <2>2 DEF m, n
<1>9. m + n <= m1
  BY <1>4, <1>5, <1>8, FS_Subset DEF m1
<1> QED
  BY <1>2, <1>3, <1>6, <1>7, <1>9

\* Nothing changes for the worse.
LEMMA WakeOfKeep ==
    ASSUME RingInv, RingInv', CallTypes, CallTypes', NEW op, WakeOf(op), Held(op)' => Held(op),
           Coming(op) \subseteq Coming(op)',
           Goods(op)' = Goods(op), Counted(LockOf(op))' = Counted(LockOf(op))
    PROVE  WakeOf(op)'
<1> DEFINE none == {}
<1>1. none \in SUBSET Tasks /\ Cardinality(none) = 0
  BY FS_EmptySet
<1>2. Goods(op) \in Nat /\ Counted(LockOf(op)) \in Nat
  BY GoodsAreNat, CountedIsNat
<1>3. Goods(op) + Counted(LockOf(op)) <= Goods(op) + 0 + Counted(LockOf(op))
  BY <1>2
<1> QED
  BY <1>1, <1>2, <1>3, WakeOfGain

\* One that was coming has come, and has taken.
LEMMA WakeOfTake ==
    ASSUME RingInv, CallTypes, NEW op, WakeOf(op), Held(op)' => Held(op),
           NEW t \in Coming(op), Coming(op) \ {t} \subseteq Coming(op)',
           Goods(op)' = Goods(op) - 1, Counted(LockOf(op))' = Counted(LockOf(op))
    PROVE  WakeOf(op)'
<1> DEFINE S  == Coming(op)
           S1 == Coming(op)'
           m  == Cardinality(S)
           m1 == Cardinality(S1)
           k  == Counted(LockOf(op))
           g  == Goods(op)
<1>1. SUFFICES ASSUME Held(op)' PROVE g - 1 <= m1 + k
  <2>1. Cardinality(Coming(op)') = Cardinality(Coming(op))'
    OBVIOUS
  <2> QED
    BY <2>1 DEF WakeOf, Held
<1>2. g <= m + k
  BY <1>1 DEF WakeOf, Held
<1>3. g \in Nat /\ k \in Nat /\ m \in Nat /\ m1 \in Nat
  BY GoodsAreNat, CountedIsNat, ComingIsFinite
<1>4. IsFiniteSet(S) /\ IsFiniteSet(S1)
  BY ComingIsFinite
<1>5. t \in S /\ S \ {t} \subseteq S1
  OBVIOUS
<1> HIDE DEF S, S1, m, m1, k, g
<1>6. Cardinality(S \ {t}) = m - 1
  BY <1>4, <1>5, FS_RemoveElement DEF m
<1>7. m - 1 <= m1
  BY <1>4, <1>5, <1>6, FS_Subset DEF m1
<1> QED
  BY <1>2, <1>3, <1>7

\* Nothing is left.
LEMMA WakeOfNothing ==
    ASSUME CallTypes', NEW op, Goods(op)' = 0
    PROVE  WakeOf(op)'
<1> DEFINE m1 == Cardinality(Coming(op)')
           k1 == Counted(LockOf(op))'
<1>1. m1 \in Nat /\ k1 \in Nat
  BY ComingIsFinite, NextCountedIsNat
<1>2. 0 <= m1 + k1
  <2> HIDE DEF m1, k1
  <2> QED
    BY <1>1
<1>3. Cardinality(Coming(op)') = Cardinality(Coming(op))'
  OBVIOUS
<1> QED
  BY <1>2, <1>3 DEF WakeOf

\* What a step of t that moves no waiter into a list keeps.
LEMMA StillComing ==
    ASSUME KernelTypeOK, KernelTypeOK', CallTypes, NEW t \in Tasks, NEW p, NEW c, NEW k,
           Moves(t, p, c, k), NEW op,
           \A l \in EventLists : Members(eventList'[l]) \subseteq Members(eventList[l])
    PROVE  /\ Coming(op) \ {t} \subseteq Coming(op)'
           /\ (Tries(pc[t], call[t]) /\ call[t].op = op => Tries(p, c) /\ c.op = op)
                 => Coming(op) \subseteq Coming(op)'
           /\ p # "place" \/ c.op # op => (Held(op)' => Held(op))
<1>1. /\ pc'[t] = p /\ call'[t] = c
      /\ \A u \in Tasks : u # t => pc'[u] = pc[u] /\ call'[u] = call[u]
  BY DEF Moves, CallTypes
<1>2. ListsAreTyped /\ ListsAreTyped'
  BY DEF KernelTypeOK, ListsAreTyped
<1>3. \A u \in Tasks : Waiting(u)' => Waiting(u)
  BY <1>2, PlacesAreMembers, NextPlacesAreMembers
<1>4. ASSUME NEW u \in Coming(op), Tries(pc'[u], call'[u]), call'[u].op = op
      PROVE  u \in Coming(op)'
  BY <1>3, <1>4, ComingAre
<1>5. Coming(op) \ {t} \subseteq Coming(op)'
  BY <1>1, <1>4, ComingAre
<1>6. (Tries(pc[t], call[t]) /\ call[t].op = op => Tries(p, c) /\ c.op = op)
         => Coming(op) \subseteq Coming(op)'
  BY <1>1, <1>4, ComingAre
<1>7. ASSUME p # "place" \/ c.op # op, Held(op)' PROVE Held(op)
  <2>1. ListOf(op) \in EventLists
    BY TwoEventLists DEF ListOf
  <2>2. CASE eventList'[ListOf(op)] # <<>>
    <3>1. Members(eventList'[ListOf(op)]) # {}
      <4>1. eventList'[ListOf(op)] \in Seq(Tasks)
        BY <1>2, <2>1 DEF ListsAreTyped
      <4> QED
        BY <2>2, <4>1, MembersProperties
    <3>2. Members(eventList[ListOf(op)]) # {}
      BY <2>1, <3>1
    <3> QED
      BY <1>2, <2>1, <3>2, EmptyLists DEF Held
  <2>3. CASE \E u \in Tasks : pc'[u] = "place" /\ call'[u].op = op
    BY <1>1, <1>7, <2>3 DEF Held
  <2> QED
    BY <1>7, <2>2, <2>3 DEF Held
<1> QED
  BY <1>5, <1>6, <1>7

\* A waiter is where it tries again, or on its way there.
LEMMA WaitersTry ==
    ASSUME KernelTypeOK, CallTypes, CallsInv, ListInv, NEW op \in Operations,
           NEW v \in Members(eventList[ListOf(op)])
    PROVE  /\ v \in Tasks /\ Waiting(v) /\ call[v].op = op
           /\ pc[v] = "try" \/ (Leaving(v) /\ call[v].then = "try")
<1>1. ListOf(op) \in EventLists
  BY TwoEventLists DEF ListOf
<1>2. v \in Tasks /\ Waiting(v)
  BY <1>1, PlacesAreMembers, EmptyLists DEF KernelTypeOK, ListsAreTyped
<1>3. xStateListItem[v] # "ready"
  BY <1>2 DEF ListInv, BlockedOf
<1>4. pc[v] = "try" \/ (Leaving(v) /\ call[v].then = "try")
  BY <1>2, <1>3 DEF ListInv, BlockedOf
<1>5. CallFits(pc[v], call[v], clock[v])
  BY <1>2, OwnCall
<1>6. call[v].op \in Operations
  BY <1>4, <1>5 DEF CallFits, Leaving, Operations
<1>7. ListOf(op) = EventList(v)
  BY <1>1, <1>2 DEF ListInv, EventListsInv
<1> QED
  BY <1>2, <1>4, <1>6, <1>7 DEF EventList, ListOf, Operations, Receiving

\* n waiters are woken, or all of them.
LEMMA WokenCome ==
    ASSUME KernelTypeOK, CallTypes, CallsInv, ListInv, NEW op \in Operations,
           NEW n \in Nat, RemoveFromEventList(ListOf(op), n),
           \A v \in Tasks : ~(pc'[v] = "place" /\ call'[v].op = op),
           \A v \in Members(eventList[ListOf(op)]) \cup Coming(op) :
              Tries(pc'[v], call'[v]) /\ call'[v].op = op
    PROVE  \/ ~Held(op)'
           \/ /\ Held(op)
              /\ \E woken \in SUBSET Tasks :
                    /\ woken \cap Coming(op) = {} /\ Cardinality(woken) = n
                    /\ Coming(op) \cup woken \subseteq Coming(op)'
<1> DEFINE l == ListOf(op)
           M == Members(eventList[l])
<1>1. l \in EventLists /\ ListsAreTyped /\ ListsAreDistinct
  BY TwoEventLists, DistinctLists DEF ListOf, KernelTypeOK, ListsAreTyped, ListInv
<1>2. /\ ListsAreTyped'
      /\ \E woken : /\ Wakes(l, woken)
                    /\ Cardinality(woken) = n \/ M = woken
  BY <1>1, RemovalWakes
<1>3. PICK woken : /\ Wakes(l, woken)
                   /\ Cardinality(woken) = n \/ M = woken
  BY <1>2
<1>4. /\ woken \subseteq M
      /\ \A k \in EventLists : Members(eventList'[k]) =
            IF k = l THEN M \ woken ELSE Members(eventList[k])
  BY <1>3 DEF Wakes
<1>5. SUFFICES ASSUME Held(op)'
               PROVE  /\ Held(op) /\ woken \in SUBSET Tasks
                      /\ woken \cap Coming(op) = {} /\ Cardinality(woken) = n
                      /\ Coming(op) \cup woken \subseteq Coming(op)'
  OBVIOUS
<1>6. M \ woken # {}
  <2>1. eventList'[l] # <<>>
    BY <1>5 DEF Held
  <2>2. eventList'[l] \in Seq(Tasks)
    BY <1>1, <1>2 DEF ListsAreTyped
  <2>3. Members(eventList'[l]) # {}
    BY <2>1, <2>2, MembersProperties
  <2> QED
    BY <1>1, <1>4, <2>3
<1>7. Cardinality(woken) = n
  BY <1>3, <1>6
<1>8. M \subseteq Tasks /\ Held(op)
  BY <1>1, <1>6, EmptyLists DEF Held
<1>9. \A v \in woken : Waiting(v)
  BY <1>4, WaitersTry
<1>10. woken \cap Coming(op) = {}
  BY <1>9, ComingAre
<1>11. ASSUME NEW v \in Tasks PROVE Waiting(v)' => Waiting(v) /\ v \notin woken
  <2>1. ASSUME NEW k \in EventLists, v \in Members(eventList'[k])
        PROVE  v \in Members(eventList[k]) /\ v \notin woken
    <3>1. CASE k = l
      BY <1>4, <2>1, <3>1
    <3>2. CASE k # l
      <4>1. Members(eventList[k]) \cap M = {}
        BY <1>1, <3>2 DEF ListsAreDistinct
      <4> QED
        BY <1>4, <2>1, <3>2, <4>1
    <3> QED
      BY <3>1, <3>2
  <2> QED
    BY <1>1, <1>2, <2>1, PlacesAreMembers, NextPlacesAreMembers
<1>12. Coming(op) \cup woken \subseteq Coming(op)'
  <2>1. ASSUME NEW v \in Coming(op) PROVE v \in Coming(op)'
    BY <1>11, ComingAre
  <2>2. ASSUME NEW v \in woken PROVE v \in Coming(op)'
    <3>1. v \in M /\ v \in Tasks
      BY <1>4, <1>8
    <3> QED
      BY <1>11, <3>1, ComingAre
  <2> QED
    BY <2>1, <2>2
<1> QED
  BY <1>4, <1>7, <1>8, <1>10, <1>12

\* The steps of a call that wake nobody.
LEMMA WakesOfQuietCalls ==
    ASSUME RingInv, RingInv', KernelTypeOK, KernelTypeOK', CallTypes, CallTypes',
           CallsInv, ListInv, WakeInv, NEW t \in Tasks,
           \/ Call(t) \/ Abort(t) \/ GiveUp(t) \/ EnterWait(t) \/ SuspendAll(t)
           \/ prvLockQueue(t) \/ CheckForTimeOut(t) \/ LookAgain(t) \/ Recheck(t)
    PROVE  WakeInv'
<1> SUFFICES ASSUME NEW op \in Operations PROVE WakeOf(op)'
  BY DEF WakeInv
<1>1. UNCHANGED <<eventList, uxMessagesWaiting>>
  BY DEF Call, Abort, GiveUp, EnterWait, SuspendAll, prvLockQueue, CheckForTimeOut,
         LookAgain, Recheck, kernelVars, listVars, queueVars, ringVars
<1>2. Counted(LockOf(op))' = Counted(LockOf(op))
  BY DEF Call, Abort, GiveUp, EnterWait, SuspendAll, prvLockQueue, CheckForTimeOut,
         LookAgain, Recheck, queueVars, lockVars, Counted, LockOf, queueLOCKED_UNMODIFIED
<1>3. Goods(op)' = Goods(op) /\ WakeOf(op)
  BY <1>1 DEF Goods, WakeInv
<1>4. \A l \in EventLists : Members(eventList'[l]) \subseteq Members(eventList[l])
  BY <1>1
<1>5. ASSUME NEW p, NEW c, NEW k, Moves(t, p, c, k),
             Tries(pc[t], call[t]) /\ call[t].op = op => Tries(p, c) /\ c.op = op,
             p # "place" \/ c.op # op
      PROVE  WakeOf(op)'
  <2>1. Coming(op) \subseteq Coming(op)' /\ (Held(op)' => Held(op))
    BY <1>4, <1>5, StillComing
  <2> QED
    BY <1>2, <1>3, <2>1, WakeOfKeep
<1>6. ASSUME MustWait(t), call[t].op = op PROVE WakeOf(op)'
  <2>1. Goods(op) = 0
    BY <1>6, Bounds DEF MustWait, Receiving, NoMessage, NoRoom, Goods
  <2> QED
    BY <1>3, <2>1, WakeOfNothing
<1>7. CASE Call(t)
  <2>1. pc[t] = "app"
    BY <1>7 DEF Call, At
  <2> QED
    BY <1>5, <1>7, <2>1, CallMoves DEF Tries
<1>8. CASE Abort(t)
  BY <1>5, <1>8, AbortMoves DEF Tries
<1>9. CASE GiveUp(t) \/ EnterWait(t)
  <2>1. MustWait(t)
    BY <1>9 DEF GiveUp, EnterWait
  <2>2. CASE call[t].op = op
    BY <1>6, <2>1, <2>2
  <2>3. CASE call[t].op # op
    <3>1. PICK p \in {"app", "suspend"} : \E c, k : Moves(t, p, c, k)
      BY <1>9, TryMoves, EnterWaitMoves
    <3> QED
      BY <1>5, <2>3, <3>1
  <2> QED
    BY <2>2, <2>3
<1>10. ASSUME NEW p, StaysIn(t, p), ~Tries(pc[t], call[t]),
              p # "place" \/ call[t].op # op
       PROVE  WakeOf(op)'
  BY <1>5, <1>10 DEF StaysIn
<1>11. CASE SuspendAll(t)
  BY <1>10, <1>11, SuspendAllMoves DEF Tries
<1>12. CASE prvLockQueue(t)
  BY <1>10, <1>12, LockMoves DEF Tries
<1>13. CASE CheckForTimeOut(t)
  <2> DEFINE p == IF Expires(t) THEN "unlock_tx" ELSE "full"
  <2>1. pc[t] = "check" /\ Moves(t, p, Checked(t), clock[t]) /\ p # "place"
    BY <1>13, CheckMoves
  <2> HIDE DEF p
  <2> QED
    BY <1>5, <2>1 DEF Tries
<1>14. CASE LookAgain(t)
  <2> DEFINE p == IF MustWait(t) THEN "place" ELSE "unlock_tx"
  <2>1. pc[t] = "full" /\ StaysIn(t, p)
    BY <1>14, LookAgainMoves
  <2>2. CASE MustWait(t) /\ call[t].op = op
    BY <1>6, <2>2
  <2>3. CASE ~(MustWait(t) /\ call[t].op = op)
    <3>1. p # "place" \/ call[t].op # op
      BY <2>3
    <3> HIDE DEF p
    <3> QED
      BY <1>10, <2>1, <3>1 DEF Tries
  <2> QED
    BY <2>2, <2>3
<1>15. CASE Recheck(t)
  <2>1. pc[t] = "recheck" /\ (Moves(t, "app", NoCall, 0) \/ StaysIn(t, "try"))
    BY <1>15, RecheckMoves
  <2> QED
    BY <1>5, <1>10, <2>1 DEF Tries
<1> QED
  BY <1>7, <1>8, <1>9, <1>11, <1>12, <1>13, <1>14, <1>15

OtherOp(op) == IF op = "receive" THEN "send" ELSE "receive"

\* A woken waiter is on its way as soon as the queue is not locked for it.
LEMMA WaitersAreComing ==
    ASSUME KernelTypeOK, CallTypes, CallsInv, ListInv, NEW op \in Operations,
           LockOf(op) = queueUNLOCKED, NEW v \in Members(eventList[ListOf(op)])
    PROVE  v \in Tasks /\ Tries(pc[v], call[v]) /\ call[v].op = op
<1>1. /\ v \in Tasks /\ call[v].op = op
      /\ pc[v] = "try" \/ (Leaving(v) /\ call[v].then = "try")
  BY WaitersTry
<1>2. pc[v] # "unlock_tx"
  BY <1>1, OwnCall DEF LockOf, LockedPc
<1> QED
  BY <1>1, <1>2 DEF Tries, Leaving

\* Nobody is about to wait while the queue is not locked.
LEMMA NobodyAtPlace ==
    ASSUME KernelTypeOK, CallTypes, CallsInv, NEW op, LockOf(op) = queueUNLOCKED
    PROVE  \A v \in Tasks : pc[v] # "place"
BY OwnCall DEF LockOf, LockedPc

\* A task sends or receives.
LEMMA WakesOfTransfers ==
    ASSUME RingInv, RingInv', KernelTypeOK, KernelTypeOK', CallTypes, CallTypes',
           CallsInv, ListInv, WakeInv, NEW t \in Tasks, Send(t) \/ Receive(t)
    PROVE  WakeInv'
<1>0. PICK mine \in Operations : call[t].op = mine
  BY DEF Send, Receive, Sending, Receiving, Operations
<1> DEFINE other == OtherOp(mine)
<1>1. /\ pc[t] = "try" /\ Ready(t) /\ suspender = NoTask /\ Moves(t, "app", NoCall, 0)
  BY TryMoves
<1>2. /\ other \in Operations /\ mine # other
      /\ \A op \in Operations : op = mine \/ op = other
  BY DEF Operations, OtherOp
<1>3. /\ RemoveFromEventList(ListOf(other), 1)
      /\ Goods(mine)' = Goods(mine) - 1 /\ Goods(other)' = Goods(other) + 1
  <2>1. uxMessagesWaiting \in Nat /\ uxLength \in Nat
    BY Bounds DEF RingInv
  <2>2. CASE Send(t)
    <3>1. mine = "send" /\ other = "receive"
      BY <1>0, <2>2 DEF Send, Sending, OtherOp
    <3>2. uxMessagesWaiting' = uxMessagesWaiting + 1
      BY <2>2 DEF Send, prvCopyDataToQueue
    <3>3. RemoveFromEventList("xTasksWaitingToReceive", 1)
      BY <2>2 DEF Send
    <3> HIDE DEF other
    <3> QED
      BY <2>1, <3>1, <3>2, <3>3 DEF Goods, ListOf
  <2>3. CASE Receive(t)
    <3>1. mine = "receive" /\ other = "send"
      BY <1>0, <2>3 DEF Receive, Receiving, OtherOp
    <3>2. uxMessagesWaiting' = uxMessagesWaiting - 1
      BY <2>3 DEF Receive, prvCopyDataFromQueue
    <3>3. RemoveFromEventList("xTasksWaitingToSend", 1)
      BY <2>3 DEF Receive
    <3> HIDE DEF other
    <3> QED
      BY <2>1, <3>1, <3>2, <3>3 DEF Goods, ListOf
  <2> QED
    BY <2>2, <2>3
<1>4. \A op : Counted(LockOf(op))' = Counted(LockOf(op))
  BY DEF Send, Receive, lockVars, Counted, LockOf
<1>5. ~Waiting(t)
  BY <1>1 DEF Ready, ListInv, BlockedOf
<1>6. \A v \in Tasks : pc[v] \notin SuspendedPc
  <2>1. \A v \in Tasks : v # NoTask
    BY KernelAssumption
  <2> QED
    BY <1>1, <2>1 DEF CallsInv, SuspendOf
<1>7. /\ pc'[t] = "app" /\ call'[t] = NoCall
      /\ \A u \in Tasks : u # t => pc'[u] = pc[u] /\ call'[u] = call[u]
  BY <1>1 DEF Moves, CallTypes
<1>8. \A op \in Operations : ListOf(op) \in EventLists
  BY TwoEventLists DEF ListOf
<1>9. WakeOf(mine)'
  <2>1. \A l \in EventLists : Members(eventList'[l]) \subseteq Members(eventList[l])
    <3>1. ListsAreTyped /\ ListsAreDistinct
      BY DistinctLists DEF KernelTypeOK, ListsAreTyped, ListInv
    <3>2. 1 \in Nat
      OBVIOUS
    <3>3. \E woken : Wakes(ListOf(other), woken)
      BY <1>2, <1>3, <1>8, <3>1, <3>2, RemovalWakes
    <3> QED
      BY <3>3 DEF Wakes
  <2>2. Coming(mine) \ {t} \subseteq Coming(mine)' /\ (Held(mine)' => Held(mine))
    BY <1>1, <2>1, StillComing DEF NoCall
  <2>3. t \in Coming(mine)
    BY <1>0, <1>1, <1>5, ComingAre DEF Tries
  <2>4. WakeOf(mine)
    BY <1>2 DEF WakeInv
  <2> QED
    BY <1>3, <1>4, <2>2, <2>3, <2>4, WakeOfTake
<1>10. WakeOf(other)'
  <2> HIDE DEF other
  <2>1. \A v \in Tasks : pc'[v] # "place"
    BY <1>6, <1>7 DEF SuspendedPc, LockedPc
  <2>2. ASSUME NEW v \in Members(eventList[ListOf(other)]) \cup Coming(other)
        PROVE  Tries(pc'[v], call'[v]) /\ call'[v].op = other
    <3>1. v \in Tasks /\ call[v].op = other /\ Tries(pc[v], call[v])
      <4>1. CASE v \in Coming(other)
        BY <4>1, ComingAre
      <4>2. CASE v \notin Coming(other)
        <5>1. /\ v \in Tasks /\ call[v].op = other
              /\ pc[v] = "try" \/ Leaving(v)
          BY <1>2, <2>2, <4>2, WaitersTry
        <5> QED
          BY <1>6, <5>1 DEF Leaving, SuspendedPc, LockedPc, Tries
      <4> QED
        BY <4>1, <4>2
    <3>2. v # t
      BY <1>0, <1>2, <3>1
    <3> QED
      BY <1>7, <3>1, <3>2
  <2>3. 1 \in Nat
    OBVIOUS
  <2>4. \/ ~Held(other)'
        \/ /\ Held(other)
           /\ \E woken \in SUBSET Tasks :
                 /\ woken \cap Coming(other) = {} /\ Cardinality(woken) = 1
                 /\ Coming(other) \cup woken \subseteq Coming(other)'
    BY <1>2, <1>3, <2>1, <2>2, <2>3, WokenCome
  <2>5. CASE ~Held(other)'
    BY <2>5 DEF WakeOf, Held
  <2>6. CASE Held(other)'
    <3>1. PICK woken \in SUBSET Tasks :
              /\ woken \cap Coming(other) = {} /\ Cardinality(woken) = 1
              /\ Coming(other) \cup woken \subseteq Coming(other)'
      BY <2>4, <2>6
    <3>2. /\ Goods(other) \in Nat /\ Counted(LockOf(other)) \in Nat
          /\ Goods(other) + 1 \in Nat
      BY GoodsAreNat, CountedIsNat
    <3>3. (Goods(other) + 1) + Counted(LockOf(other))
             <= Goods(other) + Cardinality(woken) + Counted(LockOf(other))
      BY <3>1, <3>2
    <3>4. WakeOf(other) /\ Held(other)
      BY <1>2, <2>4, <2>6 DEF WakeInv
    <3> QED
      BY <1>3, <1>4, <3>1, <3>2, <3>3, <3>4, WakeOfGain
  <2> QED
    BY <2>5, <2>6
<1> QED
  BY <1>2, <1>9, <1>10 DEF WakeInv

\* A handler sends or receives: it wakes a waiter, or counts what it did.
LEMMA WakesOfHandlers ==
    ASSUME RingInv, RingInv', KernelTypeOK, KernelTypeOK', CallTypes, CallTypes',
           CallsInv, ListInv, WakeInv, IsrSend \/ IsrReceive
    PROVE  WakeInv'
<1>1. PICK mine \in Operations :
          LET other == OtherOp(mine)
          IN  /\ Goods(mine)' = Goods(mine) - 1 /\ Goods(other)' = Goods(other) + 1
              /\ LockOf(mine)' = LockOf(mine)
              /\ IF LockOf(other) = queueUNLOCKED
                 THEN RemoveFromEventList(ListOf(other), 1) /\ LockOf(other)' = LockOf(other)
                 ELSE LockOf(other)' = LockOf(other) + 1 /\ UNCHANGED listVars
  <2>1. uxMessagesWaiting \in Nat /\ uxLength \in Nat
    BY Bounds DEF RingInv
  <2>2. CASE IsrSend
    <3>1. uxMessagesWaiting' = uxMessagesWaiting + 1
      BY <2>2 DEF IsrSend, prvCopyDataToQueue
    <3>2. /\ cRxLock' = cRxLock
          /\ IF cTxLock = queueUNLOCKED
             THEN RemoveFromEventList("xTasksWaitingToReceive", 1) /\ cTxLock' = cTxLock
             ELSE cTxLock' = cTxLock + 1 /\ UNCHANGED listVars
      BY <2>2 DEF IsrSend
    <3>3. Goods("send")' = Goods("send") - 1 /\ Goods("receive")' = Goods("receive") + 1
      BY <2>1, <3>1 DEF Goods
    <3> "send" \in Operations
      BY DEF Operations
    <3> WITNESS "send" \in Operations
    <3> QED
      BY <3>2, <3>3 DEF OtherOp, LockOf, ListOf
  <2>3. CASE IsrReceive
    <3>1. uxMessagesWaiting' = uxMessagesWaiting - 1
      BY <2>3 DEF IsrReceive, prvCopyDataFromQueue
    <3>2. /\ cTxLock' = cTxLock
          /\ IF cRxLock = queueUNLOCKED
             THEN RemoveFromEventList("xTasksWaitingToSend", 1) /\ cRxLock' = cRxLock
             ELSE cRxLock' = cRxLock + 1 /\ UNCHANGED listVars
      BY <2>3 DEF IsrReceive
    <3>3. Goods("receive")' = Goods("receive") - 1 /\ Goods("send")' = Goods("send") + 1
      BY <2>1, <3>1 DEF Goods
    <3> "receive" \in Operations
      BY DEF Operations
    <3> WITNESS "receive" \in Operations
    <3> QED
      BY <3>2, <3>3 DEF OtherOp, LockOf, ListOf
  <2> QED
    BY <2>2, <2>3
<1> DEFINE other == OtherOp(mine)
<1>2. /\ other \in Operations /\ mine # other
      /\ \A op \in Operations : op = mine \/ op = other
  BY DEF Operations, OtherOp
<1>3. UNCHANGED <<pc, call>>
  BY DEF IsrSend, IsrReceive, callVars
<1>4. ListOf(other) \in EventLists /\ ListOf(mine) \in EventLists
  BY TwoEventLists DEF ListOf
<1>5. ListsAreTyped /\ ListsAreDistinct /\ ListsAreTyped'
  BY DistinctLists DEF KernelTypeOK, ListsAreTyped, ListInv
<1>6. \A l \in EventLists : Members(eventList'[l]) \subseteq Members(eventList[l])
  <2>1. CASE LockOf(other) = queueUNLOCKED
    <3>1. 1 \in Nat
      OBVIOUS
    <3>2. \E woken : Wakes(ListOf(other), woken)
      BY <1>1, <1>4, <1>5, <2>1, <3>1, RemovalWakes
    <3> QED
      BY <3>2 DEF Wakes
  <2>2. CASE LockOf(other) # queueUNLOCKED
    BY <1>1, <2>2 DEF listVars
  <2> QED
    BY <2>1, <2>2
<1>7. ASSUME NEW op \in Operations
      PROVE  /\ Coming(op) \subseteq Coming(op)' /\ (Held(op)' => Held(op))
             /\ WakeOf(op) /\ Goods(op) \in Nat /\ Counted(LockOf(op)) \in Nat
             /\ (LockOf(op) # queueUNLOCKED => LockOf(op) \in Nat)
  <2>1. Coming(op) \subseteq Coming(op)'
    <3>1. \A u \in Tasks : Waiting(u)' => Waiting(u)
      BY <1>5, <1>6, PlacesAreMembers, NextPlacesAreMembers
    <3> QED
      BY <1>3, <3>1, ComingAre
  <2>2. ListOf(op) \in EventLists
    BY TwoEventLists DEF ListOf
  <2>3. eventList'[ListOf(op)] # <<>> => eventList[ListOf(op)] # <<>>
    <3>1. eventList'[ListOf(op)] \in Seq(Tasks) /\ eventList[ListOf(op)] \in Seq(Tasks)
      BY <1>5, <2>2 DEF ListsAreTyped
    <3>2. Members(eventList[ListOf(op)]) = {} => Members(eventList'[ListOf(op)]) = {}
      BY <1>6, <2>2
    <3> QED
      BY <3>1, <3>2, MembersProperties
  <2>4. Held(op)' => Held(op)
    BY <1>3, <2>3 DEF Held
  <2> QED
    BY <2>1, <2>4, GoodsAreNat, CountedIsNat DEF WakeInv
<1>8. WakeOf(mine)'
  <2>1. Goods(mine)' \in Nat /\ Counted(LockOf(mine))' = Counted(LockOf(mine))
    <3>1. Goods(mine)' \in Nat
      <4>1. uxMessagesWaiting' \in 0 .. uxLength
        BY DEF RingInv
      <4>2. \A n \in 0 .. uxLength : n \in Nat /\ uxLength - n \in Nat
        BY Bounds
      <4> QED
        BY <4>1, <4>2 DEF Goods
    <3> QED
      BY <1>1, <3>1 DEF Counted
  <2> DEFINE none == {}
             goods == Goods(mine)'
  <2>2. none \in SUBSET Tasks /\ Cardinality(none) = 0
    BY FS_EmptySet
  <2>3. goods = Goods(mine) - 1
    BY <1>1
  <2>4. goods + Counted(LockOf(mine)) <= Goods(mine) + Cardinality(none) + Counted(LockOf(mine))
    <3> HIDE DEF goods
    <3> QED
      BY <1>7, <2>1, <2>2, <2>3
  <2> QED
    BY <1>7, <2>1, <2>2, <2>4, WakeOfGain
<1>9. WakeOf(other)'
  <2> HIDE DEF other
  <2>1. /\ Goods(other) + 1 \in Nat /\ Goods(other)' = Goods(other) + 1
    BY <1>1, <1>2, <1>7 DEF other
  <2>2. CASE LockOf(other) = queueUNLOCKED
    <3>1. RemoveFromEventList(ListOf(other), 1) /\ LockOf(other)' = LockOf(other)
      BY <1>1, <2>2 DEF other
    <3>2. \A v \in Members(eventList[ListOf(other)]) \cup Coming(other) :
              Tries(pc'[v], call'[v]) /\ call'[v].op = other
      BY <1>2, <1>3, <2>2, WaitersAreComing, ComingAre
    <3>3. \A v \in Tasks : pc'[v] # "place"
      BY <1>3, <2>2, NobodyAtPlace
    <3>4. 1 \in Nat
      OBVIOUS
    <3>5. \/ ~Held(other)'
          \/ /\ Held(other)
             /\ \E woken \in SUBSET Tasks :
                   /\ woken \cap Coming(other) = {} /\ Cardinality(woken) = 1
                   /\ Coming(other) \cup woken \subseteq Coming(other)'
      BY <1>2, <3>1, <3>2, <3>3, <3>4, WokenCome
    <3>6. CASE ~Held(other)'
      BY <3>6 DEF WakeOf, Held
    <3>7. CASE Held(other)'
      <4>1. PICK woken \in SUBSET Tasks :
                /\ woken \cap Coming(other) = {} /\ Cardinality(woken) = 1
                /\ Coming(other) \cup woken \subseteq Coming(other)'
        BY <3>5, <3>7
      <4>2. Counted(LockOf(other))' = Counted(LockOf(other))
        BY <3>1 DEF Counted
      <4>3. (Goods(other) + 1) + Counted(LockOf(other))
               <= Goods(other) + Cardinality(woken) + Counted(LockOf(other))
        BY <1>2, <1>7, <4>1
      <4> QED
        BY <1>2, <1>7, <2>1, <3>7, <4>1, <4>2, <4>3, WakeOfGain
    <3> QED
      BY <3>6, <3>7
  <2>3. CASE LockOf(other) # queueUNLOCKED
    <3> DEFINE n == LockOf(other)
               none == {}
    <3>1. n \in Nat /\ Counted(n) = n /\ LockOf(other)' = n + 1
      BY <1>1, <1>2, <1>7, <2>3 DEF other, Counted
    <3>2. Counted(LockOf(other))' = n + 1 /\ n + 1 \in Nat
      BY <3>1 DEF Counted, queueUNLOCKED
    <3>3. none \in SUBSET Tasks /\ Cardinality(none) = 0
      BY FS_EmptySet
    <3>4. (Goods(other) + 1) + Counted(LockOf(other))
             <= Goods(other) + Cardinality(none) + (n + 1)
      BY <1>2, <1>7, <3>1, <3>3
    <3> QED
      BY <1>2, <1>7, <2>1, <3>2, <3>3, <3>4, WakeOfGain
  <2> QED
    BY <2>2, <2>3
<1> QED
  BY <1>2, <1>8, <1>9 DEF WakeInv

\* prvUnlockQueue wakes as many waiters as handlers have counted.
LEMMA WakesOfUnlocks ==
    ASSUME RingInv, RingInv', KernelTypeOK, KernelTypeOK', CallTypes, CallTypes',
           CallsInv, ListInv, WakeInv, NEW t \in Tasks, UnlockTx(t) \/ UnlockRx(t)
    PROVE  WakeInv'
<1>1. PICK op \in Operations, p \in {"unlock_rx", "resume"} :
          /\ LockOf(op) \in Nat /\ RemoveFromEventList(ListOf(op), LockOf(op))
          /\ LockOf(op)' = queueUNLOCKED /\ LockOf(OtherOp(op))' = LockOf(OtherOp(op))
          /\ suspender = t /\ pc[t] \in {"unlock_tx", "unlock_rx"} /\ StaysIn(t, p)
          /\ pc[t] = "unlock_rx" => op = "send"
          /\ pc[t] = "unlock_tx" => p = "unlock_rx"
          /\ uxMessagesWaiting' = uxMessagesWaiting
  <2>1. CASE UnlockTx(t)
    <3>1. /\ pc[t] = "unlock_tx" /\ suspender = t /\ cTxLock \in Nat /\ StaysIn(t, "unlock_rx")
      BY <2>1, UnlockTxMoves
    <3>2. /\ RemoveFromEventList("xTasksWaitingToReceive", cTxLock)
          /\ cTxLock' = queueUNLOCKED /\ cRxLock' = cRxLock
          /\ uxMessagesWaiting' = uxMessagesWaiting
      BY <2>1 DEF UnlockTx, ringVars
    <3>3. "receive" \in Operations
      BY DEF Operations
    <3> QED
      BY <3>1, <3>2, <3>3 DEF OtherOp, LockOf, ListOf
  <2>2. CASE UnlockRx(t)
    <3>1. /\ pc[t] = "unlock_rx" /\ suspender = t /\ cRxLock \in Nat /\ StaysIn(t, "resume")
      BY <2>2, UnlockRxMoves
    <3>2. /\ RemoveFromEventList("xTasksWaitingToSend", cRxLock)
          /\ cRxLock' = queueUNLOCKED /\ cTxLock' = cTxLock
          /\ uxMessagesWaiting' = uxMessagesWaiting
      BY <2>2 DEF UnlockRx, ringVars
    <3>3. "send" \in Operations
      BY DEF Operations
    <3> QED
      BY <3>1, <3>2, <3>3 DEF OtherOp, LockOf, ListOf
  <2> QED
    BY <2>1, <2>2
<1> DEFINE other == OtherOp(op)
           n     == LockOf(op)
<1>2. /\ other \in Operations /\ other # op /\ \A o \in Operations : o = op \/ o = other
  BY DEF Operations, OtherOp
<1>3. /\ pc'[t] = p /\ call' = call
      /\ \A u \in Tasks : u # t => pc'[u] = pc[u]
      /\ Moves(t, p, call[t], clock[t])
  BY <1>1 DEF StaysIn, Moves, CallTypes
<1>4. \A u \in Tasks : u # t => pc[u] \notin SuspendedPc
  BY <1>1 DEF CallsInv, SuspendOf
<1>5. \A o : Goods(o)' = Goods(o)
  BY <1>1 DEF Goods
<1>6. ListsAreTyped /\ ListsAreDistinct /\ ListOf(op) \in EventLists
  BY TwoEventLists, DistinctLists DEF ListOf, KernelTypeOK, ListsAreTyped, ListInv
<1>7. WakeOf(other)'
  <2>1. \A l \in EventLists : Members(eventList'[l]) \subseteq Members(eventList[l])
    <3>1. \E woken : Wakes(ListOf(op), woken)
      BY <1>1, <1>6, RemovalWakes
    <3> QED
      BY <3>1 DEF Wakes
  <2>2. Tries(pc[t], call[t]) /\ call[t].op = other => Tries(p, call[t]) /\ call[t].op = other
    BY <1>1 DEF Tries
  <2>3. Coming(other) \subseteq Coming(other)' /\ (Held(other)' => Held(other))
    BY <1>1, <1>3, <2>1, <2>2, StillComing
  <2>4. Counted(LockOf(other))' = Counted(LockOf(other)) /\ WakeOf(other)
    BY <1>1, <1>2 DEF Counted, WakeInv
  <2> QED
    BY <1>5, <2>3, <2>4, WakeOfKeep
<1>8. WakeOf(op)'
  <2>1. \A v \in Tasks : pc'[v] # "place"
    BY <1>1, <1>3, <1>4 DEF SuspendedPc, LockedPc
  <2>2. ASSUME NEW v \in Members(eventList[ListOf(op)]) \cup Coming(op)
        PROVE  Tries(pc'[v], call'[v]) /\ call'[v].op = op
    <3>1. CASE v \in Coming(op)
      <4>1. v \in Tasks /\ Tries(pc[v], call[v]) /\ call[v].op = op
        BY <3>1, ComingAre
      <4> QED
        BY <1>1, <1>3, <4>1 DEF Tries
    <3>2. CASE v \in Members(eventList[ListOf(op)])
      <4>1. /\ v \in Tasks /\ call[v].op = op
            /\ pc[v] = "try" \/ (Leaving(v) /\ call[v].then = "try")
        BY <3>2, WaitersTry
      <4>2. CASE v = t
        BY <1>1, <1>3, <4>1, <4>2 DEF Tries
      <4>3. CASE v # t
        BY <1>3, <1>4, <4>1, <4>3 DEF Tries, Leaving, SuspendedPc, LockedPc
      <4> QED
        BY <4>2, <4>3
    <3> QED
      BY <2>2, <3>1, <3>2
  <2>3. \/ ~Held(op)'
        \/ /\ Held(op)
           /\ \E woken \in SUBSET Tasks :
                 /\ woken \cap Coming(op) = {} /\ Cardinality(woken) = n
                 /\ Coming(op) \cup woken \subseteq Coming(op)'
    BY <1>1, <2>1, <2>2, WokenCome
  <2>4. CASE ~Held(op)'
    BY <2>4 DEF WakeOf, Held
  <2>5. CASE Held(op)'
    <3>1. PICK woken \in SUBSET Tasks :
              /\ woken \cap Coming(op) = {} /\ Cardinality(woken) = n
              /\ Coming(op) \cup woken \subseteq Coming(op)'
      BY <2>3, <2>5
    <3>2. /\ Counted(LockOf(op)) = n /\ Goods(op) \in Nat /\ 0 \in Nat
          /\ WakeOf(op) /\ Held(op)
      BY <1>1, <2>3, <2>5, GoodsAreNat DEF Counted, queueUNLOCKED, WakeInv
    <3>3. Counted(LockOf(op))' = 0
      BY <1>1 DEF Counted
    <3>4. Goods(op) + Counted(LockOf(op)) <= Goods(op) + Cardinality(woken) + 0
      BY <1>1, <3>1, <3>2
    <3> QED
      BY <1>5, <3>1, <3>2, <3>3, <3>4, WakeOfGain
  <2> QED
    BY <2>4, <2>5
<1> QED
  BY <1>2, <1>7, <1>8 DEF WakeInv

\* xTaskResumeAll and aborts: no list grows, no call that is coming turns back.
LEMMA WakesOfResumes ==
    ASSUME RingInv, RingInv', KernelTypeOK, KernelTypeOK', CallTypes, CallTypes',
           CallsInv, ListInv, WakeInv, NEW t \in Tasks,
           Resume(t) \/ AbortStateItem(t) \/ AbortEventItem(t)
    PROVE  WakeInv'
<1> SUFFICES ASSUME NEW op \in Operations PROVE WakeOf(op)'
  BY DEF WakeInv
<1>1. UNCHANGED <<uxMessagesWaiting, cTxLock, cRxLock>>
  BY DEF Resume, AbortStateItem, AbortEventItem, queueVars, ringVars, lockVars
<1>2. Goods(op)' = Goods(op) /\ Counted(LockOf(op))' = Counted(LockOf(op)) /\ WakeOf(op)
  BY <1>1 DEF Goods, Counted, LockOf, WakeInv
<1>3. \A l \in EventLists : Members(eventList'[l]) \subseteq Members(eventList[l])
  <2>1. CASE AbortEventItem(t)
    <3>1. call[t].target \in Tasks /\ ListsAreDistinct
      BY <2>1, AbortEventMoves, DistinctLists DEF KernelTypeOK, ListsAreTyped, ListInv
    <3>2. /\ AbortEvent(call[t].target)
          /\ UNCHANGED <<xItemValue, timeVars, suspender, uxPendedTicks>>
      BY <2>1 DEF AbortEventItem
    <3>3. \A l \in EventLists : Members(eventList'[l]) = Members(eventList[l]) \ {call[t].target}
      BY <3>1, <3>2, AbortEventRemoves
    <3> QED
      BY <3>3
  <2>2. CASE Resume(t) \/ AbortStateItem(t)
    BY <2>2 DEF Resume, AbortStateItem
  <2> QED
    BY <2>1, <2>2
<1>4. ASSUME NEW p, NEW c, NEW k, Moves(t, p, c, k),
             Tries(pc[t], call[t]) /\ call[t].op = op => Tries(p, c) /\ c.op = op,
             p # "place"
      PROVE  WakeOf(op)'
  <2>1. Coming(op) \subseteq Coming(op)' /\ (Held(op)' => Held(op))
    BY <1>3, <1>4, StillComing
  <2> QED
    BY <1>2, <2>1, WakeOfKeep
<1>5. CASE Resume(t)
  <2> DEFINE d == [call[t] EXCEPT !.then = "try"]
  <2>1. /\ pc[t] = "resume"
        /\ IF call[t].then = "app" THEN Moves(t, "app", NoCall, 0)
           ELSE call[t].then \in {"try", "recheck"} /\ Moves(t, call[t].then, d, clock[t])
    BY <1>5, ResumeCallMoves
  <2>2. d.op = call[t].op
    BY OwnCall DEF Calls
  <2> HIDE DEF d
  <2>3. CASE call[t].then = "app"
    BY <1>4, <2>1, <2>3 DEF Tries
  <2>4. CASE call[t].then \in {"try", "recheck"}
    <3> DEFINE p == call[t].then
    <3>1. /\ Moves(t, p, d, clock[t]) /\ p # "place"
          /\ Tries(pc[t], call[t]) => Tries(p, d)
      BY <2>1, <2>4 DEF Tries
    <3> HIDE DEF p
    <3> QED
      BY <1>4, <2>2, <3>1
  <2> QED
    BY <2>1, <2>3, <2>4
<1>6. CASE AbortStateItem(t) \/ AbortEventItem(t)
  <2>1. PICK p \in {"abort_event", "resume"} :
            /\ StaysIn(t, p) /\ pc[t] \in {"abort_state", "abort_event"}
    BY <1>6, AbortStateMoves, AbortEventMoves
  <2> QED
    BY <1>4, <2>1 DEF StaysIn, Tries
<1> QED
  BY <1>5, <1>6

\* The task that was about to wait waits.
LEMMA WakesOfPlace ==
    ASSUME RingInv, RingInv', KernelTypeOK, KernelTypeOK', CallTypes, CallTypes',
           CallsInv, ListInv, WakeInv, NEW t \in Tasks, PlaceOnEventList(t)
    PROVE  WakeInv'
<1> SUFFICES ASSUME NEW op \in Operations PROVE WakeOf(op)'
  BY DEF WakeInv
<1>1. PlaceMoves(t, EventList(t), call[t].ticks)
  BY ListsOfPlace
<1>2. UNCHANGED <<uxMessagesWaiting, cTxLock, cRxLock>>
  BY DEF PlaceOnEventList, queueVars, ringVars, lockVars
<1>3. Goods(op)' = Goods(op) /\ Counted(LockOf(op))' = Counted(LockOf(op)) /\ WakeOf(op)
  BY <1>2 DEF Goods, Counted, LockOf, WakeInv
<1>4. /\ pc[t] = "place" /\ Moves(t, "unlock_tx", call[t], clock[t])
      /\ CallFits("place", call[t], clock[t])
  BY PlaceCallMoves, OwnCall DEF StaysIn
<1>5. /\ pc'[t] = "unlock_tx" /\ call' = call
      /\ \A u \in Tasks : u # t => pc'[u] = pc[u]
  BY <1>4 DEF Moves, CallTypes
<1>6. \A k \in EventLists : Members(eventList'[k]) =
          IF k = EventList(t) THEN Members(eventList[k]) \cup {t} ELSE Members(eventList[k])
  BY <1>1 DEF PlaceMoves
<1>7. ListsAreTyped /\ ListsAreTyped' /\ ListOf(op) \in EventLists
  BY TwoEventLists DEF KernelTypeOK, ListsAreTyped, ListOf
<1>8. Coming(op) \subseteq Coming(op)'
  <2>1. ASSUME NEW u \in Coming(op) PROVE u \in Coming(op)'
    <3>1. u \in Tasks /\ ~Waiting(u) /\ Tries(pc[u], call[u]) /\ call[u].op = op
      BY ComingAre
    <3>2. u # t
      BY <1>4, <3>1 DEF Tries
    <3>3. ~Waiting(u)'
      BY <1>6, <1>7, <3>1, <3>2, PlacesAreMembers, NextPlacesAreMembers
    <3> QED
      BY <1>5, <3>1, <3>2, <3>3, ComingAre
  <2> QED
    BY <2>1
<1>9. Held(op)' => Held(op)
  <2> SUFFICES ASSUME Held(op)' PROVE Held(op)
    OBVIOUS
  <2>1. CASE call[t].op = op
    BY <1>4, <2>1 DEF Held
  <2>2. CASE call[t].op # op
    <3>1. call[t].op \in Operations
      BY <1>4 DEF CallFits, Operations
    <3>2. ListOf(op) # EventList(t)
      BY <2>2, <3>1 DEF EventList, ListOf, Receiving, Operations
    <3>3. Members(eventList[ListOf(op)]) = {} => Members(eventList'[ListOf(op)]) = {}
      BY <1>6, <1>7, <3>2
    <3>4. eventList'[ListOf(op)] \in Seq(Tasks) /\ eventList[ListOf(op)] \in Seq(Tasks)
      BY <1>7 DEF ListsAreTyped
    <3>5. eventList'[ListOf(op)] # <<>> => eventList[ListOf(op)] # <<>>
      BY <3>3, <3>4, MembersProperties
    <3> QED
      BY <1>5, <3>5 DEF Held
  <2> QED
    BY <2>1, <2>2
<1> QED
  BY <1>3, <1>8, <1>9, WakeOfKeep

\* A tick takes tasks out of the lists.
LEMMA WakesOfTick ==
    ASSUME RingInv, RingInv', KernelTypeOK, KernelTypeOK', CallTypes, CallTypes',
           CallsInv, ListInv, TimeInv, WakeInv, Tick \/ PendedTick
    PROVE  WakeInv'
<1> SUFFICES ASSUME NEW op \in Operations PROVE WakeOf(op)'
  BY DEF WakeInv
<1>1. UNCHANGED <<uxMessagesWaiting, cTxLock, cRxLock, pc, call>>
  BY DEF Tick, PendedTick, queueVars, ringVars, lockVars
<1>2. Goods(op)' = Goods(op) /\ Counted(LockOf(op))' = Counted(LockOf(op)) /\ WakeOf(op)
  BY <1>1 DEF Goods, Counted, LockOf, WakeInv
<1>3. \A l \in EventLists : Members(eventList'[l]) \subseteq Members(eventList[l])
  <2>1. CASE UNCHANGED listVars
    BY <2>1 DEF listVars
  <2>2. ASSUME NEW due, TickMoves(due)
        PROVE  \A l \in EventLists : Members(eventList'[l]) \subseteq Members(eventList[l])
    BY <2>2 DEF TickMoves
  <2> QED
    BY <2>1, <2>2, ListsOfTick
<1>4. ListsAreTyped /\ ListsAreTyped' /\ ListOf(op) \in EventLists
  BY TwoEventLists DEF KernelTypeOK, ListsAreTyped, ListOf
<1>5. Coming(op) \subseteq Coming(op)'
  <2>1. \A u \in Tasks : Waiting(u)' => Waiting(u)
    BY <1>3, <1>4, PlacesAreMembers, NextPlacesAreMembers
  <2> QED
    BY <1>1, <2>1, ComingAre
<1>6. Held(op)' => Held(op)
  <2>1. eventList'[ListOf(op)] \in Seq(Tasks) /\ eventList[ListOf(op)] \in Seq(Tasks)
    BY <1>4 DEF ListsAreTyped
  <2>2. Members(eventList[ListOf(op)]) = {} => Members(eventList'[ListOf(op)]) = {}
    BY <1>3, <1>4
  <2>3. eventList'[ListOf(op)] # <<>> => eventList[ListOf(op)] # <<>>
    BY <2>1, <2>2, MembersProperties
  <2> QED
    BY <1>1, <2>3 DEF Held
<1> QED
  BY <1>2, <1>5, <1>6, WakeOfKeep

\* No step leaves a message or a room to a waiter nobody is coming for.
LEMMA WakeStep ==
    ASSUME RingInv, RingInv', KernelTypeOK, KernelTypeOK', CallTypes, CallTypes',
           CallsInv, ListInv, TimeInv, WakeInv, Next
    PROVE  WakeInv'
BY WakesOfQuietCalls, WakesOfTransfers, WakesOfUnlocks, WakesOfResumes, WakesOfPlace,
   WakesOfHandlers, WakesOfTick DEF Next, QueueStep
-------------------------------------------------------------------------------
(***************************************************************************)
(* The theorems.  TypeOK is in three parts in the inductive invariant,     *)
(* which the steps keep one by one.                                        *)
(***************************************************************************)

IInv == /\ RingInv /\ KernelTypeOK /\ CallTypes
        /\ CallsInv /\ ListInv /\ TimeInv /\ AbortInv /\ WakeInv

LEMMA InvariantShowsTypes ==
    ASSUME IInv
    PROVE  TypeOK
<1>1. /\ pcReadFrom \in Slots /\ uxMessagesWaiting \in 0 .. uxLength
      /\ pcWriteTo = Slot(pcReadFrom, IF NoRoom THEN 1 ELSE uxMessagesWaiting + 1)
  BY DEF IInv, RingInv
<1> DEFINE i == IF NoRoom THEN 1 ELSE uxMessagesWaiting + 1
<1>2. i \in 1 .. uxLength
  BY <1>1, Bounds DEF NoRoom
<1> HIDE DEF i
<1>3. Slot(pcReadFrom, i) \in Slots
  BY <1>1, <1>2, SlotIsSlot
<1>4. pcWriteTo \in Slots
  BY <1>1, <1>3 DEF i
<1> QED
  BY <1>4 DEF IInv, RingInv, CallTypes, TypeOK

LEMMA InvariantAtInit ==
    ASSUME Init
    PROVE  IInv
<1>1. RingInv
  BY InitRing
<1>2. /\ 0 \in Ticks /\ portMAX_DELAY \in Ticks /\ 0 \in 0 .. MaxElapsed /\ 0 + 0 <= MaxElapsed
      /\ queueUNLOCKED \in queueUNLOCKED .. MaxLock
  BY Bounds DEF queueUNLOCKED
<1>3. KernelTypeOK
  BY <1>2 DEF Init, KernelInit, KernelTypeOK, StateLists
<1>4. CallTypes
  BY <1>2, NoCallIsCall DEF Init, CallTypes, Pc
<1>5. ASSUME NEW t \in Tasks
      PROVE  /\ pc[t] = "app" /\ call[t] = NoCall /\ clock[t] = 0 /\ aborted[t] = "no"
             /\ xStateListItem[t] = "ready" /\ ~ucDelayAborted[t] /\ t # NoTask
             /\ ~Waiting(t) /\ ~Pending(t)
  BY KernelAssumption DEF Init, KernelInit, Waiting, Pending
<1>6. ~NoCall.set /\ NoCall.wait = 0 /\ NoCall.ticks = 0 /\ NoCall.op = "none"
      /\ NoCall.then = "try"
  BY DEF NoCall
<1>7. CallsInv
  <2> SUFFICES ASSUME NEW t \in Tasks PROVE SuspendOf(t) /\ CallOf(t)
    BY DEF CallsInv
  <2>1. SuspendOf(t)
    BY <1>5 DEF SuspendOf, SuspendedPc, LockedPc, Init, KernelInit
  <2>2. CallFits("app", NoCall, 0)
    BY <1>6, Bounds DEF CallFits
  <2>3. uxPendedTicks = 0
    BY DEF Init, KernelInit
  <2> QED
    BY <1>2, <1>5, <2>1, <2>2, <2>3 DEF CallOf
<1>8. ListInv
  <2>1. EventListsInv
    BY DEF Init, KernelInit, EventListsInv, Distinct, Members
  <2>2. \A t \in Tasks : BlockedOf(t)
    BY <1>5 DEF BlockedOf
  <2> QED
    BY <2>1, <2>2 DEF ListInv
<1>9. TimeInv
  BY <1>5, <1>6 DEF TimeInv, TimeOf, RecordFits, WakeFits, Counts
<1>10. AbortInv
  BY <1>5 DEF AbortInv, AbortOf, Leaving
<1>11. WakeInv
  <2> SUFFICES ASSUME NEW op \in Operations PROVE WakeOf(op)
    BY DEF WakeInv
  <2>1. eventList[ListOf(op)] = <<>>
    <3>1. ListOf(op) \in EventLists
      BY TwoEventLists DEF ListOf
    <3> QED
      BY <3>1 DEF Init, KernelInit
  <2> QED
    BY <1>5, <2>1 DEF WakeOf
<1> QED
  BY <1>1, <1>3, <1>4, <1>7, <1>8, <1>9, <1>10, <1>11 DEF IInv

LEMMA InvariantSteps ==
    ASSUME IInv, [Next]_vars
    PROVE  IInv'
<1>1. CASE Next
  <2>1. RingInv'
    BY <1>1, StepsOfTheRing, RingStepKeepsRing DEF IInv
  <2>2. KernelTypeOK' /\ ListInv'
    BY <1>1, ListsStep DEF IInv
  <2>3. CallTypes' /\ CallsInv'
    BY <1>1, CallsStep DEF IInv
  <2>4. TimeInv'
    BY <1>1, <2>3, TimeStep DEF IInv
  <2>5. AbortInv'
    BY <1>1, <2>3, AbortStep DEF IInv
  <2>6. WakeInv'
    BY <1>1, <2>1, <2>2, <2>3, WakeStep DEF IInv
  <2> QED
    BY <2>1, <2>2, <2>3, <2>4, <2>5, <2>6 DEF IInv
<1>2. CASE UNCHANGED vars
  <2>1. /\ UNCHANGED listVars /\ UNCHANGED timeVars
        /\ UNCHANGED <<suspender, uxPendedTicks, ucDelayAborted>>
        /\ UNCHANGED ringVars /\ UNCHANGED lockVars /\ UNCHANGED callVars
    BY <1>2 DEF vars, kernelVars, queueVars
  <2>2. RingInv'
    BY <2>1 DEF IInv, RingInv, ringVars, NoRoom
  <2>3. KernelTypeOK' /\ CallTypes'
    BY <2>1 DEF IInv, KernelTypeOK, CallTypes, listVars, timeVars, lockVars, callVars
  <2>4. CallsInv'
    BY <2>1 DEF IInv, CallsInv, SuspendOf, CallOf, lockVars, callVars
  <2>5. ListInv'
    BY <2>1 DEF IInv, ListInv, EventListsInv, BlockedOf, Waiting, Pending, Leaving, EventList,
                Receiving, listVars, callVars
  <2>6. TimeInv'
    BY <2>1 DEF IInv, TimeInv, TimeOf, RecordFits, WakeFits, listVars, timeVars, callVars
  <2>7. AbortInv'
    BY <2>1 DEF IInv, AbortInv, AbortOf, Leaving, callVars
  <2>8. WakeInv'
    <3> SUFFICES ASSUME NEW op \in Operations PROVE WakeOf(op)'
      BY DEF WakeInv
    <3>1. Coming(op)' = Coming(op)
      BY <2>1 DEF Coming, WillTry, Waiting, listVars, callVars
    <3>2. Goods(op)' = Goods(op) /\ Counted(LockOf(op))' = Counted(LockOf(op))
      BY <2>1 DEF Goods, LockOf, Counted, ringVars, lockVars
    <3>3. Held(op)' => Held(op)
      BY <2>1 DEF Held, listVars, callVars
    <3>4. WakeOf(op)
      BY DEF IInv, WakeInv
    <3> QED
      BY <2>2, <2>3, <3>1, <3>2, <3>3, <3>4, WakeOfKeep DEF IInv
  <2> QED
    BY <2>2, <2>3, <2>4, <2>5, <2>6, <2>7, <2>8 DEF IInv
<1> QED
  BY <1>1, <1>2

\* The invariant holds whatever calls, handlers, aborts and ticks come in which order.
THEOREM WaitInvariant == Spec => []IInv
<1>1. Init => IInv
  BY InvariantAtInit
<1>2. IInv /\ [Next]_vars => IInv'
  BY InvariantSteps
<1> QED
  BY <1>1, <1>2, PTL DEF Spec

\* Every variable keeps its type, whatever calls, handlers and ticks do.
THEOREM QueueTypeCorrectness == Spec => []TypeOK
<1>1. IInv => TypeOK
  BY InvariantShowsTypes
<1> QED
  BY <1>1, WaitInvariant, PTL

\* The two items of a task.
LEMMA OnePlace ==
    ASSUME KernelTypeOK, ListInv, NEW t \in Tasks
    PROVE  /\ Cardinality(Places(t)) <= 1
           /\ Places(t) = {} <=> ~Waiting(t) /\ ~Pending(t)
<1>1. ListsAreTyped /\ ListsAreDistinct
  BY DistinctLists DEF KernelTypeOK, ListsAreTyped, ListInv
<1>2. "pending" \notin EventLists
  BY QueueAssumption
<1>3. \A x : x \in Places(t) <=>
         \/ \E l \in EventLists : \E i \in DOMAIN eventList[l] :
               eventList[l][i] = t /\ x = <<l, i>>
         \/ \E i \in DOMAIN xPendingReadyList : xPendingReadyList[i] = t /\ x = <<"pending", i>>
  BY DEF Places
<1>4. Places(t) = {} <=> ~Waiting(t) /\ ~Pending(t)
  BY <1>3 DEF Waiting, Pending
<1>5. ASSUME NEW x \in Places(t), NEW y \in Places(t) PROVE x = y
  <2>1. ASSUME NEW l \in EventLists, NEW i \in DOMAIN eventList[l], eventList[l][i] = t
        PROVE  t \in Members(eventList[l])
    BY <2>1 DEF Members
  <2>2. ASSUME NEW i \in DOMAIN xPendingReadyList, xPendingReadyList[i] = t
        PROVE  t \in Members(xPendingReadyList)
    BY <2>2 DEF Members
  <2>3. CASE \E i \in DOMAIN xPendingReadyList :
                xPendingReadyList[i] = t /\ x = <<"pending", i>>
    <3>1. PICK i \in DOMAIN xPendingReadyList : xPendingReadyList[i] = t /\ x = <<"pending", i>>
      BY <2>3
    <3>2. \A l \in EventLists : t \notin Members(eventList[l])
      BY <1>1, <2>2, <3>1 DEF ListsAreDistinct
    <3>3. PICK j \in DOMAIN xPendingReadyList : xPendingReadyList[j] = t /\ y = <<"pending", j>>
      BY <1>3, <2>1, <3>2
    <3>4. i = j
      BY <1>1, <3>1, <3>3 DEF ListsAreDistinct, Distinct
    <3> QED
      BY <3>1, <3>3, <3>4
  <2>4. CASE \E l \in EventLists : \E i \in DOMAIN eventList[l] :
                eventList[l][i] = t /\ x = <<l, i>>
    <3>1. PICK l \in EventLists : \E i \in DOMAIN eventList[l] :
                  eventList[l][i] = t /\ x = <<l, i>>
      BY <2>4
    <3>2. PICK i \in DOMAIN eventList[l] : eventList[l][i] = t /\ x = <<l, i>>
      BY <3>1
    <3>3. t \in Members(eventList[l]) /\ t \notin Members(xPendingReadyList)
      BY <1>1, <2>1, <3>2 DEF ListsAreDistinct
    <3>4. PICK k \in EventLists : \E j \in DOMAIN eventList[k] :
                  eventList[k][j] = t /\ y = <<k, j>>
      BY <1>3, <2>2, <3>3
    <3>5. PICK j \in DOMAIN eventList[k] : eventList[k][j] = t /\ y = <<k, j>>
      BY <3>4
    <3>6. k = l
      BY <1>1, <2>1, <3>3, <3>5 DEF ListsAreDistinct
    <3>7. i = j
      BY <1>1, <3>2, <3>5, <3>6 DEF ListsAreDistinct, Distinct
    <3> QED
      BY <3>2, <3>5, <3>6, <3>7
  <2> QED
    BY <1>3, <2>3, <2>4
<1> DEFINE P == Places(t)
<1> HIDE DEF P
<1>6. Cardinality(P) <= 1
  <2>1. CASE P = {}
    <3>1. Cardinality(P) = 0
      BY <2>1, FS_EmptySet
    <3> QED
      BY <3>1
  <2>2. CASE P # {}
    <3>1. PICK x : x \in P
      BY <2>2
    <3>2. P = {x}
      BY <1>5, <3>1 DEF P
    <3>3. Cardinality(P) = 1
      BY <3>2, FS_Singleton
    <3> QED
      BY <3>3
  <2> QED
    BY <2>1, <2>2
<1> QED
  BY <1>4, <1>6 DEF P

\* Timeouts, aborts, handlers and xTaskResumeAll take the two items of a task out
\* together, and no task waits twice.
THEOREM EachTaskWaitsOnce == Spec => []BlockedTasksWaitOnce
<1>1. IInv => BlockedTasksWaitOnce
  <2> SUFFICES ASSUME IInv PROVE BlockedTasksWaitOnce
    OBVIOUS
  <2>1. KernelTypeOK /\ ListInv
    BY DEF IInv
  <2>2. xPendingReadyList # <<>> => suspender # NoTask
    BY <2>1 DEF ListInv, EventListsInv
  <2>3. ASSUME NEW t \in Tasks
        PROVE  /\ Cardinality(Places(t)) <= 1
               /\ xStateListItem[t] = "ready" => Places(t) = {}
               /\ xStateListItem[t] # "none" /\ Places(t) = {} => xStateListItem[t] = "ready"
               /\ \A l \in EventLists : \A i \in DOMAIN eventList[l] :
                     eventList[l][i] = t => l = EventList(t)
               /\ xStateListItem[t] = "none" =>
                     \E u \in Tasks : pc[u] = "abort_event" /\ call[u].target = t
    <3>1. BlockedOf(t)
      BY <2>1 DEF ListInv
    <3>2. /\ Cardinality(Places(t)) <= 1
          /\ Places(t) = {} <=> ~Waiting(t) /\ ~Pending(t)
      BY <2>1, OnePlace
    <3>3. \A l \in EventLists : \A i \in DOMAIN eventList[l] :
             eventList[l][i] = t => l = EventList(t)
      BY <2>1 DEF ListInv, EventListsInv, Members
    <3> QED
      BY <3>1, <3>2, <3>3 DEF BlockedOf
  <2> QED
    BY <2>2, <2>3 DEF BlockedTasksWaitOnce
<1> QED
  BY <1>1, WaitInvariant, PTL

\* No message is left lying while receivers wait, and no room while senders do.
THEOREM WakeupsAreNotLost == Spec => []NoLostWakeup
<1>1. IInv => NoLostWakeup
  <2> SUFFICES ASSUME IInv PROVE NoLostWakeup
    OBVIOUS
  <2>1. \A op \in Operations : WakeOf(op)
    BY DEF IInv, WakeInv
  <2>2. "receive" \in Operations /\ "send" \in Operations
    BY DEF Operations
  <2>3. ASSUME NEW op \in Operations, LockOf(op) = queueUNLOCKED, eventList[ListOf(op)] # <<>>
        PROVE  Goods(op) <= Cardinality(Coming(op))
    <3>1. Goods(op) <= Cardinality(Coming(op)) + Counted(LockOf(op))
      BY <2>1, <2>3 DEF WakeOf
    <3>2. Counted(LockOf(op)) = 0
      BY <2>3 DEF Counted
    <3>3. Cardinality(Coming(op)) \in Nat
      BY ComingIsFinite
    <3> QED
      BY <3>1, <3>2, <3>3
  <2>4. cTxLock = queueUNLOCKED /\ eventList["xTasksWaitingToReceive"] # <<>>
           => uxMessagesWaiting <= Cardinality(Coming("receive"))
    BY <2>2, <2>3 DEF LockOf, ListOf, Goods
  <2>5. cRxLock = queueUNLOCKED /\ eventList["xTasksWaitingToSend"] # <<>>
           => uxLength - uxMessagesWaiting <= Cardinality(Coming("send"))
    BY <2>2, <2>3 DEF LockOf, ListOf, Goods
  <2> QED
    BY <2>4, <2>5 DEF NoLostWakeup
<1> QED
  BY <1>1, WaitInvariant, PTL

\* No wait is longer than its caller allowed, across the tick count's wrapping,
\* pended ticks and the cached next unblock time.
THEOREM WaitsEndOnTime == Spec => []WakesOnTime
<1>1. IInv => WakesOnTime
  <2> SUFFICES ASSUME IInv, NEW t \in Tasks, xStateListItem[t] \in {"delayed", "overflow"}
               PROVE  clock[t] < call[t].wait
    BY DEF WakesOnTime
  <2> DEFINE k    == clock[t]
             w    == call[t].wait
             wake == xItemValue[t]
             M    == TickModulus
  <2>1. /\ xStateListItem[t] = "delayed" => xTickCount < wake /\ k + (wake - xTickCount) = w
        /\ xStateListItem[t] = "overflow" => k + (wake + M - xTickCount) = w
    BY DEF IInv, TimeInv, TimeOf, WakeFits
  <2>2. /\ k \in Nat /\ w \in Nat /\ wake \in Nat
        /\ xTickCount \in 0 .. portMAX_DELAY /\ portMAX_DELAY \in Nat /\ M = portMAX_DELAY + 1
    <3>1. KernelTypeOK /\ CallTypes /\ CallsInv
      BY DEF IInv
    <3> QED
      BY <3>1, OwnCall, CallFields, Bounds DEF KernelTypeOK
  <2> HIDE DEF k, w, wake, M
  <2>3. ASSUME xStateListItem[t] = "delayed" PROVE k < w
    BY <2>1, <2>2, <2>3
  <2>4. ASSUME xStateListItem[t] = "overflow" PROVE k < w
    BY <2>1, <2>2, <2>4
  <2>5. k < w
    BY <2>3, <2>4
  <2> QED
    BY <2>5 DEF k, w
<1> QED
  BY <1>1, WaitInvariant, PTL

\* The steps at which a call gives up.
LEMMA EarlyReturns ==
    ASSUME IInv, Next, NEW t \in Tasks, GivesUp(t)
    PROVE  clock[t] >= call[t].wait \/ aborted[t] # "no"
<1> USE DEF IInv
<1>1. ASSUME NEW u \in Tasks, NEW p, NEW c, NEW k, Moves(u, p, c, k)
      PROVE  u = t /\ p = "app"
  <2>1. /\ pc'[u] = p
        /\ \A v \in Tasks : v # u => call'[v] = call[v]
    BY <1>1 DEF Moves, CallTypes
  <2> QED
    BY <2>1 DEF GivesUp
<1>2. ASSUME NEW u \in Tasks, NEW p, StaysIn(u, p) PROVE u = t /\ p = "app"
  BY <1>1, <1>2 DEF StaysIn
<1>3. ASSUME NEW u \in Tasks, Call(u) \/ Abort(u) \/ EnterWait(u) PROVE FALSE
  <2>1. \E p \in {"try", "abort_state", "suspend"} : \E c, k : Moves(u, p, c, k)
    <3>1. CASE Call(u)
      BY <3>1, CallMoves
    <3>2. CASE Abort(u)
      BY <3>2, AbortMoves
    <3>3. CASE EnterWait(u)
      BY <3>3, EnterWaitMoves
    <3> QED
      BY <1>3, <3>1, <3>2, <3>3
  <2> QED
    BY <1>1, <2>1
<1>4. ASSUME NEW u \in Tasks, SuspendAll(u) \/ prvLockQueue(u) \/ PlaceOnEventList(u)
                              \/ UnlockTx(u) \/ UnlockRx(u) \/ AbortEventItem(u)
      PROVE  FALSE
  BY <1>2, <1>4, SuspendAllMoves, LockMoves, PlaceCallMoves, UnlockTxMoves, UnlockRxMoves,
     AbortEventMoves
<1>5. ASSUME NEW u \in Tasks, CheckForTimeOut(u) \/ LookAgain(u) \/ AbortStateItem(u)
      PROVE  FALSE
  <2>1. \A p \in {"unlock_tx", "full", "place", "abort_event", "resume"} : p # "app"
    OBVIOUS
  <2>2. CASE CheckForTimeOut(u)
    BY <1>1, <2>1, <2>2, CheckMoves
  <2>3. CASE LookAgain(u)
    BY <1>2, <2>1, <2>3, LookAgainMoves
  <2>4. CASE AbortStateItem(u)
    BY <1>2, <2>1, <2>4, AbortStateMoves
  <2> QED
    BY <1>5, <2>2, <2>3, <2>4
<1>6. ASSUME NEW u \in Tasks, Send(u) \/ Receive(u) PROVE FALSE
  BY <1>6 DEF Send, Receive, prvCopyDataToQueue, prvCopyDataFromQueue, GivesUp
<1>7. CASE IsrSend \/ IsrReceive \/ Tick \/ PendedTick
  BY <1>7 DEF IsrSend, IsrReceive, Tick, PendedTick, callVars, GivesUp
<1>8. ASSUME NEW u \in Tasks, GiveUp(u)
      PROVE  clock[t] >= call[t].wait
  <2>1. u = t
    BY <1>1, <1>8, TryMoves
  <2> QED
    BY <1>8, <2>1, NothingLeft DEF GiveUp
<1>9. ASSUME GivingUp(pc[t], call[t])
      PROVE  clock[t] >= call[t].wait \/ aborted[t] # "no"
  BY <1>9, AbortIsAbortFits DEF AbortFits
<1>10. ASSUME NEW u \in Tasks, Resume(u)
       PROVE  clock[t] >= call[t].wait \/ aborted[t] # "no"
  <2>1. /\ pc[u] = "resume"
        /\ IF call[u].then = "app" THEN Moves(u, "app", NoCall, 0)
           ELSE \E p \in {"try", "recheck"} : \E c, k : Moves(u, p, c, k)
    BY <1>10, ResumeCallMoves
  <2>2. u = t /\ call[u].then = "app"
    BY <1>1, <2>1
  <2>3. GivingUp(pc[t], call[t])
    BY <2>1, <2>2 DEF GivingUp, GivesUp, Sending, Receiving
  <2> QED
    BY <1>9, <2>3
<1>11. ASSUME NEW u \in Tasks, Recheck(u)
       PROVE  clock[t] >= call[t].wait \/ aborted[t] # "no"
  <2>1. pc[u] = "recheck" /\ \E p, c, k : Moves(u, p, c, k)
    BY <1>11, RecheckMoves DEF StaysIn
  <2>2. u = t
    BY <1>1, <2>1
  <2> QED
    BY <1>9, <2>1, <2>2 DEF GivingUp
<1> QED
  BY <1>3, <1>4, <1>5, <1>6, <1>7, <1>8, <1>10, <1>11 DEF Next, QueueStep

\* A call gives up only when its time is over, or after an abort that no call
\* since has answered for.
THEOREM EarlyReturnsAreAborts == Spec => EarlyReturnNeedsAbort
<1> DEFINE Early == \A t \in Tasks :
                       GivesUp(t) => clock[t] >= call[t].wait \/ aborted[t] # "no"
<1>1. IInv /\ [Next]_vars => [Early]_vars
  BY EarlyReturns
<1>2. Spec => [][Early]_vars
  <2> HIDE DEF Early
  <2> QED
    BY <1>1, WaitInvariant, PTL DEF Spec
<1> QED
  BY <1>2 DEF EarlyReturnNeedsAbort
===============================================================================
