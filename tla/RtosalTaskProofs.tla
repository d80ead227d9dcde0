---------------------------- MODULE RtosalTaskProofs ---------------------------
(***************************************************************************)
(* Proofs about RtosScheduler, RtosalMutex and RtosalTask, for every set   *)
(* of tasks and semaphores, every priority and every order of the calls,   *)
(* ticks and interrupts.                                                   *)
(*                                                                         *)
(* The first part proves of each function of the kernel that it keeps the  *)
(* lists in order (KernelOK, Good) and which tasks it moves.  The second   *)
(* proves of each step of RtosalMutex that it keeps MutexInv when there is *)
(* at most one mutex, and that the switch it needs follows (SwitchKept).   *)
(* The third proves of each step of RtosalTask that it keeps TaskInv when  *)
(* there are no mutexes: each task is in the list of tasks that its state  *)
(* asks for, the highest ready task runs, and a suspended one stays so.    *)
(***************************************************************************)
EXTENDS RtosalTaskRelations, RtosLemmas

\* uxListRemove of a state item takes the task out of every list of tasks and nothing else.
LEMMA RemoveStateItemFields ==
    ASSUME NEW k \in KernelType, NEW t \in Tasks
    PROVE  LET j == RemoveStateItem(k, t)
           IN  /\ j \in KernelType /\ Steady(k, j) /\ SameEvents(k, j)
               /\ j.ready = [p \in Priorities |-> Without(k.ready[p], t)]
               /\ j.delayed = Without(k.delayed, t)
               /\ j.suspended = k.suspended \ {t}
               /\ j.uxTopReadyPriority = k.uxTopReadyPriority
               /\ j.uxPendedTicks = k.uxPendedTicks /\ j.xYieldPending = k.xYieldPending
<1>1. [p \in Priorities |-> Without(k.ready[p], t)] \in [Priorities -> Seq(Tasks \cup {xListEnd})]
  <2>1. ASSUME NEW p \in Priorities PROVE Without(k.ready[p], t) \in Seq(Tasks \cup {xListEnd})
    <3>1. k.ready[p] \in Seq(Tasks \cup {xListEnd})
      BY DEF KernelType
    <3> QED
      BY <3>1, DropProperties DEF Without
  <2> QED
    BY <2>1
<1>2. Without(k.delayed, t) \in Seq(Tasks)
  BY DropProperties DEF Without, KernelType
<1>3. RemoveStateItem(k, t) = [k EXCEPT !.ready = [p \in Priorities |-> Without(k.ready[p], t)],
              !.delayed = Without(k.delayed, t), !.suspended = k.suspended \ {t}]
  BY DEF RemoveStateItem, KernelType
<1> QED
  BY ZenonT(40), <1>1, <1>2, <1>3 DEF KernelType, Steady, SameEvents
-------------------------------------------------------------------------------
\* Rings.

\* vListInsertEnd puts one item into a ring and keeps the others.
LEMMA RingInsertProperties ==
    ASSUME NEW U, NEW r \in Seq(U), r # <<>>, NEW t \in U
    PROVE  /\ RingInsert(r, t) \in Seq(U)
           /\ Members(RingInsert(r, t)) = Members(r) \cup {t}
           /\ Distinct(r) /\ t \notin Members(r) => Distinct(RingInsert(r, t))
<1>1. PICK n \in 0 .. Len(r) : Len(r) = n + 1 /\ Len(r) - 1 = n
  <2>1. Len(r) - 1 \in 0 .. Len(r) /\ Len(r) = (Len(r) - 1) + 1
    OBVIOUS
  <2> QED
    BY <2>1
<1>2. RingInsert(r, t) = PutIn(r, n, t)
  BY <1>1, Zenon DEF RingInsert, InsertAt, PutIn
<1> QED
  BY <1>2, InsertProperties

\* The index moves to a task, if there is one.
LEMMA RingNextProperties ==
    ASSUME NEW U, NEW r \in Seq(U), Distinct(r), xListEnd \in Members(r),
           Members(r) # {xListEnd}
    PROVE  /\ RingNext(r) \in Seq(U) /\ Distinct(RingNext(r))
           /\ Members(RingNext(r)) = Members(r)
           /\ Last(RingNext(r)) \in Members(r) \ {xListEnd}
BY TurnPast DEF RingNext

\* portGET_HIGHEST_PRIORITY returns a bit that is set, and no higher one is.
LEMMA HighestBit ==
    ASSUME NEW S \in SUBSET Priorities, S # {}
    PROVE  Max(S) \in S /\ \A p \in S : p <= Max(S)
<1>1. \E x \in S : \A y \in S : x >= y
  <2>1. \A x \in S : x \in {0, 1, 2}
    BY DEF Priorities, configMAX_PRIORITIES
  <2>2. CASE 2 \in S
    BY <2>1, <2>2
  <2>3. CASE 2 \notin S /\ 1 \in S
    BY <2>1, <2>3
  <2>4. CASE 2 \notin S /\ 1 \notin S
    BY <2>1, <2>4
  <2> QED
    BY <2>2, <2>3, <2>4
<1>2. Max(S) \in S /\ \A y \in S : Max(S) >= y
  BY <1>1 DEF Max
<1>3. \A p \in S : p \in Int
  BY DEF Priorities, configMAX_PRIORITIES
<1> QED
  BY <1>2, <1>3
-------------------------------------------------------------------------------
\* State items.

\* A ring has the ready tasks of its priority.
LEMMA RingFacts ==
    ASSUME NEW k \in KernelType, NEW p \in Priorities, RingOK(k, p)
    PROVE  /\ k.ready[p] \in Seq(Tasks \cup {xListEnd}) /\ k.ready[p] # <<>>
           /\ Members(k.ready[p]) = ReadyAt(k, p) \cup {xListEnd}
           /\ ReadyAt(k, p) \subseteq Tasks /\ xListEnd \notin Tasks
           /\ xListEnd \notin ReadyAt(k, p)
           /\ \A t \in Tasks : t \in ReadyAt(k, p) <=> Ready(k, t) /\ k.uxPriority[t] = p
<1>1. k.ready[p] \in Seq(Tasks \cup {xListEnd})
  BY DEF KernelType
<1>2. Members(k.ready[p]) \subseteq Tasks \cup {xListEnd} /\ k.ready[p] # <<>>
  BY <1>1, MembersProperties DEF RingOK
<1> QED
  BY <1>1, <1>2, SchedulerAssumption DEF RingOK, ReadyAt, Ready

\* prvAddTaskToReadyList changes one ready list and the top priority.
LEMMA AddFields ==
    ASSUME NEW k \in KernelType, NEW t \in Tasks, k.ready[k.uxPriority[t]] # <<>>
    PROVE  LET j == prvAddTaskToReadyList(k, t)
               p == k.uxPriority[t]
           IN  /\ j \in KernelType /\ Quiet(k, j) /\ SameEvents(k, j)
               /\ j.delayed = k.delayed /\ j.suspended = k.suspended
               /\ j.uxTopReadyPriority = k.uxTopReadyPriority \cup {p}
               /\ j.ready = [k.ready EXCEPT ![p] = RingInsert(k.ready[p], t)]
               /\ j.ucDelayAborted = k.ucDelayAborted
<1> DEFINE p == k.uxPriority[t]
<1>1. p \in Priorities
  BY DEF KernelType
<1>2. k.ready \in [Priorities -> Seq(Tasks \cup {xListEnd})]
  BY DEF KernelType
<1>3. RingInsert(k.ready[p], t) \in Seq(Tasks \cup {xListEnd})
  BY <1>1, <1>2, RingInsertProperties
<1>4. [k.ready EXCEPT ![p] = RingInsert(k.ready[p], t)]
        \in [Priorities -> Seq(Tasks \cup {xListEnd})]
  BY <1>1, <1>2, <1>3
<1>5. prvAddTaskToReadyList(k, t) =
        [k EXCEPT !.uxTopReadyPriority = k.uxTopReadyPriority \cup {p},
                  !.ready = [k.ready EXCEPT ![p] = RingInsert(k.ready[p], t)]]
  BY DEF prvAddTaskToReadyList, KernelType
<1>6. k.uxTopReadyPriority \cup {p} \in SUBSET Priorities
  BY <1>1 DEF KernelType
<1> HIDE DEF p
<1> QED
  BY <1>4, <1>5, <1>6 DEF KernelType, Steady, SameEvents, Quiet, p

\* A task is made ready, wherever its state item was.
LEMMA MakeReadyOK ==
    ASSUME NEW k, KernelOK(k), NEW t \in Tasks
    PROVE  LET j == MakeReady(k, t)
           IN  /\ KernelOK(j) /\ Quiet(k, j) /\ SameEvents(k, j)
               /\ StateSets(j, ReadyTasks(k) \cup {t}, Members(k.delayed) \ {t}, k.suspended \ {t})
<1> DEFINE i == RemoveStateItem(k, t)
           j == MakeReady(k, t)
           p == k.uxPriority[t]
<1>1. k \in KernelType /\ StateItemsOK(k) /\ EventItemsOK(k) /\ p \in Priorities
  BY DEF KernelOK, KernelType
<1>2. /\ i \in KernelType /\ Quiet(k, i) /\ SameEvents(k, i)
      /\ i.ready = [q \in Priorities |-> Without(k.ready[q], t)]
      /\ i.delayed = Without(k.delayed, t)
      /\ i.suspended = k.suspended \ {t}
      /\ i.uxTopReadyPriority = k.uxTopReadyPriority
  BY <1>1, RemoveStateItemFields DEF Quiet
<1>3. ASSUME NEW q \in Priorities
      PROVE  /\ i.ready[q] \in Seq(Tasks \cup {xListEnd}) /\ Distinct(i.ready[q])
             /\ Members(i.ready[q]) = (ReadyAt(k, q) \ {t}) \cup {xListEnd}
             /\ i.ready[q] # <<>>
  <2>1. /\ k.ready[q] \in Seq(Tasks \cup {xListEnd}) /\ Distinct(k.ready[q])
        /\ Members(k.ready[q]) = ReadyAt(k, q) \cup {xListEnd} /\ t # xListEnd
    BY <1>1, RingFacts DEF StateItemsOK, RingOK
  <2>2. i.ready[q] = Drop(k.ready[q], {t})
    BY <1>2 DEF Without
  <2>3. /\ i.ready[q] \in Seq(Tasks \cup {xListEnd}) /\ Distinct(i.ready[q])
        /\ Members(i.ready[q]) = (ReadyAt(k, q) \ {t}) \cup {xListEnd}
    BY <2>1, <2>2, DropProperties
  <2>4. \A r \in Seq(Tasks \cup {xListEnd}) : r = <<>> <=> Members(r) = {}
    BY MembersProperties
  <2> HIDE DEF i
  <2> QED
    BY <2>3, <2>4
<1>4. /\ Members(i.delayed) = Members(k.delayed) \ {t} /\ Distinct(i.delayed)
  <2>1. k.delayed \in Seq(Tasks) /\ Distinct(k.delayed)
    BY <1>1 DEF KernelType, StateItemsOK
  <2> QED
    BY <1>2, <2>1, DropProperties DEF Without
<1>5. i.uxPriority = k.uxPriority
  BY <1>2 DEF Quiet, Steady
<1> HIDE DEF i
<1>6. /\ j \in KernelType /\ Quiet(i, j) /\ SameEvents(i, j)
      /\ j.delayed = i.delayed /\ j.suspended = i.suspended
      /\ j.uxTopReadyPriority = i.uxTopReadyPriority \cup {p}
      /\ j.ready = [i.ready EXCEPT ![p] = RingInsert(i.ready[p], t)]
  <2>1. j = prvAddTaskToReadyList(i, t)
    BY DEF MakeReady, i
  <2>2. i \in KernelType /\ i.uxPriority[t] = p /\ i.ready[i.uxPriority[t]] # <<>>
    BY <1>1, <1>2, <1>3, <1>5
  <2> HIDE DEF j, p
  <2> QED
    BY <2>1, <2>2, AddFields
<1> HIDE DEF j
<1>7. ASSUME NEW q \in Priorities
      PROVE  /\ Distinct(j.ready[q])
             /\ Members(j.ready[q]) = IF q = p THEN ReadyAt(k, q) \cup {t, xListEnd}
                                      ELSE ReadyAt(k, q) \cup {xListEnd}
             /\ ReadyAt(j, q) = IF q = p THEN ReadyAt(k, q) \cup {t} ELSE ReadyAt(k, q)
  <2>1. /\ i.ready[q] \in Seq(Tasks \cup {xListEnd}) /\ Distinct(i.ready[q])
        /\ Members(i.ready[q]) = (ReadyAt(k, q) \ {t}) \cup {xListEnd}
        /\ i.ready[q] # <<>>
    BY <1>3
  <2>2. /\ xListEnd \notin Tasks /\ xListEnd \notin ReadyAt(k, q)
        /\ t \in ReadyAt(k, q) => q = p
    BY <1>1, RingFacts DEF StateItemsOK
  <2>3. i.ready \in [Priorities -> Seq(Tasks \cup {xListEnd})]
    BY <1>2 DEF KernelType
  <2>4. CASE q = p
    <3>1. j.ready[q] = RingInsert(i.ready[q], t)
      BY <1>1, <1>6, <2>3, <2>4
    <3>2. t \in Tasks \cup {xListEnd} /\ t \notin Members(i.ready[q])
      BY <2>1, <2>2
    <3>3. /\ Members(j.ready[q]) = Members(i.ready[q]) \cup {t}
          /\ Distinct(j.ready[q])
      BY <2>1, <3>1, <3>2, RingInsertProperties
    <3> QED
      BY <2>1, <2>2, <2>4, <3>3 DEF ReadyAt
  <2>5. CASE q # p
    <3>1. j.ready[q] = i.ready[q]
      BY <1>1, <1>6, <2>3, <2>5
    <3> QED
      BY <2>1, <2>2, <2>5, <3>1 DEF ReadyAt
  <2> QED
    BY <2>4, <2>5
<1>8. j.uxPriority = k.uxPriority
  BY <1>5, <1>6 DEF Quiet, Steady
<1>9. ASSUME NEW q \in Priorities PROVE RingOK(j, q)
  <2>1. RingOK(k, q)
    BY <1>1 DEF StateItemsOK
  <2> QED
    BY ZenonT(40), <1>2, <1>6, <1>7, <1>8, <2>1 DEF RingOK
<1>10. ReadyTasks(j) = ReadyTasks(k) \cup {t}
  <2>1. \A u \in Tasks : k.uxPriority[u] \in Priorities
    BY <1>1 DEF KernelType
  <2> QED
    BY <1>7, <1>8, <2>1 DEF ReadyTasks, Ready
<1>11. StateItemsOK(j)
  BY <1>1, <1>2, <1>4, <1>6, <1>9, <1>10 DEF StateItemsOK, BlockedTasks
<1>12. EventItemsOK(j) /\ SameEvents(k, j)
  BY <1>1, <1>2, <1>6 DEF SameEvents, EventItemsOK
<1>13. Quiet(k, j)
  BY <1>2, <1>6 DEF Quiet, Steady
<1> QED
  BY <1>2, <1>4, <1>6, <1>10, <1>11, <1>12, <1>13 DEF KernelOK, StateSets, j

\* taskRESET_READY_PRIORITY changes the top priority only.
LEMMA ResetFields ==
    ASSUME NEW k \in KernelType, NEW p \in Priorities
    PROVE  LET j == taskRESET_READY_PRIORITY(k, p)
           IN  /\ j \in KernelType /\ Quiet(k, j) /\ SameEvents(k, j)
               /\ j.ready = k.ready /\ j.delayed = k.delayed /\ j.suspended = k.suspended
               /\ j.ucDelayAborted = k.ucDelayAborted
               /\ j.uxTopReadyPriority = IF k.ready[p] = EmptyRing
                                         THEN k.uxTopReadyPriority \ {p} ELSE k.uxTopReadyPriority
BY DEF taskRESET_READY_PRIORITY, KernelType, Quiet, Steady, SameEvents

\* A state item taken out of its list; i is the record after uxListRemove, j after the
\* ready bit has been reset.
LEMMA TakenOut ==
    ASSUME NEW k, k \in KernelType, StateItemsOK(k), NEW t \in Tasks,
           NEW i \in KernelType, i.uxPriority = k.uxPriority,
           i.ready = [q \in Priorities |-> Without(k.ready[q], t)],
           i.delayed = Without(k.delayed, t),
           i.suspended = k.suspended \ {t},
           i.uxTopReadyPriority = k.uxTopReadyPriority
    PROVE  /\ ~Ready(k, t) =>
                  /\ StateItemsOK(i)
                  /\ StateSets(i, ReadyTasks(k) \ {t}, Members(k.delayed) \ {t}, k.suspended \ {t})
           /\ LET j == taskRESET_READY_PRIORITY(i, k.uxPriority[t])
              IN  /\ j \in KernelType /\ StateItemsOK(j) /\ Quiet(i, j) /\ SameEvents(i, j)
                  /\ StateSets(j, ReadyTasks(k) \ {t}, Members(k.delayed) \ {t}, k.suspended \ {t})
<1> DEFINE p == k.uxPriority[t]
           j == taskRESET_READY_PRIORITY(i, p)
<1>1. p \in Priorities
  BY DEF KernelType
<1>2. ASSUME NEW q \in Priorities
      PROVE  /\ i.ready[q] \in Seq(Tasks \cup {xListEnd}) /\ Distinct(i.ready[q])
             /\ Members(i.ready[q]) = (ReadyAt(k, q) \ {t}) \cup {xListEnd}
             /\ ReadyAt(i, q) = ReadyAt(k, q) \ {t}
             /\ i.ready[q] = EmptyRing <=> ReadyAt(k, q) \ {t} = {}
  <2>1. /\ k.ready[q] \in Seq(Tasks \cup {xListEnd}) /\ Distinct(k.ready[q])
        /\ Members(k.ready[q]) = ReadyAt(k, q) \cup {xListEnd} /\ t # xListEnd
        /\ xListEnd \notin ReadyAt(k, q)
    BY RingFacts DEF StateItemsOK, RingOK
  <2>2. i.ready[q] = Drop(k.ready[q], {t})
    BY DEF Without
  <2>3. /\ i.ready[q] \in Seq(Tasks \cup {xListEnd}) /\ Distinct(i.ready[q])
        /\ Members(i.ready[q]) = (ReadyAt(k, q) \ {t}) \cup {xListEnd}
    BY <2>1, <2>2, DropProperties
  <2>4. ReadyAt(i, q) = ReadyAt(k, q) \ {t}
    BY <2>1, <2>3 DEF ReadyAt
  <2>5. i.ready[q] = <<xListEnd>> <=> Members(i.ready[q]) = {xListEnd}
    BY SMTT(30), <2>3, OneItemRing
  <2> QED
    BY <2>1, <2>3, <2>4, <2>5 DEF EmptyRing
<1>3. Members(i.delayed) = Members(k.delayed) \ {t} /\ Distinct(i.delayed)
  <2>1. k.delayed \in Seq(Tasks) /\ Distinct(k.delayed)
    BY DEF KernelType, StateItemsOK
  <2> QED
    BY <2>1, DropProperties DEF Without
<1>4. ReadyTasks(i) = ReadyTasks(k) \ {t}
  <2>1. \A u \in Tasks : k.uxPriority[u] \in Priorities
    BY DEF KernelType
  <2> QED
    BY <1>2, <2>1 DEF ReadyTasks, Ready
<1>5. \A q \in Priorities : t \in ReadyAt(k, q) => q = p /\ Ready(k, t)
  BY RingFacts DEF StateItemsOK
<1>6. /\ j \in KernelType /\ Quiet(i, j) /\ SameEvents(i, j)
      /\ j.ready = i.ready /\ j.delayed = i.delayed /\ j.suspended = i.suspended
      /\ j.uxTopReadyPriority = IF i.ready[p] = EmptyRing
                                THEN i.uxTopReadyPriority \ {p} ELSE i.uxTopReadyPriority
  <2> HIDE DEF p
  <2> QED
    BY <1>1, ResetFields
<1> HIDE DEF j
<1>7. j.uxPriority = k.uxPriority
  BY <1>6 DEF Quiet, Steady
<1>8. ASSUME NEW q \in Priorities
      PROVE  /\ RingOK(j, q) /\ ReadyAt(j, q) = ReadyAt(i, q)
             /\ ~Ready(k, t) => RingOK(i, q)
  <2>1. RingOK(k, q)
    BY DEF StateItemsOK
  <2>2. ReadyAt(j, q) = ReadyAt(i, q)
    BY <1>6 DEF ReadyAt
  <2>3. ASSUME ~Ready(k, t) PROVE ReadyAt(i, q) = ReadyAt(k, q)
    <3>1. t \notin ReadyAt(k, q)
      BY <1>5, <2>3
    <3>2. ReadyAt(i, q) = ReadyAt(k, q) \ {t}
      BY <1>2
    <3> QED
      BY <3>1, <3>2
  <2>4. /\ Distinct(j.ready[q]) /\ xListEnd \in Members(j.ready[q])
        /\ \A u \in ReadyAt(j, q) : j.uxPriority[u] = q
        /\ Distinct(i.ready[q]) /\ xListEnd \in Members(i.ready[q])
        /\ \A u \in ReadyAt(i, q) : i.uxPriority[u] = q
    BY SMTT(30), <1>2, <1>6, <1>7, <2>1, <2>2 DEF RingOK
  <2>5. q \in j.uxTopReadyPriority <=> ReadyAt(j, q) # {}
    BY <1>1, <1>2, <1>5, <1>6, <2>1, <2>2 DEF RingOK
  <2>6. ~Ready(k, t) => (q \in i.uxTopReadyPriority <=> ReadyAt(i, q) # {})
    BY <2>1, <2>3 DEF RingOK
  <2> QED
    BY <2>2, <2>4, <2>5, <2>6 DEF RingOK
<1>9. ReadyTasks(j) = ReadyTasks(i)
  <2>1. \A u \in Tasks : k.uxPriority[u] \in Priorities
    BY DEF KernelType
  <2> QED
    BY <1>7, <1>8, <2>1 DEF ReadyTasks, Ready
<1>10. StateItemsOK(j) /\ (~Ready(k, t) => StateItemsOK(i))
  BY <1>3, <1>4, <1>6, <1>8, <1>9 DEF StateItemsOK, BlockedTasks
<1> QED
  BY <1>3, <1>4, <1>6, <1>9, <1>10 DEF StateSets, j

\* Taking the state item out keeps the lists in order and makes the task unknown to them.
LEMMA TakeOutOK ==
    ASSUME NEW k, KernelOK(k), NEW t \in Tasks
    PROVE  LET i == RemoveStateItem(k, t)
               j == taskRESET_READY_PRIORITY(i, k.uxPriority[t])
           IN  /\ KernelOK(j) /\ Quiet(k, j) /\ SameEvents(k, j)
               /\ StateSets(j, ReadyTasks(k) \ {t}, Members(k.delayed) \ {t}, k.suspended \ {t})
<1> DEFINE i == RemoveStateItem(k, t)
           j == taskRESET_READY_PRIORITY(i, k.uxPriority[t])
<1>1. k \in KernelType /\ StateItemsOK(k) /\ EventItemsOK(k)
  BY DEF KernelOK
<1>2. /\ i \in KernelType /\ Quiet(k, i) /\ SameEvents(k, i) /\ i.uxPriority = k.uxPriority
      /\ i.ready = [q \in Priorities |-> Without(k.ready[q], t)]
      /\ i.delayed = Without(k.delayed, t)
      /\ i.suspended = k.suspended \ {t}
      /\ i.uxTopReadyPriority = k.uxTopReadyPriority
  BY <1>1, RemoveStateItemFields DEF Quiet, Steady
<1> HIDE DEF i
<1>3. /\ j \in KernelType /\ StateItemsOK(j) /\ Quiet(i, j) /\ SameEvents(i, j)
      /\ StateSets(j, ReadyTasks(k) \ {t}, Members(k.delayed) \ {t}, k.suspended \ {t})
  BY <1>1, <1>2, TakenOut
<1> HIDE DEF j
<1>4. Quiet(k, j) /\ SameEvents(k, j) /\ EventItemsOK(j)
  BY <1>1, <1>2, <1>3 DEF Quiet, Steady, SameEvents, EventItemsOK
<1> QED
  BY <1>3, <1>4 DEF KernelOK, i, j
-------------------------------------------------------------------------------
\* Event items.

\* Taking the event item out keeps the lists in order and makes the task wait for nothing.
LEMMA RemoveEventItemOK ==
    ASSUME NEW k, KernelOK(k), NEW t \in Tasks
    PROVE  LET j == RemoveEventItem(k, t)
           IN  /\ KernelOK(j) /\ Quiet(k, j) /\ EventSets(k, j, {t})
               /\ StateSets(j, ReadyTasks(k), Members(k.delayed), k.suspended)
               /\ SameStates(k, j)
<1> DEFINE event == [l \in EventLists |-> Without(k.event[l], t)]
           pending == Without(k.pendingReady, t)
           j == [k EXCEPT !.event = event, !.pendingReady = pending]
<1>1. k \in KernelType /\ StateItemsOK(k) /\ EventItemsOK(k)
  BY DEF KernelOK
<1>2. RemoveEventItem(k, t) = j
  BY <1>1 DEF RemoveEventItem, KernelType
<1>3. ASSUME NEW l \in EventLists
      PROVE  /\ event[l] \in Seq(Tasks) /\ Distinct(event[l])
             /\ Members(event[l]) = Members(k.event[l]) \ {t}
  <2>1. k.event[l] \in Seq(Tasks) /\ Distinct(k.event[l])
    BY <1>1 DEF KernelType, EventItemsOK
  <2> QED
    BY <2>1, DropProperties DEF Without
<1>4. pending \in Seq(Tasks) /\ Distinct(pending) /\ Members(pending) = Members(k.pendingReady) \ {t}
  <2>1. k.pendingReady \in Seq(Tasks) /\ Distinct(k.pendingReady)
    BY <1>1 DEF KernelType, EventItemsOK
  <2> QED
    BY <2>1, DropProperties DEF Without
<1>5. event \in [EventLists -> Seq(Tasks)]
  BY <1>3
<1> HIDE DEF event, pending
<1>6. /\ j \in KernelType /\ j.event = event /\ j.pendingReady = pending
      /\ Quiet(k, j) /\ SameStates(k, j)
  BY <1>1, <1>4, <1>5 DEF KernelType, Quiet, Steady, SameStates
<1> HIDE DEF j
<1>7. EventItemsOK(j) /\ EventSets(k, j, {t})
  <2>1. ASSUME NEW l \in EventLists, NEW f, SortedBy(k.event[l], f)
        PROVE  SortedBy(j.event[l], f)
    <3>1. k.event[l] \in Seq(Tasks) /\ j.event[l] = Drop(k.event[l], {t})
      BY <1>1, <1>6 DEF KernelType, Without, event
    <3> QED
      BY <2>1, <3>1, DropSorted
  <2>2. KeepsOrder(k, j)
    BY <2>1 DEF KeepsOrder
  <2> QED
    BY ZenonT(40), <1>1, <1>3, <1>4, <1>6, <2>2 DEF EventItemsOK, EventSets
<1>8. StateSets(j, ReadyTasks(k), Members(k.delayed), k.suspended)
  BY <1>6 DEF StateSets, SameStates, ReadyTasks, Ready, ReadyAt, Quiet, Steady
<1>9. StateItemsOK(j)
  BY <1>1, <1>6, <1>8 DEF StateItemsOK, RingOK, SameStates, StateSets, BlockedTasks, ReadyAt, Quiet, Steady
<1> QED
  BY <1>2, <1>6, <1>7, <1>8, <1>9 DEF KernelOK
-------------------------------------------------------------------------------
\* A task put into a list of tasks.

\* vListInsert into an event list adds one member and keeps the order of priorities.
LEMMA InsertByPriorityProperties ==
    ASSUME NEW k, NEW s \in Seq(Tasks), NEW t \in Tasks
    PROVE  /\ InsertByPriority(k, s, t) \in Seq(Tasks)
           /\ Members(InsertByPriority(k, s, t)) = Members(s) \cup {t}
           /\ Distinct(s) /\ t \notin Members(s) => Distinct(InsertByPriority(k, s, t))
<1> DEFINE I == {n \in 1 .. Len(s) : k.eventPriority[s[n]] < k.eventPriority[t]}
           i == IF I # {} THEN Min(I) ELSE 0
<1>1. InsertByPriority(k, s, t) = PutBefore(s, i, t)
  BY DEF InsertByPriority, PutBefore, SelectInSeq
<1>2. Len(s) \in Nat /\ I \in SUBSET (1 .. Len(s))
  OBVIOUS
<1>3. i \in 0 .. Len(s)
  <2> HIDE DEF I
  <2> QED
    BY <1>2, FirstIndex
<1> HIDE DEF i
<1> QED
  BY <1>1, <1>3, PutBeforeProperties

\* vListInsert into the delayed list adds one member and keeps the order of wake times.
LEMMA InsertByWakeProperties ==
    ASSUME NEW k, k.delayed \in Seq(Tasks), NEW t \in Tasks
    PROVE  /\ InsertByWake(k, t) \in Seq(Tasks)
           /\ Members(InsertByWake(k, t)) = Members(k.delayed) \cup {t}
           /\ Distinct(k.delayed) /\ t \notin Members(k.delayed) => Distinct(InsertByWake(k, t))
<1> DEFINE I == {n \in 1 .. Len(k.delayed) : k.wake[k.delayed[n]] > k.wake[t]}
           i == IF I # {} THEN Min(I) ELSE 0
<1>1. InsertByWake(k, t) = PutBefore(k.delayed, i, t)
  BY DEF InsertByWake, PutBefore, SelectInSeq
<1>2. Len(k.delayed) \in Nat /\ I \in SUBSET (1 .. Len(k.delayed))
  OBVIOUS
<1>3. i \in 0 .. Len(k.delayed)
  <2> HIDE DEF I
  <2> QED
    BY <1>2, FirstIndex
<1> HIDE DEF i
<1> QED
  BY <1>1, <1>3, PutBeforeProperties

\* Fields that no invariant is about.
LEMMA OtherFields ==
    ASSUME NEW k, KernelOK(k), NEW j, j \in KernelType, SameStates(k, j), SameEvents(k, j),
           j.uxPriority = k.uxPriority
    PROVE  /\ KernelOK(j) /\ ReadyTasks(j) = ReadyTasks(k) /\ BlockedTasks(j) = BlockedTasks(k)
           /\ \A p : ReadyAt(j, p) = ReadyAt(k, p)
           /\ \A t : Ready(j, t) <=> Ready(k, t)
<1>1. /\ \A p : ReadyAt(j, p) = ReadyAt(k, p)
      /\ \A t : Ready(j, t) <=> Ready(k, t)
  BY DEF SameStates, ReadyAt, Ready
<1>2. ReadyTasks(j) = ReadyTasks(k) /\ BlockedTasks(j) = BlockedTasks(k)
  BY <1>1 DEF ReadyTasks, BlockedTasks, SameStates
<1>3. StateItemsOK(j)
  BY <1>1, <1>2 DEF KernelOK, StateItemsOK, RingOK, SameStates
<1>4. EventItemsOK(j)
  BY DEF KernelOK, EventItemsOK, SameEvents
<1> QED
  BY <1>1, <1>2, <1>3, <1>4 DEF KernelOK

\* The running task is put into the delayed list or, to wait without a time-out, into the
\* list of suspended tasks.
LEMMA DelayOK ==
    ASSUME NEW k, KernelOK(k), NEW ticks \in Int
    PROVE  LET j == prvAddCurrentTaskToDelayedList(k, ticks)
               t == k.pxCurrentTCB
           IN  /\ KernelOK(j) /\ Quiet(k, j) /\ SameEvents(k, j)
               /\ ReadyTasks(j) = ReadyTasks(k) \ {t}
               /\ BlockedTasks(j) = BlockedTasks(k) \cup {t}
               /\ j.suspended \ {t} = k.suspended \ {t}
               /\ Members(j.delayed) \ {t} = Members(k.delayed) \ {t}
<1> DEFINE t == k.pxCurrentTCB
           i == taskRESET_READY_PRIORITY(RemoveStateItem(k, t), k.uxPriority[t])
           h == [i EXCEPT !.ucDelayAborted[t] = FALSE]
           w == [h EXCEPT !.wake[t] = ticks]
           s == [h EXCEPT !.suspended = h.suspended \cup {t}]
           list == InsertByWake(w, t)
           d == [w EXCEPT !.delayed = list]
           j == prvAddCurrentTaskToDelayedList(k, ticks)
<1>1. k \in KernelType /\ t \in Tasks
  BY DEF KernelOK, KernelType
<1>2. /\ KernelOK(i) /\ Quiet(k, i) /\ SameEvents(k, i)
      /\ StateSets(i, ReadyTasks(k) \ {t}, Members(k.delayed) \ {t}, k.suspended \ {t})
  <2> HIDE DEF t
  <2> QED
    BY <1>1, TakeOutOK
<1>3. j = IF ticks = Forever THEN s ELSE d
  <2>1. i \in KernelType
    BY <1>2 DEF KernelOK
  <2> HIDE DEF i
  <2>2. s = [h EXCEPT !.suspended = @ \cup {t}] /\ d = [w EXCEPT !.delayed = list]
    BY <2>1 DEF KernelType
  <2> QED
    BY <2>2 DEF prvAddCurrentTaskToDelayedList, i
<1> HIDE DEF i, t
<1>4. i \in KernelType /\ StateItemsOK(i) /\ EventItemsOK(i)
  BY <1>2 DEF KernelOK
<1>5. h \in KernelType /\ Quiet(i, h) /\ SameEvents(i, h) /\ SameStates(i, h)
  BY <1>1, <1>4 DEF KernelType, Quiet, Steady, SameEvents, SameStates
<1>6. w \in KernelType /\ Quiet(i, w) /\ SameEvents(i, w) /\ SameStates(i, w)
  BY <1>1, <1>4 DEF KernelType, Quiet, Steady, SameEvents, SameStates
<1> HIDE DEF h, w
<1>7. KernelOK(h) /\ ReadyTasks(h) = ReadyTasks(i) /\ \A p : ReadyAt(h, p) = ReadyAt(i, p)
  BY <1>2, <1>5, OtherFields DEF Quiet, Steady
<1>8. KernelOK(w) /\ ReadyTasks(w) = ReadyTasks(i) /\ \A p : ReadyAt(w, p) = ReadyAt(i, p)
  BY <1>2, <1>6, OtherFields DEF Quiet, Steady
<1>9. CASE ticks = Forever
  <2>1. /\ s \in KernelType /\ Quiet(h, s) /\ SameEvents(h, s) /\ s.ready = h.ready
        /\ s.uxTopReadyPriority = h.uxTopReadyPriority /\ s.delayed = h.delayed
        /\ s.suspended = h.suspended \cup {t}
    BY <1>1, <1>5 DEF KernelType, Quiet, Steady, SameEvents
  <2> HIDE DEF s
  <2>2. (\A p : ReadyAt(s, p) = ReadyAt(h, p)) /\ ReadyTasks(s) = ReadyTasks(h)
    BY <2>1 DEF ReadyAt, Ready, ReadyTasks, Quiet, Steady
  <2>3. StateItemsOK(s)
    <3>1. \A p \in Priorities : RingOK(s, p)
      BY <1>7, <2>1, <2>2 DEF KernelOK, StateItemsOK, RingOK, Quiet, Steady
    <3>2. /\ Distinct(s.delayed)
          /\ ReadyTasks(h) \cap BlockedTasks(h) = {} /\ Members(h.delayed) \cap h.suspended = {}
      BY <1>7, <2>1 DEF KernelOK, StateItemsOK
    <3>3. t \notin ReadyTasks(h) /\ t \notin Members(h.delayed)
      BY <1>2, <1>5, <1>7 DEF StateSets, SameStates
    <3> QED
      BY <2>1, <2>2, <3>1, <3>2, <3>3 DEF StateItemsOK, BlockedTasks
  <2>4. EventItemsOK(s)
    BY <1>7, <2>1 DEF KernelOK, EventItemsOK, SameEvents
  <2>5. KernelOK(s) /\ Quiet(k, s) /\ SameEvents(k, s)
    BY <1>2, <1>5, <2>1, <2>3, <2>4 DEF KernelOK, Quiet, Steady, SameEvents
  <2>6. /\ ReadyTasks(s) = ReadyTasks(k) \ {t}
        /\ Members(s.delayed) = Members(k.delayed) \ {t}
        /\ s.suspended = k.suspended \cup {t}
    BY <1>2, <1>5, <1>7, <2>1, <2>2 DEF StateSets, SameStates
  <2> QED
    BY <1>3, <1>9, <2>5, <2>6 DEF BlockedTasks, t
<1>10. CASE ticks # Forever
  <2>1. /\ list \in Seq(Tasks) /\ Members(list) = Members(w.delayed) \cup {t}
        /\ Distinct(w.delayed) /\ t \notin Members(w.delayed) => Distinct(list)
    <3>1. w.delayed \in Seq(Tasks)
      BY <1>6 DEF KernelType
    <3> QED
      BY <1>1, <3>1, InsertByWakeProperties
  <2> HIDE DEF list
  <2>2. /\ d \in KernelType /\ Quiet(w, d) /\ SameEvents(w, d) /\ d.ready = w.ready
        /\ d.uxTopReadyPriority = w.uxTopReadyPriority /\ d.delayed = list
        /\ d.suspended = w.suspended
    BY <1>6, <2>1 DEF KernelType, Quiet, Steady, SameEvents
  <2> HIDE DEF d
  <2>3. (\A p : ReadyAt(d, p) = ReadyAt(w, p)) /\ ReadyTasks(d) = ReadyTasks(w)
    BY <2>2 DEF ReadyAt, Ready, ReadyTasks, Quiet, Steady
  <2>4. /\ Members(w.delayed) = Members(k.delayed) \ {t} /\ w.suspended = k.suspended \ {t}
        /\ ReadyTasks(w) = ReadyTasks(k) \ {t}
    BY <1>2, <1>6, <1>8 DEF StateSets, SameStates
  <2>5. StateItemsOK(d)
    <3>1. \A p \in Priorities : RingOK(d, p)
      BY <1>8, <2>2, <2>3 DEF KernelOK, StateItemsOK, RingOK, Quiet, Steady
    <3>2. /\ Distinct(w.delayed)
          /\ ReadyTasks(w) \cap BlockedTasks(w) = {} /\ Members(w.delayed) \cap w.suspended = {}
      BY <1>8 DEF KernelOK, StateItemsOK
    <3> QED
      BY <2>1, <2>2, <2>3, <2>4, <3>1, <3>2 DEF StateItemsOK, BlockedTasks
  <2>6. EventItemsOK(d)
    BY <1>8, <2>2 DEF KernelOK, EventItemsOK, SameEvents
  <2>7. KernelOK(d) /\ Quiet(k, d) /\ SameEvents(k, d)
    BY <1>2, <1>6, <2>2, <2>5, <2>6 DEF KernelOK, Quiet, Steady, SameEvents
  <2>8. /\ ReadyTasks(d) = ReadyTasks(k) \ {t}
        /\ Members(d.delayed) = (Members(k.delayed) \ {t}) \cup {t}
        /\ d.suspended = k.suspended \ {t}
    BY <2>1, <2>2, <2>3, <2>4
  <2> QED
    BY <1>3, <1>10, <2>7, <2>8 DEF BlockedTasks, t
<1> QED
  BY <1>9, <1>10

\* vTaskPlaceOnEventList blocks the running task on the object and disturbs no other.
LEMMA PlaceOK ==
    ASSUME NEW k, KernelOK(k), WaitersAreBlocked(k), Ready(k, k.pxCurrentTCB),
           NEW o \in EventLists, NEW ticks \in Int
    PROVE  Blocks(k, vTaskPlaceOnEventList(k, o, ticks), k.pxCurrentTCB, o)
<1> DEFINE t == k.pxCurrentTCB
           list == InsertByPriority(k, k.event[o], t)
           event == [k.event EXCEPT ![o] = list]
           i == [k EXCEPT !.event = event]
           j == vTaskPlaceOnEventList(k, o, ticks)
<1>1. k \in KernelType /\ t \in Tasks /\ StateItemsOK(k) /\ EventItemsOK(k)
  BY DEF KernelOK, KernelType
<1>2. t \notin BlockedTasks(k)
  BY <1>1 DEF StateItemsOK, ReadyTasks
<1>3. t \notin Members(k.pendingReady) /\ \A l \in EventLists : t \notin Members(k.event[l])
  BY <1>2 DEF WaitersAreBlocked
<1>4. j = prvAddCurrentTaskToDelayedList(i, ticks)
  <2>1. i = [k EXCEPT !.event[o] = InsertByPriority(k, @, k.pxCurrentTCB)]
    BY <1>1 DEF KernelType
  <2> QED
    BY <2>1 DEF vTaskPlaceOnEventList
<1>5. list \in Seq(Tasks) /\ Members(list) = Members(k.event[o]) \cup {t} /\ Distinct(list)
  <2>1. k.event[o] \in Seq(Tasks) /\ Distinct(k.event[o])
    BY <1>1 DEF KernelType, EventItemsOK
  <2>2. t \notin Members(k.event[o])
    BY <1>3
  <2> DEFINE s == k.event[o]
  <2> HIDE DEF t, s
  <2>3. s \in Seq(Tasks) /\ Distinct(s) /\ t \notin Members(s) /\ t \in Tasks
    BY <1>1, <2>1, <2>2 DEF s
  <2>4. /\ InsertByPriority(k, s, t) \in Seq(Tasks)
        /\ Members(InsertByPriority(k, s, t)) = Members(s) \cup {t}
        /\ Distinct(s) /\ t \notin Members(s) => Distinct(InsertByPriority(k, s, t))
    BY <2>3, InsertByPriorityProperties
  <2> QED
    BY <2>3, <2>4 DEF s
<1> HIDE DEF list, t
<1>6. event \in [EventLists -> Seq(Tasks)]
      /\ \A l \in EventLists : event[l] = IF l = o THEN list ELSE k.event[l]
  BY <1>1, <1>5 DEF KernelType
<1> HIDE DEF event
<1>7. /\ i \in KernelType /\ Quiet(k, i) /\ SameStates(k, i) /\ i.pendingReady = k.pendingReady
      /\ i.event = event
  BY <1>1, <1>6 DEF KernelType, Quiet, Steady, SameStates
<1> HIDE DEF i
<1>8. EventItemsOK(i)
  <2>1. \A l \in EventLists : /\ Distinct(k.event[l]) /\ t \notin Members(k.event[l])
                             /\ Members(k.event[l]) \cap Members(k.pendingReady) = {}
    BY <1>1, <1>3 DEF EventItemsOK
  <2>2. \A l \in EventLists : /\ Distinct(i.event[l])
                             /\ Members(i.event[l]) = IF l = o THEN Members(k.event[l]) \cup {t}
                                                      ELSE Members(k.event[l])
    BY <1>5, <1>6, <1>7, <2>1
  <2>3. \A l \in EventLists : Members(i.event[l]) \cap Members(i.pendingReady) = {}
    BY <1>3, <1>7, <2>1, <2>2
  <2>4. ASSUME NEW l \in EventLists, NEW m \in EventLists, l # m
        PROVE  Members(i.event[l]) \cap Members(i.event[m]) = {}
    <3>1. Members(k.event[l]) \cap Members(k.event[m]) = {}
      BY <1>1, <2>4 DEF EventItemsOK
    <3> QED
      BY <2>1, <2>2, <2>4, <3>1
  <2> QED
    BY <1>1, <1>7, <2>2, <2>3, <2>4 DEF EventItemsOK
<1>9. (\A p : ReadyAt(i, p) = ReadyAt(k, p)) /\ ReadyTasks(i) = ReadyTasks(k)
      /\ BlockedTasks(i) = BlockedTasks(k)
  BY <1>7 DEF ReadyAt, Ready, ReadyTasks, BlockedTasks, SameStates, Quiet, Steady
<1>10. StateItemsOK(i)
  BY <1>1, <1>7, <1>9 DEF StateItemsOK, RingOK, SameStates, Quiet, Steady
<1>11. i.pxCurrentTCB = t
  BY <1>7 DEF Quiet, Steady, t
<1>12. /\ KernelOK(j) /\ Quiet(i, j) /\ SameEvents(i, j)
       /\ ReadyTasks(j) = ReadyTasks(i) \ {t}
       /\ BlockedTasks(j) = BlockedTasks(i) \cup {t}
       /\ j.suspended \ {t} = i.suspended \ {t}
       /\ Members(j.delayed) \ {t} = Members(i.delayed) \ {t}
  BY <1>4, <1>7, <1>8, <1>10, <1>11, DelayOK DEF KernelOK
<1> HIDE DEF j
<1>13. WaitersAreBlocked(j)
  BY <1>5, <1>6, <1>7, <1>9, <1>12 DEF WaitersAreBlocked, SameEvents
<1>14. Quiet(k, j)
  BY <1>7, <1>12 DEF Quiet, Steady
<1>15. \A l \in EventLists : Members(j.event[l]) =
          IF l = o THEN Members(k.event[l]) \cup {t} ELSE Members(k.event[l])
  BY <1>5, <1>6, <1>7, <1>12 DEF SameEvents
<1>16. /\ \A l \in EventLists \ {o} : j.event[l] = k.event[l]
       /\ j.event[o] = InsertByPriority(k, k.event[o], t)
  BY <1>6, <1>7, <1>12 DEF SameEvents, list
<1>17. Blocks(k, j, t, o)
  BY <1>7, <1>9, <1>12, <1>13, <1>14, <1>15, <1>16 DEF Blocks, SameStates, SameEvents
<1> QED
  BY <1>17 DEF j, t
-------------------------------------------------------------------------------
(***************************************************************************)
(* What wakes tasks.                                                       *)
(***************************************************************************)

\* What two functions in a row do only awakens tasks if each only awakens tasks.
LEMMA AwakensTransitive ==
    ASSUME NEW k, NEW i, NEW j, Awakens(k, i), Awakens(i, j)
    PROVE  Awakens(k, j)
BY DEF Awakens, Wakes, KeepsOrder

\* The members of the lists of events and of the states decide who waits.
LEMMA WaitersFacts ==
    ASSUME NEW k, k \in KernelType
    PROVE  /\ \A t : t \in Waiters(k) <=> \/ t \in Members(k.pendingReady)
                                          \/ \E l \in EventLists : t \in Members(k.event[l])
           /\ WaitersAreBlocked(k) <=> Waiters(k) \subseteq BlockedTasks(k)
<1>1. Members(k.pendingReady) \subseteq Tasks
  BY MembersProperties DEF KernelType
<1>2. \A l \in EventLists : Members(k.event[l]) \subseteq Tasks
  BY MembersProperties DEF KernelType
<1> QED
  BY <1>1, <1>2 DEF Waiters, Pending, Waiting, WaitersAreBlocked

\* The first waiter of an object is woken.
LEMMA WakeOK ==
    ASSUME NEW k, Good(k), NEW o \in EventLists, k.event[o] # <<>>, NEW X
    PROVE  LET j == xTaskRemoveFromEventList(k, o)
               t == Head(k.event[o])
           IN  /\ Good(j) /\ Steady(k, j) /\ j.uxPendedTicks = k.uxPendedTicks
               /\ Awakens(k, j) /\ t \in Members(k.event[o]) /\ t \in Tasks
               /\ k.uxSchedulerSuspended = 0 =>
                      /\ ReadyTasks(j) = ReadyTasks(k) \cup {t}
                      /\ j.pendingReady = k.pendingReady
               /\ k.uxSchedulerSuspended # 0 =>
                      /\ ReadyTasks(j) = ReadyTasks(k) /\ BlockedTasks(j) = BlockedTasks(k)
                      /\ Members(j.pendingReady) = Members(k.pendingReady) \cup {t}
               /\ \A l \in EventLists :
                      j.event[l] = IF l = o THEN Tail(k.event[o]) ELSE k.event[l]
               /\ Highest(k, X) /\ ~WakesHigher(k, o) => Highest(j, X)
               /\ Covered(k, X) => Covered(j, X)
<1> DEFINE t == Head(k.event[o])
           event == [k.event EXCEPT ![o] = Tail(k.event[o])]
           asks == k.xYieldPending \/ WakesHigher(k, o)
           i == [k EXCEPT !.event = event, !.xYieldPending = asks]
           list == Append(k.pendingReady, t)
           h == [i EXCEPT !.pendingReady = list]
           j == xTaskRemoveFromEventList(k, o)
<1>1. /\ KernelOK(k) /\ k \in KernelType /\ StateItemsOK(k) /\ EventItemsOK(k)
      /\ WaitersAreBlocked(k)
  BY DEF Good, KernelOK
<1>2. /\ Tail(k.event[o]) \in Seq(Tasks) /\ Distinct(Tail(k.event[o]))
      /\ t \in Tasks /\ t \in Members(k.event[o])
      /\ Members(Tail(k.event[o])) = Members(k.event[o]) \ {t}
      /\ \A f : SortedBy(k.event[o], f) => SortedBy(Tail(k.event[o]), f)
  <2> DEFINE s == k.event[o]
  <2>1. s \in Seq(Tasks) /\ Distinct(s) /\ s # <<>>
    BY <1>1 DEF KernelType, EventItemsOK
  <2> HIDE DEF s
  <2>2. /\ Tail(s) \in Seq(Tasks) /\ Distinct(Tail(s)) /\ Head(s) \in Tasks
        /\ Head(s) \in Members(s) /\ Members(Tail(s)) = Members(s) \ {Head(s)}
        /\ \A f : SortedBy(s, f) => SortedBy(Tail(s), f)
    BY <2>1, TailMembers
  <2> QED
    BY <2>2 DEF s
<1>3. j = IF k.uxSchedulerSuspended = 0 THEN MakeReady(i, t) ELSE h
  <2>1. i = [k EXCEPT !.event[o] = Tail(@), !.xYieldPending = @ \/ WakesHigher(k, o)]
    BY <1>1 DEF KernelType
  <2> DEFINE a == [k EXCEPT !.event[o] = Tail(@), !.xYieldPending = @ \/ WakesHigher(k, o)]
  <2>2. j = IF k.uxSchedulerSuspended = 0 THEN MakeReady(a, t)
            ELSE [a EXCEPT !.pendingReady = Append(@, t)]
    BY DEF xTaskRemoveFromEventList
  <2>3. a = i
    BY <2>1
  <2>4. i.pendingReady = k.pendingReady
    BY <1>1 DEF KernelType
  <2> HIDE DEF a, i, j, t
  <2> QED
    BY <2>2, <2>3, <2>4
<1> HIDE DEF t
<1>4. /\ event \in [EventLists -> Seq(Tasks)]
      /\ \A l \in EventLists : /\ Distinct(event[l]) /\ Distinct(k.event[l])
                               /\ Members(event[l]) = IF l = o THEN Members(k.event[l]) \ {t}
                                                      ELSE Members(k.event[l])
                               /\ event[l] = IF l = o THEN Tail(k.event[o]) ELSE k.event[l]
                               /\ \A f : SortedBy(k.event[l], f) => SortedBy(event[l], f)
  <2>1. k.event \in [EventLists -> Seq(Tasks)]
    BY <1>1 DEF KernelType
  <2>2. \A l \in EventLists : Distinct(k.event[l])
    BY <1>1 DEF EventItemsOK
  <2>3. /\ event \in [EventLists -> Seq(Tasks)]
        /\ \A l \in EventLists : event[l] = IF l = o THEN Tail(k.event[o]) ELSE k.event[l]
    BY <1>2, <2>1
  <2> HIDE DEF event
  <2> QED
    BY <1>2, <2>2, <2>3
<1> HIDE DEF event
<1>5. /\ i \in KernelType /\ Steady(k, i) /\ i.uxPendedTicks = k.uxPendedTicks
      /\ SameStates(k, i) /\ i.event = event /\ i.pendingReady = k.pendingReady
      /\ i.xYieldPending = asks
  <2>1. asks \in BOOLEAN
    BY <1>1 DEF KernelType
  <2> HIDE DEF asks
  <2> QED
    BY <1>1, <1>4, <2>1 DEF KernelType, Steady, SameStates
<1>6. EventItemsOK(i)
  BY <1>1, <1>4, <1>5 DEF EventItemsOK
<1>7. /\ StateItemsOK(i) /\ ReadyTasks(i) = ReadyTasks(k) /\ BlockedTasks(i) = BlockedTasks(k)
  <2>1. \A p : ReadyAt(i, p) = ReadyAt(k, p)
    BY <1>5 DEF ReadyAt, SameStates
  <2>2. ReadyTasks(i) = ReadyTasks(k) /\ BlockedTasks(i) = BlockedTasks(k)
    BY <1>5, <2>1 DEF ReadyTasks, Ready, BlockedTasks, SameStates, Steady
  <2> QED
    BY <1>1, <1>5, <2>1, <2>2 DEF StateItemsOK, RingOK, SameStates, Steady
<1>8. /\ t \notin Members(k.pendingReady)
      /\ \A l \in EventLists : t \notin Members(event[l])
      /\ \A l \in EventLists : Members(event[l]) \subseteq Members(k.event[l])
  BY <1>1, <1>2, <1>4 DEF EventItemsOK
<1>9. t \in BlockedTasks(k)
  BY <1>1, <1>2 DEF WaitersAreBlocked
<1> HIDE DEF j
<1>10. CASE k.uxSchedulerSuspended = 0
  <2>1. /\ KernelOK(j) /\ Quiet(i, j) /\ SameEvents(i, j)
        /\ StateSets(j, ReadyTasks(i) \cup {t}, Members(i.delayed) \ {t}, i.suspended \ {t})
    <3>1. KernelOK(i)
      BY <1>5, <1>6, <1>7 DEF KernelOK
    <3> HIDE DEF i
    <3> QED
      BY <1>2, <1>3, <1>10, <3>1, MakeReadyOK
  <2> HIDE DEF i
  <2>2. /\ ReadyTasks(j) = ReadyTasks(k) \cup {t}
        /\ BlockedTasks(j) = BlockedTasks(k) \ {t}
        /\ j.suspended = k.suspended \ {t}
        /\ j.event = event /\ j.pendingReady = k.pendingReady
    BY <1>5, <1>7, <2>1 DEF StateSets, SameEvents, SameStates, BlockedTasks
  <2>3. j \in KernelType
    BY <2>1 DEF KernelOK
  <2>4. WaitersAreBlocked(j)
    BY <1>1, <1>8, <2>2 DEF WaitersAreBlocked
  <2>5. t \in Waiters(k) /\ Waiters(j) \subseteq Waiters(k)
    BY <1>1, <1>2, <1>8, <2>2, <2>3, WaitersFacts
  <2>6. Steady(k, j) /\ j.uxPendedTicks = k.uxPendedTicks /\ j.xYieldPending = asks
    BY <1>5, <2>1 DEF Quiet, Steady
  <2>7. Awakens(k, j)
    BY <1>1, <1>2, <1>4, <1>8, <1>9, <2>2, <2>3, <2>5, <2>6, WaitersFacts DEF Awakens, Wakes, Known, Steady, KeepsOrder
  <2>8. Highest(k, X) /\ ~WakesHigher(k, o) => Highest(j, X)
    <3>1. \A u \in Tasks : k.uxPriority[u] \in Nat
      <4>1. k.uxPriority \in [Tasks -> Priorities]
        BY <1>1 DEF KernelType
      <4> QED
        BY <4>1 DEF Priorities, configMAX_PRIORITIES
    <3>2. k.pxCurrentTCB \in Tasks
      BY <1>1 DEF KernelType
    <3> QED
      BY <1>2, <2>2, <2>6, <3>1, <3>2 DEF Highest, WakesHigher, Steady, t
  <2>9. Covered(k, X) => Covered(j, X)
    BY <2>6, <2>8 DEF Covered
  <2> QED
    BY <1>2, <1>4, <1>10, <2>1, <2>2, <2>4, <2>6, <2>7, <2>8, <2>9 DEF Good, t, j
<1>11. CASE k.uxSchedulerSuspended # 0
  <2>1. /\ list \in Seq(Tasks) /\ Members(list) = Members(k.pendingReady) \cup {t}
        /\ Distinct(list)
    <3>1. k.pendingReady \in Seq(Tasks) /\ Distinct(k.pendingReady)
      BY <1>1 DEF KernelType, EventItemsOK
    <3> QED
      BY <1>2, <1>8, <3>1, AppendMembers
  <2> HIDE DEF list, i
  <2>2. /\ h \in KernelType /\ Quiet(i, h) /\ SameStates(i, h)
        /\ h.event = event /\ h.pendingReady = list
    <3>1. i \in KernelType
      BY <1>5
    <3>2. h \in KernelType /\ h.event = i.event /\ h.pendingReady = list
      BY <2>1, <3>1 DEF KernelType
    <3>3. Quiet(i, h) /\ SameStates(i, h)
      BY <3>1 DEF KernelType, Quiet, Steady, SameStates
    <3> QED
      BY <1>5, <3>2, <3>3
  <2>3. j = h
    BY <1>3, <1>11
  <2> HIDE DEF h
  <2>4. EventItemsOK(j)
    <3>1. \A l \in EventLists : /\ Members(event[l]) \cap Members(k.pendingReady) = {}
                                /\ t \notin Members(event[l])
      BY <1>1, <1>8 DEF EventItemsOK
    <3>2. \A l, m \in EventLists : l # m => Members(event[l]) \cap Members(event[m]) = {}
      BY <1>6, <1>5 DEF EventItemsOK
    <3> QED
      BY <1>4, <2>1, <2>2, <2>3, <3>1, <3>2 DEF EventItemsOK
  <2>5. (\A p : ReadyAt(j, p) = ReadyAt(i, p)) /\ ReadyTasks(j) = ReadyTasks(k)
        /\ BlockedTasks(j) = BlockedTasks(k)
    BY <1>7, <2>2, <2>3 DEF ReadyAt, ReadyTasks, Ready, BlockedTasks, SameStates, Quiet, Steady
  <2>6. StateItemsOK(j)
    BY <1>7, <2>2, <2>3, <2>5 DEF StateItemsOK, RingOK, SameStates, Quiet, Steady
  <2>7. KernelOK(j) /\ j \in KernelType
    BY <2>2, <2>3, <2>4, <2>6 DEF KernelOK
  <2>8. WaitersAreBlocked(j)
    BY <1>1, <1>8, <1>9, <2>1, <2>2, <2>3, <2>5 DEF WaitersAreBlocked
  <2>9. t \in Waiters(k) /\ Waiters(j) = Waiters(k)
    <3>1. t \in Waiters(k) /\ Waiters(j) \subseteq Waiters(k)
      <4>1. t \in Waiters(k)
        BY <1>1, <1>2, <1>8, WaitersFacts
      <4>2. ASSUME NEW u \in Waiters(j) PROVE u \in Waiters(k)
        <5>1. /\ Members(j.pendingReady) = Members(k.pendingReady) \cup {t}
              /\ \A l \in EventLists : j.event[l] = event[l]
          BY <2>1, <2>2, <2>3
        <5>2. CASE u \in Members(j.pendingReady)
          BY <1>1, <4>1, <5>1, <5>2, WaitersFacts
        <5>3. ASSUME NEW l \in EventLists, u \in Members(j.event[l]) PROVE u \in Waiters(k)
          <6>1. u \in Members(k.event[l])
            BY <1>8, <5>1, <5>3
          <6> QED
            BY <1>1, <5>3, <6>1, WaitersFacts
        <5> QED
          BY <2>7, <4>2, <5>2, <5>3, WaitersFacts
      <4> QED
        BY <4>1, <4>2
    <3>2. ASSUME NEW u \in Waiters(k), u # t PROVE u \in Waiters(j)
      <4>1. CASE u \in Members(k.pendingReady)
        BY <2>1, <2>2, <2>3, <2>7, <4>1, WaitersFacts
      <4>2. ASSUME NEW l \in EventLists, u \in Members(k.event[l]) PROVE u \in Waiters(j)
        BY <1>4, <2>2, <2>3, <2>7, <3>2, <4>2, WaitersFacts
      <4> QED
        BY <1>1, <3>2, <4>1, <4>2, WaitersFacts
    <3>3. t \in Waiters(j)
      BY <2>1, <2>2, <2>3, <2>7, WaitersFacts
    <3> QED
      BY <3>1, <3>2, <3>3
  <2>10. Steady(k, j) /\ j.uxPendedTicks = k.uxPendedTicks /\ j.xYieldPending = asks
    BY <1>5, <2>2, <2>3 DEF Quiet, Steady
  <2>11. Awakens(k, j)
    BY <1>4, <1>5, <1>8, <2>2, <2>3, <2>5, <2>9, <2>10 DEF Awakens, Wakes, Known, Steady, SameStates, KeepsOrder
  <2>12. (Highest(k, X) => Highest(j, X)) /\ (Covered(k, X) => Covered(j, X))
    BY <2>5, <2>10 DEF Highest, Covered, Steady
  <2> QED
    BY <1>2, <1>4, <1>11, <2>1, <2>2, <2>3, <2>5, <2>7, <2>8, <2>10, <2>11, <2>12 DEF Good, t, j
<1> QED
  BY <1>10, <1>11
-------------------------------------------------------------------------------
(***************************************************************************)
(* The choice of the task that runs.                                       *)
(***************************************************************************)

\* vTaskSwitchContext selects a ready task of the highest priority and moves no task.
LEMMA SwitchOK ==
    ASSUME NEW k, Good(k), k.uxSchedulerSuspended = 0, ReadyTasks(k) # {}, NEW X
    PROVE  LET j == vTaskSwitchContext(k)
           IN  /\ Good(j) /\ Switches(k, j) /\ Awakens(k, j)
               /\ j.pxCurrentTCB \in ReadyTasks(j) /\ Highest(j, X)
<1> DEFINE p == Max(k.uxTopReadyPriority)
           r == RingNext(k.ready[p])
           ready == [k.ready EXCEPT ![p] = r]
           x == Last(r)
           i == [k EXCEPT !.xYieldPending = FALSE, !.ready = ready, !.pxCurrentTCB = x]
           j == vTaskSwitchContext(k)
<1>1. /\ KernelOK(k) /\ k \in KernelType /\ StateItemsOK(k) /\ EventItemsOK(k)
      /\ WaitersAreBlocked(k)
  BY DEF Good, KernelOK
<1>2. k.uxTopReadyPriority \in SUBSET Priorities /\ k.uxTopReadyPriority # {}
  <2>1. PICK t \in Tasks : Ready(k, t)
    BY DEF ReadyTasks
  <2>2. k.uxPriority[t] \in Priorities
    BY <1>1 DEF KernelType
  <2>3. RingOK(k, k.uxPriority[t]) /\ ReadyAt(k, k.uxPriority[t]) # {}
    BY <1>1, <2>1, <2>2 DEF StateItemsOK, Ready
  <2> QED
    BY <1>1, <2>3 DEF RingOK, KernelType
<1>3. /\ p \in Priorities /\ p \in k.uxTopReadyPriority
      /\ \A q \in k.uxTopReadyPriority : q <= p
  BY <1>2, HighestBit
<1> HIDE DEF p
<1>4. /\ RingOK(k, p) /\ ReadyAt(k, p) # {}
      /\ k.ready[p] \in Seq(Tasks \cup {xListEnd}) /\ Distinct(k.ready[p])
      /\ Members(k.ready[p]) = ReadyAt(k, p) \cup {xListEnd}
      /\ ReadyAt(k, p) \subseteq Tasks /\ xListEnd \notin ReadyAt(k, p)
  BY <1>1, <1>3, RingFacts DEF StateItemsOK, RingOK
<1>5. /\ r \in Seq(Tasks \cup {xListEnd}) /\ Distinct(r)
      /\ Members(r) = Members(k.ready[p]) /\ x \in ReadyAt(k, p) /\ x \in Tasks
  <2> DEFINE s == k.ready[p]
  <2>1. /\ s \in Seq(Tasks \cup {xListEnd}) /\ Distinct(s) /\ xListEnd \in Members(s)
        /\ Members(s) # {xListEnd}
    BY <1>4
  <2> HIDE DEF s
  <2>2. /\ RingNext(s) \in Seq(Tasks \cup {xListEnd}) /\ Distinct(RingNext(s))
        /\ Members(RingNext(s)) = Members(s)
        /\ Last(RingNext(s)) \in Members(s) \ {xListEnd}
    BY <2>1, RingNextProperties
  <2> QED
    BY <1>4, <2>2 DEF s
<1>6. j = i
  <2>1. i = [k EXCEPT !.xYieldPending = FALSE, !.ready[p] = r, !.pxCurrentTCB = Last(r)]
    BY <1>1 DEF KernelType
  <2> QED
    BY <1>4, <2>1, Zenon DEF vTaskSwitchContext, p
<1> HIDE DEF r, x, j
<1>7. /\ ready \in [Priorities -> Seq(Tasks \cup {xListEnd})]
      /\ \A q \in Priorities : ready[q] = IF q = p THEN r ELSE k.ready[q]
  BY <1>1, <1>3, <1>5 DEF KernelType
<1> HIDE DEF ready
<1>8. /\ i \in KernelType /\ i.ready = ready /\ i.pxCurrentTCB = x
      /\ i.uxTopReadyPriority = k.uxTopReadyPriority
      /\ i.uxPriority = k.uxPriority /\ i.uxBasePriority = k.uxBasePriority
      /\ i.eventPriority = k.eventPriority
      /\ i.uxMutexesHeld = k.uxMutexesHeld /\ i.halted = k.halted
      /\ i.uxSchedulerSuspended = k.uxSchedulerSuspended /\ i.uxPendedTicks = k.uxPendedTicks
      /\ SameEvents(k, i) /\ i.delayed = k.delayed /\ i.suspended = k.suspended
  BY <1>1, <1>5, <1>7 DEF KernelType, SameEvents
<1> HIDE DEF i
<1>9. ASSUME NEW q \in Priorities
      PROVE  Members(i.ready[q]) = Members(k.ready[q]) /\ ReadyAt(i, q) = ReadyAt(k, q)
  BY <1>5, <1>7, <1>8 DEF ReadyAt
<1>10. ReadyTasks(i) = ReadyTasks(k)
  <2>1. \A u \in Tasks : k.uxPriority[u] \in Priorities
    BY <1>1 DEF KernelType
  <2> QED
    BY <1>8, <1>9, <2>1 DEF ReadyTasks, Ready
<1>11. Switches(k, i) /\ Awakens(k, i)
  BY <1>8, <1>10 DEF Switches, Awakens, Wakes, KeepsOrder, Known, BlockedTasks, SameEvents, Waiters,
                        Pending, Waiting
<1>12. StateItemsOK(i)
  <2>1. ASSUME NEW q \in Priorities PROVE RingOK(i, q)
    <3>1. RingOK(k, q)
      BY <1>1 DEF StateItemsOK
    <3>2. Distinct(i.ready[q])
      BY <1>5, <1>7, <1>8, <3>1 DEF RingOK
    <3> QED
      BY <1>8, <1>9, <3>1, <3>2 DEF RingOK
  <2> QED
    BY <1>1, <1>8, <1>10, <2>1 DEF StateItemsOK, BlockedTasks
<1>13. Good(i)
  BY <1>1, <1>8, <1>12 DEF Good, KernelOK, EventItemsOK, SameEvents, WaitersAreBlocked, BlockedTasks
<1>14. x \in ReadyTasks(k) /\ k.uxPriority[x] = p
  BY <1>1, <1>3, <1>4, <1>5, RingFacts DEF ReadyTasks
<1>15. Highest(i, X)
  <2>1. ASSUME NEW u \in ReadyTasks(k) PROVE k.uxPriority[u] <= p
    <3>1. u \in Tasks /\ Ready(k, u) /\ k.uxPriority[u] \in Priorities
      BY <1>1 DEF ReadyTasks, KernelType
    <3>2. RingOK(k, k.uxPriority[u]) /\ ReadyAt(k, k.uxPriority[u]) # {}
      BY <1>1, <3>1 DEF StateItemsOK, Ready
    <3> QED
      BY <1>3, <3>1, <3>2 DEF RingOK
  <2> QED
    BY <1>8, <1>10, <1>14, <2>1 DEF Highest
<1> QED
  BY <1>6, <1>8, <1>10, <1>11, <1>13, <1>14, <1>15 DEF j
-------------------------------------------------------------------------------
(***************************************************************************)
(* Tasks that are woken one after another.                                 *)
(***************************************************************************)

\* A kernel that stays as it is has moved no task.
LEMMA MovedNothing ==
    ASSUME NEW k, KernelOK(k)
    PROVE  Moved(k, k, {})
BY DEF Moved, Steady, EventSets, StateSets, KeepsOrder

\* Moving M and then t moves M and t.
LEMMA MovedOneMore ==
    ASSUME NEW k, NEW i, NEW j, NEW M, NEW t, Moved(k, i, M), Moved(i, j, {t})
    PROVE  Moved(k, j, M \cup {t})
<1>1. KernelOK(j) /\ Steady(k, j) /\ j.uxPendedTicks = k.uxPendedTicks
  BY DEF Moved, Steady
<1>2. EventSets(k, j, M \cup {t})
  BY DEF Moved, EventSets, KeepsOrder
<1>3. StateSets(j, ReadyTasks(k) \cup (M \cup {t}), Members(k.delayed) \ (M \cup {t}),
                k.suspended \ (M \cup {t}))
  BY DEF Moved, StateSets
<1> QED
  BY <1>1, <1>2, <1>3 DEF Moved

\* If they were blocked and those of them that are suspended wait for something.
LEMMA MovedAwakens ==
    ASSUME NEW k, Good(k), NEW j, NEW M, Moved(k, j, M),
           M \subseteq Waiters(k) \cup Members(k.delayed)
    PROVE  Good(j) /\ Awakens(k, j)
<1>1. k \in KernelType /\ KernelOK(k) /\ WaitersAreBlocked(k) /\ j \in KernelType /\ KernelOK(j)
  BY DEF Good, KernelOK, Moved
<1>2. Waiters(k) \subseteq BlockedTasks(k) /\ Members(k.delayed) \subseteq BlockedTasks(k)
  BY <1>1, WaitersFacts DEF BlockedTasks
<1>3. M \subseteq BlockedTasks(k)
  BY <1>2
<1>4. BlockedTasks(j) = BlockedTasks(k) \ M
  BY DEF Moved, StateSets, BlockedTasks
<1>5. Waiters(j) = Waiters(k) \ M
  BY <1>1, WaitersFacts DEF Moved, EventSets
<1>6. WaitersAreBlocked(j)
  BY <1>1, <1>2, <1>4, <1>5, WaitersFacts
<1>7. k.suspended \cap Members(k.delayed) = {}
  BY <1>1 DEF KernelOK, StateItemsOK
<1>8. j.suspended = k.suspended \ M /\ ReadyTasks(j) = ReadyTasks(k) \cup M
  BY DEF Moved, StateSets
<1>9. k.suspended \ Waiters(k) \subseteq j.suspended
  BY <1>7, <1>8
<1>10. Awakens(k, j)
  BY <1>3, <1>4, <1>5, <1>8, <1>9 DEF Awakens, Wakes, Known, Moved, Steady, EventSets
<1> QED
  BY <1>1, <1>6, <1>10 DEF Good

\* The tick that wakes a delayed task makes it ready and ends its wait.
LEMMA TimeOutOK ==
    ASSUME NEW k, KernelOK(k), NEW t \in Tasks
    PROVE  /\ Moved(k, TimeOut(k, t), {t})
           /\ TimeOut(k, t).xYieldPending = k.xYieldPending
           /\ TimeOut(k, t) \in KernelType
<1> DEFINE i == RemoveEventItem(k, t)
           j == MakeReady(i, t)
<1>1. /\ KernelOK(i) /\ Quiet(k, i) /\ EventSets(k, i, {t})
      /\ StateSets(i, ReadyTasks(k), Members(k.delayed), k.suspended)
  BY RemoveEventItemOK
<1> HIDE DEF i
<1>2. /\ KernelOK(j) /\ Quiet(i, j) /\ SameEvents(i, j)
      /\ StateSets(j, ReadyTasks(i) \cup {t}, Members(i.delayed) \ {t}, i.suspended \ {t})
  BY <1>1, MakeReadyOK
<1> HIDE DEF j
<1>3. Quiet(k, j)
  BY <1>1, <1>2 DEF Quiet, Steady
<1>4. EventSets(k, j, {t})
  BY <1>1, <1>2 DEF EventSets, SameEvents, KeepsOrder
<1>5. StateSets(j, ReadyTasks(k) \cup {t}, Members(k.delayed) \ {t}, k.suspended \ {t})
  BY <1>1, <1>2 DEF StateSets
<1>6. TimeOut(k, t) = j
  BY DEF TimeOut, i, j
<1> QED
  BY <1>2, <1>3, <1>4, <1>5, <1>6 DEF Moved, Quiet, KernelOK

\* xTaskResumeAll makes a pending task ready and ends its delay.
LEMMA MovePendingOK ==
    ASSUME NEW k, KernelOK(k), NEW t \in Tasks, NEW X
    PROVE  /\ Moved(k, MovePending(k, t), {t})
           /\ Covered(k, X) => Covered(MovePending(k, t), X)
           /\ MovePending(k, t) \in KernelType
<1> DEFINE i == TimeOut(k, t)
           asks == k.xYieldPending \/ k.uxPriority[t] >= k.uxPriority[k.pxCurrentTCB]
           j == [i EXCEPT !.xYieldPending = asks]
<1>1. Moved(k, i, {t}) /\ i.xYieldPending = k.xYieldPending /\ i \in KernelType /\ KernelOK(i)
  BY TimeOutOK DEF Moved
<1>2. k \in KernelType
  BY DEF KernelOK
<1>3. MovePending(k, t) = j
  <2> DEFINE a == MakeReady(RemoveEventItem(k, t), t)
  <2>1. MovePending(k, t) =
          [a EXCEPT !.xYieldPending = @ \/ k.uxPriority[t] >= k.uxPriority[k.pxCurrentTCB]]
    BY DEF MovePending
  <2>2. i = a
    BY DEF TimeOut
  <2> HIDE DEF i, a
  <2> QED
    BY <1>1, <2>1, <2>2 DEF KernelType
<1>4. asks \in BOOLEAN
  BY <1>2 DEF KernelType
<1> HIDE DEF i, asks
<1>5. /\ j \in KernelType /\ SameStates(i, j) /\ SameEvents(i, j) /\ Steady(i, j)
      /\ j.uxPendedTicks = i.uxPendedTicks /\ j.xYieldPending = asks
  BY <1>1, <1>4 DEF KernelType, SameStates, SameEvents, Steady
<1> HIDE DEF j
<1>6. KernelOK(j) /\ ReadyTasks(j) = ReadyTasks(i)
  BY <1>1, <1>5, OtherFields DEF Steady
<1>7. Moved(k, j, {t})
  BY <1>1, <1>5, <1>6 DEF Moved, Steady, EventSets, KeepsOrder, StateSets, SameEvents, SameStates
<1>8. Covered(k, X) => Covered(j, X)
  <2>1. \A u \in Tasks : k.uxPriority[u] \in Nat
    <3>1. k.uxPriority \in [Tasks -> Priorities]
      BY <1>2 DEF KernelType
    <3> QED
      BY <3>1 DEF Priorities, configMAX_PRIORITIES
  <2>2. k.pxCurrentTCB \in Tasks
    BY <1>2 DEF KernelType
  <2>3. /\ ReadyTasks(j) = ReadyTasks(k) \cup {t} /\ j.uxPriority = k.uxPriority
        /\ j.pxCurrentTCB = k.pxCurrentTCB
    BY <1>7 DEF Moved, StateSets, Steady
  <2>4. k.uxPriority[t] \in Nat /\ k.uxPriority[k.pxCurrentTCB] \in Nat
    BY <2>1, <2>2
  <2>5. ASSUME Covered(k, X), ~asks PROVE Highest(j, X)
    <3>1. Highest(k, X) /\ k.uxPriority[t] <= k.uxPriority[k.pxCurrentTCB]
      BY <2>4, <2>5 DEF Covered, asks
    <3> QED
      BY <2>3, <3>1 DEF Highest
  <2> QED
    BY <1>5, <2>5 DEF Covered
<1> QED
  BY <1>3, <1>5, <1>7, <1>8

\* All tasks whose time is up.
LEMMA TimeOutAllOK ==
    ASSUME NEW k, KernelOK(k), NEW due \in Seq(Tasks)
    PROVE  /\ Moved(k, TimeOutAll(k, due), Members(due))
           /\ TimeOutAll(k, due).xYieldPending = k.xYieldPending
<1> DEFINE N == Len(due)
           U == {x \in KernelType : KernelOK(x)}
           step == [x \in U |-> [n \in Nat |-> IF n \in 1 .. N THEN TimeOut(x, due[n]) ELSE x]]
           Is(a) == a = [n \in 0 .. N |-> IF n = 0 THEN k ELSE TimeOut(a[n - 1], due[n])]
           after == CHOOSE a : Is(a)
<1>1. N \in Nat /\ DOMAIN due = 1 .. N /\ k \in U
  BY LenProperties DEF KernelOK
<1>2. \A n \in 1 .. N : due[n] \in Tasks
  BY <1>1
<1> HIDE DEF N
<1>3. step \in [U -> [Nat -> U]]
  <2>1. ASSUME NEW x \in U, NEW n \in Nat
        PROVE  (IF n \in 1 .. N THEN TimeOut(x, due[n]) ELSE x) \in U
    BY <1>2, TimeOutOK DEF Moved
  <2> HIDE DEF U
  <2> QED
    BY <2>1
<1>4. Is(after)
  <2>1. PICK f \in [0 .. N -> U] : IsIteration(f, k, step, N)
    <3> HIDE DEF U, step
    <3> QED
      BY <1>1, <1>3, IterationExists
  <2>2. Is(f)
    <3> HIDE DEF U
    <3>1. ASSUME NEW n \in 0 .. N, n # 0 PROVE step[f[n - 1]][n] = TimeOut(f[n - 1], due[n])
      <4>1. n - 1 \in 0 .. N /\ n \in 1 .. N /\ n \in Nat
        BY <1>1, <3>1
      <4>2. f[n - 1] \in U
        BY <4>1
      <4> QED
        BY <4>1, <4>2
    <3> HIDE DEF step
    <3> QED
      BY <2>1, <3>1 DEF IsIteration
  <2> HIDE DEF Is
  <2> QED
    BY <2>2
<1>5. TimeOutAll(k, due) = after[N]
  BY DEF TimeOutAll, N
<1>6. \A n \in 0 .. N : after[n] = IF n = 0 THEN k ELSE TimeOut(after[n - 1], due[n])
  <2> HIDE DEF after
  <2> QED
    BY <1>4
<1> HIDE DEF after
<1> DEFINE First(n) == {due[i] : i \in 1 .. n}
           P == {n \in Nat : n <= N => /\ Moved(k, after[n], First(n))
                                       /\ after[n].xYieldPending = k.xYieldPending}
<1>7. 0 \in P
  <2>1. First(0) = {} /\ after[0] = k
    <3>1. First(0) = {}
      OBVIOUS
    <3>2. 0 \in 0 .. N
      BY <1>1
    <3> HIDE DEF First
    <3> QED
      BY <1>6, <3>1, <3>2
  <2>2. Moved(k, after[0], First(0))
    BY <2>1, MovedNothing
  <2> HIDE DEF First
  <2> QED
    BY <2>1, <2>2
<1>8. ASSUME NEW n \in Nat, n \in P PROVE n + 1 \in P
  <2> SUFFICES ASSUME n + 1 <= N
               PROVE  /\ Moved(k, after[n + 1], First(n + 1))
                      /\ after[n + 1].xYieldPending = k.xYieldPending
    OBVIOUS
  <2>1. Moved(k, after[n], First(n)) /\ after[n].xYieldPending = k.xYieldPending
    BY <1>1, <1>8
  <2>2. n + 1 \in 1 .. N /\ n + 1 \in 0 .. N /\ n + 1 # 0 /\ (n + 1) - 1 = n
    BY <1>1
  <2>3. after[n + 1] = TimeOut(after[n], due[n + 1])
    BY <1>6, <2>2
  <2>4. First(n + 1) = First(n) \cup {due[n + 1]}
    OBVIOUS
  <2>5. /\ Moved(after[n], after[n + 1], {due[n + 1]})
        /\ after[n + 1].xYieldPending = after[n].xYieldPending
    BY <1>2, <2>1, <2>2, <2>3, TimeOutOK DEF Moved
  <2> HIDE DEF First
  <2>6. Moved(k, after[n + 1], First(n) \cup {due[n + 1]})
    BY <2>1, <2>5, MovedOneMore
  <2> QED
    BY <2>1, <2>4, <2>5, <2>6
<1>9. N \in P
  <2> HIDE DEF P
  <2> QED
    BY <1>1, <1>7, <1>8, Induction
<1>10. First(N) = Members(due)
  BY <1>1 DEF Members
<1>11. Moved(k, after[N], First(N)) /\ after[N].xYieldPending = k.xYieldPending
  <2> HIDE DEF First
  <2> QED
    BY <1>1, <1>9
<1> HIDE DEF First
<1> QED
  BY <1>5, <1>10, <1>11

\* All tasks of the pending list.
LEMMA MoveAllPendingOK ==
    ASSUME NEW k, KernelOK(k), NEW X
    PROVE  /\ Moved(k, MoveAllPending(k), Members(k.pendingReady))
           /\ Covered(k, X) => Covered(MoveAllPending(k), X)
<1> DEFINE due == k.pendingReady
           N == Len(due)
           U == {x \in KernelType : KernelOK(x)}
           step == [x \in U |-> [n \in Nat |-> IF n \in 1 .. N THEN MovePending(x, due[n]) ELSE x]]
           Is(a) == a = [n \in 0 .. N |-> IF n = 0 THEN k ELSE MovePending(a[n - 1], due[n])]
           after == CHOOSE a : Is(a)
<1>1. due \in Seq(Tasks) /\ N \in Nat /\ DOMAIN due = 1 .. N /\ k \in U
  BY LenProperties DEF KernelOK, KernelType
<1>2. \A n \in 1 .. N : due[n] \in Tasks
  BY <1>1
<1>5. MoveAllPending(k) = after[N]
  BY DEF MoveAllPending
<1> HIDE DEF N, due
<1>3. step \in [U -> [Nat -> U]]
  <2>1. ASSUME NEW x \in U, NEW n \in Nat
        PROVE  (IF n \in 1 .. N THEN MovePending(x, due[n]) ELSE x) \in U
    BY <1>2, MovePendingOK DEF Moved
  <2> HIDE DEF U
  <2> QED
    BY <2>1
<1>4. Is(after)
  <2>1. PICK f \in [0 .. N -> U] : IsIteration(f, k, step, N)
    <3> HIDE DEF U, step
    <3> QED
      BY <1>1, <1>3, IterationExists
  <2>2. Is(f)
    <3> HIDE DEF U
    <3>1. ASSUME NEW n \in 0 .. N, n # 0 PROVE step[f[n - 1]][n] = MovePending(f[n - 1], due[n])
      <4>1. n - 1 \in 0 .. N /\ n \in 1 .. N /\ n \in Nat
        BY <1>1, <3>1
      <4>2. f[n - 1] \in U
        BY <4>1
      <4> QED
        BY <4>1, <4>2
    <3> HIDE DEF step
    <3> QED
      BY <2>1, <3>1 DEF IsIteration
  <2> HIDE DEF Is
  <2> QED
    BY <2>2
<1>6. \A n \in 0 .. N : after[n] = IF n = 0 THEN k ELSE MovePending(after[n - 1], due[n])
  <2> HIDE DEF after
  <2> QED
    BY <1>4
<1> HIDE DEF after
<1> DEFINE First(n) == {due[i] : i \in 1 .. n}
           P == {n \in Nat : n <= N => /\ Moved(k, after[n], First(n))
                                       /\ Covered(k, X) => Covered(after[n], X)}
<1>7. 0 \in P
  <2>1. First(0) = {} /\ after[0] = k
    <3>1. First(0) = {}
      OBVIOUS
    <3>2. 0 \in 0 .. N
      BY <1>1
    <3> HIDE DEF First
    <3> QED
      BY <1>6, <3>1, <3>2
  <2>2. Moved(k, after[0], First(0))
    BY <2>1, MovedNothing
  <2> HIDE DEF First
  <2> QED
    BY <2>1, <2>2
<1>8. ASSUME NEW n \in Nat, n \in P PROVE n + 1 \in P
  <2> SUFFICES ASSUME n + 1 <= N
               PROVE  /\ Moved(k, after[n + 1], First(n + 1))
                      /\ Covered(k, X) => Covered(after[n + 1], X)
    OBVIOUS
  <2>1. Moved(k, after[n], First(n)) /\ (Covered(k, X) => Covered(after[n], X))
    BY <1>1, <1>8
  <2>2. n + 1 \in 1 .. N /\ n + 1 \in 0 .. N /\ n + 1 # 0 /\ (n + 1) - 1 = n
    BY <1>1
  <2>3. after[n + 1] = MovePending(after[n], due[n + 1])
    BY <1>6, <2>2
  <2>4. First(n + 1) = First(n) \cup {due[n + 1]}
    OBVIOUS
  <2>5. /\ Moved(after[n], after[n + 1], {due[n + 1]})
        /\ Covered(after[n], X) => Covered(after[n + 1], X)
    BY ZenonT(40), <1>2, <2>1, <2>2, <2>3, MovePendingOK DEF Moved
  <2> HIDE DEF First
  <2>6. Moved(k, after[n + 1], First(n) \cup {due[n + 1]})
    BY <2>1, <2>5, MovedOneMore
  <2> QED
    BY <2>1, <2>4, <2>5, <2>6
<1>9. N \in P
  <2> HIDE DEF P
  <2> QED
    BY <1>1, <1>7, <1>8, Induction
<1>10. First(N) = Members(due)
  BY <1>1 DEF Members
<1>11. Moved(k, after[N], First(N)) /\ (Covered(k, X) => Covered(after[N], X))
  <2> HIDE DEF First
  <2> QED
    BY <1>1, <1>9
<1> HIDE DEF First
<1> QED
  BY <1>5, <1>10, <1>11 DEF due
-------------------------------------------------------------------------------
(***************************************************************************)
(* The tick and the end of a suspension of the scheduler.                  *)
(***************************************************************************)

\* A tick that only counts leaves every list as it is.
LEMMA PassedOK ==
    ASSUME NEW k, Good(k)
    PROVE  LET j == Passed(k)
           IN  /\ j \in KernelType /\ Good(j) /\ Steady(k, j) /\ SameStates(k, j) /\ SameEvents(k, j)
               /\ j.uxPendedTicks = k.uxPendedTicks /\ j.xYieldPending = k.xYieldPending
               /\ ReadyTasks(j) = ReadyTasks(k)
<1> DEFINE wake == [t \in Tasks |-> IF t \in Members(k.delayed) THEN k.wake[t] - 1 ELSE 0]
           left == [t \in Tasks |-> IF k.left[t] > 0 THEN k.left[t] - 1 ELSE k.left[t]]
           j == [k EXCEPT !.wake = wake, !.left = left]
<1>1. k \in KernelType /\ KernelOK(k)
  BY DEF Good, KernelOK
<1>2. Passed(k) = j
  BY <1>1 DEF Passed, KernelType
<1>3. wake \in [Tasks -> Int] /\ left \in [Tasks -> Int]
  <2>1. k.wake \in [Tasks -> Int] /\ k.left \in [Tasks -> Int]
    BY <1>1 DEF KernelType
  <2>2. ASSUME NEW t \in Tasks
        PROVE  /\ (IF t \in Members(k.delayed) THEN k.wake[t] - 1 ELSE 0) \in Int
               /\ (IF k.left[t] > 0 THEN k.left[t] - 1 ELSE k.left[t]) \in Int
    BY <2>1
  <2> QED
    BY <2>2
<1> HIDE DEF wake, left
<1>4. /\ j \in KernelType /\ Steady(k, j) /\ SameStates(k, j) /\ SameEvents(k, j)
      /\ j.uxPendedTicks = k.uxPendedTicks /\ j.xYieldPending = k.xYieldPending
  BY <1>1, <1>3 DEF KernelType, Steady, SameStates, SameEvents
<1> HIDE DEF j
<1>5. KernelOK(j) /\ ReadyTasks(j) = ReadyTasks(k) /\ BlockedTasks(j) = BlockedTasks(k)
  BY <1>1, <1>4, OtherFields DEF Steady
<1>6. WaitersAreBlocked(j)
  BY <1>4, <1>5 DEF Good, WaitersAreBlocked, SameEvents
<1> QED
  BY <1>2, <1>4, <1>5, <1>6 DEF Good

\* xTaskIncrementTick makes the tasks that are due ready and disturbs no other.
LEMMA ProcessTickOK ==
    ASSUME NEW k, Good(k), NEW X
    PROVE  /\ Ticked(k, ProcessTick(k)) /\ (Covered(k, X) => Covered(ProcessTick(k), X))
           /\ ProcessTick(k) \in KernelType
<1> DEFINE now == Passed(k)
           due == Due(now)
           i   == TimeOutAll(now, due)
           own == k.uxPriority[k.pxCurrentTCB]
           asks == \/ i.xYieldPending
                   \/ \E t \in Members(due) : k.uxPriority[t] >= own
                   \/ Cardinality(ReadyAt(i, own)) > 1
           j == [i EXCEPT !.xYieldPending = asks]
<1>1. k \in KernelType /\ KernelOK(k)
  BY DEF Good, KernelOK
<1>2. /\ now \in KernelType /\ Good(now) /\ Steady(k, now) /\ SameStates(k, now)
      /\ SameEvents(k, now) /\ now.uxPendedTicks = k.uxPendedTicks
      /\ now.xYieldPending = k.xYieldPending /\ ReadyTasks(now) = ReadyTasks(k)
  BY PassedOK
<1>3. due \in Seq(Tasks) /\ Members(due) \subseteq Members(now.delayed)
  <2>1. now.delayed \in Seq(Tasks)
    BY <1>2 DEF KernelType
  <2> DEFINE gone == {t \in Tasks : now.wake[t] > 0}
             s == now.delayed
  <2>2. due = Drop(s, gone)
    BY DEF Due
  <2> HIDE DEF gone, due, s
  <2>3. due \in Seq(Tasks) /\ Members(due) = Members(s) \ gone
    BY <2>1, <2>2, DropProperties DEF s
  <2> QED
    BY <2>3 DEF s
<1>4. ProcessTick(k) = j
  BY DEF ProcessTick
<1> HIDE DEF now, due, j
<1>5. Moved(now, i, Members(due)) /\ i.xYieldPending = now.xYieldPending
  BY <1>2, <1>3, TimeOutAllOK DEF Good
<1> HIDE DEF i
<1>6. Good(i) /\ Awakens(now, i)
  BY <1>2, <1>3, <1>5, MovedAwakens
<1>7. i \in KernelType
  BY <1>6 DEF Good, KernelOK
<1>9. asks \in BOOLEAN
  BY <1>7 DEF KernelType
<1>10. asks <=> \/ i.xYieldPending
                \/ \E t \in Members(due) : k.uxPriority[t] >= own
                \/ Cardinality(ReadyAt(i, own)) > 1
  OBVIOUS
<1> HIDE DEF asks
<1>11. /\ j \in KernelType /\ Steady(i, j) /\ SameStates(i, j) /\ SameEvents(i, j)
       /\ j.uxPendedTicks = i.uxPendedTicks /\ j.xYieldPending = asks
  BY <1>7, <1>9 DEF KernelType, Steady, SameStates, SameEvents, j
<1> HIDE DEF j
<1>12. KernelOK(j) /\ ReadyTasks(j) = ReadyTasks(i) /\ BlockedTasks(j) = BlockedTasks(i)
  BY <1>6, <1>11, OtherFields DEF Steady, Good
<1>13. Good(j)
  BY <1>6, <1>11, <1>12 DEF Good, WaitersAreBlocked, SameEvents
<1>14. Steady(k, j) /\ j.uxPendedTicks = k.uxPendedTicks
  BY <1>2, <1>5, <1>11 DEF Moved, Steady
<1>15. Awakens(k, j)
  <2>1. Awakens(k, now)
    BY <1>2 DEF Awakens, Wakes, KeepsOrder, Steady, SameStates, SameEvents, Known, BlockedTasks, Waiters, Pending, Waiting
  <2>2. Awakens(i, j)
    BY <1>11, <1>12 DEF Awakens, Wakes, KeepsOrder, Steady, SameStates, SameEvents, Known, BlockedTasks, Waiters,
                        Pending, Waiting
  <2> QED
    BY <1>6, <2>1, <2>2, AwakensTransitive
<1>16. Members(j.pendingReady) \subseteq Members(k.pendingReady)
  BY <1>2, <1>5, <1>11 DEF Moved, EventSets, SameEvents
<1>17. Covered(k, X) => Covered(j, X)
  <2>1. /\ ReadyTasks(j) = ReadyTasks(k) \cup Members(due) /\ j.uxPriority = k.uxPriority
        /\ j.pxCurrentTCB = k.pxCurrentTCB
    BY <1>2, <1>5, <1>12, <1>14 DEF Moved, StateSets, Steady
  <2>2. k.uxPriority \in [Tasks -> Nat] /\ k.pxCurrentTCB \in Tasks /\ own \in Nat
    <3>1. k.uxPriority \in [Tasks -> Priorities] /\ k.pxCurrentTCB \in Tasks
      BY <1>1 DEF KernelType
    <3> QED
      BY <3>1 DEF Priorities, configMAX_PRIORITIES
  <2>3. ASSUME Covered(k, X), ~asks PROVE Highest(j, X)
    <3>1. Highest(k, X)
      BY <1>2, <1>5, <1>10, <2>3 DEF Covered
    <3>2. ASSUME NEW t \in Members(due) PROVE k.uxPriority[t] <= own
      <4>1. t \in Tasks /\ ~(k.uxPriority[t] >= own)
        BY <1>3, <1>10, <2>3, MembersProperties
      <4>2. k.uxPriority[t] \in Nat
        BY <2>2, <4>1
      <4> QED
        BY <2>2, <4>1, <4>2
    <3> HIDE DEF own
    <3>3. \A t \in ReadyTasks(k) \ X : k.uxPriority[t] <= own
      BY <3>1 DEF Highest, own
    <3> QED
      BY <2>1, <3>2, <3>3 DEF Highest, own
  <2> QED
    BY <1>11, <2>3 DEF Covered
<1> QED
  BY <1>4, <1>11, <1>13, <1>14, <1>15, <1>16, <1>17 DEF Ticked

\* A kernel that stays as it is has done what ticks may do.
LEMMA TickedNothing ==
    ASSUME NEW k, Good(k)
    PROVE  Ticked(k, k)
BY DEF Ticked, Steady, Awakens, Wakes, KeepsOrder

\* Ticks in a row do what one tick may do.
LEMMA TickedTransitive ==
    ASSUME NEW k, NEW i, NEW j, Ticked(k, i), Ticked(i, j)
    PROVE  Ticked(k, j)
<1>1. Awakens(k, j)
  BY AwakensTransitive DEF Ticked
<1> QED
  BY <1>1 DEF Ticked, Steady

\* The ticks that were counted while the scheduler was suspended keep the lists in order.
LEMMA ProcessTicksOK ==
    ASSUME NEW k, Good(k), NEW N \in Nat, NEW X
    PROVE  Ticked(k, ProcessTicks(k, N)) /\ (Covered(k, X) => Covered(ProcessTicks(k, N), X))
<1> DEFINE U == {x \in KernelType : Good(x)}
           step == [x \in U |-> [n \in Nat |-> ProcessTick(x)]]
           Is(a) == a = [n \in 0 .. N |-> IF n = 0 THEN k ELSE ProcessTick(a[n - 1])]
           after == CHOOSE a : Is(a)
<1>1. k \in U
  BY DEF Good, KernelOK
<1>2. step \in [U -> [Nat -> U]]
  <2>1. ASSUME NEW x \in U PROVE ProcessTick(x) \in U
    BY ProcessTickOK DEF Ticked
  <2> HIDE DEF U
  <2> QED
    BY <2>1
<1>3. ProcessTicks(k, N) = after[N]
  BY DEF ProcessTicks
<1>4. Is(after)
  <2>1. PICK f \in [0 .. N -> U] : IsIteration(f, k, step, N)
    <3> HIDE DEF U, step
    <3> QED
      BY <1>1, <1>2, IterationExists
  <2>2. Is(f)
    <3> HIDE DEF U
    <3>1. ASSUME NEW n \in 0 .. N, n # 0 PROVE step[f[n - 1]][n] = ProcessTick(f[n - 1])
      <4>1. n - 1 \in 0 .. N /\ n \in Nat
        BY <3>1
      <4>2. f[n - 1] \in U
        BY <4>1
      <4> QED
        BY <4>1, <4>2
    <3> HIDE DEF step
    <3> QED
      BY <2>1, <3>1 DEF IsIteration
  <2> HIDE DEF Is
  <2> QED
    BY <2>2
<1>5. \A n \in 0 .. N : after[n] = IF n = 0 THEN k ELSE ProcessTick(after[n - 1])
  <2> HIDE DEF after
  <2> QED
    BY <1>4
<1> HIDE DEF after
<1> DEFINE P == {n \in Nat : n <= N => /\ Ticked(k, after[n])
                                       /\ Covered(k, X) => Covered(after[n], X)}
<1>6. 0 \in P
  <2>1. 0 \in 0 .. N
    OBVIOUS
  <2>2. after[0] = k
    BY <1>5, <2>1
  <2>3. Ticked(k, after[0])
    BY <2>2, TickedNothing
  <2> QED
    BY <2>2, <2>3
<1>7. ASSUME NEW n \in Nat, n \in P PROVE n + 1 \in P
  <2> SUFFICES ASSUME n + 1 <= N
               PROVE  /\ Ticked(k, after[n + 1])
                      /\ Covered(k, X) => Covered(after[n + 1], X)
    OBVIOUS
  <2>1. Ticked(k, after[n]) /\ (Covered(k, X) => Covered(after[n], X))
    BY <1>7
  <2>2. n + 1 \in 0 .. N /\ n + 1 # 0 /\ (n + 1) - 1 = n
    OBVIOUS
  <2>3. after[n + 1] = ProcessTick(after[n])
    BY <1>5, <2>2
  <2>4. /\ Ticked(after[n], after[n + 1])
        /\ Covered(after[n], X) => Covered(after[n + 1], X)
    BY <2>1, <2>3, ProcessTickOK DEF Ticked
  <2>5. Ticked(k, after[n + 1])
    BY <2>1, <2>4, TickedTransitive
  <2> QED
    BY <2>1, <2>4, <2>5
<1>8. N \in P
  <2> HIDE DEF P
  <2> QED
    BY <1>6, <1>7, Induction
<1>9. Ticked(k, after[N]) /\ (Covered(k, X) => Covered(after[N], X))
  BY <1>8
<1> QED
  BY <1>3, <1>9

\* xTaskResumeAll up to its yield.
LEMMA ResumeAllOK ==
    ASSUME NEW k, Good(k), k.uxSchedulerSuspended = 1, NEW X
    PROVE  LET j == ResumeAll(k)
           IN  /\ Good(j) /\ Awakens(k, j) /\ j.pxCurrentTCB = k.pxCurrentTCB
               /\ j.uxSchedulerSuspended = 0 /\ j.pendingReady = <<>>
               /\ Covered(k, X) => Covered(j, X)
<1> DEFINE open == [k EXCEPT !.uxSchedulerSuspended = 0]
           m == MoveAllPending(open)
           p == ProcessTicks(m, k.uxPendedTicks)
           j == [p EXCEPT !.uxPendedTicks = 0]
<1>1. k \in KernelType /\ KernelOK(k) /\ k.uxPendedTicks \in Nat
  BY DEF Good, KernelOK, KernelType
<1>2. /\ open \in KernelType /\ SameStates(k, open) /\ SameEvents(k, open)
      /\ open.uxPriority = k.uxPriority /\ open.uxBasePriority = k.uxBasePriority
      /\ open.eventPriority = k.eventPriority
      /\ open.uxMutexesHeld = k.uxMutexesHeld /\ open.halted = k.halted
      /\ open.pxCurrentTCB = k.pxCurrentTCB /\ open.xYieldPending = k.xYieldPending
      /\ open.uxSchedulerSuspended = 0
  BY <1>1 DEF KernelType, SameStates, SameEvents
<1>3. ResumeAll(k) = j
  <2>1. [k EXCEPT !.uxSchedulerSuspended = @ - 1] = open
    BY <1>1 DEF KernelType
  <2> HIDE DEF open
  <2> QED
    BY <1>2, <2>1 DEF ResumeAll
<1> HIDE DEF open
<1>4. /\ KernelOK(open) /\ ReadyTasks(open) = ReadyTasks(k)
      /\ BlockedTasks(open) = BlockedTasks(k)
  BY <1>1, <1>2, OtherFields
<1>5. Good(open)
  BY <1>2, <1>4 DEF Good, WaitersAreBlocked, SameEvents
<1>6. Awakens(k, open)
  BY <1>2, <1>4 DEF Awakens, Wakes, KeepsOrder, SameStates, SameEvents, Known, Waiters, Pending, Waiting
<1>7. Moved(open, m, Members(open.pendingReady)) /\ (Covered(open, X) => Covered(m, X))
  BY <1>4, MoveAllPendingOK
<1> HIDE DEF m
<1>8. Good(m) /\ Awakens(open, m) /\ Members(m.pendingReady) = {}
  <2>1. Members(open.pendingReady) \subseteq Waiters(open)
    BY <1>2, WaitersFacts
  <2> QED
    BY <1>5, <1>7, <2>1, MovedAwakens DEF Moved, EventSets
<1>9. Ticked(m, p) /\ (Covered(m, X) => Covered(p, X))
  BY <1>1, <1>8, ProcessTicksOK
<1> HIDE DEF p
<1>10. p \in KernelType /\ KernelOK(p) /\ Good(p)
  BY <1>9 DEF Ticked, Good, KernelOK
<1>11. /\ j \in KernelType /\ Steady(p, j) /\ SameStates(p, j) /\ SameEvents(p, j)
       /\ j.xYieldPending = p.xYieldPending
  BY <1>10 DEF KernelType, Steady, SameStates, SameEvents
<1> HIDE DEF j
<1>12. KernelOK(j) /\ ReadyTasks(j) = ReadyTasks(p) /\ BlockedTasks(j) = BlockedTasks(p)
  BY <1>10, <1>11, OtherFields DEF Steady
<1>13. Good(j)
  BY <1>10, <1>11, <1>12 DEF Good, WaitersAreBlocked, SameEvents
<1>14. Awakens(k, j)
  <2>1. Awakens(p, j)
    BY <1>11, <1>12 DEF Awakens, Wakes, KeepsOrder, Steady, SameStates, SameEvents, Known, Waiters, Pending, Waiting
  <2>2. Awakens(m, p)
    BY <1>9 DEF Ticked
  <2>3. Awakens(k, m)
    BY <1>6, <1>8, AwakensTransitive
  <2>4. Awakens(k, p)
    BY <2>2, <2>3, AwakensTransitive
  <2> QED
    BY <2>1, <2>4, AwakensTransitive
<1>15. j.pendingReady = <<>>
  <2>1. Members(p.pendingReady) = {}
    BY <1>8, <1>9 DEF Ticked
  <2>2. p.pendingReady \in Seq(Tasks)
    BY <1>10 DEF KernelType
  <2> QED
    BY <1>11, <2>1, <2>2, MembersProperties DEF SameEvents
<1>16. j.pxCurrentTCB = k.pxCurrentTCB /\ j.uxSchedulerSuspended = 0
  BY <1>2, <1>7, <1>9, <1>11 DEF Moved, Ticked, Steady
<1>17. Covered(k, X) => Covered(j, X)
  <2>1. Covered(k, X) => Covered(open, X)
    BY <1>2, <1>4 DEF Covered, Highest
  <2>2. Covered(p, X) => Covered(j, X)
    BY <1>11, <1>12 DEF Covered, Highest, Steady
  <2> QED
    BY <1>7, <1>9, <2>1, <2>2
<1> QED
  BY <1>3, <1>13, <1>14, <1>15, <1>16, <1>17
-------------------------------------------------------------------------------
\* After a context switch the highest ready task runs.
LEMMA SwitchSettles ==
    ASSUME NEW k, NEW i, Good(i), Awakens(k, i), i.uxSchedulerSuspended = 0, ReadyTasks(i) # {},
           NEW X
    PROVE  LET j == vTaskSwitchContext(i)
           IN  /\ Settled(k, j, X) /\ Switches(i, j)
               /\ j.pxCurrentTCB \in ReadyTasks(j) /\ Highest(j, X) /\ Highest(j, {})
<1> DEFINE j == vTaskSwitchContext(i)
<1>1. \A Y : /\ Good(j) /\ Switches(i, j) /\ Awakens(i, j)
             /\ j.pxCurrentTCB \in ReadyTasks(j) /\ Highest(j, Y)
  BY SwitchOK
<1> HIDE DEF j
<1>2. Awakens(k, j)
  BY <1>1, AwakensTransitive
<1> QED
  BY <1>1, <1>2 DEF Settled, j

\* xTaskResumeAll moves every pending task and asks for the switch that they need.
LEMMA ResumeAllSettles ==
    ASSUME NEW k, Good(k), k.uxSchedulerSuspended = 1, ReadyTasks(k) # {}, NEW X, Covered(k, X)
    PROVE  LET j == xTaskResumeAll(k)
           IN  /\ Good(j) /\ Awakens(k, j) /\ j.uxSchedulerSuspended = 0 /\ j.pendingReady = <<>>
               /\ Highest(j, X)
               /\ j.pxCurrentTCB = k.pxCurrentTCB \/ j.pxCurrentTCB \in ReadyTasks(j)
               /\ j.pxCurrentTCB = k.pxCurrentTCB \/ Highest(j, {})
<1> DEFINE i == ResumeAll(k)
           j == xTaskResumeAll(k)
<1>1. /\ Good(i) /\ Awakens(k, i) /\ i.pxCurrentTCB = k.pxCurrentTCB
      /\ i.uxSchedulerSuspended = 0 /\ i.pendingReady = <<>>
      /\ Covered(k, X) => Covered(i, X)
  BY ResumeAllOK
<1>2. j = IF i.xYieldPending THEN vTaskSwitchContext(i) ELSE i
  BY DEF xTaskResumeAll, YieldIf
<1> HIDE DEF i, j
<1>3. ReadyTasks(i) # {}
  BY <1>1 DEF Awakens, Wakes
<1>4. CASE i.xYieldPending
  <2>1. /\ Settled(k, j, X) /\ Switches(i, j)
        /\ j.pxCurrentTCB \in ReadyTasks(j) /\ Highest(j, X) /\ Highest(j, {})
    BY <1>1, <1>2, <1>3, <1>4, SwitchSettles
  <2> QED
    BY <1>1, <2>1 DEF Switches, SameEvents, Settled, j
<1>5. CASE ~i.xYieldPending
  BY <1>1, <1>2, <1>5 DEF Covered, j
<1> QED
  BY <1>4, <1>5

\* xTaskResumeAll and the yield behind it leave the highest ready task running.
LEMMA ResumeAndYieldSettles ==
    ASSUME NEW k, Good(k), k.uxSchedulerSuspended = 1, ReadyTasks(k) # {}, NEW X
    PROVE  LET j == ResumeAndYield(k)
           IN  /\ Settled(k, j, X) /\ j.uxSchedulerSuspended = 0 /\ j.pendingReady = <<>>
               /\ j.pxCurrentTCB \in ReadyTasks(j) /\ Highest(j, X) /\ Highest(j, {})
<1> DEFINE i == ResumeAll(k)
           j == ResumeAndYield(k)
<1>1. /\ Good(i) /\ Awakens(k, i) /\ i.pxCurrentTCB = k.pxCurrentTCB
      /\ i.uxSchedulerSuspended = 0 /\ i.pendingReady = <<>>
  BY ResumeAllOK
<1>2. j = vTaskSwitchContext(i)
  BY DEF ResumeAndYield
<1> HIDE DEF i, j
<1>3. ReadyTasks(i) # {}
  BY <1>1 DEF Awakens, Wakes
<1>4. /\ Settled(k, j, X) /\ Switches(i, j)
      /\ j.pxCurrentTCB \in ReadyTasks(j) /\ Highest(j, X) /\ Highest(j, {})
  BY <1>1, <1>2, <1>3, SwitchSettles
<1> QED
  BY <1>1, <1>4 DEF Switches, SameEvents, j

\* A tick interrupt keeps the lists in order and switches when a higher task is due.
LEMMA TickSettles ==
    ASSUME NEW k, Good(k), ReadyTasks(k) # {}, NEW X
    PROVE  LET j == TickInterrupt(k)
           IN  /\ Settled(k, j, X) /\ j.uxSchedulerSuspended = k.uxSchedulerSuspended
               /\ Members(j.pendingReady) \subseteq Members(k.pendingReady)
               /\ k.uxSchedulerSuspended # 0 => j.pxCurrentTCB = k.pxCurrentTCB
               /\ k.uxSchedulerSuspended # 0 => ReadyTasks(j) = ReadyTasks(k)
<1> DEFINE j == TickInterrupt(k)
<1>1. k \in KernelType /\ KernelOK(k)
  BY DEF Good, KernelOK
<1>2. CASE k.uxSchedulerSuspended # 0
  <2> DEFINE n == k.uxPendedTicks + 1
  <2>1. j = [k EXCEPT !.uxPendedTicks = n]
    BY <1>1, <1>2 DEF TickInterrupt, KernelType
  <2>6. n \in Nat
    BY <1>1 DEF KernelType
  <2> HIDE DEF j, n
  <2>2. /\ j \in KernelType /\ Steady(k, j) /\ SameStates(k, j) /\ SameEvents(k, j)
    BY <1>1, <2>1, <2>6 DEF KernelType, Steady, SameStates, SameEvents
  <2>3. KernelOK(j) /\ ReadyTasks(j) = ReadyTasks(k) /\ BlockedTasks(j) = BlockedTasks(k)
    BY <1>1, <2>2, OtherFields DEF Steady
  <2>4. Good(j) /\ Awakens(k, j)
    BY <2>2, <2>3 DEF Good, WaitersAreBlocked, Awakens, Wakes, KeepsOrder, Steady, SameStates, SameEvents, Known,
                      Waiters, Pending, Waiting
  <2>5. Highest(k, X) => Highest(j, X)
    BY <2>2, <2>3 DEF Highest, Steady
  <2> QED
    BY <1>2, <2>2, <2>3, <2>4, <2>5 DEF Settled, Steady, SameEvents, j
<1>3. CASE k.uxSchedulerSuspended = 0
  <2> DEFINE i == ProcessTick(k)
  <2>1. Ticked(k, i) /\ (Covered(k, X) => Covered(i, X))
    BY ProcessTickOK
  <2>2. j = IF i.xYieldPending THEN vTaskSwitchContext(i) ELSE i
    BY <1>3 DEF TickInterrupt, YieldIf
  <2> HIDE DEF i, j
  <2>3. /\ Good(i) /\ Awakens(k, i) /\ Steady(k, i) /\ ReadyTasks(i) # {}
        /\ Members(i.pendingReady) \subseteq Members(k.pendingReady)
    BY <2>1 DEF Ticked, Awakens, Wakes
  <2>4. CASE i.xYieldPending
    <3>1. Settled(k, j, X) /\ Switches(i, j)
      BY <1>3, <2>2, <2>3, <2>4, SwitchSettles DEF Steady
    <3> QED
      BY <1>3, <2>3, <3>1 DEF Switches, SameEvents, Steady, j
  <2>5. CASE ~i.xYieldPending
    BY <1>3, <2>1, <2>2, <2>3, <2>5 DEF Settled, Covered, Steady, j
  <2> QED
    BY <2>4, <2>5
<1> QED
  BY <1>1, <1>2, <1>3 DEF KernelType
-------------------------------------------------------------------------------
(***************************************************************************)
(* Changes of priority and new tasks.                                      *)
(***************************************************************************)

\* A task that is in no list of tasks becomes ready.
LEMMA AddReadyOK ==
    ASSUME NEW k, KernelOK(k), NEW t \in Tasks, t \notin Known(k)
    PROVE  LET j == prvAddTaskToReadyList(k, t)
           IN  /\ KernelOK(j) /\ Quiet(k, j) /\ SameEvents(k, j)
               /\ StateSets(j, ReadyTasks(k) \cup {t}, Members(k.delayed), k.suspended)
<1> DEFINE p == k.uxPriority[t]
           j == prvAddTaskToReadyList(k, t)
<1>1. k \in KernelType /\ StateItemsOK(k) /\ EventItemsOK(k) /\ p \in Priorities
  BY DEF KernelOK, KernelType
<1>2. ASSUME NEW q \in Priorities
      PROVE  /\ RingOK(k, q) /\ t \notin ReadyAt(k, q)
             /\ k.ready[q] \in Seq(Tasks \cup {xListEnd}) /\ k.ready[q] # <<>>
             /\ Members(k.ready[q]) = ReadyAt(k, q) \cup {xListEnd}
             /\ xListEnd \notin ReadyAt(k, q) /\ xListEnd \notin Tasks
  BY <1>1, RingFacts DEF StateItemsOK, Known, ReadyTasks
<1>3. /\ j \in KernelType /\ Quiet(k, j) /\ SameEvents(k, j)
      /\ j.delayed = k.delayed /\ j.suspended = k.suspended
      /\ j.uxTopReadyPriority = k.uxTopReadyPriority \cup {p}
      /\ j.ready = [k.ready EXCEPT ![p] = RingInsert(k.ready[p], t)]
  BY <1>1, <1>2, AddFields
<1> HIDE DEF j, p
<1>4. ASSUME NEW q \in Priorities
      PROVE  /\ Distinct(j.ready[q])
             /\ Members(j.ready[q]) = IF q = p THEN ReadyAt(k, q) \cup {t, xListEnd}
                                      ELSE ReadyAt(k, q) \cup {xListEnd}
             /\ ReadyAt(j, q) = IF q = p THEN ReadyAt(k, q) \cup {t} ELSE ReadyAt(k, q)
  <2>1. k.ready \in [Priorities -> Seq(Tasks \cup {xListEnd})]
    BY <1>1 DEF KernelType
  <2>2. CASE q = p
    <3>1. j.ready[q] = RingInsert(k.ready[q], t)
      BY <1>1, <1>3, <2>1, <2>2
    <3>2. t \in Tasks \cup {xListEnd} /\ t \notin Members(k.ready[q]) /\ Distinct(k.ready[q])
      BY <1>2 DEF RingOK
    <3>3. /\ Members(j.ready[q]) = Members(k.ready[q]) \cup {t}
          /\ Distinct(j.ready[q])
      BY <1>2, <3>1, <3>2, RingInsertProperties
    <3> QED
      BY <1>2, <2>2, <3>3 DEF ReadyAt
  <2>3. CASE q # p
    <3>1. j.ready[q] = k.ready[q]
      BY <1>1, <1>3, <2>1, <2>3
    <3> QED
      BY <1>2, <2>3, <3>1 DEF ReadyAt, RingOK
  <2> QED
    BY <2>2, <2>3
<1>5. j.uxPriority = k.uxPriority /\ k.uxPriority[t] = p
  BY <1>3 DEF Quiet, Steady, p
<1>6. ASSUME NEW q \in Priorities PROVE RingOK(j, q)
  <2>1. q \in j.uxTopReadyPriority <=> q = p \/ ReadyAt(k, q) # {}
    BY <1>2, <1>3 DEF RingOK
  <2>2. ASSUME NEW u \in ReadyAt(j, q) PROVE j.uxPriority[u] = q
    <3>1. u \in ReadyAt(k, q) \/ (q = p /\ u = t)
      BY <1>4
    <3>2. \A v \in ReadyAt(k, q) : k.uxPriority[v] = q
      BY <1>2 DEF RingOK
    <3> QED
      BY <1>5, <3>1, <3>2
  <2> QED
    BY <1>4, <2>1, <2>2 DEF RingOK
<1>7. ReadyTasks(j) = ReadyTasks(k) \cup {t}
  <2>1. \A u \in Tasks : k.uxPriority[u] \in Priorities
    BY <1>1 DEF KernelType
  <2> QED
    BY <1>4, <1>5, <2>1 DEF ReadyTasks, Ready
<1>8. StateItemsOK(j)
  BY <1>1, <1>3, <1>6, <1>7 DEF StateItemsOK, BlockedTasks, Known
<1>9. EventItemsOK(j)
  BY <1>1, <1>3 DEF SameEvents, EventItemsOK
<1> QED
  BY <1>3, <1>7, <1>8, <1>9 DEF KernelOK, StateSets, j

\* The priority of a task that is not ready changes: no list does.
LEMMA SetFieldOK ==
    ASSUME NEW k, KernelOK(k), NEW t \in Tasks, t \notin ReadyTasks(k),
           NEW j \in KernelType, SameStates(k, j), SameEvents(k, j),
           \A u \in Tasks \ {t} : j.uxPriority[u] = k.uxPriority[u]
    PROVE  KernelOK(j) /\ ReadyTasks(j) = ReadyTasks(k) /\ BlockedTasks(j) = BlockedTasks(k)
<1>1. k \in KernelType /\ StateItemsOK(k) /\ EventItemsOK(k)
  BY DEF KernelOK
<1>2. ASSUME NEW q \in Priorities
      PROVE  /\ RingOK(k, q) /\ t \notin ReadyAt(k, q) /\ ReadyAt(k, q) \subseteq Tasks
             /\ ReadyAt(j, q) = ReadyAt(k, q)
  BY <1>1, RingFacts DEF StateItemsOK, ReadyTasks, SameStates, ReadyAt
<1>3. ASSUME NEW q \in Priorities PROVE RingOK(j, q)
  <2>1. \A u \in ReadyAt(j, q) : j.uxPriority[u] = q
    BY <1>2 DEF RingOK
  <2> QED
    BY <1>2, <2>1 DEF RingOK, SameStates
<1>4. ReadyTasks(j) = ReadyTasks(k)
  <2>1. \A u \in Tasks : k.uxPriority[u] \in Priorities /\ j.uxPriority[u] \in Priorities
    BY <1>1 DEF KernelType
  <2>2. ~Ready(j, t) /\ ~Ready(k, t)
    BY <1>2, <2>1 DEF Ready
  <2>3. \A u \in Tasks \ {t} : Ready(j, u) <=> Ready(k, u)
    BY <1>2, <2>1 DEF Ready
  <2> QED
    BY <2>2, <2>3 DEF ReadyTasks
<1>5. BlockedTasks(j) = BlockedTasks(k)
  BY DEF BlockedTasks, SameStates
<1>6. StateItemsOK(j) /\ EventItemsOK(j)
  BY <1>1, <1>3, <1>4, <1>5 DEF StateItemsOK, EventItemsOK, SameStates, SameEvents
<1> QED
  BY <1>4, <1>5, <1>6 DEF KernelOK

\* A ready task of a new priority is in the ready list of that priority and in no other.
LEMMA MoveReadyOK ==
    ASSUME NEW k, KernelOK(k), NEW t \in Tasks, NEW p \in Priorities
    PROVE  LET j == MoveReady(k, t, p)
           IN  /\ KernelOK(j) /\ SameEvents(k, j)
               /\ StateSets(j, ReadyTasks(k), Members(k.delayed), k.suspended)
               /\ j.uxPriority = [k.uxPriority EXCEPT ![t] = p]
               /\ j.uxBasePriority = k.uxBasePriority /\ j.uxMutexesHeld = k.uxMutexesHeld
               /\ j.eventPriority = k.eventPriority
               /\ j.pxCurrentTCB = k.pxCurrentTCB /\ j.halted = k.halted
               /\ j.uxSchedulerSuspended = k.uxSchedulerSuspended
<1> DEFINE j == MoveReady(k, t, p)
<1>1. k \in KernelType /\ StateItemsOK(k) /\ k.uxPriority \in [Tasks -> Priorities]
  BY DEF KernelOK, KernelType
<1>2. CASE ~Ready(k, t)
  <2>1. j = [k EXCEPT !.uxPriority = [k.uxPriority EXCEPT ![t] = p]]
    BY <1>1, <1>2 DEF MoveReady, KernelType
  <2> DEFINE new == [k.uxPriority EXCEPT ![t] = p]
  <2>2. new \in [Tasks -> Priorities] /\ \A u \in Tasks \ {t} : new[u] = k.uxPriority[u]
    BY <1>1
  <2> HIDE DEF j, new
  <2>3. /\ j \in KernelType /\ SameStates(k, j) /\ SameEvents(k, j) /\ j.uxPriority = new
        /\ j.uxBasePriority = k.uxBasePriority /\ j.uxMutexesHeld = k.uxMutexesHeld
        /\ j.eventPriority = k.eventPriority
        /\ j.pxCurrentTCB = k.pxCurrentTCB /\ j.halted = k.halted
        /\ j.uxSchedulerSuspended = k.uxSchedulerSuspended
    BY <1>1, <2>1, <2>2 DEF KernelType, SameStates, SameEvents, new
  <2>4. KernelOK(j) /\ ReadyTasks(j) = ReadyTasks(k)
    BY <1>2, <2>2, <2>3, SetFieldOK DEF ReadyTasks
  <2> QED
    BY <2>3, <2>4 DEF StateSets, SameStates, new, j
<1>3. CASE Ready(k, t)
  <2> DEFINE i == taskRESET_READY_PRIORITY(RemoveStateItem(k, t), k.uxPriority[t])
             new == [i.uxPriority EXCEPT ![t] = p]
             h == [i EXCEPT !.uxPriority = new]
  <2>1. /\ KernelOK(i) /\ Quiet(k, i) /\ SameEvents(k, i)
        /\ StateSets(i, ReadyTasks(k) \ {t}, Members(k.delayed) \ {t}, k.suspended \ {t})
    BY TakeOutOK
  <2>2. j = prvAddTaskToReadyList(h, t)
    BY <1>3 DEF MoveReady
  <2>3. i \in KernelType /\ i.uxPriority = k.uxPriority
    BY <2>1 DEF KernelOK, Quiet, Steady
  <2>4. /\ new \in [Tasks -> Priorities] /\ \A u \in Tasks \ {t} : new[u] = i.uxPriority[u]
        /\ new = [k.uxPriority EXCEPT ![t] = p]
    BY <1>1, <2>3
  <2> HIDE DEF i, new
  <2>5. /\ h \in KernelType /\ SameStates(i, h) /\ SameEvents(i, h) /\ h.uxPriority = new
        /\ h.uxBasePriority = i.uxBasePriority /\ h.uxMutexesHeld = i.uxMutexesHeld
        /\ h.eventPriority = i.eventPriority
        /\ h.pxCurrentTCB = i.pxCurrentTCB /\ h.halted = i.halted
        /\ h.uxSchedulerSuspended = i.uxSchedulerSuspended
    BY <2>3, <2>4 DEF KernelType, SameStates, SameEvents
  <2> HIDE DEF h, j
  <2>6. t \notin ReadyTasks(i) /\ t \notin BlockedTasks(i)
    BY <2>1 DEF StateSets, BlockedTasks
  <2>7. KernelOK(h) /\ ReadyTasks(h) = ReadyTasks(i) /\ BlockedTasks(h) = BlockedTasks(i)
    BY <2>1, <2>4, <2>5, <2>6, SetFieldOK
  <2>8. /\ KernelOK(j) /\ Quiet(h, j) /\ SameEvents(h, j)
        /\ StateSets(j, ReadyTasks(h) \cup {t}, Members(h.delayed), h.suspended)
    BY <2>2, <2>6, <2>7, AddReadyOK DEF Known
  <2>9. t \in ReadyTasks(k) /\ t \notin Members(k.delayed) /\ t \notin k.suspended
    BY <1>1, <1>3 DEF StateItemsOK, ReadyTasks, BlockedTasks
  <2>10. StateSets(j, ReadyTasks(k), Members(k.delayed), k.suspended)
    BY <2>1, <2>5, <2>7, <2>8, <2>9 DEF StateSets, SameStates
  <2>11. SameEvents(k, j)
    BY <2>1, <2>5, <2>8 DEF SameEvents
  <2> QED
    BY <2>1, <2>4, <2>5, <2>8, <2>10, <2>11 DEF Quiet, Steady, j
<1> QED
  BY <1>2, <1>3
-------------------------------------------------------------------------------
(***************************************************************************)
(* The start of the scheduler.                                             *)
(***************************************************************************)

\* The lists that vTaskStartScheduler starts with are in order and the highest task runs.
LEMMA SchedulerInitOK ==
    ASSUME NEW S \in SUBSET Tasks, IsFiniteSet(S), Idle \in S, NEW f \in SetToSeqs(S \ {Idle}),
           NEW k, k = SchedulerInit(S, Append(f, Idle))
    PROVE  StartsWith(k, S)
<1> DEFINE order == Append(f, Idle)
           empty == [ready |-> [p \in Priorities |-> EmptyRing],
                  uxTopReadyPriority |-> {},
                  pxCurrentTCB |-> Idle,
                  uxPriority |-> uxInitialPriority,
                  uxBasePriority |-> uxInitialPriority,
                  uxMutexesHeld |-> [t \in Tasks |-> 0],
                  eventPriority |-> uxInitialPriority,
                  delayed |-> <<>>, wake |-> [t \in Tasks |-> 0],
                  left |-> [t \in Tasks |-> 0],
                  suspended |-> {},
                  event |-> [l \in EventLists |-> <<>>],
                  pendingReady |-> <<>>,
                  uxSchedulerSuspended |-> 0, uxPendedTicks |-> 0,
                  xYieldPending |-> FALSE,
                  ucDelayAborted |-> [t \in Tasks |-> FALSE],
                  halted |-> FALSE]
           alive == Drop(order, Tasks \ S)
           lower == {t \in S : \E u \in S : uxInitialPriority[u] > uxInitialPriority[t]}
           N == Len(alive)
           Is(a) == a = [n \in 0 .. N |-> IF n = 0 THEN empty
                                          ELSE prvAddTaskToReadyList(a[n - 1], alive[n])]
           added == CHOOSE a : Is(a)
           last == Last(Drop(alive, lower))
<1>1. order \in Seq(Tasks) /\ Distinct(order) /\ Members(order) = S
  <2>1. IsFiniteSet(S \ {Idle})
    BY FS_RemoveElement
  <2>2. f \in Seq(S \ {Idle}) /\ Distinct(f) /\ Members(f) = S \ {Idle}
    BY <2>1, ListOfSet
  <2>3. f \in Seq(Tasks)
    BY <2>2
  <2>4. /\ order \in Seq(Tasks) /\ Members(order) = Members(f) \cup {Idle}
        /\ Distinct(f) /\ Idle \notin Members(f) => Distinct(order)
    BY <2>3, AppendMembers
  <2> QED
    BY <2>2, <2>4
<1>2. k = [added[N] EXCEPT !.pxCurrentTCB = last]
  BY DEF SchedulerInit
<1> HIDE DEF order
<1>3. alive \in Seq(Tasks) /\ Distinct(alive) /\ Members(alive) = S
  <2>1. /\ Drop(order, Tasks \ S) \in Seq(Tasks) /\ Distinct(Drop(order, Tasks \ S))
        /\ Members(Drop(order, Tasks \ S)) = Members(order) \ (Tasks \ S)
    BY <1>1, DropProperties
  <2> QED
    BY <1>1, <2>1
<1> HIDE DEF alive
<1>4. last \in S /\ \A t \in S : uxInitialPriority[t] <= uxInitialPriority[last]
  <2> DEFINE top == {uxInitialPriority[t] : t \in S}
  <2>1. top \in SUBSET Priorities /\ top # {}
    BY SchedulerAssumption
  <2>2. PICK m \in top : \A p \in top : p <= m
    BY <2>1, HighestBit
  <2>3. PICK t \in S : uxInitialPriority[t] = m
    BY <2>2
  <2>4. \A p \in Priorities : p \in Int
    BY DEF Priorities, configMAX_PRIORITIES
  <2>5. t \notin lower
    <3>1. ASSUME NEW u \in S PROVE ~(uxInitialPriority[u] > uxInitialPriority[t])
      <4>1. uxInitialPriority[u] \in top /\ uxInitialPriority[u] <= m
        BY <2>2
      <4>2. uxInitialPriority[u] \in Int /\ m \in Int
        BY <2>1, <2>4, <4>1
      <4> QED
        BY <2>3, <4>1, <4>2
    <3> QED
      BY <3>1
  <2> DEFINE kept == Drop(alive, lower)
  <2>6. kept \in Seq(Tasks) /\ Members(kept) = S \ lower
    <3> HIDE DEF lower
    <3> QED
      BY <1>3, DropProperties
  <2> HIDE DEF kept
  <2>7. Len(kept) \in 1 .. Len(kept) /\ Last(kept) \in Members(kept)
    <3>1. kept # <<>> /\ DOMAIN kept = 1 .. Len(kept) /\ Len(kept) \in Nat
      BY <2>3, <2>5, <2>6, MembersProperties
    <3>2. Len(kept) \in 1 .. Len(kept)
      BY <2>6, <3>1
    <3> QED
      BY <3>1, <3>2 DEF Last, Members
  <2>8. last \in S /\ last \notin lower
    BY <2>6, <2>7 DEF kept
  <2> HIDE DEF last
  <2> QED
    BY <2>1, <2>4, <2>8, SchedulerAssumption
<1> HIDE DEF last, lower
<1>5. N \in Nat /\ DOMAIN alive = 1 .. N
  BY <1>3, LenProperties
<1> HIDE DEF N
<1>6. \A n \in 1 .. N : alive[n] \in S /\ \A i \in 1 .. N : alive[i] = alive[n] => i = n
  BY <1>3, <1>5 DEF Distinct, Members
<1>7. empty \in KernelType
  <2>1. <<xListEnd>> \in Seq(Tasks \cup {xListEnd}) /\ <<>> \in Seq(Tasks)
    OBVIOUS
  <2>2. [p \in Priorities |-> EmptyRing] \in [Priorities -> Seq(Tasks \cup {xListEnd})]
    BY <2>1 DEF EmptyRing
  <2>3. [l \in EventLists |-> <<>>] \in [EventLists -> Seq(Tasks)]
    BY <2>1
  <2> QED
    BY <2>1, <2>2, <2>3, SchedulerAssumption DEF KernelType
<1>8. KernelOK(empty) /\ ReadyTasks(empty) = {} /\ BlockedTasks(empty) = {}
  <2>1. Members(<<>>) = {} /\ Distinct(<<>>) /\ Members(EmptyRing) = {xListEnd} /\ Distinct(EmptyRing)
    BY DEF Members, Distinct, EmptyRing
  <2>2. \A p \in Priorities : empty.ready[p] = EmptyRing /\ ReadyAt(empty, p) = {}
    BY <2>1 DEF ReadyAt
  <2>3. /\ empty.delayed = <<>> /\ empty.suspended = {} /\ empty.pendingReady = <<>>
        /\ \A l \in EventLists : empty.event[l] = <<>>
        /\ empty.uxTopReadyPriority = {} /\ empty.uxPriority = uxInitialPriority
    OBVIOUS
  <2> HIDE DEF empty
  <2>4. ReadyTasks(empty) = {}
    BY <2>2, <2>3, SchedulerAssumption DEF ReadyTasks, Ready
  <2>5. BlockedTasks(empty) = {}
    BY <2>1, <2>3 DEF BlockedTasks
  <2>6. StateItemsOK(empty)
    BY <2>1, <2>2, <2>3, <2>4 DEF StateItemsOK, RingOK
  <2>7. EventItemsOK(empty)
    BY <2>1, <2>3 DEF EventItemsOK
  <2> QED
    BY <1>7, <2>4, <2>5, <2>6, <2>7 DEF KernelOK
<1> DEFINE Good0(x) == /\ KernelOK(x) /\ BlockedTasks(x) = {} /\ x.pendingReady = <<>>
                       /\ \A l \in EventLists : x.event[l] = <<>>
                       /\ x.uxSchedulerSuspended = 0 /\ x.halted = FALSE
                       /\ x.uxPriority = uxInitialPriority
                       /\ x.uxBasePriority = uxInitialPriority
                       /\ x.eventPriority = uxInitialPriority
                       /\ x.uxMutexesHeld = [t \in Tasks |-> 0]
<1>9. Good0(empty)
  BY <1>8
<1> HIDE DEF empty
<1> DEFINE First(n) == {alive[i] : i \in 1 .. n}
           Add(x, n) == prvAddTaskToReadyList(x, alive[n])
<1>10. ASSUME NEW x, Good0(x), NEW n \in 1 .. N, ReadyTasks(x) = First(n - 1)
       PROVE  Good0(Add(x, n)) /\ ReadyTasks(Add(x, n)) = First(n)
  <2> DEFINE y == Add(x, n)
             t == alive[n]
  <2>1. t \in Tasks /\ t \notin First(n - 1) /\ First(n) = First(n - 1) \cup {t}
    BY <1>5, <1>6
  <2>2. t \notin Known(x)
    BY <1>10, <2>1 DEF Known
  <2> HIDE DEF t
  <2>3. y = prvAddTaskToReadyList(x, t)
    BY DEF t
  <2> HIDE DEF y, First
  <2>4. /\ KernelOK(y) /\ Quiet(x, y) /\ SameEvents(x, y)
        /\ StateSets(y, ReadyTasks(x) \cup {t}, Members(x.delayed), x.suspended)
    BY <1>10, <2>1, <2>2, <2>3, AddReadyOK
  <2>5. Good0(y) /\ ReadyTasks(y) = First(n)
    BY <1>10, <2>1, <2>4 DEF Quiet, Steady, SameEvents, StateSets, BlockedTasks
  <2> QED
    BY <2>5 DEF y
<1> DEFINE U == {x \in KernelType : Good0(x)}
           Fits(x, n) == n \in 1 .. N /\ ReadyTasks(x) = First(n - 1)
           step == [x \in U |-> [n \in Nat |-> IF Fits(x, n) THEN Add(x, n) ELSE x]]
<1>11. empty \in U
  BY <1>7, <1>9
<1>12. step \in [U -> [Nat -> U]]
  <2>1. ASSUME NEW x \in U, NEW n \in Nat PROVE (IF Fits(x, n) THEN Add(x, n) ELSE x) \in U
    <3> HIDE DEF First, Add
    <3>1. CASE Fits(x, n)
      <4>1. Good0(Add(x, n))
        <5> HIDE DEF Good0
        <5> QED
          BY <1>10, <3>1
      <4> QED
        BY <3>1, <4>1 DEF KernelOK
    <3> QED
      BY <3>1
  <2> HIDE DEF U, Add, Fits
  <2> QED
    BY <2>1
<1>13. PICK g \in [0 .. N -> U] : IsIteration(g, empty, step, N)
  <2> HIDE DEF U, step
  <2> QED
    BY <1>5, <1>11, <1>12, IterationExists
<1>14. \A n \in 0 .. N : g[n] = IF n = 0 THEN empty ELSE step[g[n - 1]][n]
  <2> HIDE DEF step
  <2> QED
    BY <1>13 DEF IsIteration
<1>15. \A n \in 0 .. N : n # 0 => /\ n - 1 \in 0 .. N /\ n \in 1 .. N /\ n \in Nat
                                  /\ g[n - 1] \in U
  <2> HIDE DEF U
  <2> QED
    BY <1>5
<1> DEFINE Q == {n \in Nat : n <= N => ReadyTasks(g[n]) = First(n)}
<1>16. 0 \in Q
  <2>1. First(0) = {} /\ 0 \in 0 .. N
    BY <1>5
  <2> HIDE DEF First, step
  <2> QED
    BY <1>8, <1>14, <2>1
<1>17. ASSUME NEW n \in Nat, n \in Q PROVE n + 1 \in Q
  <2> SUFFICES ASSUME n + 1 <= N PROVE ReadyTasks(g[n + 1]) = First(n + 1)
    OBVIOUS
  <2>1. n + 1 \in 0 .. N /\ n + 1 # 0 /\ (n + 1) - 1 = n /\ n + 1 \in 1 .. N /\ n <= N
    BY <1>5
  <2>2. ReadyTasks(g[n]) = First(n) /\ g[n] \in U /\ g[n + 1] = step[g[n]][n + 1]
    <3> HIDE DEF First, step, U
    <3> QED
      BY <1>14, <1>15, <1>17, <2>1
  <2>3. Fits(g[n], n + 1)
    BY <2>1, <2>2
  <2>4. g[n + 1] = Add(g[n], n + 1)
    <3> HIDE DEF Fits, Add, U
    <3> QED
      BY <2>2, <2>3
  <2> HIDE DEF Add, First
  <2>5. Good0(g[n])
    BY <2>2
  <2> HIDE DEF Good0
  <2>6. ReadyTasks(Add(g[n], n + 1)) = First(n + 1)
    BY <1>10, <2>1, <2>2, <2>5
  <2> QED
    BY <2>4, <2>6
<1>18. \A n \in 0 .. N : ReadyTasks(g[n]) = First(n)
  <2>1. Nat \subseteq Q
    <3> HIDE DEF Q
    <3> QED
      BY <1>16, <1>17, Induction
  <2> HIDE DEF First
  <2> QED
    BY <1>5, <2>1
<1>19. Is(g)
  <2>1. ASSUME NEW n \in 0 .. N, n # 0 PROVE step[g[n - 1]][n] = Add(g[n - 1], n)
    <3>1. n - 1 \in 0 .. N /\ n \in 1 .. N /\ n \in Nat /\ g[n - 1] \in U
      BY <1>15, <2>1
    <3>2. Fits(g[n - 1], n)
      <4> HIDE DEF First, U
      <4> QED
        BY <1>18, <3>1
    <3> HIDE DEF Fits, Add, U
    <3> QED
      BY <3>1, <3>2
  <2> HIDE DEF step, U
  <2> QED
    BY <1>13, <2>1 DEF IsIteration
<1>20. Is(added)
  <2> HIDE DEF Is
  <2> QED
    BY <1>19
<1> HIDE DEF added
<1>21. \A n \in 0 .. N : added[n] = IF n = 0 THEN empty ELSE Add(added[n - 1], n)
  BY <1>20
<1> DEFINE P == {n \in Nat : n <= N => Good0(added[n]) /\ ReadyTasks(added[n]) = First(n)}
<1>22. 0 \in P
  <2>1. First(0) = {} /\ 0 \in 0 .. N
    BY <1>5
  <2>2. added[0] = empty
    BY <1>21, <2>1
  <2> HIDE DEF First, Good0
  <2> QED
    BY <1>8, <1>9, <2>1, <2>2
<1>23. ASSUME NEW n \in Nat, n \in P PROVE n + 1 \in P
  <2> HIDE DEF First, Good0, Add
  <2> SUFFICES ASSUME n + 1 <= N
               PROVE  Good0(added[n + 1]) /\ ReadyTasks(added[n + 1]) = First(n + 1)
    OBVIOUS
  <2>1. n + 1 \in 0 .. N /\ n + 1 # 0 /\ (n + 1) - 1 = n /\ n + 1 \in 1 .. N /\ n <= N
    BY <1>5
  <2>2. Good0(added[n]) /\ ReadyTasks(added[n]) = First(n)
    BY <1>23, <2>1
  <2>3. added[n + 1] = Add(added[n], n + 1)
    BY <1>21, <2>1
  <2> QED
    BY <1>10, <2>1, <2>2, <2>3
<1>24. Good0(added[N]) /\ ReadyTasks(added[N]) = First(N)
  <2>1. N \in P
    <3> HIDE DEF P
    <3> QED
      BY <1>5, <1>22, <1>23, Induction
  <2> HIDE DEF First, Good0
  <2> QED
    BY <1>5, <2>1
<1>25. First(N) = S
  BY <1>3, <1>5 DEF Members
<1> DEFINE x == added[N]
<1> HIDE DEF First, x, U, step, Q, P, Is, Add
<1>26. x \in KernelType /\ KernelOK(x) /\ ReadyTasks(x) = S /\ last \in Tasks
  BY <1>4, <1>24, <1>25 DEF KernelOK, x
<1>27. k = [x EXCEPT !.pxCurrentTCB = last]
  BY <1>2 DEF x
<1>28. /\ k \in KernelType /\ SameStates(x, k) /\ SameEvents(x, k)
       /\ k.uxPriority = x.uxPriority /\ k.uxBasePriority = x.uxBasePriority
       /\ k.eventPriority = x.eventPriority /\ k.uxMutexesHeld = x.uxMutexesHeld
       /\ k.uxSchedulerSuspended = x.uxSchedulerSuspended /\ k.halted = x.halted
       /\ k.pxCurrentTCB = last
  BY <1>26, <1>27 DEF KernelType, SameStates, SameEvents
<1>29. KernelOK(k) /\ ReadyTasks(k) = S /\ BlockedTasks(k) = BlockedTasks(x)
  BY <1>26, <1>28, OtherFields
<1>30. Good0(x)
  BY <1>24 DEF x
<1> QED
  BY <1>4, <1>28, <1>29, <1>30 DEF SameEvents, StartsWith, order
-------------------------------------------------------------------------------
(***************************************************************************)
(* The kernel functions as the services call them.                         *)
(***************************************************************************)

\* A switch while the scheduler is suspended is put off.
LEMMA SwitchPends ==
    ASSUME NEW k, Good(k), k.uxSchedulerSuspended # 0
    PROVE  LET j == vTaskSwitchContext(k)
           IN  /\ Good(j) /\ Switches(k, j) /\ Awakens(k, j)
               /\ j.pxCurrentTCB = k.pxCurrentTCB
<1> DEFINE j == vTaskSwitchContext(k)
<1>1. k \in KernelType /\ KernelOK(k)
  BY DEF Good, KernelOK
<1>2. j = [k EXCEPT !.xYieldPending = TRUE]
  BY DEF vTaskSwitchContext
<1> HIDE DEF j
<1>3. /\ j \in KernelType /\ Steady(k, j) /\ SameStates(k, j) /\ SameEvents(k, j)
      /\ j.uxPendedTicks = k.uxPendedTicks
  BY <1>1, <1>2 DEF KernelType, Steady, SameStates, SameEvents
<1>4. KernelOK(j) /\ ReadyTasks(j) = ReadyTasks(k) /\ BlockedTasks(j) = BlockedTasks(k)
  BY <1>1, <1>3, OtherFields DEF Steady
<1>5. Good(j) /\ Awakens(k, j)
  BY <1>3, <1>4 DEF Good, WaitersAreBlocked, Awakens, Wakes, KeepsOrder, Steady, SameStates, SameEvents, Known,
                    Waiters, Pending, Waiting
<1> QED
  BY <1>3, <1>4, <1>5 DEF Switches, Steady, SameStates, j

\* A switch after a function that wakes tasks changes nothing of what it has done.
LEMMA SwitchWakes ==
    ASSUME NEW k, NEW i, NEW j, Wakes(k, i), Switches(i, j)
    PROVE  Wakes(k, j)
<1>1. Waiters(j) = Waiters(i)
  BY DEF Switches, SameEvents, Waiters, Pending, Waiting
<1>2. KeepsOrder(k, j)
  BY DEF Wakes, Switches, SameEvents, KeepsOrder
<1> QED
  BY <1>1, <1>2 DEF Wakes, Switches, SameEvents, Known, BlockedTasks

\* What follows a call that may switch, i being the record before the switch.
LEMMA YieldSettles ==
    ASSUME NEW k, NEW i, Good(i), NEW X, NEW asks \in BOOLEAN, Wakes(k, i), ReadyTasks(k) # {},
           i.uxSchedulerSuspended = k.uxSchedulerSuspended,
           k.uxSchedulerSuspended = 0 => Members(i.pendingReady) \subseteq Members(k.pendingReady),
           i.pxCurrentTCB = k.pxCurrentTCB,
           k.uxSchedulerSuspended # 0 => ReadyTasks(i) = ReadyTasks(k),
           Highest(k, X) /\ ~asks => Highest(i, X)
    PROVE  Undisturbing(k, YieldIf(asks, i), X) /\ YieldIf(asks, i).suspended = i.suspended
<1> DEFINE j == YieldIf(asks, i)
<1>1. j = IF asks THEN vTaskSwitchContext(i) ELSE i
  BY DEF YieldIf
<1> HIDE DEF j
<1>2. CASE ~asks
  BY <1>1, <1>2 DEF Undisturbing, Runs, j
<1>3. CASE asks /\ i.uxSchedulerSuspended = 0
  <2>1. ReadyTasks(i) # {}
    BY DEF Wakes
  <2>2. \A Y : /\ Good(j) /\ Switches(i, j) /\ j.pxCurrentTCB \in ReadyTasks(j) /\ Highest(j, Y)
    BY <1>1, <1>3, <2>1, SwitchOK
  <2>3. Wakes(k, j)
    BY <2>2, SwitchWakes
  <2> QED
    BY <1>3, <2>2, <2>3 DEF Undisturbing, Runs, Switches, SameEvents, j
<1>4. CASE asks /\ i.uxSchedulerSuspended # 0
  <2>1. Good(j) /\ Switches(i, j) /\ j.pxCurrentTCB = i.pxCurrentTCB
    BY <1>1, <1>4, SwitchPends
  <2>2. Wakes(k, j)
    BY <2>1, SwitchWakes
  <2>3. Highest(k, X) => Highest(j, X)
    BY <1>4, <2>1 DEF Highest, Switches, Wakes
  <2> QED
    BY <1>4, <2>1, <2>2, <2>3 DEF Undisturbing, Runs, Switches, SameEvents, j
<1> QED
  BY <1>2, <1>3, <1>4

\* A give disturbs no call: it wakes at most the head of the event list.
LEMMA AfterGiveOK ==
    ASSUME NEW k, Good(k), NEW o \in EventLists, ReadyTasks(k) # {}, NEW X
    PROVE  /\ Undisturbing(k, AfterGive(k, o, FALSE), X)
           /\ KeepsSuspended(k, AfterGive(k, o, FALSE))
<1>1. CASE k.event[o] = <<>>
  <2>1. AfterGive(k, o, FALSE) = k
    BY <1>1 DEF AfterGive, YieldIf
  <2> QED
    BY <2>1 DEF Undisturbing, Runs, KeepsSuspended, Wakes, KeepsOrder
<1>2. CASE k.event[o] # <<>>
  <2> DEFINE i == xTaskRemoveFromEventList(k, o)
             asks == WakesHigher(k, o)
  <2>1. AfterGive(k, o, FALSE) = YieldIf(asks, i)
    BY <1>2 DEF AfterGive
  <2>2. /\ Good(i) /\ Steady(k, i) /\ Awakens(k, i)
        /\ k.uxSchedulerSuspended = 0 => i.pendingReady = k.pendingReady
        /\ k.uxSchedulerSuspended # 0 => ReadyTasks(i) = ReadyTasks(k)
        /\ Highest(k, X) /\ ~asks => Highest(i, X)
    BY <1>2, WakeOK
  <2>3. asks \in BOOLEAN
    BY DEF WakesHigher
  <2> HIDE DEF i, asks
  <2>4. Undisturbing(k, YieldIf(asks, i), X) /\ YieldIf(asks, i).suspended = i.suspended
    BY <2>2, <2>3, YieldSettles DEF Steady, Awakens, Wakes
  <2> QED
    BY <2>1, <2>2, <2>4 DEF KeepsSuspended, Awakens, Wakes
<1> QED
  BY <1>1, <1>2

\* A tick disturbs no call of the running task.
LEMMA TickUndisturbing ==
    ASSUME NEW k, Good(k), ReadyTasks(k) # {}, NEW X
    PROVE  Undisturbing(k, TickInterrupt(k), X) /\ KeepsSuspended(k, TickInterrupt(k))
BY TickSettles DEF Undisturbing, KeepsSuspended, Settled, Runs, Awakens, Wakes

\* A switch disturbs no call of the task that it leaves.
LEMMA SwitchUndisturbing ==
    ASSUME NEW k, Good(k), k.uxSchedulerSuspended = 0, ReadyTasks(k) # {}, NEW X
    PROVE  /\ Undisturbing(k, vTaskSwitchContext(k), X)
           /\ KeepsSuspended(k, vTaskSwitchContext(k))
<1> DEFINE j == vTaskSwitchContext(k)
<1>1. \A Y : /\ Good(j) /\ Switches(k, j) /\ Awakens(k, j)
             /\ j.pxCurrentTCB \in ReadyTasks(j) /\ Highest(j, Y)
  BY SwitchOK
<1> HIDE DEF j
<1> QED
  BY <1>1 DEF Undisturbing, KeepsSuspended, Runs, Awakens, Wakes, Switches, SameEvents, j

\* A task that is suspended and does not wait is made ready.
LEMMA ResumeOK ==
    ASSUME NEW k, Good(k), NEW t \in Tasks, t \in k.suspended, t \notin Waiters(k),
           k.uxSchedulerSuspended = 0, ReadyTasks(k) # {}, NEW X
    PROVE  LET j == YieldIf(k.uxPriority[t] >= k.uxPriority[k.pxCurrentTCB], MakeReady(k, t))
           IN  Undisturbing(k, j, X) /\ k.suspended \ {t} \subseteq j.suspended
<1> DEFINE i == MakeReady(k, t)
           asks == k.uxPriority[t] >= k.uxPriority[k.pxCurrentTCB]
<1>1. KernelOK(k) /\ k \in KernelType /\ WaitersAreBlocked(k) /\ StateItemsOK(k)
  BY DEF Good, KernelOK
<1>2. /\ KernelOK(i) /\ Quiet(k, i) /\ SameEvents(k, i)
      /\ StateSets(i, ReadyTasks(k) \cup {t}, Members(k.delayed) \ {t}, k.suspended \ {t})
  BY <1>1, MakeReadyOK
<1>3. asks \in BOOLEAN
  OBVIOUS
<1>4. Highest(k, X) /\ ~asks => Highest(i, X)
  <2>1. k.uxPriority \in [Tasks -> Nat] /\ k.pxCurrentTCB \in Tasks
    <3>1. k.uxPriority \in [Tasks -> Priorities] /\ k.pxCurrentTCB \in Tasks
      BY <1>1 DEF KernelType
    <3> QED
      BY <3>1 DEF Priorities, configMAX_PRIORITIES
  <2>2. /\ ReadyTasks(i) = ReadyTasks(k) \cup {t} /\ i.uxPriority = k.uxPriority
        /\ i.pxCurrentTCB = k.pxCurrentTCB
    BY <1>2 DEF StateSets, Quiet, Steady
  <2>3. ~asks => k.uxPriority[t] <= k.uxPriority[k.pxCurrentTCB]
    BY <2>1
  <2> HIDE DEF i, asks
  <2> QED
    BY <2>2, <2>3 DEF Highest
<1> HIDE DEF i, asks
<1>5. BlockedTasks(i) = BlockedTasks(k) \ {t} /\ Known(i) = Known(k)
  <2>1. t \in BlockedTasks(k)
    BY DEF BlockedTasks
  <2>2. BlockedTasks(i) = BlockedTasks(k) \ {t}
    BY <1>2 DEF StateSets, BlockedTasks
  <2> QED
    BY <1>2, <2>1, <2>2 DEF StateSets, Known
<1>6. Good(i)
  <2>1. t \notin Members(k.pendingReady) /\ \A l \in EventLists : t \notin Members(k.event[l])
    BY <1>1, WaitersFacts
  <2> QED
    BY <1>1, <1>2, <1>5, <2>1 DEF Good, WaitersAreBlocked, SameEvents
<1>7. Wakes(k, i)
  BY <1>2, <1>5 DEF Wakes, KeepsOrder, Quiet, Steady, SameEvents, StateSets, Waiters, Pending, Waiting
<1>8. Undisturbing(k, YieldIf(asks, i), X) /\ YieldIf(asks, i).suspended = i.suspended
  BY <1>2, <1>3, <1>4, <1>6, <1>7, YieldSettles DEF Quiet, Steady, SameEvents
<1> QED
  BY <1>2, <1>8 DEF StateSets, i, asks

\* A kernel that stays as it is has done what unlocking may do.
LEMMA UnlocksNothing ==
    ASSUME NEW k, Good(k), NEW X
    PROVE  Unlocks(k, k, X)
BY DEF Unlocks, Steady, Awakens, Wakes, KeepsOrder

\* Unlocking goes on step by step.
LEMMA UnlocksTransitive ==
    ASSUME NEW k, NEW i, NEW j, NEW X, Unlocks(k, i, X), Unlocks(i, j, X)
    PROVE  Unlocks(k, j, X)
<1>1. Awakens(k, j)
  BY AwakensTransitive DEF Unlocks
<1> QED
  BY <1>1 DEF Unlocks, Steady

\* One iteration of prvUnlockQueue does what unlocking may do.
LEMMA WakeIfAnyOK ==
    ASSUME NEW k, Good(k), k.uxSchedulerSuspended = 1, NEW o \in EventLists, NEW X
    PROVE  Unlocks(k, WakeIfAny(k, o), X) /\ WakeIfAny(k, o).uxSchedulerSuspended = 1
<1>1. CASE k.event[o] = <<>>
  BY <1>1, UnlocksNothing DEF WakeIfAny
<1>2. CASE k.event[o] # <<>>
  <2> DEFINE j == xTaskRemoveFromEventList(k, o)
  <2>1. /\ Good(j) /\ Steady(k, j) /\ Awakens(k, j)
        /\ ReadyTasks(j) = ReadyTasks(k) /\ (Covered(k, X) => Covered(j, X))
    BY <1>2, WakeOK
  <2>2. WakeIfAny(k, o) = j
    BY <1>2 DEF WakeIfAny
  <2> HIDE DEF j
  <2> QED
    BY <2>1, <2>2 DEF Unlocks, Steady
<1> QED
  BY <1>1, <1>2

\* One more waiter is woken, or there is none left.
LEMMA WakesOneMore ==
    ASSUME NEW k, Good(k), NEW i, NEW o \in EventLists, NEW n \in Nat, NEW X,
           WakesMany(k, i, o, n, X), k.uxSchedulerSuspended = 1
    PROVE  WakesMany(k, WakeIfAny(i, o), o, n + 1, X)
<1> DEFINE j == WakeIfAny(i, o)
<1>1. Good(i) /\ i.uxSchedulerSuspended = 1 /\ Unlocks(k, i, X) /\ n + 1 # 0
  BY DEF WakesMany, Unlocks, Steady
<1>2. Unlocks(i, j, X)
  BY <1>1, WakeIfAnyOK
<1>3. Unlocks(k, j, X)
  BY <1>1, <1>2, UnlocksTransitive
<1>4. CASE i.event[o] = <<>>
  <2>1. j = i
    BY <1>4 DEF WakeIfAny
  <2> HIDE DEF j
  <2> QED
    BY <1>1, <1>3, <1>4, <2>1 DEF WakesMany, j
<1>5. CASE i.event[o] # <<>>
  <2> DEFINE t == Head(i.event[o])
             gone == Members(k.event[o]) \ Members(i.event[o])
  <2>1. j = xTaskRemoveFromEventList(i, o)
    BY <1>5 DEF WakeIfAny
  <2>2. /\ t \in Members(i.event[o]) /\ t \in Tasks /\ j.uxPendedTicks = i.uxPendedTicks
        /\ Members(j.pendingReady) = Members(i.pendingReady) \cup {t}
        /\ \A l \in EventLists : j.event[l] = IF l = o THEN Tail(i.event[o]) ELSE i.event[l]
    BY <1>1, <1>5, <2>1, WakeOK
  <2> HIDE DEF j
  <2>3. i.event[o] \in Seq(Tasks) /\ Distinct(i.event[o]) /\ k.event[o] \in Seq(Tasks)
    BY <1>1 DEF Good, KernelOK, KernelType, EventItemsOK
  <2>4. Members(j.event[o]) = Members(i.event[o]) \ {t}
    BY <1>5, <2>2, <2>3, TailMembers
  <2>5. Members(i.event[o]) \subseteq Members(k.event[o])
    BY <1>1 DEF Unlocks, Awakens, Wakes
  <2>6. Members(k.event[o]) \ Members(j.event[o]) = gone \cup {t} /\ t \notin gone
    BY <2>2, <2>4, <2>5
  <2>7. IsFiniteSet(gone)
    <3>1. gone \subseteq Tasks
      BY <2>3, MembersProperties
    <3> QED
      BY <3>1, SchedulerAssumption, FS_Subset
  <2>8. Cardinality(gone) >= n /\ Cardinality(gone) \in Nat
    BY <1>5, <2>7, FS_CardinalityType DEF WakesMany
  <2>9. Cardinality(gone \cup {t}) = Cardinality(gone) + 1
    BY <2>6, <2>7, FS_AddElement
  <2>10. Cardinality(Members(k.event[o]) \ Members(j.event[o])) >= n + 1
    <3>1. Cardinality(Members(k.event[o]) \ Members(j.event[o])) = Cardinality(gone) + 1
      BY <2>6, <2>9
    <3> HIDE DEF gone
    <3> QED
      BY <2>8, <3>1
  <2>11. /\ \A l \in EventLists \ {o} : j.event[l] = k.event[l]
         /\ Members(j.pendingReady) \subseteq Members(k.pendingReady) \cup Members(k.event[o])
         /\ j.uxPendedTicks = k.uxPendedTicks
    BY <2>2, <2>5 DEF WakesMany
  <2>12. WakesMany(k, j, o, n + 1, X)
    BY <1>1, <1>3, <2>10, <2>11 DEF WakesMany
  <2> QED
    BY <2>12 DEF j
<1> QED
  BY <1>4, <1>5

\* prvUnlockQueue wakes as many waiters as interrupts gave while the queue was locked, or all.
LEMMA UnlockQueueWakes ==
    ASSUME NEW k, Good(k), k.uxSchedulerSuspended = 1, NEW o \in EventLists,
           cTxLock[o] \in Nat, NEW X
    PROVE  WakesMany(k, prvUnlockQueue(k, o), o, cTxLock[o], X)
<1> DEFINE N == cTxLock[o]
           U == {x \in KernelType : Good(x) /\ x.uxSchedulerSuspended = 1}
           step == [x \in U |-> [n \in Nat |-> WakeIfAny(x, o)]]
           Is(a) == a = [n \in 0 .. N |-> IF n = 0 THEN k ELSE WakeIfAny(a[n - 1], o)]
           after == CHOOSE a : Is(a)
<1>1. k \in U /\ N \in Nat
  BY DEF Good, KernelOK
<1>2. step \in [U -> [Nat -> U]]
  <2>1. ASSUME NEW x \in U PROVE WakeIfAny(x, o) \in U
    BY WakeIfAnyOK DEF Unlocks, Good, KernelOK
  <2> HIDE DEF U
  <2> QED
    BY <2>1
<1>3. prvUnlockQueue(k, o) = after[N]
  <2>1. Max({cTxLock[o], 0}) = N
    BY MaxWithZero
  <2> QED
    BY <2>1 DEF prvUnlockQueue, WakeIfAny
<1> HIDE DEF N
<1>4. Is(after)
  <2>1. PICK f \in [0 .. N -> U] : IsIteration(f, k, step, N)
    <3> HIDE DEF U, step
    <3> QED
      BY <1>1, <1>2, IterationExists
  <2>2. Is(f)
    <3> HIDE DEF U
    <3>1. ASSUME NEW n \in 0 .. N, n # 0 PROVE step[f[n - 1]][n] = WakeIfAny(f[n - 1], o)
      <4>1. n - 1 \in 0 .. N /\ n \in Nat
        BY <1>1, <3>1
      <4>2. f[n - 1] \in U
        BY <4>1
      <4> QED
        BY <4>1, <4>2
    <3> HIDE DEF step
    <3> QED
      BY <2>1, <3>1 DEF IsIteration
  <2> HIDE DEF Is
  <2> QED
    BY <2>2
<1>5. \A n \in 0 .. N : after[n] = IF n = 0 THEN k ELSE WakeIfAny(after[n - 1], o)
  <2> HIDE DEF after
  <2> QED
    BY <1>4
<1> HIDE DEF after
<1> DEFINE P == {n \in Nat : n <= N => WakesMany(k, after[n], o, n, X)}
<1>6. 0 \in P
  <2>1. 0 \in 0 .. N
    BY <1>1
  <2>2. after[0] = k
    BY <1>5, <2>1
  <2>3. Members(k.event[o]) \ Members(k.event[o]) = {} /\ Cardinality({}) = 0
    BY FS_EmptySet
  <2>4. WakesMany(k, k, o, 0, X)
    <3>1. Cardinality(Members(k.event[o]) \ Members(k.event[o])) >= 0
      BY <2>3
    <3> QED
      BY <3>1, UnlocksNothing DEF WakesMany
  <2> QED
    BY <2>2, <2>4
<1>7. ASSUME NEW n \in Nat, n \in P PROVE n + 1 \in P
  <2> SUFFICES ASSUME n + 1 <= N PROVE WakesMany(k, after[n + 1], o, n + 1, X)
    OBVIOUS
  <2>1. n + 1 \in 0 .. N /\ n + 1 # 0 /\ (n + 1) - 1 = n /\ n <= N
    BY <1>1
  <2>2. WakesMany(k, after[n], o, n, X)
    BY <1>7, <2>1
  <2>3. after[n + 1] = WakeIfAny(after[n], o)
    BY <1>5, <2>1
  <2> QED
    BY <2>2, <2>3, WakesOneMore
<1>8. N \in P
  <2> HIDE DEF P
  <2> QED
    BY <1>1, <1>6, <1>7, Induction
<1>9. WakesMany(k, after[N], o, N, X)
  BY <1>1, <1>8
<1> QED
  BY <1>3, <1>9 DEF N

\* What the unlocking of a queue keeps.
LEMMA UnlockQueueOK ==
    ASSUME NEW k, Good(k), k.uxSchedulerSuspended = 1, NEW o \in EventLists,
           cTxLock[o] \in Nat, NEW X
    PROVE  Unlocks(k, prvUnlockQueue(k, o), X)
BY UnlockQueueWakes DEF WakesMany

\* After the switch that may follow, i being the record before it.
LEMMA GiveYields ==
    ASSUME NEW k, Good(k), ReadyTasks(k) # {}, NEW asks \in BOOLEAN, NEW i, Good(i), Wakes(k, i),
           i.uxSchedulerSuspended = k.uxSchedulerSuspended, i.pxCurrentTCB = k.pxCurrentTCB
    PROVE  LET j == YieldIf(asks, i)
           IN  /\ Good(j) /\ Wakes(k, j) /\ SameEvents(i, j)
               /\ j.uxSchedulerSuspended = k.uxSchedulerSuspended
               /\ ReadyTasks(j) = ReadyTasks(i) /\ j.uxPriority = i.uxPriority
               /\ \/ j.pxCurrentTCB = k.pxCurrentTCB
                  \/ j.pxCurrentTCB \in ReadyTasks(j) /\ Highest(j, {})
               /\ k.uxSchedulerSuspended # 0 => j.pxCurrentTCB = k.pxCurrentTCB
               /\ asks /\ k.uxSchedulerSuspended = 0 => Highest(j, {})
               /\ ~asks => j = i
<1> DEFINE s == vTaskSwitchContext(i)
           j == YieldIf(asks, i)
<1>1. ReadyTasks(i) # {}
  BY DEF Wakes
<1>2. CASE ~asks
  <2>1. j = i
    BY <1>2 DEF YieldIf
  <2> HIDE DEF j
  <2> QED
    BY <1>2, <2>1 DEF SameEvents, j
<1>3. CASE asks /\ i.uxSchedulerSuspended = 0
  <2>1. /\ Good(s) /\ Switches(i, s) /\ s.pxCurrentTCB \in ReadyTasks(s) /\ Highest(s, {})
    BY <1>1, <1>3, SwitchOK
  <2>2. j = s
    BY <1>3 DEF YieldIf
  <2> HIDE DEF s, j
  <2>3. Wakes(k, j)
    BY <2>1, <2>2, SwitchWakes
  <2> QED
    BY <1>3, <2>1, <2>2, <2>3 DEF Switches, j
<1>4. CASE asks /\ i.uxSchedulerSuspended # 0
  <2>1. Good(s) /\ Switches(i, s) /\ s.pxCurrentTCB = i.pxCurrentTCB
    BY <1>4, SwitchPends
  <2>2. j = s
    BY <1>4 DEF YieldIf
  <2> HIDE DEF s, j
  <2>3. Wakes(k, j)
    BY <2>1, <2>2, SwitchWakes
  <2> QED
    BY <1>4, <2>1, <2>2, <2>3 DEF Switches, j
<1> QED
  BY <1>2, <1>3, <1>4

\* The give of a mutex or a semaphore wakes at most the head of the event list.
LEMMA AfterGiveGives ==
    ASSUME NEW k, Good(k), NEW o \in EventLists, ReadyTasks(k) # {}, NEW asks \in BOOLEAN
    PROVE  Gives(k, AfterGive(k, o, asks), o, asks)
<1> DEFINE j == AfterGive(k, o, asks)
<1>1. CASE k.event[o] = <<>>
  <2>1. j = YieldIf(asks, k)
    BY <1>1 DEF AfterGive
  <2>2. Wakes(k, k)
    BY DEF Wakes, KeepsOrder
  <2>3. /\ Good(j) /\ Wakes(k, j) /\ SameEvents(k, j)
        /\ j.uxSchedulerSuspended = k.uxSchedulerSuspended
        /\ \/ j.pxCurrentTCB = k.pxCurrentTCB
           \/ j.pxCurrentTCB \in ReadyTasks(j) /\ Highest(j, {})
        /\ k.uxSchedulerSuspended # 0 => j.pxCurrentTCB = k.pxCurrentTCB
        /\ ~asks => j = k
    BY <2>1, <2>2, GiveYields
  <2> HIDE DEF j
  <2>4. ~asks => (Highest(k, {}) => Highest(j, {}))
    BY <2>3
  <2>5. j.event = k.event /\ j.pendingReady = k.pendingReady
    BY <2>3 DEF SameEvents
  <2>6. Gives(k, j, o, asks)
    BY <1>1, <2>3, <2>4, <2>5 DEF Gives
  <2> QED
    BY <2>6 DEF j
<1>2. CASE k.event[o] # <<>>
  <2> DEFINE i == xTaskRemoveFromEventList(k, o)
             t == Head(k.event[o])
             higher == WakesHigher(k, o)
  <2>1. j = YieldIf(higher, i)
    BY <1>2 DEF AfterGive
  <2>2. /\ Good(i) /\ Steady(k, i) /\ Awakens(k, i) /\ t \in Members(k.event[o]) /\ t \in Tasks
        /\ k.uxSchedulerSuspended = 0 => i.pendingReady = k.pendingReady
        /\ k.uxSchedulerSuspended # 0 => Members(i.pendingReady) = Members(k.pendingReady) \cup {t}
        /\ \A l \in EventLists : i.event[l] = IF l = o THEN Tail(k.event[o]) ELSE k.event[l]
        /\ Highest(k, {}) /\ ~higher => Highest(i, {})
        /\ Covered(k, {}) => Covered(i, {})
    BY <1>2, WakeOK
  <2>3. higher \in BOOLEAN /\ (~higher => k.uxPriority[t] <= k.uxPriority[k.pxCurrentTCB])
    <3>1. k.uxPriority \in [Tasks -> Nat] /\ k.pxCurrentTCB \in Tasks
      <4>1. k.uxPriority \in [Tasks -> Priorities] /\ k.pxCurrentTCB \in Tasks
        BY DEF Good, KernelOK, KernelType
      <4> QED
        BY <4>1 DEF Priorities, configMAX_PRIORITIES
    <3>2. k.uxPriority[t] \in Nat /\ k.uxPriority[k.pxCurrentTCB] \in Nat
      BY <2>2, <3>1
    <3> QED
      BY <3>2 DEF WakesHigher
  <2> HIDE DEF i, higher, t
  <2>4. /\ Good(j) /\ Wakes(k, j) /\ SameEvents(i, j)
        /\ j.uxSchedulerSuspended = k.uxSchedulerSuspended
        /\ \/ j.pxCurrentTCB = k.pxCurrentTCB
           \/ j.pxCurrentTCB \in ReadyTasks(j) /\ Highest(j, {})
        /\ k.uxSchedulerSuspended # 0 => j.pxCurrentTCB = k.pxCurrentTCB
        /\ higher /\ k.uxSchedulerSuspended = 0 => Highest(j, {})
        /\ ~higher => j = i
        /\ ReadyTasks(j) = ReadyTasks(i) /\ j.uxPriority = i.uxPriority
    BY <2>1, <2>2, <2>3, GiveYields DEF Steady, Awakens
  <2> HIDE DEF j
  <2>5. \/ k.uxSchedulerSuspended = 0 /\ Highest(j, {})
        \/ Highest(k, {}) => Highest(j, {})
    <3>1. CASE ~higher
      BY <2>2, <2>4, <3>1
    <3>2. CASE higher /\ k.uxSchedulerSuspended = 0
      BY <2>4, <3>2
    <3>3. CASE k.uxSchedulerSuspended # 0
      <4>1. ReadyTasks(i) = ReadyTasks(k) /\ i.uxPriority = k.uxPriority
        BY <1>2, <3>3, WakeOK DEF i, Steady
      <4> QED
        BY <2>4, <3>3, <4>1 DEF Highest
    <3> QED
      BY <3>1, <3>2, <3>3
  <2>6. j.event = i.event /\ j.pendingReady = i.pendingReady
    BY <2>4 DEF SameEvents
  <2>7. /\ \A l \in EventLists \ {o} : j.event[l] = k.event[l]
        /\ j.event[o] = Tail(k.event[o])
        /\ Members(j.pendingReady) \subseteq Members(k.pendingReady) \cup Members(k.event[o])
        /\ k.uxSchedulerSuspended = 0 => j.pendingReady = k.pendingReady
    BY <2>2, <2>6
  <2>8. \/ j.pxCurrentTCB # k.pxCurrentTCB \/ Highest(j, {}) \/ k.uxSchedulerSuspended # 0
        \/ k.uxPriority[t] <= k.uxPriority[k.pxCurrentTCB]
    BY <2>3, <2>4
  <2>9. Gives(k, j, o, asks)
    BY <1>2, <2>2, <2>4, <2>5, <2>7, <2>8 DEF Gives, t
  <2> QED
    BY <2>9 DEF j
<1> QED
  BY <1>1, <1>2
-------------------------------------------------------------------------------
\* vListInsert into an event list keeps it in the order of the priorities f that the items
\* in it have.
LEMMA InsertSorted ==
    ASSUME NEW k, NEW s \in Seq(Tasks), NEW t \in Tasks, NEW f \in [Tasks -> Priorities],
           SortedBy(s, f), \A u \in Members(s) \cup {t} : k.eventPriority[u] = f[u]
    PROVE  SortedBy(InsertByPriority(k, s, t), f)
<1> DEFINE I == {n \in 1 .. Len(s) : k.eventPriority[s[n]] < k.eventPriority[t]}
           i == IF I # {} THEN Min(I) ELSE 0
<1>1. InsertByPriority(k, s, t) = PutBefore(s, i, t)
  BY DEF InsertByPriority, PutBefore, SelectInSeq
<1>2. f \in [Tasks -> Nat]
  BY DEF Priorities, configMAX_PRIORITIES
<1>3. \A n \in 1 .. Len(s) : s[n] \in Members(s)
  BY DEF Members
<1>4. I = {n \in 1 .. Len(s) : f[s[n]] < f[t]}
  BY <1>3
<1>5. i = IF I # {} THEN Min(I) ELSE 0
  OBVIOUS
<1> HIDE DEF I, i
<1>6. SortedBy(PutBefore(s, i, t), f)
  BY <1>2, <1>4, <1>5, PutBeforeSorted
<1> QED
  BY <1>1, <1>6
-------------------------------------------------------------------------------
(***************************************************************************)
(* Priority inheritance.                                                   *)
(***************************************************************************)

\* Who waits is blocked in a record that has the same lists.
LEMMA SameWaiters ==
    ASSUME NEW k, Good(k), NEW j, KernelOK(j), SameEvents(k, j),
           BlockedTasks(j) = BlockedTasks(k)
    PROVE  Good(j)
BY DEF Good, WaitersAreBlocked, SameEvents

\* The caller's priority goes to the holder of the mutex if it is higher.
LEMMA InheritRaises ==
    ASSUME NEW k, Good(k), NEW h \in Tasks, NoTask \notin Tasks, k.eventPriority = k.uxPriority
    PROVE  LET j == xTaskPriorityInherit(k, h)
               p == k.uxPriority[k.pxCurrentTCB]
           IN  /\ Reprioritised(k, j, h, IF k.uxPriority[h] < p THEN p ELSE k.uxPriority[h])
               /\ j.uxMutexesHeld = k.uxMutexesHeld
<1> DEFINE p == k.uxPriority[k.pxCurrentTCB]
           j == xTaskPriorityInherit(k, h)
           new == [k.eventPriority EXCEPT ![h] = p]
           i == [k EXCEPT !.eventPriority = new]
<1>1. /\ KernelOK(k) /\ k \in KernelType /\ p \in Priorities
      /\ k.uxPriority \in [Tasks -> Priorities] /\ k.eventPriority \in [Tasks -> Priorities]
  BY DEF Good, KernelOK, KernelType
<1>2. CASE ~(k.uxPriority[h] < p)
  <2>1. j = k
    BY <1>2 DEF xTaskPriorityInherit
  <2>2. [k.uxPriority EXCEPT ![h] = k.uxPriority[h]] = k.uxPriority
    BY <1>1
  <2> HIDE DEF j
  <2> QED
    BY <1>2, <2>1, <2>2 DEF Reprioritised, SameEvents, StateSets, j
<1>3. CASE k.uxPriority[h] < p
  <2>1. j = MoveReady(i, h, p)
    <3>1. i = [k EXCEPT !.eventPriority[h] = p]
      BY <1>1 DEF KernelType
    <3> QED
      BY <1>3, <3>1 DEF xTaskPriorityInherit
  <2>2. new \in [Tasks -> Priorities]
    BY <1>1
  <2> HIDE DEF j
  <2>3. /\ i \in KernelType /\ SameStates(k, i) /\ SameEvents(k, i) /\ i.uxPriority = k.uxPriority
        /\ i.uxBasePriority = k.uxBasePriority /\ i.uxMutexesHeld = k.uxMutexesHeld
        /\ i.pxCurrentTCB = k.pxCurrentTCB /\ i.halted = k.halted /\ i.eventPriority = new
        /\ i.uxSchedulerSuspended = k.uxSchedulerSuspended
    <3> HIDE DEF new
    <3> QED
      BY <1>1, <2>2 DEF KernelType, SameStates, SameEvents
  <2> HIDE DEF i
  <2>4. KernelOK(i) /\ ReadyTasks(i) = ReadyTasks(k) /\ BlockedTasks(i) = BlockedTasks(k)
    BY <1>1, <2>3, OtherFields
  <2> HIDE DEF p
  <2>5. /\ KernelOK(j) /\ SameEvents(i, j)
        /\ StateSets(j, ReadyTasks(i), Members(i.delayed), i.suspended)
        /\ j.uxPriority = [i.uxPriority EXCEPT ![h] = p]
        /\ j.uxBasePriority = i.uxBasePriority /\ j.uxMutexesHeld = i.uxMutexesHeld
        /\ j.eventPriority = i.eventPriority
        /\ j.pxCurrentTCB = i.pxCurrentTCB /\ j.halted = i.halted
        /\ j.uxSchedulerSuspended = i.uxSchedulerSuspended
    BY <1>1, <2>1, <2>4, MoveReadyOK
  <2>6. /\ StateSets(j, ReadyTasks(k), Members(k.delayed), k.suspended) /\ SameEvents(k, j)
        /\ BlockedTasks(j) = BlockedTasks(k)
    BY <2>3, <2>4, <2>5 DEF StateSets, SameStates, SameEvents, BlockedTasks
  <2>7. Good(j)
    BY <2>5, <2>6, SameWaiters
  <2>8. Reprioritised(k, j, h, p) /\ j.uxMutexesHeld = k.uxMutexesHeld
    BY <2>3, <2>5, <2>6, <2>7 DEF Reprioritised
  <2> QED
    BY <1>3, <2>8 DEF p, j
<1> QED
  BY <1>2, <1>3

\* The holder that returns its only mutex falls back to its own priority.
LEMMA DisinheritLowers ==
    ASSUME NEW k, Good(k), NoTask \notin Tasks, k.eventPriority = k.uxPriority,
           NEW h \in Tasks, h = k.pxCurrentTCB, k.uxMutexesHeld[h] = 1
    PROVE  LET j == xTaskPriorityDisinherit(k, h)
           IN  /\ Reprioritised(k, j, h, k.uxBasePriority[h])
               /\ j.uxMutexesHeld = [k.uxMutexesHeld EXCEPT ![h] = 0]
               /\ DisinheritYields(k, h) <=> k.uxPriority[h] # k.uxBasePriority[h]
<1> DEFINE j == xTaskPriorityDisinherit(k, h)
           b == k.uxBasePriority[h]
           held == [k.uxMutexesHeld EXCEPT ![h] = 0]
           i == [k EXCEPT !.uxMutexesHeld = held]
           m == MoveReady(i, h, b)
           new == [m.eventPriority EXCEPT ![h] = b]
           n == [m EXCEPT !.eventPriority = new]
<1>1. /\ KernelOK(k) /\ k \in KernelType /\ b \in Priorities /\ h # NoTask
      /\ k.uxPriority \in [Tasks -> Priorities] /\ k.eventPriority \in [Tasks -> Priorities]
      /\ k.uxMutexesHeld \in [Tasks -> Int] /\ held \in [Tasks -> Int]
  <2>1. /\ KernelOK(k) /\ k \in KernelType /\ b \in Priorities
        /\ k.uxPriority \in [Tasks -> Priorities] /\ k.eventPriority \in [Tasks -> Priorities]
        /\ k.uxMutexesHeld \in [Tasks -> Int]
    BY DEF Good, KernelOK, KernelType
  <2> QED
    BY <2>1
<1>2. DisinheritYields(k, h) <=> k.uxPriority[h] # b
  BY <1>1 DEF DisinheritYields
<1>3. j = IF k.uxPriority[h] # b THEN n ELSE i
  <2>1. i = [k EXCEPT !.uxMutexesHeld[h] = @ - 1]
    <3>1. k.uxMutexesHeld[h] - 1 = 0
      OBVIOUS
    <3> QED
      BY <1>1, <3>1 DEF KernelType
  <2> DEFINE a == [k EXCEPT !.uxMutexesHeld[h] = @ - 1]
  <2>2. j = IF DisinheritYields(k, h)
            THEN [MoveReady(a, h, b) EXCEPT !.eventPriority[h] = b] ELSE a
    BY <1>1 DEF xTaskPriorityDisinherit
  <2>3. a = i
    BY <2>1
  <2> HIDE DEF a, i, j
  <2>4. m = MoveReady(a, h, b)
    BY <2>3
  <2> HIDE DEF m
  <2> QED
    BY <1>2, <2>2, <2>3, <2>4
<1>4. /\ i \in KernelType /\ SameStates(k, i) /\ SameEvents(k, i) /\ i.uxPriority = k.uxPriority
      /\ i.uxBasePriority = k.uxBasePriority /\ i.uxMutexesHeld = held
      /\ i.pxCurrentTCB = k.pxCurrentTCB /\ i.halted = k.halted
      /\ i.eventPriority = k.eventPriority
      /\ i.uxSchedulerSuspended = k.uxSchedulerSuspended
  <2> HIDE DEF held
  <2> QED
    BY <1>1 DEF KernelType, SameStates, SameEvents
<1> HIDE DEF i, j
<1>5. KernelOK(i) /\ ReadyTasks(i) = ReadyTasks(k) /\ BlockedTasks(i) = BlockedTasks(k)
  BY <1>1, <1>4, OtherFields
<1>6. CASE k.uxPriority[h] = b
  <2>1. [k.uxPriority EXCEPT ![h] = b] = k.uxPriority
    BY <1>1, <1>6
  <2>2. Good(i)
    BY <1>4, <1>5, SameWaiters
  <2> HIDE DEF b
  <2>3. Reprioritised(k, i, h, b)
    BY <1>4, <1>5, <2>1, <2>2 DEF Reprioritised, StateSets, SameStates
  <2> QED
    BY <1>2, <1>3, <1>4, <1>6, <2>3 DEF j, b
<1>7. CASE k.uxPriority[h] # b
  <2> HIDE DEF b
  <2>1. /\ KernelOK(m) /\ SameEvents(i, m)
        /\ StateSets(m, ReadyTasks(i), Members(i.delayed), i.suspended)
        /\ m.uxPriority = [i.uxPriority EXCEPT ![h] = b]
        /\ m.uxBasePriority = i.uxBasePriority /\ m.uxMutexesHeld = i.uxMutexesHeld
        /\ m.eventPriority = i.eventPriority
        /\ m.pxCurrentTCB = i.pxCurrentTCB /\ m.halted = i.halted
        /\ m.uxSchedulerSuspended = i.uxSchedulerSuspended
    BY <1>1, <1>5, MoveReadyOK
  <2> HIDE DEF m
  <2>2. /\ new \in [Tasks -> Priorities] /\ new = [k.uxPriority EXCEPT ![h] = b]
        /\ m \in KernelType
    BY <1>1, <1>4, <2>1 DEF KernelOK
  <2> HIDE DEF new
  <2>3. /\ n \in KernelType /\ SameStates(m, n) /\ SameEvents(m, n) /\ n.uxPriority = m.uxPriority
        /\ n.uxBasePriority = m.uxBasePriority /\ n.uxMutexesHeld = m.uxMutexesHeld
        /\ n.pxCurrentTCB = m.pxCurrentTCB /\ n.halted = m.halted /\ n.eventPriority = new
        /\ n.uxSchedulerSuspended = m.uxSchedulerSuspended
    BY <2>2 DEF KernelType, SameStates, SameEvents
  <2> HIDE DEF n
  <2>4. KernelOK(n) /\ ReadyTasks(n) = ReadyTasks(m) /\ BlockedTasks(n) = BlockedTasks(m)
    BY <2>1, <2>3, OtherFields
  <2>5. /\ StateSets(n, ReadyTasks(k), Members(k.delayed), k.suspended) /\ SameEvents(k, n)
        /\ BlockedTasks(n) = BlockedTasks(k)
    BY <1>4, <1>5, <2>1, <2>3, <2>4 DEF StateSets, SameStates, SameEvents, BlockedTasks
  <2>6. Good(n)
    BY <2>4, <2>5, SameWaiters
  <2>7. Reprioritised(k, n, h, b) /\ n.uxMutexesHeld = held
    BY <1>4, <2>1, <2>2, <2>3, <2>5, <2>6 DEF Reprioritised
  <2> QED
    BY <1>2, <1>3, <1>7, <2>7 DEF j, b
<1> QED
  BY <1>6, <1>7

\* A bit that says what it should is not changed by the reset.
LEMMA ResetNothing ==
    ASSUME NEW k \in KernelType, NEW p \in Priorities, RingOK(k, p)
    PROVE  taskRESET_READY_PRIORITY(k, p) = k
<1>1. CASE k.ready[p] # EmptyRing
  BY <1>1 DEF taskRESET_READY_PRIORITY
<1>2. CASE k.ready[p] = EmptyRing
  <2>1. ReadyAt(k, p) = {}
    BY <1>2 DEF ReadyAt, EmptyRing, Members
  <2>2. p \notin k.uxTopReadyPriority
    BY <2>1 DEF RingOK
  <2>3. k.uxTopReadyPriority \ {p} = k.uxTopReadyPriority
    BY <2>2
  <2>4. [k EXCEPT !.uxTopReadyPriority = k.uxTopReadyPriority] = k
    BY DEF KernelType
  <2>5. taskRESET_READY_PRIORITY(k, p) = [k EXCEPT !.uxTopReadyPriority = k.uxTopReadyPriority \ {p}]
    BY <1>2 DEF taskRESET_READY_PRIORITY, KernelType
  <2> QED
    BY <2>3, <2>4, <2>5
<1> QED
  BY <1>1, <1>2

\* A caller that gives up takes back the priority it lent, down to that of the highest
\* task that still waits.  The bit that is reset on the way is the wrong one, which does
\* no harm as long as another ready task has the priority that is taken back.
LEMMA TimeoutLowers ==
    ASSUME NEW k, Good(k), NoTask \notin Tasks, k.eventPriority = k.uxPriority,
           NEW h \in Tasks, h # k.pxCurrentTCB, k.uxMutexesHeld[h] = 1, NEW hw \in Priorities,
           LET b == k.uxBasePriority[h]
               p == IF b < hw THEN hw ELSE b
           IN  k.uxPriority[h] # p =>
                   \E u \in ReadyTasks(k) \ {h} : k.uxPriority[u] = k.uxPriority[h]
    PROVE  LET j == vTaskPriorityDisinheritAfterTimeout(k, h, hw)
               b == k.uxBasePriority[h]
           IN  /\ Reprioritised(k, j, h, IF b < hw THEN hw ELSE b)
               /\ j.uxMutexesHeld = k.uxMutexesHeld
<1> DEFINE b == k.uxBasePriority[h]
           p == IF b < hw THEN hw ELSE b
           j == vTaskPriorityDisinheritAfterTimeout(k, h, hw)
           prio == [k.uxPriority EXCEPT ![h] = p]
           m == [k EXCEPT !.uxPriority = prio, !.eventPriority = prio]
           r == RemoveStateItem(m, h)
           i == RemoveStateItem(k, h)
<1>1. /\ KernelOK(k) /\ k \in KernelType /\ b \in Priorities /\ h # NoTask /\ StateItemsOK(k)
      /\ k.uxPriority \in [Tasks -> Priorities] /\ k.eventPriority \in [Tasks -> Priorities]
  BY DEF Good, KernelOK, KernelType
<1>2. p \in Priorities
  BY <1>1
<1>3. k.uxPriority[h] # p => \E u \in ReadyTasks(k) \ {h} : k.uxPriority[u] = k.uxPriority[h]
  OBVIOUS
<1>4. j = IF k.uxPriority[h] = p THEN k
          ELSE IF Ready(k, h) THEN prvAddTaskToReadyList(taskRESET_READY_PRIORITY(r, p), h) ELSE m
  <2>1. m = [k EXCEPT !.uxPriority[h] = p, !.eventPriority[h] = p]
    BY <1>1 DEF KernelType
  <2> DEFINE a == [k EXCEPT !.uxPriority[h] = p, !.eventPriority[h] = p]
  <2>2. j = IF k.uxPriority[h] = p THEN k
            ELSE IF Ready(k, h)
                 THEN prvAddTaskToReadyList(taskRESET_READY_PRIORITY(RemoveStateItem(a, h), p), h)
                 ELSE a
    BY <1>1 DEF vTaskPriorityDisinheritAfterTimeout
  <2>3. a = m
    BY <2>1
  <2> HIDE DEF a, m, j, p
  <2> QED
    BY <2>2, <2>3
<1> HIDE DEF p, j
<1>5. prio \in [Tasks -> Priorities] /\ \A u \in Tasks \ {h} : prio[u] = k.uxPriority[u]
  BY <1>1, <1>2
<1>6. CASE k.uxPriority[h] = p
  <2>1. prio = k.uxPriority
    BY <1>1, <1>6
  <2>2. Reprioritised(k, k, h, p)
    BY <2>1 DEF Reprioritised, SameEvents, StateSets
  <2> QED
    BY <1>4, <1>6, <2>2 DEF p, j
<1> HIDE DEF prio
<1>7. /\ m \in KernelType /\ SameStates(k, m) /\ SameEvents(k, m) /\ m.uxPriority = prio
      /\ m.eventPriority = prio
      /\ m.uxBasePriority = k.uxBasePriority /\ m.uxMutexesHeld = k.uxMutexesHeld
      /\ m.pxCurrentTCB = k.pxCurrentTCB /\ m.halted = k.halted
      /\ m.uxSchedulerSuspended = k.uxSchedulerSuspended
  BY <1>1, <1>5 DEF KernelType, SameStates, SameEvents
<1> HIDE DEF m
<1>8. CASE k.uxPriority[h] # p /\ ~Ready(k, h)
  <2>1. KernelOK(m) /\ ReadyTasks(m) = ReadyTasks(k) /\ BlockedTasks(m) = BlockedTasks(k)
    BY <1>1, <1>5, <1>7, <1>8, SetFieldOK DEF ReadyTasks
  <2>2. Good(m)
    BY <1>7, <2>1, SameWaiters
  <2>3. Reprioritised(k, m, h, p)
    BY <1>7, <2>1, <2>2 DEF Reprioritised, StateSets, SameStates, prio
  <2> QED
    BY <1>4, <1>7, <1>8, <2>3 DEF p, j
<1>9. CASE k.uxPriority[h] # p /\ Ready(k, h)
  <2>1. PICK u \in ReadyTasks(k) \ {h} : k.uxPriority[u] = k.uxPriority[h]
    BY <1>3, <1>9
  <2> DEFINE P == k.uxPriority[h]
  <2>2. /\ i \in KernelType /\ Quiet(k, i) /\ SameEvents(k, i)
        /\ i.ready = [q \in Priorities |-> Without(k.ready[q], h)]
        /\ i.delayed = Without(k.delayed, h) /\ i.suspended = k.suspended \ {h}
        /\ i.uxTopReadyPriority = k.uxTopReadyPriority
    BY <1>1, RemoveStateItemFields DEF Quiet
  <2> HIDE DEF i
  <2>3. P \in Priorities /\ u \in ReadyAt(i, P)
    <3>1. P \in Priorities /\ RingOK(k, P) /\ u \in ReadyAt(k, P)
      BY <1>1, <2>1 DEF StateItemsOK, ReadyTasks, Ready
    <3>2. k.ready[P] \in Seq(Tasks \cup {xListEnd})
      BY <1>1, <3>1, RingFacts
    <3>3. i.ready[P] = Drop(k.ready[P], {h})
      BY <2>2, <3>1 DEF Without
    <3> HIDE DEF P
    <3>4. Members(i.ready[P]) = Members(k.ready[P]) \ {h}
      BY <3>2, <3>3, DropProperties
    <3> QED
      BY <2>1, <3>1, <3>4 DEF ReadyAt
  <2>4. taskRESET_READY_PRIORITY(i, P) = i
    <3>1. i.ready[P] # EmptyRing
      BY <2>3 DEF ReadyAt, EmptyRing, Members
    <3> QED
      BY <3>1 DEF taskRESET_READY_PRIORITY
  <2>5. /\ KernelOK(i)
        /\ StateSets(i, ReadyTasks(k) \ {h}, Members(k.delayed) \ {h}, k.suspended \ {h})
    <3>1. taskRESET_READY_PRIORITY(RemoveStateItem(k, h), k.uxPriority[h]) = i
      BY <2>4 DEF i
    <3> QED
      BY <1>1, <3>1, TakeOutOK
  <2>6. /\ r \in KernelType /\ Steady(m, r) /\ SameEvents(m, r)
        /\ r.ready = [q \in Priorities |-> Without(m.ready[q], h)]
        /\ r.delayed = Without(m.delayed, h) /\ r.suspended = m.suspended \ {h}
        /\ r.uxTopReadyPriority = m.uxTopReadyPriority
    BY <1>7, RemoveStateItemFields
  <2> HIDE DEF r
  <2>7. SameStates(i, r) /\ SameEvents(i, r) /\ r.uxPriority = prio
    BY <1>7, <2>2, <2>6 DEF SameStates, SameEvents, Steady
  <2>8. h \notin ReadyTasks(i) /\ h \notin BlockedTasks(i)
    BY <2>5 DEF StateSets, BlockedTasks
  <2>9. KernelOK(r) /\ ReadyTasks(r) = ReadyTasks(i) /\ BlockedTasks(r) = BlockedTasks(i)
    BY <1>5, <2>2, <2>5, <2>6, <2>7, <2>8, SetFieldOK DEF Quiet, Steady
  <2>10. taskRESET_READY_PRIORITY(r, p) = r
    <3>1. RingOK(r, p)
      BY <1>2, <2>9 DEF KernelOK, StateItemsOK
    <3> QED
      BY <1>2, <2>6, <3>1, ResetNothing
  <2>11. j = prvAddTaskToReadyList(r, h)
    BY <1>4, <1>9, <2>10
  <2>12. /\ KernelOK(j) /\ Quiet(r, j) /\ SameEvents(r, j)
         /\ StateSets(j, ReadyTasks(r) \cup {h}, Members(r.delayed), r.suspended)
    BY <2>8, <2>9, <2>11, AddReadyOK DEF Known
  <2>13. h \in ReadyTasks(k) /\ h \notin Members(k.delayed) /\ h \notin k.suspended
    BY <1>1, <1>9 DEF StateItemsOK, ReadyTasks, BlockedTasks
  <2>14. StateSets(j, ReadyTasks(k), Members(k.delayed), k.suspended)
    BY <2>5, <2>7, <2>9, <2>12, <2>13 DEF StateSets, SameStates
  <2>15. SameEvents(k, j) /\ BlockedTasks(j) = BlockedTasks(k)
    BY <1>7, <2>6, <2>12, <2>14 DEF SameEvents, StateSets, BlockedTasks
  <2>16. Good(j)
    BY <2>12, <2>15, SameWaiters
  <2>17. Reprioritised(k, j, h, p) /\ j.uxMutexesHeld = k.uxMutexesHeld
    BY <1>7, <2>6, <2>12, <2>14, <2>15, <2>16 DEF Reprioritised, Quiet, Steady, prio
  <2> QED
    BY <2>17 DEF p, j
<1> QED
  BY <1>6, <1>8, <1>9
-------------------------------------------------------------------------------
(***************************************************************************)
(* The invariant of the mutexes and semaphores.                            *)
(***************************************************************************)

\* Such a step is one of those.
LEMMA RestsGrows ==
    ASSUME NEW k, Good(k), NEW j, Rests(k, j)
    PROVE  /\ Grows(k, j) /\ GoesOn(k, j) /\ ReadyTasks(j) = ReadyTasks(k)
           /\ BlockedTasks(j) = BlockedTasks(k) /\ Waiters(j) = Waiters(k)
           /\ Highest(k, {}) => Highest(j, {})
<1>1. KernelOK(j) /\ ReadyTasks(j) = ReadyTasks(k) /\ BlockedTasks(j) = BlockedTasks(k)
  BY OtherFields DEF Rests, Good
<1>2. Good(j)
  BY <1>1, SameWaiters DEF Rests
<1>3. j.event = k.event /\ j.pendingReady = k.pendingReady
  BY DEF Rests, SameEvents
<1>4. Waiters(j) = Waiters(k)
  BY <1>3 DEF Waiters, Waiting, Pending
<1>5. KeepsOrder(k, j)
  BY <1>3 DEF KeepsOrder
<1> QED
  BY <1>1, <1>2, <1>3, <1>4, <1>5 DEF Rests, Grows, Known, GoesOn, Highest

\* What wakes tasks is one, too.
LEMMA WakesGrows ==
    ASSUME NEW k, NEW j, Good(j), Wakes(k, j)
    PROVE  Grows(k, j)
BY DEF Wakes, Grows

\* What the invariant says of the scheduler and of the tasks.
LEMMA MutexFacts ==
    ASSUME MutexInv
    PROVE  /\ Good(kernel) /\ kernel \in KernelType /\ Idle \in ReadyTasks(kernel)
           /\ ReadyTasks(kernel) # {}
           /\ kernel.pxCurrentTCB \in Tasks
           /\ kernel.uxPriority \in [Tasks -> Nat] /\ kernel.uxBasePriority \in [Tasks -> Nat]
           /\ NoTask \notin Tasks /\ NoTask \notin EventLists /\ Mutexes \subseteq EventLists
           /\ \A t \in Waiters(kernel) : t \in BlockedTasks(kernel) /\ t \notin ReadyTasks(kernel)
           /\ \A t \in Tasks \ ReadyTasks(kernel) : t \in BlockedTasks(kernel)
           /\ \/ kernel.pxCurrentTCB \in ReadyTasks(kernel)
              \/ call[kernel.pxCurrentTCB].at = "unlockBlocked"
<1>1. Good(kernel) /\ kernel \in KernelType /\ StateItemsOK(kernel)
  BY DEF MutexInv, Good, KernelOK
<1>2. kernel.pxCurrentTCB \in Tasks
  BY <1>1 DEF KernelType
<1>3. /\ kernel.uxPriority \in [Tasks -> Priorities] /\ kernel.uxBasePriority \in [Tasks -> Priorities]
  BY <1>1 DEF KernelType
<1>4. kernel.uxPriority \in [Tasks -> Nat] /\ kernel.uxBasePriority \in [Tasks -> Nat]
  BY <1>3 DEF Priorities, configMAX_PRIORITIES
<1>5. NoTask \notin Tasks /\ NoTask \notin EventLists /\ Mutexes \subseteq EventLists /\ Idle \in Tasks
  BY MutexAssumption, SchedulerAssumption
<1>6. \A t \in Waiters(kernel) : t \in BlockedTasks(kernel) /\ t \notin ReadyTasks(kernel)
  BY <1>1, WaitersFacts DEF Good, StateItemsOK
<1>7. ReadyTasks(kernel) \cup BlockedTasks(kernel) = Tasks
  BY DEF MutexInv, WaitsInv
<1>8. Idle \in ReadyTasks(kernel)
  <2>1. call[Idle].obj = NoTask
    BY DEF MutexInv, CallsInv, NoCall
  <2>2. ~Waiting(kernel, Idle)
    BY <1>5, <2>1 DEF MutexInv, WaitsInv, Waiting
  <2>3. ~Pending(kernel, Idle)
    BY <1>5, <2>1 DEF MutexInv, WaitsInv, Pending, Semaphores
  <2> QED
    BY <1>5, <1>7, <2>2, <2>3 DEF MutexInv, WaitsInv
<1>9. kernel.pxCurrentTCB \in ReadyTasks(kernel) \/ call[kernel.pxCurrentTCB].at = "unlockBlocked"
  BY <1>2 DEF MutexInv, WaitsInv, ReadyTasks
<1> QED
  BY <1>1, <1>2, <1>4, <1>5, <1>6, <1>7, <1>8, <1>9

\* A caller that is not blocked on the mutex of its call is ready.
LEMMA CallerReady ==
    ASSUME MutexInv, NEW m \in Mutexes, NEW t \in Tasks, call[t].obj = m,
           t \notin Members(kernel.event[m])
    PROVE  t \in ReadyTasks(kernel)
<1>1. SUFFICES ASSUME t \notin ReadyTasks(kernel) PROVE FALSE
  OBVIOUS
<1>3. t \in BlockedTasks(kernel)
  BY <1>1, MutexFacts
<1>4. Waiting(kernel, t) \/ Pending(kernel, t)
  BY <1>3 DEF MutexInv, WaitsInv
<1>5. ~Waiting(kernel, t)
  BY DEF MutexInv, WaitsInv, Waiting
<1>6. ~Pending(kernel, t)
  BY DEF MutexInv, WaitsInv, Pending, Semaphores
<1> QED
  BY <1>4, <1>5, <1>6
-------------------------------------------------------------------------------
\* The parts of the invariant after a step after which no task waits for more.

\* WaitsInv, if the calls of those that wait go on.
LEMMA TasksKept ==
    ASSUME MutexInv, Releases(kernel, kernel'),
           \A u \in BlockedTasks(kernel) :
               call'[u].obj = call[u].obj /\ call'[u].at \in {call[u].at, "try"},
           \A u \in Members(kernel'.pendingReady) :
               \/ u \in Members(kernel.pendingReady)
               \/ u \in Waiters(kernel) /\ call[u].obj \in Semaphores,
           kernel'.pendingReady # <<>> => kernel'.uxSchedulerSuspended = 1,
           \/ kernel'.pxCurrentTCB \in ReadyTasks(kernel')
           \/ call'[kernel'.pxCurrentTCB].at = "unlockBlocked"
    PROVE  WaitsInv'
<1>1. Good(kernel') /\ Good(kernel) /\ WaitsInv
  BY MutexFacts DEF Releases, MutexInv
<1>2. ReadyTasks(kernel) \subseteq ReadyTasks(kernel') /\ Known(kernel') = Known(kernel)
  BY DEF Releases
<1>3. ReadyTasks(kernel') \cap BlockedTasks(kernel') = {}
  BY <1>1 DEF Good, KernelOK, StateItemsOK
<1>4. BlockedTasks(kernel') \subseteq BlockedTasks(kernel)
  BY <1>2, <1>3 DEF Known
<1>5. /\ \A l \in EventLists : Members(kernel'.event[l]) \subseteq BlockedTasks(kernel)
      /\ Members(kernel'.pendingReady) \subseteq BlockedTasks(kernel)
  BY <1>1, <1>4 DEF Good, WaitersAreBlocked
<1>6. ReadyTasks(kernel') \cup BlockedTasks(kernel') = Tasks
  BY <1>1, <1>2 DEF Known, WaitsInv
<1>7. ASSUME NEW t \in BlockedTasks(kernel') PROVE Waiting(kernel', t) \/ Pending(kernel', t)
  <2>1. t \in BlockedTasks(kernel) /\ t \in Tasks
    BY <1>4, <1>6
  <2>2. t \in Waiters(kernel)
    BY <1>1, <2>1 DEF WaitsInv, Waiters
  <2> QED
    BY <1>3, <2>2 DEF Releases, Waiters
<1>8. ASSUME NEW l \in EventLists, NEW t \in Members(kernel'.event[l])
      PROVE  call'[t].obj = l /\ call'[t].at \in {"unlockBlocked", "try"}
  <2>1. t \in BlockedTasks(kernel) /\ t \in Members(kernel.event[l])
    BY <1>5 DEF Releases
  <2>2. call[t].obj = l /\ call[t].at \in {"unlockBlocked", "try"}
    BY <1>1, <2>1 DEF WaitsInv
  <2> QED
    BY <2>1, <2>2
<1>9. ASSUME NEW t \in Members(kernel'.pendingReady)
      PROVE  call'[t].obj \in Semaphores /\ call'[t].at \in {"unlockBlocked", "try"}
  <2>1. t \in BlockedTasks(kernel)
    BY <1>5
  <2>2. call[t].obj \in Semaphores /\ call[t].at \in {"unlockBlocked", "try"}
    <3>1. CASE t \in Members(kernel.pendingReady)
      BY <1>1, <3>1 DEF WaitsInv
    <3>2. CASE t \in Waiters(kernel) /\ call[t].obj \in Semaphores
      BY <1>1, <3>2 DEF WaitsInv, Waiters, Waiting, Pending
    <3> QED
      BY <3>1, <3>2
  <2> QED
    BY <2>1, <2>2
<1>10. Semaphores' = Semaphores
  BY DEF Semaphores
<1> QED
  BY <1>6, <1>7, <1>8, <1>9, <1>10 DEF WaitsInv, ReadyTasks

\* The same if no priority changes either.
LEMMA WaitsKept ==
    ASSUME MutexInv, Grows(kernel, kernel'),
           \A u \in BlockedTasks(kernel) :
               call'[u].obj = call[u].obj /\ call'[u].at \in {call[u].at, "try"},
           \A u \in Members(kernel'.pendingReady) :
               \/ u \in Members(kernel.pendingReady)
               \/ u \in Waiters(kernel) /\ call[u].obj \in Semaphores,
           kernel'.pendingReady # <<>> => kernel'.uxSchedulerSuspended = 1,
           \/ kernel'.pxCurrentTCB \in ReadyTasks(kernel')
           \/ call'[kernel'.pxCurrentTCB].at = "unlockBlocked"
    PROVE  WaitsInv'
<1>1. Releases(kernel, kernel')
  BY DEF Grows, Releases
<1> QED
  BY <1>1, TasksKept

\* PrioritiesInv, if no task gives what it holds.
LEMMA PrioritiesKept ==
    ASSUME MutexInv, Grows(kernel, kernel'), \A t \in Tasks : Holds(t) \subseteq Holds(t)'
    PROVE  PrioritiesInv'
<1>1. /\ kernel'.uxPriority = kernel.uxPriority /\ kernel'.uxBasePriority = kernel.uxBasePriority
      /\ kernel'.eventPriority = kernel.eventPriority
      /\ KeepsOrder(kernel, kernel')
  BY DEF Grows
<1>2. ASSUME NEW m \in Mutexes PROVE SortedBy(kernel'.event[m], kernel.uxBasePriority)
  <2>1. SortedBy(kernel.event[m], kernel.uxBasePriority)
    BY DEF MutexInv, PrioritiesInv, SortedBy
  <2> QED
    BY <1>1, <2>1, MutexFacts DEF KeepsOrder
<1>3. \A t \in Tasks : Holds(t)' = {} => Holds(t) = {}
  OBVIOUS
<1> QED
  BY <1>1, <1>2, <1>3 DEF MutexInv, PrioritiesInv, SortedBy

\* LentInv, if every caller that has made the holder inherit its priority stays in its call.
LEMMA LentKept ==
    ASSUME MutexInv, Grows(kernel, kernel'), xMutexHolder' = xMutexHolder, LendersStay
    PROVE  LentInv'
<1>1. /\ kernel'.uxPriority = kernel.uxPriority /\ kernel'.uxBasePriority = kernel.uxBasePriority
      /\ \A m \in Mutexes : Members(kernel'.event[m]) \subseteq Members(kernel.event[m])
      /\ \A m \in Mutexes : Members(kernel'.event[m]) \subseteq Tasks
  <2>1. \A m \in Mutexes : kernel'.event[m] \in Seq(Tasks)
    BY MutexFacts DEF Grows, Good, KernelOK, KernelType
  <2>2. \A m \in Mutexes : Members(kernel'.event[m]) \subseteq Tasks
    BY <2>1, MembersProperties
  <2> QED
    BY <2>2, MutexFacts DEF Grows
<1>2. SUFFICES ASSUME NEW m \in Mutexes, NEW h \in Tasks, xMutexHolder[m] = h
               PROVE  /\ \A t \in Members(kernel'.event[m]) :
                             /\ kernel.uxPriority[h] >= kernel.uxBasePriority[t]
                             /\ kernel.uxBasePriority[t] > kernel.uxBasePriority[h] =>
                                    call'[t].inherited
                      /\ \/ kernel.uxPriority[h] = kernel.uxBasePriority[h]
                         \/ \E t \in Tasks : /\ call'[t].obj = m /\ call'[t].inherited
                                             /\ kernel.uxPriority[h] = kernel.uxBasePriority[t]
  BY <1>1 DEF LentInv
<1>3. m \in EventLists /\ xMutexHolder[m] # NoTask /\ LentInv /\ WaitsInv
  BY <1>2, MutexFacts DEF MutexInv
<1>4. \A t \in Tasks : call[t].inherited /\ call[t].obj = m => call'[t].obj = m /\ call'[t].inherited
  BY <1>3 DEF LendersStay
<1>5. ASSUME NEW t \in Members(kernel'.event[m])
      PROVE  /\ kernel.uxPriority[h] >= kernel.uxBasePriority[t]
             /\ kernel.uxBasePriority[t] > kernel.uxBasePriority[h] => call'[t].inherited
  <2>1. t \in Members(kernel.event[m]) /\ t \in Tasks
    BY <1>1
  <2>2. call[t].obj = m
    BY <1>3, <2>1 DEF WaitsInv
  <2> QED
    BY <1>2, <1>3, <1>4, <2>1, <2>2 DEF LentInv
<1>6. \/ kernel.uxPriority[h] = kernel.uxBasePriority[h]
      \/ \E t \in Tasks : /\ call'[t].obj = m /\ call'[t].inherited
                          /\ kernel.uxPriority[h] = kernel.uxBasePriority[t]
  BY <1>2, <1>3, <1>4 DEF LentInv
<1> QED
  BY <1>5, <1>6

\* FreeInv, if who is on the way to a free mutex stays on it.
LEMMA FreeKept ==
    ASSUME MutexInv, Grows(kernel, kernel'), GoesOn(kernel, kernel'),
           \A m \in Mutexes : xMutexHolder'[m] = NoTask =>
               xMutexHolder[m] = NoTask /\ OnTheWay(m) \subseteq OnTheWay(m)'
    PROVE  FreeInv'
<1>1. SUFFICES ASSUME NEW m \in Mutexes, xMutexHolder'[m] = NoTask
               PROVE  /\ \A t \in Members(kernel'.event[m]) :
                             kernel'.uxPriority[kernel'.pxCurrentTCB] >= kernel'.uxBasePriority[t]
                      /\ kernel'.event[m] # <<>> =>
                             \E w \in OnTheWay(m)' : \A t \in Members(kernel'.event[m]) :
                                 kernel'.uxBasePriority[w] >= kernel'.uxBasePriority[t]
  BY DEF FreeInv
<1>2. /\ kernel'.uxPriority = kernel.uxPriority /\ kernel'.uxBasePriority = kernel.uxBasePriority
      /\ Members(kernel'.event[m]) \subseteq Members(kernel.event[m])
      /\ ReadyTasks(kernel) \subseteq ReadyTasks(kernel')
  BY MutexFacts DEF Grows
<1>3. xMutexHolder[m] = NoTask /\ OnTheWay(m) \subseteq OnTheWay(m)'
  BY <1>1
<1>4. kernel'.event[m] = <<>> <=> Members(kernel'.event[m]) = {}
  <2>1. kernel'.event[m] \in Seq(Tasks)
    BY MutexFacts DEF Grows, Good, KernelOK, KernelType
  <2> QED
    BY <2>1, MembersProperties
<1>5. CASE Members(kernel'.event[m]) = {}
  BY <1>4, <1>5
<1>6. CASE Members(kernel'.event[m]) # {}
  <2>1. kernel.event[m] # <<>>
    <3>1. kernel.event[m] \in Seq(Tasks) /\ Members(kernel.event[m]) # {}
      BY <1>2, <1>6, MutexFacts DEF KernelType
    <3> QED
      BY <3>1, MembersProperties
  <2>2. /\ \A t \in Members(kernel.event[m]) :
               kernel.uxPriority[kernel.pxCurrentTCB] >= kernel.uxBasePriority[t]
        /\ \E w \in OnTheWay(m) : \A t \in Members(kernel.event[m]) :
               kernel.uxBasePriority[w] >= kernel.uxBasePriority[t]
    BY <1>3, <2>1 DEF MutexInv, FreeInv
  <2>3. PICK w \in OnTheWay(m) : \A t \in Members(kernel.event[m]) :
                 kernel.uxBasePriority[w] >= kernel.uxBasePriority[t]
    BY <2>2
  <2>4. w \in ReadyTasks(kernel) /\ w \in Tasks
    BY CallerReady DEF OnTheWay
  <2>5. kernel.uxPriority[w] >= kernel.uxBasePriority[w]
    BY <2>4 DEF MutexInv, PrioritiesInv
  <2>6. kernel.uxPriority \in [Tasks -> Nat] /\ kernel.uxBasePriority \in [Tasks -> Nat]
    BY MutexFacts
  <2>7. kernel'.pxCurrentTCB \in Tasks /\ Members(kernel.event[m]) \subseteq Tasks
    <3>1. kernel.event[m] \in Seq(Tasks)
      BY MutexFacts DEF KernelType
    <3>2. kernel'.pxCurrentTCB \in Tasks
      BY DEF Grows, Good, KernelOK, KernelType
    <3> QED
      BY <3>1, <3>2, MembersProperties
  <2>8. ASSUME NEW t \in Members(kernel'.event[m])
        PROVE  kernel.uxPriority[kernel'.pxCurrentTCB] >= kernel.uxBasePriority[t]
    <3>1. CASE kernel'.pxCurrentTCB = kernel.pxCurrentTCB
      BY <1>2, <2>2, <3>1
    <3>2. CASE Highest(kernel', {})
      <4>1. kernel.uxPriority[w] <= kernel.uxPriority[kernel'.pxCurrentTCB]
        BY <1>2, <2>4, <3>2 DEF Highest
      <4>2. kernel.uxBasePriority[w] >= kernel.uxBasePriority[t] /\ t \in Tasks
        BY <1>2, <2>3, <2>7
      <4> QED
        BY <2>4, <2>5, <2>6, <2>7, <4>1, <4>2
    <3> QED
      BY <3>1, <3>2 DEF GoesOn
  <2> QED
    BY <1>2, <1>3, <2>3, <2>8
<1> QED
  BY <1>5, <1>6
-------------------------------------------------------------------------------
\* No give of an object is lost if the tasks of S are set on their way for what is given.
LEMMA GiveKept ==
    ASSUME MutexInv, NEW o \in EventLists, NEW S \in SUBSET Tasks, S \cap OnTheWay(o) = {},
           OnTheWay(o) \cup S \subseteq OnTheWay(o)',
           kernel'.event[o] # <<>> => kernel.event[o] # <<>>,
           uxMessagesWaiting'[o] \in Nat, cTxLock'[o] \in Int,
           uxMessagesWaiting'[o] + Max({cTxLock[o], 0})
               <= uxMessagesWaiting[o] + Max({cTxLock'[o], 0}) + Cardinality(S)
    PROVE  NoGiveLostOf(o)'
<1>1. IsFiniteSet(OnTheWay(o)) /\ IsFiniteSet(S) /\ IsFiniteSet(OnTheWay(o)')
  <2>1. OnTheWay(o) \subseteq Tasks /\ OnTheWay(o)' \subseteq Tasks
    BY DEF OnTheWay
  <2> QED
    BY <2>1, SchedulerAssumption, FS_Subset
<1>2. OnTheWay(o) \cap S = {}
  OBVIOUS
<1>3. IsFiniteSet(OnTheWay(o) \cup S) /\
      Cardinality(OnTheWay(o) \cup S) =
          Cardinality(OnTheWay(o)) + Cardinality(S) - Cardinality(OnTheWay(o) \cap S)
  BY <1>1, FS_Union
<1>4. Cardinality(OnTheWay(o) \cap S) = 0
  BY <1>2, FS_EmptySet
<1>5. Cardinality(OnTheWay(o) \cup S) <= Cardinality(OnTheWay(o)')
  BY <1>1, FS_Subset
<1>6. /\ Cardinality(OnTheWay(o)) \in Nat /\ Cardinality(S) \in Nat
      /\ Cardinality(OnTheWay(o)') \in Nat
  BY <1>1, FS_CardinalityType
<1>7. uxMessagesWaiting[o] \in Nat /\ cTxLock[o] \in Int
  BY DEF MutexInv, MutexTypeOK
<1>8. Max({cTxLock[o], 0}) \in Nat /\ Max({cTxLock'[o], 0}) \in Nat
  BY <1>7, LockCount
<1>9. SUFFICES ASSUME kernel'.event[o] # <<>>
               PROVE  uxMessagesWaiting'[o] <= Cardinality(OnTheWay(o)') + Max({cTxLock'[o], 0})
  BY DEF NoGiveLostOf
<1>10. uxMessagesWaiting[o] <= Cardinality(OnTheWay(o)) + Max({cTxLock[o], 0})
  BY <1>9 DEF MutexInv, NoLostGive
<1> QED
  BY <1>3, <1>4, <1>5, <1>6, <1>7, <1>8, <1>10

\* An object that nothing happens to.
LEMMA GiveUntouched ==
    ASSUME MutexInv, NEW o \in EventLists, OnTheWay(o) \subseteq OnTheWay(o)',
           kernel'.event[o] # <<>> => kernel.event[o] # <<>>,
           uxMessagesWaiting'[o] \in Nat, uxMessagesWaiting'[o] <= uxMessagesWaiting[o],
           \/ cTxLock'[o] = cTxLock[o]
           \/ cTxLock'[o] = 0 /\ cTxLock[o] = queueUNLOCKED
    PROVE  NoGiveLostOf(o)'
<1>1. uxMessagesWaiting[o] \in Nat /\ cTxLock[o] \in Int /\ cTxLock'[o] \in Int
  BY DEF MutexInv, MutexTypeOK
<1>2. Max({cTxLock[o], 0}) = Max({cTxLock'[o], 0}) /\ Max({cTxLock[o], 0}) \in Nat
  BY <1>1, LockCount DEF queueUNLOCKED
<1>3. Cardinality({}) = 0 /\ {} \cap OnTheWay(o) = {}
  BY FS_EmptySet
<1>4. uxMessagesWaiting'[o] + Max({cTxLock[o], 0})
          <= uxMessagesWaiting[o] + Max({cTxLock'[o], 0}) + Cardinality({})
  BY <1>1, <1>2, <1>3
<1> QED
  BY <1>1, <1>3, <1>4, GiveKept

\* The parts make the whole.
LEMMA GivesKept ==
    ASSUME \A o \in EventLists : NoGiveLostOf(o)'
    PROVE  NoLostGive'
BY DEF NoLostGive, NoGiveLostOf
-------------------------------------------------------------------------------
\* CallsInv, if no call goes on and the queues stay locked as they are.
LEMMA CallsKept ==
    ASSUME MutexInv, call' = call, cTxLock' = cTxLock,
           kernel'.uxSchedulerSuspended = kernel.uxSchedulerSuspended,
           kernel.uxSchedulerSuspended # 0 => kernel'.pxCurrentTCB = kernel.pxCurrentTCB
    PROVE  CallsInv'
<1>1. CallsInv
  BY DEF MutexInv
<1>2. CASE kernel.uxSchedulerSuspended # 0
  BY <1>1, <1>2 DEF CallsInv
<1>3. CASE kernel.uxSchedulerSuspended = 0
  <2>1. \A t \in Tasks : call[t].at \notin LockedPlaces
    BY <1>1, <1>3 DEF CallsInv
  <2>2. \A o \in EventLists : cTxLock[o] = queueUNLOCKED
    BY <1>1, <2>1, MutexFacts DEF CallsInv
  <2> QED
    BY <1>1, <1>3, <2>1, <2>2 DEF CallsInv
<1> QED
  BY <1>2, <1>3

\* HoldersInv, if no mutex is taken or given and no task begins to wait for its own.
LEMMA HoldersKept ==
    ASSUME MutexInv, xMutexHolder' = xMutexHolder,
           \A m \in Mutexes : uxMessagesWaiting'[m] = uxMessagesWaiting[m],
           kernel'.uxMutexesHeld = kernel.uxMutexesHeld,
           \A t \in Tasks, m \in Mutexes :
               call'[t].obj = m => call[t].obj = m \/ xMutexHolder[m] # t,
           \A t \in Tasks : call'[t].inherited \/ call'[t].at = "disinherit" =>
               call'[t].obj \in Mutexes
    PROVE  HoldersInv'
<1>1. HoldersInv
  BY DEF MutexInv
<1>2. \A t \in Tasks : Holds(t)' = Holds(t)
  BY DEF Holds
<1> QED
  BY <1>1, <1>2 DEF HoldersInv
-------------------------------------------------------------------------------
(***************************************************************************)
(* The steps of a call.                                                    *)
(***************************************************************************)

\* The time-out of a task.
LEMMA LeftRests ==
    ASSUME NEW k \in KernelType, NEW t \in Tasks, NEW n \in Int, NEW j,
           j = [k EXCEPT !.left[t] = n]
    PROVE  RestsAs(k, j, k.uxSchedulerSuspended, k.halted, k.uxMutexesHeld)
BY DEF KernelType, RestsAs, Rests, SameStates, SameEvents

\* One more mutex.
LEMMA HoldRests ==
    ASSUME NEW k \in KernelType, NEW t \in Tasks, NEW n \in Int, NEW j,
           j = [HoldOneMore(k, t) EXCEPT !.left[t] = n]
    PROVE  RestsAs(k, j, k.uxSchedulerSuspended, k.halted,
                   [k.uxMutexesHeld EXCEPT ![t] = @ + 1])
<1> DEFINE h == HoldOneMore(k, t)
           held == [k.uxMutexesHeld EXCEPT ![t] = @ + 1]
<1>1. held \in [Tasks -> Int]
  BY SMTT(30) DEF KernelType
<1>2. h = [k EXCEPT !.uxMutexesHeld = held]
  BY DEF HoldOneMore, KernelType
<1> HIDE DEF held, h
<1>3. h \in KernelType /\ RestsAs(k, h, k.uxSchedulerSuspended, k.halted, held)
  BY <1>1, <1>2 DEF KernelType, RestsAs, Rests, SameStates, SameEvents
<1>4. j = [h EXCEPT !.left[t] = n]
  BY DEF h
<1>5. RestsAs(h, j, h.uxSchedulerSuspended, h.halted, h.uxMutexesHeld)
  BY <1>3, <1>4, LeftRests
<1>6. RestsAs(k, j, k.uxSchedulerSuspended, k.halted, held)
  BY <1>3, <1>5 DEF RestsAs, Rests, SameStates, SameEvents
<1> QED
  BY <1>6 DEF held

\* configASSERT.
LEMMA HaltRests ==
    ASSUME NEW k \in KernelType
    PROVE  RestsAs(k, Halt(k), k.uxSchedulerSuspended, TRUE, k.uxMutexesHeld)
BY DEF KernelType, RestsAs, Rests, SameStates, SameEvents, Halt

\* vTaskSuspendAll.
LEMMA SuspendRests ==
    ASSUME NEW k \in KernelType
    PROVE  RestsAs(k, vTaskSuspendAll(k), k.uxSchedulerSuspended + 1, k.halted, k.uxMutexesHeld)
<1> DEFINE n == k.uxSchedulerSuspended + 1
<1>1. n \in Nat
  BY DEF KernelType
<1> HIDE DEF n
<1>2. vTaskSuspendAll(k) = [k EXCEPT !.uxSchedulerSuspended = n]
  BY DEF vTaskSuspendAll, n
<1>3. RestsAs(k, vTaskSuspendAll(k), n, k.halted, k.uxMutexesHeld)
  BY <1>1, <1>2 DEF KernelType, RestsAs, Rests, SameStates, SameEvents
<1> QED
  BY <1>3 DEF n

\* xTaskCheckForTimeOut.
LEMMA CheckRests ==
    ASSUME NEW k \in KernelType, NEW t \in Tasks
    PROVE  RestsAs(k, xTaskCheckForTimeOut(k, t), k.uxSchedulerSuspended, k.halted, k.uxMutexesHeld)
BY DEF KernelType, RestsAs, Rests, SameStates, SameEvents, xTaskCheckForTimeOut

\* Who is at a place where the scheduler is not suspended.
LEMMA OutsideFacts ==
    ASSUME MutexInv, NEW t \in Tasks, t = kernel.pxCurrentTCB, call[t].at \notin LockedPlaces
    PROVE  /\ kernel.uxSchedulerSuspended = 0 /\ t \in ReadyTasks(kernel)
           /\ \A u \in Tasks : call[u].at \notin LockedPlaces
           /\ \A o \in EventLists : cTxLock[o] = queueUNLOCKED
           /\ kernel.pendingReady = <<>>
<1>1. CallsInv /\ WaitsInv
  BY DEF MutexInv
<1>2. kernel.uxSchedulerSuspended = 0
  BY <1>1 DEF CallsInv
<1>3. t \in ReadyTasks(kernel)
  BY <1>1, MutexFacts DEF LockedPlaces
<1> QED
  BY <1>1, <1>2, <1>3 DEF CallsInv, WaitsInv

\* An object that a task takes an instance of.
LEMMA GiveTaken ==
    ASSUME MutexInv, NEW o \in EventLists, NEW t, OnTheWay(o) \ {t} \subseteq OnTheWay(o)',
           kernel'.event[o] # <<>> => kernel.event[o] # <<>>,
           uxMessagesWaiting'[o] = uxMessagesWaiting[o] - 1, cTxLock'[o] = cTxLock[o]
    PROVE  NoGiveLostOf(o)'
<1>1. IsFiniteSet(OnTheWay(o)) /\ IsFiniteSet(OnTheWay(o)')
  <2>1. OnTheWay(o) \subseteq Tasks /\ OnTheWay(o)' \subseteq Tasks
    BY DEF OnTheWay
  <2> QED
    BY <2>1, SchedulerAssumption, FS_Subset
<1>2. /\ IsFiniteSet(OnTheWay(o) \ {t})
      /\ Cardinality(OnTheWay(o) \ {t}) >= Cardinality(OnTheWay(o)) - 1
  <2>1. /\ IsFiniteSet(OnTheWay(o) \ {t})
        /\ Cardinality(OnTheWay(o) \ {t}) =
               IF t \in OnTheWay(o) THEN Cardinality(OnTheWay(o)) - 1 ELSE Cardinality(OnTheWay(o))
    BY <1>1, FS_RemoveElement
  <2>2. Cardinality(OnTheWay(o)) \in Nat
    BY <1>1, FS_CardinalityType
  <2> QED
    BY <2>1, <2>2
<1>3. Cardinality(OnTheWay(o) \ {t}) <= Cardinality(OnTheWay(o)')
  BY <1>1, FS_Subset
<1>4. /\ Cardinality(OnTheWay(o)) \in Nat /\ Cardinality(OnTheWay(o) \ {t}) \in Nat
      /\ Cardinality(OnTheWay(o)') \in Nat
  BY <1>1, <1>2, FS_CardinalityType
<1>5. uxMessagesWaiting[o] \in Nat /\ cTxLock[o] \in Int /\ Max({cTxLock[o], 0}) \in Nat
  BY LockCount DEF MutexInv, MutexTypeOK
<1>6. SUFFICES ASSUME kernel'.event[o] # <<>>
               PROVE  uxMessagesWaiting'[o] <= Cardinality(OnTheWay(o)') + Max({cTxLock[o], 0})
  BY DEF NoGiveLostOf
<1>7. uxMessagesWaiting[o] <= Cardinality(OnTheWay(o)) + Max({cTxLock[o], 0})
  BY <1>6 DEF MutexInv, NoLostGive
<1> QED
  BY <1>2, <1>3, <1>4, <1>5, <1>7

\* A task takes what it asks for.
LEMMA TakesIt ==
    ASSUME AtMostOneMutex, MutexInv, NEW t \in Tasks, t = kernel.pxCurrentTCB,
           NEW o \in EventLists,
           \/ call[t].at = "task"
           \/ call[t].at = "try" /\ call[t].obj = o,
           Available(o),
           uxMessagesWaiting' = [uxMessagesWaiting EXCEPT ![o] = @ - 1],
           xMutexHolder' = [m \in Mutexes |-> IF m = o THEN t ELSE xMutexHolder[m]],
           Return(t, IF o \in Mutexes THEN HoldOneMore(kernel, t) ELSE kernel),
           UNCHANGED cTxLock
    PROVE  MutexInv' /\ SwitchKept
<1>1. MutexTypeOK /\ CallsInv /\ WaitsInv /\ HoldersInv /\ PrioritiesInv /\ LentInv /\ FreeInv
  BY DEF MutexInv
<1>2. /\ Rests(kernel, kernel') /\ kernel'.uxSchedulerSuspended = kernel.uxSchedulerSuspended
      /\ kernel'.uxMutexesHeld = IF o \in Mutexes THEN [kernel.uxMutexesHeld EXCEPT ![t] = @ + 1]
                                 ELSE kernel.uxMutexesHeld
  <2>1. kernel \in KernelType /\ 0 \in Int
    BY MutexFacts
  <2>2. CASE o \in Mutexes
    <3>1. kernel' = [HoldOneMore(kernel, t) EXCEPT !.left[t] = 0]
      BY <2>2 DEF Return
    <3>2. RestsAs(kernel, kernel', kernel.uxSchedulerSuspended, kernel.halted,
                  [kernel.uxMutexesHeld EXCEPT ![t] = @ + 1])
      BY <2>1, <3>1, HoldRests
    <3> QED
      BY <2>2, <3>2 DEF RestsAs
  <2>3. CASE o \notin Mutexes
    <3>1. kernel' = [kernel EXCEPT !.left[t] = 0]
      BY <2>3 DEF Return
    <3> QED
      BY <2>1, <2>3, <3>1, LeftRests DEF RestsAs
  <2> QED
    BY <2>2, <2>3
<1>3. /\ Grows(kernel, kernel') /\ GoesOn(kernel, kernel') /\ Good(kernel')
      /\ ReadyTasks(kernel') = ReadyTasks(kernel)
      /\ Highest(kernel, {}) => Highest(kernel', {})
  BY <1>2, MutexFacts, RestsGrows DEF Grows
<1>4. /\ kernel'.event = kernel.event /\ kernel'.pendingReady = kernel.pendingReady
      /\ kernel'.pxCurrentTCB = t
      /\ kernel'.uxPriority = kernel.uxPriority /\ kernel'.uxBasePriority = kernel.uxBasePriority
  BY <1>2 DEF Rests, SameEvents
<1>5. /\ kernel.uxSchedulerSuspended = 0 /\ t \in ReadyTasks(kernel)
      /\ \A u \in Tasks : call[u].at \notin LockedPlaces
      /\ \A l \in EventLists : cTxLock[l] = queueUNLOCKED
      /\ kernel.pendingReady = <<>>
  BY OutsideFacts DEF LockedPlaces
<1>6. /\ call' = [call EXCEPT ![t] = NoCall] /\ call'[t] = NoCall
      /\ \A u \in Tasks \ {t} : call'[u] = call[u]
      /\ NoCall.at = "task" /\ NoCall.obj = NoTask /\ NoCall.inherited = FALSE
      /\ call[t].obj \in {o, NoTask} /\ (call[t].at = "task" => call[t] = NoCall)
  <2>1. NoCall.at = "task" /\ NoCall.obj = NoTask /\ NoCall.inherited = FALSE
    BY DEF NoCall
  <2>2. call' = [call EXCEPT ![t] = NoCall] /\ t \in DOMAIN call
    BY <1>1 DEF Return, MutexTypeOK
  <2>3. call[t].at = "task" => call[t] = NoCall
    BY <1>1 DEF CallsInv
  <2> QED
    BY <1>1, <2>1, <2>2, <2>3 DEF MutexTypeOK
<1>7. /\ uxMessagesWaiting[o] \in Nat /\ uxMessagesWaiting[o] > 0
      /\ uxMessagesWaiting'[o] = uxMessagesWaiting[o] - 1
      /\ \A l \in EventLists \ {o} : uxMessagesWaiting'[l] = uxMessagesWaiting[l]
      /\ o \in Mutexes => xMutexHolder[o] = NoTask /\ uxMessagesWaiting[o] = 1
  BY <1>1, MutexFacts DEF MutexTypeOK, Available, HoldersInv
<1>8. MutexTypeOK'
  <2>1. uxMessagesWaiting' \in [EventLists -> Nat]
    BY <1>1, <1>7 DEF MutexTypeOK
  <2>2. kernel' \in KernelType
    BY <1>2 DEF Rests
  <2>3. NoCall \in [at : Places, obj : EventLists \cup {NoTask}, expired : BOOLEAN, inherited : BOOLEAN]
    BY DEF NoCall, Places
  <2> QED
    BY <1>1, <1>6, <2>1, <2>2, <2>3 DEF MutexTypeOK
<1>9. CallsInv'
  BY <1>1, <1>2, <1>4, <1>5, <1>6 DEF CallsInv, LockedPlaces
<1>10. WaitsInv'
  <2>1. \A u \in BlockedTasks(kernel) : u # t
    BY <1>5, MutexFacts DEF Good, KernelOK, StateItemsOK
  <2>2. \A u \in BlockedTasks(kernel) : call'[u] = call[u]
    BY <1>1, <1>6, <2>1 DEF WaitsInv
  <2>3. /\ \A u \in BlockedTasks(kernel) :
               call'[u].obj = call[u].obj /\ call'[u].at \in {call[u].at, "try"}
        /\ kernel'.pendingReady = <<>> /\ kernel'.pendingReady = kernel.pendingReady
        /\ kernel'.pxCurrentTCB \in ReadyTasks(kernel')
    BY <1>3, <1>4, <1>5, <2>2
  <2> QED
    BY <1>3, <2>3, WaitsKept
<1>11. HoldersInv'
  <2>1. CASE o \notin Mutexes
    <3>1. xMutexHolder' = xMutexHolder
      BY <1>1, <2>1 DEF MutexTypeOK
    <3> QED
      BY <1>1, <1>2, <1>6, <1>7, <2>1, <3>1, MutexFacts, HoldersKept DEF HoldersInv
  <2>2. CASE o \in Mutexes
    <3>1. \A m \in Mutexes : m = o
      BY <2>2 DEF AtMostOneMutex
    <3>2. \A u \in Tasks : Holds(u) = {} /\ Holds(u)' = IF u = t THEN {o} ELSE {}
      BY <1>7, <2>2, <3>1, MutexFacts DEF Holds
    <3>3. Cardinality({}) = 0 /\ Cardinality({o}) = 1
      BY FS_EmptySet, FS_Singleton
    <3>4. kernel.uxMutexesHeld \in [Tasks -> Int]
      BY <1>1 DEF MutexTypeOK, KernelType
    <3>5. \A u \in Tasks : kernel'.uxMutexesHeld[u] = Cardinality(Holds(u)')
      <4>1. ASSUME NEW u \in Tasks PROVE kernel'.uxMutexesHeld[u] = IF u = t THEN 1 ELSE 0
        <5>1. kernel.uxMutexesHeld[u] = 0
          BY <1>1, <3>2, <3>3 DEF HoldersInv
        <5> QED
          BY <1>2, <2>2, <3>4, <5>1
      <4> QED
        BY <3>2, <3>3, <4>1
    <3>6. \A m \in Mutexes : uxMessagesWaiting'[m] = IF xMutexHolder'[m] = NoTask THEN 1 ELSE 0
      BY <1>7, <2>2, <3>1, MutexFacts
    <3>7. \A m \in Mutexes, u \in Tasks : xMutexHolder'[m] = u => call'[u].obj # m
      BY <1>6, <2>2, <3>1, MutexFacts
    <3>8. \A u \in Tasks : call'[u].inherited \/ call'[u].at = "disinherit" =>
              call'[u].obj \in Mutexes
      BY <1>1, <1>6 DEF HoldersInv
    <3> QED
      BY <3>5, <3>6, <3>7, <3>8 DEF HoldersInv
  <2> QED
    BY <2>1, <2>2
<1>12. PrioritiesInv'
  <2>1. \A u \in Tasks : Holds(u) \subseteq Holds(u)'
    BY <1>7, MutexFacts DEF Holds
  <2> QED
    BY <1>3, <2>1, PrioritiesKept
<1>13. LentInv' /\ FreeInv'
  <2>1. CASE o \notin Mutexes
    <3>1. xMutexHolder' = xMutexHolder
      BY <1>1, <2>1 DEF MutexTypeOK
    <3>2. LendersStay
      BY <1>1, <1>6, <2>1, MutexFacts DEF HoldersInv, LendersStay
    <3>3. ASSUME NEW m \in Mutexes PROVE OnTheWay(m) \subseteq OnTheWay(m)'
      <4>1. call[t].obj # m
        BY <1>6, <2>1, MutexFacts
      <4> QED
        BY <1>4, <1>6, <4>1 DEF OnTheWay
    <3> QED
      BY <1>3, <3>1, <3>2, <3>3, LentKept, FreeKept
  <2>2. CASE o \in Mutexes
    <3>1. \A m \in Mutexes : m = o /\ xMutexHolder'[m] = t
      BY <2>2 DEF AtMostOneMutex
    <3>2. FreeInv'
      BY <3>1, MutexFacts DEF FreeInv
    <3>3. Holds(t) = {}
      BY <1>7, <2>2, <3>1, MutexFacts DEF Holds
    <3>4. kernel.uxPriority[t] = kernel.uxBasePriority[t]
      BY <1>1, <3>3 DEF PrioritiesInv
    <3>5. \A u \in Members(kernel.event[o]) : kernel.uxPriority[t] >= kernel.uxBasePriority[u]
      BY <1>1, <1>7, <2>2 DEF FreeInv
    <3>6. Members(kernel.event[o]) \subseteq Tasks
      <4>1. kernel.event[o] \in Seq(Tasks)
        BY MutexFacts DEF KernelType
      <4> QED
        BY <4>1, MembersProperties
    <3>7. \A u \in Members(kernel.event[o]) : ~(kernel.uxBasePriority[u] > kernel.uxBasePriority[t])
      BY <3>4, <3>5, <3>6, MutexFacts
    <3>8. LentInv'
      BY <1>4, <3>1, <3>4, <3>5, <3>7 DEF LentInv
    <3> QED
      BY <3>2, <3>8
  <2> QED
    BY <2>1, <2>2
<1>14. NoLostGive'
  <2>1. NoGiveLostOf(o)'
    <3>1. OnTheWay(o) \ {t} \subseteq OnTheWay(o)'
      BY <1>4, <1>6 DEF OnTheWay
    <3> QED
      BY <1>4, <1>7, <3>1, GiveTaken
  <2>2. ASSUME NEW l \in EventLists, l # o PROVE NoGiveLostOf(l)'
    <3>1. call[t].obj # l
      BY <1>6, <2>2, MutexFacts
    <3>2. OnTheWay(l) \subseteq OnTheWay(l)'
      BY <1>4, <1>6, <3>1 DEF OnTheWay
    <3>3. uxMessagesWaiting'[l] \in Nat /\ uxMessagesWaiting'[l] <= uxMessagesWaiting[l]
      BY <1>1, <1>7, <2>2 DEF MutexTypeOK
    <3>4. cTxLock'[l] = cTxLock[l] /\ (kernel'.event[l] # <<>> => kernel.event[l] # <<>>)
      BY <1>4
    <3> QED
      BY <3>2, <3>3, <3>4, GiveUntouched
  <2> QED
    BY <2>1, <2>2, GivesKept
<1> QED
  BY <1>3, <1>8, <1>9, <1>10, <1>11, <1>12, <1>13, <1>14 DEF MutexInv, Good, SwitchKept

\* Nothing of an object is left.
LEMMA GiveNone ==
    ASSUME NEW o \in EventLists, uxMessagesWaiting'[o] = 0, cTxLock'[o] \in Int
    PROVE  NoGiveLostOf(o)'
<1>1. IsFiniteSet(OnTheWay(o)')
  <2>1. OnTheWay(o)' \subseteq Tasks
    BY DEF OnTheWay
  <2> QED
    BY <2>1, SchedulerAssumption, FS_Subset
<1>2. Cardinality(OnTheWay(o)') \in Nat
  BY <1>1, FS_CardinalityType
<1>3. Max({cTxLock'[o], 0}) \in Nat
  BY LockCount
<1>4. uxMessagesWaiting'[o] <= Cardinality(OnTheWay(o)') + Max({cTxLock'[o], 0})
  BY <1>2, <1>3
<1> QED
  BY <1>4 DEF NoGiveLostOf

\* The running task goes on in its call, or leaves it without what it asked for: c is the
\* call from then on.
LEMMA CallGoesOn ==
    ASSUME MutexInv, NEW t \in Tasks, t = kernel.pxCurrentTCB, t \in ReadyTasks(kernel),
           Rests(kernel, kernel'), kernel'.uxMutexesHeld = kernel.uxMutexesHeld,
           kernel.pendingReady # <<>> => kernel'.uxSchedulerSuspended = 1,
           UNCHANGED <<uxMessagesWaiting, xMutexHolder>>,
           LocksOnly, NEW c, Proceeds(t, c), call' = [call EXCEPT ![t] = c], CallsInv'
    PROVE  MutexInv' /\ SwitchKept
<1>1. MutexTypeOK /\ WaitsInv /\ HoldersInv
  BY DEF MutexInv
<1>2. /\ Grows(kernel, kernel') /\ GoesOn(kernel, kernel') /\ Good(kernel')
      /\ ReadyTasks(kernel') = ReadyTasks(kernel)
      /\ Highest(kernel, {}) => Highest(kernel', {})
  <2>1. Good(kernel)
    BY MutexFacts
  <2>2. /\ Grows(kernel, kernel') /\ GoesOn(kernel, kernel')
        /\ ReadyTasks(kernel') = ReadyTasks(kernel)
        /\ Highest(kernel, {}) => Highest(kernel', {})
    BY <2>1, RestsGrows
  <2> QED
    BY <2>2 DEF Grows
<1>3. /\ kernel'.event = kernel.event /\ kernel'.pendingReady = kernel.pendingReady
      /\ kernel'.pxCurrentTCB = t
  BY DEF Rests, SameEvents
<1>4. call'[t] = c /\ \A u \in Tasks \ {t} : call'[u] = call[u]
  BY <1>1 DEF MutexTypeOK
<1>13. /\ c \in TakeCallType /\ cTxLock' \in [EventLists -> Int]
       /\ \A m \in Mutexes : c.obj = m => call[t].obj = m \/ xMutexHolder[m] # t
       /\ c.inherited \/ c.at = "disinherit" => c.obj \in Mutexes
       /\ \A m \in Mutexes : call[t].inherited /\ call[t].obj = m /\ xMutexHolder[m] # NoTask =>
              c.obj = m /\ c.inherited
       /\ call[t].obj \in EventLists /\ Available(call[t].obj) /\ call[t].at # "disinherit" =>
              c.obj = call[t].obj /\ c.at # "disinherit"
  BY MutexFacts DEF Proceeds, LocksOnly, Holds
<1>5. MutexTypeOK'
  <2>1. kernel' \in KernelType
    BY DEF Rests
  <2>2. call' \in [Tasks -> [at : Places, obj : EventLists \cup {NoTask},
                             expired : BOOLEAN, inherited : BOOLEAN]]
    BY <1>1, <1>13 DEF MutexTypeOK, TakeCallType
  <2> QED
    BY <1>1, <1>13, <2>1, <2>2 DEF MutexTypeOK
<1>6. WaitsInv'
  <2>1. \A u \in BlockedTasks(kernel) : u \in Tasks /\ u # t
    BY <1>1, MutexFacts DEF Good, KernelOK, StateItemsOK, WaitsInv
  <2>2. \A u \in BlockedTasks(kernel) :
            call'[u].obj = call[u].obj /\ call'[u].at \in {call[u].at, "try"}
    BY <1>4, <2>1
  <2>3. /\ \A u \in Members(kernel'.pendingReady) :
               \/ u \in Members(kernel.pendingReady)
               \/ u \in Waiters(kernel) /\ call[u].obj \in Semaphores
        /\ kernel'.pendingReady # <<>> => kernel'.uxSchedulerSuspended = 1
        /\ kernel'.pxCurrentTCB \in ReadyTasks(kernel')
    BY <1>2, <1>3
  <2> QED
    BY <1>2, <2>2, <2>3, WaitsKept
<1>7. HoldersInv'
  <2>1. ASSUME NEW u \in Tasks
        PROVE  call'[u].inherited \/ call'[u].at = "disinherit" => call'[u].obj \in Mutexes
    BY <1>1, <1>4, <1>13 DEF HoldersInv
  <2>2. ASSUME NEW u \in Tasks, NEW m \in Mutexes
        PROVE  call'[u].obj = m => call[u].obj = m \/ xMutexHolder[m] # u
    BY <1>4, <1>13
  <2> QED
    BY <2>1, <2>2, HoldersKept
<1>8. PrioritiesInv'
  <2>1. \A u \in Tasks : Holds(u) \subseteq Holds(u)'
    BY DEF Holds
  <2> QED
    BY <1>2, <2>1, PrioritiesKept
<1>9. LentInv'
  <2>1. LendersStay
    BY <1>4, <1>13 DEF LendersStay
  <2> QED
    BY <1>2, <2>1, LentKept
<1>10. ASSUME NEW o \in EventLists, Available(o)
       PROVE  OnTheWay(o) \subseteq OnTheWay(o)'
  BY <1>3, <1>4, <1>10, <1>13 DEF OnTheWay
<1>11. FreeInv'
  <2>1. ASSUME NEW m \in Mutexes, xMutexHolder'[m] = NoTask
        PROVE  xMutexHolder[m] = NoTask /\ OnTheWay(m) \subseteq OnTheWay(m)'
    <3>1. xMutexHolder[m] = NoTask /\ m \in EventLists
      BY <2>1, MutexFacts
    <3>2. Available(m)
      BY <1>1, <3>1 DEF HoldersInv, Available
    <3> QED
      BY <1>10, <3>1, <3>2
  <2> QED
    BY <1>2, <2>1, FreeKept
<1>12. NoLostGive'
  <2>1. ASSUME NEW o \in EventLists PROVE NoGiveLostOf(o)'
    <3>1. uxMessagesWaiting[o] \in Nat /\ uxMessagesWaiting'[o] = uxMessagesWaiting[o]
      BY <1>1 DEF MutexTypeOK
    <3>2. CASE Available(o)
      <4>1. OnTheWay(o) \subseteq OnTheWay(o)'
        BY <1>10, <3>2
      <4>2. kernel'.event[o] # <<>> => kernel.event[o] # <<>>
        BY <1>3
      <4>3. uxMessagesWaiting'[o] <= uxMessagesWaiting[o]
        BY <3>1
      <4> QED
        BY <3>1, <4>1, <4>2, <4>3, GiveUntouched DEF LocksOnly
    <3>3. CASE ~Available(o)
      <4>1. uxMessagesWaiting'[o] = 0
        BY <3>1, <3>3 DEF Available
      <4> QED
        BY <1>13, <4>1, GiveNone
    <3> QED
      BY <3>2, <3>3
  <2> QED
    BY <2>1, GivesKept
<1> QED
  BY <1>2, <1>5, <1>6, <1>7, <1>8, <1>9, <1>11, <1>12 DEF MutexInv, Good, SwitchKept

\* A step outside of the calls: of an interrupt, or of a task that gives a semaphore.
LEMMA OutsideStep ==
    ASSUME MutexInv, Grows(kernel, kernel'), GoesOn(kernel, kernel'),
           Highest(kernel, {}) => Highest(kernel', {}),
           kernel'.uxMutexesHeld = kernel.uxMutexesHeld,
           kernel'.uxSchedulerSuspended = kernel.uxSchedulerSuspended,
           \A u \in Members(kernel'.pendingReady) :
               \/ u \in Members(kernel.pendingReady)
               \/ u \in Waiters(kernel) /\ call[u].obj \in Semaphores,
           kernel'.pendingReady # <<>> => kernel'.uxSchedulerSuspended = 1,
           xMutexHolder' = xMutexHolder, call' = call, CallsInv',
           uxMessagesWaiting' \in [EventLists -> Nat], cTxLock' \in [EventLists -> Int],
           \A m \in Mutexes : uxMessagesWaiting'[m] = uxMessagesWaiting[m],
           NoLostGive'
    PROVE  MutexInv' /\ SwitchKept
<1>1. MutexTypeOK /\ WaitsInv /\ HoldersInv
  BY DEF MutexInv
<1>2. Good(kernel') /\ kernel' \in KernelType
  BY DEF Grows, Good, KernelOK
<1>3. MutexTypeOK'
  BY <1>1, <1>2 DEF MutexTypeOK
<1>4. \/ kernel'.pxCurrentTCB \in ReadyTasks(kernel')
      \/ call'[kernel'.pxCurrentTCB].at = "unlockBlocked"
  BY MutexFacts DEF GoesOn, Grows
<1>5. WaitsInv'
  BY <1>4, WaitsKept
<1>6. HoldersInv'
  BY <1>1, HoldersKept DEF HoldersInv
<1>7. PrioritiesInv'
  <2>1. \A u \in Tasks : Holds(u) \subseteq Holds(u)'
    BY DEF Holds
  <2> QED
    BY <2>1, PrioritiesKept
<1>8. LentInv'
  <2>1. LendersStay
    BY DEF LendersStay
  <2> QED
    BY <2>1, LentKept
<1>9. FreeInv'
  <2>1. ASSUME NEW m \in Mutexes PROVE OnTheWay(m) \subseteq OnTheWay(m)'
    <3>1. Members(kernel'.event[m]) \subseteq Members(kernel.event[m])
      BY MutexFacts DEF Grows
    <3> QED
      BY <3>1 DEF OnTheWay
  <2> QED
    BY <2>1, FreeKept
<1> QED
  BY <1>2, <1>3, <1>5, <1>6, <1>7, <1>8, <1>9 DEF MutexInv, Good, KernelOK, SwitchKept
-------------------------------------------------------------------------------
(***************************************************************************)
(* xQueueSemaphoreTake.                                                    *)
(***************************************************************************)
\* A call that ends and one that has not begun.
LEMMA NoCallFacts ==
    /\ NoCall \in TakeCallType /\ NoCall.at = "task" /\ NoCall.obj = NoTask
    /\ NoCall.expired = FALSE /\ NoCall.inherited = FALSE
BY DEF NoCall, TakeCallType, Places

\* What the changed record of one call says of the calls, as long as the scheduler runs.
LEMMA CallsMoved ==
    ASSUME MutexInv, NEW t \in Tasks, t # Idle, t = kernel.pxCurrentTCB,
           call[t].at \notin LockedPlaces,
           NEW c \in TakeCallType, call' = [call EXCEPT ![t] = c], c.at \notin LockedPlaces,
           IF c.at = "task" THEN c = NoCall ELSE c.obj \in EventLists,
           kernel'.pxCurrentTCB = t,
           kernel'.uxSchedulerSuspended = kernel.uxSchedulerSuspended, UNCHANGED cTxLock
    PROVE  CallsInv'
<1>1. CallsInv /\ MutexTypeOK
  BY DEF MutexInv
<1>2. call'[t] = c /\ \A u \in Tasks \ {t} : call'[u] = call[u]
  BY <1>1 DEF MutexTypeOK
<1>3. /\ kernel.uxSchedulerSuspended = 0
      /\ \A u \in Tasks : call[u].at \notin LockedPlaces
      /\ \A o \in EventLists : cTxLock[o] = queueUNLOCKED
  BY OutsideFacts
<1>4. \A u \in Tasks : call'[u].at \notin LockedPlaces
  BY <1>2, <1>3
<1>5. \A u \in Tasks : IF call'[u].at = "task" THEN call'[u] = NoCall ELSE call'[u].obj \in EventLists
  BY <1>1, <1>2 DEF CallsInv
<1>6. call'[Idle] = NoCall /\ \A m \in Mutexes : cTxLock'[m] <= 0
  BY <1>1, <1>2, SchedulerAssumption DEF CallsInv
<1> QED
  BY <1>3, <1>4, <1>5, <1>6 DEF CallsInv

\* The critical section of the loop of xQueueSemaphoreTake, on the way into it or not.
LEMMA TryTakeStep ==
    ASSUME AtMostOneMutex, MutexInv, NEW t \in Tasks, t # Idle, t = kernel.pxCurrentTCB,
           NEW c \in TakeCallType, c.obj \in EventLists, c.at \in {"task", "try"},
           \/ call[t] = NoCall /\ c.inherited = FALSE /\ c.obj \notin Holds(t)
           \/ call[t] = c /\ c.at = "try",
           NEW ticks \in Int, TryTake(t, c, ticks)
    PROVE  MutexInv' /\ SwitchKept
<1> DEFINE o == c.obj
<1>1. CallsInv /\ WaitsInv /\ HoldersInv /\ MutexTypeOK
  BY DEF MutexInv
<1>2. kernel \in KernelType /\ 0 \in Int
  BY MutexFacts
<1>3. call[t].at \in {"task", "try"} /\ call[t].at \notin LockedPlaces /\ call[t].at # "disinherit"
  BY NoCallFacts DEF LockedPlaces
<1>4. /\ kernel.uxSchedulerSuspended = 0 /\ t \in ReadyTasks(kernel) /\ kernel.pendingReady = <<>>
  BY <1>3, OutsideFacts
<1>5. /\ call[t].obj = o \/ call[t].obj \notin EventLists
      /\ call[t].inherited => call[t] = c
      /\ o = call[t].obj \/ o \notin Holds(t)
      /\ c.inherited => o \in Mutexes
  <2>1. CASE call[t] = NoCall /\ c.inherited = FALSE /\ c.obj \notin Holds(t)
    BY <2>1, NoCallFacts, MutexFacts
  <2>2. CASE call[t] = c
    <3>1. c.inherited => c.obj \in Mutexes
      BY <1>1, <2>2 DEF HoldersInv
    <3> QED
      BY <2>2, <3>1
  <2> QED
    BY <2>1, <2>2
<1>6. CASE /\ Available(o)
           /\ uxMessagesWaiting' = [uxMessagesWaiting EXCEPT ![o] = @ - 1]
           /\ xMutexHolder' = [m \in Mutexes |-> IF m = o THEN t ELSE xMutexHolder[m]]
           /\ Return(t, IF o \in Mutexes THEN HoldOneMore(kernel, t) ELSE kernel)
           /\ UNCHANGED cTxLock
  <2>1. \/ call[t].at = "task"
        \/ call[t].at = "try" /\ call[t].obj = o
    BY NoCallFacts
  <2> QED
    BY <1>6, <2>1, TakesIt
<1>7. CASE ~Available(o) /\ c.expired /\ ~c.inherited /\ Return(t, kernel) /\ UNCHANGED objects
  <2>1. kernel' = [kernel EXCEPT !.left[t] = 0] /\ call' = [call EXCEPT ![t] = NoCall]
    BY <1>7 DEF Return
  <2>2. /\ Rests(kernel, kernel') /\ kernel'.uxMutexesHeld = kernel.uxMutexesHeld
        /\ kernel'.uxSchedulerSuspended = kernel.uxSchedulerSuspended
    BY <1>2, <2>1, LeftRests DEF RestsAs
  <2>3. CallsInv'
    BY <1>3, <1>7, <2>1, <2>2, NoCallFacts, CallsMoved DEF objects, Rests, LockedPlaces
  <2>4. Proceeds(t, NoCall)
    BY <1>5, <1>7, NoCallFacts, MutexFacts DEF Proceeds
  <2>5. UNCHANGED <<uxMessagesWaiting, xMutexHolder>> /\ LocksOnly
    BY <1>1, <1>7 DEF objects, MutexTypeOK, LocksOnly
  <2>6. kernel.pendingReady # <<>> => kernel'.uxSchedulerSuspended = 1
    BY <1>4
  <2> QED
    BY <1>4, <2>1, <2>2, <2>3, <2>4, <2>5, <2>6, CallGoesOn
<1>8. CASE kernel' = Halt(kernel) /\ UNCHANGED <<objects, call>>
  <2>1. /\ Rests(kernel, kernel') /\ kernel'.uxMutexesHeld = kernel.uxMutexesHeld
        /\ kernel'.uxSchedulerSuspended = kernel.uxSchedulerSuspended
    BY <1>2, <1>8, HaltRests DEF RestsAs
  <2>2. CallsInv'
    BY <1>8, <2>1, CallsKept DEF objects, Rests
  <2>3. call' = [call EXCEPT ![t] = call[t]] /\ call[t] \in TakeCallType
    BY <1>1, <1>8 DEF MutexTypeOK, TakeCallType
  <2>4. call[t].inherited => call[t].obj \in Mutexes
    BY <1>1 DEF HoldersInv
  <2>5. Proceeds(t, call[t])
    BY <1>3, <2>3, <2>4 DEF Proceeds
  <2>6. UNCHANGED <<uxMessagesWaiting, xMutexHolder>> /\ LocksOnly
    BY <1>1, <1>8 DEF objects, MutexTypeOK, LocksOnly
  <2>7. kernel.pendingReady # <<>> => kernel'.uxSchedulerSuspended = 1
    BY <1>4
  <2> QED
    BY <1>4, <2>1, <2>2, <2>3, <2>5, <2>6, <2>7, CallGoesOn
<1>9. CASE /\ ~Available(o) /\ ~c.expired
           /\ kernel' = [kernel EXCEPT !.left[t] = ticks]
           /\ call' = [call EXCEPT ![t] = [c EXCEPT !.at = "suspend"]]
           /\ UNCHANGED objects
  <2> DEFINE d == [c EXCEPT !.at = "suspend"]
  <2>1. d \in TakeCallType /\ d.at = "suspend" /\ d.obj = o /\ d.inherited = c.inherited
    BY DEF TakeCallType, Places
  <2> HIDE DEF d
  <2>2. kernel' = [kernel EXCEPT !.left[t] = ticks] /\ call' = [call EXCEPT ![t] = d]
    BY <1>9 DEF d
  <2>3. /\ Rests(kernel, kernel') /\ kernel'.uxMutexesHeld = kernel.uxMutexesHeld
        /\ kernel'.uxSchedulerSuspended = kernel.uxSchedulerSuspended
    BY <1>2, <2>2, LeftRests DEF RestsAs
  <2>4. CallsInv'
    BY <1>3, <1>9, <2>1, <2>2, <2>3, CallsMoved DEF objects, Rests, LockedPlaces
  <2>5. Proceeds(t, d)
    BY <1>5, <1>9, <2>1 DEF Proceeds
  <2>6. UNCHANGED <<uxMessagesWaiting, xMutexHolder>> /\ LocksOnly
    BY <1>1, <1>9 DEF objects, MutexTypeOK, LocksOnly
  <2>7. kernel.pendingReady # <<>> => kernel'.uxSchedulerSuspended = 1
    BY <1>4
  <2> QED
    BY <1>4, <2>2, <2>3, <2>4, <2>5, <2>6, <2>7, CallGoesOn
<1> QED
  BY <1>6, <1>7, <1>8, <1>9 DEF TryTake

\* rtosalMutexWait and rtosalSemaphoreWait.
LEMMA TakeKeeps ==
    ASSUME AtMostOneMutex, MutexInv, NEW t \in Users, Take(t)
    PROVE  MutexInv' /\ SwitchKept
<1>1. t \in Tasks /\ t # Idle /\ t = kernel.pxCurrentTCB /\ call[t].at = "task"
  BY DEF Users, Take, In, Running
<1>2. call[t] = NoCall
  BY <1>1 DEF MutexInv, CallsInv
<1>3. PICK o \in MayTake(t), ticks \in WaitTicks[t] :
          TryTake(t, [NoCall EXCEPT !.obj = o, !.expired = (ticks = 0)], ticks)
  BY DEF Take
<1> DEFINE c == [NoCall EXCEPT !.obj = o, !.expired = (ticks = 0)]
<1>4. o \in EventLists /\ o \notin Holds(t)
  BY <1>1, MutexAssumption DEF MayTake, Holds
<1>5. ticks \in Int
  BY <1>1, MutexAssumption DEF Forever
<1>6. c \in TakeCallType /\ c.obj = o /\ c.at = "task" /\ c.inherited = FALSE
  BY <1>4 DEF TakeCallType, NoCall, Places
<1>7. TryTake(t, c, ticks)
  BY <1>3
<1> HIDE DEF c
<1> QED
  BY <1>1, <1>2, <1>4, <1>5, <1>6, <1>7, TryTakeStep

\* The next time round the loop.
LEMMA RetryKeeps ==
    ASSUME AtMostOneMutex, MutexInv, NEW t \in Users, Retry(t)
    PROVE  MutexInv' /\ SwitchKept
<1>1. t \in Tasks /\ t # Idle /\ t = kernel.pxCurrentTCB /\ call[t].at = "try"
  BY DEF Users, Retry, In, Running
<1>2. call[t] \in TakeCallType /\ call[t].obj \in EventLists
  BY <1>1 DEF MutexInv, MutexTypeOK, TakeCallType, CallsInv
<1>3. kernel.left[t] \in Int
  BY <1>1, MutexFacts DEF KernelType
<1> QED
  BY <1>1, <1>2, <1>3, TryTakeStep DEF Retry

\* vTaskSuspendAll and prvLockQueue.
LEMMA LockQueueKeeps ==
    ASSUME MutexInv, NEW t \in Users, LockQueue(t)
    PROVE  MutexInv' /\ SwitchKept
<1> DEFINE o == call[t].obj
           c == [call[t] EXCEPT !.at = "wait"]
<1>1. t \in Tasks /\ t # Idle /\ t = kernel.pxCurrentTCB /\ call[t].at = "suspend"
  BY DEF Users, LockQueue, In, Running
<1>2. MutexTypeOK /\ CallsInv /\ HoldersInv
  BY DEF MutexInv
<1>3. call[t].at \notin LockedPlaces /\ "wait" \in LockedPlaces
  BY <1>1 DEF LockedPlaces
<1>4. /\ kernel.uxSchedulerSuspended = 0 /\ t \in ReadyTasks(kernel) /\ kernel.pendingReady = <<>>
      /\ \A u \in Tasks : call[u].at \notin LockedPlaces
      /\ \A l \in EventLists : cTxLock[l] = queueUNLOCKED
  BY <1>1, <1>3, OutsideFacts
<1>5. /\ Rests(kernel, kernel') /\ kernel'.uxMutexesHeld = kernel.uxMutexesHeld
      /\ kernel'.uxSchedulerSuspended = 1
  <2>1. kernel \in KernelType /\ kernel' = vTaskSuspendAll(kernel)
    BY MutexFacts DEF LockQueue
  <2> QED
    BY <1>4, <2>1, SuspendRests DEF RestsAs
<1>6. /\ c \in TakeCallType /\ c.at = "wait" /\ c.obj = o /\ c.inherited = call[t].inherited
      /\ o \in EventLists
  BY <1>1, <1>2 DEF MutexTypeOK, TakeCallType, Places, CallsInv
<1>7. call' = [call EXCEPT ![t] = c] /\ cTxLock' = [cTxLock EXCEPT ![o] = 0]
  BY <1>1, <1>2 DEF LockQueue, Goto, MutexTypeOK
<1> HIDE DEF c
<1>8. Proceeds(t, c)
  BY <1>2, <1>1, <1>6 DEF Proceeds, HoldersInv
<1>9. LocksOnly
  BY <1>2, <1>4, <1>6, <1>7 DEF LocksOnly, MutexTypeOK
<1>10. CallsInv'
  <2>1. call'[t] = c /\ \A u \in Tasks \ {t} : call'[u] = call[u]
    BY <1>1, <1>2, <1>7 DEF MutexTypeOK
  <2>2. kernel'.pxCurrentTCB = t
    BY <1>1, <1>5 DEF Rests
  <2>3. cTxLock'[o] = 0 /\ \A l \in EventLists \ {o} : cTxLock'[l] = queueUNLOCKED
    BY <1>2, <1>4, <1>6, <1>7 DEF MutexTypeOK
  <2>4. \A u \in Tasks : call'[u].at \in LockedPlaces <=> u = t
    BY <1>3, <1>4, <1>6, <2>1
  <2>5. \A u \in Tasks : IF call'[u].at = "task" THEN call'[u] = NoCall
                         ELSE call'[u].obj \in EventLists
    BY <1>2, <1>6, <2>1 DEF CallsInv
  <2>6. call'[Idle] = NoCall
    BY <1>1, <1>2, <2>1, SchedulerAssumption DEF CallsInv
  <2>7. \A m \in Mutexes : cTxLock'[m] <= 0
    BY <2>3, MutexFacts DEF queueUNLOCKED
  <2>8. \A l \in EventLists : \/ cTxLock'[l] = queueUNLOCKED
                              \/ /\ cTxLock'[l] >= 0 /\ call'[t].at \in LockedPlaces
                                 /\ call'[t].obj = l
    BY <1>3, <1>6, <2>1, <2>3
  <2>9. \A u \in Tasks : call'[u].at \in LockedPlaces => cTxLock'[call'[u].obj] >= 0
    BY <1>6, <2>1, <2>3, <2>4
  <2> QED
    BY <1>5, <2>2, <2>4, <2>5, <2>6, <2>7, <2>8, <2>9 DEF CallsInv
<1>11. UNCHANGED <<uxMessagesWaiting, xMutexHolder>>
  BY DEF LockQueue
<1> QED
  BY <1>1, <1>4, <1>5, <1>7, <1>8, <1>9, <1>10, <1>11, CallGoesOn

\* A call that goes on with the scheduler suspended.
LEMMA LockedFacts ==
    ASSUME MutexInv, NEW t \in Tasks, call[t].at \in LockedPlaces
    PROVE  /\ t = kernel.pxCurrentTCB /\ kernel.uxSchedulerSuspended = 1 /\ t # Idle
           /\ call[t].obj \in EventLists /\ cTxLock[call[t].obj] \in Nat
           /\ call[t].at # "unlockBlocked" => t \in ReadyTasks(kernel)
<1>1. CallsInv /\ MutexTypeOK
  BY DEF MutexInv
<1>2. t = kernel.pxCurrentTCB /\ kernel.uxSchedulerSuspended = 1
  BY <1>1 DEF CallsInv
<1>3. call[t].at # "task" /\ t # Idle
  BY <1>1, NoCallFacts DEF CallsInv, LockedPlaces
<1>4. call[t].obj \in EventLists /\ cTxLock[call[t].obj] \in Nat
  BY <1>1, <1>3 DEF CallsInv, MutexTypeOK
<1> QED
  BY <1>2, <1>3, <1>4, MutexFacts

\* It is where the scheduler is suspended, still for the same object.
LEMMA CallsMovedLocked ==
    ASSUME MutexInv, NEW t \in Tasks, call[t].at \in LockedPlaces,
           NEW c, call' = [call EXCEPT ![t] = c], c.at \in LockedPlaces, c.obj = call[t].obj,
           kernel'.pxCurrentTCB = t,
           kernel'.uxSchedulerSuspended = kernel.uxSchedulerSuspended, UNCHANGED cTxLock
    PROVE  CallsInv'
<1>1. CallsInv /\ MutexTypeOK
  BY DEF MutexInv
<1>2. call'[t] = c /\ \A u \in Tasks \ {t} : call'[u] = call[u]
  BY <1>1 DEF MutexTypeOK
<1>3. /\ t = kernel.pxCurrentTCB /\ kernel.uxSchedulerSuspended = 1 /\ t # Idle
      /\ c.obj \in EventLists /\ c.at # "task"
  BY LockedFacts DEF LockedPlaces
<1>4. \A u \in Tasks : IF call'[u].at = "task" THEN call'[u] = NoCall ELSE call'[u].obj \in EventLists
  BY <1>1, <1>2, <1>3 DEF CallsInv
<1>5. call'[Idle] = NoCall /\ \A m \in Mutexes : cTxLock'[m] <= 0
  BY <1>1, <1>2, <1>3, SchedulerAssumption DEF CallsInv
<1>6. \A u \in Tasks : call'[u].at \in LockedPlaces <=> u = t
  BY <1>1, <1>2, <1>3 DEF CallsInv
<1>7. \A l \in EventLists : \/ cTxLock'[l] = queueUNLOCKED
                            \/ /\ cTxLock'[l] >= 0 /\ call'[t].at \in LockedPlaces
                               /\ call'[t].obj = l
  BY <1>1, <1>2, <1>3 DEF CallsInv
<1>8. \A u \in Tasks : call'[u].at \in LockedPlaces => cTxLock'[call'[u].obj] >= 0
  BY <1>1, <1>2, <1>3, <1>6 DEF CallsInv
<1> QED
  BY <1>3, <1>4, <1>5, <1>6, <1>7, <1>8 DEF CallsInv

\* The time-out has passed before the task could wait, or has been cut short.
LEMMA LateKeeps ==
    ASSUME MutexInv, NEW t \in Users, In(t, "wait"), Late(t), UNCHANGED objects
    PROVE  MutexInv' /\ SwitchKept
<1> DEFINE c == [call[t] EXCEPT !.at = "unlockLate",
                                !.expired = @ \/ ~kernel.ucDelayAborted[t]]
<1>1. t \in Tasks /\ call[t].at = "wait" /\ call[t].at \in LockedPlaces
  BY DEF Users, In, LockedPlaces
<1>2. MutexTypeOK /\ HoldersInv
  BY DEF MutexInv
<1>3. /\ t = kernel.pxCurrentTCB /\ kernel.uxSchedulerSuspended = 1 /\ t \in ReadyTasks(kernel)
      /\ call[t].obj \in EventLists
  BY <1>1, LockedFacts
<1>4. /\ Rests(kernel, kernel') /\ kernel'.uxMutexesHeld = kernel.uxMutexesHeld
      /\ kernel'.uxSchedulerSuspended = kernel.uxSchedulerSuspended
  <2>1. kernel \in KernelType /\ kernel' = xTaskCheckForTimeOut(kernel, t)
    BY MutexFacts DEF Late
  <2> QED
    BY <1>1, <2>1, CheckRests DEF RestsAs
<1>5. /\ c \in TakeCallType /\ c.at = "unlockLate" /\ c.obj = call[t].obj
      /\ c.inherited = call[t].inherited /\ "unlockLate" \in LockedPlaces
  BY <1>1, <1>2 DEF MutexTypeOK, TakeCallType, Places, LockedPlaces
<1>6. call' = [call EXCEPT ![t] = c]
  BY <1>1, <1>2 DEF Late, MutexTypeOK
<1> HIDE DEF c
<1>7. Proceeds(t, c)
  BY <1>1, <1>2, <1>5 DEF Proceeds, HoldersInv
<1>8. UNCHANGED <<uxMessagesWaiting, xMutexHolder>> /\ UNCHANGED cTxLock /\ LocksOnly
  BY <1>2 DEF objects, LocksOnly, MutexTypeOK
<1>9. CallsInv'
  BY <1>1, <1>3, <1>4, <1>5, <1>6, <1>8, CallsMovedLocked DEF Rests
<1> QED
  BY <1>1, <1>3, <1>4, <1>6, <1>7, <1>8, <1>9, CallGoesOn

\* The object has become free before the task could wait.
LEMMA FoundFreeKeeps ==
    ASSUME MutexInv, NEW t \in Users, In(t, "wait"), Goto(t, "unlock"), UNCHANGED kernel,
           UNCHANGED objects
    PROVE  MutexInv' /\ SwitchKept
<1> DEFINE c == [call[t] EXCEPT !.at = "unlock"]
<1>1. t \in Tasks /\ call[t].at = "wait" /\ call[t].at \in LockedPlaces
  BY DEF Users, In, LockedPlaces
<1>2. MutexTypeOK /\ HoldersInv
  BY DEF MutexInv
<1>3. /\ t = kernel.pxCurrentTCB /\ kernel.uxSchedulerSuspended = 1 /\ t \in ReadyTasks(kernel)
      /\ call[t].obj \in EventLists
  BY <1>1, LockedFacts
<1>4. /\ Rests(kernel, kernel') /\ kernel'.uxMutexesHeld = kernel.uxMutexesHeld
      /\ kernel'.uxSchedulerSuspended = kernel.uxSchedulerSuspended
  BY MutexFacts DEF Rests, SameStates, SameEvents
<1>5. /\ c \in TakeCallType /\ c.at = "unlock" /\ c.obj = call[t].obj
      /\ c.inherited = call[t].inherited /\ "unlock" \in LockedPlaces
  BY <1>1, <1>2 DEF MutexTypeOK, TakeCallType, Places, LockedPlaces
<1>6. call' = [call EXCEPT ![t] = c]
  BY <1>1, <1>2 DEF Goto, MutexTypeOK
<1> HIDE DEF c
<1>7. Proceeds(t, c)
  BY <1>1, <1>2, <1>5 DEF Proceeds, HoldersInv
<1>8. UNCHANGED <<uxMessagesWaiting, xMutexHolder>> /\ UNCHANGED cTxLock /\ LocksOnly
  BY <1>2 DEF objects, LocksOnly, MutexTypeOK
<1>9. CallsInv'
  BY <1>1, <1>3, <1>4, <1>5, <1>6, <1>8, CallsMovedLocked DEF Rests
<1> QED
  BY <1>1, <1>3, <1>4, <1>6, <1>7, <1>8, <1>9, CallGoesOn

\* The place a caller goes to with the scheduler running.
LEMMA GotoKeeps ==
    ASSUME MutexInv, NEW t \in Tasks, t = kernel.pxCurrentTCB, call[t].at = "recheck",
           NEW at \in {"try", "disinherit"}, Goto(t, at), UNCHANGED kernel, UNCHANGED objects,
           at = "disinherit" => ~Available(call[t].obj) /\ call[t].inherited
    PROVE  MutexInv' /\ SwitchKept
<1> DEFINE c == [call[t] EXCEPT !.at = at]
<1>1. MutexTypeOK /\ HoldersInv /\ CallsInv
  BY DEF MutexInv
<1>2. call[t].at \notin LockedPlaces /\ at \notin LockedPlaces /\ at # "task" /\ t # Idle
  BY <1>1, NoCallFacts DEF LockedPlaces, CallsInv
<1>3. /\ kernel.uxSchedulerSuspended = 0 /\ t \in ReadyTasks(kernel) /\ kernel.pendingReady = <<>>
      /\ call[t].obj \in EventLists
  BY <1>1, <1>2, OutsideFacts DEF CallsInv
<1>4. /\ Rests(kernel, kernel') /\ kernel'.uxMutexesHeld = kernel.uxMutexesHeld
      /\ kernel'.uxSchedulerSuspended = kernel.uxSchedulerSuspended /\ kernel'.pxCurrentTCB = t
  BY MutexFacts DEF Rests, SameStates, SameEvents
<1>5. /\ c \in TakeCallType /\ c.at = at /\ c.obj = call[t].obj
      /\ c.inherited = call[t].inherited
  BY <1>1 DEF MutexTypeOK, TakeCallType, Places
<1>6. call' = [call EXCEPT ![t] = c]
  BY <1>1 DEF Goto, MutexTypeOK
<1> HIDE DEF c
<1>7. Proceeds(t, c)
  BY <1>1, <1>5 DEF Proceeds, HoldersInv
<1>8. UNCHANGED <<uxMessagesWaiting, xMutexHolder>> /\ UNCHANGED cTxLock /\ LocksOnly
  BY <1>1 DEF objects, LocksOnly, MutexTypeOK
<1>9. CallsInv'
  BY <1>2, <1>3, <1>4, <1>5, <1>6, <1>8, CallsMoved
<1>10. kernel.pendingReady # <<>> => kernel'.uxSchedulerSuspended = 1
  BY <1>3
<1> QED
  BY <1>3, <1>4, <1>6, <1>7, <1>8, <1>9, <1>10, CallGoesOn

\* The second look after a time-out.
LEMMA RecheckKeeps ==
    ASSUME MutexInv, NEW t \in Users, Recheck(t)
    PROVE  MutexInv' /\ SwitchKept
<1>1. /\ t \in Tasks /\ t = kernel.pxCurrentTCB /\ call[t].at = "recheck" /\ t # Idle
      /\ UNCHANGED objects
  BY DEF Users, Recheck, In, Running
<1>2. CASE Available(call[t].obj) /\ Goto(t, "try") /\ UNCHANGED kernel
  BY <1>1, <1>2, GotoKeeps
<1>3. CASE /\ ~Available(call[t].obj) /\ call[t].inherited
           /\ Goto(t, "disinherit") /\ UNCHANGED kernel
  BY <1>1, <1>3, GotoKeeps
<1>4. CASE ~Available(call[t].obj) /\ ~call[t].inherited /\ Return(t, kernel)
  <2>1. MutexTypeOK
    BY DEF MutexInv
  <2>2. kernel' = [kernel EXCEPT !.left[t] = 0] /\ call' = [call EXCEPT ![t] = NoCall]
    BY <1>4 DEF Return
  <2>3. call[t].at \notin LockedPlaces /\ NoCall.at \notin LockedPlaces
    BY <1>1, NoCallFacts DEF LockedPlaces
  <2>4. /\ kernel.uxSchedulerSuspended = 0 /\ t \in ReadyTasks(kernel)
        /\ kernel.pendingReady = <<>>
    BY <1>1, <2>3, OutsideFacts
  <2>5. /\ Rests(kernel, kernel') /\ kernel'.uxMutexesHeld = kernel.uxMutexesHeld
        /\ kernel'.uxSchedulerSuspended = kernel.uxSchedulerSuspended
        /\ kernel'.pxCurrentTCB = t
    <3>1. kernel \in KernelType /\ 0 \in Int
      BY MutexFacts
    <3> QED
      BY <1>1, <2>2, <3>1, LeftRests DEF RestsAs, Rests
  <2>6. UNCHANGED <<uxMessagesWaiting, xMutexHolder>> /\ UNCHANGED cTxLock /\ LocksOnly
    BY <1>1, <2>1 DEF objects, LocksOnly, MutexTypeOK
  <2>7. CallsInv'
    BY <1>1, <2>2, <2>3, <2>5, <2>6, NoCallFacts, CallsMoved
  <2>8. Proceeds(t, NoCall)
    BY <1>4, NoCallFacts, MutexFacts DEF Proceeds
  <2>9. kernel.pendingReady # <<>> => kernel'.uxSchedulerSuspended = 1
    BY <2>4
  <2> QED
    BY <1>1, <2>2, <2>4, <2>5, <2>6, <2>7, <2>8, <2>9, CallGoesOn
<1> QED
  BY <1>2, <1>3, <1>4 DEF Recheck

\* Nobody asks for the mutex that it holds, so the task that blocks is not its holder.
LEMMA HolderFacts ==
    ASSUME MutexInv, NEW o \in Mutexes, ~Available(o)
    PROVE  /\ xMutexHolder[o] \in Tasks /\ o \in Holds(xMutexHolder[o])
           /\ \A u \in Tasks : call[u].obj = o => u # xMutexHolder[o]
<1>1. HoldersInv /\ MutexTypeOK
  BY DEF MutexInv
<1>2. xMutexHolder[o] # NoTask
  BY <1>1 DEF HoldersInv, Available
<1>3. xMutexHolder[o] \in Tasks
  BY <1>1, <1>2 DEF MutexTypeOK
<1> QED
  BY <1>1, <1>3 DEF HoldersInv, Holds

\* With one mutex, who asks for it holds none and has its own priority.
LEMMA AskersHoldNothing ==
    ASSUME AtMostOneMutex, MutexInv, NEW o \in Mutexes, NEW u \in Tasks, call[u].obj = o
    PROVE  Holds(u) = {} /\ kernel.uxPriority[u] = kernel.uxBasePriority[u]
<1>1. HoldersInv /\ PrioritiesInv
  BY DEF MutexInv
<1>2. \A m \in Mutexes : m = o
  BY DEF AtMostOneMutex
<1>3. Holds(u) = {}
  BY <1>1, <1>2 DEF HoldersInv, Holds
<1> QED
  BY <1>1, <1>3 DEF PrioritiesInv

\* xTaskPriorityInherit.
LEMMA HolderInherits ==
    ASSUME MutexInv, NEW t \in Tasks, t = kernel.pxCurrentTCB, NEW o \in EventLists, ~Available(o)
    PROVE  Inherits(xTaskPriorityInherit(kernel, HolderOf(o)), t, o)
<1> DEFINE i == xTaskPriorityInherit(kernel, HolderOf(o))
<1>1. Good(kernel) /\ kernel \in KernelType /\ NoTask \notin Tasks
  BY MutexFacts
<1>2. kernel.eventPriority = kernel.uxPriority
  BY DEF MutexInv, PrioritiesInv
<1>3. CASE o \in Mutexes
  <2> DEFINE h == xMutexHolder[o]
             p == kernel.uxPriority[t]
  <2>1. h \in Tasks /\ HolderOf(o) = h
    BY <1>3, HolderFacts DEF HolderOf
  <2>2. /\ Reprioritised(kernel, i, h, IF kernel.uxPriority[h] < p THEN p ELSE kernel.uxPriority[h])
        /\ i.uxMutexesHeld = kernel.uxMutexesHeld
    <3> HIDE DEF h
    <3> QED
      BY <1>1, <1>2, <2>1, InheritRaises
  <2> HIDE DEF i
  <2>3. Inherits(i, t, o)
    BY <1>3, <2>2 DEF Inherits, Reprioritised, StateSets, BlockedTasks
  <2> QED
    BY <2>3 DEF i
<1>4. CASE o \notin Mutexes
  <2>1. i = kernel
    BY <1>4 DEF HolderOf, xTaskPriorityInherit
  <2> HIDE DEF i
  <2>2. Inherits(i, t, o)
    BY <1>1, <1>2, <1>4, <2>1 DEF Inherits, SameEvents
  <2> QED
    BY <2>2 DEF i
<1> QED
  BY <1>3, <1>4

\* The caller waits for the object.
LEMMA BlockKeeps ==
    ASSUME AtMostOneMutex, MutexInv, NEW t \in Users, In(t, "wait"), ~Available(call[t].obj),
           Block(t), UNCHANGED objects
    PROVE  MutexInv' /\ SwitchKept
<1> DEFINE o == call[t].obj
           h == xMutexHolder[o]
           i == xTaskPriorityInherit(kernel, HolderOf(o))
           occurred == InheritanceOccurred(kernel, HolderOf(o))
           c == [call[t] EXCEPT !.at = "unlockBlocked", !.inherited = occurred]
<1>1. /\ MutexTypeOK /\ CallsInv /\ WaitsInv /\ HoldersInv /\ PrioritiesInv /\ LentInv /\ FreeInv
  BY DEF MutexInv
<1>2. t \in Tasks /\ call[t].at = "wait" /\ call[t].at \in LockedPlaces
  BY DEF Users, In, LockedPlaces
<1>3. /\ t = kernel.pxCurrentTCB /\ kernel.uxSchedulerSuspended = 1 /\ t \in ReadyTasks(kernel)
      /\ o \in EventLists
  BY <1>2, LockedFacts
<1>4. /\ UNCHANGED <<uxMessagesWaiting, xMutexHolder, cTxLock>>
      /\ uxMessagesWaiting[o] = 0
  BY <1>1, <1>3 DEF objects, Available, MutexTypeOK
<1>5. Inherits(i, t, o)
  BY <1>2, <1>3, HolderInherits
<1>6. kernel' = vTaskPlaceOnEventList(i, o, kernel.left[t])
  BY DEF Block, HolderOf
<1>7. call' = [call EXCEPT ![t] = c] /\ occurred \in BOOLEAN
  BY <1>1, <1>2 DEF Block, HolderOf, MutexTypeOK, InheritanceOccurred
<1> HIDE DEF i
<1>8. Blocks(i, kernel', t, o)
  <2>1. kernel.left[t] \in Int
    BY <1>2, MutexFacts DEF KernelType
  <2>2. KernelOK(i) /\ WaitersAreBlocked(i) /\ Ready(i, i.pxCurrentTCB) /\ i.pxCurrentTCB = t
    BY <1>3, <1>5 DEF Inherits, Good, ReadyTasks
  <2> QED
    BY <1>3, <1>6, <2>1, <2>2, PlaceOK
<1>9. /\ c \in TakeCallType /\ c.at = "unlockBlocked" /\ c.obj = o /\ c.inherited = occurred
      /\ "unlockBlocked" \in LockedPlaces
  BY <1>1, <1>2, <1>7 DEF MutexTypeOK, TakeCallType, Places, LockedPlaces
<1> HIDE DEF c
<1>10. call'[t] = c /\ \A u \in Tasks \ {t} : call'[u] = call[u]
  BY <1>1, <1>2, <1>7 DEF MutexTypeOK
<1>11. /\ Good(kernel') /\ kernel' \in KernelType /\ kernel'.pxCurrentTCB = t
       /\ kernel'.uxSchedulerSuspended = 1
       /\ kernel'.uxPriority = i.uxPriority /\ kernel'.uxBasePriority = kernel.uxBasePriority
       /\ kernel'.eventPriority = i.uxPriority /\ kernel'.uxMutexesHeld = kernel.uxMutexesHeld
       /\ kernel'.pendingReady = kernel.pendingReady
       /\ ReadyTasks(kernel') = ReadyTasks(kernel) \ {t}
       /\ BlockedTasks(kernel') = BlockedTasks(kernel) \cup {t}
  BY <1>3, <1>5, <1>8 DEF Blocks, Inherits, Good, KernelOK, Quiet, Steady, SameEvents
<1>12. /\ \A l \in EventLists \ {o} : kernel'.event[l] = kernel.event[l]
       /\ kernel'.event[o] = InsertByPriority(i, kernel.event[o], t)
       /\ Members(kernel'.event[o]) = Members(kernel.event[o]) \cup {t}
  BY <1>3, <1>5, <1>8 DEF Blocks, Inherits, SameEvents
<1>13. CallsInv'
  BY <1>2, <1>3, <1>4, <1>7, <1>9, <1>11, CallsMovedLocked
<1>14. MutexTypeOK'
  BY <1>1, <1>4, <1>7, <1>9, <1>11 DEF MutexTypeOK, TakeCallType
<1>15. WaitsInv'
  <2>1. t \notin BlockedTasks(kernel)
    BY <1>3, MutexFacts DEF Good, KernelOK, StateItemsOK
  <2>2. ReadyTasks(kernel') \cup BlockedTasks(kernel') = Tasks
    BY <1>1, <1>2, <1>11 DEF WaitsInv
  <2>3. ASSUME NEW u \in BlockedTasks(kernel') PROVE Waiting(kernel', u) \/ Pending(kernel', u)
    <3>1. CASE u = t
      BY <1>3, <1>12, <3>1 DEF Waiting
    <3>2. CASE u # t
      <4>1. Waiting(kernel, u) \/ Pending(kernel, u)
        BY <1>1, <1>11, <3>2 DEF WaitsInv
      <4>2. \A l \in EventLists : Members(kernel.event[l]) \subseteq Members(kernel'.event[l])
        BY <1>12
      <4> QED
        BY <1>11, <4>1, <4>2 DEF Waiting, Pending
    <3> QED
      BY <3>1, <3>2
  <2>4. ASSUME NEW l \in EventLists, NEW u \in Members(kernel'.event[l])
        PROVE  call'[u].obj = l /\ call'[u].at \in {"unlockBlocked", "try"}
    <3>1. CASE u = t /\ l = o
      BY <1>9, <1>10, <3>1
    <3>2. CASE ~(u = t /\ l = o)
      <4>1. u \in Members(kernel.event[l])
        BY <1>12, <3>2
      <4>2. u \in BlockedTasks(kernel) /\ u \in Tasks
        BY <1>1, <4>1, MutexFacts DEF Good, WaitersAreBlocked, WaitsInv
      <4> QED
        BY <1>1, <1>10, <2>1, <4>1, <4>2 DEF WaitsInv
    <3> QED
      BY <3>1, <3>2
  <2>5. ASSUME NEW u \in Members(kernel'.pendingReady)
        PROVE  call'[u].obj \in Semaphores /\ call'[u].at \in {"unlockBlocked", "try"}
    <3>1. u \in Members(kernel.pendingReady)
      BY <1>11
    <3>2. u \in BlockedTasks(kernel) /\ u \in Tasks
      BY <1>1, <3>1, MutexFacts DEF Good, WaitersAreBlocked, WaitsInv
    <3> QED
      BY <1>1, <1>10, <2>1, <3>1, <3>2 DEF WaitsInv
  <2>6. Semaphores' = Semaphores
    BY DEF Semaphores
  <2> QED
    BY <1>9, <1>10, <1>11, <2>2, <2>3, <2>4, <2>5, <2>6 DEF WaitsInv
<1>16. o \notin Mutexes => ~occurred
  BY DEF InheritanceOccurred, HolderOf
<1>17. HoldersInv'
  <2>1. ASSUME NEW u \in Tasks
        PROVE  call'[u].inherited \/ call'[u].at = "disinherit" => call'[u].obj \in Mutexes
    BY <1>1, <1>9, <1>10, <1>16 DEF HoldersInv
  <2>2. \A u \in Tasks : call'[u].obj = call[u].obj
    BY <1>9, <1>10
  <2> QED
    BY <1>4, <1>11, <2>1, <2>2, HoldersKept
<1>18. NoLostGive'
  <2>1. ASSUME NEW l \in EventLists PROVE NoGiveLostOf(l)'
    <3>1. CASE l = o
      <4>1. uxMessagesWaiting'[l] = 0 /\ cTxLock'[l] \in Int
        BY <1>1, <1>4, <3>1 DEF MutexTypeOK
      <4> QED
        BY <4>1, GiveNone
    <3>2. CASE l # o
      <4>1. OnTheWay(l) \subseteq OnTheWay(l)'
        BY <1>10, <1>12, <3>2 DEF OnTheWay
      <4>2. kernel'.event[l] # <<>> => kernel.event[l] # <<>>
        BY <1>12, <3>2
      <4>3. uxMessagesWaiting'[l] \in Nat /\ uxMessagesWaiting'[l] <= uxMessagesWaiting[l]
        BY <1>1, <1>4 DEF MutexTypeOK
      <4>4. cTxLock'[l] = cTxLock[l]
        BY <1>4
      <4> QED
        BY <4>1, <4>2, <4>3, <4>4, GiveUntouched
    <3> QED
      BY <3>1, <3>2
  <2> QED
    BY <2>1, GivesKept
<1>19. kernel.uxPriority \in [Tasks -> Nat] /\ kernel.uxBasePriority \in [Tasks -> Nat]
  BY MutexFacts
<1>20. CASE o \notin Mutexes
  <2>1. i.uxPriority = kernel.uxPriority
    BY <1>5, <1>20 DEF Inherits
  <2>2. \A m \in Mutexes : kernel'.event[m] = kernel.event[m] /\ call[t].obj # m
    BY <1>12, <1>20, MutexFacts
  <2>3. \A u \in Tasks : Holds(u)' = Holds(u)
    BY <1>4 DEF Holds
  <2>4. PrioritiesInv'
    BY <1>1, <1>11, <2>1, <2>2, <2>3 DEF PrioritiesInv
  <2>5. LentInv'
    <3>1. ASSUME NEW m \in Mutexes, NEW u \in Members(kernel.event[m])
          PROVE  u \in Tasks /\ call'[u] = call[u]
      <4>1. kernel.event[m] \in Seq(Tasks) /\ m \in EventLists
        BY MutexFacts DEF KernelType
      <4>2. u \in Tasks
        BY <4>1, MembersProperties
      <4>3. u # t
        BY <1>1, <2>2, <4>1 DEF WaitsInv
      <4> QED
        BY <1>10, <4>2, <4>3
    <3>2. ASSUME NEW m \in Mutexes, NEW u \in Tasks, call[u].obj = m PROVE call'[u] = call[u]
      BY <1>10, <2>2, <3>2
    <3> QED
      BY <1>1, <1>4, <1>11, <2>1, <2>2, <3>1, <3>2 DEF LentInv
  <2>6. FreeInv'
    <3>1. ASSUME NEW m \in Mutexes PROVE OnTheWay(m) \subseteq OnTheWay(m)'
      BY <1>10, <2>2 DEF OnTheWay
    <3> QED
      BY <1>1, <1>3, <1>4, <1>11, <2>1, <2>2, <3>1 DEF FreeInv
  <2>7. SwitchKept
    BY <1>3, <1>11, <2>1 DEF SwitchKept, Highest
  <2> QED
    BY <1>11, <1>13, <1>14, <1>15, <1>17, <1>18, <2>4, <2>5, <2>6, <2>7 DEF MutexInv, Good
<1>21. CASE o \in Mutexes
  <2> DEFINE P == IF kernel.uxPriority[h] < kernel.uxPriority[t] THEN kernel.uxPriority[t]
                  ELSE kernel.uxPriority[h]
  <2>1. h \in Tasks /\ h # t /\ \A u \in Tasks : call[u].obj = o => u # h
    BY <1>2, <1>21, HolderFacts
  <2>2. /\ i.uxPriority = [kernel.uxPriority EXCEPT ![h] = P] /\ P \in Nat
        /\ P >= kernel.uxPriority[h] /\ P >= kernel.uxPriority[t]
        /\ P = kernel.uxPriority[h] \/ P = kernel.uxPriority[t]
    BY <1>2, <1>5, <1>19, <1>21, <2>1 DEF Inherits
  <2>3. occurred <=> \/ kernel.uxPriority[h] < kernel.uxPriority[t]
                     \/ kernel.uxBasePriority[h] < kernel.uxPriority[t]
    BY <1>3, <1>21, <2>1, MutexFacts DEF InheritanceOccurred, HolderOf
  <2>4. \A m \in Mutexes : m = o
    BY <1>21 DEF AtMostOneMutex
  <2>5. /\ kernel'.uxPriority[h] = P
        /\ \A u \in Tasks \ {h} : kernel'.uxPriority[u] = kernel.uxPriority[u]
    <3> HIDE DEF P, h
    <3>1. kernel'.uxPriority = [kernel.uxPriority EXCEPT ![h] = P]
      BY <1>11, <2>2
    <3> QED
      BY <1>19, <2>1, <3>1
  <2>6. kernel.uxPriority[t] = kernel.uxBasePriority[t]
    BY <1>2, <1>21, AskersHoldNothing
  <2> HIDE DEF P
  <2>7. Members(kernel.event[o]) \subseteq Tasks
    <3>1. kernel.event[o] \in Seq(Tasks)
      BY <1>3, MutexFacts DEF KernelType
    <3> QED
      BY <3>1, MembersProperties
  <2>8. PrioritiesInv'
    <3>1. \A u \in Tasks : kernel'.uxPriority[u] >= kernel'.uxBasePriority[u]
      <4>1. ASSUME NEW u \in Tasks PROVE kernel'.uxPriority[u] >= kernel.uxBasePriority[u]
        <5>1. kernel.uxPriority[u] >= kernel.uxBasePriority[u]
          BY <1>1 DEF PrioritiesInv
        <5>2. kernel'.uxPriority[u] >= kernel.uxPriority[u]
          BY <1>19, <2>2, <2>5
        <5>3. kernel'.uxPriority[u] \in Nat
          BY <1>19, <2>2, <2>5
        <5> QED
          BY <1>19, <5>1, <5>2, <5>3
      <4> QED
        BY <1>11, <4>1
    <3>2. \A u \in Tasks : Holds(u)' = {} => kernel'.uxPriority[u] = kernel'.uxBasePriority[u]
      <4>1. ASSUME NEW u \in Tasks, Holds(u)' = {}
            PROVE  kernel'.uxPriority[u] = kernel'.uxBasePriority[u]
        <5>1. Holds(u) = {} /\ u # h
          BY <1>4, <1>21, <4>1 DEF Holds
        <5> QED
          BY <1>1, <1>11, <2>5, <5>1 DEF PrioritiesInv
      <4> QED
        BY <4>1
    <3>3. SortedBy(kernel'.event[o], kernel.uxBasePriority)
      <4>1. kernel.event[o] \in Seq(Tasks) /\ kernel.uxBasePriority \in [Tasks -> Priorities]
        BY <1>3, MutexFacts DEF KernelType
      <4>2. SortedBy(kernel.event[o], kernel.uxBasePriority)
        BY <1>1, <1>21 DEF PrioritiesInv, SortedBy
      <4>3. ASSUME NEW u \in Members(kernel.event[o]) \cup {t}
            PROVE  i.eventPriority[u] = kernel.uxBasePriority[u]
        <5>1. u \in Tasks /\ call[u].obj = o
          BY <1>1, <1>2, <1>3, <2>7 DEF WaitsInv
        <5>2. kernel.uxPriority[u] = kernel.uxBasePriority[u] /\ u # h
          BY <1>21, <2>1, <5>1, AskersHoldNothing
        <5> QED
          BY <1>5, <1>11, <2>5, <5>1, <5>2 DEF Inherits
      <4>4. \A u \in Members(kernel.event[o]) \cup {t} :
                i.eventPriority[u] = kernel.uxBasePriority[u]
        BY <4>3
      <4>5. SortedBy(InsertByPriority(i, kernel.event[o], t), kernel.uxBasePriority)
        <5> DEFINE s == kernel.event[o]
                   f == kernel.uxBasePriority
        <5>1. /\ s \in Seq(Tasks) /\ f \in [Tasks -> Priorities] /\ SortedBy(s, f)
              /\ \A u \in Members(s) \cup {t} : i.eventPriority[u] = f[u]
          BY <4>1, <4>2, <4>4
        <5> HIDE DEF s, f
        <5>2. SortedBy(InsertByPriority(i, s, t), f)
          BY <1>2, <5>1, InsertSorted
        <5> QED
          BY <5>2 DEF s, f
      <4> QED
        BY <1>12, <4>5
    <3>4. kernel'.eventPriority = kernel'.uxPriority
      BY <1>11
    <3> QED
      BY <1>11, <2>4, <3>1, <3>2, <3>3, <3>4 DEF PrioritiesInv, SortedBy
  <2>9. LentInv'
    <3>1. ASSUME NEW u \in Members(kernel'.event[o])
          PROVE  /\ kernel'.uxPriority[h] >= kernel.uxBasePriority[u]
                 /\ kernel.uxBasePriority[u] > kernel.uxBasePriority[h] => call'[u].inherited
      <4>1. u \in Tasks /\ (u = t \/ u \in Members(kernel.event[o]))
        BY <1>2, <1>12, <2>7
      <4>2. CASE u = t
        <5>1. P >= kernel.uxBasePriority[t]
          BY <2>2, <2>6
        <5>2. kernel.uxBasePriority[t] > kernel.uxBasePriority[h] => occurred
          BY <1>19, <2>1, <2>3, <2>6
        <5> QED
          BY <1>9, <1>10, <2>5, <4>2, <5>1, <5>2
      <4>3. CASE u # t
        <5>1. /\ kernel.uxPriority[h] >= kernel.uxBasePriority[u]
              /\ kernel.uxBasePriority[u] > kernel.uxBasePriority[h] => call[u].inherited
          BY <1>1, <1>21, <2>1, <4>1, <4>3 DEF LentInv
        <5>2. P >= kernel.uxBasePriority[u]
          BY <1>19, <2>1, <2>2, <4>1, <5>1
        <5> QED
          BY <1>10, <2>5, <4>1, <4>3, <5>1, <5>2
      <4> QED
        BY <4>2, <4>3
    <3>2. \/ kernel'.uxPriority[h] = kernel.uxBasePriority[h]
          \/ \E u \in Tasks : /\ call'[u].obj = o /\ call'[u].inherited
                              /\ kernel'.uxPriority[h] = kernel.uxBasePriority[u]
      <4>1. CASE kernel.uxPriority[h] < kernel.uxPriority[t]
        <5>1. P = kernel.uxBasePriority[t] /\ occurred
          BY <2>3, <2>6, <4>1 DEF P
        <5> QED
          BY <1>2, <1>9, <1>10, <2>5, <5>1
      <4>2. CASE ~(kernel.uxPriority[h] < kernel.uxPriority[t])
        <5>1. P = kernel.uxPriority[h]
          BY <4>2 DEF P
        <5>2. \/ kernel.uxPriority[h] = kernel.uxBasePriority[h]
              \/ \E u \in Tasks : /\ call[u].obj = o /\ call[u].inherited
                                  /\ kernel.uxPriority[h] = kernel.uxBasePriority[u]
          BY <1>1, <1>21, <2>1 DEF LentInv
        <5>3. ASSUME NEW u \in Tasks, call[u].obj = o, call[u].inherited,
                     kernel.uxPriority[h] = kernel.uxBasePriority[u],
                     kernel.uxPriority[h] # kernel.uxBasePriority[h]
              PROVE  call'[u].obj = o /\ call'[u].inherited
          <6>1. CASE u # t
            BY <1>10, <5>3, <6>1
          <6>2. CASE u = t
            <7>1. kernel.uxPriority[h] >= kernel.uxBasePriority[h]
              BY <1>1, <2>1 DEF PrioritiesInv
            <7>2. kernel.uxBasePriority[h] < kernel.uxPriority[t]
              BY <1>19, <2>1, <2>6, <5>3, <6>2, <7>1
            <7> QED
              BY <1>9, <1>10, <2>3, <6>2, <7>2
          <6> QED
            BY <6>1, <6>2
        <5> QED
          BY <2>5, <5>1, <5>2, <5>3
      <4> QED
        BY <4>1, <4>2
    <3> QED
      BY <1>4, <1>11, <2>4, <3>1, <3>2 DEF LentInv
  <2>10. FreeInv'
    BY <1>4, <2>1, <2>4, MutexFacts DEF FreeInv
  <2>11. SwitchKept
    <3>1. SUFFICES ASSUME Highest(kernel, {}), NEW u \in ReadyTasks(kernel')
                   PROVE  kernel'.uxPriority[u] <= kernel'.uxPriority[t]
      BY <1>11 DEF SwitchKept, Highest
    <3>2. u \in Tasks /\ kernel.uxPriority[u] <= kernel.uxPriority[t]
      BY <1>3, <1>11, <3>1 DEF Highest, ReadyTasks
    <3>3. kernel'.uxPriority[t] = kernel.uxPriority[t]
      BY <1>2, <2>1, <2>5
    <3>4. CASE u # h
      BY <2>5, <3>2, <3>3, <3>4
    <3>5. CASE u = h
      <4>1. P <= kernel.uxPriority[t]
        BY <1>2, <1>19, <2>1, <2>2, <3>2, <3>5
      <4> QED
        BY <2>5, <3>3, <3>5, <4>1
    <3> QED
      BY <3>4, <3>5
  <2> QED
    BY <1>11, <1>13, <1>14, <1>15, <1>17, <1>18, <2>8, <2>9, <2>10, <2>11 DEF MutexInv, Good
<1> QED
  BY <1>20, <1>21

\* Before it waits, the caller looks whether its time has come or the object has become free.
LEMMA WaitKeeps ==
    ASSUME AtMostOneMutex, MutexInv, NEW t \in Users, Wait(t)
    PROVE  MutexInv' /\ SwitchKept
<1>1. In(t, "wait") /\ UNCHANGED objects
  BY DEF Wait
<1>2. CASE Late(t)
  BY <1>1, <1>2, LateKeeps
<1>3. CASE ~Available(call[t].obj) /\ Block(t)
  BY <1>1, <1>3, BlockKeeps
<1>4. CASE Goto(t, "unlock") /\ UNCHANGED kernel
  BY <1>1, <1>4, FoundFreeKeeps
<1> QED
  BY <1>2, <1>3, <1>4 DEF Wait

\* The end of the suspension, i being the record after prvUnlockQueue.
LEMMA ResumeReleases ==
    ASSUME NEW k, Good(k), k.uxSchedulerSuspended = 1, NEW o \in EventLists, NEW n \in Nat,
           ReadyTasks(k) # {}, NEW i, \A X : WakesMany(k, i, o, n, X), NEW j,
           \/ j = ResumeAndYield(i)
           \/ j = xTaskResumeAll(i) /\ k.pxCurrentTCB \in ReadyTasks(k)
    PROVE  Released(k, j, o, n)
<1>1. /\ Good(i) /\ Awakens(k, i) /\ ReadyTasks(i) = ReadyTasks(k)
      /\ i.pxCurrentTCB = k.pxCurrentTCB /\ i.uxSchedulerSuspended = 1
      /\ \A X : Covered(k, X) => Covered(i, X)
      /\ i.event[o] = <<>> \/ Cardinality(Members(k.event[o]) \ Members(i.event[o])) >= n
  BY DEF WakesMany, Unlocks, Steady
<1>2. Covered(k, Tasks) /\ (Highest(k, {}) => Covered(k, {}))
  BY DEF Covered, Highest, ReadyTasks
<1>3. /\ Good(j) /\ Awakens(i, j) /\ j.uxSchedulerSuspended = 0 /\ j.pendingReady = <<>>
      /\ j.pxCurrentTCB = k.pxCurrentTCB \/ (j.pxCurrentTCB \in ReadyTasks(j) /\ Highest(j, {}))
      /\ Highest(k, {}) => Highest(j, {})
      /\ j.pxCurrentTCB \in ReadyTasks(j)
  <2>1. CASE j = ResumeAndYield(i)
    <3>1. Settled(i, j, {}) /\ j.uxSchedulerSuspended = 0 /\ j.pendingReady = <<>>
          /\ j.pxCurrentTCB \in ReadyTasks(j) /\ Highest(j, {})
      BY <1>1, <2>1, ResumeAndYieldSettles
    <3> QED
      BY <3>1 DEF Settled
  <2>2. CASE j = xTaskResumeAll(i) /\ k.pxCurrentTCB \in ReadyTasks(k)
    <3>1. Covered(i, Tasks)
      BY <1>1, <1>2
    <3>2. /\ Good(j) /\ Awakens(i, j) /\ j.uxSchedulerSuspended = 0 /\ j.pendingReady = <<>>
          /\ j.pxCurrentTCB = i.pxCurrentTCB \/ j.pxCurrentTCB \in ReadyTasks(j)
          /\ j.pxCurrentTCB = i.pxCurrentTCB \/ Highest(j, {})
      BY <1>1, <2>2, <3>1, ResumeAllSettles
    <3>3. Covered(i, {}) => Highest(j, {})
      BY <1>1, <2>2, ResumeAllSettles
    <3>4. ReadyTasks(i) \subseteq ReadyTasks(j)
      BY <3>2 DEF Awakens, Wakes
    <3>5. Highest(k, {}) => Highest(j, {})
      <4>1. Covered(k, {}) => Covered(i, {})
        BY <1>1
      <4> QED
        BY <1>2, <3>3, <4>1
    <3>6. j.pxCurrentTCB \in ReadyTasks(j)
      BY <1>1, <2>2, <3>2, <3>4
    <3>7. j.pxCurrentTCB = k.pxCurrentTCB \/ (j.pxCurrentTCB \in ReadyTasks(j) /\ Highest(j, {}))
      BY <1>1, <3>2, <3>6
    <3> QED
      BY <3>2, <3>5, <3>6, <3>7
  <2> QED
    BY <2>1, <2>2
<1>4. Awakens(k, j)
  BY <1>1, <1>3, AwakensTransitive
<1>5. Grows(k, j) /\ j.uxMutexesHeld = k.uxMutexesHeld
  BY <1>3, <1>4, WakesGrows DEF Awakens, Wakes
<1>6. /\ k.event[o] \in Seq(Tasks) /\ i.event[o] \in Seq(Tasks) /\ j.event[o] \in Seq(Tasks)
  BY <1>1, <1>3 DEF Good, KernelOK, KernelType
<1>7. \A s \in Seq(Tasks) : s = <<>> <=> Members(s) = {}
  BY MembersProperties
<1>8. /\ Members(j.event[o]) \subseteq Members(k.event[o])
      /\ Members(j.event[o]) \subseteq Members(i.event[o])
  BY <1>3, <1>4 DEF Awakens, Wakes
<1>9. /\ k.event[o] = <<>> => j.event[o] = <<>>
      /\ i.event[o] = <<>> => j.event[o] = <<>>
  BY <1>6, <1>7, <1>8
<1>10. j.event[o] = <<>> \/ Cardinality(Members(k.event[o]) \ Members(j.event[o])) >= n
  <2>1. CASE i.event[o] = <<>>
    BY <1>9, <2>1
  <2>2. CASE Cardinality(Members(k.event[o]) \ Members(i.event[o])) >= n
    <3> DEFINE A == Members(k.event[o]) \ Members(i.event[o])
               B == Members(k.event[o]) \ Members(j.event[o])
    <3>1. A \subseteq B /\ B \subseteq Tasks
      BY <1>6, <1>8, MembersProperties
    <3>2. IsFiniteSet(B) /\ IsFiniteSet(A)
      BY <3>1, SchedulerAssumption, FS_Subset
    <3>3. Cardinality(A) <= Cardinality(B) /\ Cardinality(A) \in Nat /\ Cardinality(B) \in Nat
      BY <3>1, <3>2, FS_Subset, FS_CardinalityType
    <3>4. Cardinality(A) >= n
      BY <2>2
    <3> HIDE DEF A, B
    <3>5. Cardinality(B) >= n
      BY <3>3, <3>4
    <3> QED
      BY <3>5 DEF B
  <2> QED
    BY <1>1, <2>1, <2>2
<1> QED
  BY <1>3, <1>5, <1>9, <1>10 DEF Released, GoesOn

\* The end of a suspension hands on what interrupts have given.
LEMMA UnlockReleases ==
    ASSUME MutexInv, NEW t \in Users, Unlock(t)
    PROVE  Released(kernel, kernel', call[t].obj, cTxLock[call[t].obj])
<1> DEFINE o == call[t].obj
           i == prvUnlockQueue(kernel, o)
<1>1. t \in Tasks /\ call[t].at \in {"unlockBlocked", "unlock", "unlockLate"}
  BY DEF Users, Unlock
<1>2. /\ t = kernel.pxCurrentTCB /\ kernel.uxSchedulerSuspended = 1
      /\ o \in EventLists /\ cTxLock[o] \in Nat
      /\ call[t].at # "unlockBlocked" => t \in ReadyTasks(kernel)
  BY <1>1, LockedFacts DEF LockedPlaces
<1>3. \/ kernel' = ResumeAndYield(i)
      \/ kernel' = xTaskResumeAll(i) /\ kernel.pxCurrentTCB \in ReadyTasks(kernel)
  BY <1>2 DEF Unlock, In
<1>4. ASSUME NEW X PROVE WakesMany(kernel, i, o, cTxLock[o], X)
  BY <1>2, MutexFacts, UnlockQueueWakes
<1>5. \A X : WakesMany(kernel, i, o, cTxLock[o], X)
  BY <1>4
<1> HIDE DEF i, o
<1>6. Good(kernel) /\ ReadyTasks(kernel) # {}
  BY MutexFacts
<1>7. Released(kernel, kernel', o, cTxLock[o])
  BY <1>2, <1>3, <1>5, <1>6, ResumeReleases
<1> QED
  BY <1>7 DEF o

\* prvUnlockQueue and xTaskResumeAll.
LEMMA UnlockKeeps ==
    ASSUME MutexInv, NEW t \in Users, Unlock(t)
    PROVE  MutexInv' /\ SwitchKept
<1> DEFINE o == call[t].obj
<1>1. MutexTypeOK /\ CallsInv /\ WaitsInv /\ HoldersInv
  BY DEF MutexInv
<1>2. /\ t \in Tasks /\ call[t].at \in {"unlockBlocked", "unlock", "unlockLate"}
      /\ call[t].at \in LockedPlaces
  BY DEF Users, Unlock, LockedPlaces
<1>3. /\ t = kernel.pxCurrentTCB /\ kernel.uxSchedulerSuspended = 1 /\ t # Idle
      /\ o \in EventLists /\ cTxLock[o] \in Nat
      /\ call[t].at # "unlockBlocked" => t \in ReadyTasks(kernel)
  BY <1>2, LockedFacts
<1>4. Released(kernel, kernel', o, cTxLock[o])
  BY UnlockReleases
<1>5. /\ Grows(kernel, kernel') /\ GoesOn(kernel, kernel')
      /\ Highest(kernel, {}) => Highest(kernel', {})
      /\ kernel'.uxMutexesHeld = kernel.uxMutexesHeld /\ kernel'.uxSchedulerSuspended = 0
      /\ kernel'.pendingReady = <<>> /\ kernel'.pxCurrentTCB \in ReadyTasks(kernel')
  BY <1>4 DEF Released
<1>6. Good(kernel') /\ kernel' \in KernelType
  BY <1>5 DEF Grows, Good, KernelOK
<1>7. PICK at \in {"try", "recheck"} :
          /\ call' = [call EXCEPT ![t].at = at]
          /\ call[t].at = "unlockBlocked" => at = "try"
  BY <1>2 DEF Unlock, In, Goto
<1>8. /\ UNCHANGED <<uxMessagesWaiting, xMutexHolder>>
      /\ cTxLock' = [cTxLock EXCEPT ![o] = queueUNLOCKED]
  BY DEF Unlock
<1>9. /\ call'[t] = [call[t] EXCEPT !.at = at] /\ call'[t].at = at /\ call'[t].obj = o
      /\ call'[t].inherited = call[t].inherited
      /\ \A u \in Tasks \ {t} : call'[u] = call[u]
      /\ call' \in [Tasks -> TakeCallType]
  BY <1>1, <1>2, <1>7 DEF MutexTypeOK, TakeCallType, Places
<1>10. /\ cTxLock' \in [EventLists -> Int]
       /\ \A l \in EventLists : cTxLock'[l] = queueUNLOCKED
  <2>1. \A l \in EventLists : l # o => cTxLock[l] = queueUNLOCKED
    BY <1>1, <1>3 DEF CallsInv
  <2>2. cTxLock \in [EventLists -> Int] /\ queueUNLOCKED \in Int
    BY <1>1 DEF MutexTypeOK, queueUNLOCKED
  <2> HIDE DEF o
  <2> QED
    BY <1>3, <1>8, <2>1, <2>2
<1>11. MutexTypeOK'
  BY <1>1, <1>6, <1>8, <1>9, <1>10 DEF MutexTypeOK, TakeCallType
<1>12. CallsInv'
  <2>1. \A u \in Tasks : call'[u].at \notin LockedPlaces
    <3>1. at \notin LockedPlaces
      BY DEF LockedPlaces
    <3>2. \A u \in Tasks \ {t} : call[u].at \notin LockedPlaces
      BY <1>1, <1>3 DEF CallsInv
    <3>3. \A u \in Tasks \ {t} : call'[u].at \notin LockedPlaces
      BY <1>9, <3>2
    <3> QED
      BY <1>9, <3>1, <3>3
  <2>2. \A u \in Tasks : IF call'[u].at = "task" THEN call'[u] = NoCall
                         ELSE call'[u].obj \in EventLists
    BY ZenonT(40), <1>1, <1>3, <1>9 DEF CallsInv
  <2>3. call'[Idle] = NoCall
    BY <1>1, <1>3, <1>9, SchedulerAssumption DEF CallsInv
  <2>4. \A m \in Mutexes : cTxLock'[m] <= 0
    BY <1>10, MutexFacts DEF queueUNLOCKED
  <2> QED
    BY <1>5, <1>10, <2>1, <2>2, <2>3, <2>4 DEF CallsInv
<1>13. \A u \in Tasks : /\ call'[u].obj = call[u].obj /\ call'[u].inherited = call[u].inherited
                        /\ call'[u].at # "disinherit" \/ call[u].at = "disinherit"
  BY <1>9
<1>14. WaitsInv'
  <2>1. ASSUME NEW u \in BlockedTasks(kernel)
        PROVE  call'[u].obj = call[u].obj /\ call'[u].at \in {call[u].at, "try"}
    <3>1. u \in Tasks /\ u \notin ReadyTasks(kernel)
      BY <1>1, MutexFacts DEF Good, KernelOK, StateItemsOK, WaitsInv
    <3> QED
      BY <1>3, <1>7, <1>9, <3>1
  <2>2. /\ \A u \in Members(kernel'.pendingReady) :
               \/ u \in Members(kernel.pendingReady)
               \/ u \in Waiters(kernel) /\ call[u].obj \in Semaphores
        /\ kernel'.pendingReady # <<>> => kernel'.uxSchedulerSuspended = 1
    <3>1. Members(<<>>) = {}
      BY DEF Members
    <3> QED
      BY <1>5, <3>1
  <2> QED
    BY <1>5, <2>1, <2>2, WaitsKept
<1>15. HoldersInv'
  <2>1. \A u \in Tasks, m \in Mutexes :
            call'[u].obj = m => call[u].obj = m \/ xMutexHolder[m] # u
    BY <1>13
  <2>2. \A u \in Tasks : call'[u].inherited \/ call'[u].at = "disinherit" =>
            call'[u].obj \in Mutexes
    BY <1>1, <1>13 DEF HoldersInv
  <2> QED
    BY <1>5, <1>8, <2>1, <2>2, HoldersKept
<1>16. PrioritiesInv'
  <2>1. \A u \in Tasks : Holds(u) \subseteq Holds(u)'
    BY <1>8 DEF Holds
  <2> QED
    BY <1>5, <2>1, PrioritiesKept
<1>17. LentInv'
  <2>1. LendersStay
    BY <1>13 DEF LendersStay
  <2> QED
    BY <1>5, <1>8, <2>1, LentKept
<1>18. ASSUME NEW l \in EventLists PROVE OnTheWay(l) \subseteq OnTheWay(l)'
  <2>1. Members(kernel'.event[l]) \subseteq Members(kernel.event[l])
    BY <1>5 DEF Grows
  <2> QED
    BY <1>13, <2>1 DEF OnTheWay
<1>19. FreeInv'
  <2>1. \A m \in Mutexes : xMutexHolder'[m] = NoTask =>
            xMutexHolder[m] = NoTask /\ OnTheWay(m) \subseteq OnTheWay(m)'
    BY <1>8, <1>18, MutexFacts
  <2> QED
    BY <1>5, <2>1, FreeKept
<1>20. NoLostGive'
  <2>1. ASSUME NEW l \in EventLists PROVE NoGiveLostOf(l)'
    <3>1. /\ uxMessagesWaiting[l] \in Nat /\ uxMessagesWaiting'[l] = uxMessagesWaiting[l]
          /\ cTxLock[l] \in Int /\ cTxLock'[l] = queueUNLOCKED
      BY <1>1, <1>8, <1>10 DEF MutexTypeOK
    <3>2. CASE l # o
      <4>1. cTxLock'[l] = cTxLock[l]
        BY <1>1, <1>8, <3>2 DEF MutexTypeOK
      <4>2. /\ kernel.event[l] \in Seq(Tasks) /\ kernel'.event[l] \in Seq(Tasks)
            /\ Members(kernel'.event[l]) \subseteq Members(kernel.event[l])
        BY <1>5, <1>6, MutexFacts DEF Grows, KernelType
      <4>3. kernel'.event[l] # <<>> => kernel.event[l] # <<>>
        <5>1. \A s \in Seq(Tasks) : s = <<>> <=> Members(s) = {}
          BY MembersProperties
        <5> QED
          BY <4>2, <5>1
      <4>4. uxMessagesWaiting'[l] \in Nat /\ uxMessagesWaiting'[l] <= uxMessagesWaiting[l]
        BY <3>1
      <4> QED
        BY <1>18, <4>1, <4>3, <4>4, GiveUntouched
    <3>3. CASE l = o /\ kernel'.event[l] = <<>>
      BY <3>3 DEF NoGiveLostOf
    <3>4. CASE l = o /\ kernel'.event[l] # <<>>
      <4> DEFINE S == Members(kernel.event[l]) \ Members(kernel'.event[l])
      <4>1. Cardinality(S) >= cTxLock[l] /\ (kernel'.event[l] # <<>> => kernel.event[l] # <<>>)
        BY <1>4, <3>4 DEF Released
      <4>2. kernel.event[l] \in Seq(Tasks) /\ S \subseteq Tasks
        <5>1. kernel.event[l] \in Seq(Tasks)
          BY MutexFacts DEF KernelType
        <5> QED
          BY <5>1, MembersProperties
      <4>3. S \cap OnTheWay(l) = {}
        BY DEF OnTheWay
      <4>4. \A u \in S : call[u].obj = l /\ call[u].at \in {"unlockBlocked", "try"}
        BY <1>1 DEF WaitsInv
      <4>5. S \subseteq OnTheWay(l)'
        BY <1>13, <4>2, <4>4 DEF OnTheWay
      <4>6. OnTheWay(l) \cup S \subseteq OnTheWay(l)'
        BY <1>18, <4>5
      <4>7. IsFiniteSet(S)
        BY <4>2, SchedulerAssumption, FS_Subset
      <4>8. Cardinality(S) \in Nat
        BY <4>7, FS_CardinalityType
      <4>9. cTxLock[l] \in Nat /\ Max({cTxLock[l], 0}) = cTxLock[l] /\ Max({cTxLock'[l], 0}) = 0
        BY <1>3, <3>1, <3>4, LockCount DEF queueUNLOCKED
      <4>10. uxMessagesWaiting'[l] \in Nat /\ cTxLock'[l] \in Int
        BY <3>1 DEF queueUNLOCKED
      <4> HIDE DEF S
      <4>11. uxMessagesWaiting'[l] + Max({cTxLock[l], 0})
                 <= uxMessagesWaiting[l] + Max({cTxLock'[l], 0}) + Cardinality(S)
        BY <3>1, <4>1, <4>8, <4>9
      <4> QED
        BY <4>1, <4>2, <4>3, <4>6, <4>10, <4>11, GiveKept
    <3> QED
      BY <3>2, <3>3, <3>4
  <2> QED
    BY <2>1, GivesKept
<1> QED
  BY <1>5, <1>6, <1>11, <1>12, <1>14, <1>15, <1>16, <1>17, <1>19, <1>20 DEF MutexInv, Good, SwitchKept

\* The first of the tasks that wait for a mutex is no lower than the others.
LEMMA HeadHighest ==
    ASSUME MutexInv, NEW m \in Mutexes, kernel.event[m] # <<>>
    PROVE  LET w == Head(kernel.event[m])
           IN  /\ w \in Members(kernel.event[m]) /\ w \in Tasks /\ call[w].obj = m
               /\ \A u \in Members(kernel.event[m]) :
                      kernel.uxBasePriority[w] >= kernel.uxBasePriority[u]
<1> DEFINE s == kernel.event[m]
<1>1. s \in Seq(Tasks) /\ s # <<>> /\ m \in EventLists
  BY MutexFacts DEF KernelType
<1>2. Len(s) \in Nat /\ Len(s) # 0 /\ DOMAIN s = 1 .. Len(s) /\ Head(s) = s[1]
  BY <1>1
<1>3. 1 \in DOMAIN s /\ s[1] \in Tasks
  BY <1>1, <1>2
<1>4. Head(s) \in Members(s) /\ Head(s) \in Tasks
  BY <1>2, <1>3 DEF Members
<1>5. call[Head(s)].obj = m
  BY <1>1, <1>4 DEF MutexInv, WaitsInv
<1>6. ASSUME NEW u \in Members(s)
      PROVE  kernel.uxBasePriority[Head(s)] >= kernel.uxBasePriority[u]
  <2>1. PICK i \in DOMAIN s : u = s[i]
    BY DEF Members
  <2>2. i \in Nat /\ i >= 1 /\ s[i] \in Tasks
    BY <1>1, <1>2, <2>1
  <2>3. kernel.uxBasePriority[s[1]] \in Nat
    BY <1>3, MutexFacts
  <2>4. CASE i = 1
    BY <1>2, <2>1, <2>3, <2>4
  <2>5. CASE 1 < i
    <3>1. kernel.uxBasePriority[s[1]] >= kernel.uxBasePriority[s[i]]
      BY <1>3, <2>1, <2>5 DEF MutexInv, PrioritiesInv
    <3> QED
      BY <1>2, <2>1, <3>1
  <2> QED
    BY <2>2, <2>4, <2>5
<1> QED
  BY <1>4, <1>5, <1>6

\* A holder holds one mutex, and the priority of one that has been raised is that of a
\* ready task if it is above those of the tasks that wait.
LEMMA RaisedFacts ==
    ASSUME AtMostOneMutex, MutexInv, NEW o \in Mutexes, NEW h \in Tasks, xMutexHolder[o] = h
    PROVE  LET hw == prvGetDisinheritPriorityAfterTimeout(kernel, o)
               b == kernel.uxBasePriority[h]
               p == IF b < hw THEN hw ELSE b
           IN  /\ kernel.uxMutexesHeld[h] = 1 /\ hw \in Priorities
               /\ \A w \in Members(kernel.event[o]) : kernel.uxBasePriority[w] <= p
               /\ kernel.uxPriority[h] >= p
               /\ kernel.event[o] = <<>> => p = b
               /\ kernel.event[o] # <<>> => hw = kernel.uxBasePriority[Head(kernel.event[o])]
               /\ kernel.uxPriority[h] # p =>
                      \E u \in ReadyTasks(kernel) \ {h} :
                          kernel.uxPriority[u] = kernel.uxPriority[h]
<1> DEFINE hw == prvGetDisinheritPriorityAfterTimeout(kernel, o)
           b == kernel.uxBasePriority[h]
           p == IF b < hw THEN hw ELSE b
<1>1. HoldersInv /\ PrioritiesInv /\ LentInv /\ WaitsInv /\ MutexTypeOK
  BY DEF MutexInv
<1>2. kernel.uxPriority \in [Tasks -> Nat] /\ kernel.uxBasePriority \in [Tasks -> Nat]
  BY MutexFacts
<1>3. kernel.uxMutexesHeld[h] = 1
  <2>1. Holds(h) = {o}
    BY DEF Holds, AtMostOneMutex
  <2> QED
    BY <1>1, <2>1, FS_Singleton DEF HoldersInv
<1>4. b \in Nat /\ kernel.uxPriority[h] \in Nat /\ kernel.uxPriority[h] >= b
  BY <1>1, <1>2 DEF PrioritiesInv
<1>5. kernel.event[o] \in Seq(Tasks) /\ kernel.eventPriority = kernel.uxPriority
      /\ kernel.uxPriority \in [Tasks -> Priorities]
  BY <1>1, MutexFacts DEF KernelType, PrioritiesInv
<1>6. CASE kernel.event[o] = <<>>
  <2>1. hw = 0 /\ p = b /\ 0 \in Priorities
    BY <1>4, <1>6 DEF prvGetDisinheritPriorityAfterTimeout, tskIDLE_PRIORITY, Priorities,
                      configMAX_PRIORITIES
  <2>2. Members(kernel.event[o]) = {}
    BY <1>5, <1>6, MembersProperties
  <2> HIDE DEF hw, p
  <2>3. kernel.uxPriority[h] # p =>
            \E u \in ReadyTasks(kernel) \ {h} : kernel.uxPriority[u] = kernel.uxPriority[h]
    <3>1. SUFFICES ASSUME kernel.uxPriority[h] # b
                   PROVE  \E u \in ReadyTasks(kernel) \ {h} :
                              kernel.uxPriority[u] = kernel.uxPriority[h]
      BY <2>1
    <3>2. PICK u \in Tasks : call[u].obj = o /\ kernel.uxPriority[h] = kernel.uxBasePriority[u]
      BY <1>1, <3>1 DEF LentInv
    <3>3. u \in ReadyTasks(kernel)
      BY <2>2, <3>2, CallerReady
    <3>4. kernel.uxPriority[u] = kernel.uxBasePriority[u] /\ u # h
      BY <1>1, <3>2, AskersHoldNothing DEF HoldersInv
    <3> QED
      BY <3>2, <3>3, <3>4
  <2> QED
    BY <1>3, <1>4, <1>6, <2>1, <2>2, <2>3 DEF hw, p
<1>7. CASE kernel.event[o] # <<>>
  <2> DEFINE w == Head(kernel.event[o])
  <2>1. /\ w \in Members(kernel.event[o]) /\ w \in Tasks /\ call[w].obj = o
        /\ \A u \in Members(kernel.event[o]) :
               kernel.uxBasePriority[w] >= kernel.uxBasePriority[u]
    BY <1>7, HeadHighest
  <2> HIDE DEF w
  <2>2. kernel.uxPriority[w] = kernel.uxBasePriority[w]
    BY <2>1, AskersHoldNothing
  <2>3. hw = kernel.uxPriority[w]
    BY <1>5, <1>7 DEF prvGetDisinheritPriorityAfterTimeout, w
  <2>4. hw \in Priorities /\ hw \in Nat /\ hw = kernel.uxBasePriority[w]
    BY <1>2, <1>5, <2>1, <2>2, <2>3
  <2>5. kernel.uxPriority[h] >= kernel.uxBasePriority[w]
    BY <1>1, <2>1 DEF LentInv
  <2> HIDE DEF hw, b
  <2>6. p >= hw /\ p >= b /\ p \in Nat /\ kernel.uxPriority[h] >= p
    BY <1>4, <2>4, <2>5
  <2> HIDE DEF p
  <2>7. Members(kernel.event[o]) \subseteq Tasks
    BY <1>5, MembersProperties
  <2>8. \A u \in Members(kernel.event[o]) : kernel.uxBasePriority[u] <= p
    <3>1. ASSUME NEW u \in Members(kernel.event[o]) PROVE kernel.uxBasePriority[u] <= p
      <4>1. /\ kernel.uxBasePriority[u] \in Nat /\ kernel.uxBasePriority[w] \in Nat
            /\ kernel.uxBasePriority[w] >= kernel.uxBasePriority[u]
        BY <1>2, <2>1, <2>7
      <4> QED
        BY <2>4, <2>6, <4>1
    <3> QED
      BY <3>1
  <2>9. kernel.uxPriority[h] # p =>
            \E u \in ReadyTasks(kernel) \ {h} : kernel.uxPriority[u] = kernel.uxPriority[h]
    <3>1. SUFFICES ASSUME kernel.uxPriority[h] # p
                   PROVE  \E u \in ReadyTasks(kernel) \ {h} :
                              kernel.uxPriority[u] = kernel.uxPriority[h]
      OBVIOUS
    <3>2. kernel.uxPriority[h] # b
      BY <1>4, <2>6, <3>1
    <3>3. PICK u \in Tasks : call[u].obj = o /\ kernel.uxPriority[h] = kernel.uxBasePriority[u]
      BY <1>1, <3>2 DEF LentInv, b
    <3>4. u \notin Members(kernel.event[o])
      <4>1. ~(kernel.uxPriority[h] <= p)
        BY <1>4, <2>6, <3>1
      <4> QED
        BY <2>8, <3>3, <4>1
    <3>5. u \in ReadyTasks(kernel)
      BY <3>3, <3>4, CallerReady
    <3>6. kernel.uxPriority[u] = kernel.uxBasePriority[u] /\ u # h
      BY <1>1, <3>3, AskersHoldNothing DEF HoldersInv
    <3> QED
      BY <3>3, <3>5, <3>6
  <2> QED
    BY <1>3, <1>7, <2>4, <2>6, <2>8, <2>9 DEF hw, b, p, w
<1> QED
  BY <1>6, <1>7

\* What the caller that gives up does to the kernel.
LEMMA TakesBack ==
    ASSUME AtMostOneMutex, MutexInv, NEW t \in Tasks, t = kernel.pxCurrentTCB, NEW o \in Mutexes,
           NEW h \in Tasks, xMutexHolder[o] = h, h # t,
           kernel' = [vTaskPriorityDisinheritAfterTimeout(kernel, h,
                          prvGetDisinheritPriorityAfterTimeout(kernel, o)) EXCEPT !.left[t] = 0]
    PROVE  LET hw == prvGetDisinheritPriorityAfterTimeout(kernel, o)
               b == kernel.uxBasePriority[h]
           IN  /\ Reprioritised(kernel, kernel', h, IF b < hw THEN hw ELSE b)
               /\ kernel'.uxMutexesHeld = kernel.uxMutexesHeld
<1> DEFINE hw == prvGetDisinheritPriorityAfterTimeout(kernel, o)
           b == kernel.uxBasePriority[h]
           p == IF b < hw THEN hw ELSE b
           j == vTaskPriorityDisinheritAfterTimeout(kernel, h, hw)
<1>1. Good(kernel) /\ NoTask \notin Tasks /\ kernel.eventPriority = kernel.uxPriority
  BY MutexFacts DEF MutexInv, PrioritiesInv
<1>2. /\ kernel.uxMutexesHeld[h] = 1 /\ hw \in Priorities
      /\ kernel.uxPriority[h] # p =>
             \E u \in ReadyTasks(kernel) \ {h} : kernel.uxPriority[u] = kernel.uxPriority[h]
  BY RaisedFacts
<1> HIDE DEF hw
<1>3. h # kernel.pxCurrentTCB
  OBVIOUS
<1>4. Reprioritised(kernel, j, h, p) /\ j.uxMutexesHeld = kernel.uxMutexesHeld
  BY <1>1, <1>2, <1>3, TimeoutLowers
<1>5. kernel' = [j EXCEPT !.left[t] = 0]
  BY DEF hw
<1> HIDE DEF j
<1>6. j \in KernelType /\ Good(j)
  BY <1>4 DEF Reprioritised, Good, KernelOK
<1> HIDE DEF p
<1>7. RestsAs(j, kernel', j.uxSchedulerSuspended, j.halted, j.uxMutexesHeld)
  BY <1>5, <1>6, LeftRests, 0 \in Int
<1>8. /\ Grows(j, kernel') /\ ReadyTasks(kernel') = ReadyTasks(j)
      /\ BlockedTasks(kernel') = BlockedTasks(j)
  BY <1>6, <1>7, RestsGrows DEF RestsAs
<1>9. Reprioritised(kernel, kernel', h, p)
  <2>1. Good(kernel') /\ SameEvents(kernel, kernel')
    BY <1>4, <1>7, <1>8 DEF Reprioritised, RestsAs, Rests, SameEvents, Grows
  <2>2. StateSets(kernel', ReadyTasks(kernel), Members(kernel.delayed), kernel.suspended)
    BY <1>4, <1>7, <1>8 DEF Reprioritised, RestsAs, Rests, SameStates, StateSets
  <2> QED
    BY <1>4, <1>7, <2>1, <2>2 DEF Reprioritised, RestsAs, Rests
<1> QED
  BY <1>4, <1>7, <1>9 DEF RestsAs, p, hw

\* The caller that has lent its priority and waits no longer takes it back.
LEMMA DisinheritKeeps ==
    ASSUME AtMostOneMutex, MutexInv, NEW t \in Users, Disinherit(t)
    PROVE  MutexInv' /\ SwitchKept
<1>1. /\ t \in Tasks /\ t # Idle /\ t = kernel.pxCurrentTCB /\ call[t].at = "disinherit"
      /\ UNCHANGED objects
  BY DEF Users, Disinherit, In, Running
<1>2. /\ MutexTypeOK /\ CallsInv /\ WaitsInv /\ HoldersInv /\ PrioritiesInv /\ LentInv
  BY DEF MutexInv
<1>3. call[t].at \notin LockedPlaces /\ NoCall.at \notin LockedPlaces
  BY <1>1, NoCallFacts DEF LockedPlaces
<1>4. /\ kernel.uxSchedulerSuspended = 0 /\ t \in ReadyTasks(kernel)
      /\ kernel.pendingReady = <<>>
  BY <1>1, <1>3, OutsideFacts
<1>5. PICK o \in Mutexes : call[t].obj = o
  BY <1>1, <1>2 DEF HoldersInv
<1> DEFINE h == xMutexHolder[o]
<1>6. /\ kernel' = [vTaskPriorityDisinheritAfterTimeout(kernel, h,
                        prvGetDisinheritPriorityAfterTimeout(kernel, o)) EXCEPT !.left[t] = 0]
      /\ call' = [call EXCEPT ![t] = NoCall]
  BY <1>5 DEF Disinherit, Return
<1>7. UNCHANGED <<uxMessagesWaiting, xMutexHolder>> /\ UNCHANGED cTxLock /\ LocksOnly
  BY <1>1, <1>2 DEF objects, LocksOnly, MutexTypeOK
<1>8. CASE h = NoTask
  <2>1. kernel' = [kernel EXCEPT !.left[t] = 0]
    BY <1>6, <1>8 DEF vTaskPriorityDisinheritAfterTimeout
  <2>2. /\ Rests(kernel, kernel') /\ kernel'.uxMutexesHeld = kernel.uxMutexesHeld
        /\ kernel'.uxSchedulerSuspended = kernel.uxSchedulerSuspended
        /\ kernel'.pxCurrentTCB = t
    <3>1. kernel \in KernelType /\ 0 \in Int
      BY MutexFacts
    <3> QED
      BY <1>1, <2>1, <3>1, LeftRests DEF RestsAs, Rests
  <2>3. CallsInv'
    BY <1>1, <1>3, <1>6, <1>7, <2>2, NoCallFacts, CallsMoved
  <2>4. Proceeds(t, NoCall)
    BY <1>1, <1>5, <1>8, NoCallFacts, MutexFacts DEF Proceeds
  <2>5. kernel.pendingReady # <<>> => kernel'.uxSchedulerSuspended = 1
    BY <1>4
  <2> QED
    BY <1>1, <1>4, <1>6, <1>7, <2>2, <2>3, <2>4, <2>5, CallGoesOn
<1>9. CASE h # NoTask
  <2> DEFINE hw == prvGetDisinheritPriorityAfterTimeout(kernel, o)
             b == kernel.uxBasePriority[h]
             p == IF b < hw THEN hw ELSE b
  <2>1. h \in Tasks /\ h # t /\ \A m \in Mutexes : m = o
    BY <1>2, <1>5, <1>9 DEF MutexTypeOK, HoldersInv, AtMostOneMutex
  <2>2. Reprioritised(kernel, kernel', h, p) /\ kernel'.uxMutexesHeld = kernel.uxMutexesHeld
    BY <1>1, <1>6, <2>1, TakesBack
  <2>3. /\ hw \in Priorities
        /\ \A w \in Members(kernel.event[o]) : kernel.uxBasePriority[w] <= p
        /\ kernel.uxPriority[h] >= p /\ (kernel.event[o] = <<>> => p = b)
        /\ kernel.event[o] # <<>> => hw = kernel.uxBasePriority[Head(kernel.event[o])]
    BY <2>1, RaisedFacts
  <2>4. /\ kernel.uxPriority \in [Tasks -> Nat] /\ kernel.uxBasePriority \in [Tasks -> Nat]
    BY MutexFacts
  <2>5. hw \in Nat /\ b \in Nat
    BY <2>1, <2>3, <2>4 DEF Priorities, configMAX_PRIORITIES
  <2>6. p \in Nat /\ p >= b /\ (p = b \/ (p = hw /\ hw > b /\ kernel.event[o] # <<>>))
    BY <2>3, <2>5
  <2> HIDE DEF p, hw, b, h
  <2>7. /\ kernel'.uxPriority[h] = p
        /\ \A u \in Tasks \ {h} : kernel'.uxPriority[u] = kernel.uxPriority[u]
        /\ kernel'.uxBasePriority = kernel.uxBasePriority
        /\ kernel'.eventPriority = kernel'.uxPriority
    BY <2>1, <2>2, <2>4 DEF Reprioritised
  <2>8. /\ Good(kernel') /\ kernel' \in KernelType
        /\ kernel'.event = kernel.event /\ kernel'.pendingReady = kernel.pendingReady
        /\ ReadyTasks(kernel') = ReadyTasks(kernel) /\ BlockedTasks(kernel') = BlockedTasks(kernel)
        /\ kernel'.pxCurrentTCB = t
        /\ kernel'.uxSchedulerSuspended = kernel.uxSchedulerSuspended
    BY <1>1, <2>2 DEF Reprioritised, Good, KernelOK, SameEvents, StateSets, BlockedTasks
  <2>9. call'[t] = NoCall /\ \A u \in Tasks \ {t} : call'[u] = call[u]
    BY <1>1, <1>2, <1>6 DEF MutexTypeOK
  <2>10. MutexTypeOK'
    BY <1>2, <1>6, <1>7, <2>8, NoCallFacts DEF MutexTypeOK, TakeCallType
  <2>11. CallsInv'
    BY <1>1, <1>3, <1>6, <1>7, <2>8, NoCallFacts, CallsMoved
  <2>12. WaitsInv'
    <3>1. Releases(kernel, kernel')
      BY <2>8 DEF Releases, Known, Waiters, Waiting, Pending
    <3>2. \A u \in BlockedTasks(kernel) : u \in Tasks /\ u # t
      BY <1>2, <1>4, MutexFacts DEF Good, KernelOK, StateItemsOK, WaitsInv
    <3>3. \A u \in BlockedTasks(kernel) :
              call'[u].obj = call[u].obj /\ call'[u].at \in {call[u].at, "try"}
      BY <2>9, <3>2
    <3>4. /\ \A u \in Members(kernel'.pendingReady) :
                 \/ u \in Members(kernel.pendingReady)
                 \/ u \in Waiters(kernel) /\ call[u].obj \in Semaphores
          /\ kernel'.pendingReady # <<>> => kernel'.uxSchedulerSuspended = 1
          /\ kernel'.pxCurrentTCB \in ReadyTasks(kernel')
      BY <1>4, <2>8
    <3> QED
      BY <3>1, <3>3, <3>4, TasksKept
  <2>13. HoldersInv'
    <3>1. \A u \in Tasks, m \in Mutexes :
              call'[u].obj = m => call[u].obj = m \/ xMutexHolder[m] # u
      BY <2>9, NoCallFacts, MutexFacts
    <3>2. \A u \in Tasks : call'[u].inherited \/ call'[u].at = "disinherit" =>
              call'[u].obj \in Mutexes
      BY <1>2, <2>9, NoCallFacts DEF HoldersInv
    <3> QED
      BY <1>7, <2>2, <3>1, <3>2, HoldersKept
  <2>14. Holds(h) = {o} /\ \A u \in Tasks : Holds(u)' = Holds(u)
    BY <1>7, <2>1 DEF Holds, h
  <2>15. PrioritiesInv'
    <3>1. \A u \in Tasks : /\ kernel'.uxPriority[u] >= kernel'.uxBasePriority[u]
                           /\ Holds(u)' = {} => kernel'.uxPriority[u] = kernel'.uxBasePriority[u]
      BY <1>2, <2>6, <2>7, <2>14 DEF PrioritiesInv, b
    <3> QED
      BY <1>2, <2>7, <2>8, <3>1 DEF PrioritiesInv
  <2>16. ASSUME NEW u \in Members(kernel.event[o]) PROVE u \in Tasks /\ u # t /\ call[u].obj = o
    <3>1. kernel.event[o] \in Seq(Tasks) /\ o \in EventLists
      BY MutexFacts DEF KernelType
    <3>2. u \in Tasks
      BY <3>1, MembersProperties
    <3> QED
      BY <1>2, <3>1, <3>2, <1>1 DEF WaitsInv
  <2>17. LentInv'
    <3>1. ASSUME NEW u \in Members(kernel.event[o])
          PROVE  /\ kernel'.uxPriority[h] >= kernel.uxBasePriority[u]
                 /\ kernel.uxBasePriority[u] > kernel.uxBasePriority[h] => call'[u].inherited
      <4>1. kernel.uxBasePriority[u] > kernel.uxBasePriority[h] => call[u].inherited
        BY <1>2, <2>1 DEF LentInv, h
      <4>2. kernel.uxBasePriority[u] <= p /\ kernel.uxBasePriority[u] \in Nat
        BY <2>3, <2>4, <2>16
      <4> QED
        BY <2>6, <2>7, <2>9, <2>16, <4>1, <4>2
    <3>2. \/ kernel'.uxPriority[h] = kernel.uxBasePriority[h]
          \/ \E u \in Tasks : /\ call'[u].obj = o /\ call'[u].inherited
                              /\ kernel'.uxPriority[h] = kernel.uxBasePriority[u]
      <4>1. CASE p = b
        BY <2>7, <4>1 DEF b
      <4>2. CASE p = hw /\ hw > b /\ kernel.event[o] # <<>>
        <5> DEFINE w == Head(kernel.event[o])
        <5>1. w \in Members(kernel.event[o]) /\ w \in Tasks /\ call[w].obj = o
          BY <4>2, HeadHighest
        <5>2. hw = kernel.uxBasePriority[w]
          BY <2>3, <4>2
        <5> HIDE DEF w
        <5>3. call[w].inherited
          <6>1. kernel.uxBasePriority[w] > kernel.uxBasePriority[h]
            BY <4>2, <5>2 DEF b
          <6> QED
            BY <1>2, <2>1, <5>1, <6>1 DEF LentInv, h
        <5>4. call'[w] = call[w]
          BY <2>9, <2>16, <5>1
        <5> QED
          BY <2>7, <4>2, <5>1, <5>2, <5>3, <5>4
      <4> QED
        BY <2>6, <4>1, <4>2
    <3>3. ASSUME NEW m \in Mutexes, NEW g \in Tasks, xMutexHolder'[m] = g
          PROVE  m = o /\ g = h
      BY <1>7, <2>1, <3>3 DEF h
    <3> QED
      BY <2>7, <2>8, <3>1, <3>2, <3>3 DEF LentInv
  <2>18. FreeInv'
    BY <1>7, <1>9, <2>1 DEF FreeInv, h
  <2>19. NoLostGive'
    <3>1. ASSUME NEW l \in EventLists PROVE NoGiveLostOf(l)'
      <4>1. OnTheWay(l) \subseteq OnTheWay(l)'
        BY <1>1, <2>8, <2>9 DEF OnTheWay
      <4>2. kernel'.event[l] # <<>> => kernel.event[l] # <<>>
        BY <2>8
      <4>3. uxMessagesWaiting'[l] \in Nat /\ uxMessagesWaiting'[l] <= uxMessagesWaiting[l]
        BY <1>2, <1>7 DEF MutexTypeOK
      <4>4. cTxLock'[l] = cTxLock[l]
        BY <1>7
      <4> QED
        BY <4>1, <4>2, <4>3, <4>4, GiveUntouched
    <3> QED
      BY <3>1, GivesKept
  <2>20. SwitchKept
    <3>1. SUFFICES ASSUME Highest(kernel, {}), NEW u \in ReadyTasks(kernel)
                   PROVE  kernel'.uxPriority[u] <= kernel'.uxPriority[t]
      BY <2>8 DEF SwitchKept, Highest
    <3>2. u \in Tasks /\ kernel.uxPriority[u] <= kernel.uxPriority[t]
      BY <1>1, <3>1 DEF Highest, ReadyTasks
    <3>3. kernel'.uxPriority[t] = kernel.uxPriority[t]
      BY <1>1, <2>1, <2>7
    <3>4. CASE u # h
      BY <2>7, <3>2, <3>3, <3>4
    <3>5. CASE u = h
      <4>1. p <= kernel.uxPriority[t]
        BY <1>1, <2>1, <2>3, <2>4, <2>6, <3>2, <3>5
      <4> QED
        BY <2>7, <3>3, <3>5, <4>1
    <3> QED
      BY <3>4, <3>5
  <2> QED
    BY <2>8, <2>10, <2>11, <2>12, <2>13, <2>15, <2>17, <2>18, <2>19, <2>20 DEF MutexInv, Good
<1> QED
  BY <1>8, <1>9
-------------------------------------------------------------------------------
(***************************************************************************)
(* xQueueGenericSend and the calls of interrupts.                          *)
(***************************************************************************)
\* What the give of an object does to the calls, k being the record before the give, in
\* which the giver of a mutex may have fallen back to its own priority.
LEMMA GiveReleases ==
    ASSUME MutexInv, NEW k, Good(k), SameEvents(kernel, k),
           ReadyTasks(k) = ReadyTasks(kernel), BlockedTasks(k) = BlockedTasks(kernel),
           k.uxSchedulerSuspended = kernel.uxSchedulerSuspended,
           k.pxCurrentTCB = kernel.pxCurrentTCB,
           NEW o \in EventLists, NEW asks, Gives(k, kernel', o, asks)
    PROVE  /\ Releases(kernel, kernel') /\ GoesOn(kernel, kernel')
           /\ kernel'.uxSchedulerSuspended = kernel.uxSchedulerSuspended
           /\ kernel.uxSchedulerSuspended # 0 => kernel'.pxCurrentTCB = kernel.pxCurrentTCB
           /\ \A u \in Members(kernel'.pendingReady) :
                  u \in Members(kernel.pendingReady) \/ u \in Members(kernel.event[o])
           /\ kernel'.pendingReady # <<>> => kernel'.uxSchedulerSuspended = 1
           /\ \A l \in EventLists : kernel'.event[l] # <<>> => kernel.event[l] # <<>>
           /\ \/ kernel'.pxCurrentTCB \in ReadyTasks(kernel')
              \/ call[kernel'.pxCurrentTCB].at = "unlockBlocked"
<1>1. CallsInv /\ WaitsInv
  BY DEF MutexInv
<1>2. k.event = kernel.event /\ k.pendingReady = kernel.pendingReady
  BY DEF SameEvents
<1>3. Waiters(k) = Waiters(kernel) /\ Known(k) = Known(kernel)
  BY <1>2 DEF Waiters, Waiting, Pending, Known
<1>4. Good(kernel') /\ Wakes(k, kernel')
  BY DEF Gives
<1>5. Releases(kernel, kernel')
  BY <1>2, <1>3, <1>4 DEF Wakes, Releases
<1>6. GoesOn(kernel, kernel')
  BY DEF Gives, GoesOn
<1>7. kernel'.pendingReady # <<>> => kernel'.uxSchedulerSuspended = 1
  BY <1>1, <1>2 DEF Gives, WaitsInv, CallsInv
<1>8. ASSUME NEW l \in EventLists, kernel'.event[l] # <<>> PROVE kernel.event[l] # <<>>
  BY <1>2, <1>8 DEF Gives
<1>9. \/ kernel'.pxCurrentTCB \in ReadyTasks(kernel')
      \/ call[kernel'.pxCurrentTCB].at = "unlockBlocked"
  BY <1>5, <1>6, MutexFacts DEF GoesOn, Releases
<1> QED
  BY <1>2, <1>5, <1>6, <1>7, <1>8, <1>9 DEF Gives

\* The waiter that a give wakes is set on its way for what is given.
LEMMA GiveAwakes ==
    ASSUME MutexInv, NEW k, Good(k), SameEvents(kernel, k), NEW o \in EventLists, NEW asks,
           Gives(k, kernel', o, asks), call' = call,
           uxMessagesWaiting'[o] = uxMessagesWaiting[o] + 1, cTxLock'[o] = cTxLock[o]
    PROVE  NoGiveLostOf(o)'
<1>1. MutexTypeOK /\ WaitsInv
  BY DEF MutexInv
<1>2. k.event = kernel.event
  BY DEF SameEvents
<1>3. CASE kernel.event[o] = <<>>
  BY <1>2, <1>3 DEF Gives, NoGiveLostOf
<1>4. CASE kernel.event[o] # <<>>
  <2> DEFINE w == Head(kernel.event[o])
             S == {w}
  <2>1. w \in Members(kernel.event[o]) /\ kernel'.event[o] = Tail(kernel.event[o])
    BY <1>2, <1>4 DEF Gives
  <2>2. kernel.event[o] \in Seq(Tasks) /\ Distinct(kernel.event[o])
    BY MutexFacts DEF Good, KernelOK, KernelType, EventItemsOK
  <2>3. /\ w \in Tasks /\ w \notin Members(kernel'.event[o])
        /\ Members(kernel'.event[o]) \subseteq Members(kernel.event[o])
    BY <1>4, <2>1, <2>2, TailMembers
  <2> HIDE DEF w
  <2>4. call[w].obj = o /\ call[w].at \in {"unlockBlocked", "try"}
    BY <1>1, <2>1 DEF WaitsInv
  <2>5. S \subseteq Tasks /\ S \cap OnTheWay(o) = {}
    BY <2>1, <2>3 DEF OnTheWay
  <2>6. OnTheWay(o) \cup S \subseteq OnTheWay(o)'
    BY <2>3, <2>4 DEF OnTheWay
  <2>7. Cardinality(S) = 1
    BY FS_Singleton
  <2>8. /\ uxMessagesWaiting[o] \in Nat /\ uxMessagesWaiting'[o] \in Nat
        /\ cTxLock[o] \in Int /\ cTxLock'[o] \in Int /\ Max({cTxLock[o], 0}) \in Nat
    BY <1>1, LockCount DEF MutexTypeOK
  <2> HIDE DEF S
  <2>9. uxMessagesWaiting'[o] + Max({cTxLock[o], 0})
            <= uxMessagesWaiting[o] + Max({cTxLock'[o], 0}) + Cardinality(S)
    BY <2>7, <2>8
  <2>10. kernel'.event[o] # <<>> => kernel.event[o] # <<>>
    BY <1>4
  <2> QED
    BY <2>5, <2>6, <2>8, <2>9, <2>10, GiveKept
<1> QED
  BY <1>3, <1>4

\* An object of which nothing is given while another is.
LEMMA OthersUntouched ==
    ASSUME MutexInv, Releases(kernel, kernel'), call' = call, NEW l \in EventLists,
           kernel'.event[l] # <<>> => kernel.event[l] # <<>>,
           uxMessagesWaiting'[l] = uxMessagesWaiting[l], cTxLock'[l] = cTxLock[l]
    PROVE  NoGiveLostOf(l)'
<1>1. OnTheWay(l) \subseteq OnTheWay(l)'
  BY DEF OnTheWay, Releases
<1>2. uxMessagesWaiting'[l] \in Nat /\ uxMessagesWaiting'[l] <= uxMessagesWaiting[l]
  BY DEF MutexInv, MutexTypeOK
<1> QED
  BY <1>1, <1>2, GiveUntouched

\* A semaphore whose queue is not locked is given.
LEMMA SemaphoreGiven ==
    ASSUME MutexInv, NEW o \in Semaphores, kernel' = AfterGive(kernel, o, FALSE),
           uxMessagesWaiting' = [uxMessagesWaiting EXCEPT ![o] = @ + 1],
           UNCHANGED <<xMutexHolder, cTxLock, call>>
    PROVE  MutexInv' /\ SwitchKept
<1>1. MutexTypeOK /\ WaitsInv /\ CallsInv
  BY DEF MutexInv
<1>2. o \in EventLists /\ o \notin Mutexes
  BY DEF Semaphores
<1>3. Gives(kernel, kernel', o, FALSE)
  BY <1>2, MutexFacts, AfterGiveGives
<1>4. Good(kernel) /\ SameEvents(kernel, kernel)
  BY MutexFacts DEF SameEvents
<1>5. /\ Releases(kernel, kernel') /\ GoesOn(kernel, kernel')
      /\ kernel'.uxSchedulerSuspended = kernel.uxSchedulerSuspended
      /\ kernel.uxSchedulerSuspended # 0 => kernel'.pxCurrentTCB = kernel.pxCurrentTCB
      /\ \A u \in Members(kernel'.pendingReady) :
             u \in Members(kernel.pendingReady) \/ u \in Members(kernel.event[o])
      /\ kernel'.pendingReady # <<>> => kernel'.uxSchedulerSuspended = 1
      /\ \A l \in EventLists : kernel'.event[l] # <<>> => kernel.event[l] # <<>>
  BY <1>2, <1>3, <1>4, GiveReleases
<1>6. Good(kernel') /\ Wakes(kernel, kernel')
  BY <1>3 DEF Gives
<1>7. Grows(kernel, kernel') /\ kernel'.uxMutexesHeld = kernel.uxMutexesHeld
  BY <1>6, WakesGrows DEF Wakes
<1>8. Highest(kernel, {}) => Highest(kernel', {})
  BY <1>3 DEF Gives
<1>9. ASSUME NEW u \in Members(kernel'.pendingReady)
      PROVE  \/ u \in Members(kernel.pendingReady)
             \/ u \in Waiters(kernel) /\ call[u].obj \in Semaphores
  <2>1. CASE u \in Members(kernel.event[o])
    <3>1. kernel.event[o] \in Seq(Tasks)
      BY <1>2, MutexFacts DEF KernelType
    <3>2. u \in Tasks
      BY <2>1, <3>1, MembersProperties
    <3>3. call[u].obj = o
      BY <1>1, <1>2, <2>1 DEF WaitsInv
    <3> QED
      BY <1>2, <2>1, <3>2, <3>3 DEF Waiters, Waiting
  <2> QED
    BY <1>5, <2>1
<1>10. CallsInv'
  BY <1>5, CallsKept
<1>11. /\ uxMessagesWaiting' \in [EventLists -> Nat] /\ cTxLock' \in [EventLists -> Int]
       /\ uxMessagesWaiting'[o] = uxMessagesWaiting[o] + 1
       /\ \A l \in EventLists \ {o} : uxMessagesWaiting'[l] = uxMessagesWaiting[l]
  BY <1>1, <1>2 DEF MutexTypeOK
<1>12. \A m \in Mutexes : uxMessagesWaiting'[m] = uxMessagesWaiting[m]
  BY <1>2, <1>11, MutexFacts
<1>13. NoLostGive'
  <2>1. NoGiveLostOf(o)'
    BY <1>2, <1>3, <1>4, <1>11, GiveAwakes
  <2>2. ASSUME NEW l \in EventLists, l # o PROVE NoGiveLostOf(l)'
    BY <1>5, <1>11, <2>2, OthersUntouched
  <2> QED
    BY <2>1, <2>2, GivesKept
<1> QED
  BY <1>5, <1>7, <1>8, <1>9, <1>10, <1>11, <1>12, <1>13, OutsideStep

\* xQueueGiveFromISR.
LEMMA GiveFromISRKeeps ==
    ASSUME MutexInv, NEW o \in Semaphores, GiveFromISR(o)
    PROVE  MutexInv' /\ SwitchKept
<1>1. CASE kernel' = AfterGive(kernel, o, FALSE) /\ UNCHANGED cTxLock
  BY <1>1, SemaphoreGiven DEF GiveFromISR
<1>2. CASE /\ cTxLock[o] \in 0 .. MaxLockedGives - 1
           /\ cTxLock' = [cTxLock EXCEPT ![o] = @ + 1]
           /\ UNCHANGED kernel
  <2>1. MutexTypeOK /\ WaitsInv /\ CallsInv
    BY DEF MutexInv
  <2>2. o \in EventLists /\ o \notin Mutexes /\ cTxLock[o] \in Nat
    BY <1>2, MutexAssumption DEF Semaphores
  <2>3. /\ uxMessagesWaiting' = [uxMessagesWaiting EXCEPT ![o] = @ + 1]
        /\ UNCHANGED <<xMutexHolder, call>>
    BY DEF GiveFromISR
  <2>4. /\ uxMessagesWaiting' \in [EventLists -> Nat] /\ cTxLock' \in [EventLists -> Int]
        /\ uxMessagesWaiting'[o] = uxMessagesWaiting[o] + 1 /\ cTxLock'[o] = cTxLock[o] + 1
        /\ \A l \in EventLists \ {o} : /\ uxMessagesWaiting'[l] = uxMessagesWaiting[l]
                                       /\ cTxLock'[l] = cTxLock[l]
    BY <1>2, <2>1, <2>2, <2>3 DEF MutexTypeOK
  <2>5. /\ Rests(kernel, kernel') /\ Grows(kernel, kernel') /\ GoesOn(kernel, kernel')
        /\ Highest(kernel, {}) => Highest(kernel', {})
    <3>1. Rests(kernel, kernel') /\ Good(kernel)
      BY <1>2, MutexFacts DEF Rests, SameStates, SameEvents
    <3> QED
      BY <3>1, RestsGrows
  <2>6. Releases(kernel, kernel')
    BY <2>5 DEF Grows, Releases
  <2>7. CallsInv'
    <3>1. \A l \in EventLists : cTxLock[l] = queueUNLOCKED <=> cTxLock'[l] = queueUNLOCKED
      BY <2>2, <2>4 DEF queueUNLOCKED
    <3>2. \A l \in EventLists : cTxLock[l] >= 0 => cTxLock'[l] >= 0
      BY <2>2, <2>4
    <3>3. \A m \in Mutexes : cTxLock'[m] = cTxLock[m]
      BY <2>2, <2>4, MutexFacts
    <3>4. \A u \in Tasks : call[u].at \in LockedPlaces => call[u].obj \in EventLists
      BY LockedFacts
    <3> QED
      BY <1>2, <2>1, <2>3, <3>1, <3>2, <3>3, <3>4 DEF CallsInv
  <2>8. NoLostGive'
    <3>1. NoGiveLostOf(o)'
      <4>1. Cardinality({}) = 0 /\ {} \cap OnTheWay(o) = {}
        BY FS_EmptySet
      <4>2. /\ uxMessagesWaiting[o] \in Nat
            /\ Max({cTxLock[o], 0}) = cTxLock[o] /\ Max({cTxLock'[o], 0}) = cTxLock[o] + 1
        BY <2>1, <2>2, <2>4, LockCount DEF MutexTypeOK
      <4>3. uxMessagesWaiting'[o] + Max({cTxLock[o], 0})
                <= uxMessagesWaiting[o] + Max({cTxLock'[o], 0}) + Cardinality({})
        BY <2>2, <2>4, <4>1, <4>2
      <4>4. OnTheWay(o) \cup {} \subseteq OnTheWay(o)'
        BY <1>2, <2>3 DEF OnTheWay
      <4>5. /\ uxMessagesWaiting'[o] \in Nat /\ cTxLock'[o] \in Int
            /\ kernel'.event[o] # <<>> => kernel.event[o] # <<>>
        BY <1>2, <2>2, <2>4
      <4> QED
        BY <2>2, <4>1, <4>3, <4>4, <4>5, GiveKept
    <3>2. ASSUME NEW l \in EventLists, l # o PROVE NoGiveLostOf(l)'
      <4>1. kernel'.event[l] # <<>> => kernel.event[l] # <<>>
        BY <1>2
      <4> QED
        BY <2>3, <2>4, <2>6, <3>2, <4>1, OthersUntouched
    <3> QED
      BY <3>1, <3>2, GivesKept
  <2>9. \A m \in Mutexes : uxMessagesWaiting'[m] = uxMessagesWaiting[m]
    BY <2>2, <2>4, MutexFacts
  <2>10. /\ kernel'.uxMutexesHeld = kernel.uxMutexesHeld
         /\ kernel'.uxSchedulerSuspended = kernel.uxSchedulerSuspended
         /\ \A u \in Members(kernel'.pendingReady) :
                \/ u \in Members(kernel.pendingReady)
                \/ u \in Waiters(kernel) /\ call[u].obj \in Semaphores
         /\ kernel'.pendingReady # <<>> => kernel'.uxSchedulerSuspended = 1
    BY <1>2, <2>1 DEF WaitsInv
  <2> QED
    BY <2>3, <2>4, <2>5, <2>7, <2>8, <2>9, <2>10, OutsideStep
<1> QED
  BY <1>1, <1>2 DEF GiveFromISR

\* xQueueReceiveFromISR.
LEMMA TakeFromISRKeeps ==
    ASSUME MutexInv, NEW o \in Semaphores, TakeFromISR(o)
    PROVE  MutexInv' /\ SwitchKept
<1>1. MutexTypeOK /\ WaitsInv /\ CallsInv
  BY DEF MutexInv
<1>2. /\ o \in EventLists /\ o \notin Mutexes /\ Available(o)
      /\ uxMessagesWaiting' = [uxMessagesWaiting EXCEPT ![o] = @ - 1]
      /\ UNCHANGED kernel /\ UNCHANGED <<xMutexHolder, cTxLock, call>>
  BY DEF TakeFromISR, Semaphores
<1>3. /\ uxMessagesWaiting' \in [EventLists -> Nat] /\ cTxLock' \in [EventLists -> Int]
      /\ \A l \in EventLists : uxMessagesWaiting'[l] <= uxMessagesWaiting[l]
      /\ \A l \in EventLists \ {o} : uxMessagesWaiting'[l] = uxMessagesWaiting[l]
  BY <1>1, <1>2 DEF MutexTypeOK, Available
<1>4. /\ Rests(kernel, kernel') /\ Grows(kernel, kernel') /\ GoesOn(kernel, kernel')
      /\ Highest(kernel, {}) => Highest(kernel', {})
  <2>1. Rests(kernel, kernel') /\ Good(kernel)
    BY <1>2, MutexFacts DEF Rests, SameStates, SameEvents
  <2> QED
    BY <2>1, RestsGrows
<1>5. CallsInv'
  BY <1>2, CallsKept
<1>6. NoLostGive'
  <2>1. ASSUME NEW l \in EventLists PROVE NoGiveLostOf(l)'
    <3>1. OnTheWay(l) \subseteq OnTheWay(l)'
      BY <1>2 DEF OnTheWay
    <3>2. /\ uxMessagesWaiting'[l] \in Nat /\ uxMessagesWaiting'[l] <= uxMessagesWaiting[l]
          /\ kernel'.event[l] # <<>> => kernel.event[l] # <<>>
          /\ cTxLock'[l] = cTxLock[l]
      BY <1>2, <1>3
    <3> QED
      BY <3>1, <3>2, GiveUntouched
  <2> QED
    BY <2>1, GivesKept
<1>7. \A m \in Mutexes : uxMessagesWaiting'[m] = uxMessagesWaiting[m]
  BY <1>2, <1>3, MutexFacts
<1>8. /\ kernel'.uxMutexesHeld = kernel.uxMutexesHeld
      /\ kernel'.uxSchedulerSuspended = kernel.uxSchedulerSuspended
      /\ \A u \in Members(kernel'.pendingReady) :
             \/ u \in Members(kernel.pendingReady)
             \/ u \in Waiters(kernel) /\ call[u].obj \in Semaphores
      /\ kernel'.pendingReady # <<>> => kernel'.uxSchedulerSuspended = 1
  BY <1>1, <1>2 DEF WaitsInv
<1> QED
  BY <1>2, <1>3, <1>4, <1>5, <1>6, <1>7, <1>8, OutsideStep

\* The tick interrupt.
LEMMA TickKeeps ==
    ASSUME MutexInv, Tick
    PROVE  MutexInv' /\ SwitchKept
<1>1. MutexTypeOK /\ WaitsInv /\ CallsInv
  BY DEF MutexInv
<1>2. kernel' = TickInterrupt(kernel) /\ UNCHANGED objects /\ UNCHANGED call
  BY DEF Tick
<1>3. /\ Undisturbing(kernel, kernel', {})
      /\ Members(kernel'.pendingReady) \subseteq Members(kernel.pendingReady)
  BY <1>2, MutexFacts, TickUndisturbing, TickSettles
<1>4. /\ Good(kernel') /\ Wakes(kernel, kernel')
      /\ kernel'.uxSchedulerSuspended = kernel.uxSchedulerSuspended
      /\ kernel.uxSchedulerSuspended # 0 => kernel'.pxCurrentTCB = kernel.pxCurrentTCB
  BY <1>3 DEF Undisturbing
<1>5. Grows(kernel, kernel') /\ kernel'.uxMutexesHeld = kernel.uxMutexesHeld
  BY <1>4, WakesGrows DEF Wakes
<1>6. GoesOn(kernel, kernel') /\ (Highest(kernel, {}) => Highest(kernel', {}))
  BY <1>3 DEF Undisturbing, Runs, GoesOn
<1>7. \A s \in Seq(Tasks) : s = <<>> <=> Members(s) = {}
  BY MembersProperties
<1>8. kernel'.pendingReady # <<>> => kernel'.uxSchedulerSuspended = 1
  <2>1. kernel.pendingReady \in Seq(Tasks) /\ kernel'.pendingReady \in Seq(Tasks)
    BY <1>4, MutexFacts DEF Good, KernelOK, KernelType
  <2>2. kernel'.pendingReady # <<>> => kernel.pendingReady # <<>>
    BY <1>3, <1>7, <2>1
  <2> QED
    BY <1>1, <1>4, <2>2 DEF WaitsInv
<1>9. UNCHANGED <<uxMessagesWaiting, xMutexHolder, cTxLock>>
  BY <1>2 DEF objects
<1>10. CallsInv'
  BY <1>2, <1>4, <1>9, CallsKept
<1>11. NoLostGive'
  <2>1. ASSUME NEW l \in EventLists PROVE NoGiveLostOf(l)'
    <3>1. /\ kernel.event[l] \in Seq(Tasks) /\ kernel'.event[l] \in Seq(Tasks)
          /\ Members(kernel'.event[l]) \subseteq Members(kernel.event[l])
      BY <1>4, MutexFacts DEF Good, KernelOK, KernelType, Wakes
    <3>2. kernel'.event[l] # <<>> => kernel.event[l] # <<>>
      BY <1>7, <3>1
    <3>3. Releases(kernel, kernel')
      BY <1>5 DEF Grows, Releases
    <3> QED
      BY <1>2, <1>9, <3>2, <3>3, OthersUntouched
  <2> QED
    BY <2>1, GivesKept
<1>12. uxMessagesWaiting' \in [EventLists -> Nat] /\ cTxLock' \in [EventLists -> Int]
  BY <1>1, <1>9 DEF MutexTypeOK
<1> QED
  BY <1>2, <1>3, <1>4, <1>5, <1>6, <1>8, <1>9, <1>10, <1>11, <1>12, OutsideStep

\* A task gives a mutex that it does not hold, which the code asserts not to happen.
LEMMA GiveAsserts ==
    ASSUME MutexInv, NEW t \in Tasks, t = kernel.pxCurrentTCB, call[t].at = "task",
           kernel' = Halt(kernel), UNCHANGED <<objects, call>>
    PROVE  MutexInv' /\ SwitchKept
<1>1. MutexTypeOK /\ CallsInv
  BY DEF MutexInv
<1>2. kernel.uxSchedulerSuspended = 0 /\ t \in ReadyTasks(kernel) /\ kernel.pendingReady = <<>>
  BY OutsideFacts DEF LockedPlaces
<1>3. /\ Rests(kernel, kernel') /\ kernel'.uxMutexesHeld = kernel.uxMutexesHeld
      /\ kernel'.uxSchedulerSuspended = kernel.uxSchedulerSuspended
  <2>1. kernel \in KernelType
    BY MutexFacts
  <2> QED
    BY <2>1, HaltRests DEF RestsAs
<1>4. UNCHANGED <<uxMessagesWaiting, xMutexHolder>> /\ cTxLock' = cTxLock /\ LocksOnly
  BY <1>1 DEF objects, MutexTypeOK, LocksOnly
<1>5. CallsInv'
  BY <1>3, <1>4, CallsKept DEF Rests
<1>6. call[t] = NoCall
  BY <1>1 DEF CallsInv
<1>7. call' = [call EXCEPT ![t] = NoCall]
  BY <1>1, <1>6 DEF MutexTypeOK
<1>8. Proceeds(t, NoCall)
  BY <1>6, NoCallFacts, MutexFacts DEF Proceeds
<1>9. kernel.pendingReady # <<>> => kernel'.uxSchedulerSuspended = 1
  BY <1>2
<1> QED
  BY <1>2, <1>3, <1>4, <1>5, <1>7, <1>8, <1>9, CallGoesOn

\* The holder gives the mutex.
LEMMA MutexGiven ==
    ASSUME AtMostOneMutex, MutexInv, NEW t \in Tasks, t = kernel.pxCurrentTCB,
           call[t].at = "task", NEW o \in Mutexes, xMutexHolder[o] = t,
           NEW k, k = xTaskPriorityDisinherit(kernel, t),
           kernel' = AfterGive(k, o, DisinheritYields(kernel, t)),
           uxMessagesWaiting' = [uxMessagesWaiting EXCEPT ![o] = @ + 1],
           xMutexHolder' = [m \in Mutexes |-> IF m = o THEN NoTask ELSE xMutexHolder[m]],
           UNCHANGED <<cTxLock, call>>
    PROVE  MutexInv' /\ SwitchKept
<1> DEFINE b == kernel.uxBasePriority[t]
           asks == DisinheritYields(kernel, t)
<1>1. /\ MutexTypeOK /\ CallsInv /\ WaitsInv /\ HoldersInv /\ PrioritiesInv
  BY DEF MutexInv
<1>2. /\ kernel.uxSchedulerSuspended = 0 /\ t \in ReadyTasks(kernel)
      /\ kernel.pendingReady = <<>>
  BY OutsideFacts DEF LockedPlaces
<1>3. /\ \A m \in Mutexes : m = o
      /\ o \in EventLists /\ kernel.uxMutexesHeld[t] = 1 /\ NoTask \notin Tasks
  BY RaisedFacts, MutexFacts DEF AtMostOneMutex
<1>4. /\ Reprioritised(kernel, k, t, b)
      /\ k.uxMutexesHeld = [kernel.uxMutexesHeld EXCEPT ![t] = 0]
      /\ asks \in BOOLEAN /\ (asks <=> kernel.uxPriority[t] # b)
  <2>1. Good(kernel) /\ kernel.eventPriority = kernel.uxPriority
    BY <1>1, MutexFacts DEF PrioritiesInv
  <2>2. asks \in BOOLEAN
    BY <1>3 DEF DisinheritYields
  <2> QED
    BY <1>3, <2>1, <2>2, DisinheritLowers
<1> HIDE DEF asks, b
<1>5. /\ Good(k) /\ SameEvents(kernel, k)
      /\ ReadyTasks(k) = ReadyTasks(kernel) /\ BlockedTasks(k) = BlockedTasks(kernel)
      /\ k.uxSchedulerSuspended = 0 /\ k.pxCurrentTCB = t
      /\ k.uxPriority = [kernel.uxPriority EXCEPT ![t] = b] /\ k.eventPriority = k.uxPriority
      /\ k.uxBasePriority = kernel.uxBasePriority /\ k.event = kernel.event
  BY <1>2, <1>4 DEF Reprioritised, StateSets, BlockedTasks, SameEvents
<1>6. kernel' = AfterGive(k, o, asks)
  BY DEF asks
<1>7. Gives(k, kernel', o, asks)
  <2>1. ReadyTasks(k) # {}
    BY <1>5, MutexFacts
  <2> QED
    BY <1>3, <1>4, <1>5, <1>6, <2>1, AfterGiveGives
<1>8. /\ Releases(kernel, kernel') /\ GoesOn(kernel, kernel')
      /\ kernel'.uxSchedulerSuspended = kernel.uxSchedulerSuspended
      /\ \A u \in Members(kernel'.pendingReady) :
             u \in Members(kernel.pendingReady) \/ u \in Members(kernel.event[o])
      /\ kernel'.pendingReady # <<>> => kernel'.uxSchedulerSuspended = 1
      /\ \A l \in EventLists : kernel'.event[l] # <<>> => kernel.event[l] # <<>>
      /\ \/ kernel'.pxCurrentTCB \in ReadyTasks(kernel')
         \/ call[kernel'.pxCurrentTCB].at = "unlockBlocked"
  <2>1. k.uxSchedulerSuspended = kernel.uxSchedulerSuspended /\ k.pxCurrentTCB = kernel.pxCurrentTCB
    BY <1>2, <1>5
  <2> QED
    BY <1>3, <1>5, <1>7, <2>1, GiveReleases
<1>9. /\ Good(kernel') /\ kernel' \in KernelType /\ Wakes(k, kernel')
      /\ kernel'.uxPriority = k.uxPriority /\ kernel'.uxBasePriority = kernel.uxBasePriority
      /\ kernel'.eventPriority = k.uxPriority
      /\ kernel'.uxMutexesHeld = [kernel.uxMutexesHeld EXCEPT ![t] = 0]
      /\ kernel'.pendingReady = <<>>
  <2>1. Good(kernel') /\ Wakes(k, kernel') /\ kernel'.pendingReady = k.pendingReady
    BY <1>5, <1>7 DEF Gives
  <2> QED
    BY <1>2, <1>4, <1>5, <2>1 DEF Wakes, Good, KernelOK, SameEvents
<1>10. /\ uxMessagesWaiting' \in [EventLists -> Nat] /\ uxMessagesWaiting'[o] = 1
       /\ uxMessagesWaiting'[o] = uxMessagesWaiting[o] + 1
       /\ \A l \in EventLists \ {o} : uxMessagesWaiting'[l] = uxMessagesWaiting[l]
       /\ \A m \in Mutexes : xMutexHolder'[m] = NoTask
  <2>1. uxMessagesWaiting[o] = 0
    BY <1>1, <1>3 DEF HoldersInv
  <2> QED
    BY <1>1, <1>3, <2>1 DEF MutexTypeOK
<1>11. MutexTypeOK'
  BY <1>1, <1>9, <1>10 DEF MutexTypeOK
<1>12. CallsInv'
  BY <1>2, <1>8, CallsKept
<1>13. WaitsInv'
  <2>1. /\ \A u \in BlockedTasks(kernel) :
               call'[u].obj = call[u].obj /\ call'[u].at \in {call[u].at, "try"}
        /\ \A u \in Members(kernel'.pendingReady) :
               \/ u \in Members(kernel.pendingReady)
               \/ u \in Waiters(kernel) /\ call[u].obj \in Semaphores
        /\ \/ kernel'.pxCurrentTCB \in ReadyTasks(kernel')
           \/ call'[kernel'.pxCurrentTCB].at = "unlockBlocked"
    BY <1>2, <1>8, <1>9
  <2> QED
    BY <1>8, <2>1, TasksKept
<1>14. \A u \in Tasks : Holds(u)' = {} /\ Holds(u) = IF u = t THEN {o} ELSE {}
  BY <1>3, <1>10 DEF Holds
<1>15. HoldersInv'
  <2>1. kernel.uxMutexesHeld \in [Tasks -> Int]
    BY <1>1 DEF MutexTypeOK, KernelType
  <2>2. ASSUME NEW u \in Tasks PROVE kernel'.uxMutexesHeld[u] = Cardinality(Holds(u)')
    <3>1. Holds(u)' = {} /\ Cardinality({}) = 0
      BY <1>14, FS_EmptySet
    <3>2. u # t => kernel.uxMutexesHeld[u] = 0
      BY <1>1, <1>14, <3>1 DEF HoldersInv
    <3>3. kernel'.uxMutexesHeld[u] = 0
      BY <1>9, <2>1, <3>2
    <3> QED
      BY <3>1, <3>3
  <2>3. \A m \in Mutexes : uxMessagesWaiting'[m] = 1
    BY <1>3, <1>10
  <2> QED
    BY <1>1, <1>3, <1>10, <2>2, <2>3 DEF HoldersInv
<1>16. kernel.uxPriority \in [Tasks -> Nat] /\ kernel.uxBasePriority \in [Tasks -> Nat]
  BY MutexFacts
<1>17. \A u \in Tasks : kernel'.uxPriority[u] = kernel.uxBasePriority[u]
  <2>1. \A u \in Tasks \ {t} : kernel.uxPriority[u] = kernel.uxBasePriority[u]
    BY <1>1, <1>14 DEF PrioritiesInv
  <2> QED
    BY <1>5, <1>9, <1>16, <2>1 DEF b
<1>18. PrioritiesInv'
  <2>1. SortedBy(kernel.event[o], kernel.uxBasePriority)
    BY <1>1 DEF PrioritiesInv, SortedBy
  <2>2. SortedBy(kernel'.event[o], kernel.uxBasePriority)
    BY <1>3, <1>5, <1>9, <2>1 DEF Wakes, KeepsOrder
  <2>3. kernel'.eventPriority = kernel'.uxPriority
    BY <1>9
  <2>4. \A u \in Tasks : kernel'.uxPriority[u] >= kernel'.uxBasePriority[u]
    BY <1>9, <1>16, <1>17
  <2> QED
    <3>1. \A u \in Tasks : Holds(u)' = {} => kernel'.uxPriority[u] = kernel'.uxBasePriority[u]
      BY <1>9, <1>17
    <3>2. SortedBy(kernel'.event[o], kernel'.uxBasePriority)
      BY <1>9, <2>2
    <3> QED
      BY <1>3, <2>3, <2>4, <3>1, <3>2 DEF PrioritiesInv, SortedBy
<1>19. LentInv'
  BY <1>3, <1>10 DEF LentInv
<1>20. kernel.event[o] \in Seq(Tasks) /\ Distinct(kernel.event[o]) /\ kernel'.event[o] \in Seq(Tasks)
  BY <1>3, <1>9, MutexFacts DEF Good, KernelOK, KernelType, EventItemsOK
<1>21. CASE kernel.event[o] = <<>>
  <2>1. kernel'.event[o] = <<>>
    BY <1>3, <1>8, <1>21
  <2>2. FreeInv'
    <3>1. Members(kernel'.event[o]) = {}
      BY <1>20, <2>1, MembersProperties
    <3> QED
      BY <1>3, <2>1, <3>1 DEF FreeInv
  <2>3. ASSUME NEW l \in EventLists PROVE NoGiveLostOf(l)'
    <3>1. CASE l = o
      BY <2>1, <3>1 DEF NoGiveLostOf
    <3>2. CASE l # o
      BY <1>8, <1>10, <3>2, OthersUntouched
    <3> QED
      BY <3>1, <3>2
  <2>4. NoLostGive'
    BY <2>3, GivesKept
  <2>5. SwitchKept
    <3>1. CASE asks
      <4>1. kernel' = YieldIf(asks, k)
        BY <1>5, <1>6, <1>21 DEF AfterGive
      <4>2. Wakes(k, k)
        BY <1>5, UnlocksNothing DEF Unlocks, Awakens
      <4>3. ReadyTasks(k) # {}
        BY <1>5, MutexFacts
      <4>4. Highest(kernel', {})
        BY ZenonT(40), <1>4, <1>5, <3>1, <4>1, <4>2, <4>3, GiveYields
      <4> QED
        BY <4>4 DEF SwitchKept
    <3>2. CASE ~asks
      <4>1. k.uxPriority = kernel.uxPriority
        BY <1>4, <1>5, <1>16, <3>2
      <4>2. Highest(kernel, {}) => Highest(k, {})
        BY <1>5, <4>1 DEF Highest
      <4>3. Highest(k, {}) => Highest(kernel', {})
        BY <1>7, <3>2 DEF Gives
      <4> QED
        BY <4>2, <4>3 DEF SwitchKept
    <3> QED
      BY <1>4, <3>1, <3>2
  <2> QED
    BY <1>9, <1>11, <1>12, <1>13, <1>15, <1>18, <1>19, <2>2, <2>4, <2>5 DEF MutexInv, Good
<1>22. CASE kernel.event[o] # <<>>
  <2> DEFINE w == Head(kernel.event[o])
  <2>1. /\ w \in Members(kernel.event[o]) /\ w \in Tasks /\ call[w].obj = o
        /\ \A u \in Members(kernel.event[o]) :
               kernel.uxBasePriority[w] >= kernel.uxBasePriority[u]
    BY <1>22, HeadHighest
  <2>2. /\ kernel'.event[o] = Tail(kernel.event[o])
        /\ \/ kernel'.pxCurrentTCB # t
           \/ Highest(kernel', {})
           \/ k.uxPriority[w] <= k.uxPriority[t]
        /\ kernel'.pxCurrentTCB # t => Highest(kernel', {})
        /\ \A l \in EventLists \ {o} : kernel'.event[l] = kernel.event[l]
    BY <1>5, <1>7, <1>22 DEF Gives
  <2>3. w \notin Members(kernel'.event[o]) /\ Members(kernel'.event[o]) \subseteq Members(kernel.event[o])
    BY <1>20, <1>22, <2>2, TailMembers
  <2> HIDE DEF w
  <2>4. w # t
    BY <1>1, <1>3, <2>1 DEF HoldersInv
  <2>5. call[w].at \in {"unlockBlocked", "try"}
    BY <1>1, <1>3, <2>1 DEF WaitsInv
  <2>6. w \in ReadyTasks(kernel')
    <3>1. w \in Waiters(kernel)
      BY <1>3, <2>1 DEF Waiters, Waiting
    <3>2. \A l \in EventLists : w \notin Members(kernel'.event[l])
      <4>1. ASSUME NEW l \in EventLists, w \in Members(kernel'.event[l]) PROVE FALSE
        <5>1. w \in Members(kernel.event[l])
          BY <1>8, <4>1 DEF Releases
        <5>2. l = o
          BY <1>1, <2>1, <5>1 DEF WaitsInv
        <5> QED
          BY <2>3, <4>1, <5>2
      <4> QED
        BY <4>1
    <3>3. w \notin Members(kernel'.pendingReady)
      BY <1>9 DEF Members
    <3>4. w \notin Waiters(kernel')
      BY <3>2, <3>3 DEF Waiters, Waiting, Pending
    <3> QED
      BY <1>8, <3>1, <3>4 DEF Releases
  <2>7. /\ Members(kernel'.event[o]) \subseteq Tasks /\ kernel'.pxCurrentTCB \in Tasks
    BY SMTT(30), <1>9, <1>20, MembersProperties DEF KernelType
  <2>8. kernel'.uxPriority[kernel'.pxCurrentTCB] >= kernel.uxBasePriority[w]
    <3>1. CASE Highest(kernel', {})
      <4>1. kernel'.uxPriority[w] <= kernel'.uxPriority[kernel'.pxCurrentTCB]
        BY <2>6, <3>1 DEF Highest
      <4> QED
        BY <1>16, <1>17, <2>1, <2>7, <4>1
    <3>2. CASE kernel'.pxCurrentTCB = t /\ k.uxPriority[w] <= k.uxPriority[t]
      <4>1. kernel'.uxPriority[w] <= kernel'.uxPriority[t]
        BY <1>9, <3>2
      <4> QED
        BY <1>16, <1>17, <2>1, <3>2, <4>1
    <3> QED
      BY <2>2, <3>1, <3>2
  <2>9. w \in OnTheWay(o)'
    BY <2>1, <2>3, <2>5 DEF OnTheWay
  <2>10. FreeInv'
    <3>1. \A u \in Members(kernel'.event[o]) : kernel.uxBasePriority[w] >= kernel.uxBasePriority[u]
      BY <2>1, <2>3
    <3>2. ASSUME NEW u \in Members(kernel'.event[o])
          PROVE  kernel'.uxPriority[kernel'.pxCurrentTCB] >= kernel.uxBasePriority[u]
      <4>1. /\ kernel'.uxPriority[kernel'.pxCurrentTCB] \in Nat
            /\ kernel.uxBasePriority[w] \in Nat /\ kernel.uxBasePriority[u] \in Nat
        BY <1>16, <1>17, <2>1, <2>7
      <4> QED
        BY <2>8, <3>1, <4>1
    <3> QED
      BY <1>3, <1>9, <2>9, <3>1, <3>2 DEF FreeInv
  <2>11. NoLostGive'
    <3>1. ASSUME NEW l \in EventLists PROVE NoGiveLostOf(l)'
      <4>1. CASE l = o
        <5>1. NoGiveLostOf(o)'
          BY <1>3, <1>5, <1>7, <1>10, GiveAwakes
        <5> QED
          BY <4>1, <5>1
      <4>2. CASE l # o
        BY <1>8, <1>10, <4>2, OthersUntouched
      <4> QED
        BY <4>1, <4>2
    <3> QED
      BY <3>1, GivesKept
  <2>12. SwitchKept
    <3>1. CASE asks
      <4>1. CASE Highest(kernel', {})
        BY <4>1 DEF SwitchKept
      <4>2. CASE ~Highest(kernel', {})
        <5>1. kernel'.pxCurrentTCB = t
          BY <2>2, <4>2
        <5>2. kernel'.uxPriority[t] < kernel.uxPriority[t]
          <6>1. kernel.uxPriority[t] >= kernel.uxBasePriority[t]
            BY <1>1 DEF PrioritiesInv
          <6> QED
            BY <1>4, <1>16, <1>17, <3>1, <6>1 DEF b
        <5>3. o \in Holds(t) /\ xMutexHolder'[o] = NoTask
          BY <1>10, <1>14
        <5>4. LowersItself
          BY <1>22, <5>1, <5>2, <5>3 DEF LowersItself
        <5> QED
          BY <5>4 DEF SwitchKept
      <4> QED
        BY <4>1, <4>2
    <3>2. CASE ~asks
      <4>1. k.uxPriority = kernel.uxPriority
        BY <1>4, <1>5, <1>16, <3>2
      <4>2. Highest(kernel, {}) => Highest(k, {})
        BY <1>5, <4>1 DEF Highest
      <4>3. Highest(k, {}) => Highest(kernel', {})
        BY <1>7, <3>2 DEF Gives
      <4> QED
        BY <4>2, <4>3 DEF SwitchKept
    <3> QED
      BY <1>4, <3>1, <3>2
  <2> QED
    BY <1>9, <1>11, <1>12, <1>13, <1>15, <1>18, <1>19, <2>10, <2>11, <2>12 DEF MutexInv, Good
<1> QED
  BY <1>21, <1>22

\* rtosalMutexRelease and rtosalSemaphoreRelease.
LEMMA GiveKeeps ==
    ASSUME AtMostOneMutex, MutexInv, NEW t \in Users, NEW o \in Uses[t], Give(t, o)
    PROVE  MutexInv' /\ SwitchKept
<1>1. /\ t \in Tasks /\ t = kernel.pxCurrentTCB /\ call[t].at = "task" /\ kernel.halted = FALSE
  <2>1. t \in Tasks /\ t = kernel.pxCurrentTCB /\ call[t].at = "task" /\ ~kernel.halted
    BY DEF Users, Give, In, Running
  <2>2. kernel.halted \in BOOLEAN
    BY MutexFacts DEF KernelType
  <2> QED
    BY <2>1, <2>2
<1>2. o \in EventLists
  BY <1>1, MutexAssumption
<1>3. MutexTypeOK /\ HoldersInv
  BY DEF MutexInv
<1> DEFINE k == xTaskPriorityDisinherit(kernel, HolderOf(o))
<1>4. /\ uxMessagesWaiting[o] < uxLength(o)
      /\ UNCHANGED <<cTxLock, call>>
      /\ IF k.halted THEN kernel' = k /\ UNCHANGED <<uxMessagesWaiting, xMutexHolder>>
         ELSE /\ kernel' = AfterGive(k, o, DisinheritYields(kernel, HolderOf(o)))
              /\ uxMessagesWaiting' = [uxMessagesWaiting EXCEPT ![o] = @ + 1]
              /\ xMutexHolder' = [m \in Mutexes |-> IF m = o THEN NoTask ELSE xMutexHolder[m]]
  BY DEF Give, HolderOf
<1>5. CASE o \notin Mutexes
  <2>1. HolderOf(o) = NoTask /\ k = kernel /\ o \in Semaphores
    BY <1>2, <1>5 DEF HolderOf, xTaskPriorityDisinherit, Semaphores
  <2>2. DisinheritYields(kernel, HolderOf(o)) = FALSE
    BY <2>1 DEF DisinheritYields
  <2>3. /\ kernel' = AfterGive(kernel, o, FALSE)
        /\ uxMessagesWaiting' = [uxMessagesWaiting EXCEPT ![o] = @ + 1]
        /\ xMutexHolder' = [m \in Mutexes |-> IF m = o THEN NoTask ELSE xMutexHolder[m]]
    BY <1>1, <1>4, <2>1, <2>2
  <2>4. xMutexHolder' = xMutexHolder
    BY <1>3, <1>5, <2>3 DEF MutexTypeOK
  <2> QED
    BY <1>4, <2>1, <2>3, <2>4, SemaphoreGiven
<1>6. CASE o \in Mutexes
  <2> DEFINE h == xMutexHolder[o]
  <2>1. h \in Tasks /\ h # NoTask /\ HolderOf(o) = h /\ kernel.uxMutexesHeld[h] = 1
    <3>1. uxMessagesWaiting[o] \in Nat /\ uxMessagesWaiting[o] < 1
      BY <1>2, <1>3, <1>4, <1>6 DEF MutexTypeOK, uxLength
    <3>2. ~Available(o)
      BY <3>1 DEF Available
    <3>3. h \in Tasks
      BY <1>6, <3>2, HolderFacts
    <3> QED
      BY <1>6, <3>3, RaisedFacts, MutexFacts DEF HolderOf
  <2> HIDE DEF h
  <2>2. CASE h # t
    <3>1. k = Halt(kernel)
      BY <1>1, <2>1, <2>2 DEF xTaskPriorityDisinherit
    <3>2. k.halted = TRUE
      <4>1. kernel \in KernelType
        BY MutexFacts
      <4> QED
        BY <3>1, <4>1, HaltRests DEF RestsAs
    <3> HIDE DEF k
    <3>3. kernel' = Halt(kernel) /\ UNCHANGED <<objects, call>>
      BY <1>4, <3>1, <3>2 DEF objects
    <3> QED
      BY <1>1, <3>3, GiveAsserts
  <2>3. CASE h = t
    <3>1. k = xTaskPriorityDisinherit(kernel, t) /\ xMutexHolder[o] = t
      BY <2>1, <2>3 DEF h
    <3>2. k.halted = FALSE
      <4>1. /\ Good(kernel) /\ kernel.eventPriority = kernel.uxPriority /\ NoTask \notin Tasks
        BY MutexFacts DEF MutexInv, PrioritiesInv
      <4>2. Reprioritised(kernel, k, t, kernel.uxBasePriority[t])
        BY <1>1, <2>1, <2>3, <3>1, <4>1, DisinheritLowers
      <4> QED
        BY <1>1, <4>2 DEF Reprioritised
    <3> HIDE DEF k
    <3>3. /\ kernel' = AfterGive(k, o, DisinheritYields(kernel, t))
          /\ uxMessagesWaiting' = [uxMessagesWaiting EXCEPT ![o] = @ + 1]
          /\ xMutexHolder' = [m \in Mutexes |-> IF m = o THEN NoTask ELSE xMutexHolder[m]]
      BY <1>4, <2>1, <2>3, <3>2
    <3> QED
      BY <1>1, <1>4, <1>6, <3>1, <3>3, MutexGiven
  <2> QED
    BY <2>2, <2>3
<1> QED
  BY <1>5, <1>6
-------------------------------------------------------------------------------
(***************************************************************************)
(* The theorems.                                                           *)
(***************************************************************************)
\* Nobody is in a call, waits or holds a mutex after vTaskStartScheduler.
LEMMA MutexInitOK ==
    ASSUME Init
    PROVE  MutexInv
<1>1. Tasks \in SUBSET Tasks /\ IsFiniteSet(Tasks) /\ Idle \in Tasks
  BY SchedulerAssumption
<1>2. PICK order \in SetToSeqs(Tasks \ {Idle}) : InitWith(Tasks, Append(order, Idle))
  BY DEF Init, Users
<1>3. /\ uxMessagesWaiting = [o \in EventLists |-> IF o \in Mutexes THEN 1 ELSE iInitialCount[o]]
      /\ xMutexHolder = [m \in Mutexes |-> NoTask]
      /\ cTxLock = [o \in EventLists |-> queueUNLOCKED]
      /\ call = [t \in Tasks |-> NoCall]
  BY <1>2 DEF InitWith
<1>4. /\ KernelOK(kernel) /\ ReadyTasks(kernel) = Tasks /\ BlockedTasks(kernel) = {}
      /\ kernel.pendingReady = <<>> /\ \A l \in EventLists : kernel.event[l] = <<>>
      /\ kernel.uxSchedulerSuspended = 0
      /\ kernel.uxPriority = uxInitialPriority /\ kernel.uxBasePriority = uxInitialPriority
      /\ kernel.eventPriority = uxInitialPriority
      /\ kernel.uxMutexesHeld = [t \in Tasks |-> 0]
  <2>1. kernel = SchedulerInit(Tasks, Append(order, Idle))
    BY <1>2 DEF InitWith
  <2>2. StartsWith(kernel, Tasks)
    BY <1>1, <2>1, SchedulerInitOK
  <2> QED
    BY <2>2 DEF StartsWith
<1>5. /\ \A t \in Tasks : call[t] = NoCall /\ call[t].at = "task" /\ call[t].obj = NoTask
                          /\ call[t].inherited = FALSE
      /\ \A o \in EventLists : cTxLock[o] = queueUNLOCKED
      /\ \A m \in Mutexes : xMutexHolder[m] = NoTask
  BY <1>3 DEF NoCall
<1>6. Members(<<>>) = {}
  BY DEF Members
<1>7. /\ NoTask \notin Tasks /\ NoTask \notin EventLists /\ Mutexes \subseteq EventLists
      /\ uxInitialPriority \in [Tasks -> Nat]
  BY SchedulerAssumption, MutexAssumption DEF Priorities, configMAX_PRIORITIES
<1>8. MutexTypeOK
  <2>1. uxMessagesWaiting \in [EventLists -> Nat]
    <3>1. ASSUME NEW o \in EventLists
          PROVE  (IF o \in Mutexes THEN 1 ELSE iInitialCount[o]) \in Nat
      BY MutexAssumption DEF Semaphores
    <3> QED
      BY <1>3, <3>1
  <2>2. call \in [Tasks -> TakeCallType]
    BY <1>3, NoCallFacts
  <2>3. cTxLock \in [EventLists -> Int] /\ xMutexHolder \in [Mutexes -> Tasks \cup {NoTask}]
    BY <1>3 DEF queueUNLOCKED
  <2> QED
    BY <1>4, <2>1, <2>2, <2>3 DEF MutexTypeOK, KernelOK, TakeCallType
<1>9. WaitersAreBlocked(kernel)
  BY <1>4, <1>6 DEF WaitersAreBlocked
<1>10. CallsInv
  <2>1. \A t \in Tasks : call[t].at \notin LockedPlaces
    BY <1>5 DEF LockedPlaces
  <2> QED
    BY <1>1, <1>4, <1>5, <1>7, <2>1 DEF CallsInv, queueUNLOCKED
<1>11. WaitsInv
  <2>1. Ready(kernel, kernel.pxCurrentTCB)
    BY <1>4 DEF ReadyTasks, KernelOK, KernelType
  <2> QED
    BY <1>4, <1>6, <2>1 DEF WaitsInv
<1>12. \A t \in Tasks : Holds(t) = {}
  BY <1>5, <1>7 DEF Holds
<1>13. HoldersInv
  <2>1. \A t \in Tasks : kernel.uxMutexesHeld[t] = Cardinality(Holds(t))
    BY <1>4, <1>12, FS_EmptySet
  <2>2. \A m \in Mutexes : uxMessagesWaiting[m] = 1
    BY <1>3, <1>7
  <2> QED
    BY <1>5, <1>7, <2>1, <2>2 DEF HoldersInv
<1>14. PrioritiesInv
  <2>1. \A m \in Mutexes : DOMAIN kernel.event[m] = {}
    BY <1>4, <1>7
  <2>2. kernel.eventPriority = kernel.uxPriority
    BY <1>4
  <2>3. \A t \in Tasks : /\ kernel.uxPriority[t] >= kernel.uxBasePriority[t]
                         /\ kernel.uxPriority[t] = kernel.uxBasePriority[t]
    BY <1>4, <1>7
  <2> QED
    BY <2>1, <2>2, <2>3 DEF PrioritiesInv
<1>15. LentInv
  BY <1>5, <1>7 DEF LentInv
<1>16. FreeInv
  BY <1>4, <1>6, <1>7 DEF FreeInv
<1>17. NoLostGive
  BY <1>4 DEF NoLostGive
<1> QED
  BY <1>4, <1>8, <1>9, <1>10, <1>11, <1>13, <1>14, <1>15, <1>16, <1>17 DEF MutexInv

\* Every step of the tasks, the interrupts and the tick keeps the invariant, and the switch
\* it makes necessary follows.
LEMMA MutexNextOK ==
    ASSUME AtMostOneMutex, MutexInv, Next
    PROVE  MutexInv' /\ SwitchKept
<1>1. ASSUME NEW t \in Users, TakeStep(t)
      PROVE  MutexInv' /\ SwitchKept
  <2>1. CASE Take(t)
    BY <2>1, TakeKeeps
  <2>2. CASE Retry(t)
    BY <2>2, RetryKeeps
  <2>3. CASE LockQueue(t)
    BY <2>3, LockQueueKeeps
  <2>4. CASE Wait(t)
    BY <2>4, WaitKeeps
  <2>5. CASE Unlock(t)
    BY <2>5, UnlockKeeps
  <2>6. CASE Recheck(t)
    BY <2>6, RecheckKeeps
  <2>7. CASE Disinherit(t)
    BY <2>7, DisinheritKeeps
  <2> QED
    BY <1>1, <2>1, <2>2, <2>3, <2>4, <2>5, <2>6, <2>7 DEF TakeStep
<1>2. ASSUME NEW t \in Users, NEW o \in Uses[t], Give(t, o)
      PROVE  MutexInv' /\ SwitchKept
  BY <1>2, GiveKeeps
<1>3. ASSUME NEW o \in Semaphores, GiveFromISR(o)
      PROVE  MutexInv' /\ SwitchKept
  BY <1>3, GiveFromISRKeeps
<1>4. ASSUME NEW o \in Semaphores, TakeFromISR(o)
      PROVE  MutexInv' /\ SwitchKept
  BY <1>4, TakeFromISRKeeps
<1>5. CASE Tick
  BY <1>5, TickKeeps
<1> QED
  BY <1>1, <1>2, <1>3, <1>4, <1>5 DEF Next

\* A stuttering step keeps the invariant.
LEMMA MutexStutters ==
    ASSUME MutexInv, UNCHANGED vars
    PROVE  MutexInv'
<1>1. UNCHANGED <<kernel, uxMessagesWaiting, xMutexHolder, cTxLock, call>>
  BY DEF vars, objects
<1>2. MutexTypeOK' /\ CallsInv'
  BY <1>1 DEF MutexInv, MutexTypeOK, CallsInv
<1>3. KernelOK(kernel') /\ WaitersAreBlocked(kernel') /\ WaitsInv'
  BY <1>1 DEF MutexInv, WaitsInv
<1>4. \A t \in Tasks : Holds(t)' = Holds(t)
  BY <1>1 DEF Holds
<1>5. HoldersInv' /\ PrioritiesInv'
  BY <1>1, <1>4 DEF MutexInv, HoldersInv, PrioritiesInv
<1>6. \A o \in EventLists : OnTheWay(o)' = OnTheWay(o)
  BY <1>1 DEF OnTheWay
<1>7. LentInv' /\ FreeInv' /\ NoLostGive'
  BY <1>1, <1>6, MutexFacts DEF MutexInv, LentInv, FreeInv, NoLostGive
<1> QED
  BY <1>2, <1>3, <1>5, <1>7 DEF MutexInv

\* RtosalMutex!MutexInv: the lists, the calls, the holders of the mutexes, the priorities
\* that are lent and the gives that are still to be handed on agree.
THEOREM MutexInvariant ==
    ASSUME AtMostOneMutex
    PROVE  Spec => []MutexInv
<1>1. Init => MutexInv
  BY MutexInitOK
<1>2. MutexInv /\ [Next]_vars => MutexInv'
  BY MutexNextOK, MutexStutters
<1> QED
  BY <1>1, <1>2, PTL DEF Spec

\* RtosalMutex!ReadyListsExact: whatever priorities are inherited and given back, a ready
\* task is once in the list of the priority it has, and the bit map of tasks.c says which
\* lists have one.
THEOREM ReadyListsAreExact ==
    ASSUME AtMostOneMutex
    PROVE  Spec => []ReadyListsExact
<1>1. MutexInv => ReadyListsExact
  <2>1. MutexInv => StateItemsOK(kernel)
    BY DEF MutexInv, KernelOK
  <2> QED
    BY <2>1 DEF ReadyListsExact, StateItemsOK, RingOK, IsInjective, Distinct
<1> QED
  BY <1>1, MutexInvariant, PTL

\* RtosalMutex!NoPriorityInversion: the holder of the mutex never runs below a task that
\* waits for it, in whatever order the others come, time out and are served.
THEOREM NoInversion ==
    ASSUME AtMostOneMutex
    PROVE  Spec => []NoPriorityInversion
<1>1. MutexInv => NoPriorityInversion
  <2>1. MutexInv => \A m \in Mutexes : xMutexHolder[m] \in Tasks \cup {NoTask}
    BY DEF MutexInv, MutexTypeOK
  <2> QED
    BY <2>1 DEF MutexInv, LentInv, NoPriorityInversion
<1> QED
  BY <1>1, MutexInvariant, PTL

\* RtosalMutex!RaisedOnlyForWaiters: a task counts the mutexes it holds, and its priority is
\* its own again at the latest when the last call that lent it another has ended.
THEOREM RaisedForWaiters ==
    ASSUME AtMostOneMutex
    PROVE  Spec => []RaisedOnlyForWaiters
<1>1. MutexInv => RaisedOnlyForWaiters
  <2>1. ASSUME MutexInv, NEW h \in Tasks, kernel.uxPriority[h] # kernel.uxBasePriority[h]
        PROVE  \E t \in Tasks : /\ call[t].obj \in Holds(h)
                                /\ kernel.uxPriority[h] = kernel.uxBasePriority[t]
    <3>1. PICK m \in Mutexes : m \in Holds(h) /\ xMutexHolder[m] = h
      BY <2>1 DEF MutexInv, PrioritiesInv, Holds
    <3>2. PICK t \in Tasks : call[t].obj = m /\ kernel.uxPriority[h] = kernel.uxBasePriority[t]
      BY <2>1, <3>1 DEF MutexInv, LentInv
    <3> QED
      BY <3>1, <3>2
  <2>2. ASSUME MutexInv, NEW h \in Tasks
        PROVE  kernel.uxMutexesHeld[h] = Cardinality(Holds(h))
    BY <2>2 DEF MutexInv, HoldersInv
  <2> QED
    BY <2>1, <2>2 DEF RaisedOnlyForWaiters
<1> QED
  BY <1>1, MutexInvariant, PTL

\* RtosalMutex!NoLostGive: while a task waits for a semaphore or a mutex, what is free of it
\* has been promised to a task on its way, or is an interrupt's that is still to be handed on.
THEOREM NoGiveIsLost ==
    ASSUME AtMostOneMutex
    PROVE  Spec => []NoLostGive
<1>1. MutexInv => NoLostGive
  BY DEF MutexInv
<1> QED
  BY <1>1, MutexInvariant, PTL

\* The task that runs is the highest that is ready, in the terms of the proofs.
LEMMA RunsHighest ==
    ASSUME MutexInv
    PROVE  RunsHighestReady <=> kernel.halted \/ Highest(kernel, {})
<1>1. kernel.pxCurrentTCB \in Tasks /\ (kernel.halted \in BOOLEAN)
  BY MutexFacts DEF KernelType
<1>2. kernel.uxSchedulerSuspended = 0 => Ready(kernel, kernel.pxCurrentTCB)
  <2>1. call[kernel.pxCurrentTCB].at = "unlockBlocked" => kernel.uxSchedulerSuspended = 1
    BY <1>1 DEF MutexInv, CallsInv, LockedPlaces
  <2> QED
    BY <2>1 DEF MutexInv, WaitsInv
<1>3. Highest(kernel, {}) <=> \A t \in Tasks : Ready(kernel, t) =>
          kernel.uxPriority[t] <= kernel.uxPriority[kernel.pxCurrentTCB]
  BY DEF Highest, ReadyTasks
<1> QED
  BY <1>1, <1>2, <1>3 DEF RunsHighestReady

\* After a configASSERT that fails nothing happens any more.
LEMMA HaltedStops ==
    ASSUME Next
    PROVE  ~kernel.halted
BY DEF Next, TakeStep, Take, Retry, LockQueue, Wait, Unlock, Recheck, Disinherit, Give,
       GiveFromISR, TakeFromISR, Tick, In, Running

\* RtosalMutex!SwitchesWhenNeeded: whatever wakes, raises or lowers a task, the switch it
\* needs is made by the same step, or by the end of the suspension during which it happened,
\* but for the holder that gives the mutex to a waiter no higher than its own priority.
THEOREM SwitchFollows ==
    ASSUME AtMostOneMutex
    PROVE  Spec => SwitchesWhenNeeded
<1>1. MutexInv => (RunsHighestReady <=> kernel.halted \/ Highest(kernel, {}))
  BY RunsHighest
<1>2. MutexInv' => (RunsHighestReady <=> kernel.halted \/ Highest(kernel, {}))'
  BY <1>1, PTL
<1>3. MutexInv /\ MutexInv' /\ [Next]_vars => [RunsHighestReady => RunsHighestReady' \/ LowersItself]_vars
  <2>1. ASSUME MutexInv, MutexInv', Next, RunsHighestReady
        PROVE  RunsHighestReady' \/ LowersItself
    <3>1. Highest(kernel, {})
      BY <1>1, <2>1, HaltedStops
    <3>2. Highest(kernel', {}) \/ kernel'.halted \/ LowersItself
      BY <2>1, <3>1, MutexNextOK DEF SwitchKept
    <3> QED
      BY <1>2, <2>1, <3>2
  <2> QED
    BY <2>1
<1> QED
  BY <1>3, MutexInvariant, PTL DEF Spec, SwitchesWhenNeeded
-------------------------------------------------------------------------------
(***************************************************************************)
(* RtosalTask: the functions of the kernel that only its services call.    *)
(***************************************************************************)

\* Both items of a task are taken out of their lists.
LEMMA RemoveItemsOK ==
    ASSUME NEW k, Good(k), NEW t \in Tasks
    PROVE  LET j == RemoveItems(k, t)
           IN  /\ Good(j) /\ Quiet(k, j) /\ EventSets(k, j, {t})
               /\ StateSets(j, ReadyTasks(k) \ {t}, Members(k.delayed) \ {t}, k.suspended \ {t})
<1> DEFINE h == RemoveStateItem(k, t)
           i == RemoveEventItem(h, t)
           j == RemoveItems(k, t)
           event == [l \in EventLists |-> Without(h.event[l], t)]
           pending == Without(h.pendingReady, t)
<1>1. KernelOK(k) /\ k \in KernelType /\ WaitersAreBlocked(k) /\ StateItemsOK(k) /\ EventItemsOK(k)
  BY DEF Good, KernelOK
<1>2. /\ h \in KernelType /\ Quiet(k, h) /\ SameEvents(k, h) /\ h.uxPriority = k.uxPriority
      /\ h.ready = [q \in Priorities |-> Without(k.ready[q], t)]
      /\ h.delayed = Without(k.delayed, t)
      /\ h.suspended = k.suspended \ {t}
      /\ h.uxTopReadyPriority = k.uxTopReadyPriority
  BY <1>1, RemoveStateItemFields DEF Quiet, Steady
<1> HIDE DEF h
<1>3. i = [h EXCEPT !.event = event, !.pendingReady = pending]
  BY <1>2 DEF RemoveEventItem, KernelType
<1>4. ASSUME NEW l \in EventLists
      PROVE  /\ event[l] \in Seq(Tasks) /\ Distinct(event[l])
             /\ Members(event[l]) = Members(k.event[l]) \ {t}
  <2>1. k.event[l] \in Seq(Tasks) /\ Distinct(k.event[l]) /\ h.event[l] = k.event[l]
    BY <1>1, <1>2 DEF KernelType, EventItemsOK, SameEvents
  <2> QED
    BY <2>1, DropProperties DEF Without
<1>5. pending \in Seq(Tasks) /\ Distinct(pending) /\ Members(pending) = Members(k.pendingReady) \ {t}
  <2>1. /\ k.pendingReady \in Seq(Tasks) /\ Distinct(k.pendingReady)
        /\ h.pendingReady = k.pendingReady
    BY <1>1, <1>2 DEF KernelType, EventItemsOK, SameEvents
  <2> QED
    BY <2>1, DropProperties DEF Without
<1>6. event \in [EventLists -> Seq(Tasks)] /\ \A l \in EventLists : event[l] = Drop(k.event[l], {t})
  BY <1>2, <1>4 DEF Without, SameEvents
<1> HIDE DEF event, pending
<1>7. /\ i \in KernelType /\ i.event = event /\ i.pendingReady = pending
      /\ Quiet(h, i) /\ SameStates(h, i)
  BY ZenonT(40), <1>2, <1>3, <1>5, <1>6 DEF KernelType, Quiet, Steady, SameStates
<1> HIDE DEF i
<1>8. /\ i.uxPriority = k.uxPriority
      /\ i.ready = [q \in Priorities |-> Without(k.ready[q], t)]
      /\ i.delayed = Without(k.delayed, t)
      /\ i.suspended = k.suspended \ {t}
      /\ i.uxTopReadyPriority = k.uxTopReadyPriority
  BY <1>2, <1>7 DEF Quiet, Steady, SameStates
<1>9. j = IF Ready(k, t) THEN taskRESET_READY_PRIORITY(i, k.uxPriority[t]) ELSE i
  BY DEF RemoveItems, i, h
<1> HIDE DEF j
<1>10. /\ j \in KernelType /\ StateItemsOK(j) /\ Quiet(i, j) /\ SameEvents(i, j)
       /\ StateSets(j, ReadyTasks(k) \ {t}, Members(k.delayed) \ {t}, k.suspended \ {t})
  <2>1. CASE Ready(k, t)
    BY <1>1, <1>7, <1>8, <1>9, <2>1, TakenOut
  <2>2. CASE ~Ready(k, t)
    <3>1. /\ StateItemsOK(i)
          /\ StateSets(i, ReadyTasks(k) \ {t}, Members(k.delayed) \ {t}, k.suspended \ {t})
      BY <1>1, <1>7, <1>8, <2>2, TakenOut
    <3> QED
      BY <1>7, <1>9, <2>2, <3>1 DEF Quiet, Steady, SameEvents
  <2> QED
    BY <2>1, <2>2
<1>11. EventSets(k, j, {t}) /\ EventItemsOK(j)
  <2>1. ASSUME NEW l \in EventLists, NEW f, SortedBy(k.event[l], f)
        PROVE  SortedBy(j.event[l], f)
    <3>1. k.event[l] \in Seq(Tasks) /\ j.event[l] = Drop(k.event[l], {t})
      BY <1>1, <1>6, <1>7, <1>10 DEF KernelType, SameEvents
    <3> QED
      BY <2>1, <3>1, DropSorted
  <2>2. KeepsOrder(k, j)
    BY <2>1 DEF KeepsOrder
  <2> QED
    BY ZenonT(40), <1>1, <1>4, <1>5, <1>7, <1>10, <2>2 DEF EventSets, EventItemsOK, SameEvents
<1>12. WaitersAreBlocked(j)
  BY <1>1, <1>10, <1>11 DEF WaitersAreBlocked, EventSets, StateSets, BlockedTasks
<1>13. Quiet(k, j)
  BY <1>2, <1>7, <1>10 DEF Quiet, Steady
<1> QED
  BY <1>10, <1>11, <1>12, <1>13 DEF Good, KernelOK, j

\* ... and the task is suspended.
LEMMA SuspendOK ==
    ASSUME NEW k, Good(k), NEW t \in Tasks
    PROVE  LET i == RemoveItems(k, t)
               j == [i EXCEPT !.suspended = i.suspended \cup {t}]
           IN  /\ Good(j) /\ Steady(k, j) /\ EventSets(k, j, {t})
               /\ StateSets(j, ReadyTasks(k) \ {t}, Members(k.delayed) \ {t}, k.suspended \cup {t})
<1> DEFINE i == RemoveItems(k, t)
           j == [i EXCEPT !.suspended = i.suspended \cup {t}]
<1>1. /\ Good(i) /\ Quiet(k, i) /\ EventSets(k, i, {t})
      /\ StateSets(i, ReadyTasks(k) \ {t}, Members(k.delayed) \ {t}, k.suspended \ {t})
  BY RemoveItemsOK
<1> HIDE DEF i
<1>2. i \in KernelType /\ StateItemsOK(i) /\ EventItemsOK(i) /\ WaitersAreBlocked(i)
  BY <1>1 DEF Good, KernelOK
<1>3. /\ j \in KernelType /\ Quiet(i, j) /\ SameEvents(i, j)
      /\ j.ready = i.ready /\ j.uxTopReadyPriority = i.uxTopReadyPriority
      /\ j.delayed = i.delayed /\ j.suspended = i.suspended \cup {t}
  BY <1>2 DEF KernelType, Quiet, Steady, SameEvents
<1> HIDE DEF j
<1>4. (\A p : ReadyAt(j, p) = ReadyAt(i, p)) /\ ReadyTasks(j) = ReadyTasks(i)
  BY <1>3 DEF ReadyAt, Ready, ReadyTasks, Quiet, Steady
<1>5. StateItemsOK(j)
  <2>1. \A p \in Priorities : RingOK(j, p)
    BY <1>2, <1>3, <1>4 DEF StateItemsOK, RingOK, Quiet, Steady
  <2>2. t \notin ReadyTasks(i) /\ t \notin Members(i.delayed)
    BY <1>1 DEF StateSets
  <2> QED
    BY <1>2, <1>3, <1>4, <2>1, <2>2 DEF StateItemsOK, BlockedTasks
<1>6. EventItemsOK(j) /\ WaitersAreBlocked(j)
  BY <1>2, <1>3 DEF EventItemsOK, WaitersAreBlocked, SameEvents, BlockedTasks
<1>7. Steady(k, j) /\ EventSets(k, j, {t})
  BY <1>1, <1>3 DEF Quiet, Steady, EventSets, SameEvents, KeepsOrder
<1>8. StateSets(j, ReadyTasks(k) \ {t}, Members(k.delayed) \ {t}, k.suspended \cup {t})
  BY <1>1, <1>3, <1>4 DEF StateSets
<1> QED
  BY <1>3, <1>5, <1>6, <1>7, <1>8 DEF Good, KernelOK, i, j
-------------------------------------------------------------------------------
(***************************************************************************)
(* A step of the running task, and one that is not part of its call.       *)
(***************************************************************************)

\* The invariant after a step of the running task, from what the step does to its call.
LEMMA StepOK ==
    ASSUME TaskInv, ObjectsOK', Good(kernel'), PlainInv',
           call' \in [Tasks -> CallType], life' \in [Tasks -> {"none", "alive", "terminating"}],
           Known(kernel') = {v \in Tasks : life'[v] = "alive"},
           Ready(kernel', Idle), call'[Idle] = NoCall,
           NEW t \in Tasks, t = kernel.pxCurrentTCB,
           CallOK(t, call'[t], life', cTxLock'),
           \A l \in EventLists : t \in Members(kernel'.event[l]) =>
               call'[t].obj = l /\ call'[t].at \in {"unlockBlocked", "try"},
           \A v \in Tasks \ {t} :
               \/ /\ call'[v] = call[v]
                  /\ call[v].at \in CreatePlaces => life'[call[v].obj] = "alive"
                  /\ \A l \in EventLists :
                         v \in Members(kernel'.event[l]) => v \in Members(kernel.event[l])
               \/ call'[v] = NoCall /\ \A l \in EventLists : v \notin Members(kernel'.event[l]),
           kernel'.uxSchedulerSuspended \in {0, 1},
           call'[t].at \in SuspendedPlaces <=>
               kernel'.pxCurrentTCB = t /\ kernel'.uxSchedulerSuspended = 1,
           kernel'.pxCurrentTCB # t => kernel'.uxSchedulerSuspended = 0,
           kernel'.pendingReady # <<>> => kernel'.uxSchedulerSuspended = 1,
           RunsOn(t, call'[t], kernel')
    PROVE  TaskInv'
<1>1. TaskTypeOK'
  BY DEF TaskTypeOK, ObjectsOK, Good, KernelOK, CallType
<1>2. KernelOK(kernel') /\ WaitersAreBlocked(kernel')
  BY DEF Good
<1>3. LifeInv'
  BY DEF LifeInv, Known
<1>4. SuspensionInv'
  <2>1. ASSUME NEW v \in Tasks \ {t} PROVE ~Suspends(v)'
    <3>1. ~Suspends(v)
      BY DEF TaskInv, SuspensionInv
    <3> QED
      BY <3>1 DEF Suspends, NoCall, LockedPlaces
  <2> QED
    BY <2>1 DEF SuspensionInv, Suspends, SuspendedPlaces
<1>5. RunningInv'
  <2> DEFINE w == kernel'.pxCurrentTCB
             c == call'[w]
  <2>1. (Ready(kernel', w) \/ c.at \in {"yield", "unlockBlocked"}) /\ Highest(kernel', Except(c))
    BY DEF RunsOn, Highest, ReadyTasks
  <2> HIDE DEF w
  <2>2. c.at # "yield" => \A u \in ReadyTasks(kernel') :
            \/ kernel'.uxPriority[u] <= kernel'.uxPriority[w]
            \/ c.at \in {"created", "dontStart"} /\ u = c.obj
    BY <2>1 DEF Highest, Except, w
  <2> QED
    BY <2>1, <2>2 DEF RunningInv, w
<1>6. ASSUME NEW v \in Tasks PROVE ObjectOf(v)'
  <2>1. CASE v = t
    BY <2>1 DEF ObjectOf, CallOK
  <2>2. CASE v # t /\ call'[v] = call[v]
    <3>1. ObjectOf(v) /\ call[v].at \notin LockedPlaces
      BY <2>2 DEF TaskInv, SuspensionInv, Suspends
    <3>2. call[v].at \in CreatePlaces => life'[call[v].obj] = "alive"
      BY <2>2 DEF NoCall, CreatePlaces
    <3> QED
      BY <2>2, <3>1, <3>2 DEF ObjectOf
  <2>3. CASE v # t /\ call'[v] = NoCall
    BY <2>3 DEF ObjectOf, NoCall, TakePlaces, LockedPlaces, CreatePlaces
  <2> QED
    BY <2>1, <2>2, <2>3
<1>7. ASSUME NEW v \in Tasks PROVE WaiterOf(v)'
  <2>1. WaiterOf(v)
    BY DEF TaskInv
  <2> QED
    BY <2>1 DEF WaiterOf
<1> QED
  BY <1>1, <1>2, <1>3, <1>4, <1>5, <1>6, <1>7 DEF TaskInv

\* What TaskInv says of the call of the running task.
LEMMA RunningFacts ==
    ASSUME TaskInv
    PROVE  LET t == kernel.pxCurrentTCB
               c == call[t]
           IN  /\ t \in Tasks /\ c \in CallType /\ RunsOn(t, c, kernel)
               /\ CallOK(t, c, life, cTxLock) /\ ReadyTasks(kernel) # {}
               /\ Idle \in ReadyTasks(kernel) /\ Good(kernel) /\ kernel \in KernelType /\ ObjectsOK
               /\ Known(kernel) = {v \in Tasks : life[v] = "alive"}
               /\ c.at \in SuspendedPlaces <=> kernel.uxSchedulerSuspended = 1
               /\ kernel.uxSchedulerSuspended \in {0, 1}
               /\ ~kernel.halted /\ kernel.uxBasePriority = kernel.uxPriority
               /\ kernel.pendingReady # <<>> => kernel.uxSchedulerSuspended = 1
               /\ call \in [Tasks -> CallType]
<1> DEFINE t == kernel.pxCurrentTCB
           c == call[t]
<1>1. /\ kernel \in KernelType /\ call \in [Tasks -> CallType] /\ ObjectsOK
      /\ kernel.uxSchedulerSuspended \in {0, 1}
      /\ kernel.pendingReady # <<>> => kernel.uxSchedulerSuspended = 1
      /\ ~kernel.halted /\ kernel.uxBasePriority = kernel.uxPriority
  BY DEF TaskInv, TaskTypeOK, ObjectsOK, CallType, SuspensionInv, PlainInv
<1>2. t \in Tasks
  BY <1>1 DEF KernelType
<1>3. Idle \in ReadyTasks(kernel)
  BY SchedulerAssumption DEF TaskInv, LifeInv, ReadyTasks
<1>4. CallOK(t, c, life, cTxLock)
  BY <1>2 DEF TaskInv, ObjectOf, CallOK
<1>5. c.at \in SuspendedPlaces <=> kernel.uxSchedulerSuspended = 1
  BY <1>2 DEF TaskInv, SuspensionInv, Suspends, SuspendedPlaces
<1>6. RunsOn(t, c, kernel)
  <2>1. RunningInv
    BY DEF TaskInv
  <2>2. Highest(kernel, Except(c))
    BY <2>1 DEF RunningInv, Highest, Except, ReadyTasks
  <2> QED
    BY <1>2, <2>1, <2>2 DEF RunningInv, RunsOn, ReadyTasks
<1>7. Good(kernel) /\ Known(kernel) = {v \in Tasks : life[v] = "alive"}
  BY DEF TaskInv, Good, LifeInv, Known
<1> QED
  BY <1>1, <1>2, <1>3, <1>4, <1>5, <1>6, <1>7

\* The running task goes on to c, or starts or ends its call.
LEMMA CallStep ==
    ASSUME TaskInv, NEW t \in Users, t = kernel.pxCurrentTCB,
           NEW c \in CallType, call' = [call EXCEPT ![t] = c], life' = life, ObjectsOK',
           CallOK(t, c, life, cTxLock'),
           Good(kernel'), kernel'.uxBasePriority = kernel'.uxPriority, ~kernel'.halted,
           Known(kernel') = Known(kernel), Idle \in ReadyTasks(kernel'),
           \A l \in EventLists : Members(kernel'.event[l]) \ {t} \subseteq Members(kernel.event[l]),
           \A l \in EventLists : t \in Members(kernel'.event[l]) =>
               c.obj = l /\ c.at \in {"unlockBlocked", "try"},
           kernel'.uxSchedulerSuspended \in {0, 1},
           c.at \in SuspendedPlaces <=>
               kernel'.pxCurrentTCB = t /\ kernel'.uxSchedulerSuspended = 1,
           kernel'.pxCurrentTCB # t => kernel'.uxSchedulerSuspended = 0,
           kernel'.pendingReady # <<>> => kernel'.uxSchedulerSuspended = 1,
           RunsOn(t, c, kernel')
    PROVE  TaskInv'
<1>1. call \in [Tasks -> CallType] /\ life \in [Tasks -> {"none", "alive", "terminating"}]
  BY DEF TaskInv, TaskTypeOK, CallType
<1>2. call' \in [Tasks -> CallType] /\ call'[t] = c /\ \A v \in Tasks \ {t} : call'[v] = call[v]
  BY <1>1 DEF Users
<1>3. call'[Idle] = NoCall /\ t \in Tasks
  BY <1>2, SchedulerAssumption DEF TaskInv, LifeInv, Users
<1>4. \A v \in Tasks \ {t} : call[v].at \in CreatePlaces => life'[call[v].obj] = "alive"
  BY DEF TaskInv, ObjectOf
<1>5. Known(kernel') = {v \in Tasks : life'[v] = "alive"} /\ Ready(kernel', Idle)
  BY RunningFacts DEF ReadyTasks
<1>6. PlainInv'
  BY DEF PlainInv
<1>7. life' \in [Tasks -> {"none", "alive", "terminating"}]
  BY <1>1
<1>8. \A v \in Tasks \ {t} : /\ call'[v] = call[v]
                             /\ call[v].at \in CreatePlaces => life'[call[v].obj] = "alive"
                             /\ \A l \in EventLists :
                                  v \in Members(kernel'.event[l]) => v \in Members(kernel.event[l])
  BY <1>2, <1>4
<1>9. CallOK(t, call'[t], life', cTxLock')
  BY <1>2
<1>10. RunsOn(t, call'[t], kernel')
  BY <1>2
<1> QED
  BY <1>2, <1>3, <1>5, <1>6, <1>7, <1>8, <1>9, <1>10, StepOK

\* An interrupt, or a call that ends where it began.
LEMMA OtherStep ==
    ASSUME TaskInv, call' = call, life' = life, ObjectsOK',
           \A l \in EventLists : cTxLock[l] >= 0 => cTxLock'[l] >= 0,
           Undisturbing(kernel, kernel', Except(call[kernel.pxCurrentTCB]))
    PROVE  TaskInv'
<1> DEFINE t == kernel.pxCurrentTCB
           c == call[t]
<1>1. /\ t \in Tasks /\ c \in CallType /\ RunsOn(t, c, kernel) /\ CallOK(t, c, life, cTxLock)
      /\ Idle \in ReadyTasks(kernel)
      /\ Known(kernel) = {v \in Tasks : life[v] = "alive"}
      /\ c.at \in SuspendedPlaces <=> kernel.uxSchedulerSuspended = 1
      /\ kernel.uxSchedulerSuspended \in {0, 1}
      /\ ~kernel.halted /\ kernel.uxBasePriority = kernel.uxPriority
      /\ kernel.pendingReady # <<>> => kernel.uxSchedulerSuspended = 1
  BY RunningFacts
<1> HIDE DEF t
<1>2. /\ Good(kernel') /\ Runs(kernel, kernel', Except(c))
      /\ kernel'.uxPriority = kernel.uxPriority /\ kernel'.uxBasePriority = kernel.uxBasePriority
      /\ kernel'.halted = kernel.halted
      /\ kernel'.uxSchedulerSuspended = kernel.uxSchedulerSuspended
      /\ ReadyTasks(kernel) \subseteq ReadyTasks(kernel') /\ Known(kernel') = Known(kernel)
      /\ \A l \in EventLists : Members(kernel'.event[l]) \subseteq Members(kernel.event[l])
      /\ kernel.uxSchedulerSuspended = 0 =>
             Members(kernel'.pendingReady) \subseteq Members(kernel.pendingReady)
      /\ kernel.uxSchedulerSuspended # 0 => kernel'.pxCurrentTCB = t
  BY DEF Undisturbing, Wakes, t
<1>3. call \in [Tasks -> CallType] /\ life \in [Tasks -> {"none", "alive", "terminating"}]
  BY DEF TaskInv, TaskTypeOK, CallType
<1>4. Ready(kernel', Idle) /\ call'[Idle] = NoCall
  BY <1>1, <1>2 DEF TaskInv, LifeInv, ReadyTasks
<1>5. PlainInv'
  BY <1>1, <1>2 DEF PlainInv
<1>6. CallOK(t, call'[t], life', cTxLock')
  BY <1>1 DEF CallOK, LockedPlaces, TakePlaces
<1>7. \A v \in Tasks : call[v].at \in CreatePlaces => life[call[v].obj] = "alive"
  BY DEF TaskInv, ObjectOf
<1>8. \A v \in Tasks : \A l \in EventLists : v \in Members(kernel'.event[l]) =>
          v \in Members(kernel.event[l])
  BY <1>2
<1>9. \A l \in EventLists : t \in Members(kernel'.event[l]) =>
          call'[t].obj = l /\ call'[t].at \in {"unlockBlocked", "try"}
  BY <1>1, <1>8 DEF TaskInv, WaiterOf
<1>10. kernel'.pendingReady # <<>> => kernel'.uxSchedulerSuspended = 1
  <2> SUFFICES ASSUME kernel.uxSchedulerSuspended = 0 PROVE kernel'.pendingReady = <<>>
    BY <1>1, <1>2
  <2>1. Members(kernel'.pendingReady) \subseteq Members(kernel.pendingReady)
    BY <1>2
  <2>2. kernel.pendingReady = <<>>
    BY <1>1
  <2>3. kernel'.pendingReady \in Seq(Tasks)
    BY <1>2 DEF Good, KernelOK, KernelType
  <2>4. <<>> \in Seq(Tasks) /\ Members(<<>>) = {}
    BY DEF Members
  <2>5. Members(kernel'.pendingReady) = {}
    BY <2>1, <2>2, <2>4
  <2> QED
    BY <2>3, <2>5, MembersProperties
<1>11. RunsOn(t, call'[t], kernel')
  <2>1. CASE kernel'.pxCurrentTCB \in ReadyTasks(kernel') /\ Highest(kernel', {})
    BY <2>1 DEF RunsOn
  <2>2. CASE kernel'.pxCurrentTCB = t /\ (Highest(kernel, Except(c)) => Highest(kernel', Except(c)))
    <3>1. Highest(kernel, {}) => Highest(kernel, Except(c))
      BY DEF Highest
    <3>2. Highest(kernel, Except(c)) /\ (t \in ReadyTasks(kernel) \/ c.at \in {"yield", "unlockBlocked"})
      BY <1>1, <3>1 DEF RunsOn, t
    <3> QED
      BY <1>2, <2>2, <3>2 DEF RunsOn
  <2> QED
    BY <1>2, <2>1, <2>2 DEF Runs, t
<1>12. /\ call'[t].at \in SuspendedPlaces <=>
              kernel'.pxCurrentTCB = t /\ kernel'.uxSchedulerSuspended = 1
       /\ kernel'.pxCurrentTCB # t => kernel'.uxSchedulerSuspended = 0
       /\ kernel'.uxSchedulerSuspended \in {0, 1}
  BY <1>1, <1>2
<1>13. Known(kernel') = {v \in Tasks : life'[v] = "alive"}
  BY <1>1, <1>2
<1>14. t = kernel.pxCurrentTCB
  BY DEF t
<1> QED
  BY <1>1, <1>2, <1>3, <1>4, <1>5, <1>6, <1>7, <1>8, <1>9, <1>10, <1>11, <1>12, <1>13, <1>14, StepOK
-------------------------------------------------------------------------------
\* Only fields of the scheduler that are not about lists or priorities change.
LEMMA SameLists ==
    ASSUME NEW k, Good(k), NEW j \in KernelType, SameStates(k, j), SameEvents(k, j),
           j.uxPriority = k.uxPriority, j.pxCurrentTCB = k.pxCurrentTCB
    PROVE  /\ Good(j) /\ ReadyTasks(j) = ReadyTasks(k) /\ Known(j) = Known(k)
           /\ KeepsSuspended(k, j) /\ \A X : Highest(k, X) => Highest(j, X)
<1>1. KernelOK(j) /\ ReadyTasks(j) = ReadyTasks(k) /\ BlockedTasks(j) = BlockedTasks(k)
  BY OtherFields DEF Good
<1>2. Good(j) /\ Known(j) = Known(k)
  BY <1>1 DEF Good, WaitersAreBlocked, SameEvents, Known
<1>3. KeepsSuspended(k, j)
  BY DEF KeepsSuspended, SameStates
<1> QED
  BY <1>1, <1>2, <1>3 DEF Highest

\* The ticks that a task has left are part of no list.
LEMMA LeftOK ==
    ASSUME NEW k \in KernelType, NEW t \in Tasks, NEW n \in Int
    PROVE  LET j == [k EXCEPT !.left[t] = n]
           IN  j \in KernelType /\ Steady(k, j) /\ SameStates(k, j) /\ SameEvents(k, j)
BY DEF KernelType, Steady, SameStates, SameEvents

\* A ready task waits for nothing.
LEMMA ReadyWaitsNot ==
    ASSUME NEW k, Good(k), NEW t \in ReadyTasks(k)
    PROVE  /\ \A l \in EventLists : t \notin Members(k.event[l])
           /\ t \notin Members(k.pendingReady) /\ t \notin k.suspended /\ t \notin Members(k.delayed)
BY DEF Good, WaitersAreBlocked, KernelOK, StateItemsOK, BlockedTasks

\* The running task is ready and no ready task is higher, but in a few places.
LEMMA RunningIsReady ==
    ASSUME TaskInv, NEW t, t = kernel.pxCurrentTCB,
           call[t].at \notin {"yield", "unlockBlocked", "created", "dontStart"}
    PROVE  /\ t \in ReadyTasks(kernel) /\ Highest(kernel, {})
           /\ \A l \in EventLists : t \notin Members(kernel.event[l])
           /\ t \notin kernel.suspended
<1>1. RunsOn(t, call[t], kernel) /\ Good(kernel)
  BY RunningFacts
<1>2. t \in ReadyTasks(kernel) /\ Highest(kernel, {})
  BY <1>1 DEF RunsOn, Except
<1> QED
  BY <1>1, <1>2, ReadyWaitsNot

\* The running task goes on to c and touches no list.
LEMMA PlainStep ==
    ASSUME TaskInv, NEW t \in Users, t = kernel.pxCurrentTCB,
           call[t].at \notin {"yield", "unlockBlocked", "created", "dontStart"},
           NEW c \in CallType, call' = [call EXCEPT ![t] = c], life' = life, ObjectsOK',
           CallOK(t, c, life, cTxLock'),
           kernel' \in KernelType, SameStates(kernel, kernel'), SameEvents(kernel, kernel'),
           kernel'.uxPriority = kernel.uxPriority, kernel'.uxBasePriority = kernel.uxBasePriority,
           kernel'.halted = kernel.halted, kernel'.pxCurrentTCB = t,
           kernel'.uxSchedulerSuspended \in {0, 1},
           c.at \in SuspendedPlaces <=> kernel'.uxSchedulerSuspended = 1,
           kernel.uxSchedulerSuspended = 1 => kernel'.uxSchedulerSuspended = 1
    PROVE  TaskInv' /\ KeepsSuspended(kernel, kernel')
<1>1. /\ Good(kernel) /\ Idle \in ReadyTasks(kernel) /\ ~kernel.halted
      /\ kernel.uxBasePriority = kernel.uxPriority /\ kernel.uxSchedulerSuspended \in {0, 1}
      /\ kernel.pendingReady # <<>> => kernel.uxSchedulerSuspended = 1
  BY RunningFacts
<1>2. /\ t \in ReadyTasks(kernel) /\ Highest(kernel, {})
      /\ \A l \in EventLists : t \notin Members(kernel.event[l])
  BY RunningIsReady
<1>3. /\ Good(kernel') /\ ReadyTasks(kernel') = ReadyTasks(kernel)
      /\ Known(kernel') = Known(kernel) /\ KeepsSuspended(kernel, kernel')
      /\ \A X : Highest(kernel, X) => Highest(kernel', X)
  BY <1>1, SameLists
<1>4. RunsOn(t, c, kernel')
  BY <1>2, <1>3 DEF RunsOn
<1>5. kernel'.pendingReady # <<>> => kernel'.uxSchedulerSuspended = 1
  BY <1>1 DEF SameEvents
<1>6. \A l \in EventLists : /\ Members(kernel'.event[l]) \ {t} \subseteq Members(kernel.event[l])
                            /\ t \notin Members(kernel'.event[l])
  BY <1>2 DEF SameEvents
<1>7. TaskInv'
  BY <1>1, <1>3, <1>4, <1>5, <1>6, CallStep
<1> QED
  BY <1>3, <1>7
-------------------------------------------------------------------------------
(***************************************************************************)
(* The services of RtosalMutex, when there are no mutexes.                 *)
(***************************************************************************)
LEMMA NoCallType ==
    /\ NoCall \in CallType /\ NoCall.at = "task"
    /\ \A t, lives, locks : CallOK(t, NoCall, lives, locks)
BY DEF NoCall, CallType, TaskPlaces, CallOK, TakePlaces, LockedPlaces, CreatePlaces

\* The return of a service keeps the invariant.
LEMMA ReturnOK ==
    ASSUME TaskInv, NEW t \in Users, t = kernel.pxCurrentTCB,
           call[t].at \in {"task", "try", "recheck"},
           life' = life, ObjectsOK', Return(t, kernel)
    PROVE  TaskInv' /\ KeepsSuspended(kernel, kernel')
<1>1. /\ kernel \in KernelType /\ t \in Tasks
      /\ call[t].at \in SuspendedPlaces <=> kernel.uxSchedulerSuspended = 1
      /\ kernel.uxSchedulerSuspended \in {0, 1}
  BY RunningFacts DEF Users
<1>2. kernel.uxSchedulerSuspended = 0
  BY <1>1 DEF SuspendedPlaces, LockedPlaces
<1>3. kernel' = [kernel EXCEPT !.left[t] = 0] /\ call' = [call EXCEPT ![t] = NoCall]
  BY DEF Return
<1>4. /\ kernel' \in KernelType /\ Steady(kernel, kernel')
      /\ SameStates(kernel, kernel') /\ SameEvents(kernel, kernel')
  BY <1>1, <1>3, LeftOK
<1>5. NoCall.at \notin SuspendedPlaces /\ NoCall \in CallType /\ CallOK(t, NoCall, life, cTxLock')
  BY NoCallType DEF SuspendedPlaces, LockedPlaces
<1>6. /\ kernel'.uxPriority = kernel.uxPriority /\ kernel'.uxBasePriority = kernel.uxBasePriority
      /\ kernel'.halted = kernel.halted /\ kernel'.pxCurrentTCB = t
      /\ kernel'.uxSchedulerSuspended = 0 /\ kernel'.uxSchedulerSuspended \in {0, 1}
      /\ kernel.uxSchedulerSuspended = 1 => kernel'.uxSchedulerSuspended = 1
      /\ ~(kernel'.uxSchedulerSuspended = 1)
  BY <1>2, <1>4 DEF Steady
<1>7. call[t].at \notin {"yield", "unlockBlocked", "created", "dontStart"}
  OBVIOUS
<1> QED
  BY <1>2, <1>3, <1>4, <1>5, <1>6, <1>7, PlainStep

\* The take of an object that is free keeps the invariant.
LEMMA TryTakeOK ==
    ASSUME TaskInv, Mutexes = {}, NEW t \in Users, t = kernel.pxCurrentTCB,
           call[t].at \in {"task", "try"}, NEW c \in CallType, c.obj \in EventLists,
           NEW ticks \in Int, life' = life, TryTake(t, c, ticks)
    PROVE  TaskInv' /\ KeepsSuspended(kernel, kernel')
<1>1. /\ kernel \in KernelType /\ t \in Tasks /\ ObjectsOK
      /\ call[t].at \in SuspendedPlaces <=> kernel.uxSchedulerSuspended = 1
      /\ kernel.uxSchedulerSuspended \in {0, 1}
  BY RunningFacts DEF Users
<1>2. kernel.uxSchedulerSuspended = 0
  BY <1>1 DEF SuspendedPlaces, LockedPlaces
<1>3. c.inherited = FALSE
  BY DEF CallType
<1>4. CASE /\ Available(c.obj)
           /\ uxMessagesWaiting' = [uxMessagesWaiting EXCEPT ![c.obj] = @ - 1]
           /\ xMutexHolder' = [m \in Mutexes |-> IF m = c.obj THEN t ELSE xMutexHolder[m]]
           /\ Return(t, IF c.obj \in Mutexes THEN HoldOneMore(kernel, t) ELSE kernel)
           /\ UNCHANGED cTxLock
  <2>1. uxMessagesWaiting' \in [EventLists -> Nat]
    BY <1>1, <1>4 DEF Available, ObjectsOK
  <2>2. ObjectsOK'
    BY <1>1, <1>4, <2>1 DEF ObjectsOK
  <2>3. Return(t, kernel)
    BY <1>4
  <2> QED
    BY <2>2, <2>3, ReturnOK
<1>5. CASE Return(t, kernel) /\ UNCHANGED objects
  <2>1. ObjectsOK'
    BY <1>1, <1>5 DEF ObjectsOK, objects
  <2> QED
    BY <1>5, <2>1, ReturnOK
<1>6. CASE /\ kernel' = [kernel EXCEPT !.left[t] = ticks]
           /\ call' = [call EXCEPT ![t] = [c EXCEPT !.at = "suspend"]]
           /\ UNCHANGED objects
  <2> DEFINE d == [c EXCEPT !.at = "suspend"]
  <2>1. ObjectsOK'
    BY <1>1, <1>6 DEF ObjectsOK, objects
  <2>2. d \in CallType /\ d.at = "suspend" /\ d.obj = c.obj
    BY DEF CallType, TaskPlaces, TakePlaces
  <2>3. call' = [call EXCEPT ![t] = d]
    BY <1>6
  <2> HIDE DEF d
  <2>4. CallOK(t, d, life, cTxLock')
    BY <2>2 DEF CallOK, TakePlaces, LockedPlaces, CreatePlaces
  <2>5. /\ kernel' \in KernelType /\ Steady(kernel, kernel')
        /\ SameStates(kernel, kernel') /\ SameEvents(kernel, kernel')
    BY <1>1, <1>6, LeftOK
  <2>6. d.at \notin SuspendedPlaces
    BY <2>2 DEF SuspendedPlaces, LockedPlaces
  <2>7. /\ kernel'.uxPriority = kernel.uxPriority /\ kernel'.uxBasePriority = kernel.uxBasePriority
        /\ kernel'.halted = kernel.halted /\ kernel'.pxCurrentTCB = t
        /\ kernel'.uxSchedulerSuspended \in {0, 1} /\ ~(kernel'.uxSchedulerSuspended = 1)
        /\ kernel.uxSchedulerSuspended = 1 => kernel'.uxSchedulerSuspended = 1
    BY <1>2, <2>5 DEF Steady
  <2>8. call[t].at \notin {"yield", "unlockBlocked", "created", "dontStart"}
    OBVIOUS
  <2> QED
    BY <1>2, <2>1, <2>2, <2>3, <2>4, <2>5, <2>6, <2>7, <2>8, PlainStep
<1> QED
  BY <1>3, <1>4, <1>5, <1>6 DEF TryTake

\* The call of a take keeps the invariant.
LEMMA TakeOK ==
    ASSUME TaskInv, Mutexes = {}, NEW t \in Users, life' = life, Take(t) \/ Retry(t)
    PROVE  TaskInv' /\ KeepsSuspended(kernel, kernel')
<1>1. /\ call \in [Tasks -> CallType] /\ kernel \in KernelType /\ t \in Tasks
      /\ t = kernel.pxCurrentTCB => CallOK(t, call[t], life, cTxLock)
  BY RunningFacts DEF Users
<1>2. CASE Take(t)
  <2>1. PICK o \in MayTake(t), ticks \in WaitTicks[t] :
            TryTake(t, [NoCall EXCEPT !.obj = o, !.expired = (ticks = 0)], ticks)
    BY <1>2 DEF Take
  <2> DEFINE c == [NoCall EXCEPT !.obj = o, !.expired = (ticks = 0)]
  <2>2. o \in EventLists /\ ticks \in Int
    <3>1. Uses[t] \subseteq EventLists /\ WaitTicks[t] \subseteq Nat \cup {Forever}
      BY <1>1, MutexAssumption
    <3> QED
      BY <3>1 DEF MayTake, Forever
  <2>3. c \in CallType /\ c.obj = o
    BY <2>2 DEF NoCall, CallType, TaskPlaces
  <2> HIDE DEF c
  <2>4. t = kernel.pxCurrentTCB /\ call[t].at \in {"task", "try"}
    BY <1>2 DEF Take, In, Running
  <2>5. TryTake(t, c, ticks)
    BY <2>1 DEF c
  <2> QED
    BY <2>2, <2>3, <2>4, <2>5, TryTakeOK
<1>3. CASE Retry(t)
  <2>1. t = kernel.pxCurrentTCB /\ call[t].at = "try" /\ TryTake(t, call[t], kernel.left[t])
    BY <1>3 DEF Retry, In, Running
  <2>2. call[t] \in CallType /\ call[t].obj \in EventLists /\ kernel.left[t] \in Int
    BY <1>1, <2>1 DEF CallOK, TakePlaces, KernelType
  <2> QED
    BY <2>1, <2>2, TryTakeOK
<1> QED
  BY <1>2, <1>3

\* The call goes to another place and the lists stay.
LEMMA PlaceType ==
    ASSUME NEW c \in CallType, NEW at \in TaskPlaces
    PROVE  LET d == [c EXCEPT !.at = at]
           IN  d \in CallType /\ d.at = at /\ d.obj = c.obj
BY DEF CallType

\* A call in the loop of xQueueSemaphoreTake is about an object.
LEMMA TakenObject ==
    ASSUME NEW t, NEW c, NEW lives, NEW locks, c.at \in TakePlaces, c.obj \in EventLists,
           c.at \in LockedPlaces => locks[c.obj] >= 0
    PROVE  CallOK(t, c, lives, locks)
BY DEF CallOK, TakePlaces, CreatePlaces

\* prvLockQueue behind vTaskSuspendAll keeps the invariant.
LEMMA LockQueueOK ==
    ASSUME TaskInv, NEW t \in Users, life' = life, LockQueue(t)
    PROVE  TaskInv' /\ KeepsSuspended(kernel, kernel')
<1>1. /\ t = kernel.pxCurrentTCB /\ call[t].at = "suspend"
      /\ kernel' = [kernel EXCEPT !.uxSchedulerSuspended = @ + 1]
      /\ cTxLock' = [cTxLock EXCEPT ![call[t].obj] = 0]
      /\ call' = [call EXCEPT ![t].at = "wait"]
      /\ UNCHANGED <<uxMessagesWaiting, xMutexHolder>>
  BY DEF LockQueue, In, Running, vTaskSuspendAll, Goto
<1>2. /\ kernel \in KernelType /\ t \in Tasks /\ ObjectsOK /\ call \in [Tasks -> CallType]
      /\ CallOK(t, call[t], life, cTxLock)
      /\ call[t].at \in SuspendedPlaces <=> kernel.uxSchedulerSuspended = 1
      /\ kernel.uxSchedulerSuspended \in {0, 1}
  BY <1>1, RunningFacts
<1>3. kernel.uxSchedulerSuspended = 0
  BY <1>1, <1>2 DEF SuspendedPlaces, LockedPlaces
<1> DEFINE c == [call[t] EXCEPT !.at = "wait"]
<1>4. c \in CallType /\ c.at = "wait" /\ c.obj = call[t].obj
  BY <1>2, PlaceType DEF TaskPlaces, TakePlaces
<1>5. call' = [call EXCEPT ![t] = c]
  BY <1>1, <1>2
<1>6. call[t].obj \in EventLists
  BY <1>1, <1>2 DEF CallOK, TakePlaces
<1> HIDE DEF c
<1>7. ObjectsOK'
  BY <1>1, <1>2, <1>6 DEF ObjectsOK
<1>8. cTxLock'[c.obj] = 0
  BY <1>1, <1>2, <1>4, <1>6 DEF ObjectsOK
<1>9. CallOK(t, c, life, cTxLock')
  BY <1>4, <1>6, <1>8, TakenObject DEF TakePlaces
<1>10. /\ kernel' \in KernelType /\ SameStates(kernel, kernel') /\ SameEvents(kernel, kernel')
       /\ kernel'.uxPriority = kernel.uxPriority /\ kernel'.uxBasePriority = kernel.uxBasePriority
       /\ kernel'.halted = kernel.halted /\ kernel'.pxCurrentTCB = t
       /\ kernel'.uxSchedulerSuspended = 1 /\ kernel'.uxSchedulerSuspended \in {0, 1}
       /\ kernel.uxSchedulerSuspended = 1 => kernel'.uxSchedulerSuspended = 1
  <2>1. kernel' = [kernel EXCEPT !.uxSchedulerSuspended = 1]
    BY <1>1, <1>2, <1>3 DEF KernelType
  <2>2. kernel' \in KernelType /\ kernel'.uxSchedulerSuspended = 1
    BY <1>2, <2>1 DEF KernelType
  <2>3. /\ SameStates(kernel, kernel') /\ SameEvents(kernel, kernel')
        /\ kernel'.uxPriority = kernel.uxPriority /\ kernel'.uxBasePriority = kernel.uxBasePriority
        /\ kernel'.halted = kernel.halted /\ kernel'.pxCurrentTCB = kernel.pxCurrentTCB
    BY <1>2, <2>1 DEF KernelType, SameStates, SameEvents
  <2> QED
    BY <1>1, <2>2, <2>3
<1>11. c.at \in SuspendedPlaces
  BY <1>4 DEF SuspendedPlaces, LockedPlaces
<1>12. call[t].at \notin {"yield", "unlockBlocked", "created", "dontStart"}
  BY <1>1
<1> QED
  BY <1>1, <1>4, <1>5, <1>7, <1>9, <1>10, <1>11, <1>12, PlainStep

\* A wait that does not block, as its time has run out or its object is free again, keeps
\* the invariant.
LEMMA LateOK ==
    ASSUME TaskInv, NEW t \in Users, life' = life, In(t, "wait"), UNCHANGED objects,
           Late(t) \/ (Goto(t, "unlock") /\ UNCHANGED kernel)
    PROVE  TaskInv' /\ KeepsSuspended(kernel, kernel')
<1>1. t = kernel.pxCurrentTCB /\ call[t].at = "wait"
  BY DEF In, Running
<1>2. /\ kernel \in KernelType /\ t \in Tasks /\ ObjectsOK /\ call \in [Tasks -> CallType]
      /\ CallOK(t, call[t], life, cTxLock)
      /\ call[t].at \in SuspendedPlaces <=> kernel.uxSchedulerSuspended = 1
      /\ kernel.uxSchedulerSuspended \in {0, 1}
  BY <1>1, RunningFacts
<1>3. kernel.uxSchedulerSuspended = 1
  BY <1>1, <1>2 DEF SuspendedPlaces, LockedPlaces
<1>4. PICK c \in CallType : /\ call' = [call EXCEPT ![t] = c]
                            /\ c.at \in {"unlockLate", "unlock"} /\ c.obj = call[t].obj
  <2>1. kernel.ucDelayAborted[t] \in BOOLEAN /\ call[t] \in CallType
    BY <1>2 DEF KernelType
  <2>2. CASE Late(t)
    <3> DEFINE c == [call[t] EXCEPT !.at = "unlockLate",
                                    !.expired = @ \/ ~kernel.ucDelayAborted[t]]
    <3>1. c \in CallType /\ c.at = "unlockLate" /\ c.obj = call[t].obj
      BY <2>1 DEF CallType, TaskPlaces, TakePlaces
    <3>2. call' = [call EXCEPT ![t] = c]
      BY <1>2, <2>2 DEF Late
    <3> HIDE DEF c
    <3> QED
      BY <3>1, <3>2
  <2>3. CASE Goto(t, "unlock")
    <3> DEFINE c == [call[t] EXCEPT !.at = "unlock"]
    <3>1. c \in CallType /\ c.at = "unlock" /\ c.obj = call[t].obj
      BY <2>1, PlaceType DEF TaskPlaces, TakePlaces
    <3>2. call' = [call EXCEPT ![t] = c]
      BY <1>2, <2>3 DEF Goto
    <3> HIDE DEF c
    <3> QED
      BY <3>1, <3>2
  <2> QED
    BY <2>2, <2>3
<1>5. call[t].obj \in EventLists /\ cTxLock[call[t].obj] >= 0 /\ cTxLock' = cTxLock
  BY <1>1, <1>2 DEF CallOK, TakePlaces, LockedPlaces, objects
<1>6. CallOK(t, c, life, cTxLock')
  BY <1>4, <1>5, TakenObject DEF TakePlaces
<1>7. ObjectsOK'
  BY <1>2 DEF ObjectsOK, objects
<1>8. /\ kernel' \in KernelType /\ SameStates(kernel, kernel') /\ SameEvents(kernel, kernel')
      /\ kernel'.uxPriority = kernel.uxPriority /\ kernel'.uxBasePriority = kernel.uxBasePriority
      /\ kernel'.halted = kernel.halted /\ kernel'.pxCurrentTCB = t
      /\ kernel'.uxSchedulerSuspended = 1 /\ kernel'.uxSchedulerSuspended \in {0, 1}
      /\ kernel.uxSchedulerSuspended = 1 => kernel'.uxSchedulerSuspended = 1
  <2>1. CASE kernel' = kernel
    BY <1>1, <1>2, <1>3, <2>1 DEF SameStates, SameEvents
  <2>2. CASE kernel' = [kernel EXCEPT !.ucDelayAborted[t] = FALSE]
    <3>1. kernel' \in KernelType
      BY <1>2, <2>2 DEF KernelType
    <3>2. /\ SameStates(kernel, kernel') /\ SameEvents(kernel, kernel')
          /\ kernel'.uxPriority = kernel.uxPriority
          /\ kernel'.uxBasePriority = kernel.uxBasePriority
          /\ kernel'.halted = kernel.halted /\ kernel'.pxCurrentTCB = kernel.pxCurrentTCB
          /\ kernel'.uxSchedulerSuspended = kernel.uxSchedulerSuspended
      BY <1>2, <2>2 DEF KernelType, SameStates, SameEvents
    <3> QED
      BY <1>1, <1>3, <3>1, <3>2
  <2> QED
    BY <2>1, <2>2 DEF Late, xTaskCheckForTimeOut
<1>9. c.at \in SuspendedPlaces
  BY <1>4 DEF SuspendedPlaces, LockedPlaces
<1>10. call[t].at \notin {"yield", "unlockBlocked", "created", "dontStart"}
  BY <1>1
<1> QED
  BY <1>1, <1>4, <1>6, <1>7, <1>8, <1>9, <1>10, PlainStep

\* The wait that blocks the task, and its prvUnlockQueue, keep the invariant.
LEMMA BlockOK ==
    ASSUME TaskInv, Mutexes = {}, NEW t \in Users, life' = life, In(t, "wait"),
           UNCHANGED objects, Block(t)
    PROVE  TaskInv' /\ KeepsSuspended(kernel, kernel')
<1>1. t = kernel.pxCurrentTCB /\ call[t].at = "wait"
  BY DEF In, Running
<1>2. /\ kernel \in KernelType /\ t \in Tasks /\ ObjectsOK /\ call \in [Tasks -> CallType]
      /\ Good(kernel) /\ CallOK(t, call[t], life, cTxLock) /\ Idle \in ReadyTasks(kernel)
      /\ call[t].at \in SuspendedPlaces <=> kernel.uxSchedulerSuspended = 1
      /\ kernel.uxSchedulerSuspended \in {0, 1} /\ ~kernel.halted
      /\ kernel.uxBasePriority = kernel.uxPriority
  BY <1>1, RunningFacts
<1>3. kernel.uxSchedulerSuspended = 1
  BY <1>1, <1>2 DEF SuspendedPlaces, LockedPlaces
<1>4. /\ t \in ReadyTasks(kernel) /\ Highest(kernel, {}) /\ t \notin kernel.suspended
      /\ \A l \in EventLists : t \notin Members(kernel.event[l])
  BY <1>1, RunningIsReady
<1>5. call[t].obj \in EventLists /\ cTxLock[call[t].obj] >= 0 /\ cTxLock' = cTxLock
  BY <1>1, <1>2 DEF CallOK, TakePlaces, LockedPlaces, objects
<1> DEFINE o == call[t].obj
<1>6. kernel' = vTaskPlaceOnEventList(kernel, o, kernel.left[t])
  BY DEF Block, xTaskPriorityInherit
<1> DEFINE c == [call[t] EXCEPT !.at = "unlockBlocked", !.inherited = FALSE]
<1>7. call' = [call EXCEPT ![t] = c]
  BY <1>2 DEF Block, InheritanceOccurred
<1>8. c \in CallType /\ c.at = "unlockBlocked" /\ c.obj = o
  <2>1. call[t] \in CallType
    BY <1>2
  <2> QED
    BY <2>1 DEF CallType, TaskPlaces, TakePlaces
<1> HIDE DEF c, o
<1>9. o \in EventLists /\ kernel.left[t] \in Int /\ Ready(kernel, kernel.pxCurrentTCB)
  BY <1>1, <1>2, <1>4, <1>5 DEF KernelType, o, ReadyTasks
<1>10. /\ KernelOK(kernel') /\ WaitersAreBlocked(kernel') /\ Quiet(kernel, kernel')
       /\ ReadyTasks(kernel') = ReadyTasks(kernel) \ {t}
       /\ BlockedTasks(kernel') = BlockedTasks(kernel) \cup {t}
       /\ kernel'.suspended \ {t} = kernel.suspended \ {t}
       /\ kernel'.pendingReady = kernel.pendingReady
       /\ \A l \in EventLists : Members(kernel'.event[l]) =
              IF l = o THEN Members(kernel.event[l]) \cup {t} ELSE Members(kernel.event[l])
  <2>1. KernelOK(kernel) /\ WaitersAreBlocked(kernel)
    BY <1>2 DEF Good
  <2>2. Blocks(kernel, kernel', t, o)
    BY <1>1, <1>6, <1>9, <2>1, PlaceOK
  <2> QED
    BY <2>2 DEF Blocks
<1>11. Good(kernel') /\ Known(kernel') = Known(kernel) /\ Idle \in ReadyTasks(kernel')
  BY <1>2, <1>4, <1>10 DEF Good, Known, Users
<1>12. CallOK(t, c, life, cTxLock')
  BY <1>5, <1>8, <1>9, TakenObject DEF TakePlaces, o
<1>13. ObjectsOK'
  BY <1>2 DEF ObjectsOK, objects
<1>14. /\ kernel'.uxSchedulerSuspended = 1 /\ kernel'.pxCurrentTCB = t /\ ~kernel'.halted
       /\ kernel'.uxBasePriority = kernel'.uxPriority /\ kernel'.uxPriority = kernel.uxPriority
  BY <1>1, <1>2, <1>3, <1>10 DEF Quiet, Steady
<1>15. RunsOn(t, c, kernel')
  <2>1. Highest(kernel', {})
    BY <1>1, <1>4, <1>10, <1>14 DEF Highest
  <2>2. Except(c) = {}
    BY <1>8 DEF Except
  <2> QED
    BY <1>8, <1>14, <2>1, <2>2 DEF RunsOn
<1>16. /\ \A l \in EventLists : Members(kernel'.event[l]) \ {t} \subseteq Members(kernel.event[l])
       /\ \A l \in EventLists : t \in Members(kernel'.event[l]) =>
              c.obj = l /\ c.at \in {"unlockBlocked", "try"}
  BY <1>4, <1>8, <1>10
<1>17. c.at \in SuspendedPlaces
  BY <1>8 DEF SuspendedPlaces, LockedPlaces
<1>18. KeepsSuspended(kernel, kernel')
  BY <1>4, <1>10 DEF KeepsSuspended
<1>19. kernel'.uxSchedulerSuspended \in {0, 1}
  BY <1>14
<1>20. TaskInv'
  BY <1>1, <1>7, <1>8, <1>11, <1>12, <1>13, <1>14, <1>15, <1>16, <1>17, <1>19, CallStep
<1> QED
  BY <1>18, <1>20

\* The timeout check and what follows it keep the invariant.
LEMMA WaitOK ==
    ASSUME TaskInv, Mutexes = {}, NEW t \in Users, life' = life, Wait(t)
    PROVE  TaskInv' /\ KeepsSuspended(kernel, kernel')
BY LateOK, BlockOK DEF Wait

\* The last check of a timed-out take keeps the invariant.
LEMMA RecheckOK ==
    ASSUME TaskInv, NEW t \in Users, life' = life, Recheck(t)
    PROVE  TaskInv' /\ KeepsSuspended(kernel, kernel')
<1>1. t = kernel.pxCurrentTCB /\ call[t].at = "recheck" /\ UNCHANGED objects
  BY DEF Recheck, In, Running
<1>2. /\ kernel \in KernelType /\ t \in Tasks /\ ObjectsOK /\ call \in [Tasks -> CallType]
      /\ CallOK(t, call[t], life, cTxLock)
      /\ call[t].at \in SuspendedPlaces <=> kernel.uxSchedulerSuspended = 1
      /\ kernel.uxSchedulerSuspended \in {0, 1}
  BY <1>1, RunningFacts
<1>3. kernel.uxSchedulerSuspended = 0
  BY <1>1, <1>2 DEF SuspendedPlaces, LockedPlaces
<1>4. call[t].inherited = FALSE /\ ObjectsOK' /\ call[t].obj \in EventLists
  <2>1. call[t] \in CallType
    BY <1>2
  <2> QED
    BY <1>1, <1>2, <2>1 DEF CallType, ObjectsOK, objects, CallOK, TakePlaces
<1>5. CASE Goto(t, "try") /\ UNCHANGED kernel
  <2> DEFINE c == [call[t] EXCEPT !.at = "try"]
  <2>1. c \in CallType /\ c.at = "try" /\ c.obj = call[t].obj
    BY <1>2, PlaceType DEF TaskPlaces, TakePlaces
  <2>2. call' = [call EXCEPT ![t] = c]
    BY <1>2, <1>5 DEF Goto
  <2> HIDE DEF c
  <2>3. CallOK(t, c, life, cTxLock')
    BY <1>4, <2>1, TakenObject DEF TakePlaces, LockedPlaces
  <2>4. /\ kernel' \in KernelType /\ SameStates(kernel, kernel') /\ SameEvents(kernel, kernel')
        /\ kernel'.uxPriority = kernel.uxPriority /\ kernel'.uxBasePriority = kernel.uxBasePriority
        /\ kernel'.halted = kernel.halted /\ kernel'.pxCurrentTCB = t
        /\ ~(kernel'.uxSchedulerSuspended = 1) /\ kernel'.uxSchedulerSuspended \in {0, 1}
        /\ kernel.uxSchedulerSuspended = 1 => kernel'.uxSchedulerSuspended = 1
    BY <1>1, <1>2, <1>3, <1>5 DEF SameStates, SameEvents
  <2>5. c.at \notin SuspendedPlaces
    BY <2>1 DEF SuspendedPlaces, LockedPlaces
  <2>6. call[t].at \notin {"yield", "unlockBlocked", "created", "dontStart"}
    BY <1>1
  <2> QED
    BY <1>1, <1>4, <2>1, <2>2, <2>3, <2>4, <2>5, <2>6, PlainStep
<1>6. CASE Return(t, kernel)
  BY <1>1, <1>4, <1>6, ReturnOK
<1> QED
  BY <1>4, <1>5, <1>6 DEF Recheck

\* Without mutexes no priority is disinherited.
LEMMA DisinheritOK ==
    ASSUME TaskInv, NEW t \in Users, Disinherit(t)
    PROVE  FALSE
<1>1. call \in [Tasks -> CallType] /\ call[t].at = "disinherit" /\ t \in Tasks
  BY RunningFacts DEF Disinherit, In, Users
<1>2. call[t] \in CallType
  BY <1>1
<1> QED
  BY <1>1, <1>2 DEF CallType, TaskPlaces, TakePlaces, CreatePlaces

\* A step to the call c after which the scheduler is not suspended and the highest task runs.
LEMMA SettledStep ==
    ASSUME TaskInv, NEW t \in Users, t = kernel.pxCurrentTCB, life' = life, ObjectsOK',
           NEW c \in CallType, call' = [call EXCEPT ![t] = c], c.at \notin SuspendedPlaces,
           CallOK(t, c, life, cTxLock'),
           Good(kernel'), kernel'.uxBasePriority = kernel'.uxPriority, ~kernel'.halted,
           Known(kernel') = Known(kernel), Idle \in ReadyTasks(kernel'),
           \A l \in EventLists : Members(kernel'.event[l]) \ {t} \subseteq Members(kernel.event[l]),
           \A l \in EventLists : t \in Members(kernel'.event[l]) =>
               c.obj = l /\ c.at \in {"unlockBlocked", "try"},
           kernel'.uxSchedulerSuspended = 0, kernel'.pendingReady = <<>>,
           kernel'.pxCurrentTCB \in ReadyTasks(kernel'), Highest(kernel', {})
    PROVE  TaskInv'
<1>1. RunsOn(t, c, kernel')
  BY DEF RunsOn
<1>2. kernel'.uxSchedulerSuspended \in {0, 1} /\ ~(kernel'.uxSchedulerSuspended = 1)
  OBVIOUS
<1> QED
  BY <1>1, <1>2, CallStep

\* prvUnlockQueue and xTaskResumeAll behind a wait keep the invariant.
LEMMA UnlockOK ==
    ASSUME TaskInv, NEW t \in Users, life' = life, Unlock(t)
    PROVE  TaskInv' /\ KeepsSuspended(kernel, kernel')
<1> DEFINE o == call[t].obj
           k == prvUnlockQueue(kernel, o)
<1>1. /\ t = kernel.pxCurrentTCB /\ call[t].at \in {"unlockBlocked", "unlock", "unlockLate"}
      /\ cTxLock' = [cTxLock EXCEPT ![o] = queueUNLOCKED]
      /\ UNCHANGED <<uxMessagesWaiting, xMutexHolder>>
  BY DEF Unlock, In, Running
<1>2. PICK at \in {"try", "recheck"} :
          /\ Goto(t, at)
          /\ \/ call[t].at = "unlockBlocked" /\ at = "try" /\ kernel' = ResumeAndYield(k)
             \/ call[t].at \in {"unlock", "unlockLate"} /\ kernel' = xTaskResumeAll(k)
  BY DEF Unlock, In
<1>3. /\ kernel \in KernelType /\ t \in Tasks /\ ObjectsOK /\ call \in [Tasks -> CallType]
      /\ Good(kernel) /\ CallOK(t, call[t], life, cTxLock) /\ Idle \in ReadyTasks(kernel)
      /\ call[t].at \in SuspendedPlaces <=> kernel.uxSchedulerSuspended = 1
      /\ ~kernel.halted /\ kernel.uxBasePriority = kernel.uxPriority
      /\ RunsOn(t, call[t], kernel)
  BY <1>1, RunningFacts
<1>4. kernel.uxSchedulerSuspended = 1
  BY <1>1, <1>3 DEF SuspendedPlaces, LockedPlaces
<1>5. o \in EventLists /\ cTxLock[o] \in Nat
  <2>1. o \in EventLists /\ cTxLock[o] >= 0 /\ cTxLock[o] \in Int
    BY <1>1, <1>3 DEF CallOK, TakePlaces, LockedPlaces, ObjectsOK
  <2> HIDE DEF o
  <2> QED
    BY <2>1
<1>6. ObjectsOK'
  <2>1. cTxLock' \in [EventLists -> Int]
    <3>1. cTxLock \in [EventLists -> Int] /\ queueUNLOCKED \in Int
      BY <1>3 DEF ObjectsOK, queueUNLOCKED
    <3>2. cTxLock' = [cTxLock EXCEPT ![o] = queueUNLOCKED]
      BY <1>1
    <3> HIDE DEF o
    <3> QED
      BY <3>1, <3>2
  <2> QED
    BY <1>1, <1>3, <2>1 DEF ObjectsOK
<1> DEFINE c == [call[t] EXCEPT !.at = at]
<1>7. call' = [call EXCEPT ![t] = c]
  BY <1>2, <1>3 DEF Goto
<1>8. c \in CallType /\ c.at = at /\ c.obj = o
  BY <1>3, PlaceType DEF TaskPlaces, TakePlaces
<1> HIDE DEF c, o
<1>9. CallOK(t, c, life, cTxLock') /\ c.at \notin SuspendedPlaces
  BY <1>5, <1>8, TakenObject DEF TakePlaces, LockedPlaces, SuspendedPlaces
<1>10. Highest(kernel, {})
  BY <1>1, <1>3 DEF RunsOn, Except
<1>11. /\ Good(k) /\ Steady(kernel, k) /\ Awakens(kernel, k)
       /\ ReadyTasks(k) = ReadyTasks(kernel)
       /\ Covered(kernel, {}) => Covered(k, {})
  BY <1>3, <1>4, <1>5, UnlockQueueOK DEF Unlocks
<1> HIDE DEF k
<1>12. Covered(k, {}) /\ k.uxSchedulerSuspended = 1 /\ ReadyTasks(k) # {} /\ k.pxCurrentTCB = t
  BY <1>1, <1>3, <1>4, <1>10, <1>11 DEF Covered, Steady
<1>13. /\ Good(kernel') /\ Awakens(k, kernel') /\ kernel'.uxSchedulerSuspended = 0
       /\ kernel'.pendingReady = <<>> /\ Highest(kernel', {})
  <2>1. CASE kernel' = ResumeAndYield(k)
    BY <1>11, <1>12, <2>1, ResumeAndYieldSettles DEF Settled
  <2>2. CASE kernel' = xTaskResumeAll(k)
    BY <1>11, <1>12, <2>2, ResumeAllSettles
  <2> QED
    BY <1>2, <2>1, <2>2
<1>14. Awakens(kernel, kernel')
  BY <1>11, <1>13, AwakensTransitive
<1>15. kernel'.pxCurrentTCB \in ReadyTasks(kernel')
  <2>1. CASE kernel' = ResumeAndYield(k)
    BY <1>11, <1>12, <2>1, ResumeAndYieldSettles
  <2>2. CASE kernel' = xTaskResumeAll(k) /\ call[t].at # "unlockBlocked"
    <3>1. t \in ReadyTasks(kernel)
      BY <1>1, <2>2, RunningIsReady
    <3>2. kernel'.pxCurrentTCB = t \/ kernel'.pxCurrentTCB \in ReadyTasks(kernel')
      BY <1>11, <1>12, <2>2, ResumeAllSettles
    <3> QED
      BY <1>14, <3>1, <3>2 DEF Awakens, Wakes
  <2> QED
    BY <1>2, <2>1, <2>2
<1>16. /\ kernel'.uxBasePriority = kernel'.uxPriority /\ ~kernel'.halted
       /\ Known(kernel') = Known(kernel) /\ Idle \in ReadyTasks(kernel')
       /\ \A l \in EventLists : Members(kernel'.event[l]) \subseteq Members(kernel.event[l])
       /\ KeepsSuspended(kernel, kernel')
  BY <1>3, <1>14 DEF Awakens, Wakes, KeepsSuspended
<1>17. \A l \in EventLists : t \in Members(kernel'.event[l]) =>
           c.obj = l /\ c.at \in {"unlockBlocked", "try"}
  <2> SUFFICES ASSUME NEW l \in EventLists, t \in Members(kernel'.event[l])
               PROVE  c.obj = l /\ c.at = "try"
    OBVIOUS
  <2>1. t \in Members(kernel.event[l])
    BY <1>16
  <2>2. o = l /\ call[t].at = "unlockBlocked"
    BY <1>1, <1>3, <2>1 DEF TaskInv, WaiterOf, o
  <2> QED
    BY <1>2, <1>8, <2>2
<1>18. TaskInv'
  BY <1>1, <1>6, <1>7, <1>8, <1>9, <1>13, <1>15, <1>16, <1>17, SettledStep
<1> QED
  BY <1>16, <1>18

\* The calls that end where they began, and the interrupts.
LEMMA GiveOK ==
    ASSUME TaskInv, Mutexes = {}, NEW t \in Users, NEW o \in Uses[t], life' = life, Give(t, o)
    PROVE  TaskInv' /\ KeepsSuspended(kernel, kernel')
<1>1. o \in EventLists
  BY MutexAssumption DEF Users
<1>2. Good(kernel) /\ ReadyTasks(kernel) # {} /\ ObjectsOK /\ ~kernel.halted
  BY RunningFacts
<1>3. /\ kernel' = AfterGive(kernel, o, FALSE)
      /\ uxMessagesWaiting' = [uxMessagesWaiting EXCEPT ![o] = @ + 1]
      /\ xMutexHolder' = [m \in Mutexes |-> IF m = o THEN NoTask ELSE xMutexHolder[m]]
      /\ UNCHANGED <<cTxLock, call>>
  BY <1>2 DEF Give, xTaskPriorityDisinherit, DisinheritYields
<1>4. \A X : Undisturbing(kernel, kernel', X) /\ KeepsSuspended(kernel, kernel')
  BY <1>1, <1>2, <1>3, AfterGiveOK
<1>5. ObjectsOK'
  BY <1>1, <1>2, <1>3 DEF ObjectsOK
<1> QED
  BY <1>3, <1>4, <1>5, OtherStep

\* No change of the kernel disturbs no call.
LEMMA StaysUndisturbed ==
    ASSUME NEW k, Good(k), NEW X
    PROVE  Undisturbing(k, k, X) /\ KeepsSuspended(k, k)
BY DEF Undisturbing, Runs, KeepsSuspended, Wakes, KeepsOrder

\* A tick, and a give or a take from an interrupt, keep the invariant.
LEMMA InterruptOK ==
    ASSUME TaskInv, life' = life,
           Tick \/ \E o \in EventLists : GiveFromISR(o) \/ TakeFromISR(o)
    PROVE  TaskInv' /\ KeepsSuspended(kernel, kernel')
<1>1. Good(kernel) /\ ReadyTasks(kernel) # {} /\ ObjectsOK
  BY RunningFacts
<1>2. CASE Tick
  <2>1. kernel' = TickInterrupt(kernel) /\ call' = call /\ UNCHANGED objects
    BY <1>2 DEF Tick
  <2>2. \A X : Undisturbing(kernel, kernel', X) /\ KeepsSuspended(kernel, kernel')
    BY <1>1, <2>1, TickUndisturbing
  <2>3. ObjectsOK' /\ \A l \in EventLists : cTxLock[l] >= 0 => cTxLock'[l] >= 0
    BY <1>1, <2>1 DEF ObjectsOK, objects
  <2> QED
    BY <2>1, <2>2, <2>3, OtherStep
<1>3. ASSUME NEW o \in EventLists, GiveFromISR(o) PROVE TaskInv' /\ KeepsSuspended(kernel, kernel')
  <2>1. /\ uxMessagesWaiting' = [uxMessagesWaiting EXCEPT ![o] = @ + 1]
        /\ UNCHANGED <<xMutexHolder, call>>
    BY <1>3 DEF GiveFromISR
  <2>2. cTxLock' \in [EventLists -> Int] /\ \A l \in EventLists : cTxLock[l] >= 0 => cTxLock'[l] >= 0
    <3>1. cTxLock \in [EventLists -> Int]
      BY <1>1 DEF ObjectsOK
    <3>2. cTxLock' = cTxLock \/ cTxLock' = [cTxLock EXCEPT ![o] = @ + 1]
      BY <1>3 DEF GiveFromISR
    <3>3. CASE cTxLock' = [cTxLock EXCEPT ![o] = @ + 1]
      <4>1. \A l \in EventLists : cTxLock'[l] = IF l = o THEN cTxLock[l] + 1 ELSE cTxLock[l]
        BY <3>1, <3>3
      <4>2. cTxLock' \in [EventLists -> Int]
        BY <3>1, <3>3
      <4> QED
        BY <3>1, <4>1, <4>2
    <3> QED
      BY <3>1, <3>2, <3>3
  <2>3. ObjectsOK'
    <3>1. uxMessagesWaiting' \in [EventLists -> Nat]
      BY <1>1, <2>1 DEF ObjectsOK
    <3> QED
      BY <1>1, <2>1, <2>2, <3>1 DEF ObjectsOK
  <2>4. \A X : Undisturbing(kernel, kernel', X) /\ KeepsSuspended(kernel, kernel')
    <3>1. kernel' = AfterGive(kernel, o, FALSE) \/ kernel' = kernel
      BY <1>3 DEF GiveFromISR
    <3> QED
      BY <1>1, <3>1, AfterGiveOK, StaysUndisturbed
  <2> QED
    BY <2>1, <2>2, <2>3, <2>4, OtherStep
<1>4. ASSUME NEW o \in EventLists, TakeFromISR(o) PROVE TaskInv' /\ KeepsSuspended(kernel, kernel')
  <2>1. /\ uxMessagesWaiting' = [uxMessagesWaiting EXCEPT ![o] = @ - 1]
        /\ Available(o) /\ UNCHANGED <<kernel, xMutexHolder, cTxLock, call>>
    BY <1>4 DEF TakeFromISR
  <2>2. ObjectsOK'
    BY <1>1, <2>1 DEF ObjectsOK, Available
  <2>3. \A X : Undisturbing(kernel, kernel', X) /\ KeepsSuspended(kernel, kernel')
    BY <1>1, <2>1, StaysUndisturbed
  <2> QED
    BY <2>1, <2>2, <2>3, OtherStep
<1> QED
  BY <1>2, <1>3, <1>4

\* Every step of the semaphores keeps the invariant and resumes no suspended task.
LEMMA NextOK ==
    ASSUME TaskInv, Mutexes = {}, Next, life' = life
    PROVE  TaskInv' /\ KeepsSuspended(kernel, kernel')
<1>1. ASSUME NEW t \in Users, TakeStep(t) PROVE TaskInv' /\ KeepsSuspended(kernel, kernel')
  BY <1>1, TakeOK, LockQueueOK, WaitOK, UnlockOK, RecheckOK, DisinheritOK DEF TakeStep
<1>2. ASSUME NEW t \in Users, NEW o \in Uses[t], Give(t, o)
      PROVE  TaskInv' /\ KeepsSuspended(kernel, kernel')
  BY <1>2, GiveOK
<1>3. CASE Tick \/ \E o \in Semaphores : GiveFromISR(o) \/ TakeFromISR(o)
  BY <1>3, InterruptOK DEF Semaphores
<1> QED
  BY <1>1, <1>2, <1>3 DEF Next
-------------------------------------------------------------------------------
(***************************************************************************)
(* The services of RtosalTask.                                             *)
(***************************************************************************)
\* What holds when the running task is not in a place with the scheduler suspended.
LEMMA UnsuspendedFacts ==
    ASSUME TaskInv, NEW t, t = kernel.pxCurrentTCB, call[t].at \notin SuspendedPlaces
    PROVE  kernel.uxSchedulerSuspended = 0 /\ kernel.pendingReady = <<>>
<1>1. /\ call[t].at \in SuspendedPlaces <=> kernel.uxSchedulerSuspended = 1
      /\ kernel.uxSchedulerSuspended \in {0, 1}
      /\ kernel.pendingReady # <<>> => kernel.uxSchedulerSuspended = 1
  BY RunningFacts
<1> QED
  BY <1>1

\* The places of the task services lie outside of the loop of the take.
LEMMA Outside ==
    /\ \A at \in {"task", "yield", "try", "suspend", "recheck"} \cup CreatePlaces :
          at \notin SuspendedPlaces
    /\ "abort" \in SuspendedPlaces
BY DEF SuspendedPlaces, LockedPlaces, CreatePlaces

\* A call that is over is no call.
LEMMA NoCallAgain ==
    /\ [NoCall EXCEPT !.at = "task", !.obj = NoTask] = NoCall
    /\ [NoCall EXCEPT !.at = "task"] = NoCall
<1>1. \A c \in CallType : c.at = "task" /\ c.obj = NoTask =>
          /\ [c EXCEPT !.at = "task", !.obj = NoTask] = c
          /\ [c EXCEPT !.at = "task"] = c
  BY DEF CallType
<1>2. NoCall \in CallType /\ NoCall.at = "task" /\ NoCall.obj = NoTask
  BY NoCallType DEF NoCall
<1> QED
  BY <1>1, <1>2

\* The yield behind a critical section keeps the invariant.
LEMMA YieldOK ==
    ASSUME TaskInv, NEW t \in Users, Yield(t)
    PROVE  TaskInv' /\ KeepsSuspended(kernel, kernel')
<1>1. /\ t = kernel.pxCurrentTCB /\ call[t].at = "yield"
      /\ kernel' = vTaskSwitchContext(kernel) /\ call' = [call EXCEPT ![t] = NoCall]
      /\ UNCHANGED <<objects, life>>
  BY DEF Yield, In, Running
<1>2. /\ t \in Tasks /\ ObjectsOK /\ Good(kernel) /\ Idle \in ReadyTasks(kernel)
      /\ ~kernel.halted /\ kernel.uxBasePriority = kernel.uxPriority /\ ReadyTasks(kernel) # {}
  BY <1>1, RunningFacts
<1>3. kernel.uxSchedulerSuspended = 0 /\ kernel.pendingReady = <<>>
  BY <1>1, Outside, UnsuspendedFacts
<1>4. /\ Good(kernel') /\ Switches(kernel, kernel') /\ Awakens(kernel, kernel')
      /\ kernel'.pxCurrentTCB \in ReadyTasks(kernel') /\ Highest(kernel', {})
  BY <1>1, <1>2, <1>3, SwitchOK
<1>5. /\ kernel'.uxBasePriority = kernel'.uxPriority /\ ~kernel'.halted
      /\ Known(kernel') = Known(kernel) /\ Idle \in ReadyTasks(kernel')
      /\ \A l \in EventLists : Members(kernel'.event[l]) \subseteq Members(kernel.event[l])
      /\ kernel'.uxSchedulerSuspended = 0 /\ kernel'.pendingReady = <<>>
      /\ KeepsSuspended(kernel, kernel')
  BY <1>2, <1>3, <1>4 DEF Awakens, Wakes, Switches, SameEvents, KeepsSuspended
<1>6. \A l \in EventLists : t \notin Members(kernel'.event[l])
  BY <1>1, <1>2, <1>5 DEF TaskInv, WaiterOf
<1>7. ObjectsOK'
  BY <1>1, <1>2 DEF ObjectsOK, objects
<1>8. NoCall.at \notin SuspendedPlaces
  BY NoCallType, Outside
<1>9. TaskInv'
  BY <1>1, <1>4, <1>5, <1>6, <1>7, <1>8, NoCallType, SettledStep
<1> QED
  BY <1>5, <1>9

\* taskYIELD keeps the invariant.
LEMMA TaskYieldOK ==
    ASSUME TaskInv, NEW t \in Users, TaskYield(t)
    PROVE  TaskInv' /\ KeepsSuspended(kernel, kernel')
<1>1. /\ t = kernel.pxCurrentTCB /\ call[t].at = "task"
      /\ kernel' = vTaskSwitchContext(kernel) /\ UNCHANGED <<objects, call, life>>
  BY DEF TaskYield, Serves, In, Running
<1>2. ObjectsOK /\ Good(kernel) /\ ReadyTasks(kernel) # {}
  BY RunningFacts
<1>3. kernel.uxSchedulerSuspended = 0
  BY <1>1, Outside, UnsuspendedFacts
<1>4. \A X : Undisturbing(kernel, kernel', X) /\ KeepsSuspended(kernel, kernel')
  BY <1>1, <1>2, <1>3, SwitchUndisturbing
<1>5. ObjectsOK' /\ cTxLock' = cTxLock
  BY <1>1, <1>2 DEF ObjectsOK, objects
<1> QED
  BY <1>1, <1>4, <1>5, OtherStep

\* The new task may be higher until the yield behind the creation.
LEMMA CreateYieldOK ==
    ASSUME TaskInv, NEW t \in Users, CreateYield(t)
    PROVE  TaskInv' /\ KeepsSuspended(kernel, kernel')
<1> DEFINE u == call[t].obj
           asks == kernel.uxPriority[t] < kernel.uxPriority[u]
<1>1. /\ t = kernel.pxCurrentTCB /\ call[t].at \in {"created", "dontStart"}
      /\ kernel' = YieldIf(asks, kernel) /\ UNCHANGED <<objects, life>>
      /\ Then(t, "task", NoTask) \/ Then(t, "suspendNew", u)
  BY DEF CreateYield, Running
<1>2. /\ t \in Tasks /\ ObjectsOK /\ Good(kernel) /\ Idle \in ReadyTasks(kernel)
      /\ kernel \in KernelType
      /\ ~kernel.halted /\ kernel.uxBasePriority = kernel.uxPriority /\ ReadyTasks(kernel) # {}
      /\ CallOK(t, call[t], life, cTxLock) /\ RunsOn(t, call[t], kernel)
  BY <1>1, RunningFacts
<1>3. kernel.uxSchedulerSuspended = 0 /\ kernel.pendingReady = <<>>
  BY <1>1, Outside, UnsuspendedFacts DEF CreatePlaces
<1>4. u \in Users \ {t} /\ life[u] = "alive" /\ u \in Tasks
  BY <1>1, <1>2 DEF CallOK, CreatePlaces, Users
<1> HIDE DEF u
<1>5. t \in ReadyTasks(kernel) /\ (~asks => Highest(kernel, {}))
  <2>1. t \in ReadyTasks(kernel) /\ Highest(kernel, {u})
    BY <1>1, <1>2 DEF RunsOn, Except, Highest, u
  <2>2. kernel.uxPriority[t] \in Nat /\ kernel.uxPriority[u] \in Nat
    <3>1. kernel.uxPriority \in [Tasks -> Priorities]
      BY <1>2 DEF KernelType
    <3> QED
      BY <1>2, <1>4, <3>1 DEF Priorities, configMAX_PRIORITIES
  <2>3. ~asks => kernel.uxPriority[u] <= kernel.uxPriority[kernel.pxCurrentTCB]
    BY <1>1, <2>2
  <2> QED
    BY <2>1, <2>3 DEF Highest
<1>6. PICK c \in CallType : /\ call' = [call EXCEPT ![t] = c] /\ c.at \in {"task", "suspendNew"}
                            /\ c.at = "suspendNew" => c.obj = u
  <2>1. CASE Then(t, "task", NoTask)
    <3>1. [NoCall EXCEPT !.at = "task", !.obj = NoTask] = NoCall
      BY NoCallAgain
    <3> QED
      BY <2>1, <3>1, NoCallType DEF Then
  <2>2. CASE Then(t, "suspendNew", u)
    <3> DEFINE c == [NoCall EXCEPT !.at = "suspendNew", !.obj = u]
    <3>1. c \in CallType /\ c.at = "suspendNew" /\ c.obj = u
      BY <1>4 DEF NoCall, CallType, TaskPlaces, CreatePlaces
    <3> QED
      BY <2>2, <3>1 DEF Then
  <2> QED
    BY <1>1, <2>1, <2>2
<1>7. /\ Good(kernel') /\ Switches(kernel, kernel') /\ Awakens(kernel, kernel')
      /\ kernel'.pxCurrentTCB \in ReadyTasks(kernel') /\ Highest(kernel', {})
  <2>1. CASE asks
    <3>1. kernel' = vTaskSwitchContext(kernel)
      BY <1>1, <2>1 DEF YieldIf
    <3> QED
      BY <1>2, <1>3, <3>1, SwitchOK
  <2>2. CASE ~asks
    <3>1. kernel' = kernel
      BY <1>1, <2>2 DEF YieldIf
    <3> QED
      BY <1>1, <1>2, <1>5, <2>2, <3>1 DEF Switches, Awakens, Wakes, KeepsOrder, SameEvents
  <2> QED
    BY <2>1, <2>2
<1>8. /\ kernel'.uxBasePriority = kernel'.uxPriority /\ ~kernel'.halted
      /\ Known(kernel') = Known(kernel) /\ Idle \in ReadyTasks(kernel')
      /\ \A l \in EventLists : Members(kernel'.event[l]) \subseteq Members(kernel.event[l])
      /\ kernel'.uxSchedulerSuspended = 0 /\ kernel'.pendingReady = <<>>
      /\ KeepsSuspended(kernel, kernel')
  BY <1>2, <1>3, <1>7 DEF Awakens, Wakes, Switches, SameEvents, KeepsSuspended
<1>9. \A l \in EventLists : t \notin Members(kernel'.event[l])
  BY <1>1, <1>2, <1>8 DEF TaskInv, WaiterOf
<1>10. ObjectsOK'
  BY <1>1, <1>2 DEF ObjectsOK, objects
<1>11. c.at \notin SuspendedPlaces
  BY <1>6, Outside DEF CreatePlaces
<1>12. CallOK(t, c, life, cTxLock')
  BY <1>4, <1>6 DEF CallOK, TakePlaces, LockedPlaces, CreatePlaces
<1>13. TaskInv'
  BY <1>1, <1>6, <1>7, <1>8, <1>9, <1>10, <1>11, <1>12, SettledStep
<1> QED
  BY <1>8, <1>13

\* vTaskSuspend takes the task out of every other list and suspends it.
LEMMA SuspendTaskOK ==
    ASSUME TaskInv, NEW t \in Users, t = kernel.pxCurrentTCB,
           call[t].at \in {"task", "suspendNew"},
           NEW u \in Users, u \in Known(kernel),
           Suspended(kernel, kernel', u),
           NEW c \in CallType, call' = [call EXCEPT ![t] = c],
           c.at = IF t = u THEN "yield" ELSE "task",
           UNCHANGED <<objects, life>>
    PROVE  TaskInv' /\ KeepsSuspended(kernel, kernel')
<1>1. /\ t \in Tasks /\ u \in Tasks /\ ObjectsOK /\ Good(kernel) /\ Idle \in ReadyTasks(kernel)
      /\ ~kernel.halted /\ kernel.uxBasePriority = kernel.uxPriority
  BY RunningFacts DEF Users
<1>2. kernel.uxSchedulerSuspended = 0 /\ kernel.pendingReady = <<>>
  BY Outside, UnsuspendedFacts DEF CreatePlaces
<1>3. /\ t \in ReadyTasks(kernel) /\ Highest(kernel, {})
      /\ \A l \in EventLists : t \notin Members(kernel.event[l])
  BY RunningIsReady
<1>4. /\ Good(kernel') /\ Steady(kernel, kernel') /\ EventSets(kernel, kernel', {u})
      /\ StateSets(kernel', ReadyTasks(kernel) \ {u}, Members(kernel.delayed) \ {u},
                   kernel.suspended \cup {u})
  BY DEF Suspended
<1>5. /\ kernel'.uxBasePriority = kernel'.uxPriority /\ ~kernel'.halted
      /\ kernel'.uxSchedulerSuspended = 0 /\ kernel'.pxCurrentTCB = t
      /\ kernel'.uxPriority = kernel.uxPriority
  BY <1>1, <1>2, <1>4 DEF Steady
<1>6. /\ Known(kernel') = Known(kernel) /\ KeepsSuspended(kernel, kernel')
      /\ ReadyTasks(kernel') = ReadyTasks(kernel) \ {u}
  BY <1>4 DEF StateSets, Known, BlockedTasks, KeepsSuspended
<1>7. Idle \in ReadyTasks(kernel')
  BY <1>1, <1>6 DEF Users
<1>8. \A l \in EventLists : /\ Members(kernel'.event[l]) \subseteq Members(kernel.event[l])
                            /\ t \notin Members(kernel'.event[l])
  BY <1>3, <1>4 DEF EventSets
<1>9. kernel'.pendingReady = <<>>
  <2>1. <<>> \in Seq(Tasks) /\ Members(<<>>) = {}
    BY DEF Members
  <2>2. Members(kernel'.pendingReady) = {} /\ kernel'.pendingReady \in Seq(Tasks)
    BY <1>2, <1>4, <2>1 DEF EventSets, Good, KernelOK, KernelType
  <2> QED
    BY <2>2, MembersProperties
<1>10. RunsOn(t, c, kernel')
  <2>1. CASE t = u
    <3>1. c.at = "yield" /\ Except(c) = Tasks
      BY <2>1 DEF Except
    <3>2. Highest(kernel', Tasks)
      BY DEF Highest, ReadyTasks
    <3> QED
      BY <1>5, <3>1, <3>2 DEF RunsOn
  <2>2. CASE t # u
    <3>1. t \in ReadyTasks(kernel') /\ Highest(kernel', {})
      BY <1>3, <1>5, <1>6, <2>2 DEF Highest
    <3> QED
      BY <1>5, <3>1 DEF RunsOn
  <2> QED
    BY <2>1, <2>2
<1>11. ObjectsOK'
  BY <1>1 DEF ObjectsOK, objects
<1>12. CallOK(t, c, life, cTxLock') /\ c.at \notin SuspendedPlaces
  BY Outside DEF CallOK, TakePlaces, LockedPlaces, CreatePlaces
<1>13. /\ kernel'.uxSchedulerSuspended \in {0, 1} /\ ~(kernel'.uxSchedulerSuspended = 1)
       /\ \A l \in EventLists : Members(kernel'.event[l]) \ {t} \subseteq Members(kernel.event[l])
       /\ life' = life
  BY <1>5, <1>8
<1>14. /\ \A l \in EventLists : t \in Members(kernel'.event[l]) =>
              c.obj = l /\ c.at \in {"unlockBlocked", "try"}
       /\ c.at \in SuspendedPlaces <=>
              kernel'.pxCurrentTCB = t /\ kernel'.uxSchedulerSuspended = 1
       /\ kernel'.pxCurrentTCB # t => kernel'.uxSchedulerSuspended = 0
       /\ kernel'.pendingReady # <<>> => kernel'.uxSchedulerSuspended = 1
  BY <1>5, <1>8, <1>9, <1>12, <1>13
<1>15. TaskInv'
  <2>1. Good(kernel')
    BY <1>4
  <2> QED
    BY <1>5, <1>6, <1>7, <1>10, <1>11, <1>12, <1>13, <1>14, <2>1, CallStep
<1> QED
  BY <1>6, <1>15

\* Both ways of suspending a task keep the invariant.
LEMMA SuspendServiceOK ==
    ASSUME TaskInv, NEW t \in Users,
           SuspendNew(t) \/ \E u \in Users : Suspend(t, u)
    PROVE  TaskInv' /\ KeepsSuspended(kernel, kernel')
<1>1. /\ t = kernel.pxCurrentTCB /\ call[t].at \in {"task", "suspendNew"}
      /\ UNCHANGED <<objects, life>>
  BY DEF SuspendNew, Suspend, Serves, In, Running
<1>2. /\ Known(kernel) = {v \in Tasks : life[v] = "alive"} /\ CallOK(t, call[t], life, cTxLock)
      /\ Good(kernel)
  BY <1>1, RunningFacts
<1>3. t \in Known(kernel)
  BY <1>1, RunningIsReady DEF Known
<1>4. CASE SuspendNew(t)
  <2> DEFINE u == call[t].obj
  <2>1. call[t].at = "suspendNew" /\ u \in Users \ {t} /\ u \in Known(kernel)
    BY <1>2, <1>4 DEF SuspendNew, In, CallOK, CreatePlaces, Users
  <2>2. kernel' = [RemoveItems(kernel, u) EXCEPT !.suspended = @ \cup {u}]
    BY <1>4 DEF SuspendNew
  <2>3. call' = [call EXCEPT ![t] = NoCall]
    <3>1. [NoCall EXCEPT !.at = "task", !.obj = NoTask] = NoCall
      BY NoCallAgain
    <3> QED
      BY <1>4, <3>1 DEF SuspendNew, Then
  <2> HIDE DEF u
  <2>4. Suspended(kernel, kernel', u)
    BY <1>2, <2>1, <2>2, SuspendOK DEF Suspended, Users
  <2> QED
    BY <1>1, <2>1, <2>3, <2>4, NoCallType, SuspendTaskOK
<1>5. ASSUME NEW u \in Users, Suspend(t, u) PROVE TaskInv' /\ KeepsSuspended(kernel, kernel')
  <2> DEFINE c == [NoCall EXCEPT !.at = Own(t, u), !.obj = NoTask]
  <2>1. c \in CallType /\ c.at = IF t = u THEN "yield" ELSE "task"
    BY DEF NoCall, CallType, TaskPlaces, Own
  <2>2. /\ call' = [call EXCEPT ![t] = c]
        /\ kernel' = [RemoveItems(kernel, u) EXCEPT !.suspended = @ \cup {u}]
        /\ Alive(u) \/ u = t
    BY <1>5 DEF Suspend, Then
  <2> HIDE DEF c
  <2>3. u \in Known(kernel)
    BY <1>2, <1>3, <2>2 DEF Alive, Users
  <2>4. Suspended(kernel, kernel', u)
    BY <1>2, <2>2, SuspendOK DEF Suspended, Users
  <2> QED
    BY <1>1, <2>1, <2>2, <2>3, <2>4, SuspendTaskOK
<1> QED
  BY <1>4, <1>5

\* prvTaskIsTaskSuspended is true of the tasks that are suspended and wait for nothing.
LEMMA SuspendedFacts ==
    ASSUME NEW k \in KernelType, NEW u, prvTaskIsTaskSuspended(k, u)
    PROVE  u \in Tasks /\ u \in k.suspended /\ u \notin Waiters(k)
BY DEF KernelType, prvTaskIsTaskSuspended, Waiters

\* vTaskResume keeps the invariant.
LEMMA ResumeServiceOK ==
    ASSUME TaskInv, NEW t \in Users, NEW u \in Users, Resume(t, u)
    PROVE  TaskInv' /\ kernel.suspended \ {u} \subseteq kernel'.suspended
<1>1. /\ t = kernel.pxCurrentTCB /\ call[t].at = "task" /\ prvTaskIsTaskSuspended(kernel, u)
      /\ kernel' = YieldIf(kernel.uxPriority[u] >= kernel.uxPriority[t], MakeReady(kernel, u))
      /\ UNCHANGED <<objects, call, life>>
  BY DEF Resume, Serves, In, Running
<1>2. ObjectsOK /\ Good(kernel) /\ ReadyTasks(kernel) # {} /\ kernel \in KernelType
  BY RunningFacts
<1>3. kernel.uxSchedulerSuspended = 0
  BY <1>1, Outside, UnsuspendedFacts
<1>4. u \in Tasks /\ u \in kernel.suspended /\ u \notin Waiters(kernel)
  BY <1>1, <1>2, SuspendedFacts
<1>5. \A X : /\ Undisturbing(kernel, kernel', X)
             /\ kernel.suspended \ {u} \subseteq kernel'.suspended
  BY <1>1, <1>2, <1>3, <1>4, ResumeOK
<1>6. ObjectsOK' /\ cTxLock' = cTxLock
  BY <1>1, <1>2 DEF ObjectsOK, objects
<1> QED
  BY <1>1, <1>5, <1>6, OtherStep

\* While the scheduler is suspended the task goes on the pending list.
LEMMA PendOK ==
    ASSUME NEW k, Good(k), NEW u \in Tasks, u \in k.suspended, u \notin Waiters(k),
           k.uxSchedulerSuspended # 0, NEW X
    PROVE  LET j == [k EXCEPT !.pendingReady = Append(@, u)]
           IN  Undisturbing(k, j, X) /\ j.suspended = k.suspended
<1> DEFINE pending == Append(k.pendingReady, u)
           j == [k EXCEPT !.pendingReady = pending]
<1>1. /\ KernelOK(k) /\ k \in KernelType /\ WaitersAreBlocked(k) /\ StateItemsOK(k)
      /\ EventItemsOK(k)
  BY DEF Good, KernelOK
<1>2. u \notin Members(k.pendingReady) /\ \A l \in EventLists : u \notin Members(k.event[l])
  BY <1>1, WaitersFacts
<1>3. pending \in Seq(Tasks) /\ Distinct(pending) /\ Members(pending) = Members(k.pendingReady) \cup {u}
  <2>1. k.pendingReady \in Seq(Tasks) /\ Distinct(k.pendingReady)
    BY <1>1 DEF KernelType, EventItemsOK
  <2> QED
    BY <1>2, <2>1, AppendMembers
<1> HIDE DEF pending
<1>4. /\ j \in KernelType /\ Steady(k, j) /\ SameStates(k, j) /\ j.event = k.event
      /\ j.pendingReady = pending
  BY <1>1, <1>3 DEF KernelType, Steady, SameStates
<1> HIDE DEF j
<1>5. /\ \A p : ReadyAt(j, p) = ReadyAt(k, p)
      /\ ReadyTasks(j) = ReadyTasks(k) /\ BlockedTasks(j) = BlockedTasks(k)
  BY <1>4 DEF ReadyAt, Ready, ReadyTasks, BlockedTasks, Steady, SameStates
<1>6. StateItemsOK(j)
  BY <1>1, <1>4, <1>5 DEF StateItemsOK, RingOK, Steady, SameStates
<1>7. EventItemsOK(j)
  BY <1>1, <1>2, <1>3, <1>4 DEF EventItemsOK
<1>8. WaitersAreBlocked(j)
  BY <1>1, <1>3, <1>4, <1>5 DEF WaitersAreBlocked, BlockedTasks
<1>9. Good(j) /\ Runs(k, j, X) /\ Known(j) = Known(k)
  BY <1>4, <1>5, <1>6, <1>7, <1>8 DEF Good, KernelOK, Runs, Highest, Steady, Known
<1>10. Undisturbing(k, j, X) /\ j.suspended = k.suspended
  <2>1. Waiters(k) \subseteq Waiters(j)
    BY <1>3, <1>4 DEF Waiters, Pending, Waiting
  <2>2. Wakes(k, j)
    BY <1>4, <1>5, <1>9, <2>1 DEF Wakes, KeepsOrder, Steady
  <2> QED
    BY <1>4, <1>9, <2>2 DEF Undisturbing, Steady, SameStates
<1> QED
  BY <1>10 DEF j, pending

\* xTaskResumeFromISR keeps the invariant.
LEMMA ResumeFromISROK ==
    ASSUME TaskInv, NEW u \in Users, ResumeFromISR(u)
    PROVE  TaskInv' /\ kernel.suspended \ {u} \subseteq kernel'.suspended
<1>1. prvTaskIsTaskSuspended(kernel, u) /\ UNCHANGED <<objects, call, life>>
  BY DEF ResumeFromISR
<1>2. ObjectsOK /\ Good(kernel) /\ ReadyTasks(kernel) # {} /\ kernel \in KernelType
  BY RunningFacts
<1>3. u \in Tasks /\ u \in kernel.suspended /\ u \notin Waiters(kernel)
  BY <1>1, <1>2, SuspendedFacts
<1>4. \A X : /\ Undisturbing(kernel, kernel', X)
             /\ kernel.suspended \ {u} \subseteq kernel'.suspended
  <2>1. CASE /\ kernel.uxSchedulerSuspended = 0
             /\ kernel' = YieldIf(kernel.uxPriority[u] >= kernel.uxPriority[kernel.pxCurrentTCB],
                                  MakeReady(kernel, u))
    BY <1>2, <1>3, <2>1, ResumeOK
  <2>2. CASE /\ kernel.uxSchedulerSuspended # 0
             /\ kernel' = [kernel EXCEPT !.pendingReady = Append(@, u)]
    BY <1>2, <1>3, <2>2, PendOK
  <2> QED
    BY <2>1, <2>2 DEF ResumeFromISR
<1>5. ObjectsOK' /\ cTxLock' = cTxLock
  BY <1>1, <1>2 DEF ObjectsOK, objects
<1> QED
  BY <1>1, <1>4, <1>5, OtherStep

\* vTaskDelay keeps the invariant.
LEMMA SleepOK ==
    ASSUME TaskInv, NEW t \in Users, Sleep(t)
    PROVE  TaskInv' /\ KeepsSuspended(kernel, kernel')
<1>1. t = kernel.pxCurrentTCB /\ call[t].at = "task" /\ UNCHANGED <<objects, call, life>>
  BY DEF Sleep, Serves, In, Running
<1>2. PICK ticks \in SleepTicks : kernel' = ResumeAndYield(
           prvAddCurrentTaskToDelayedList(vTaskSuspendAll(kernel), ticks))
  BY DEF Sleep
<1>3. /\ t \in Tasks /\ ObjectsOK /\ Good(kernel) /\ Idle \in ReadyTasks(kernel)
      /\ kernel \in KernelType /\ call \in [Tasks -> CallType]
      /\ ~kernel.halted /\ kernel.uxBasePriority = kernel.uxPriority
      /\ CallOK(t, call[t], life, cTxLock)
  BY <1>1, RunningFacts
<1>4. kernel.uxSchedulerSuspended = 0
  BY <1>1, Outside, UnsuspendedFacts
<1>5. /\ t \in ReadyTasks(kernel) /\ t \notin kernel.suspended
      /\ \A l \in EventLists : t \notin Members(kernel.event[l])
  BY <1>1, RunningIsReady
<1> DEFINE h == vTaskSuspendAll(kernel)
           i == prvAddCurrentTaskToDelayedList(h, ticks)
<1>6. /\ h \in KernelType /\ SameStates(kernel, h) /\ SameEvents(kernel, h)
      /\ h.uxPriority = kernel.uxPriority /\ h.uxBasePriority = kernel.uxBasePriority
      /\ h.halted = kernel.halted /\ h.pxCurrentTCB = t /\ h.uxSchedulerSuspended = 1
  <2>1. h = [kernel EXCEPT !.uxSchedulerSuspended = 1]
    BY <1>3, <1>4 DEF vTaskSuspendAll, KernelType
  <2> HIDE DEF h
  <2>2. h \in KernelType /\ h.uxSchedulerSuspended = 1
    BY <1>3, <2>1 DEF KernelType
  <2> QED
    BY <1>1, <1>3, <2>1, <2>2 DEF KernelType, SameStates, SameEvents
<1> HIDE DEF h
<1>7. /\ Good(h) /\ ReadyTasks(h) = ReadyTasks(kernel) /\ Known(h) = Known(kernel)
      /\ BlockedTasks(h) = BlockedTasks(kernel)
  BY <1>1, <1>3, <1>6, SameLists DEF BlockedTasks, SameStates
<1>8. /\ KernelOK(i) /\ Quiet(h, i) /\ SameEvents(h, i)
      /\ ReadyTasks(i) = ReadyTasks(h) \ {t} /\ BlockedTasks(i) = BlockedTasks(h) \cup {t}
      /\ i.suspended \ {t} = h.suspended \ {t}
  <2>1. ticks \in Int /\ KernelOK(h)
    BY <1>7, TaskAssumption DEF Good
  <2> QED
    BY <1>6, <2>1, DelayOK
<1> HIDE DEF i
<1>9. Good(i) /\ i.uxSchedulerSuspended = 1 /\ Idle \in ReadyTasks(i)
  BY <1>3, <1>6, <1>7, <1>8 DEF Good, WaitersAreBlocked, SameEvents, Quiet, Steady, Users
<1>10. /\ Settled(i, kernel', {}) /\ kernel'.uxSchedulerSuspended = 0
       /\ kernel'.pendingReady = <<>>
       /\ kernel'.pxCurrentTCB \in ReadyTasks(kernel') /\ Highest(kernel', {})
  <2>1. kernel' = ResumeAndYield(i)
    BY <1>2 DEF i, h
  <2> QED
    BY <1>9, <2>1, ResumeAndYieldSettles
<1>11. Good(kernel') /\ Awakens(i, kernel')
  BY <1>10 DEF Settled
<1>12. /\ kernel'.uxBasePriority = kernel'.uxPriority /\ ~kernel'.halted
       /\ Idle \in ReadyTasks(kernel')
       /\ \A l \in EventLists : Members(kernel'.event[l]) \subseteq Members(kernel.event[l])
  BY <1>3, <1>6, <1>8, <1>9, <1>11 DEF Awakens, Wakes, Quiet, Steady, SameEvents
<1>13. Known(kernel') = Known(kernel)
  BY <1>5, <1>7, <1>8, <1>11 DEF Awakens, Wakes, Known
<1>14. KeepsSuspended(kernel, kernel')
  <2>1. Waiters(i) = Waiters(kernel)
    BY <1>6, <1>8 DEF Waiters, Waiting, Pending, SameEvents
  <2>2. kernel.suspended \subseteq i.suspended
    BY <1>5, <1>6, <1>8 DEF SameStates
  <2> QED
    BY <1>11, <2>1, <2>2 DEF Awakens, Wakes, KeepsSuspended
<1> DEFINE c == call[t]
<1>15. c \in CallType /\ call' = [call EXCEPT ![t] = c] /\ life' = life
  BY <1>1, <1>3
<1>16. ObjectsOK' /\ cTxLock' = cTxLock
  BY <1>1, <1>3 DEF ObjectsOK, objects
<1>17. c.at \notin SuspendedPlaces /\ CallOK(t, c, life, cTxLock')
  BY <1>1, <1>3, <1>16, Outside
<1>18. \A l \in EventLists : t \notin Members(kernel'.event[l])
  BY <1>5, <1>12
<1> HIDE DEF c
<1>19. TaskInv'
  BY <1>1, <1>10, <1>11, <1>12, <1>13, <1>15, <1>16, <1>17, <1>18, SettledStep
<1> QED
  BY <1>14, <1>19

\* The task that is destroyed is in no list any more and calls nothing.
LEMMA DestroyOK ==
    ASSUME TaskInv, NEW t \in Users, NEW u \in Users, Destroy(t, u)
    PROVE  TaskInv' /\ kernel.suspended \ {u} \subseteq kernel'.suspended
<1>1. /\ t = kernel.pxCurrentTCB /\ call[t].at = "task" /\ UNCHANGED objects
      /\ Alive(u) /\ kernel' = RemoveItems(kernel, u)
      /\ life' = [life EXCEPT ![u] = IF t = u THEN "terminating" ELSE "none"]
      /\ call' = [call EXCEPT ![u] = [NoCall EXCEPT !.at = Own(t, u)]]
  BY DEF Destroy, Serves, In, Running
<1>2. /\ t \in Tasks /\ u \in Tasks /\ ObjectsOK /\ Good(kernel) /\ Idle \in ReadyTasks(kernel)
      /\ call \in [Tasks -> CallType] /\ ~kernel.halted
      /\ kernel.uxBasePriority = kernel.uxPriority
      /\ CallOK(t, call[t], life, cTxLock) /\ Known(kernel) = {v \in Tasks : life[v] = "alive"}
  BY <1>1, RunningFacts DEF Users
<1>3. life \in [Tasks -> {"none", "alive", "terminating"}]
  BY DEF TaskInv, TaskTypeOK
<1>4. kernel.uxSchedulerSuspended = 0 /\ kernel.pendingReady = <<>>
  BY <1>1, Outside, UnsuspendedFacts
<1>5. /\ t \in ReadyTasks(kernel) /\ Highest(kernel, {})
      /\ \A l \in EventLists : t \notin Members(kernel.event[l])
  BY <1>1, RunningIsReady
<1>6. /\ Good(kernel') /\ Quiet(kernel, kernel') /\ EventSets(kernel, kernel', {u})
      /\ StateSets(kernel', ReadyTasks(kernel) \ {u}, Members(kernel.delayed) \ {u},
                   kernel.suspended \ {u})
  BY <1>1, <1>2, RemoveItemsOK
<1> DEFINE c == [NoCall EXCEPT !.at = Own(t, u)]
<1>7. /\ c \in CallType /\ c.at = IF t = u THEN "yield" ELSE "task"
      /\ t # u => c = NoCall
  <2>1. c \in CallType /\ c.at = IF t = u THEN "yield" ELSE "task"
    BY DEF NoCall, CallType, TaskPlaces, Own
  <2>2. t # u => c = NoCall
    BY NoCallAgain DEF Own
  <2> QED
    BY <2>1, <2>2
<1>8. call' = [call EXCEPT ![u] = c]
  BY <1>1
<1> HIDE DEF c
<1>9. /\ call' \in [Tasks -> CallType] /\ call'[u] = c
      /\ \A v \in Tasks \ {u} : call'[v] = call[v]
  BY <1>2, <1>7, <1>8
<1>10. /\ life' \in [Tasks -> {"none", "alive", "terminating"}] /\ life'[u] # "alive"
       /\ \A v \in Tasks \ {u} : life'[v] = life[v]
  BY <1>1, <1>2, <1>3
<1>11. /\ kernel'.uxBasePriority = kernel'.uxPriority /\ ~kernel'.halted
       /\ kernel'.uxSchedulerSuspended = 0 /\ kernel'.pxCurrentTCB = t
       /\ kernel'.uxPriority = kernel.uxPriority
  BY <1>1, <1>2, <1>4, <1>6 DEF Quiet, Steady
<1>12. /\ ReadyTasks(kernel') = ReadyTasks(kernel) \ {u}
       /\ Known(kernel') = Known(kernel) \ {u}
       /\ kernel.suspended \ {u} \subseteq kernel'.suspended
  BY <1>6 DEF StateSets, Known, BlockedTasks
<1>13. Known(kernel') = {v \in Tasks : life'[v] = "alive"}
  BY <1>2, <1>10, <1>12
<1>14. Ready(kernel', Idle) /\ call'[Idle] = NoCall
  BY <1>2, <1>9, <1>12 DEF ReadyTasks, Users, TaskInv, LifeInv
<1>15. \A l \in EventLists : /\ Members(kernel'.event[l]) \subseteq Members(kernel.event[l])
                             /\ u \notin Members(kernel'.event[l])
  BY <1>6 DEF EventSets
<1>16. \A v \in Tasks \ {t} :
           \/ /\ call'[v] = call[v]
              /\ call[v].at \in CreatePlaces => life'[call[v].obj] = "alive"
              /\ \A l \in EventLists :
                     v \in Members(kernel'.event[l]) => v \in Members(kernel.event[l])
           \/ call'[v] = NoCall /\ \A l \in EventLists : v \notin Members(kernel'.event[l])
  <2> SUFFICES ASSUME NEW v \in Tasks \ {t}, v # u
               PROVE  call[v].at \in CreatePlaces => life'[call[v].obj] = "alive"
    BY <1>7, <1>9, <1>15
  <2>1. SUFFICES ASSUME call[v].at \in CreatePlaces PROVE life'[call[v].obj] = "alive"
    OBVIOUS
  <2>2. call[v].obj \in Tasks /\ life[call[v].obj] = "alive"
    BY <2>1 DEF TaskInv, ObjectOf, Users
  <2>3. call[v].obj # u
    BY <1>1, <2>1 DEF Alive, BeingCreated, CreatePlaces
  <2> QED
    BY <1>10, <2>2, <2>3
<1>17. CallOK(t, call'[t], life', cTxLock') /\ call'[t].at \notin SuspendedPlaces
       /\ call'[t].at = IF t = u THEN "yield" ELSE "task"
  <2>1. call'[t].at = IF t = u THEN "yield" ELSE "task"
    BY <1>1, <1>2, <1>7, <1>9
  <2> QED
    BY <2>1, Outside DEF CallOK, TakePlaces, LockedPlaces, CreatePlaces
<1>18. RunsOn(t, call'[t], kernel')
  <2>1. CASE t = u
    <3>1. call'[t].at = "yield" /\ Except(call'[t]) = Tasks
      BY <1>17, <2>1 DEF Except
    <3>2. Highest(kernel', Tasks)
      BY DEF Highest, ReadyTasks
    <3> QED
      BY <1>11, <3>1, <3>2 DEF RunsOn
  <2>2. CASE t # u
    <3>1. t \in ReadyTasks(kernel') /\ Highest(kernel', {})
      BY <1>1, <1>5, <1>11, <1>12, <2>2 DEF Highest
    <3> QED
      BY <1>11, <3>1 DEF RunsOn
  <2> QED
    BY <2>1, <2>2
<1>19. kernel'.pendingReady = <<>>
  <2>1. <<>> \in Seq(Tasks) /\ Members(<<>>) = {}
    BY DEF Members
  <2>2. Members(kernel'.pendingReady) = {} /\ kernel'.pendingReady \in Seq(Tasks)
    BY <1>4, <1>6, <2>1 DEF EventSets, Good, KernelOK, KernelType
  <2> QED
    BY <2>2, MembersProperties
<1>20. ObjectsOK'
  BY <1>1, <1>2 DEF ObjectsOK, objects
<1>21. /\ \A l \in EventLists : t \in Members(kernel'.event[l]) =>
              call'[t].obj = l /\ call'[t].at \in {"unlockBlocked", "try"}
       /\ kernel'.uxSchedulerSuspended \in {0, 1}
       /\ call'[t].at \in SuspendedPlaces <=>
              kernel'.pxCurrentTCB = t /\ kernel'.uxSchedulerSuspended = 1
       /\ kernel'.pxCurrentTCB # t => kernel'.uxSchedulerSuspended = 0
       /\ kernel'.pendingReady # <<>> => kernel'.uxSchedulerSuspended = 1
  BY <1>5, <1>11, <1>15, <1>17, <1>19
<1>22. PlainInv' /\ Good(kernel')
  BY <1>6, <1>11 DEF PlainInv
<1>23. TaskInv'
  BY ZenonT(40), <1>1, <1>2, <1>9, <1>10, <1>13, <1>14, <1>16, <1>17, <1>18, <1>20, <1>21, <1>22, StepOK
<1> QED
  BY <1>12, <1>23

\* The beginning of xTaskAbortDelay, which suspends the scheduler, keeps the invariant.
LEMMA WaitAbortOK ==
    ASSUME TaskInv, NEW t \in Users, NEW u \in Users, WaitAbort(t, u)
    PROVE  TaskInv' /\ KeepsSuspended(kernel, kernel')
<1>1. /\ t = kernel.pxCurrentTCB /\ call[t].at = "task" /\ UNCHANGED <<objects, life>>
      /\ u # t /\ kernel' = [kernel EXCEPT !.uxSchedulerSuspended = @ + 1]
      /\ Then(t, "abort", u)
  BY DEF WaitAbort, Serves, In, Running, vTaskSuspendAll
<1>2. /\ kernel \in KernelType /\ t \in Tasks /\ u \in Tasks /\ ObjectsOK
      /\ call \in [Tasks -> CallType]
  BY RunningFacts DEF Users
<1>3. kernel.uxSchedulerSuspended = 0
  BY <1>1, Outside, UnsuspendedFacts
<1> DEFINE c == [NoCall EXCEPT !.at = "abort", !.obj = u]
<1>4. c \in CallType /\ c.at = "abort" /\ c.obj = u
  BY <1>2 DEF NoCall, CallType, TaskPlaces
<1>5. call' = [call EXCEPT ![t] = c]
  BY <1>1 DEF Then
<1> HIDE DEF c
<1>6. CallOK(t, c, life, cTxLock')
  BY <1>1, <1>4 DEF CallOK, TakePlaces, LockedPlaces, CreatePlaces
<1>7. /\ kernel' \in KernelType /\ SameStates(kernel, kernel') /\ SameEvents(kernel, kernel')
      /\ kernel'.uxPriority = kernel.uxPriority /\ kernel'.uxBasePriority = kernel.uxBasePriority
      /\ kernel'.halted = kernel.halted /\ kernel'.pxCurrentTCB = t
      /\ kernel'.uxSchedulerSuspended = 1 /\ kernel'.uxSchedulerSuspended \in {0, 1}
      /\ kernel.uxSchedulerSuspended = 1 => kernel'.uxSchedulerSuspended = 1
  <2>1. kernel' = [kernel EXCEPT !.uxSchedulerSuspended = 1]
    BY <1>1, <1>2, <1>3 DEF KernelType
  <2>2. kernel' \in KernelType /\ kernel'.uxSchedulerSuspended = 1
    BY <1>2, <2>1 DEF KernelType
  <2>3. /\ SameStates(kernel, kernel') /\ SameEvents(kernel, kernel')
        /\ kernel'.uxPriority = kernel.uxPriority /\ kernel'.uxBasePriority = kernel.uxBasePriority
        /\ kernel'.halted = kernel.halted /\ kernel'.pxCurrentTCB = kernel.pxCurrentTCB
    BY <1>2, <2>1 DEF KernelType, SameStates, SameEvents
  <2> QED
    BY <1>1, <2>2, <2>3
<1>8. c.at \in SuspendedPlaces
  BY <1>4, Outside
<1>9. ObjectsOK' /\ call[t].at \notin {"yield", "unlockBlocked", "created", "dontStart"}
      /\ life' = life
  BY <1>1, <1>2 DEF ObjectsOK, objects
<1> QED
  BY <1>1, <1>4, <1>5, <1>6, <1>7, <1>8, <1>9, PlainStep

\* The wait of u is cut short, or it had ended.
LEMMA UnblockOK ==
    ASSUME NEW k, Good(k), k.uxSchedulerSuspended = 1, Highest(k, {}), NEW t, t = k.pxCurrentTCB,
           NEW u \in Tasks
    PROVE  LET j == IF Blocked(k, u) THEN Unblock(k, t, u) ELSE k
           IN  /\ Good(j) /\ Steady(k, j) /\ Awakens(k, j) /\ Covered(j, {})
<1>1. CASE ~Blocked(k, u)
  BY <1>1 DEF Steady, Awakens, Wakes, KeepsOrder, Covered
<1>2. CASE Blocked(k, u)
  <2> DEFINE i == TimeOut(k, u)
             aborted == [i.ucDelayAborted EXCEPT ![u] = @ \/ Waiting(k, u) \/ Pending(k, u)]
             yields == i.xYieldPending \/ k.uxPriority[u] > k.uxPriority[t]
             j == Unblock(k, t, u)
  <2>1. k \in KernelType /\ KernelOK(k) /\ k.pxCurrentTCB \in Tasks
    BY DEF Good, KernelOK, KernelType
  <2>2. Moved(k, i, {u}) /\ i \in KernelType
    BY <2>1, TimeOutOK
  <2>3. {u} \subseteq Waiters(k) \cup Members(k.delayed)
    BY <1>2 DEF Blocked, Waiters
  <2>4. Good(i) /\ Awakens(k, i)
    <3> HIDE DEF i
    <3> QED
      BY <2>2, <2>3, MovedAwakens
  <2>5. i.xYieldPending \in BOOLEAN /\ i.ucDelayAborted \in [Tasks -> BOOLEAN]
    <3> HIDE DEF i
    <3> QED
      BY <2>2 DEF KernelType
  <2>6. j = [i EXCEPT !.ucDelayAborted = aborted, !.xYieldPending = yields]
    <3>1. j = [i EXCEPT !.ucDelayAborted[u] = @ \/ Waiting(k, u) \/ Pending(k, u),
                        !.xYieldPending = @ \/ k.uxPriority[u] > k.uxPriority[t]]
      BY DEF Unblock, TimeOut
    <3> HIDE DEF i, j
    <3> QED
      BY <2>2, <3>1 DEF KernelType
  <2>7. aborted \in [Tasks -> BOOLEAN] /\ yields \in BOOLEAN
    <3> HIDE DEF i
    <3>1. (Waiting(k, u) \/ Pending(k, u)) \in BOOLEAN
      BY DEF Waiting, Pending
    <3>2. i.ucDelayAborted[u] \in BOOLEAN
      BY <2>5
    <3>3. (i.ucDelayAborted[u] \/ Waiting(k, u) \/ Pending(k, u)) \in BOOLEAN
      BY <3>1, <3>2
    <3> QED
      BY <2>5, <3>3
  <2> HIDE DEF i, aborted, yields, j
  <2>8. j \in KernelType /\ j.xYieldPending = yields
    BY <2>2, <2>6, <2>7 DEF KernelType
  <2>9. SameStates(i, j) /\ SameEvents(i, j) /\ Steady(i, j)
    BY <2>2, <2>6 DEF KernelType, SameStates, SameEvents, Steady
  <2>10. /\ Good(j) /\ ReadyTasks(j) = ReadyTasks(i) /\ Known(j) = Known(i)
         /\ \A X : Highest(i, X) => Highest(j, X)
    BY <2>4, <2>8, <2>9, SameLists DEF Steady
  <2>11. Awakens(i, j)
    BY <2>9, <2>10 DEF Awakens, Wakes, KeepsOrder, Steady, SameStates, SameEvents, Waiters, Waiting,
                       Pending
  <2>12. Awakens(k, j)
    BY <2>4, <2>11, AwakensTransitive
  <2>13. Steady(k, i) /\ ReadyTasks(i) = ReadyTasks(k) \cup {u}
    BY <2>2 DEF Moved, StateSets
  <2>14. Covered(j, {})
    <3>1. k.uxPriority[u] \in Nat /\ k.uxPriority[t] \in Nat
      <4>1. k.uxPriority \in [Tasks -> Priorities]
        BY <2>1 DEF KernelType
      <4> QED
        BY <2>1, <4>1 DEF Priorities, configMAX_PRIORITIES
    <3>2. CASE k.uxPriority[u] > k.uxPriority[t]
      BY <2>8, <3>2 DEF Covered, yields
    <3>3. CASE k.uxPriority[u] <= k.uxPriority[t]
      BY <2>10, <2>13, <3>3 DEF Covered, Highest, Steady
    <3> QED
      BY <3>1, <3>2, <3>3
  <2>15. Steady(k, j)
    BY <2>9, <2>13 DEF Steady
  <2> QED
    BY <1>2, <2>10, <2>12, <2>14, <2>15 DEF j
<1> QED
  BY <1>1, <1>2

\* The rest of xTaskAbortDelay, which ends the wait and resumes the scheduler, keeps the
\* invariant.
LEMMA AbortOK ==
    ASSUME TaskInv, NEW t \in Users, Abort(t)
    PROVE  TaskInv' /\ KeepsSuspended(kernel, kernel')
<1> DEFINE u == call[t].obj
           k == IF Blocked(kernel, u) THEN Unblock(kernel, t, u) ELSE kernel
<1>1. /\ t = kernel.pxCurrentTCB /\ call[t].at = "abort"
      /\ kernel' = xTaskResumeAll(k) /\ Then(t, "task", NoTask) /\ UNCHANGED <<objects, life>>
  BY DEF Abort, In, Running
<1>2. /\ t \in Tasks /\ ObjectsOK /\ Good(kernel) /\ Idle \in ReadyTasks(kernel)
      /\ ~kernel.halted /\ kernel.uxBasePriority = kernel.uxPriority
      /\ CallOK(t, call[t], life, cTxLock)
      /\ call[t].at \in SuspendedPlaces <=> kernel.uxSchedulerSuspended = 1
  BY <1>1, RunningFacts
<1>3. kernel.uxSchedulerSuspended = 1
  BY <1>1, <1>2, Outside
<1>4. u \in Tasks
  BY <1>1, <1>2 DEF CallOK, Users
<1>5. /\ t \in ReadyTasks(kernel) /\ Highest(kernel, {})
      /\ \A l \in EventLists : t \notin Members(kernel.event[l])
  BY <1>1, RunningIsReady
<1> HIDE DEF u
<1>6. Good(k) /\ Steady(kernel, k) /\ Awakens(kernel, k) /\ Covered(k, {})
  BY <1>1, <1>2, <1>3, <1>4, <1>5, UnblockOK
<1> HIDE DEF k
<1>7. k.uxSchedulerSuspended = 1 /\ ReadyTasks(k) # {} /\ k.pxCurrentTCB = t
  BY <1>1, <1>2, <1>3, <1>6 DEF Awakens, Wakes, Steady
<1>8. /\ Good(kernel') /\ Awakens(k, kernel') /\ kernel'.uxSchedulerSuspended = 0
      /\ kernel'.pendingReady = <<>> /\ Highest(kernel', {})
      /\ kernel'.pxCurrentTCB = t \/ kernel'.pxCurrentTCB \in ReadyTasks(kernel')
  BY <1>1, <1>6, <1>7, ResumeAllSettles
<1>9. Awakens(kernel, kernel')
  BY <1>6, <1>8, AwakensTransitive
<1>10. /\ kernel'.uxBasePriority = kernel'.uxPriority /\ ~kernel'.halted
       /\ Known(kernel') = Known(kernel) /\ Idle \in ReadyTasks(kernel')
       /\ \A l \in EventLists : Members(kernel'.event[l]) \subseteq Members(kernel.event[l])
       /\ KeepsSuspended(kernel, kernel') /\ kernel'.pxCurrentTCB \in ReadyTasks(kernel')
  BY <1>2, <1>5, <1>8, <1>9 DEF Awakens, Wakes, KeepsSuspended
<1>11. \A l \in EventLists : t \notin Members(kernel'.event[l])
  BY <1>5, <1>10
<1>12. ObjectsOK' /\ life' = life
  BY <1>1, <1>2 DEF ObjectsOK, objects
<1>13. call' = [call EXCEPT ![t] = NoCall]
  BY <1>1, NoCallAgain DEF Then
<1>14. NoCall.at \notin SuspendedPlaces /\ NoCall \in CallType /\ CallOK(t, NoCall, life, cTxLock')
  BY NoCallType, Outside
<1>15. TaskInv'
  BY <1>1, <1>8, <1>10, <1>11, <1>12, <1>13, <1>14, SettledStep
<1> QED
  BY <1>10, <1>15

\* The new priority, and the yield it may need.
LEMMA SetPriorityOK ==
    ASSUME NEW k, Good(k), k.uxBasePriority = k.uxPriority, NEW u \in Tasks, NEW p \in Priorities
    PROVE  LET j == SetPriority(k, u, p)
           IN  /\ Good(j) /\ SameEvents(k, j)
               /\ StateSets(j, ReadyTasks(k), Members(k.delayed), k.suspended)
               /\ j.uxPriority = [k.uxPriority EXCEPT ![u] = p]
               /\ j.uxBasePriority = [k.uxPriority EXCEPT ![u] = p]
               /\ j.pxCurrentTCB = k.pxCurrentTCB /\ j.halted = k.halted
               /\ j.uxSchedulerSuspended = k.uxSchedulerSuspended
<1> DEFINE base == [k.uxBasePriority EXCEPT ![u] = p]
           events == [k.eventPriority EXCEPT ![u] = p]
           i == [k EXCEPT !.uxBasePriority = base, !.eventPriority = events]
           j == SetPriority(k, u, p)
<1>1. k \in KernelType /\ KernelOK(k) /\ WaitersAreBlocked(k)
  BY DEF Good, KernelOK
<1>2. j = MoveReady(i, u, p)
  <2>1. i = [k EXCEPT !.uxBasePriority[u] = p, !.eventPriority[u] = p]
    BY <1>1 DEF KernelType
  <2> HIDE DEF i
  <2> QED
    BY <2>1 DEF SetPriority
<1>3. base \in [Tasks -> Priorities] /\ events \in [Tasks -> Priorities]
  BY <1>1 DEF KernelType
<1> HIDE DEF base, events
<1>4. i \in KernelType /\ i.uxBasePriority = base
  BY <1>1, <1>3 DEF KernelType
<1>5. /\ SameStates(k, i) /\ SameEvents(k, i) /\ i.uxPriority = k.uxPriority
      /\ i.pxCurrentTCB = k.pxCurrentTCB /\ i.halted = k.halted
      /\ i.uxSchedulerSuspended = k.uxSchedulerSuspended
  BY <1>1 DEF KernelType, SameStates, SameEvents
<1> HIDE DEF i
<1>6. KernelOK(i) /\ ReadyTasks(i) = ReadyTasks(k) /\ BlockedTasks(i) = BlockedTasks(k)
  BY <1>1, <1>4, <1>5, OtherFields
<1>7. /\ KernelOK(j) /\ SameEvents(i, j)
      /\ StateSets(j, ReadyTasks(i), Members(i.delayed), i.suspended)
      /\ j.uxPriority = [i.uxPriority EXCEPT ![u] = p]
      /\ j.uxBasePriority = i.uxBasePriority
      /\ j.pxCurrentTCB = i.pxCurrentTCB /\ j.halted = i.halted
      /\ j.uxSchedulerSuspended = i.uxSchedulerSuspended
  BY <1>2, <1>6, MoveReadyOK
<1> HIDE DEF j
<1>8. WaitersAreBlocked(j)
  BY <1>1, <1>5, <1>7 DEF WaitersAreBlocked, SameEvents, SameStates, StateSets, BlockedTasks
<1>9. j.uxBasePriority = [k.uxPriority EXCEPT ![u] = p]
  BY <1>4, <1>7 DEF base
<1>10. /\ SameEvents(k, j) /\ StateSets(j, ReadyTasks(k), Members(k.delayed), k.suspended)
  BY <1>5, <1>6, <1>7 DEF SameEvents, SameStates, StateSets
<1> QED
  BY <1>5, <1>7, <1>8, <1>9, <1>10 DEF Good, j

\* vTaskPrioritySet keeps the invariant.
LEMMA PriorityChangeOK ==
    ASSUME TaskInv, NEW t \in Users, NEW u \in Users, PriorityChange(t, u)
    PROVE  TaskInv' /\ KeepsSuspended(kernel, kernel')
<1>1. t = kernel.pxCurrentTCB /\ call[t].at = "task" /\ UNCHANGED <<objects, call, life>>
  BY DEF PriorityChange, Serves, In, Running
<1>2. PICK p \in 0 .. D_MAX_PRIORITY :
          kernel' = YieldIf(PrioritySetYields(kernel, t, u, p), SetPriority(kernel, u, p))
  BY DEF PriorityChange
<1>3. /\ t \in Tasks /\ u \in Tasks /\ ObjectsOK /\ Good(kernel) /\ Idle \in ReadyTasks(kernel)
      /\ kernel \in KernelType /\ call \in [Tasks -> CallType]
      /\ ~kernel.halted /\ kernel.uxBasePriority = kernel.uxPriority
      /\ CallOK(t, call[t], life, cTxLock)
  BY <1>1, RunningFacts DEF Users
<1>4. kernel.uxSchedulerSuspended = 0 /\ kernel.pendingReady = <<>>
  BY <1>1, Outside, UnsuspendedFacts
<1>5. /\ t \in ReadyTasks(kernel) /\ Highest(kernel, {})
      /\ \A l \in EventLists : t \notin Members(kernel.event[l])
  BY <1>1, RunningIsReady
<1> DEFINE i == SetPriority(kernel, u, p)
           asks == PrioritySetYields(kernel, t, u, p)
<1>6. p \in Priorities
  BY DEF Priorities, D_MAX_PRIORITY
<1>7. /\ Good(i) /\ SameEvents(kernel, i)
      /\ StateSets(i, ReadyTasks(kernel), Members(kernel.delayed), kernel.suspended)
      /\ i.uxPriority = [kernel.uxPriority EXCEPT ![u] = p]
      /\ i.uxBasePriority = [kernel.uxPriority EXCEPT ![u] = p]
      /\ i.pxCurrentTCB = kernel.pxCurrentTCB /\ i.halted = kernel.halted
      /\ i.uxSchedulerSuspended = kernel.uxSchedulerSuspended
  BY <1>3, <1>6, SetPriorityOK
<1>8. kernel' = IF asks THEN vTaskSwitchContext(i) ELSE i
  BY <1>2 DEF YieldIf
<1> HIDE DEF i
<1>9. Known(i) = Known(kernel) /\ ReadyTasks(i) = ReadyTasks(kernel) /\ i.suspended = kernel.suspended
  BY <1>7 DEF StateSets, Known, BlockedTasks
<1>10. ~asks => Highest(i, {})
  <2> SUFFICES ASSUME ~asks, NEW v \in ReadyTasks(i)
               PROVE  i.uxPriority[v] <= i.uxPriority[t]
    BY <1>1, <1>7 DEF Highest
  <2>1. kernel.uxPriority \in [Tasks -> Nat] /\ p \in Nat
    <3>1. kernel.uxPriority \in [Tasks -> Priorities]
      BY <1>3 DEF KernelType
    <3> QED
      BY <1>6, <3>1 DEF Priorities, configMAX_PRIORITIES
  <2>2. v \in Tasks /\ kernel.uxPriority[v] <= kernel.uxPriority[t]
    BY <1>1, <1>5, <1>9 DEF Highest, ReadyTasks
  <2>3. ~(\/ kernel.uxPriority[u] < p /\ u # t /\ p >= kernel.uxPriority[t]
          \/ kernel.uxPriority[u] > p /\ u = t)
    BY <1>3 DEF PrioritySetYields
  <2>4. \A w \in Tasks : i.uxPriority[w] = IF w = u THEN p ELSE kernel.uxPriority[w]
    BY <1>3, <1>7, <2>1
  <2>5. /\ kernel.uxPriority[v] \in Nat /\ kernel.uxPriority[t] \in Nat
        /\ kernel.uxPriority[u] \in Nat
    BY <1>3, <2>1, <2>2
  <2>6. CASE v = u
    BY <1>3, <2>1, <2>2, <2>3, <2>4, <2>5, <2>6
  <2>7. CASE v # u
    BY <1>3, <2>1, <2>2, <2>3, <2>4, <2>5, <2>7
  <2> QED
    BY <2>6, <2>7
<1> HIDE DEF asks
<1>11. /\ Good(kernel') /\ Switches(i, kernel')
       /\ kernel'.pxCurrentTCB \in ReadyTasks(kernel') /\ Highest(kernel', {})
  <2>1. CASE asks
    BY <1>4, <1>5, <1>7, <1>8, <1>9, <2>1, SwitchOK
  <2>2. CASE ~asks
    BY <1>1, <1>5, <1>7, <1>8, <1>9, <1>10, <2>2 DEF Switches, SameEvents
  <2> QED
    BY <2>1, <2>2
<1>12. /\ kernel'.uxBasePriority = kernel'.uxPriority /\ ~kernel'.halted
       /\ kernel'.uxSchedulerSuspended = 0 /\ kernel'.pendingReady = <<>>
       /\ Idle \in ReadyTasks(kernel') /\ SameEvents(kernel, kernel')
  BY <1>3, <1>4, <1>7, <1>9, <1>11 DEF Switches, SameEvents
<1>13. Known(kernel') = Known(kernel) /\ KeepsSuspended(kernel, kernel')
  BY <1>9, <1>11 DEF Switches, Known, BlockedTasks, KeepsSuspended
<1> DEFINE c == call[t]
<1>14. c \in CallType /\ call' = [call EXCEPT ![t] = c] /\ life' = life
  BY <1>1, <1>3
<1>15. ObjectsOK' /\ cTxLock' = cTxLock
  BY <1>1, <1>3 DEF ObjectsOK, objects
<1>16. c.at \notin SuspendedPlaces /\ CallOK(t, c, life, cTxLock')
  BY <1>1, <1>3, <1>15, Outside
<1>17. \A l \in EventLists : /\ Members(kernel'.event[l]) \subseteq Members(kernel.event[l])
                             /\ t \notin Members(kernel'.event[l])
  BY <1>5, <1>12 DEF SameEvents
<1> HIDE DEF c
<1>18. TaskInv'
  BY <1>1, <1>11, <1>12, <1>13, <1>14, <1>15, <1>16, <1>17, SettledStep
<1> QED
  BY <1>13, <1>18

\* A task that did not exist is ready.
LEMMA NewTaskOK ==
    ASSUME NEW k, Good(k), NEW u \in Tasks, u \notin Known(k)
    PROVE  LET j == prvAddTaskToReadyList(prvInitialiseNewTask(k, u), u)
           IN  /\ Good(j) /\ SameEvents(k, j)
               /\ StateSets(j, ReadyTasks(k) \cup {u}, Members(k.delayed), k.suspended)
               /\ j.uxPriority = [k.uxPriority EXCEPT ![u] = uxInitialPriority[u]]
               /\ j.uxBasePriority = [k.uxBasePriority EXCEPT ![u] = uxInitialPriority[u]]
               /\ j.pxCurrentTCB = k.pxCurrentTCB /\ j.halted = k.halted
               /\ j.uxSchedulerSuspended = k.uxSchedulerSuspended
<1> DEFINE n == uxInitialPriority[u]
           prio == [k.uxPriority EXCEPT ![u] = n]
           base == [k.uxBasePriority EXCEPT ![u] = n]
           events == [k.eventPriority EXCEPT ![u] = n]
           held == [k.uxMutexesHeld EXCEPT ![u] = 0]
           aborted == [k.ucDelayAborted EXCEPT ![u] = FALSE]
           left == [k.left EXCEPT ![u] = 0]
           wake == [k.wake EXCEPT ![u] = 0]
           i == prvInitialiseNewTask(k, u)
           j == prvAddTaskToReadyList(i, u)
<1>1. k \in KernelType /\ KernelOK(k) /\ WaitersAreBlocked(k)
  BY DEF Good, KernelOK
<1>2. n \in Priorities
  BY SchedulerAssumption
<1>3. i = [k EXCEPT !.uxPriority = prio, !.uxBasePriority = base, !.eventPriority = events,
                    !.uxMutexesHeld = held, !.ucDelayAborted = aborted, !.left = left,
                    !.wake = wake]
  BY <1>1 DEF prvInitialiseNewTask, KernelType
<1>4. /\ prio \in [Tasks -> Priorities] /\ base \in [Tasks -> Priorities]
      /\ events \in [Tasks -> Priorities]
  BY <1>1, <1>2 DEF KernelType
<1>5. held \in [Tasks -> Int] /\ left \in [Tasks -> Int] /\ wake \in [Tasks -> Int]
      /\ aborted \in [Tasks -> BOOLEAN]
  BY <1>1 DEF KernelType
<1> HIDE DEF i, prio, base, events, held, aborted, left, wake
<1>6. i \in KernelType /\ i.uxPriority = prio /\ i.uxBasePriority = base
  BY <1>1, <1>3, <1>4, <1>5 DEF KernelType
<1>7. /\ SameStates(k, i) /\ SameEvents(k, i) /\ i.pxCurrentTCB = k.pxCurrentTCB
      /\ i.halted = k.halted /\ i.uxSchedulerSuspended = k.uxSchedulerSuspended
  BY <1>1, <1>3 DEF KernelType, SameStates, SameEvents
<1>8. \A v \in Tasks \ {u} : i.uxPriority[v] = k.uxPriority[v]
  BY <1>1, <1>6 DEF prio, KernelType
<1>9. KernelOK(i) /\ ReadyTasks(i) = ReadyTasks(k) /\ BlockedTasks(i) = BlockedTasks(k)
  BY <1>1, <1>6, <1>7, <1>8, SetFieldOK DEF Known
<1>10. u \notin Known(i)
  BY <1>9 DEF Known
<1>11. /\ KernelOK(j) /\ Quiet(i, j) /\ SameEvents(i, j)
       /\ StateSets(j, ReadyTasks(i) \cup {u}, Members(i.delayed), i.suspended)
  BY <1>9, <1>10, AddReadyOK
<1> HIDE DEF j
<1>12. SameEvents(k, j) /\ StateSets(j, ReadyTasks(k) \cup {u}, Members(k.delayed), k.suspended)
  BY <1>7, <1>9, <1>11 DEF SameEvents, SameStates, StateSets
<1>13. WaitersAreBlocked(j)
  BY <1>1, <1>12 DEF WaitersAreBlocked, SameEvents, StateSets, BlockedTasks
<1>14. /\ j.uxPriority = prio /\ j.uxBasePriority = base
       /\ j.pxCurrentTCB = k.pxCurrentTCB /\ j.halted = k.halted
       /\ j.uxSchedulerSuspended = k.uxSchedulerSuspended
  BY <1>6, <1>7, <1>11 DEF Quiet, Steady
<1> QED
  BY <1>11, <1>12, <1>13, <1>14 DEF Good, j, i, prio, base

\* xTaskCreate keeps the invariant.
LEMMA CreateOK ==
    ASSUME TaskInv, NEW t \in Users, NEW u \in Users, Create(t, u)
    PROVE  TaskInv' /\ KeepsSuspended(kernel, kernel')
<1>1. /\ t = kernel.pxCurrentTCB /\ call[t].at = "task" /\ UNCHANGED objects
      /\ life[u] = "none" /\ life' = [life EXCEPT ![u] = "alive"]
      /\ kernel' = prvAddTaskToReadyList(prvInitialiseNewTask(kernel, u), u)
  BY DEF Create, Serves, In, Running
<1>2. /\ t \in Tasks /\ u \in Tasks /\ ObjectsOK /\ Good(kernel) /\ Idle \in ReadyTasks(kernel)
      /\ kernel \in KernelType
      /\ call \in [Tasks -> CallType] /\ ~kernel.halted
      /\ kernel.uxBasePriority = kernel.uxPriority
      /\ Known(kernel) = {v \in Tasks : life[v] = "alive"}
  BY <1>1, RunningFacts DEF Users
<1>3. life \in [Tasks -> {"none", "alive", "terminating"}]
  BY DEF TaskInv, TaskTypeOK
<1>4. kernel.uxSchedulerSuspended = 0 /\ kernel.pendingReady = <<>>
  BY <1>1, Outside, UnsuspendedFacts
<1>5. /\ t \in ReadyTasks(kernel) /\ Highest(kernel, {})
      /\ \A l \in EventLists : t \notin Members(kernel.event[l])
  BY <1>1, RunningIsReady
<1>6. u \notin Known(kernel) /\ u # t
  BY <1>1, <1>2, <1>5 DEF Known
<1>7. /\ Good(kernel') /\ SameEvents(kernel, kernel')
      /\ StateSets(kernel', ReadyTasks(kernel) \cup {u}, Members(kernel.delayed), kernel.suspended)
      /\ kernel'.uxPriority = [kernel.uxPriority EXCEPT ![u] = uxInitialPriority[u]]
      /\ kernel'.uxBasePriority = [kernel.uxBasePriority EXCEPT ![u] = uxInitialPriority[u]]
      /\ kernel'.pxCurrentTCB = kernel.pxCurrentTCB /\ kernel'.halted = kernel.halted
      /\ kernel'.uxSchedulerSuspended = kernel.uxSchedulerSuspended
  BY <1>1, <1>2, <1>6, NewTaskOK
<1>8. PICK at \in {"created", "dontStart"} :
          call' = [call EXCEPT ![u] = NoCall, ![t] = [NoCall EXCEPT !.at = at, !.obj = u]]
  BY DEF Create
<1> DEFINE c == [NoCall EXCEPT !.at = at, !.obj = u]
<1>9. c \in CallType /\ c.at = at /\ c.obj = u
  BY <1>2 DEF NoCall, CallType, TaskPlaces, CreatePlaces
<1>10. call' = [call EXCEPT ![u] = NoCall, ![t] = c]
  BY <1>8
<1> HIDE DEF c
<1>11. /\ call' \in [Tasks -> CallType] /\ call'[t] = c /\ call'[u] = NoCall
       /\ \A v \in Tasks \ {t, u} : call'[v] = call[v]
  BY <1>2, <1>6, <1>9, <1>10, NoCallType
<1>12. /\ life' \in [Tasks -> {"none", "alive", "terminating"}] /\ life'[u] = "alive"
       /\ \A v \in Tasks \ {u} : life'[v] = life[v]
  BY <1>1, <1>2, <1>3
<1>13. /\ ReadyTasks(kernel') = ReadyTasks(kernel) \cup {u}
       /\ Known(kernel') = Known(kernel) \cup {u} /\ KeepsSuspended(kernel, kernel')
  BY <1>7 DEF StateSets, Known, BlockedTasks, KeepsSuspended
<1>14. Known(kernel') = {v \in Tasks : life'[v] = "alive"}
  BY <1>2, <1>12, <1>13
<1>15. Ready(kernel', Idle) /\ call'[Idle] = NoCall
  BY <1>2, <1>11, <1>13 DEF ReadyTasks, Users, TaskInv, LifeInv
<1>16. \A l \in EventLists : u \notin Members(kernel.event[l])
  BY <1>2, <1>6 DEF Good, WaitersAreBlocked, Known
<1>17. \A v \in Tasks \ {t} :
           \/ /\ call'[v] = call[v]
              /\ call[v].at \in CreatePlaces => life'[call[v].obj] = "alive"
              /\ \A l \in EventLists :
                     v \in Members(kernel'.event[l]) => v \in Members(kernel.event[l])
           \/ call'[v] = NoCall /\ \A l \in EventLists : v \notin Members(kernel'.event[l])
  <2> SUFFICES ASSUME NEW v \in Tasks \ {t}, v # u
               PROVE  call[v].at \in CreatePlaces => life'[call[v].obj] = "alive"
    BY <1>7, <1>11, <1>16 DEF SameEvents
  <2>1. SUFFICES ASSUME call[v].at \in CreatePlaces PROVE life'[call[v].obj] = "alive"
    OBVIOUS
  <2>2. call[v].obj \in Tasks /\ life[call[v].obj] = "alive"
    BY <2>1 DEF TaskInv, ObjectOf, Users
  <2> QED
    BY <1>12, <2>2
<1>18. CallOK(t, call'[t], life', cTxLock') /\ call'[t].at \notin SuspendedPlaces
  BY <1>6, <1>9, <1>11, <1>12, Outside DEF CallOK, TakePlaces, LockedPlaces, CreatePlaces
<1>19. RunsOn(t, call'[t], kernel')
  <2>1. \A v \in ReadyTasks(kernel') \ {u} : kernel'.uxPriority[v] <= kernel'.uxPriority[t]
    <3>1. \A v \in Tasks \ {u} : kernel'.uxPriority[v] = kernel.uxPriority[v]
      BY <1>2, <1>7 DEF KernelType
    <3> QED
      BY <1>1, <1>2, <1>5, <1>6, <1>13, <3>1 DEF Highest, ReadyTasks
  <2>2. Except(call'[t]) = {u}
    BY <1>9, <1>11 DEF Except
  <2> QED
    BY <1>1, <1>5, <1>7, <1>13, <2>1, <2>2 DEF RunsOn, Highest
<1>20. ObjectsOK'
  BY <1>1, <1>2 DEF ObjectsOK, objects
<1>21. /\ \A l \in EventLists : t \in Members(kernel'.event[l]) =>
              call'[t].obj = l /\ call'[t].at \in {"unlockBlocked", "try"}
       /\ kernel'.uxSchedulerSuspended \in {0, 1}
       /\ call'[t].at \in SuspendedPlaces <=>
              kernel'.pxCurrentTCB = t /\ kernel'.uxSchedulerSuspended = 1
       /\ kernel'.pxCurrentTCB # t => kernel'.uxSchedulerSuspended = 0
       /\ kernel'.pendingReady # <<>> => kernel'.uxSchedulerSuspended = 1
  BY <1>1, <1>4, <1>5, <1>7, <1>18 DEF SameEvents
<1>22. PlainInv' /\ Good(kernel')
  BY <1>2, <1>7 DEF PlainInv
<1>23. TaskInv'
  BY <1>1, <1>2, <1>11, <1>12, <1>14, <1>15, <1>17, <1>18, <1>19, <1>20, <1>21, <1>22, StepOK
<1> QED
  BY <1>13, <1>23

\* The idle task, which frees the tasks that deleted themselves, keeps the invariant.
LEMMA IdleTaskOK ==
    ASSUME TaskInv, IdleTask
    PROVE  TaskInv' /\ KeepsSuspended(kernel, kernel')
<1>1. /\ Idle = kernel.pxCurrentTCB /\ call[Idle] = NoCall /\ Idle \in Tasks
      /\ UNCHANGED <<objects, call>>
  BY SchedulerAssumption DEF IdleTask, Running, TaskInv, LifeInv
<1>2. /\ ObjectsOK /\ Good(kernel) /\ ReadyTasks(kernel) # {} /\ call \in [Tasks -> CallType]
      /\ Known(kernel) = {v \in Tasks : life[v] = "alive"}
      /\ CallOK(Idle, NoCall, life, cTxLock) /\ RunsOn(Idle, NoCall, kernel)
      /\ Idle \in ReadyTasks(kernel)
  BY <1>1, RunningFacts
<1>3. ObjectsOK' /\ cTxLock' = cTxLock
  BY <1>1, <1>2 DEF ObjectsOK, objects
<1>4. kernel.uxSchedulerSuspended = 0 /\ kernel.pendingReady = <<>>
  BY <1>1, Outside, NoCallType, UnsuspendedFacts
<1>5. CASE kernel' = vTaskSwitchContext(kernel) /\ UNCHANGED life
  <2>1. \A X : Undisturbing(kernel, kernel', X) /\ KeepsSuspended(kernel, kernel')
    BY <1>2, <1>4, <1>5, SwitchUndisturbing
  <2> QED
    BY <1>1, <1>3, <1>5, <2>1, OtherStep
<1>6. ASSUME NEW u \in Tasks, life[u] = "terminating", life' = [life EXCEPT ![u] = "none"],
             UNCHANGED kernel
      PROVE  TaskInv' /\ KeepsSuspended(kernel, kernel')
  <2>1. life \in [Tasks -> {"none", "alive", "terminating"}]
    BY DEF TaskInv, TaskTypeOK
  <2>2. /\ life' \in [Tasks -> {"none", "alive", "terminating"}]
        /\ \A v \in Tasks : life'[v] = "alive" <=> life[v] = "alive"
    BY <1>6, <2>1
  <2>3. Known(kernel') = {v \in Tasks : life'[v] = "alive"}
    BY <1>2, <1>6, <2>2
  <2>4. PlainInv' /\ Good(kernel')
    BY <1>2, <1>6 DEF PlainInv, TaskInv
  <2>5. \A v \in Tasks : call[v].at \in CreatePlaces => life'[call[v].obj] = "alive"
    <3> SUFFICES ASSUME NEW v \in Tasks, call[v].at \in CreatePlaces
                 PROVE  life'[call[v].obj] = "alive"
      OBVIOUS
    <3>1. call[v].obj \in Tasks /\ life[call[v].obj] = "alive"
      BY DEF TaskInv, ObjectOf, Users
    <3> QED
      BY <2>2, <3>1
  <2>6. Ready(kernel', Idle) /\ call'[Idle] = NoCall /\ call' \in [Tasks -> CallType]
    BY <1>1, <1>2, <1>6 DEF ReadyTasks
  <2>7. CallOK(Idle, call'[Idle], life', cTxLock') /\ call'[Idle].at \notin SuspendedPlaces
    BY <2>6, NoCallType, Outside
  <2>8. RunsOn(Idle, call'[Idle], kernel')
    BY <1>2, <1>6, <2>6
  <2>9. \A l \in EventLists : Idle \notin Members(kernel'.event[l])
    BY <1>2, <1>6, ReadyWaitsNot
  <2>10. \A v \in Tasks \ {Idle} :
             \/ /\ call'[v] = call[v]
                /\ call[v].at \in CreatePlaces => life'[call[v].obj] = "alive"
                /\ \A l \in EventLists :
                       v \in Members(kernel'.event[l]) => v \in Members(kernel.event[l])
             \/ call'[v] = NoCall /\ \A l \in EventLists : v \notin Members(kernel'.event[l])
    BY <1>1, <1>6, <2>5
  <2>11. /\ \A l \in EventLists : Idle \in Members(kernel'.event[l]) =>
                call'[Idle].obj = l /\ call'[Idle].at \in {"unlockBlocked", "try"}
         /\ kernel'.uxSchedulerSuspended \in {0, 1}
         /\ call'[Idle].at \in SuspendedPlaces <=>
                kernel'.pxCurrentTCB = Idle /\ kernel'.uxSchedulerSuspended = 1
         /\ kernel'.pxCurrentTCB # Idle => kernel'.uxSchedulerSuspended = 0
         /\ kernel'.pendingReady # <<>> => kernel'.uxSchedulerSuspended = 1
    BY <1>4, <1>6, <2>7, <2>9
  <2>12. TaskInv'
    BY <1>1, <1>3, <2>2, <2>3, <2>4, <2>6, <2>7, <2>8, <2>10, <2>11, StepOK
  <2> QED
    BY <1>6, <2>12 DEF KeepsSuspended
<1> QED
  BY <1>5, <1>6 DEF IdleTask
-------------------------------------------------------------------------------
(***************************************************************************)
(* The theorems.                                                           *)
(***************************************************************************)
LEMMA TaskInitOK ==
    ASSUME TaskInit
    PROVE  TaskInv
<1>1. Started \in SUBSET Tasks /\ IsFiniteSet(Started) /\ Idle \in Started
  BY SchedulerAssumption, TaskAssumption, FS_Subset
<1>2. PICK order \in SetToSeqs(Started \ {Idle}) : InitWith(Started, Append(order, Idle))
  BY DEF TaskInit
<1>3. /\ kernel = SchedulerInit(Started, Append(order, Idle))
      /\ uxMessagesWaiting = [o \in EventLists |-> IF o \in Mutexes THEN 1 ELSE iInitialCount[o]]
      /\ xMutexHolder = [m \in Mutexes |-> NoTask]
      /\ cTxLock = [o \in EventLists |-> queueUNLOCKED]
      /\ call = [t \in Tasks |-> NoCall]
  BY <1>2 DEF InitWith
<1>4. /\ KernelOK(kernel) /\ ReadyTasks(kernel) = Started /\ BlockedTasks(kernel) = {}
      /\ kernel.pendingReady = <<>> /\ \A l \in EventLists : kernel.event[l] = <<>>
      /\ kernel.uxSchedulerSuspended = 0 /\ kernel.halted = FALSE
      /\ kernel.uxPriority = uxInitialPriority /\ kernel.uxBasePriority = uxInitialPriority
      /\ kernel.pxCurrentTCB \in Started
      /\ \A t \in Started : uxInitialPriority[t] <= uxInitialPriority[kernel.pxCurrentTCB]
  <2>1. StartsWith(kernel, Started)
    BY <1>1, <1>3, SchedulerInitOK
  <2> QED
    BY <2>1 DEF StartsWith
<1>5. life = [t \in Tasks |-> IF t \in Started THEN "alive" ELSE "none"]
  BY DEF TaskInit
<1>6. TaskTypeOK
  <2>1. uxMessagesWaiting \in [EventLists -> Nat]
    <3>1. ASSUME NEW o \in EventLists
          PROVE  (IF o \in Mutexes THEN 1 ELSE iInitialCount[o]) \in Nat
      BY MutexAssumption DEF Semaphores
    <3> QED
      BY <1>3, <3>1
  <2>2. call \in [Tasks -> CallType]
    BY <1>3, NoCallType
  <2>3. cTxLock \in [EventLists -> Int] /\ xMutexHolder \in [Mutexes -> Tasks \cup {NoTask}]
    BY <1>3 DEF queueUNLOCKED
  <2>4. life \in [Tasks -> {"none", "alive", "terminating"}]
    BY <1>5
  <2> QED
    BY <1>4, <2>1, <2>2, <2>3, <2>4 DEF TaskTypeOK, KernelOK, CallType
<1>7. \A t \in Tasks : call[t] = NoCall
  BY <1>3
<1>8. Members(<<>>) = {}
  BY DEF Members
<1>9. WaitersAreBlocked(kernel)
  BY <1>4, <1>8 DEF WaitersAreBlocked
<1>10. SuspensionInv
  BY <1>4, <1>7 DEF SuspensionInv, Suspends, NoCall, LockedPlaces
<1>11. LifeInv
  BY <1>1, <1>4, <1>5, <1>7 DEF LifeInv, ReadyTasks
<1>12. PlainInv
  BY <1>4 DEF PlainInv
<1>13. RunningInv
  BY <1>1, <1>4 DEF RunningInv, ReadyTasks
<1>14. \A t \in Tasks : ObjectOf(t) /\ WaiterOf(t)
  BY <1>4, <1>7, <1>8 DEF ObjectOf, WaiterOf, NoCall, TakePlaces, LockedPlaces, CreatePlaces
<1> QED
  BY <1>4, <1>6, <1>9, <1>10, <1>11, <1>12, <1>13, <1>14 DEF TaskInv

\* Every step keeps the invariant, and only a resume and a destruction end a suspension.
LEMMA TaskNextOK ==
    ASSUME TaskInv, Mutexes = {}, TaskNext
    PROVE  /\ TaskInv'
           /\ \A u \in kernel.suspended \ Waiters(kernel) :
                  u \in kernel'.suspended \/ Unsuspends(u)
<1>1. CASE Next /\ UNCHANGED life
  BY <1>1, NextOK DEF KeepsSuspended
<1>2. ASSUME NEW t \in Users, NEW u \in Users, Resume(t, u) \/ Destroy(t, u)
      PROVE  /\ TaskInv'
             /\ \A v \in kernel.suspended \ Waiters(kernel) :
                    v \in kernel'.suspended \/ Unsuspends(v)
  BY <1>2, ResumeServiceOK, DestroyOK DEF Unsuspends
<1>3. ASSUME NEW t \in Users, NEW u \in Users,
             Create(t, u) \/ Suspend(t, u) \/ PriorityChange(t, u) \/ WaitAbort(t, u)
      PROVE  TaskInv' /\ KeepsSuspended(kernel, kernel')
  BY <1>3, CreateOK, SuspendServiceOK, PriorityChangeOK, WaitAbortOK
<1>4. ASSUME NEW t \in Users,
             Sleep(t) \/ TaskYield(t) \/ CreateYield(t) \/ SuspendNew(t) \/ Abort(t) \/ Yield(t)
      PROVE  TaskInv' /\ KeepsSuspended(kernel, kernel')
  BY <1>4, SleepOK, TaskYieldOK, CreateYieldOK, SuspendServiceOK, AbortOK, YieldOK
<1>5. ASSUME NEW t \in Users, ServiceStep(t)
      PROVE  /\ TaskInv'
             /\ \A v \in kernel.suspended \ Waiters(kernel) :
                    v \in kernel'.suspended \/ Unsuspends(v)
  BY <1>2, <1>3, <1>4, <1>5 DEF ServiceStep, KeepsSuspended
<1>6. ASSUME NEW u \in Users, ResumeFromISR(u)
      PROVE  /\ TaskInv'
             /\ \A v \in kernel.suspended \ Waiters(kernel) :
                    v \in kernel'.suspended \/ Unsuspends(v)
  BY <1>6, ResumeFromISROK DEF Unsuspends
<1>7. CASE IdleTask
  BY <1>7, IdleTaskOK DEF KeepsSuspended
<1> QED
  BY <1>1, <1>5, <1>6, <1>7 DEF TaskNext

\* A stuttering step keeps the invariant.
LEMMA TaskStutters ==
    ASSUME TaskInv, UNCHANGED taskVars
    PROVE  TaskInv'
<1>1. call' = call /\ life' = life /\ kernel' = kernel /\ UNCHANGED objects
  BY DEF taskVars, vars
<1>2. ObjectsOK /\ Good(kernel)
  BY RunningFacts
<1>3. ObjectsOK' /\ cTxLock' = cTxLock
  BY <1>1, <1>2 DEF ObjectsOK, objects
<1>4. \A X : Undisturbing(kernel, kernel', X)
  BY <1>1, <1>2, StaysUndisturbed
<1> QED
  BY <1>1, <1>3, <1>4, OtherStep

\* RtosalTask!TaskInv: the lists, the calls and the life of the tasks agree, and the
\* highest ready task runs where the code does not hold the switch back.
THEOREM TaskInvariant ==
    ASSUME Mutexes = {}
    PROVE  TaskSpec => []TaskInv
<1>1. TaskInit => TaskInv
  BY TaskInitOK
<1>2. TaskInv /\ [TaskNext]_taskVars => TaskInv'
  BY TaskNextOK, TaskStutters
<1> QED
  BY <1>1, <1>2, PTL DEF TaskSpec

\* A task is in one list of tasks if it exists, and in none else.
LEMMA CountLists ==
    ASSUME NEW k, KernelOK(k), NEW t \in Tasks
    PROVE  Cardinality({p \in Priorities : t \in ReadyAt(k, p)})
           + Cardinality({i \in DOMAIN k.delayed : k.delayed[i] = t})
           + (IF t \in k.suspended THEN 1 ELSE 0) = IF t \in Known(k) THEN 1 ELSE 0
<1> DEFINE P == {p \in Priorities : t \in ReadyAt(k, p)}
           D == {i \in DOMAIN k.delayed : k.delayed[i] = t}
<1>1. k \in KernelType /\ StateItemsOK(k)
  BY DEF KernelOK
<1>2. k.uxPriority[t] \in Priorities
  BY <1>1 DEF KernelType
<1>3. P = IF t \in ReadyTasks(k) THEN {k.uxPriority[t]} ELSE {}
  <2>1. \A p \in Priorities : t \in ReadyAt(k, p) <=> Ready(k, t) /\ k.uxPriority[t] = p
    BY <1>1, RingFacts DEF StateItemsOK
  <2> QED
    BY <1>2, <2>1 DEF ReadyTasks
<1>4. Cardinality(P) = IF t \in ReadyTasks(k) THEN 1 ELSE 0
  <2> HIDE DEF P
  <2> QED
    BY <1>3, FS_Singleton, FS_EmptySet
<1>5. Cardinality(D) = IF t \in Members(k.delayed) THEN 1 ELSE 0
  <2>1. CASE t \in Members(k.delayed)
    <3>1. PICK i \in DOMAIN k.delayed : k.delayed[i] = t
      BY <2>1 DEF Members
    <3>2. D = {i}
      BY <1>1, <3>1 DEF StateItemsOK, Distinct
    <3> HIDE DEF D
    <3> QED
      BY <2>1, <3>2, FS_Singleton
  <2>2. CASE t \notin Members(k.delayed)
    <3>1. D = {}
      BY <2>2 DEF Members
    <3> HIDE DEF D
    <3> QED
      BY <2>2, <3>1, FS_EmptySet
  <2> QED
    BY <2>1, <2>2
<1> HIDE DEF P, D
<1>6. /\ t \in Known(k) <=> t \in ReadyTasks(k) \/ t \in Members(k.delayed) \/ t \in k.suspended
      /\ ~(t \in ReadyTasks(k) /\ t \in Members(k.delayed))
      /\ ~(t \in ReadyTasks(k) /\ t \in k.suspended)
      /\ ~(t \in Members(k.delayed) /\ t \in k.suspended)
  BY <1>1 DEF Known, BlockedTasks, StateItemsOK
<1>7. Cardinality(P) + Cardinality(D) + (IF t \in k.suspended THEN 1 ELSE 0)
          = IF t \in Known(k) THEN 1 ELSE 0
  BY <1>4, <1>5, <1>6
<1> QED
  BY <1>7 DEF P, D

\* The invariant says where each task is, so the counts follow.
LEMMA ListsAreExactNow ==
    ASSUME TaskInv
    PROVE  ListsExact
<1>1. /\ kernel \in KernelType /\ KernelOK(kernel) /\ StateItemsOK(kernel)
      /\ EventItemsOK(kernel) /\ WaitersAreBlocked(kernel)
  BY DEF TaskInv, TaskTypeOK, KernelOK
<1>2. ReadyListsExact
  BY <1>1 DEF ReadyListsExact, StateItemsOK, RingOK, IsInjective, Distinct
<1>3. ASSUME NEW t \in Tasks PROVE StateLists(t) = IF life[t] = "alive" THEN 1 ELSE 0
  <2>1. t \in Known(kernel) <=> life[t] = "alive"
    BY DEF TaskInv, LifeInv, Known
  <2> QED
    BY <1>1, <2>1, CountLists DEF StateLists
<1>4. ASSUME NEW t \in Tasks, NEW l \in EventLists, t \in Members(kernel.event[l])
      PROVE  call[t].obj = l /\ Blocked(kernel, t) /\ ~Pending(kernel, t)
  <2>1. WaiterOf(t) /\ t \in BlockedTasks(kernel)
    BY <1>1, <1>4 DEF TaskInv, WaitersAreBlocked
  <2> QED
    BY <1>1, <1>4, <2>1 DEF WaiterOf, BlockedTasks, Blocked, Waiting, Pending, EventItemsOK
<1>5. ASSUME NEW t \in Tasks, Pending(kernel, t) PROVE kernel.uxSchedulerSuspended # 0
  <2>1. kernel.pendingReady # <<>>
    BY <1>5 DEF Pending, Members
  <2> QED
    BY <2>1, RunningFacts
<1> QED
  BY <1>2, <1>3, <1>4, <1>5 DEF ListsExact

\* RtosalTask!ListsExact: after any sequence of calls and interrupts a task that exists is
\* in exactly one list of tasks and one that does not is in none, it waits only for the
\* object of its call, and the pending list is empty unless the scheduler is suspended.
THEOREM ListsAreExact ==
    ASSUME Mutexes = {}
    PROVE  TaskSpec => []ListsExact
<1>1. TaskInv => ListsExact
  BY ListsAreExactNow
<1> QED
  BY <1>1, TaskInvariant, PTL

\* RtosalTask!HighestRuns: whatever is created, resumed, raised, lowered, woken or aborted,
\* the highest of the ready tasks runs, but between a critical section and the yield
\* behind it.
THEOREM HighestTaskRuns ==
    ASSUME Mutexes = {}
    PROVE  TaskSpec => []HighestRuns
<1>1. TaskInv => HighestRuns
  <2> SUFFICES ASSUME TaskInv PROVE HighestRuns
    OBVIOUS
  <2> DEFINE t == kernel.pxCurrentTCB
  <2>1. /\ RunsOn(t, call[t], kernel)
        /\ call[t].at \in SuspendedPlaces <=> kernel.uxSchedulerSuspended = 1
    BY RunningFacts
  <2>2. "unlockBlocked" \in SuspendedPlaces
    BY DEF SuspendedPlaces, LockedPlaces
  <2> QED
    BY <2>1, <2>2 DEF RunsOn, Except, Highest, ReadyTasks, HighestRuns
<1> QED
  BY <1>1, TaskInvariant, PTL

\* RtosalTask!StaysSuspended: a suspended task stays suspended until it is resumed or
\* destroyed, whatever ticks, gives, aborts and ends of suspensions come.
THEOREM SuspendedStaySuspended ==
    ASSUME Mutexes = {}
    PROVE  TaskSpec => StaysSuspended
<1> DEFINE A == \A u \in Tasks : prvTaskIsTaskSuspended(kernel, u) /\ u \notin kernel'.suspended =>
                    \/ ResumeFromISR(u)
                    \/ \E t \in Users : Resume(t, u) \/ Destroy(t, u)
<1>1. TaskInv /\ [TaskNext]_taskVars => [A]_taskVars
  <2> SUFFICES ASSUME TaskInv, TaskNext, NEW u \in Tasks, prvTaskIsTaskSuspended(kernel, u),
                      u \notin kernel'.suspended
               PROVE  Unsuspends(u)
    BY DEF Unsuspends
  <2>1. kernel \in KernelType
    BY DEF TaskInv, TaskTypeOK
  <2>2. u \in kernel.suspended \ Waiters(kernel)
    BY <2>1, SuspendedFacts
  <2> QED
    BY <2>2, TaskNextOK
<1> QED
  BY <1>1, TaskInvariant, PTL DEF TaskSpec, StaysSuspended
===============================================================================
