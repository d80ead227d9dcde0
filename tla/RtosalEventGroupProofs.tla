------------------------ MODULE RtosalEventGroupProofs ------------------------
(***************************************************************************)
(* Proofs about RtosalEventGroup, for every set of tasks and bits, every   *)
(* request, time-out and order of the calls, ticks and interrupts: no task *)
(* waits for bits that are there, and a set reaches all waiters at once.   *)
(*                                                                         *)
(* Both are about who stands in the group's event list and with what       *)
(* request.  The lemmas follow that list through the functions of the      *)
(* kernel and the loops over it; which list of tasks a task is in does not *)
(* matter here.                                                            *)
(***************************************************************************)
EXTENDS RtosalEventGroup, RtosLemmas

\* The fields of the kernel, and lists that are lists.
Fields == {"ready", "uxTopReadyPriority", "pxCurrentTCB", "uxPriority", "uxBasePriority",
           "uxMutexesHeld", "eventPriority", "delayed", "wake", "left", "suspended", "event",
           "pendingReady", "uxSchedulerSuspended", "uxPendedTicks", "xYieldPending",
           "ucDelayAborted", "halted"}

Shaped(k) ==
    /\ DOMAIN k = Fields
    /\ k.event \in [EventLists -> Seq(Tasks)]
    /\ k.delayed \in Seq(Tasks) /\ k.pendingReady \in Seq(Tasks)

\* The tasks of gone have left the event lists, the others stand there as before, and the
\* scheduler is as suspended as it was.
Leave(k, j, gone) ==
    /\ Shaped(j)
    /\ \A l \in EventLists : Members(j.event[l]) = Members(k.event[l]) \ gone
    /\ Members(j.pendingReady) = Members(k.pendingReady) \ gone
    /\ j.uxSchedulerSuspended = k.uxSchedulerSuspended /\ j.uxPendedTicks = k.uxPendedTicks

\* Nothing is pended: the state between two steps, and with n = 1 that in a suspension.
Settled(k, n) ==
    /\ Shaped(k) /\ k.pendingReady = <<>>
    /\ k.uxSchedulerSuspended = n /\ k.uxPendedTicks = 0

\* What a task remembers of its wait.
WaitType == [request : RequestType \cup {NoRequest}, unblocked : BOOLEAN, bits : SUBSET EventBits]

\* The invariant: what is typed, nothing is pended between steps, and no one waits for
\* what is there.
GroupInv ==
    /\ Settled(kernel, 0)
    /\ uxEventBits \in SUBSET EventBits /\ created \in BOOLEAN
    /\ wait \in [Tasks -> WaitType]
    /\ xTimerQueue \in Seq(SUBSET EventBits)
    /\ \A t \in Tasks : Blocked(t) =>
           /\ created /\ ~wait[t].unblocked
           /\ ~TestWaitCondition(uxEventBits, wait[t].request)
-------------------------------------------------------------------------------
\* Functions of the kernel.

\* What leaves Shaped lists may leave in two steps.
LEMMA LeaveTwice ==
    ASSUME NEW k, NEW i, NEW j, NEW A, NEW B, Leave(k, i, A), Leave(i, j, B)
    PROVE  Leave(k, j, A \cup B)
BY DEF Leave

\* Nobody has left.
LEMMA LeaveNone ==
    ASSUME NEW k, Shaped(k)
    PROVE  Leave(k, k, {})
BY DEF Leave

\* A function that does not touch the event lists.
SameLists(k, j) ==
    /\ DOMAIN j = Fields /\ j.event = k.event /\ j.pendingReady = k.pendingReady
    /\ j.uxSchedulerSuspended = k.uxSchedulerSuspended /\ j.uxPendedTicks = k.uxPendedTicks

\* prvAddTaskToReadyList and uxListRemove of a state item do not touch event lists.
LEMMA MakeReadyShape ==
    ASSUME NEW k, Shaped(k), NEW t
    PROVE  SameLists(k, MakeReady(k, t)) /\ Shaped(MakeReady(k, t))
<1> DEFINE i == RemoveStateItem(k, t)
<1>1. SameLists(k, i) /\ i.delayed = Without(k.delayed, t)
  BY DEF Shaped, SameLists, RemoveStateItem, Fields
<1>2. Without(k.delayed, t) \in Seq(Tasks)
  BY DropProperties DEF Without, Shaped
<1> HIDE DEF i
<1> DEFINE j == prvAddTaskToReadyList(i, t)
<1>3. SameLists(i, j) /\ j.delayed = i.delayed
  BY <1>1 DEF SameLists, prvAddTaskToReadyList, Fields
<1>4. MakeReady(k, t) = j
  BY DEF MakeReady, i
<1> HIDE DEF j
<1> QED
  BY <1>1, <1>2, <1>3, <1>4 DEF SameLists, Shaped

\* uxListRemove of the event item.
LEMMA RemoveEventItemShape ==
    ASSUME NEW k, Shaped(k), NEW t
    PROVE  Leave(k, RemoveEventItem(k, t), {t})
<1> DEFINE e == [l \in EventLists |-> Without(k.event[l], t)]
           p == Without(k.pendingReady, t)
<1>1. \A l \in EventLists : e[l] \in Seq(Tasks) /\ Members(e[l]) = Members(k.event[l]) \ {t}
  <2>1. ASSUME NEW l \in EventLists
        PROVE  e[l] \in Seq(Tasks) /\ Members(e[l]) = Members(k.event[l]) \ {t}
    <3>1. k.event[l] \in Seq(Tasks)
      BY DEF Shaped
    <3> QED
      BY <3>1, DropProperties DEF Without
  <2> QED
    BY <2>1
<1>2. e \in [EventLists -> Seq(Tasks)]
  BY <1>1
<1>3. p \in Seq(Tasks) /\ Members(p) = Members(k.pendingReady) \ {t}
  BY DropProperties DEF Without, Shaped
<1>4. RemoveEventItem(k, t) = [k EXCEPT !.event = e, !.pendingReady = p]
  BY DEF RemoveEventItem, Shaped, Fields
<1> HIDE DEF e, p
<1> DEFINE j == [k EXCEPT !.event = e, !.pendingReady = p]
<1>5. /\ DOMAIN j = Fields /\ j.event = e /\ j.pendingReady = p /\ j.delayed = k.delayed
      /\ j.uxSchedulerSuspended = k.uxSchedulerSuspended /\ j.uxPendedTicks = k.uxPendedTicks
  BY DEF Shaped, Fields
<1> HIDE DEF j
<1>6. Leave(k, j, {t})
  BY <1>1, <1>2, <1>3, <1>5 DEF Leave, Shaped
<1> QED
  BY <1>4, <1>6 DEF j

\* The same and MakeReady: a time-out.
LEMMA TimeOutShape ==
    ASSUME NEW k, Shaped(k), NEW t
    PROVE  Leave(k, TimeOut(k, t), {t})
<1> DEFINE i == RemoveEventItem(k, t)
           j == MakeReady(i, t)
<1>1. Leave(k, i, {t})
  BY RemoveEventItemShape
<1>2. Shaped(i)
  BY <1>1 DEF Leave
<1>3. SameLists(i, j) /\ Shaped(j)
  BY <1>2, MakeReadyShape
<1>4. TimeOut(k, t) = j
  BY DEF TimeOut
<1> HIDE DEF i, j
<1> QED
  BY <1>1, <1>3, <1>4 DEF Leave, SameLists

\* xYieldPending is no list.
LEMMA YieldPendingShape ==
    ASSUME NEW k, Shaped(k), NEW y
    PROVE  LET j == [k EXCEPT !.xYieldPending = y] IN SameLists(k, j) /\ Shaped(j)
BY DEF Shaped, SameLists, Fields

\* vTaskRemoveFromUnorderedEventList wakes the task.
LEMMA UnorderedShape ==
    ASSUME NEW k, Shaped(k), NEW t
    PROVE  Leave(k, vTaskRemoveFromUnorderedEventList(k, t), {t})
<1> DEFINE i == TimeOut(k, t)
           y == i.xYieldPending \/ k.uxPriority[t] > k.uxPriority[k.pxCurrentTCB]
           j == [i EXCEPT !.xYieldPending = y]
<1>1. Leave(k, i, {t}) /\ Shaped(i)
  BY TimeOutShape DEF Leave
<1>2. vTaskRemoveFromUnorderedEventList(k, t) = j
  BY DEF vTaskRemoveFromUnorderedEventList, TimeOut
<1> HIDE DEF i, y
<1>3. SameLists(i, j) /\ Shaped(j)
  BY <1>1, YieldPendingShape
<1> HIDE DEF j
<1> QED
  BY <1>1, <1>2, <1>3 DEF Leave, SameLists
-------------------------------------------------------------------------------
(***************************************************************************)
(* The loops over a list of tasks: a recursive function over the number of *)
(* turns.                                                                  *)
(***************************************************************************)

\* f[i] is what TimeOutAll has made of k after the first i tasks.
TimeOuts(f, k, s, n) ==
    f = [i \in 0 .. n |-> IF i = 0 THEN k ELSE TimeOut(f[i - 1], s[i])]

\* The states between the turns of the loop exist, whatever their number.
LEMMA TimeOutsExists ==
    ASSUME NEW k, NEW s, NEW n \in Nat
    PROVE  \E f : TimeOuts(f, k, s, n)
<1> DEFINE P == {m \in Nat : \E f : TimeOuts(f, k, s, m)}
<1>1. 0 \in P
  <2>1. TimeOuts([i \in 0 .. 0 |-> k], k, s, 0)
    BY DEF TimeOuts
  <2> QED
    BY <2>1
<1>2. ASSUME NEW m \in Nat, m \in P PROVE m + 1 \in P
  <2>1. PICK f : TimeOuts(f, k, s, m)
    BY <1>2
  <2> DEFINE g == [i \in 0 .. m + 1 |-> IF i <= m THEN f[i] ELSE TimeOut(f[m], s[i])]
  <2>2. \A i \in 0 .. m : f[i] = IF i = 0 THEN k ELSE TimeOut(f[i - 1], s[i])
    BY <2>1 DEF TimeOuts
  <2>3. ASSUME NEW i \in 0 .. m + 1
        PROVE  g[i] = IF i = 0 THEN k ELSE TimeOut(g[i - 1], s[i])
    BY <2>2
  <2>4. TimeOuts(g, k, s, m + 1)
    BY <2>3 DEF TimeOuts
  <2> QED
    BY <2>4
<1> HIDE DEF P
<1>3. Nat \subseteq P
  BY <1>1, <1>2, Induction
<1> QED
  BY <1>3 DEF P

\* TimeOutAll is a loop: TimeOut for each task.
LEMMA TimeOutsSteps ==
    ASSUME NEW k, NEW s, Len(s) \in Nat
    PROVE  \E f : /\ f[0] = k /\ TimeOutAll(k, s) = f[Len(s)]
                 /\ \A i \in 1 .. Len(s) : f[i] = TimeOut(f[i - 1], s[i])
<1> DEFINE f == CHOOSE f : TimeOuts(f, k, s, Len(s))
<1>1. TimeOuts(f, k, s, Len(s))
  BY TimeOutsExists
<1>2. TimeOutAll(k, s) = f[Len(s)]
  BY DEF TimeOutAll, TimeOuts
<1> HIDE DEF f
<1>3. \A i \in 0 .. Len(s) : f[i] = IF i = 0 THEN k ELSE TimeOut(f[i - 1], s[i])
  BY <1>1 DEF TimeOuts
<1> QED
  BY <1>2, <1>3

\* Every task that is due leaves the event lists, and no other.
LEMMA TimeOutAllShape ==
    ASSUME NEW k, Shaped(k), NEW s \in Seq(Tasks)
    PROVE  Leave(k, TimeOutAll(k, s), Members(s))
<1> DEFINE N == Len(s)
           First(n) == {s[i] : i \in 1 .. n}
<1>1. N \in Nat /\ DOMAIN s = 1 .. N
  OBVIOUS
<1>2. PICK f : /\ f[0] = k /\ TimeOutAll(k, s) = f[N]
               /\ \A i \in 1 .. N : f[i] = TimeOut(f[i - 1], s[i])
  BY <1>1, TimeOutsSteps
<1> DEFINE P == {n \in Nat : n <= N => Leave(k, f[n], First(n))}
<1>3. 0 \in P
  <2>1. First(0) = {} /\ f[0] = k
    BY <1>2
  <2> HIDE DEF First
  <2> QED
    BY <2>1, LeaveNone
<1>4. ASSUME NEW n \in Nat, n \in P PROVE n + 1 \in P
  <2> SUFFICES ASSUME n + 1 <= N PROVE Leave(k, f[n + 1], First(n + 1))
    OBVIOUS
  <2>1. n + 1 \in 1 .. N /\ (n + 1) - 1 = n /\ n <= N
    BY <1>1
  <2>2. First(n + 1) = First(n) \cup {s[n + 1]}
    BY <1>1, <2>1
  <2> HIDE DEF First
  <2>3. Leave(k, f[n], First(n)) /\ Shaped(f[n])
    BY <1>4, <2>1 DEF Leave
  <2>4. Leave(f[n], f[n + 1], {s[n + 1]})
    <3>1. f[n + 1] = TimeOut(f[n], s[n + 1])
      BY <1>2, <2>1
    <3> QED
      BY <2>3, <3>1, TimeOutShape
  <2> QED
    BY <2>2, <2>3, <2>4, LeaveTwice
<1> HIDE DEF P
<1>5. N \in P
  BY <1>1, <1>3, <1>4, Induction
<1>6. First(N) = Members(s)
  BY <1>1 DEF Members
<1> HIDE DEF First
<1> QED
  BY <1>1, <1>2, <1>5, <1>6 DEF P

\* f[i] is what RemoveAll has made of k after the first i tasks.
Removals(f, k, s, n) ==
    f = [i \in 0 .. n |-> IF i = 0 THEN k ELSE vTaskRemoveFromUnorderedEventList(f[i - 1], s[i])]

\* The states between the turns of the loop exist, whatever their number.
LEMMA RemovalsExists ==
    ASSUME NEW k, NEW s, NEW n \in Nat
    PROVE  \E f : Removals(f, k, s, n)
<1> DEFINE P == {m \in Nat : \E f : Removals(f, k, s, m)}
<1>1. 0 \in P
  <2>1. Removals([i \in 0 .. 0 |-> k], k, s, 0)
    BY DEF Removals
  <2> QED
    BY <2>1
<1>2. ASSUME NEW m \in Nat, m \in P PROVE m + 1 \in P
  <2>1. PICK f : Removals(f, k, s, m)
    BY <1>2
  <2> DEFINE g == [i \in 0 .. m + 1 |-> IF i <= m THEN f[i] ELSE vTaskRemoveFromUnorderedEventList(f[m], s[i])]
  <2>2. \A i \in 0 .. m : f[i] = IF i = 0 THEN k ELSE vTaskRemoveFromUnorderedEventList(f[i - 1], s[i])
    BY <2>1 DEF Removals
  <2>3. ASSUME NEW i \in 0 .. m + 1
        PROVE  g[i] = IF i = 0 THEN k ELSE vTaskRemoveFromUnorderedEventList(g[i - 1], s[i])
    BY <2>2
  <2>4. Removals(g, k, s, m + 1)
    BY <2>3 DEF Removals
  <2> QED
    BY <2>4
<1> HIDE DEF P
<1>3. Nat \subseteq P
  BY <1>1, <1>2, Induction
<1> QED
  BY <1>3 DEF P

\* RemoveAll is a loop: a removal for each waiter.
LEMMA RemovalsSteps ==
    ASSUME NEW k, NEW s, Len(s) \in Nat
    PROVE  \E f : /\ f[0] = k /\ RemoveAll(k, s) = f[Len(s)]
                 /\ \A i \in 1 .. Len(s) : f[i] = vTaskRemoveFromUnorderedEventList(f[i - 1], s[i])
<1> DEFINE f == CHOOSE f : Removals(f, k, s, Len(s))
<1>1. Removals(f, k, s, Len(s))
  BY RemovalsExists
<1>2. RemoveAll(k, s) = f[Len(s)]
  BY DEF RemoveAll, Removals
<1> HIDE DEF f
<1>3. \A i \in 0 .. Len(s) : f[i] = IF i = 0 THEN k ELSE vTaskRemoveFromUnorderedEventList(f[i - 1], s[i])
  BY <1>1 DEF Removals
<1> QED
  BY <1>2, <1>3

\* Every waiter leaves the group that is destroyed.
LEMMA RemoveAllShape ==
    ASSUME NEW k, Shaped(k), NEW s \in Seq(Tasks)
    PROVE  Leave(k, RemoveAll(k, s), Members(s))
<1> DEFINE N == Len(s)
           First(n) == {s[i] : i \in 1 .. n}
<1>1. N \in Nat /\ DOMAIN s = 1 .. N
  OBVIOUS
<1>2. PICK f : /\ f[0] = k /\ RemoveAll(k, s) = f[N]
               /\ \A i \in 1 .. N : f[i] = vTaskRemoveFromUnorderedEventList(f[i - 1], s[i])
  BY <1>1, RemovalsSteps
<1> DEFINE P == {n \in Nat : n <= N => Leave(k, f[n], First(n))}
<1>3. 0 \in P
  <2>1. First(0) = {} /\ f[0] = k
    BY <1>2
  <2> HIDE DEF First
  <2> QED
    BY <2>1, LeaveNone
<1>4. ASSUME NEW n \in Nat, n \in P PROVE n + 1 \in P
  <2> SUFFICES ASSUME n + 1 <= N PROVE Leave(k, f[n + 1], First(n + 1))
    OBVIOUS
  <2>1. n + 1 \in 1 .. N /\ (n + 1) - 1 = n /\ n <= N
    BY <1>1
  <2>2. First(n + 1) = First(n) \cup {s[n + 1]}
    BY <1>1, <2>1
  <2> HIDE DEF First
  <2>3. Leave(k, f[n], First(n)) /\ Shaped(f[n])
    BY <1>4, <2>1 DEF Leave
  <2>4. Leave(f[n], f[n + 1], {s[n + 1]})
    <3>1. f[n + 1] = vTaskRemoveFromUnorderedEventList(f[n], s[n + 1])
      BY <1>2, <2>1
    <3> QED
      BY <2>3, <3>1, UnorderedShape
  <2> QED
    BY <2>2, <2>3, <2>4, LeaveTwice
<1> HIDE DEF P
<1>5. N \in P
  BY <1>1, <1>3, <1>4, Induction
<1>6. First(N) = Members(s)
  BY <1>1 DEF Members
<1> HIDE DEF First
<1> QED
  BY <1>1, <1>2, <1>5, <1>6 DEF P

\* f[i] is what VisitAll has made of u after the first i tasks.
Visits(f, u, s, n) ==
    f = [i \in 0 .. n |-> IF i = 0 THEN u ELSE Visit(f[i - 1], s[i])]

\* The states between the turns of the loop exist, whatever their number.
LEMMA VisitsExists ==
    ASSUME NEW u, NEW s, NEW n \in Nat
    PROVE  \E f : Visits(f, u, s, n)
<1> DEFINE P == {m \in Nat : \E f : Visits(f, u, s, m)}
<1>1. 0 \in P
  <2>1. Visits([i \in 0 .. 0 |-> u], u, s, 0)
    BY DEF Visits
  <2> QED
    BY <2>1
<1>2. ASSUME NEW m \in Nat, m \in P PROVE m + 1 \in P
  <2>1. PICK f : Visits(f, u, s, m)
    BY <1>2
  <2> DEFINE g == [i \in 0 .. m + 1 |-> IF i <= m THEN f[i] ELSE Visit(f[m], s[i])]
  <2>2. \A i \in 0 .. m : f[i] = IF i = 0 THEN u ELSE Visit(f[i - 1], s[i])
    BY <2>1 DEF Visits
  <2>3. ASSUME NEW i \in 0 .. m + 1
        PROVE  g[i] = IF i = 0 THEN u ELSE Visit(g[i - 1], s[i])
    BY <2>2
  <2>4. Visits(g, u, s, m + 1)
    BY <2>3 DEF Visits
  <2> QED
    BY <2>4
<1> HIDE DEF P
<1>3. Nat \subseteq P
  BY <1>1, <1>2, Induction
<1> QED
  BY <1>3 DEF P

\* VisitAll is a loop: a Visit for each waiter.
LEMMA VisitsSteps ==
    ASSUME NEW u, NEW s, Len(s) \in Nat
    PROVE  \E f : /\ f[0] = u /\ VisitAll(u, s) = f[Len(s)]
                 /\ \A i \in 1 .. Len(s) : f[i] = Visit(f[i - 1], s[i])
<1> DEFINE f == CHOOSE f : Visits(f, u, s, Len(s))
<1>1. Visits(f, u, s, Len(s))
  BY VisitsExists
<1>2. VisitAll(u, s) = f[Len(s)]
  BY DEF VisitAll, Visits
<1> HIDE DEF f
<1>3. \A i \in 0 .. Len(s) : f[i] = IF i = 0 THEN u ELSE Visit(f[i - 1], s[i])
  BY <1>1 DEF Visits
<1> QED
  BY <1>2, <1>3

\* The bits set in u have woken the tasks of woken, with all of these bits.
Visited(u, g, woken) ==
    /\ g = [k |-> g.k, bits |-> u.bits, wait |-> g.wait, clear |-> g.clear]
    /\ Leave(u.k, g.k, woken)
    /\ g.wait = [t \in Tasks |-> IF t \in woken THEN Unblock(wait[t], u.bits) ELSE wait[t]]

Satisfied(bits, S) == {t \in S : TestWaitCondition(bits, wait[t].request)}

\* One turn looks at one waiter.
LEMMA VisitOne ==
    ASSUME wait \in [Tasks -> WaitType], NEW u, NEW g, NEW W, NEW t \in Tasks, Visited(u, g, W),
           u.bits \in SUBSET EventBits
    PROVE  Visited(u, Visit(g, t), W \cup Satisfied(u.bits, {t}))
<1>1. g.bits = u.bits /\ Leave(u.k, g.k, W) /\ Shaped(g.k)
  BY DEF Visited, Leave
<1> DEFINE request == wait[t].request
<1>2. CASE ~TestWaitCondition(u.bits, request)
  <2>1. Satisfied(u.bits, {t}) = {}
    BY <1>2 DEF Satisfied
  <2>2. Visit(g, t) = g
    BY <1>1, <1>2 DEF Visit
  <2> QED
    BY <2>1, <2>2
<1>3. CASE TestWaitCondition(u.bits, request)
  <2> DEFINE j == vTaskRemoveFromUnorderedEventList(g.k, t)
             w == [g.wait EXCEPT ![t] = Unblock(@, u.bits)]
             c == g.clear \cup (IF request.clear THEN request.waitFor ELSE {})
             h == [k |-> j, bits |-> u.bits, wait |-> w, clear |-> c]
  <2>1. Satisfied(u.bits, {t}) = {t}
    BY <1>3 DEF Satisfied
  <2>2. Visit(g, t) = [g EXCEPT !.k = j, !.wait = w, !.clear = c]
    BY <1>1, <1>3 DEF Visit, Visited
  <2>3. Leave(g.k, j, {t})
    BY <1>1, UnorderedShape
  <2>4. w = [v \in Tasks |-> IF v \in W \cup {t} THEN Unblock(wait[v], u.bits) ELSE wait[v]]
    <3>1. Unblock(Unblock(wait[t], u.bits), u.bits) = Unblock(wait[t], u.bits)
      BY DEF Unblock, WaitType
    <3> QED
      BY <3>1 DEF Visited
  <2> HIDE DEF j, w, c
  <2>5. Visit(g, t) = h
    <3>1. PICK x, v, d : g = [k |-> x, bits |-> u.bits, wait |-> v, clear |-> d]
      BY DEF Visited
    <3> QED
      BY <2>2, <3>1
  <2>6. Leave(u.k, j, W \cup {t})
    BY <1>1, <2>3, LeaveTwice
  <2>7. /\ h = [k |-> h.k, bits |-> u.bits, wait |-> h.wait, clear |-> h.clear]
        /\ h.k = j /\ h.wait = w
    OBVIOUS
  <2> HIDE DEF h
  <2>8. Visited(u, h, W \cup {t})
    BY <2>4, <2>6, <2>7 DEF Visited
  <2> QED
    BY <2>1, <2>5, <2>8
<1> QED
  BY <1>2, <1>3

\* The loop of xEventGroupSetBits wakes exactly those it satisfies.
LEMMA VisitAllWakes ==
    ASSUME wait \in [Tasks -> WaitType], NEW s \in Seq(Tasks), NEW k, Shaped(k),
           NEW bits \in SUBSET EventBits
    PROVE  LET u == [k |-> k, bits |-> bits, wait |-> wait, clear |-> {}]
           IN  Visited(u, VisitAll(u, s), Satisfied(bits, Members(s)))
<1> DEFINE u == [k |-> k, bits |-> bits, wait |-> wait, clear |-> {}]
           N == Len(s)
           First(n) == {s[i] : i \in 1 .. n}
<1>1. N \in Nat /\ DOMAIN s = 1 .. N
  OBVIOUS
<1>2. PICK f : /\ f[0] = u /\ VisitAll(u, s) = f[N]
               /\ \A i \in 1 .. N : f[i] = Visit(f[i - 1], s[i])
  <2> HIDE DEF u
  <2> QED
    BY <1>1, VisitsSteps
<1> DEFINE P == {n \in Nat : n <= N => Visited(u, f[n], Satisfied(bits, First(n)))}
<1>3. 0 \in P
  <2>1. Satisfied(bits, First(0)) = {} /\ f[0] = u
    BY <1>2 DEF Satisfied
  <2>2. Visited(u, u, {})
    BY LeaveNone DEF Visited
  <2> HIDE DEF First, u
  <2> QED
    BY <2>1, <2>2
<1>4. ASSUME NEW n \in Nat, n \in P PROVE n + 1 \in P
  <2> SUFFICES ASSUME n + 1 <= N PROVE Visited(u, f[n + 1], Satisfied(bits, First(n + 1)))
    OBVIOUS
  <2>1. n + 1 \in 1 .. N /\ (n + 1) - 1 = n /\ n <= N
    BY <1>1
  <2>2. First(n + 1) = First(n) \cup {s[n + 1]} /\ s[n + 1] \in Tasks
    BY <1>1, <2>1
  <2>3. u.bits = bits
    OBVIOUS
  <2> HIDE DEF First, u
  <2>4. Visited(u, f[n], Satisfied(bits, First(n)))
    BY <1>4, <2>1
  <2>5. f[n + 1] = Visit(f[n], s[n + 1])
    BY <1>2, <2>1
  <2>6. Satisfied(bits, First(n + 1)) = Satisfied(bits, First(n)) \cup Satisfied(bits, {s[n + 1]})
    BY <2>2 DEF Satisfied
  <2>7. Visited(u, Visit(f[n], s[n + 1]),
                Satisfied(bits, First(n)) \cup Satisfied(u.bits, {s[n + 1]}))
    BY <2>2, <2>3, <2>4, VisitOne
  <2> QED
    BY <2>3, <2>5, <2>6, <2>7
<1> HIDE DEF P
<1>5. N \in P
  BY <1>1, <1>3, <1>4, Induction
<1>6. First(N) = Members(s)
  BY <1>1 DEF Members
<1> HIDE DEF First, u
<1>7. Visited(u, VisitAll(u, s), Satisfied(bits, Members(s)))
  BY <1>1, <1>2, <1>5, <1>6 DEF P
<1> QED
  BY <1>7 DEF u
-------------------------------------------------------------------------------
(***************************************************************************)
(* The tick, the end of a suspension, and waits.                           *)
(***************************************************************************)

\* vTaskSwitchContext.
LEMMA SwitchShape ==
    ASSUME NEW k, Shaped(k), NEW y
    PROVE  /\ SameLists(k, vTaskSwitchContext(k)) /\ Shaped(vTaskSwitchContext(k))
           /\ SameLists(k, YieldIf(y, k)) /\ Shaped(YieldIf(y, k))
<1> DEFINE j == vTaskSwitchContext(k)
<1>1. SameLists(k, j) /\ j.delayed = k.delayed
  BY DEF vTaskSwitchContext, Halt, Shaped, SameLists, Fields
<1> HIDE DEF j
<1>2. Shaped(j)
  BY <1>1 DEF SameLists, Shaped
<1>3. SameLists(k, k)
  BY DEF SameLists, Shaped
<1> QED
  BY <1>1, <1>2, <1>3 DEF j, YieldIf

\* xTaskIncrementTick ends the waits of the tasks that are due.
LEMMA ProcessTickShape ==
    ASSUME NEW k, Shaped(k)
    PROVE  \E gone : Leave(k, ProcessTick(k), gone)
<1> DEFINE now == Passed(k)
           due == Due(now)
           i   == TimeOutAll(now, due)
           own == k.uxPriority[k.pxCurrentTCB]
           y   == \/ i.xYieldPending
                  \/ \E t \in Members(due) : k.uxPriority[t] >= own
                  \/ Cardinality(ReadyAt(i, own)) > 1
           j   == [i EXCEPT !.xYieldPending = y]
<1>1. SameLists(k, now) /\ now.delayed = k.delayed
  BY DEF Passed, Shaped, SameLists, Fields
<1> HIDE DEF now
<1>2. Shaped(now)
  BY <1>1 DEF SameLists, Shaped
<1>3. due \in Seq(Tasks)
  BY <1>2, DropProperties DEF Due, Shaped
<1>4. ProcessTick(k) = j
  BY DEF ProcessTick, now
<1> HIDE DEF due
<1>5. Leave(now, i, Members(due)) /\ Shaped(i)
  <2>1. Leave(now, i, Members(due))
    BY <1>2, <1>3, TimeOutAllShape
  <2> HIDE DEF i
  <2> QED
    BY <2>1 DEF Leave
<1> HIDE DEF i, y
<1>6. SameLists(i, j) /\ Shaped(j)
  BY <1>5, YieldPendingShape
<1> HIDE DEF j
<1>7. Leave(k, j, Members(due))
  BY <1>1, <1>5, <1>6 DEF Leave, SameLists
<1> QED
  BY <1>4, <1>7

\* The tick interrupt between two steps.
LEMMA TickShape ==
    ASSUME NEW k, Settled(k, 0)
    PROVE  /\ Settled(TickInterrupt(k), 0)
           /\ \A l \in EventLists : Members(TickInterrupt(k).event[l]) \subseteq Members(k.event[l])
<1>1. Shaped(k)
  BY DEF Settled
<1> DEFINE i == ProcessTick(k)
           j == YieldIf(i.xYieldPending, i)
<1>2. PICK gone : Leave(k, i, gone)
  BY <1>1, ProcessTickShape
<1>3. TickInterrupt(k) = j
  BY DEF TickInterrupt, Settled
<1> HIDE DEF i
<1>4. Shaped(i)
  BY <1>2 DEF Leave
<1>5. SameLists(i, j) /\ Shaped(j)
  BY <1>4, SwitchShape
<1> HIDE DEF j
<1>6. i.pendingReady = <<>>
  <2>1. Members(i.pendingReady) = {}
    <3>1. Members(k.pendingReady) = {}
      BY DEF Settled, Members
    <3> QED
      BY <1>2, <3>1 DEF Leave
  <2>2. i.pendingReady \in Seq(Tasks)
    BY <1>4 DEF Shaped
  <2> QED
    BY <2>1, <2>2, MembersProperties
<1> QED
  BY <1>2, <1>3, <1>5, <1>6 DEF Settled, Leave, SameLists

\* xTaskResumeAll, when nothing is pended.
LEMMA ResumeAllShape ==
    ASSUME NEW k, Settled(k, 1)
    PROVE  Settled(ResumeAll(k), 0) /\ ResumeAll(k).event = k.event
<1> DEFINE open == [k EXCEPT !.uxSchedulerSuspended = @ - 1]
           j == [open EXCEPT !.uxPendedTicks = 0]
<1>1. open.uxSchedulerSuspended = 0 /\ open.pendingReady = <<>>
  BY DEF Settled, Shaped, Fields
<1>2. Settled(j, 0) /\ j.event = k.event
  <2>1. /\ DOMAIN open = Fields /\ open.event = k.event /\ open.delayed = k.delayed
        /\ open.pendingReady = k.pendingReady
    BY DEF Settled, Shaped, Fields
  <2> HIDE DEF open
  <2>2. /\ DOMAIN j = Fields /\ j.event = k.event /\ j.delayed = k.delayed
        /\ j.pendingReady = k.pendingReady /\ j.uxPendedTicks = 0
        /\ j.uxSchedulerSuspended = 0
    BY <1>1, <2>1 DEF Fields
  <2> HIDE DEF j
  <2> QED
    BY <2>2 DEF Settled, Shaped
<1>3. MoveAllPending(open) = open
  <2> HIDE DEF open
  <2> DEFINE Is(f) == f = [n \in 0 .. Len(open.pendingReady) |->
                 IF n = 0 THEN open ELSE MovePending(f[n - 1], open.pendingReady[n])]
             after == CHOOSE f : Is(f)
  <2>1. Len(open.pendingReady) = 0
    BY <1>1
  <2>2. Is([n \in 0 .. 0 |-> open])
    BY <2>1
  <2>3. Is(after)
    <3> HIDE DEF Is
    <3> QED
      BY <2>2
  <2>4. after[Len(open.pendingReady)] = open
    <3> HIDE DEF after
    <3> QED
      BY <2>1, <2>3
  <2> QED
    BY <2>4 DEF MoveAllPending
<1>4. ProcessTicks(open, 0) = open
  <2> HIDE DEF open
  <2> DEFINE Is(f) == f = [n \in 0 .. 0 |-> IF n = 0 THEN open ELSE ProcessTick(f[n - 1])]
             after == CHOOSE f : Is(f)
  <2>2. Is([n \in 0 .. 0 |-> open])
    OBVIOUS
  <2>3. Is(after)
    <3> HIDE DEF Is
    <3> QED
      BY <2>2
  <2>4. after[0] = open
    <3> HIDE DEF after
    <3> QED
      BY <2>3
  <2> QED
    BY <2>4 DEF ProcessTicks
<1>5. ResumeAll(k) = j
  <2>1. k.uxPendedTicks = 0
    BY DEF Settled
  <2> QED
    BY <1>1, <1>3, <1>4, <2>1 DEF ResumeAll
<1> QED
  BY <1>2, <1>5

\* The same with the yield that follows it.
LEMMA ResumeShape ==
    ASSUME NEW k, Settled(k, 1)
    PROVE  /\ Settled(xTaskResumeAll(k), 0) /\ xTaskResumeAll(k).event = k.event
           /\ Settled(ResumeAndYield(k), 0) /\ ResumeAndYield(k).event = k.event
<1> DEFINE j == ResumeAll(k)
<1>1. Settled(j, 0) /\ j.event = k.event /\ Shaped(j)
  BY ResumeAllShape DEF Settled
<1>2. xTaskResumeAll(k) = YieldIf(j.xYieldPending, j) /\ ResumeAndYield(k) = vTaskSwitchContext(j)
  BY DEF xTaskResumeAll, ResumeAndYield
<1> HIDE DEF j
<1>3. /\ SameLists(j, vTaskSwitchContext(j)) /\ Shaped(vTaskSwitchContext(j))
      /\ SameLists(j, YieldIf(j.xYieldPending, j)) /\ Shaped(YieldIf(j.xYieldPending, j))
  BY <1>1, SwitchShape
<1> QED
  BY <1>1, <1>2, <1>3 DEF Settled, SameLists

\* vListInsert into the delayed list keeps it a list of tasks.
LEMMA InsertByWakeShape ==
    ASSUME NEW k, k.delayed \in Seq(Tasks), NEW t \in Tasks
    PROVE  InsertByWake(k, t) \in Seq(Tasks)
<1> DEFINE I == {n \in 1 .. Len(k.delayed) : k.wake[k.delayed[n]] > k.wake[t]}
           i == IF I # {} THEN Min(I) ELSE 0
<1>1. InsertByWake(k, t) = PutBefore(k.delayed, i, t)
  BY DEF InsertByWake, PutBefore, SelectInSeq
<1>2. Len(k.delayed) \in Nat /\ I \in SUBSET (1 .. Len(k.delayed))
  OBVIOUS
<1>3. i \in 0 .. Len(k.delayed)
  <2> HIDE DEF I
  <2> QED
    BY <1>2, FirstIndex
<1> HIDE DEF i
<1> QED
  BY <1>1, <1>3, PutBeforeProperties

\* vListInsert into an event list adds the task.
LEMMA InsertByPriorityShape ==
    ASSUME NEW k, NEW s \in Seq(Tasks), NEW t \in Tasks
    PROVE  InsertByPriority(k, s, t) \in Seq(Tasks)
<1> DEFINE I == {n \in 1 .. Len(s) : k.eventPriority[s[n]] < k.eventPriority[t]}
           i == IF I # {} THEN Min(I) ELSE 0
<1>1. InsertByPriority(k, s, t) = PutBefore(s, i, t)
  BY DEF InsertByPriority, PutBefore, SelectInSeq
<1>2. Len(s) \in Nat /\ I \in SUBSET (1 .. Len(s))
  OBVIOUS
<1>3. i \in 0 .. Len(s)
  <2> HIDE DEF I
  <2> QED
    BY <1>2, FirstIndex
<1> HIDE DEF i
<1> QED
  BY <1>1, <1>3, PutBeforeProperties

\* prvAddCurrentTaskToDelayedList does not touch event lists.
LEMMA DelayShape ==
    ASSUME NEW k, Shaped(k), k.pxCurrentTCB \in Tasks, NEW ticks
    PROVE  /\ SameLists(k, prvAddCurrentTaskToDelayedList(k, ticks))
           /\ Shaped(prvAddCurrentTaskToDelayedList(k, ticks))
<1> DEFINE t == k.pxCurrentTCB
           h == RemoveStateItem(k, t)
           i == taskRESET_READY_PRIORITY(h, k.uxPriority[t])
           j == [i EXCEPT !.ucDelayAborted[t] = FALSE]
           w == [j EXCEPT !.wake[t] = ticks]
           x == [j EXCEPT !.suspended = @ \cup {t}]
           y == [w EXCEPT !.delayed = InsertByWake(w, t)]
<1>1. SameLists(k, h) /\ h.delayed = Without(k.delayed, t)
  BY DEF Shaped, SameLists, RemoveStateItem, Fields
<1>2. Without(k.delayed, t) \in Seq(Tasks)
  BY DropProperties DEF Without, Shaped
<1>3. prvAddCurrentTaskToDelayedList(k, ticks) = IF ticks = Forever THEN x ELSE y
  BY DEF prvAddCurrentTaskToDelayedList
<1> HIDE DEF h
<1>4. SameLists(h, i) /\ i.delayed = h.delayed
  BY <1>1 DEF SameLists, taskRESET_READY_PRIORITY, Fields
<1> HIDE DEF i
<1>5. SameLists(i, j) /\ j.delayed = i.delayed
  BY <1>4 DEF SameLists, Fields
<1> HIDE DEF j
<1>6. SameLists(j, w) /\ w.delayed = j.delayed /\ SameLists(j, x) /\ x.delayed = j.delayed
  BY <1>5 DEF SameLists, Fields
<1> HIDE DEF w, x
<1>7. InsertByWake(w, t) \in Seq(Tasks)
  BY <1>1, <1>2, <1>4, <1>5, <1>6, InsertByWakeShape
<1>8. SameLists(w, y) /\ y.delayed = InsertByWake(w, t)
  BY <1>6 DEF SameLists, Fields
<1> HIDE DEF y
<1>9. SameLists(k, x) /\ SameLists(k, y)
  BY <1>1, <1>4, <1>5, <1>6, <1>8 DEF SameLists
<1>10. Shaped(x) /\ Shaped(y)
  BY <1>1, <1>2, <1>4, <1>5, <1>6, <1>7, <1>8, <1>9 DEF SameLists, Shaped
<1> QED
  BY <1>3, <1>9, <1>10

\* vTaskPlaceOnUnorderedEventList: the running task joins the waiters of the group.
LEMMA JoinShape ==
    ASSUME NEW n, NEW k, Settled(k, n), k.pxCurrentTCB \in Tasks, NEW ticks
    PROVE  LET j == vTaskPlaceOnUnorderedEventList(k, ticks)
           IN  /\ Settled(j, n)
               /\ Members(j.event[Group]) = Members(k.event[Group]) \cup {k.pxCurrentTCB}
<1> DEFINE t == k.pxCurrentTCB
           s == Append(k.event[Group], t)
           e == [k.event EXCEPT ![Group] = s]
           i == [k EXCEPT !.event = e]
           j == prvAddCurrentTaskToDelayedList(i, ticks)
<1>1. Group \in EventLists /\ Shaped(k) /\ k.event[Group] \in Seq(Tasks)
  BY EventAssumption DEF Settled, Shaped
<1>2. s \in Seq(Tasks) /\ Members(s) = Members(k.event[Group]) \cup {t}
  BY <1>1, AppendMembers
<1>3. vTaskPlaceOnUnorderedEventList(k, ticks) = j
  BY <1>1 DEF vTaskPlaceOnUnorderedEventList, Shaped, Fields
<1> HIDE DEF s
<1>4. e \in [EventLists -> Seq(Tasks)] /\ e[Group] = s
  BY <1>1, <1>2 DEF Shaped
<1> HIDE DEF e
<1>5. /\ DOMAIN i = Fields /\ i.event = e /\ i.delayed = k.delayed /\ i.pxCurrentTCB = t
      /\ i.pendingReady = k.pendingReady /\ i.uxSchedulerSuspended = k.uxSchedulerSuspended
      /\ i.uxPendedTicks = k.uxPendedTicks
  BY <1>1 DEF Shaped, Fields
<1> HIDE DEF i
<1>6. Shaped(i)
  BY <1>1, <1>4, <1>5 DEF Shaped
<1>7. SameLists(i, j) /\ Shaped(j)
  BY <1>5, <1>6, DelayShape
<1> HIDE DEF j
<1>8. Settled(j, n) /\ j.event = e
  BY <1>5, <1>7 DEF Settled, SameLists
<1> QED
  BY <1>2, <1>3, <1>4, <1>8

\* vTaskPlaceOnEventList: the daemon waits for a command, which is no wait for the group.
LEMMA PlaceShape ==
    ASSUME NEW n, NEW k, Settled(k, n), k.pxCurrentTCB \in Tasks, NEW ticks
    PROVE  LET j == vTaskPlaceOnEventList(k, TimerQueue, ticks)
           IN  Settled(j, n) /\ j.event[Group] = k.event[Group]
<1> DEFINE t == k.pxCurrentTCB
           s == InsertByPriority(k, k.event[TimerQueue], t)
           e == [k.event EXCEPT ![TimerQueue] = s]
           i == [k EXCEPT !.event = e]
           j == prvAddCurrentTaskToDelayedList(i, ticks)
<1>1. /\ Group \in EventLists /\ TimerQueue \in EventLists /\ Group # TimerQueue
      /\ Shaped(k) /\ k.event[TimerQueue] \in Seq(Tasks)
  BY EventAssumption DEF Settled, Shaped
<1>2. s \in Seq(Tasks)
  BY <1>1, InsertByPriorityShape
<1>3. vTaskPlaceOnEventList(k, TimerQueue, ticks) = j
  BY <1>1 DEF vTaskPlaceOnEventList, Shaped, Fields
<1> HIDE DEF s
<1>4. e \in [EventLists -> Seq(Tasks)] /\ e[Group] = k.event[Group]
  BY <1>1, <1>2 DEF Shaped
<1> HIDE DEF e
<1>5. /\ DOMAIN i = Fields /\ i.event = e /\ i.delayed = k.delayed /\ i.pxCurrentTCB = t
      /\ i.pendingReady = k.pendingReady /\ i.uxSchedulerSuspended = k.uxSchedulerSuspended
      /\ i.uxPendedTicks = k.uxPendedTicks
  BY <1>1 DEF Shaped, Fields
<1> HIDE DEF i
<1>6. Shaped(i)
  BY <1>1, <1>4, <1>5 DEF Shaped
<1>7. SameLists(i, j) /\ Shaped(j)
  BY <1>5, <1>6, DelayShape
<1> HIDE DEF j
<1>8. Settled(j, n) /\ j.event = e
  BY <1>5, <1>7 DEF Settled, SameLists
<1> QED
  BY <1>3, <1>4, <1>8

\* xTaskRemoveFromEventList of the daemon's queue wakes no waiter of the group.
LEMMA WakeDaemonShape ==
    ASSUME NEW k, Settled(k, 0), k.event[TimerQueue] # <<>>
    PROVE  LET j == xTaskRemoveFromEventList(k, TimerQueue)
           IN  Settled(j, 0) /\ j.event[Group] = k.event[Group]
<1> DEFINE t == Head(k.event[TimerQueue])
           s == Tail(k.event[TimerQueue])
           e == [k.event EXCEPT ![TimerQueue] = s]
           y == k.xYieldPending \/ WakesHigher(k, TimerQueue)
           i == [k EXCEPT !.event = e, !.xYieldPending = y]
           j == MakeReady(i, t)
<1>1. /\ Group \in EventLists /\ TimerQueue \in EventLists /\ Group # TimerQueue
      /\ Shaped(k) /\ k.event[TimerQueue] \in Seq(Tasks)
  BY EventAssumption DEF Settled, Shaped
<1>2. s \in Seq(Tasks)
  BY <1>1
<1>3. xTaskRemoveFromEventList(k, TimerQueue) = j
  <2>1. k.uxSchedulerSuspended = 0
    BY DEF Settled
  <2>2. [k EXCEPT !.event[TimerQueue] = Tail(@), !.xYieldPending = @ \/ WakesHigher(k, TimerQueue)]
            = i
    BY <1>1 DEF Shaped, Fields
  <2> QED
    BY <2>1, <2>2, Zenon DEF xTaskRemoveFromEventList
<1> HIDE DEF s
<1>4. e \in [EventLists -> Seq(Tasks)] /\ e[Group] = k.event[Group]
  BY <1>1, <1>2 DEF Shaped
<1> HIDE DEF e, y, t
<1>5. /\ DOMAIN i = Fields /\ i.event = e /\ i.delayed = k.delayed
      /\ i.pendingReady = k.pendingReady /\ i.uxSchedulerSuspended = k.uxSchedulerSuspended
      /\ i.uxPendedTicks = k.uxPendedTicks
  BY <1>1 DEF Shaped, Fields
<1> HIDE DEF i
<1>6. Shaped(i)
  BY <1>1, <1>4, <1>5 DEF Shaped
<1>7. SameLists(i, j) /\ Shaped(j)
  BY <1>6, MakeReadyShape
<1> HIDE DEF j
<1>8. Settled(j, 0) /\ j.event = e
  BY <1>5, <1>7 DEF Settled, SameLists
<1> QED
  BY <1>3, <1>4, <1>8

\* vTaskSuspendAll.
LEMMA SuspendShape ==
    ASSUME NEW k, Settled(k, 0)
    PROVE  /\ Settled(vTaskSuspendAll(k), 1) /\ vTaskSuspendAll(k).event = k.event
           /\ vTaskSuspendAll(k).pxCurrentTCB = k.pxCurrentTCB
<1> DEFINE j == vTaskSuspendAll(k)
<1>1. /\ DOMAIN j = Fields /\ j.event = k.event /\ j.delayed = k.delayed
      /\ j.pendingReady = k.pendingReady /\ j.pxCurrentTCB = k.pxCurrentTCB
      /\ j.uxSchedulerSuspended = 1 /\ j.uxPendedTicks = k.uxPendedTicks
  BY DEF vTaskSuspendAll, Settled, Shaped, Fields
<1> HIDE DEF j
<1>2. Settled(j, 1)
  BY <1>1 DEF Settled, Shaped
<1> QED
  BY <1>1, <1>2 DEF j

\* Whom the end of a list of removals leaves behind, with the scheduler suspended.
LEMMA LeaveSettled ==
    ASSUME NEW k, NEW n, Settled(k, n), NEW j, NEW gone, Leave(k, j, gone)
    PROVE  /\ Settled(j, n)
           /\ \A l \in EventLists : Members(j.event[l]) = Members(k.event[l]) \ gone
<1>1. Members(j.pendingReady) = {}
  <2>1. Members(k.pendingReady) = {}
    BY DEF Settled, Members
  <2> QED
    BY <2>1 DEF Leave
<1>2. j.pendingReady = <<>>
  BY <1>1, MembersProperties DEF Leave, Shaped
<1> QED
  BY <1>2 DEF Leave, Settled
-------------------------------------------------------------------------------
(***************************************************************************)
(* The steps.                                                              *)
(***************************************************************************)

\* What is not there is not there when fewer bits are.
LEMMA FewerBits ==
    ASSUME NEW more, NEW bits \in SUBSET more, NEW request, ~TestWaitCondition(more, request)
    PROVE  ~TestWaitCondition(bits, request)
BY DEF TestWaitCondition

\* A call that returns takes bits away and adds none.
LEMMA AfterExitIsLess ==
    ASSUME NEW request
    PROVE  AfterExit(request) \in SUBSET uxEventBits
BY DEF AfterExit

\* A step after which no one has joined the group and every waiter's call is as it was.
LEMMA NoneJoins ==
    ASSUME GroupInv, Settled(kernel', 0),
           Members(kernel'.event[Group]) \subseteq Members(kernel.event[Group]),
           uxEventBits' \in SUBSET uxEventBits, UNCHANGED <<created, wait>>,
           xTimerQueue' \in Seq(SUBSET EventBits)
    PROVE  GroupInv'
<1>1. ASSUME NEW t \in Tasks, Blocked(t)'
      PROVE  created' /\ ~wait'[t].unblocked /\ ~TestWaitCondition(uxEventBits', wait'[t].request)
  <2>1. created /\ ~wait[t].unblocked /\ ~TestWaitCondition(uxEventBits, wait[t].request)
    BY <1>1 DEF GroupInv, Blocked
  <2> QED
    BY <2>1, FewerBits
<1>2. uxEventBits' \in SUBSET EventBits
  BY DEF GroupInv
<1> QED
  BY <1>1, <1>2 DEF GroupInv

\* A get that finds its bits returns; one that does not waits for what is not there.
LEMMA GetKeeps ==
    ASSUME GroupInv, NEW t \in Users, Get(t)
    PROVE  GroupInv'
<1>1. PICK request \in Requests[t] :
          \/ /\ TestWaitCondition(uxEventBits, request)
             /\ uxEventBits' = AfterExit(request)
             /\ UNCHANGED <<kernel, wait>>
          \/ /\ ~TestWaitCondition(uxEventBits, request)
             /\ \E ticks \in WaitTicks : kernel' = ResumeAndYield(
                    vTaskPlaceOnUnorderedEventList(vTaskSuspendAll(kernel), ticks))
             /\ wait' = [wait EXCEPT ![t].request = request]
             /\ UNCHANGED uxEventBits
  BY DEF Get
<1>2. t \in Tasks /\ request \in RequestType /\ kernel.pxCurrentTCB = t /\ created
      /\ wait[t] = NoWait /\ UNCHANGED <<created, xTimerQueue>>
  BY <1>1, EventAssumption DEF Get, Users, Running, InWait
<1>3. CASE UNCHANGED <<kernel, wait>> /\ uxEventBits' = AfterExit(request)
  BY <1>2, <1>3, AfterExitIsLess, NoneJoins DEF GroupInv
<1>4. ASSUME ~TestWaitCondition(uxEventBits, request), NEW ticks \in WaitTicks,
             kernel' = ResumeAndYield(
                 vTaskPlaceOnUnorderedEventList(vTaskSuspendAll(kernel), ticks)),
             wait' = [wait EXCEPT ![t].request = request], UNCHANGED uxEventBits
      PROVE  GroupInv'
  <2> DEFINE i == vTaskSuspendAll(kernel)
             j == vTaskPlaceOnUnorderedEventList(i, ticks)
  <2>1. Settled(i, 1) /\ i.event = kernel.event /\ i.pxCurrentTCB = t
    BY <1>2, SuspendShape DEF GroupInv
  <2> HIDE DEF i
  <2>2. Settled(j, 1) /\ Members(j.event[Group]) = Members(kernel.event[Group]) \cup {t}
    BY <1>2, <2>1, JoinShape
  <2>3. kernel' = ResumeAndYield(j)
    BY <1>4 DEF i
  <2> HIDE DEF j
  <2>4. Settled(kernel', 0) /\ Members(kernel'.event[Group]) = Members(kernel.event[Group]) \cup {t}
    BY <2>2, <2>3, ResumeShape
  <2> DEFINE w == [NoWait EXCEPT !.request = request]
  <2>5. wait' \in [Tasks -> WaitType] /\ ~wait'[t].unblocked /\ wait'[t].request = request
    <3>1. w \in WaitType /\ ~w.unblocked /\ w.request = request
      BY <1>2 DEF NoWait, WaitType
    <3>2. wait' = [wait EXCEPT ![t] = w]
      BY <1>2, <1>4 DEF GroupInv
    <3> HIDE DEF w
    <3> QED
      BY <1>2, <3>1, <3>2 DEF GroupInv
  <2>6. ASSUME NEW u \in Tasks, Blocked(u)'
        PROVE  created' /\ ~wait'[u].unblocked /\ ~TestWaitCondition(uxEventBits', wait'[u].request)
    <3>1. CASE u = t
      BY <1>2, <1>4, <2>5, <3>1
    <3>2. CASE u # t
      <4>1. Blocked(u) /\ wait'[u] = wait[u]
        BY <1>4, <2>4, <2>6, <3>2 DEF Blocked, GroupInv
      <4> QED
        BY <1>2, <1>4, <4>1 DEF GroupInv
    <3> QED
      BY <3>1, <3>2
  <2> QED
    BY <1>2, <1>4, <2>4, <2>5, <2>6 DEF GroupInv
<1> QED
  BY <1>1, <1>3, <1>4

\* The second half of a get ends a wait of its own and no other.
LEMMA ReturnKeeps ==
    ASSUME GroupInv, NEW t \in Users, Return(t)
    PROVE  GroupInv'
<1>1. uxEventBits' \in SUBSET uxEventBits
  BY AfterExitIsLess DEF Return
<1>2. /\ t \in Tasks /\ wait' = [wait EXCEPT ![t] = NoWait]
      /\ UNCHANGED <<kernel, created, xTimerQueue>>
  BY DEF Return, Users
<1>3. NoWait \in WaitType /\ ~NoWait.unblocked /\ ~TestWaitCondition(uxEventBits', NoWait.request)
  BY DEF NoWait, WaitType, NoRequest, TestWaitCondition
<1>4. ASSUME NEW u \in Tasks, Blocked(u)'
      PROVE  created' /\ ~wait'[u].unblocked /\ ~TestWaitCondition(uxEventBits', wait'[u].request)
  <2>1. created /\ ~wait[u].unblocked /\ ~TestWaitCondition(uxEventBits, wait[u].request)
    BY <1>2, <1>4 DEF Blocked, GroupInv
  <2>2. wait'[u] = IF u = t THEN NoWait ELSE wait[u]
    BY <1>2 DEF GroupInv
  <2>3. ~TestWaitCondition(uxEventBits', wait[u].request)
    BY <1>1, <2>1, FewerBits
  <2> QED
    BY <1>2, <1>3, <2>1, <2>2, <2>3
<1>5. wait' \in [Tasks -> WaitType]
  BY <1>2, <1>3 DEF GroupInv
<1> QED
  BY <1>1, <1>2, <1>4, <1>5 DEF GroupInv

\* What a set does: it wakes those that all the bits satisfy, with all the bits, and clears
\* bits only when it has looked at everyone.
LEMMA SetBits ==
    ASSUME GroupInv, NEW bits \in SUBSET EventBits, xEventGroupSetBits(bits)
    PROVE  LET all   == uxEventBits \cup bits
               woken == Satisfied(all, Members(kernel.event[Group]))
           IN  /\ Settled(kernel', 0)
               /\ Members(kernel'.event[Group]) = Members(kernel.event[Group]) \ woken
               /\ wait' = [t \in Tasks |-> IF t \in woken THEN Unblock(wait[t], all) ELSE wait[t]]
               /\ uxEventBits' \in SUBSET all
<1> DEFINE all   == uxEventBits \cup bits
           s     == kernel.event[Group]
           woken == Satisfied(all, Members(s))
           k     == vTaskSuspendAll(kernel)
           u     == [k |-> k, bits |-> all, wait |-> wait, clear |-> {}]
           g     == VisitAll(u, s)
<1>1. Settled(k, 1) /\ k.event = kernel.event
  BY SuspendShape DEF GroupInv
<1>2. Group \in EventLists /\ s \in Seq(Tasks) /\ all \in SUBSET EventBits
  BY EventAssumption DEF GroupInv, Settled, Shaped
<1>3. /\ kernel' = xTaskResumeAll(g.k) /\ wait' = g.wait /\ uxEventBits' = g.bits \ g.clear
  BY DEF xEventGroupSetBits
<1>4. Shaped(k)
  BY <1>1 DEF Settled
<1> HIDE DEF k, s, all
<1>5. Visited(u, g, woken)
  BY <1>2, <1>4, VisitAllWakes DEF GroupInv
<1>6. u.k = k /\ u.bits = all
  OBVIOUS
<1> HIDE DEF g, u, woken
<1>7. /\ Leave(k, g.k, woken) /\ g.bits = all
      /\ g.wait = [t \in Tasks |-> IF t \in woken THEN Unblock(wait[t], all) ELSE wait[t]]
  BY <1>5, <1>6 DEF Visited
<1>8. Settled(g.k, 1) /\ Members(g.k.event[Group]) = Members(k.event[Group]) \ woken
  BY <1>1, <1>2, <1>7, LeaveSettled
<1>9. Settled(kernel', 0) /\ kernel'.event = g.k.event
  BY <1>3, <1>8, ResumeShape
<1> QED
  BY <1>1, <1>3, <1>7, <1>8, <1>9 DEF woken, s, all

\* A waiter that is unblocked has been told the bits of the moment.
LEMMA UnblockType ==
    ASSUME NEW w \in WaitType, NEW bits \in SUBSET EventBits
    PROVE  Unblock(w, bits) \in WaitType /\ Unblock(w, bits).unblocked
           /\ Unblock(w, bits).bits = bits
BY DEF Unblock, WaitType

\* A set leaves those waiting whom its bits do not satisfy.
LEMMA SetBitsKeeps ==
    ASSUME GroupInv, NEW bits \in SUBSET EventBits, xEventGroupSetBits(bits),
           UNCHANGED created, xTimerQueue' \in Seq(SUBSET EventBits)
    PROVE  GroupInv'
<1> DEFINE all   == uxEventBits \cup bits
           woken == Satisfied(all, Members(kernel.event[Group]))
<1>1. /\ Settled(kernel', 0)
      /\ Members(kernel'.event[Group]) = Members(kernel.event[Group]) \ woken
      /\ wait' = [t \in Tasks |-> IF t \in woken THEN Unblock(wait[t], all) ELSE wait[t]]
      /\ uxEventBits' \in SUBSET all
  BY SetBits
<1>2. all \in SUBSET EventBits
  BY DEF GroupInv
<1> HIDE DEF all
<1>3. wait' \in [Tasks -> WaitType]
  BY <1>1, <1>2, UnblockType DEF GroupInv
<1>4. ASSUME NEW t \in Tasks, Blocked(t)'
      PROVE  created' /\ ~wait'[t].unblocked /\ ~TestWaitCondition(uxEventBits', wait'[t].request)
  <2>1. Blocked(t) /\ t \notin woken
    BY <1>1, <1>4 DEF Blocked
  <2>2. ~TestWaitCondition(all, wait[t].request)
    BY <2>1 DEF Satisfied, Blocked
  <2>3. ~TestWaitCondition(uxEventBits', wait[t].request)
    BY <1>1, <2>2, FewerBits
  <2>4. wait'[t] = wait[t]
    BY <1>1, <2>1
  <2> QED
    BY <2>1, <2>3, <2>4 DEF GroupInv
<1>5. uxEventBits' \in SUBSET EventBits
  BY <1>1, <1>2
<1> HIDE DEF woken
<1> QED
  BY <1>1, <1>3, <1>4, <1>5 DEF GroupInv

\* A set by a task.
LEMMA SetKeeps ==
    ASSUME GroupInv, NEW t \in Users, Set(t)
    PROVE  GroupInv'
<1>1. PICK bits \in BitsToSet[t] : xEventGroupSetBits(bits)
  BY DEF Set
<1>2. bits \in SUBSET EventBits /\ UNCHANGED <<created, xTimerQueue>>
  BY <1>1, EventAssumption DEF Set
<1> QED
  BY <1>1, <1>2, SetBitsKeeps DEF GroupInv

\* A set by an interrupt, which only posts.
LEMMA SetFromISRKeeps ==
    ASSUME GroupInv, SetFromISR
    PROVE  GroupInv'
<1>1. PICK bits \in BitsOfISR : xTimerQueue' = Append(xTimerQueue, bits)
  BY DEF SetFromISR
<1>2. xTimerQueue' \in Seq(SUBSET EventBits)
  BY <1>1, EventAssumption DEF GroupInv
<1>3. Settled(kernel', 0) /\ kernel'.event[Group] = kernel.event[Group]
  <2>1. CASE kernel.event[TimerQueue] = <<>>
    BY <2>1 DEF SetFromISR, GroupInv
  <2>2. CASE kernel.event[TimerQueue] # <<>>
    <3> DEFINE i == xTaskRemoveFromEventList(kernel, TimerQueue)
               y == WakesHigher(kernel, TimerQueue)
    <3>1. Settled(i, 0) /\ i.event[Group] = kernel.event[Group]
      BY <2>2, WakeDaemonShape DEF GroupInv
    <3>2. kernel' = YieldIf(y, i)
      BY <2>2 DEF SetFromISR
    <3> HIDE DEF i, y
    <3>3. SameLists(i, kernel') /\ Shaped(kernel')
      BY <3>1, <3>2, SwitchShape DEF Settled
    <3> QED
      BY <3>1, <3>3 DEF Settled, SameLists
  <2> QED
    BY <2>1, <2>2
<1> QED
  BY <1>2, <1>3, NoneJoins DEF SetFromISR

\* A set that the daemon carries out.
LEMMA RunsPendingKeeps ==
    ASSUME GroupInv, RunsPending
    PROVE  GroupInv'
<1>1. CASE /\ xTimerQueue # <<>> /\ xTimerQueue' = Tail(xTimerQueue)
           /\ xEventGroupSetBits(Head(xTimerQueue))
  <2>1. Head(xTimerQueue) \in SUBSET EventBits /\ Tail(xTimerQueue) \in Seq(SUBSET EventBits)
    BY <1>1 DEF GroupInv
  <2> QED
    BY <1>1, <2>1, SetBitsKeeps DEF RunsPending
<1>2. CASE /\ kernel' = ResumeAndYield(
                 vTaskPlaceOnEventList(vTaskSuspendAll(kernel), TimerQueue, Forever))
           /\ UNCHANGED <<uxEventBits, wait, xTimerQueue>>
  <2> DEFINE i == vTaskSuspendAll(kernel)
             j == vTaskPlaceOnEventList(i, TimerQueue, Forever)
  <2>1. Settled(i, 1) /\ i.event = kernel.event /\ i.pxCurrentTCB \in Tasks
    <3>1. kernel.pxCurrentTCB \in Tasks
      BY EventAssumption DEF RunsPending, Running
    <3> QED
      BY <3>1, SuspendShape DEF GroupInv
  <2> HIDE DEF i
  <2>2. Settled(j, 1) /\ j.event[Group] = kernel.event[Group]
    BY <2>1, PlaceShape
  <2>3. kernel' = ResumeAndYield(j)
    BY <1>2 DEF i
  <2> HIDE DEF j
  <2>4. Settled(kernel', 0) /\ kernel'.event[Group] = kernel.event[Group]
    BY <2>2, <2>3, ResumeShape
  <2> QED
    BY <1>2, <2>4, NoneJoins DEF RunsPending, GroupInv
<1> QED
  BY <1>1, <1>2 DEF RunsPending

\* Destruction unblocks every waiter.
LEMMA DestroyKeeps ==
    ASSUME GroupInv, NEW t \in Users, Destroy(t)
    PROVE  GroupInv'
<1> DEFINE k == vTaskSuspendAll(kernel)
           s == kernel.event[Group]
           j == RemoveAll(k, s)
<1>1. Settled(k, 1) /\ k.event = kernel.event /\ Shaped(k)
  BY SuspendShape DEF GroupInv, Settled
<1>2. Group \in EventLists /\ s \in Seq(Tasks)
  BY EventAssumption DEF GroupInv, Settled, Shaped
<1>3. kernel' = xTaskResumeAll(j)
  BY DEF Destroy
<1> HIDE DEF k
<1>4. Leave(k, j, Members(s))
  BY <1>1, <1>2, RemoveAllShape
<1> HIDE DEF j
<1>5. Settled(j, 1) /\ Members(j.event[Group]) = {}
  BY <1>1, <1>2, <1>4, LeaveSettled
<1>6. Settled(kernel', 0) /\ Members(kernel'.event[Group]) = {}
  BY <1>3, <1>5, ResumeShape
<1>7. wait' \in [Tasks -> WaitType]
  <2>1. wait' = [u \in Tasks |-> IF Blocked(u) THEN Unblock(wait[u], {}) ELSE wait[u]]
    BY DEF Destroy
  <2>2. \A u \in Tasks : wait[u] \in WaitType /\ Unblock(wait[u], {}) \in WaitType
    BY UnblockType DEF GroupInv
  <2> QED
    BY <2>1, <2>2
<1> QED
  BY <1>6, <1>7 DEF GroupInv, Destroy, Blocked

\* A new group has no bits and nobody waits.
LEMMA CreateKeeps ==
    ASSUME GroupInv, NEW t \in Users, Create(t)
    PROVE  GroupInv'
BY DEF GroupInv, Create, Blocked

\* A tick ends waits and begins none.
LEMMA TickKeeps ==
    ASSUME GroupInv, Tick
    PROVE  GroupInv'
<1>1. Settled(kernel', 0) /\ Members(kernel'.event[Group]) \subseteq Members(kernel.event[Group])
  BY TickShape, EventAssumption DEF GroupInv, Tick
<1> QED
  BY <1>1, NoneJoins DEF Tick, GroupInv

\* Adding a task to its ready list is no matter of the event lists.
LEMMA AddShape ==
    ASSUME NEW k, Settled(k, 0), NEW t
    PROVE  LET j == prvAddTaskToReadyList(k, t) IN Settled(j, 0) /\ j.event = k.event
<1> DEFINE j == prvAddTaskToReadyList(k, t)
<1>1. /\ DOMAIN j = Fields /\ j.event = k.event /\ j.delayed = k.delayed
      /\ j.pendingReady = k.pendingReady
      /\ j.uxSchedulerSuspended = k.uxSchedulerSuspended /\ j.uxPendedTicks = k.uxPendedTicks
  BY DEF prvAddTaskToReadyList, Settled, Shaped, Fields
<1> HIDE DEF j
<1>2. Settled(j, 0) /\ j.event = k.event
  BY <1>1 DEF Settled, Shaped
<1> QED
  BY <1>2 DEF j

\* Nobody waits when the scheduler starts.
LEMMA StartShape ==
    ASSUME NEW order \in Seq(Tasks)
    PROVE  LET k == SchedulerInit(Tasks, order)
           IN  Settled(k, 0) /\ \A l \in EventLists : k.event[l] = <<>>
<1> DEFINE none == [l \in EventLists |-> <<>>]
           empty == [ready |-> [p \in Priorities |-> EmptyRing],
                  uxTopReadyPriority |-> {},
                  pxCurrentTCB |-> Idle,
                  uxPriority |-> uxInitialPriority,
                  uxBasePriority |-> uxInitialPriority,
                  uxMutexesHeld |-> [t \in Tasks |-> 0],
                  eventPriority |-> uxInitialPriority,
                  delayed |-> <<>>, wake |-> [t \in Tasks |-> 0],
                  left |-> [t \in Tasks |-> 0],
                  suspended |-> {},
                  event |-> none,
                  pendingReady |-> <<>>,
                  uxSchedulerSuspended |-> 0, uxPendedTicks |-> 0,
                  xYieldPending |-> FALSE,
                  ucDelayAborted |-> [t \in Tasks |-> FALSE],
                  halted |-> FALSE]
           alive == Drop(order, Tasks \ Tasks)
           lower == {t \in Tasks : \E u \in Tasks : uxInitialPriority[u] > uxInitialPriority[t]}
           Is(f, n) == f = [i \in 0 .. n |->
                          IF i = 0 THEN empty ELSE prvAddTaskToReadyList(f[i - 1], alive[i])]
           added == CHOOSE f : Is(f, Len(alive))
           k == [added[Len(alive)] EXCEPT !.pxCurrentTCB = Last(Drop(alive, lower))]
<1>1. SchedulerInit(Tasks, order) = k
  BY DEF SchedulerInit
<1>2. Len(alive) \in Nat
  <2>1. alive \in Seq(Tasks)
    BY DropProperties
  <2> HIDE DEF alive
  <2> QED
    BY <2>1
<1>3. Settled(empty, 0) /\ empty.event = none
  <2>1. none \in [EventLists -> Seq(Tasks)]
    OBVIOUS
  <2> HIDE DEF none
  <2>2. /\ DOMAIN empty = Fields /\ empty.event = none /\ empty.delayed = <<>>
        /\ empty.pendingReady = <<>> /\ empty.uxSchedulerSuspended = 0
        /\ empty.uxPendedTicks = 0
    BY DEF Fields
  <2> HIDE DEF empty
  <2> QED
    BY <2>1, <2>2 DEF Settled, Shaped
<1> DEFINE last == Last(Drop(alive, lower))
<1> HIDE DEF none, empty, alive, lower, last
<1>4. \A n \in Nat : \E f : Is(f, n)
  <2> DEFINE P == {n \in Nat : \E f : Is(f, n)}
  <2>1. 0 \in P
    <3>1. Is([i \in 0 .. 0 |-> empty], 0)
      OBVIOUS
    <3> QED
      BY <3>1
  <2>2. ASSUME NEW n \in Nat, n \in P PROVE n + 1 \in P
    <3>1. PICK f : Is(f, n)
      BY <2>2
    <3> DEFINE g == [i \in 0 .. n + 1 |->
                       IF i <= n THEN f[i] ELSE prvAddTaskToReadyList(f[n], alive[i])]
    <3>2. \A i \in 0 .. n : f[i] = IF i = 0 THEN empty ELSE prvAddTaskToReadyList(f[i - 1], alive[i])
      BY <3>1
    <3>3. ASSUME NEW i \in 0 .. n + 1
          PROVE  g[i] = IF i = 0 THEN empty ELSE prvAddTaskToReadyList(g[i - 1], alive[i])
      BY <3>2
    <3>4. Is(g, n + 1)
      BY <3>3
    <3> HIDE DEF g, Is
    <3> QED
      BY <3>4
  <2> HIDE DEF P
  <2>3. Nat \subseteq P
    BY <2>1, <2>2, Induction
  <2> QED
    BY <2>3 DEF P
<1>5. Is(added, Len(alive))
  <2> HIDE DEF Is
  <2> QED
    BY <1>2, <1>4
<1> HIDE DEF added
<1>6. \A i \in 0 .. Len(alive) : added[i] =
          IF i = 0 THEN empty ELSE prvAddTaskToReadyList(added[i - 1], alive[i])
  BY <1>5
<1> DEFINE Q == {n \in Nat : n <= Len(alive) => Settled(added[n], 0) /\ added[n].event = none}
<1>7. 0 \in Q
  BY <1>2, <1>3, <1>6
<1>8. ASSUME NEW n \in Nat, n \in Q PROVE n + 1 \in Q
  <2> SUFFICES ASSUME n + 1 <= Len(alive)
               PROVE  Settled(added[n + 1], 0) /\ added[n + 1].event = none
    OBVIOUS
  <2>1. Settled(added[n], 0) /\ added[n].event = none
    BY <1>2, <1>8
  <2>2. added[n + 1] = prvAddTaskToReadyList(added[n], alive[n + 1])
    BY <1>2, <1>6
  <2> QED
    BY <2>1, <2>2, AddShape
<1> HIDE DEF Q
<1>9. Len(alive) \in Q
  BY <1>2, <1>7, <1>8, Induction
<1> DEFINE x == added[Len(alive)]
<1>10. Settled(x, 0) /\ x.event = none
  BY <1>2, <1>9 DEF Q
<1>11. k = [x EXCEPT !.pxCurrentTCB = last]
  BY DEF last
<1> HIDE DEF x, k
<1>12. /\ DOMAIN k = Fields /\ k.event = none /\ k.delayed = x.delayed
       /\ k.pendingReady = x.pendingReady /\ k.uxPendedTicks = x.uxPendedTicks
       /\ k.uxSchedulerSuspended = x.uxSchedulerSuspended
  BY <1>10, <1>11 DEF Settled, Shaped, Fields
<1>13. Settled(k, 0)
  BY <1>10, <1>12 DEF Settled, Shaped
<1> QED
  BY <1>1, <1>12, <1>13 DEF none

\* The invariant holds at the start.
LEMMA GroupInitOK ==
    ASSUME Init
    PROVE  GroupInv
<1>1. PICK order \in SetToSeqs(Tasks \ {Idle, Daemon}) :
          kernel = SchedulerInit(Tasks, order \o <<Idle, Daemon>>)
  BY DEF Init
<1>2. order \o <<Idle, Daemon>> \in Seq(Tasks)
  <2>1. IsFiniteSet(Tasks \ {Idle, Daemon})
    BY SchedulerAssumption, FS_Subset
  <2> DEFINE S == Tasks \ {Idle, Daemon}
  <2>2. order \in Seq(S)
    <3> HIDE DEF S
    <3> QED
      BY <2>1, ListOfSet DEF S
  <2>3. order \in Seq(Tasks)
    <3>1. \A i \in 1 .. Len(order) : order[i] \in Tasks
      BY <2>2
    <3> QED
      BY <2>2, <3>1
  <2>4. <<Idle, Daemon>> \in Seq(Tasks)
    BY SchedulerAssumption, EventAssumption
  <2> QED
    BY <2>3, <2>4
<1>3. Settled(kernel, 0) /\ \A l \in EventLists : kernel.event[l] = <<>>
  BY <1>1, <1>2, StartShape
<1>4. \A t \in Tasks : ~Blocked(t)
  BY <1>3, EventAssumption DEF Blocked, Members
<1>5. wait \in [Tasks -> WaitType]
  BY DEF Init, NoWait, WaitType
<1> QED
  BY <1>3, <1>4, <1>5 DEF Init, GroupInv

\* Each step keeps the invariant.
LEMMA GroupNextOK ==
    ASSUME GroupInv, [Next]_vars
    PROVE  GroupInv'
<1>1. CASE UNCHANGED vars
  BY <1>1 DEF vars, GroupInv, Blocked
<1>2. CASE RunsPending
  BY <1>2, RunsPendingKeeps
<1>3. CASE SetFromISR
  BY <1>3, SetFromISRKeeps
<1>4. ASSUME NEW t \in Users, UserStep(t) PROVE GroupInv'
  BY <1>4, GetKeeps, ReturnKeeps, SetKeeps, DestroyKeeps, CreateKeeps DEF UserStep
<1>5. CASE Tick
  BY <1>5, TickKeeps
<1> QED
  BY <1>1, <1>2, <1>3, <1>4, <1>5 DEF Next

\* The invariant: the lists of the kernel are lists of tasks, nothing is pended between two
\* steps, and who is on the list of the group waits for bits that are not there.
THEOREM GroupInvariant == Spec => []GroupInv
<1>1. Init => GroupInv
  BY GroupInitOK
<1>2. GroupInv /\ [Next]_vars => GroupInv'
  BY GroupNextOK
<1> QED
  BY <1>1, <1>2, PTL DEF Spec

\* RtosalEventGroup!NoMissedEvent: whoever set the bits, cleared others or timed out in
\* between, a task does not go on waiting for bits that are there.
THEOREM NoEventIsMissed == Spec => []NoMissedEvent
<1>1. GroupInv => NoMissedEvent
  BY DEF GroupInv, NoMissedEvent, Users
<1> QED
  BY <1>1, GroupInvariant, PTL

\* RtosalEventGroup!SetsAreBroadcasts: the loop of xEventGroupSetBits wakes all waiters that
\* the bits satisfy, with the bits that no one has cleared yet, and none of the others.
THEOREM SetsReachAllWaiters == Spec => SetsAreBroadcasts
<1>1. ASSUME GroupInv, NEW bits \in SUBSET EventBits, xEventGroupSetBits(bits),
             NEW t \in Users, Blocked(t)
      PROVE  LET all == uxEventBits \cup bits
             IN  IF TestWaitCondition(all, wait[t].request)
                 THEN wait'[t].unblocked /\ wait'[t].bits = all
                 ELSE t \in Members(kernel'.event[Group])
  <2> DEFINE all   == uxEventBits \cup bits
             woken == Satisfied(all, Members(kernel.event[Group]))
  <2>1. /\ Members(kernel'.event[Group]) = Members(kernel.event[Group]) \ woken
        /\ wait' = [u \in Tasks |-> IF u \in woken THEN Unblock(wait[u], all) ELSE wait[u]]
    BY <1>1, SetBits
  <2>2. t \in Tasks /\ t \in Members(kernel.event[Group]) /\ wait[t] \in WaitType
        /\ all \in SUBSET EventBits
    BY <1>1 DEF Users, Blocked, GroupInv
  <2> HIDE DEF all
  <2>3. t \in woken <=> TestWaitCondition(all, wait[t].request)
    BY <2>2 DEF Satisfied
  <2> HIDE DEF woken
  <2>4. t \in woken => wait'[t].unblocked /\ wait'[t].bits = all
    BY <2>1, <2>2, UnblockType
  <2>5. t \notin woken => t \in Members(kernel'.event[Group])
    BY <2>1, <2>2
  <2> QED
    BY <2>3, <2>4, <2>5 DEF all
<1>2. GroupInv => \A bits \in SUBSET EventBits :
          xEventGroupSetBits(bits) /\ kernel.event[Group] # <<>> =>
          LET all == uxEventBits \cup bits
          IN  \A t \in Users : Blocked(t) =>
                 IF TestWaitCondition(all, wait[t].request)
                 THEN wait'[t].unblocked /\ wait'[t].bits = all
                 ELSE t \in Members(kernel'.event[Group])
  BY <1>1
<1> QED
  BY <1>2, GroupInvariant, PTL DEF SetsAreBroadcasts
===============================================================================
