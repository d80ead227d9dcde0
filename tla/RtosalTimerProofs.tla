--------------------------- MODULE RtosalTimerProofs ---------------------------
(***************************************************************************)
(* The timers, for every width of the tick count, every number of timers,  *)
(* every period and every lateness within the bounds of TimerAssumption.   *)
(*                                                                         *)
(* First the arithmetic of prvInsertTimerInActiveList: PlaceIsRight.  Then *)
(* what taking an item out of a sorted list and putting one in does        *)
(* (ListWithoutTimer, ListWithItem), the sums and differences of tick      *)
(* counts, and what the parts of the invariant say of a state.  The        *)
(* invariant counts time from the daemon's last look at the tick count     *)
(* (Now), so that a wrap that the daemon has not noticed yet is one that   *)
(* Now has not made, and it gives each list the round of the tick count    *)
(* that its items expire in (Round).  One lemma per step then shows that   *)
(* the step keeps it (...Keeps), and the four properties follow.           *)
(***************************************************************************)
EXTENDS RtosalTimer, RtosLemmas

\* The age of a command is what the two tick counts differ by, across a wrap too.
LEMMA Age ==
    ASSUME NEW now \in TickType, NEW command \in TickType
    PROVE  Minus(now, command) = IF command <= now THEN now - command
                                 ELSE now - command + Wrap
BY TimerAssumption, UnsignedDifference DEF TickType, Minus

\* The expiry time is the command's time and the period, less a wrap if they reach it.
LEMMA ExpiryTime ==
    ASSUME NEW command \in TickType, NEW period \in 1 .. Wrap - 1
    PROVE  Plus(command, period) = IF command + period < Wrap THEN command + period
                                   ELSE command + period - Wrap
<1>1. Wrap \in Nat \ {0} /\ period \in 0 .. Wrap - 1
  BY TimerAssumption
<1> QED
  BY <1>1, UnsignedSum DEF TickType, Plus

\* prvInsertTimerInActiveList is right for every tick count, every period and every
\* age of the command less than a whole wrap: the timer is due at once exactly if its
\* period has passed since the command, it goes to the overflow list exactly if the
\* tick count wraps before the rest of the period has passed, and to the current list
\* otherwise.
THEOREM PlaceIsRight ==
    ASSUME NEW now \in TickType, NEW command \in TickType, NEW period \in 1 .. Wrap - 1
    PROVE  Place(Plus(command, period), now, command, period) =
               IF Minus(now, command) >= period THEN "due"
               ELSE IF now + (period - Minus(now, command)) >= Wrap THEN "overflow"
               ELSE "current"
<1> DEFINE age  == Minus(now, command)
           next == Plus(command, period)
<1>1. Wrap \in Nat /\ now \in Nat /\ command \in Nat /\ period \in Nat
      /\ now < Wrap /\ command < Wrap /\ period < Wrap /\ period >= 1
  BY TimerAssumption DEF TickType
<1>2. age = IF command <= now THEN now - command ELSE now - command + Wrap
  BY Age
<1>3. next = IF command + period < Wrap THEN command + period ELSE command + period - Wrap
  BY ExpiryTime
<1>4. Place(next, now, command, period) =
          IF next <= now THEN IF age >= period THEN "due" ELSE "overflow"
          ELSE IF now < command /\ next >= command THEN "due" ELSE "current"
  BY DEF Place
<1> HIDE DEF age, next
<1>5. CASE command <= now
  <2>1. age = now - command
    BY <1>2, <1>5
  <2>2. CASE command + period < Wrap
    BY <1>1, <1>3, <1>4, <1>5, <2>1, <2>2 DEF age, next
  <2>3. CASE ~(command + period < Wrap)
    BY <1>1, <1>3, <1>4, <1>5, <2>1, <2>3 DEF age, next
  <2> QED  BY <2>2, <2>3
<1>6. CASE ~(command <= now)
  <2>1. age = now - command + Wrap
    BY <1>2, <1>6
  <2>2. CASE command + period < Wrap
    BY <1>1, <1>3, <1>4, <1>6, <2>1, <2>2 DEF age, next
  <2>3. CASE ~(command + period < Wrap)
    BY <1>1, <1>3, <1>4, <1>6, <2>1, <2>3 DEF age, next
  <2> QED  BY <2>2, <2>3
<1> QED  BY <1>5, <1>6 DEF age, next
-------------------------------------------------------------------------------
\* The lists.

GoodList(s) == s \in Seq(ItemType) /\ Apart(s) /\ InOrder(s)

LEMMA ItemFields ==
    ASSUME NEW s, GoodList(s)
    PROVE  /\ DOMAIN s = 1 .. Len(s) /\ Len(s) \in Nat
           /\ \A i \in 1 .. Len(s) : /\ s[i] \in ItemType
                                     /\ s[i].timer \in Timers /\ s[i].value \in Nat
                                     /\ s[i].value < Wrap
           /\ \A x \in Members(s) : /\ x \in ItemType /\ x.timer \in Timers
                                    /\ x.value \in Nat /\ x.value < Wrap
           /\ \A x \in Members(s) : x.timer \in TimersIn(s)
<1>1. s \in Seq(ItemType)
  BY DEF GoodList
<1>2. DOMAIN s = 1 .. Len(s) /\ Len(s) \in Nat /\ \A i \in 1 .. Len(s) : s[i] \in ItemType
  BY <1>1
<1>3. \A x \in ItemType : x.timer \in Timers /\ x.value \in Nat /\ x.value < Wrap
  BY TimerAssumption DEF ItemType, TickType
<1> QED
  BY <1>2, <1>3 DEF Members, TimersIn

\* Taking the first item off a list.
LEMMA TailOfList ==
    ASSUME NEW s, GoodList(s), s # <<>>
    PROVE  /\ GoodList(Tail(s))
           /\ Members(Tail(s)) \subseteq Members(s)
           /\ Head(s) \in Members(s)
           /\ Head(s).timer \notin TimersIn(Tail(s))
           /\ TimersIn(s) = TimersIn(Tail(s)) \cup {Head(s).timer}
           /\ \A x \in Members(s) : Head(s).value <= x.value
<1> DEFINE r == Tail(s)
<1>1. /\ s \in Seq(ItemType) /\ Len(s) \in Nat /\ DOMAIN s = 1 .. Len(s)
      /\ Len(s) >= 1 /\ Head(s) = s[1]
      /\ \A i \in 1 .. Len(s) : s[i].value \in Nat
  <2>1. s \in Seq(ItemType)
    BY DEF GoodList
  <2> QED
    BY <2>1, EmptySeq, ItemFields
<1>2. /\ r \in Seq(ItemType) /\ Len(r) = Len(s) - 1 /\ DOMAIN r = 1 .. Len(s) - 1
      /\ \A i \in 1 .. Len(s) - 1 : r[i] = s[i + 1]
  BY <1>1, HeadTailProperties, LenProperties
<1>3. \A i \in 1 .. Len(s) - 1 : i + 1 \in 1 .. Len(s) /\ i + 1 # 1
  BY <1>1
<1>4. \A i \in 1 .. Len(s) : i = 1 \/ (i - 1 \in 1 .. Len(s) - 1 /\ (i - 1) + 1 = i)
  BY <1>1
<1> HIDE DEF r
<1>5. Apart(r)
  <2>1. \A i, j \in 1 .. Len(s) - 1 : i + 1 = j + 1 => i = j
    BY <1>1
  <2>2. \A i, j \in 1 .. Len(s) : s[i].timer = s[j].timer => i = j
    BY <1>1 DEF GoodList, Apart
  <2>3. \A i, j \in 1 .. Len(s) - 1 : r[i].timer = r[j].timer => i = j
    BY <1>2, <1>3, <2>1, <2>2
  <2> QED
    BY <1>2, <2>3 DEF Apart
<1>6. InOrder(r)
  <2>1. \A i, j \in 1 .. Len(s) - 1 : i < j => i + 1 < j + 1
    BY <1>1
  <2>2. \A i, j \in 1 .. Len(s) : i < j => s[i].value <= s[j].value
    BY <1>1 DEF GoodList, InOrder
  <2>3. \A i, j \in 1 .. Len(s) - 1 : i < j => r[i].value <= r[j].value
    BY <1>2, <1>3, <2>1, <2>2
  <2> QED
    BY <1>2, <2>3 DEF InOrder
<1>7. Members(s) = Members(r) \cup {Head(s)}
  <2>1. 1 \in 1 .. Len(s)
    BY <1>1
  <2>2. ASSUME NEW i \in 1 .. Len(s) PROVE s[i] \in Members(r) \cup {Head(s)}
    <3>1. CASE i = 1
      BY <1>1, <3>1
    <3>2. CASE i - 1 \in 1 .. Len(s) - 1 /\ (i - 1) + 1 = i
      <4>1. r[i - 1] = s[i]
        BY <1>2, <3>2
      <4> QED
        BY <1>2, <3>2, <4>1 DEF Members
    <3> QED
      BY <1>4, <3>1, <3>2
  <2>3. Members(r) \subseteq Members(s)
    BY <1>1, <1>2, <1>3 DEF Members
  <2>4. Head(s) \in Members(s)
    BY <1>1, <2>1 DEF Members
  <2> QED
    BY <1>1, <2>2, <2>3, <2>4 DEF Members
<1>8. Head(s).timer \notin TimersIn(r)
  <2>1. 1 \in 1 .. Len(s)
    BY <1>1
  <2>2. \A i, j \in 1 .. Len(s) : s[i].timer = s[j].timer => i = j
    BY <1>1 DEF GoodList, Apart
  <2>3. \A i \in 1 .. Len(s) - 1 : r[i].timer # s[1].timer
    BY <1>2, <1>3, <2>1, <2>2
  <2> QED
    BY <1>1, <1>2, <2>3 DEF TimersIn, Members
<1>9. \A x \in Members(s) : Head(s).value <= x.value
  <2>1. 1 \in 1 .. Len(s) /\ \A i \in 1 .. Len(s) : i = 1 \/ 1 < i
    BY <1>1
  <2>2. \A i \in 1 .. Len(s) : s[1].value <= s[i].value
    BY <1>1, <2>1 DEF GoodList, InOrder
  <2> QED
    BY <1>1, <2>2 DEF Members
<1> QED
  BY <1>2, <1>5, <1>6, <1>7, <1>8, <1>9 DEF r, GoodList, TimersIn

\* Taking a timer's item out of a list.
LEMMA ListWithoutTimer ==
    ASSUME NEW s, GoodList(s), NEW t
    PROVE  /\ GoodList(WithoutTimer(s, t))
           /\ Members(WithoutTimer(s, t)) \subseteq Members(s)
           /\ TimersIn(WithoutTimer(s, t)) = TimersIn(s) \ {t}
<1> DEFINE gone == {x \in Members(s) : x.timer = t}
           r    == Drop(s, gone)
<1>1. s \in Seq(ItemType) /\ DOMAIN s = 1 .. Len(s)
  BY ItemFields DEF GoodList
<1> HIDE DEF gone
<1>2. r \in Seq(ItemType) /\ Members(r) = Members(s) \ gone
  BY <1>1, DropProperties
<1>3. \A i, j \in DOMAIN r : i < j =>
         \E a, b \in DOMAIN s : a < b /\ r[i] = s[a] /\ r[j] = s[b]
  BY <1>1, DropKeepsOrder
<1> HIDE DEF r
<1>4. DOMAIN r \subseteq Nat
  BY <1>2
<1>5. InOrder(r)
  BY <1>3 DEF GoodList, InOrder
<1>6. Apart(r)
  <2> SUFFICES ASSUME NEW i \in DOMAIN r, NEW j \in DOMAIN r, i < j, r[i].timer = r[j].timer
               PROVE  FALSE
    BY <1>4 DEF Apart
  <2>1. PICK a \in DOMAIN s, b \in DOMAIN s : a < b /\ r[i] = s[a] /\ r[j] = s[b]
    BY <1>3
  <2>2. a = b
    BY <2>1 DEF GoodList, Apart
  <2> QED
    BY <1>1, <2>1, <2>2
<1>7. TimersIn(r) = TimersIn(s) \ {t}
  BY <1>2 DEF gone, TimersIn
<1> QED
  BY <1>2, <1>5, <1>6, <1>7 DEF r, gone, GoodList, WithoutTimer

\* Putting an item into a list, in the place its value asks for.
LEMMA ListWithItem ==
    ASSUME NEW s, GoodList(s), NEW x \in ItemType, x.timer \notin TimersIn(s)
    PROVE  /\ GoodList(Insert(s, x))
           /\ Members(Insert(s, x)) = Members(s) \cup {x}
           /\ TimersIn(Insert(s, x)) = TimersIn(s) \cup {x.timer}
<1> DEFINE later == {i \in 1 .. Len(s) : s[i].value > x.value}
           new   == Insert(s, x)
<1>1. /\ s \in Seq(ItemType) /\ DOMAIN s = 1 .. Len(s) /\ Len(s) \in Nat
      /\ \A i \in 1 .. Len(s) : s[i].value \in Nat
      /\ x.value \in Nat /\ x.value < Wrap
      /\ \A i, j \in 1 .. Len(s) : i < j => s[i].value <= s[j].value
      /\ \A i, j \in 1 .. Len(s) : s[i].timer = s[j].timer => i = j
      /\ \A i \in 1 .. Len(s) : s[i].timer # x.timer
  <2>1. s \in Seq(ItemType) /\ DOMAIN s = 1 .. Len(s) /\ Len(s) \in Nat
        /\ \A i \in 1 .. Len(s) : s[i].value \in Nat
    BY ItemFields DEF GoodList
  <2>2. x.value \in Nat /\ x.value < Wrap
    BY TimerAssumption DEF ItemType, TickType
  <2> QED
    BY <2>1, <2>2 DEF GoodList, InOrder, Apart, TimersIn, Members
<1>2. new = LET i == IF later # {} THEN Min(later) ELSE 0
            IN  IF i = 0 THEN Append(s, x) ELSE InsertAt(s, i, x)
  BY DEF Insert, SelectInSeq
<1> HIDE DEF later, new
\* The place is behind the first n items.
<1>3. \E n \in 0 .. Len(s) :
         /\ new = SubSeq(s, 1, n) \o <<x>> \o SubSeq(s, n + 1, Len(s))
         /\ \A i \in 1 .. Len(s) : i <= n => s[i].value <= x.value
         /\ \A i \in 1 .. Len(s) : i > n => x.value <= s[i].value
  <2>1. CASE later = {}
    <3>1. new = Append(s, x)
      BY <1>2, <2>1
    <3>2. Append(s, x) = SubSeq(s, 1, Len(s)) \o <<x>> \o SubSeq(s, Len(s) + 1, Len(s))
      <4>1. SubSeq(s, 1, Len(s)) = s
        BY <1>1, SubSeqFull
      <4>2. SubSeq(s, Len(s) + 1, Len(s)) = <<>>
        BY <1>1, SubSeqEmpty
      <4>3. s \o <<x>> \in Seq(ItemType)
        BY <1>1
      <4>4. (s \o <<x>>) \o <<>> = s \o <<x>>
        BY <4>3, ConcatEmptySeq
      <4> QED
        BY <1>1, <4>1, <4>2, <4>4, AppendIsConcat
    <3>3. \A i \in 1 .. Len(s) : i <= Len(s) /\ ~(i > Len(s)) /\ s[i].value <= x.value
      BY <1>1, <2>1 DEF later
    <3>4. Len(s) \in 0 .. Len(s)
      BY <1>1
    <3> QED
      BY <3>1, <3>2, <3>3, <3>4
  <2>2. CASE later # {}
    <3>1. later \in SUBSET Nat
      BY DEF later
    <3>2. Min(later) \in later /\ \A i \in later : Min(later) <= i
      BY <2>2, <3>1, LeastNumber DEF Min
    <3> DEFINE m == Min(later)
    <3> HIDE DEF m
    <3>3. /\ m \in 1 .. Len(s) /\ s[m].value > x.value
          /\ \A i \in 1 .. Len(s) : s[i].value > x.value => m <= i
      BY <3>2 DEF later, m
    <3>4. m - 1 \in 0 .. Len(s) /\ (m - 1) + 1 = m /\ m # 0
      BY <1>1, <3>3
    <3>5. new = SubSeq(s, 1, m - 1) \o <<x>> \o SubSeq(s, (m - 1) + 1, Len(s))
      BY <1>2, <2>2, <3>4 DEF m, InsertAt
    <3>6. \A i \in 1 .. Len(s) : i <= m - 1 => s[i].value <= x.value
      BY <1>1, <3>3
    <3>7. \A i \in 1 .. Len(s) : i > m - 1 => x.value <= s[i].value
      <4> SUFFICES ASSUME NEW i \in 1 .. Len(s), i > m - 1 PROVE x.value <= s[i].value
        OBVIOUS
      <4>1. i = m \/ m < i
        BY <1>1, <3>3
      <4>2. s[m].value <= s[i].value
        BY <1>1, <3>3, <4>1
      <4> QED
        BY <1>1, <3>3, <4>2
    <3> QED
      BY <3>4, <3>5, <3>6, <3>7
  <2> QED
    BY <2>1, <2>2
<1>4. PICK n \in 0 .. Len(s) :
         /\ new = SubSeq(s, 1, n) \o <<x>> \o SubSeq(s, n + 1, Len(s))
         /\ \A i \in 1 .. Len(s) : i <= n => s[i].value <= x.value
         /\ \A i \in 1 .. Len(s) : i > n => x.value <= s[i].value
  BY <1>3
<1>5. /\ new \in Seq(ItemType) /\ Len(new) = Len(s) + 1 /\ DOMAIN new = 1 .. Len(s) + 1
      /\ \A i \in 1 .. Len(s) + 1 :
            new[i] = IF i <= n THEN s[i] ELSE IF i = n + 1 THEN x ELSE s[i - 1]
  <2>1. s \in Seq(ItemType)
    BY <1>1
  <2>2. new \in Seq(ItemType) /\ IsInserted(new, s, n, x)
    <3>1. \A r : r = SubSeq(s, 1, n) \o <<x>> \o SubSeq(s, n + 1, Len(s))
             => r \in Seq(ItemType) /\ IsInserted(r, s, n, x)
      BY <2>1, InsertElements, Zenon
    <3> QED
      BY <1>4, <3>1, Zenon
  <2> QED
    BY <2>2 DEF IsInserted
<1>6. Members(new) = Members(s) \cup {x}
  <2>1. s \in Seq(ItemType)
    BY <1>1
  <2>2. new = PutIn(s, n, x)
    BY <1>4 DEF PutIn
  <2> QED
    BY <2>1, <2>2, InsertProperties
<1>7. Apart(new)
  <2> SUFFICES ASSUME NEW i \in 1 .. Len(s) + 1, NEW j \in 1 .. Len(s) + 1,
                      new[i].timer = new[j].timer
               PROVE  i = j
    BY <1>5 DEF Apart
  <2>1. n \in Nat /\ Len(s) \in Nat /\ n <= Len(s) /\ i \in Nat /\ j \in Nat
    BY <1>1
  <2>2. \A k \in 1 .. Len(s) + 1 : /\ k <= n => k \in 1 .. Len(s)
                                   /\ k > n + 1 => k - 1 \in 1 .. Len(s)
    BY <2>1
  <2>3. CASE i = n + 1
    BY SMTT(30), <1>1, <1>5, <2>1, <2>2, <2>3
  <2>4. CASE j = n + 1
    BY SMTT(30), <1>1, <1>5, <2>1, <2>2, <2>4
  <2>5. CASE i # n + 1 /\ j # n + 1
    <3> DEFINE At1(k) == IF k <= n THEN k ELSE k - 1
    <3>1. \A k \in {i, j} : At1(k) \in 1 .. Len(s) /\ new[k] = s[At1(k)]
      <4>1. ASSUME NEW k \in {i, j} PROVE At1(k) \in 1 .. Len(s) /\ new[k] = s[At1(k)]
        <5>1. k \in 1 .. Len(s) + 1 /\ k # n + 1 /\ (k <= n \/ k > n + 1)
          BY <2>1, <2>5, <4>1
        <5>2. At1(k) \in 1 .. Len(s)
          BY <2>1, <2>2, <5>1
        <5>3. new[k] = IF k <= n THEN s[k] ELSE s[k - 1]
          BY <1>5, <5>1
        <5> QED
          BY <5>2, <5>3
      <4> QED
        BY <4>1
    <3>2. At1(i) = At1(j) => i = j
      BY <2>1, <2>5
    <3> HIDE DEF At1
    <3> QED
      BY <1>1, <3>1, <3>2
  <2> QED
    BY <2>3, <2>4, <2>5
<1>8. InOrder(new)
  <2> SUFFICES ASSUME NEW i \in 1 .. Len(s) + 1, NEW j \in 1 .. Len(s) + 1, i < j
               PROVE  new[i].value <= new[j].value
    BY <1>5 DEF InOrder
  <2>1. n \in Nat /\ Len(s) \in Nat /\ n <= Len(s) /\ i \in Nat /\ j \in Nat
    BY <1>1
  <2>2. \A k \in 1 .. Len(s) + 1 : /\ k <= n => k \in 1 .. Len(s)
                                   /\ k > n + 1 => k - 1 \in 1 .. Len(s) /\ k - 1 > n
    BY <2>1
  <2>3. CASE i <= n
    <3>1. i \in 1 .. Len(s) /\ new[i] = s[i] /\ s[i].value <= x.value
      BY <1>4, <1>5, <2>2, <2>3
    <3>2. CASE j <= n
      BY <1>1, <1>5, <2>2, <3>1, <3>2
    <3>3. CASE j = n + 1
      BY <1>5, <2>1, <3>1, <3>3
    <3>4. CASE j > n + 1
      <4>1. new[j] = s[j - 1] /\ j - 1 \in 1 .. Len(s) /\ j - 1 > n
        <5>1. ~(j <= n) /\ j # n + 1
          BY <2>1, <3>4
        <5> QED
          BY <1>5, <2>2, <3>4, <5>1
      <4>2. x.value <= s[j - 1].value
        BY <1>4, <4>1
      <4> QED
        BY <1>1, <3>1, <4>1, <4>2
    <3> QED
      BY <2>1, <3>2, <3>3, <3>4
  <2>4. CASE i = n + 1
    <3>1. j > n + 1 /\ new[i] = x /\ new[j] = s[j - 1]
      BY <1>5, <2>1, <2>4
    <3> QED
      BY <1>4, <2>2, <3>1
  <2>5. CASE i > n + 1
    <3>1. j > n + 1 /\ i - 1 < j - 1 /\ new[i] = s[i - 1] /\ new[j] = s[j - 1]
      BY <1>5, <2>1, <2>5
    <3> QED
      BY <1>1, <2>2, <2>5, <3>1
  <2> QED
    BY <2>1, <2>3, <2>4, <2>5
<1> QED
  BY <1>5, <1>6, <1>7, <1>8 DEF new, GoodList, TimersIn

-------------------------------------------------------------------------------
\* The tick count.

LEMMA Bounds ==
    /\ Wrap \in Nat \ {0} /\ MaxLate \in Nat /\ MaxLate >= 1 /\ MaxLate < Wrap - 2
    /\ TickType = 0 .. Wrap - 1 /\ 0 \in TickType /\ 1 \in TickType
    /\ \A x \in TickType : x \in Nat /\ x < Wrap
    /\ \A p \in 1 .. Wrap - MaxLate - 2 :
          p \in Nat /\ p >= 1 /\ p < Wrap /\ p \in 1 .. Wrap - 1 /\ p \in TickType
BY TimerAssumption DEF TickType

LEMMA MinusType ==
    ASSUME NEW x \in TickType, NEW v \in TickType
    PROVE  Minus(x, v) \in TickType /\ Minus(x, v) \in Nat /\ Minus(x, v) < Wrap
<1>1. Minus(x, v) = IF v <= x THEN x - v ELSE x - v + Wrap
  BY Age
<1>2. x \in Nat /\ v \in Nat /\ x < Wrap /\ v < Wrap
  BY Bounds
<1>3. Minus(x, v) \in Nat /\ Minus(x, v) < Wrap
  BY <1>1, <1>2, Bounds
<1> QED
  BY <1>3, Bounds

LEMMA PlusType ==
    ASSUME NEW v \in TickType, NEW p \in 1 .. Wrap - MaxLate - 2
    PROVE  /\ Plus(v, p) \in TickType
           /\ Plus(v, p) = IF v + p < Wrap THEN v + p ELSE v + p - Wrap
<1>1. p \in 1 .. Wrap - 1 /\ p \in Nat /\ p < Wrap /\ v \in Nat /\ v < Wrap
  BY Bounds
<1>2. Plus(v, p) = IF v + p < Wrap THEN v + p ELSE v + p - Wrap
  BY <1>1, ExpiryTime
<1>3. Plus(v, p) \in Nat /\ Plus(v, p) < Wrap
  BY <1>1, <1>2, Bounds
<1> QED
  BY <1>2, <1>3, Bounds

\* What a tick adds to a difference.
LEMMA MinusOfTick ==
    ASSUME NEW x \in TickType, NEW v \in TickType
    PROVE  /\ Plus(x, 1) \in TickType
           /\ Minus(Plus(x, 1), v) = IF Minus(x, v) + 1 < Wrap THEN Minus(x, v) + 1 ELSE 0
<1>1. 1 \in 1 .. Wrap - MaxLate - 2 /\ x \in Nat /\ x < Wrap /\ v \in Nat /\ v < Wrap
  BY Bounds
<1> DEFINE y == Plus(x, 1)
<1>2. y \in TickType /\ y = IF x + 1 < Wrap THEN x + 1 ELSE x + 1 - Wrap
  BY <1>1, PlusType
<1> HIDE DEF y
<1>3. Minus(y, v) = IF v <= y THEN y - v ELSE y - v + Wrap
  BY <1>2, Age
<1>4. Minus(x, v) = IF v <= x THEN x - v ELSE x - v + Wrap
  BY Age
<1>5. Minus(y, v) = IF Minus(x, v) + 1 < Wrap THEN Minus(x, v) + 1 ELSE 0
  BY <1>1, <1>2, <1>3, <1>4, Bounds
<1> QED
  BY <1>2, <1>5 DEF y

\* The difference of two differences.
LEMMA MinusOfMinus ==
    ASSUME NEW x \in TickType, NEW y \in TickType, NEW v \in TickType,
           Minus(x, y) <= Minus(x, v)
    PROVE  Minus(y, v) = Minus(x, v) - Minus(x, y)
<1>1. x \in Nat /\ x < Wrap /\ y \in Nat /\ y < Wrap /\ v \in Nat /\ v < Wrap
  BY Bounds
<1>2. /\ Minus(x, y) = IF y <= x THEN x - y ELSE x - y + Wrap
      /\ Minus(x, v) = IF v <= x THEN x - v ELSE x - v + Wrap
      /\ Minus(y, v) = IF v <= y THEN y - v ELSE y - v + Wrap
  BY Age
<1> QED
  BY <1>1, <1>2, Bounds

\* The age of a command that was posted a period later.
LEMMA AgeOfLater ==
    ASSUME NEW x \in TickType, NEW v \in TickType, NEW p \in 1 .. Wrap - MaxLate - 2,
           Minus(x, v) >= p
    PROVE  Minus(x, Plus(v, p)) = Minus(x, v) - p
<1>1. x \in Nat /\ x < Wrap /\ v \in Nat /\ v < Wrap /\ p \in Nat /\ p < Wrap
  BY Bounds
<1> DEFINE y == Plus(v, p)
<1>2. y \in TickType /\ y = IF v + p < Wrap THEN v + p ELSE v + p - Wrap
  BY PlusType
<1> HIDE DEF y
<1>3. /\ Minus(x, y) = IF y <= x THEN x - y ELSE x - y + Wrap
      /\ Minus(x, v) = IF v <= x THEN x - v ELSE x - v + Wrap
  BY <1>2, Age
<1>4. Minus(x, y) = Minus(x, v) - p
  BY <1>1, <1>2, <1>3, Bounds
<1> QED
  BY <1>4 DEF y

\* The values of the daemon's record, one by one.
LEMMA Fields ==
    ASSUME TypeOK
    PROVE  /\ xTickCount \in TickType /\ xTickCount \in Nat /\ xTickCount < Wrap
           /\ daemon.at \in Places /\ daemon.xLastTime \in TickType
           /\ daemon.xTimeNow \in TickType /\ daemon.wait \in Nat \cup {Forever}
           /\ daemon.msg \in MessageType \cup {NoMessage}
           /\ daemon.after \in {"none", "commands", "handle"}
           /\ daemon.reload \in ItemType \cup {NoItem}
           /\ \A t \in Timers : /\ xTimerPeriodInTicks[t] \in 1 .. Wrap - MaxLate - 2
                                /\ left[t] \in Int
BY Bounds DEF TypeOK

LEMMA MessageFields ==
    ASSUME NEW m \in MessageType
    PROVE  /\ m.timer \in Timers /\ m.value \in TickType
           /\ m.command \in {"start", "restart", "stop", "changePeriod", "delete"}
           /\ m.command = "changePeriod" => m.value \in NewPeriods
           /\ m # NoMessage
BY DEF MessageType, NoMessage, Message

LEMMA NoItemHasNoTimer ==
    /\ NoItem.timer = NoTimer /\ NoItem \notin ItemType
    /\ NoMessage.timer = NoTimer /\ NoMessage.command = "none"
BY TimerAssumption DEF NoItem, Item, ItemType, NoMessage, Message

\* Now is the tick count, a wrap on if it has wrapped since the last look.
LEMMA NowIs ==
    ASSUME TypeOK
    PROVE  /\ Now \in Nat /\ daemon.xLastTime \in Nat
           /\ Now = IF Wrapped THEN xTickCount + Wrap ELSE xTickCount
           /\ Now >= daemon.xLastTime /\ Now < daemon.xLastTime + Wrap
<1>1. xTickCount \in TickType /\ daemon.xLastTime \in TickType
  BY Fields
<1> DEFINE k == daemon.xLastTime
<1> HIDE DEF k
<1>2. Minus(xTickCount, k) = IF k <= xTickCount THEN xTickCount - k
                             ELSE xTickCount - k + Wrap
  BY <1>1, Age DEF k
<1>3. xTickCount \in Nat /\ k \in Nat /\ xTickCount < Wrap /\ k < Wrap /\ Wrap \in Nat
  BY <1>1, Bounds DEF k
<1>4. Wrapped <=> xTickCount < k
  BY DEF Wrapped, k
<1> QED
  BY <1>2, <1>3, <1>4 DEF Now, k

-------------------------------------------------------------------------------
\* What the parts of the invariant say of a state, for the steps to use.

LEMMA ListsAreGood ==
    ASSUME TypeOK, ListsInv
    PROVE  /\ GoodList(pxCurrentTimerList) /\ GoodList(pxOverflowTimerList)
           /\ \A item \in Members(pxCurrentTimerList) \cup Members(pxOverflowTimerList) :
                 /\ item \in ItemType /\ item.timer \in Timers
                 /\ item.value \in TickType /\ item.value \in Nat /\ item.value < Wrap
                 /\ IsListed(item.timer)
<1>1. GoodList(pxCurrentTimerList) /\ GoodList(pxOverflowTimerList)
  BY DEF TypeOK, ListsInv, GoodList
<1>2. \A item \in ItemType : item.value \in TickType
  BY DEF ItemType
<1> QED
  BY <1>1, <1>2, ItemFields DEF IsListed

LEMMA RoundIs ==
    ASSUME TypeOK
    PROVE  /\ Round = IF daemon.after = "none" THEN 0 ELSE -Wrap
           /\ Round \in Int /\ -Wrap \in Int /\ Round <= 0 /\ Round + Wrap >= 0
BY Bounds DEF Round

\* The items of the two lists, each in its round.
CurrentFits  == \A item \in Members(pxCurrentTimerList) : Fits(item, Round)
OverflowFits == \A item \in Members(pxOverflowTimerList) : Fits(item, Round + Wrap)

\* Whatever is listed runs, and is due within the longest period.
LEMMA ListedLeft ==
    ASSUME TypeOK, ListsInv, NEW t \in Timers, IsListed(t)
    PROVE  left[t] <= Wrap - MaxLate - 2 /\ left[t] # Off /\ t \in isActive
<1>1. PICK item \in Members(pxCurrentTimerList) \cup Members(pxOverflowTimerList) :
         item.timer = t
  BY DEF IsListed, TimersIn
<1> DEFINE v == item.value
           k == daemon.xLastTime
<1>2. \E r \in {Round, Round + Wrap} :
         left[t] = r + v - Now /\ r + v <= k + (Wrap - MaxLate - 2)
  BY <1>1 DEF ListsInv, Fits
<1>3. v \in Nat /\ k \in Nat /\ Now \in Nat /\ Now >= k /\ Round \in Int /\ left[t] \in Int
  BY <1>1, ListsAreGood, NowIs, RoundIs, Fields
<1> HIDE DEF v, k
<1>4. left[t] <= Wrap - MaxLate - 2
  BY <1>2, <1>3, Bounds
<1>5. t \in isActive
  BY DEF ListsInv
<1> QED
  BY <1>3, <1>4, <1>5, Bounds DEF Off

\* A look at the tick count, or none, and a step that only takes items out of the lists:
\* what is left in them fits as before.
LEMMA FitsKept ==
    ASSUME TypeOK, TypeOK', ListsInv,
           Members(pxCurrentTimerList)' \subseteq Members(pxCurrentTimerList),
           Members(pxOverflowTimerList)' \subseteq Members(pxOverflowTimerList),
           \A t \in Timers : IsListed(t)' => left'[t] = left[t],
           Now' - Round' = Now - Round,
           daemon'.xLastTime - Round' >= daemon.xLastTime - Round
    PROVE  CurrentFits' /\ OverflowFits'
<1> DEFINE k == daemon.xLastTime
           h == daemon'.xLastTime
           n == Now
           m == Now'
           r == Round
           q == Round'
<1>1. /\ n \in Nat /\ m \in Nat /\ r \in Int /\ q \in Int /\ k \in Nat /\ h \in Nat
      /\ m - q = n - r /\ h - q >= k - r
  <2>1. Now' \in Nat /\ (daemon.xLastTime)' \in Nat
    <3>1. \A x, y \in TickType : y + Minus(x, y) \in Nat /\ y \in Nat
      <4>1. ASSUME NEW x \in TickType, NEW y \in TickType
            PROVE  y + Minus(x, y) \in Nat /\ y \in Nat
        <5>1. Minus(x, y) \in Nat /\ y \in Nat
          BY Bounds, MinusType
        <5> QED
          BY <5>1
      <4> QED
        BY <4>1
    <3>2. xTickCount' \in TickType /\ daemon'.xLastTime \in TickType
      BY DEF TypeOK
    <3> QED
      BY <3>1, <3>2 DEF Now
  <2>2. TypeOK' => Round' \in Int
    BY Bounds DEF TypeOK, Round
  <2> QED
    BY <2>1, <2>2, NowIs, RoundIs
<1>2. \A item \in Members(pxCurrentTimerList) :
         left[item.timer] = r + item.value - n /\ r + item.value <= k + (Wrap - MaxLate - 2)
  BY DEF ListsInv, Fits
<1>3. \A item \in Members(pxOverflowTimerList) :
         /\ left[item.timer] = (r + Wrap) + item.value - n
         /\ (r + Wrap) + item.value <= k + (Wrap - MaxLate - 2)
  BY DEF ListsInv, Fits
<1>4. \A item \in Members(pxCurrentTimerList) \cup Members(pxOverflowTimerList) :
         item.timer \in Timers /\ item.value \in Nat
  BY ListsAreGood
<1>5. \A item \in Members(pxCurrentTimerList)' \cup Members(pxOverflowTimerList)' :
         left'[item.timer] = left[item.timer]
  BY <1>4 DEF IsListed, TimersIn
<1> HIDE DEF k, h, n, m, r, q
<1>6. ASSUME NEW item \in Members(pxCurrentTimerList)'
      PROVE  left'[item.timer] = q + item.value - m /\ q + item.value <= h + (Wrap - MaxLate - 2)
  <2>1. left'[item.timer] = r + item.value - n /\ r + item.value <= k + (Wrap - MaxLate - 2)
        /\ item.value \in Nat
    BY <1>2, <1>4, <1>5, <1>6
  <2> QED
    BY SMTT(30), <1>1, <2>1, Bounds
<1>7. ASSUME NEW item \in Members(pxOverflowTimerList)'
      PROVE  /\ left'[item.timer] = (q + Wrap) + item.value - m
             /\ (q + Wrap) + item.value <= h + (Wrap - MaxLate - 2)
  <2>1. left'[item.timer] = (r + Wrap) + item.value - n
        /\ (r + Wrap) + item.value <= k + (Wrap - MaxLate - 2)
        /\ item.value \in Nat
    BY <1>3, <1>4, <1>5, <1>7
  <2> QED
    BY <1>1, <2>1, Bounds
<1> QED
  BY <1>6, <1>7 DEF CurrentFits, OverflowFits, Fits, h, m, q

\* The parts of ListsInv together again.
LEMMA ListsTogether ==
    ASSUME GoodList(pxCurrentTimerList)', GoodList(pxOverflowTimerList)',
           (TimersIn(pxCurrentTimerList) \cap TimersIn(pxOverflowTimerList) = {})',
           CurrentFits', OverflowFits',
           \A t \in Timers : IsListed(t)' => t \in isActive'
    PROVE  ListsInv'
BY DEF ListsInv, GoodList, CurrentFits, OverflowFits

\* A restart on its way is still what it was, in the same or in an earlier place.
LEMMA RestartWaitsKept ==
    ASSUME NEW t \in Timers, RestartWaits(t), NEW e \in Nat,
           UNCHANGED xTickCount, xTimerPeriodInTicks'[t] = xTimerPeriodInTicks[t],
           \A i \in DOMAIN xTimerQueue' : i \in Nat,
           \A i \in DOMAIN xTimerQueue' : IsRestart(xTimerQueue'[i], t) =>
              /\ i + e \in DOMAIN xTimerQueue /\ xTimerQueue'[i] = xTimerQueue[i + e]
              /\ left'[t] = left[t] /\ (IsListed(t)' => IsListed(t))
              /\ daemon'.reload.timer # t /\ ~IsRestart(daemon'.msg, t)
              /\ ~(daemon'.at = "restart" /\ daemon'.msg.timer = t)
    PROVE  RestartWaits(t)'
<1> SUFFICES ASSUME NEW i \in DOMAIN xTimerQueue', IsRestart(xTimerQueue'[i], t)
             PROVE  /\ left'[t] = ByStart(xTimerQueue[i])'
                    /\ ~IsListed(t)' /\ daemon'.reload.timer # t
                    /\ ~IsRestart(daemon'.msg, t)
                    /\ ~(At("restart")' /\ daemon'.msg.timer = t)
                    /\ \A j \in DOMAIN xTimerQueue' : IsRestart(xTimerQueue'[j], t) => i = j
  BY DEF RestartWaits, IsRestart
<1>1. /\ left[t] = ByStart(xTimerQueue[i + e]) /\ ~IsListed(t)
      /\ \A j \in DOMAIN xTimerQueue : IsRestart(xTimerQueue[j], t) => i + e = j
  BY DEF RestartWaits, IsRestart
<1>2. left'[t] = ByStart(xTimerQueue[i])'
  BY <1>1 DEF ByStart, AgeOf, IsRestart
<1>3. ASSUME NEW j \in DOMAIN xTimerQueue', IsRestart(xTimerQueue'[j], t) PROVE i = j
  <2>1. i + e = j + e
    BY <1>1, <1>3 DEF IsRestart
  <2> QED
    BY <2>1
<1> QED
  BY <1>1, <1>2, <1>3 DEF At

\* The queue after a command was posted, and after one was received.
LEMMA QueueWithOneMore ==
    ASSUME TypeOK, NEW m \in MessageType, xTimerQueue' = Append(xTimerQueue, m)
    PROVE  /\ xTimerQueue' \in Seq(MessageType)
           /\ \A i \in DOMAIN xTimerQueue' : i \in Nat
           /\ \A i \in DOMAIN xTimerQueue' :
                 \/ i \in DOMAIN xTimerQueue /\ xTimerQueue'[i] = xTimerQueue[i]
                 \/ i = Len(xTimerQueue) + 1 /\ xTimerQueue'[i] = m
           /\ Len(xTimerQueue) + 1 \in DOMAIN xTimerQueue'
           /\ xTimerQueue'[Len(xTimerQueue) + 1] = m
<1> DEFINE q == xTimerQueue
           r == Append(q, m)
<1>1. q \in Seq(MessageType)
  BY DEF TypeOK
<1>2. /\ r \in Seq(MessageType) /\ Len(r) = Len(q) + 1 /\ Len(q) \in Nat
      /\ DOMAIN q = 1 .. Len(q) /\ DOMAIN r = 1 .. Len(q) + 1
      /\ \A i \in 1 .. Len(q) : r[i] = q[i]
      /\ r[Len(q) + 1] = m
  BY <1>1, AppendProperties, LenProperties
<1> HIDE DEF r
<1>3. \A i \in 1 .. Len(q) + 1 : i \in 1 .. Len(q) \/ i = Len(q) + 1
  BY <1>2
<1>4. Len(q) + 1 \in 1 .. Len(q) + 1
  BY <1>2
<1> QED
  BY <1>2, <1>3, <1>4 DEF r

LEMMA QueueWithoutHead ==
    ASSUME TypeOK, xTimerQueue # <<>>, xTimerQueue' = Tail(xTimerQueue)
    PROVE  /\ xTimerQueue' \in Seq(MessageType) /\ Head(xTimerQueue) \in MessageType
           /\ 1 \in DOMAIN xTimerQueue /\ Head(xTimerQueue) = xTimerQueue[1]
           /\ \A i \in DOMAIN xTimerQueue' :
                 /\ i \in Nat /\ i + 1 # 1
                 /\ i + 1 \in DOMAIN xTimerQueue /\ xTimerQueue'[i] = xTimerQueue[i + 1]
<1> DEFINE q == xTimerQueue
           r == Tail(q)
<1>1. q \in Seq(MessageType) /\ Len(q) \in Nat \ {0} /\ DOMAIN q = 1 .. Len(q)
  <2>1. q \in Seq(MessageType)
    BY DEF TypeOK
  <2> QED
    BY <2>1, EmptySeq
<1>2. /\ r \in Seq(MessageType) /\ Head(q) \in MessageType /\ Len(r) = Len(q) - 1
      /\ DOMAIN r = 1 .. Len(q) - 1 /\ \A i \in 1 .. Len(q) - 1 : r[i] = q[i + 1]
  BY <1>1, HeadTailProperties, LenProperties
<1>3. Head(q) = q[1] /\ 1 \in 1 .. Len(q)
  BY <1>1
<1> HIDE DEF r
<1>4. \A i \in 1 .. Len(q) - 1 : i \in Nat /\ i + 1 # 1 /\ i + 1 \in 1 .. Len(q)
  BY <1>1
<1> QED
  BY <1>1, <1>2, <1>3, <1>4 DEF r

-------------------------------------------------------------------------------
\* What the daemon's steps have in common.

DaemonType ==
    [at : Places, xLastTime : TickType, xTimeNow : TickType, wait : Nat \cup {Forever},
     msg : MessageType \cup {NoMessage}, after : {"none", "commands", "handle"},
     reload : ItemType \cup {NoItem}]

\* A look at the tick count: it begins a round, if the tick count has wrapped.
LEMMA LookAtTime ==
    ASSUME TypeOK, daemon.after = "none", UNCHANGED xTickCount,
           daemon'.xLastTime = xTickCount,
           daemon'.after = "none" <=> ~Wrapped
    PROVE  /\ Now = IF Wrapped THEN xTickCount + Wrap ELSE xTickCount
           /\ Now' = xTickCount /\ Now' - Round' = Now - Round
           /\ daemon'.xLastTime - Round' >= daemon.xLastTime - Round
           /\ Minus(xTickCount, xTickCount) = 0
<1>1. xTickCount \in TickType /\ xTickCount \in Nat /\ daemon.xLastTime \in Nat
      /\ daemon.xLastTime < Wrap /\ Wrap \in Nat
  BY Fields, Bounds
<1>2. Minus(xTickCount, xTickCount) = 0
  <2>1. Minus(xTickCount, xTickCount) = xTickCount - xTickCount
    BY <1>1, Age
  <2> QED
    BY <1>1, <2>1
<1>3. Now' = xTickCount
  BY <1>1, <1>2 DEF Now
<1>4. Now = IF Wrapped THEN xTickCount + Wrap ELSE xTickCount
  BY NowIs
<1>5. Round = 0 /\ (Wrapped => Round' = -Wrap) /\ (~Wrapped => Round' = 0)
  BY DEF Round
<1>6. Wrapped \/ daemon.xLastTime <= xTickCount
  BY <1>1 DEF Wrapped
<1> QED
  BY <1>1, <1>2, <1>3, <1>4, <1>5, <1>6

\* A step that does not look at it.
LEMMA SameTime ==
    ASSUME UNCHANGED xTickCount, daemon'.xLastTime = daemon.xLastTime,
           daemon'.after = daemon.after
    PROVE  Now' = Now /\ Round' = Round
BY DEF Now, Round

\* How long ago a time was that the daemon's count has passed.
LEMMA TimePassed ==
    ASSUME TypeOK, NEW v \in TickType, NEW r \in {0, -Wrap},
           r + v <= Now, Now - (r + v) < Wrap
    PROVE  Minus(xTickCount, v) = Now - (r + v)
<1>1. /\ xTickCount \in TickType /\ xTickCount \in Nat /\ xTickCount < Wrap
      /\ v \in Nat /\ v < Wrap /\ Wrap \in Nat /\ -Wrap \in Int
  BY Fields, Bounds
<1>2. Minus(xTickCount, v) = IF v <= xTickCount THEN xTickCount - v ELSE xTickCount - v + Wrap
  BY <1>1, Age
<1>3. Now = xTickCount \/ Now = xTickCount + Wrap
  BY NowIs
<1> QED
  BY <1>1, <1>2, <1>3

\* What is said of an item by the list it is put in.
LEMMA PlaceOfItem ==
    ASSUME NEW now \in TickType, NEW v \in TickType, NEW p \in 1 .. Wrap - MaxLate - 2,
           NEW place, place = Place(Plus(v, p), now, v, p)
    PROVE  /\ place \in {"due", "overflow", "current"}
           /\ place = "due" <=> Minus(now, v) >= p
           /\ place = "current" => Plus(v, p) = now + (p - Minus(now, v))
           /\ place = "overflow" => Plus(v, p) + Wrap = now + (p - Minus(now, v))
<1>1. p \in 1 .. Wrap - 1
  BY Bounds
<1>2. place = IF Minus(now, v) >= p THEN "due"
              ELSE IF now + (p - Minus(now, v)) >= Wrap THEN "overflow"
              ELSE "current"
  BY <1>1, PlaceIsRight
<1>3. Minus(now, v) = IF v <= now THEN now - v ELSE now - v + Wrap
  BY Age
<1>4. Plus(v, p) = IF v + p < Wrap THEN v + p ELSE v + p - Wrap
  BY <1>1, ExpiryTime
<1>5. now \in Nat /\ now < Wrap /\ v \in Nat /\ v < Wrap /\ p \in Nat /\ p < Wrap /\ Wrap \in Nat
  BY Bounds
<1> DEFINE a == Minus(now, v)
           n == Plus(v, p)
<1> HIDE DEF a, n
<1>6. a \in Nat /\ n \in Nat
  BY <1>3, <1>4, <1>5 DEF a, n
<1>7. /\ a < p /\ now + (p - a) >= Wrap => n + Wrap = now + (p - a)
      /\ a < p /\ ~(now + (p - a) >= Wrap) => n = now + (p - a)
  BY <1>3, <1>4, <1>5 DEF a, n
<1>8. a >= p \/ a < p
  BY <1>5, <1>6
<1> QED
  BY <1>2, <1>7, <1>8 DEF a, n

\* prvInsertTimerInActiveList on lists that the timer is not in: they are in order, and
\* the item fits if it fits the list it is put in.
LEMMA ItemInserted ==
    ASSUME TypeOK, TypeOK', ListsInv, NEW x \in ItemType, NEW place, NEW c,
           place \in {"due", "overflow", "current"},
           GoodList(c), Members(c) \subseteq Members(pxCurrentTimerList),
           x.timer \notin TimersIn(c), x.timer \notin TimersIn(pxOverflowTimerList),
           prvInsertTimerInActiveList(x, place, c),
           Now' = Now, Round' = Round, daemon'.xLastTime = daemon.xLastTime,
           \A t \in Timers \ {x.timer} :
              left'[t] = left[t] /\ (t \in isActive => t \in isActive'),
           place # "due" => x.timer \in isActive',
           place = "current" => Fits(x, Round)',
           place = "overflow" => Fits(x, Round + Wrap)'
    PROVE  /\ ListsInv'
           /\ \A t \in Timers \ {x.timer} : IsListed(t)' => IsListed(t)
           /\ place = "due" => ~IsListed(x.timer)'
<1> DEFINE a == pxCurrentTimerList
           b == pxOverflowTimerList
<1>1. GoodList(a) /\ GoodList(b) /\ TimersIn(a) \cap TimersIn(b) = {}
      /\ TimersIn(c) \subseteq TimersIn(a)
  BY ListsAreGood DEF ListsInv, TimersIn
<1>2. /\ pxCurrentTimerList' = IF place = "current" THEN Insert(c, x) ELSE c
      /\ pxOverflowTimerList' = IF place = "overflow" THEN Insert(b, x) ELSE b
  BY DEF prvInsertTimerInActiveList
<1>3. /\ GoodList(Insert(c, x)) /\ Members(Insert(c, x)) = Members(c) \cup {x}
      /\ TimersIn(Insert(c, x)) = TimersIn(c) \cup {x.timer}
      /\ GoodList(Insert(b, x)) /\ Members(Insert(b, x)) = Members(b) \cup {x}
      /\ TimersIn(Insert(b, x)) = TimersIn(b) \cup {x.timer}
  BY <1>1, ListWithItem
<1> DEFINE f == pxCurrentTimerList'
           g == pxOverflowTimerList'
<1>4. /\ GoodList(f) /\ GoodList(g)
      /\ Members(f) = IF place = "current" THEN Members(c) \cup {x} ELSE Members(c)
      /\ Members(g) = IF place = "overflow" THEN Members(b) \cup {x} ELSE Members(b)
      /\ TimersIn(f) = IF place = "current" THEN TimersIn(c) \cup {x.timer} ELSE TimersIn(c)
      /\ TimersIn(g) = IF place = "overflow" THEN TimersIn(b) \cup {x.timer} ELSE TimersIn(b)
  BY <1>1, <1>2, <1>3
<1>5. TimersIn(f) \cap TimersIn(g) = {}
  BY <1>1, <1>4
<1>6. \A item \in Members(c) \cup Members(b) : item.timer \in Timers \ {x.timer}
  BY <1>1, ListsAreGood DEF TimersIn
<1>7. ASSUME NEW item \in Members(f) PROVE Fits(item, Round)'
  <2>1. CASE item \in Members(c)
    <3>1. Fits(item, Round) /\ left'[item.timer] = left[item.timer]
      BY <1>6, <2>1 DEF ListsInv
    <3> QED
      BY <3>1 DEF Fits
  <2> QED
    BY <1>4, <1>7, <2>1
<1>8. ASSUME NEW item \in Members(g) PROVE Fits(item, Round + Wrap)'
  <2>1. CASE item \in Members(b)
    <3>1. Fits(item, Round + Wrap) /\ left'[item.timer] = left[item.timer]
      BY <1>6, <2>1 DEF ListsInv
    <3> QED
      BY <3>1 DEF Fits
  <2> QED
    BY <1>4, <1>8, <2>1
<1>9. \A t \in Timers \ {x.timer} : IsListed(t)' => IsListed(t)
  BY <1>1, <1>4 DEF IsListed
<1>10. \A t \in Timers : IsListed(t)' => t \in isActive'
  <2>1. \A t \in Timers : IsListed(t) => t \in isActive
    BY DEF ListsInv
  <2>2. IsListed(x.timer)' => place # "due"
    BY <1>1, <1>4 DEF IsListed
  <2> QED
    BY <1>9, <2>1, <2>2
<1>11. place = "due" => ~IsListed(x.timer)'
  BY <1>1, <1>4 DEF IsListed
<1>12. CurrentFits' /\ OverflowFits'
  BY <1>7, <1>8 DEF CurrentFits, OverflowFits
<1>13. GoodList(pxCurrentTimerList)' /\ GoodList(pxOverflowTimerList)'
  BY <1>4 DEF GoodList, Apart, InOrder
<1>14. (TimersIn(pxCurrentTimerList) \cap TimersIn(pxOverflowTimerList) = {})'
  BY <1>5 DEF TimersIn, Members
<1> QED
  BY <1>9, <1>10, <1>11, <1>12, <1>13, <1>14, ListsTogether

\* The starts by which the daemon catches up, when it handles a command: they are for
\* other timers, or it was overtaken.
LEMMA RestartsWhenHandled ==
    ASSUME IInv, At("handle"), Overtakes(daemon.msg.timer),
           UNCHANGED <<xTickCount, xTimerQueue>>,
           \A u \in Timers \ {daemon.msg.timer} :
              /\ left'[u] = left[u] /\ xTimerPeriodInTicks'[u] = xTimerPeriodInTicks[u]
              /\ IsListed(u)' => IsListed(u),
           daemon'.at # "handle", daemon'.after = "none", daemon'.reload = NoItem,
           daemon'.msg = NoMessage \/ daemon'.msg = daemon.msg
    PROVE  RestartInv'
<1> DEFINE t == daemon.msg.timer
<1> USE DEF IInv
<1>1. t \in Timers
  BY Fields, MessageFields DEF HandInv, Handling, At
<1>2. xTimerQueue \in Seq(MessageType) /\ \A i \in DOMAIN xTimerQueue : i \in Nat
  BY DEF TypeOK
<1>3. overtaken' = IF daemon.msg.command # "restart" /\ RestartOnItsWay(t) THEN overtaken \cup {t}
                   ELSE IF RestartOnItsWay(t) THEN overtaken ELSE overtaken \ {t}
  BY DEF Overtakes
<1> SUFFICES ASSUME NEW u \in Timers \ overtaken' PROVE RestartWaits(u)' /\ RestartInHand(u)'
  BY DEF RestartInv
<1>4. RestartInHand(u)'
  BY DEF RestartInHand, Handling, At
<1>5. CASE u = t
  <2>1. ~RestartOnItsWay(t)
    <3> SUFFICES ASSUME RestartOnItsWay(t) PROVE FALSE
      OBVIOUS
    <3>1. daemon.msg.command = "restart" /\ t \notin overtaken
      BY <1>3, <1>5
    <3>2. PICK m \in ToSet(xTimerQueue) : IsRestart(m, t)
      BY DEF RestartOnItsWay, IsRestart
    <3>3. PICK i \in DOMAIN xTimerQueue : m = xTimerQueue[i]
      BY DEF ToSet
    <3>4. RestartWaits(t)
      BY <1>1, <3>1 DEF RestartInv
    <3> QED
      BY <3>1, <3>2, <3>3, <3>4 DEF RestartWaits, IsRestart
  <2>2. \A i \in DOMAIN xTimerQueue : ~IsRestart(xTimerQueue[i], u)
    BY <1>5, <2>1 DEF RestartOnItsWay, ToSet, IsRestart
  <2>3. RestartWaits(u)'
    BY <2>2 DEF RestartWaits, IsRestart
  <2> QED
    BY <1>4, <2>3
<1>6. CASE u # t
  <2>1. RestartWaits(u)
    BY <1>3, <1>6 DEF RestartInv
  <2>2. \A i \in DOMAIN xTimerQueue' : i \in Nat
    BY <1>2
  <2>3. u # NoTimer
    BY TimerAssumption
  <2>4. daemon'.reload.timer # u /\ ~IsRestart(daemon'.msg, u) /\ daemon'.msg.timer # u
    BY <1>6, <2>3, NoItemHasNoTimer DEF IsRestart
  <2>5. \A i \in DOMAIN xTimerQueue' : IsRestart(xTimerQueue'[i], u) =>
           /\ i + 0 \in DOMAIN xTimerQueue /\ xTimerQueue'[i] = xTimerQueue[i + 0]
           /\ left'[u] = left[u] /\ (IsListed(u)' => IsListed(u))
           /\ daemon'.reload.timer # u /\ ~IsRestart(daemon'.msg, u)
           /\ ~(daemon'.at = "restart" /\ daemon'.msg.timer = u)
    <3> SUFFICES ASSUME NEW i \in DOMAIN xTimerQueue'
                 PROVE  /\ i + 0 \in DOMAIN xTimerQueue /\ xTimerQueue'[i] = xTimerQueue[i + 0]
                        /\ left'[u] = left[u] /\ (IsListed(u)' => IsListed(u))
                        /\ daemon'.reload.timer # u /\ ~IsRestart(daemon'.msg, u)
                        /\ ~(daemon'.at = "restart" /\ daemon'.msg.timer = u)
      BY DEF IsRestart
    <3>1. i + 0 = i
      BY <1>2
    <3> QED
      BY <1>6, <2>4, <3>1
  <2>6. RestartWaits(u)'
    BY <1>6, <2>1, <2>2, <2>5, RestartWaitsKept
  <2> QED
    BY <1>4, <2>6
<1> QED
  BY <1>5, <1>6

\* A restart on its way, when the daemon's own step is about another timer.
LEMMA OtherRestartsKept ==
    ASSUME TypeOK, NEW u \in Timers, RestartWaits(u),
           UNCHANGED <<xTickCount, xTimerQueue>>, xTimerPeriodInTicks'[u] = xTimerPeriodInTicks[u],
           (\E i \in DOMAIN xTimerQueue : IsRestart(xTimerQueue[i], u)) =>
              left'[u] = left[u] /\ (IsListed(u)' => IsListed(u)),
           daemon'.reload.timer # u,
           daemon'.msg = NoMessage \/ daemon'.msg = daemon.msg, daemon'.at # "restart"
    PROVE  RestartWaits(u)'
<1>1. xTimerQueue \in Seq(MessageType) /\ \A i \in DOMAIN xTimerQueue : i \in Nat /\ i + 0 = i
  BY DEF TypeOK
<1>2. \A i \in DOMAIN xTimerQueue' : IsRestart(xTimerQueue'[i], u) =>
         /\ i + 0 \in DOMAIN xTimerQueue /\ xTimerQueue'[i] = xTimerQueue[i + 0]
         /\ left'[u] = left[u] /\ (IsListed(u)' => IsListed(u))
         /\ daemon'.reload.timer # u /\ ~IsRestart(daemon'.msg, u)
         /\ ~(daemon'.at = "restart" /\ daemon'.msg.timer = u)
  <2> SUFFICES ASSUME NEW i \in DOMAIN xTimerQueue, IsRestart(xTimerQueue[i], u)
               PROVE  /\ i + 0 \in DOMAIN xTimerQueue /\ xTimerQueue[i] = xTimerQueue[i + 0]
                      /\ left'[u] = left[u] /\ (IsListed(u)' => IsListed(u))
                      /\ daemon'.reload.timer # u /\ ~IsRestart(daemon'.msg, u)
                      /\ ~(daemon'.at = "restart" /\ daemon'.msg.timer = u)
    BY DEF IsRestart
  <2>1. ~IsRestart(daemon.msg, u)
    BY DEF RestartWaits
  <2>2. ~IsRestart(daemon'.msg, u)
    BY <2>1, NoItemHasNoTimer DEF IsRestart
  <2> QED
    BY <1>1, <2>2
<1>3. \A i \in DOMAIN xTimerQueue' : i \in Nat
  BY <1>1
<1> QED
  BY <1>2, <1>3, RestartWaitsKept

\* The daemon posts a start to itself, for a timer that has none on its way.
LEMMA RestartPosted ==
    ASSUME TypeOK, NEW t \in Timers, NEW v \in TickType, NEW d, PostRestart(t, v, d),
           UNCHANGED <<xTickCount, xTimerPeriodInTicks>>,
           d \in DaemonType, d.at # "restart", d.reload = NoItem,
           d.msg = NoMessage \/ (d.msg = daemon.msg /\ ~IsRestart(d.msg, t)),
           left'[t] = xTimerPeriodInTicks[t] - Minus(xTickCount, v), ~IsListed(t)',
           NEW u \in Timers, RestartWaits(u),
           u = t => \A i \in DOMAIN xTimerQueue : ~IsRestart(xTimerQueue[i], t),
           u # t => left'[u] = left[u] /\ (IsListed(u)' => IsListed(u))
    PROVE  RestartWaits(u)'
<1> DEFINE m == Message("restart", t, v)
           q == xTimerQueue
<1>1. /\ m \in MessageType /\ IsRestart(m, t)
      /\ m.timer = t /\ m.value = v
  BY DEF MessageType, Message, IsRestart
<1>2. /\ daemon' = d \/ daemon' = [d EXCEPT !.at = "halted"]
      /\ q' = IF HasRoom THEN Append(q, m) ELSE q
  BY DEF PostRestart
<1>3. daemon'.at # "restart" /\ daemon'.reload = NoItem /\ daemon'.msg = d.msg
  BY <1>2 DEF DaemonType
<1>4. u # NoTimer
  BY TimerAssumption
<1>5. daemon'.reload.timer # u
  BY <1>3, <1>4, NoItemHasNoTimer
<1> HIDE DEF m
<1>6. CASE q' = q
  <2>1. (\E i \in DOMAIN q : IsRestart(q[i], u)) => left'[u] = left[u] /\ (IsListed(u)' => IsListed(u))
    OBVIOUS
  <2> QED
    BY <1>3, <1>5, <1>6, <2>1, OtherRestartsKept
<1>7. CASE q' = Append(q, m)
  <2>1. /\ q' \in Seq(MessageType) /\ \A i \in DOMAIN q' : i \in Nat
        /\ \A i \in DOMAIN q' : \/ i \in DOMAIN q /\ q'[i] = q[i]
                                \/ i = Len(q) + 1 /\ q'[i] = m
    BY <1>1, <1>7, QueueWithOneMore
  <2>2. CASE u = t
    <3> SUFFICES ASSUME NEW i \in DOMAIN q', IsRestart(q'[i], t)
                 PROVE  /\ left'[t] = ByStart(q[i])'
                        /\ ~IsListed(t)' /\ daemon'.reload.timer # t
                        /\ ~IsRestart(daemon'.msg, t)
                        /\ ~(At("restart")' /\ daemon'.msg.timer = t)
                        /\ \A j \in DOMAIN q' : IsRestart(q'[j], t) => i = j
      BY <2>2 DEF RestartWaits, IsRestart
    <3>1. i = Len(q) + 1 /\ q'[i] = m
      BY <2>1, <2>2
    <3>2. \A j \in DOMAIN q' : IsRestart(q'[j], t) => j = Len(q) + 1
      BY <2>1, <2>2
    <3>3. ~IsRestart(daemon'.msg, t)
      BY <1>3, NoItemHasNoTimer DEF IsRestart
    <3>4. ByStart(q[i])' = xTimerPeriodInTicks[t] - Minus(xTickCount, v)
      BY <1>1, <3>1 DEF ByStart, AgeOf
    <3> QED
      BY <1>3, <1>5, <2>2, <3>1, <3>2, <3>3, <3>4 DEF At
  <2>3. CASE u # t
    <3>1. \A i \in DOMAIN q' : IsRestart(q'[i], u) =>
             /\ i + 0 \in DOMAIN q /\ q'[i] = q[i + 0]
             /\ left'[u] = left[u] /\ (IsListed(u)' => IsListed(u))
             /\ daemon'.reload.timer # u /\ ~IsRestart(daemon'.msg, u)
             /\ ~(daemon'.at = "restart" /\ daemon'.msg.timer = u)
      <4> SUFFICES ASSUME NEW i \in DOMAIN q', IsRestart(q'[i], u)
                   PROVE  /\ i + 0 \in DOMAIN q /\ q'[i] = q[i + 0]
                          /\ left'[u] = left[u] /\ (IsListed(u)' => IsListed(u))
                          /\ daemon'.reload.timer # u /\ ~IsRestart(daemon'.msg, u)
                          /\ ~(daemon'.at = "restart" /\ daemon'.msg.timer = u)
        BY DEF IsRestart
      <4>1. i + 0 = i /\ i \in DOMAIN q /\ q'[i] = q[i]
        BY <1>1, <2>1, <2>3 DEF IsRestart
      <4>2. ~IsRestart(daemon.msg, u)
        BY <4>1 DEF RestartWaits, IsRestart
      <4>3. ~IsRestart(daemon'.msg, u)
        BY <1>3, <4>2, NoItemHasNoTimer DEF IsRestart
      <4> QED
        BY <1>3, <1>5, <2>3, <4>1, <4>3
    <3> QED
      BY <2>1, <3>1, RestartWaitsKept
  <2> QED
    BY <2>2, <2>3
<1> QED
  BY <1>2, <1>6, <1>7
-------------------------------------------------------------------------------
\* The steps.

LEMMA InitHolds == Init => IInv
<1> SUFFICES ASSUME Init PROVE IInv
  OBVIOUS
<1> USE DEF Init
<1>1. TypeOK
  <2>1. \A t \in Timers : Off \in Int
    BY Bounds DEF Off
  <2> QED
    BY <2>1, Bounds, TimerAssumption DEF TypeOK, Places
<1>2. Members(<<>>) = {} /\ TimersIn(<<>>) = {} /\ DOMAIN <<>> = {}
  BY DEF Members, TimersIn
<1>3. ListsInv
  BY <1>2 DEF ListsInv, Apart, InOrder, IsListed
<1>4. LateInv
  BY Bounds DEF LateInv, Off
<1>5. HandInv
  BY DEF HandInv, Handling, At
<1>6. RestartInv
  BY <1>2, NoItemHasNoTimer DEF RestartInv, RestartWaits, RestartInHand, Handling
<1>7. SleepInv
  BY DEF SleepInv, At
<1> QED
  BY <1>1, <1>3, <1>4, <1>5, <1>6, <1>7 DEF IInv

\* A step that leaves the lists, the timers and the time alone, and what the daemon has in
\* hand: it looks at the queue, or a command is posted.
LEMMA NoMoreCommandsKeeps == ASSUME IInv, NoMoreCommands PROVE IInv'
<1> USE DEF IInv
<1> USE DEF NoMoreCommands
<1>1. /\ At("commands") /\ daemon' = [daemon EXCEPT !.at = "process"]
      /\ UNCHANGED <<xTickCount, isActive, xTimerPeriodInTicks, pxCurrentTimerList,
                     pxOverflowTimerList, xTimerQueue, left, overtaken>>
  BY DEF status, lists, history
<1>2. /\ daemon'.at = "process" /\ daemon'.xLastTime = daemon.xLastTime
      /\ daemon'.msg = daemon.msg /\ daemon'.after = daemon.after
      /\ daemon'.reload = daemon.reload
  BY <1>1 DEF TypeOK
<1>3. TypeOK'
  BY <1>1 DEF TypeOK, Places
<1>4. ListsInv'
  BY <1>1, <1>2 DEF ListsInv, Fits, Now, Round, IsListed
<1>5. LateInv'
  BY <1>1 DEF LateInv
<1>6. HandInv'
  BY <1>1, <1>2 DEF HandInv, Handling, At
<1>7. RestartInv'
  BY <1>1, <1>2 DEF RestartInv, RestartWaits, RestartInHand, Handling, At, IsListed, ByStart,
     AgeOf, HandInv
<1>8. SleepInv'
  BY <1>2 DEF SleepInv, At
<1> QED
  BY <1>3, <1>4, <1>5, <1>6, <1>7, <1>8

LEMMA PostKeeps == ASSUME IInv, NEW t \in Timers, Post(t) PROVE IInv'
<1> USE DEF IInv
<1>1. PICK c \in Services[t] : \E v \in Parameters(c) :
         xTimerQueue' = Append(xTimerQueue, Message(c, t, v))
  BY DEF Post
<1>2. PICK v \in Parameters(c) : xTimerQueue' = Append(xTimerQueue, Message(c, t, v))
  BY <1>1
<1> DEFINE m == Message(c, t, v)
<1>3. m \in MessageType /\ m.command # "restart"
  <2>1. c \in {"start", "stop", "changePeriod", "delete"}
    BY TimerAssumption
  <2>2. v \in TickType /\ (c = "changePeriod" => v \in NewPeriods)
    <3>1. ASSUME NEW age \in 0 .. MaxLate PROVE Minus(xTickCount, age) \in TickType
      <4>1. age \in TickType /\ xTickCount \in TickType
        BY Fields, Bounds DEF TickType
      <4> QED
        BY <4>1, MinusType
    <3>2. NewPeriods \subseteq TickType
      BY TimerAssumption, Bounds
    <3>3. CASE c = "start"
      BY <3>1, <3>3 DEF Parameters
    <3>4. CASE c = "changePeriod"
      BY <3>2, <3>4 DEF Parameters
    <3>5. CASE c \in {"stop", "delete"}
      BY <3>5, Bounds DEF Parameters, TickType
    <3> QED
      BY <2>1, <3>3, <3>4, <3>5
  <2> QED
    BY <2>1, <2>2 DEF MessageType, Message
<1> HIDE DEF m
<1>4. xTimerQueue' = Append(xTimerQueue, m)
  BY <1>2 DEF m
<1>5. /\ ~At("halted") /\ daemon' = Woken(daemon)
      /\ UNCHANGED <<xTickCount, isActive, xTimerPeriodInTicks, pxCurrentTimerList,
                     pxOverflowTimerList, left, overtaken>>
  BY DEF Post, status, lists, history
<1>6. /\ daemon'.at = IF At("blocked") THEN "commands" ELSE daemon.at
      /\ daemon'.xLastTime = daemon.xLastTime /\ daemon'.xTimeNow = daemon.xTimeNow
      /\ daemon'.msg = daemon.msg /\ daemon'.after = daemon.after
      /\ daemon'.reload = daemon.reload /\ (~At("blocked") => daemon'.wait = daemon.wait)
  BY <1>5 DEF TypeOK, Woken, At
<1>7. TypeOK'
  <2>1. xTimerQueue' \in Seq(MessageType)
    BY <1>3, <1>4, QueueWithOneMore
  <2>2. daemon' \in [at : Places, xLastTime : TickType, xTimeNow : TickType,
                   wait : Nat \cup {Forever}, msg : MessageType \cup {NoMessage},
                   after : {"none", "commands", "handle"}, reload : ItemType \cup {NoItem}]
    BY <1>5 DEF TypeOK, Woken, Places
  <2> QED
    BY <1>5, <2>1, <2>2 DEF TypeOK
<1>8. ListsInv'
  BY <1>5, <1>6 DEF ListsInv, Fits, Now, Round, IsListed
<1>9. LateInv'
  BY <1>5 DEF LateInv
<1>10. HandInv'
  BY <1>5, <1>6 DEF HandInv, Handling, At, IsListed, AgeOf, ByStart, Now
<1>11. RestartInv'
  <2> SUFFICES ASSUME NEW u \in Timers \ overtaken PROVE RestartWaits(u)' /\ RestartInHand(u)'
    BY <1>5 DEF RestartInv
  <2>1. RestartWaits(u) /\ RestartInHand(u)
    BY DEF RestartInv
  <2>2. RestartInHand(u)'
    BY <1>5, <1>6, <2>1 DEF RestartInHand, Handling, At, ByStart, AgeOf
  <2>3. RestartWaits(u)'
    <3>1. /\ \A i \in DOMAIN xTimerQueue' : i \in Nat
          /\ \A i \in DOMAIN xTimerQueue' : IsRestart(xTimerQueue'[i], u) =>
                i \in DOMAIN xTimerQueue /\ xTimerQueue'[i] = xTimerQueue[i]
      BY <1>3, <1>4, QueueWithOneMore DEF IsRestart
    <3>2. \A i \in DOMAIN xTimerQueue' : IsRestart(xTimerQueue'[i], u) =>
              /\ i + 0 \in DOMAIN xTimerQueue /\ xTimerQueue'[i] = xTimerQueue[i + 0]
              /\ left'[u] = left[u] /\ (IsListed(u)' => IsListed(u))
              /\ daemon'.reload.timer # u /\ ~IsRestart(daemon'.msg, u)
              /\ ~(daemon'.at = "restart" /\ daemon'.msg.timer = u)
      <4> SUFFICES ASSUME NEW i \in DOMAIN xTimerQueue', IsRestart(xTimerQueue'[i], u)
                   PROVE  /\ i + 0 \in DOMAIN xTimerQueue /\ xTimerQueue'[i] = xTimerQueue[i + 0]
                          /\ left'[u] = left[u] /\ (IsListed(u)' => IsListed(u))
                          /\ daemon'.reload.timer # u /\ ~IsRestart(daemon'.msg, u)
                          /\ ~(daemon'.at = "restart" /\ daemon'.msg.timer = u)
        BY DEF IsRestart
      <4>1. i + 0 = i /\ i \in DOMAIN xTimerQueue /\ xTimerQueue'[i] = xTimerQueue[i]
        BY <3>1
      <4>2. daemon.reload.timer # u /\ ~IsRestart(daemon.msg, u)
            /\ ~(At("restart") /\ daemon.msg.timer = u)
        BY <2>1, <4>1 DEF RestartWaits, IsRestart
      <4> QED
        BY <1>5, <1>6, <4>1, <4>2 DEF IsListed, At, IsRestart
    <3> QED
      BY <1>5, <2>1, <3>1, <3>2, RestartWaitsKept
  <2> QED
    BY <2>2, <2>3
<1>12. SleepInv'
  BY <1>5, <1>6 DEF SleepInv, At, IsListed
<1> QED
  BY <1>7, <1>8, <1>9, <1>10, <1>11, <1>12

\* prvGetNextExpireTime and prvProcessTimerOrBlockTask: a look at the tick count.
LEMMA ProcessTimerOrBlockKeeps == ASSUME IInv, ProcessTimerOrBlock PROVE IInv'
<1> USE DEF IInv
<1> DEFINE Blocks == ~Wrapped /\ xTimerQueue = <<>>
                     /\ (pxCurrentTimerList = <<>> \/ NextExpireTime > xTickCount)
<1>1. /\ At("process")
      /\ UNCHANGED <<xTickCount, isActive, xTimerPeriodInTicks, pxCurrentTimerList,
                     pxOverflowTimerList, xTimerQueue, left, overtaken>>
  BY DEF ProcessTimerOrBlock, status, lists, history
<1>2. Minus(NextExpireTime, xTickCount) \in Nat
  <2>1. NextExpireTime \in TickType
    <3>1. CASE pxCurrentTimerList = <<>>
      BY <3>1, Bounds DEF NextExpireTime
    <3>2. CASE pxCurrentTimerList # <<>>
      BY <3>2, ListsAreGood, TailOfList DEF NextExpireTime
    <3> QED
      BY <3>1, <3>2
  <2> QED
    BY <2>1, Fields, MinusType
<1>3. TicksToWait \in Nat \cup {Forever} /\ TicksToWait # 0
      /\ (TicksToWait = Forever <=> pxCurrentTimerList = <<>> /\ pxOverflowTimerList = <<>>)
      /\ (TicksToWait # Forever => TicksToWait = 1 \/ TicksToWait = Minus(NextExpireTime, xTickCount))
      /\ (TicksToWait # Forever => TicksToWait >= 1)
  <2> DEFINE n == Minus(NextExpireTime, xTickCount)
  <2> HIDE DEF n
  <2>1. n \in Nat
    BY <1>2 DEF n
  <2>2. Max({1, n}) = IF n >= 1 THEN n ELSE 1
    BY <2>1 DEF Max
  <2>3. TicksToWait = IF pxCurrentTimerList = <<>> /\ pxOverflowTimerList = <<>> THEN Forever
                      ELSE Max({1, n})
    BY DEF TicksToWait, n
  <2> QED
    BY <2>1, <2>2, <2>3 DEF Forever, n
\* Only what it says of the time, the place and the wait changes.
<1>4. /\ daemon'.xLastTime = xTickCount /\ daemon'.msg = daemon.msg
      /\ daemon'.reload = daemon.reload /\ daemon.after = "none"
      /\ \/ Wrapped /\ daemon'.at = "switch" /\ daemon'.after = "commands"
         \/ /\ ~Wrapped /\ daemon'.at = "expired" /\ daemon'.xTimeNow = xTickCount
            /\ daemon'.after = "none"
            /\ pxCurrentTimerList # <<>> /\ NextExpireTime <= xTickCount
         \/ ~Wrapped /\ daemon'.at = "commands" /\ daemon'.after = "none"
         \/ /\ Blocks /\ daemon'.at = "blocked" /\ daemon'.after = "none"
            /\ daemon'.wait = TicksToWait
  <2>1. daemon.after = "none"
    BY <1>1 DEF HandInv, At
  <2>2. \/ Wrapped /\ daemon' = [Looked EXCEPT !.at = "switch", !.after = "commands"]
        \/ /\ ~Wrapped /\ pxCurrentTimerList # <<>> /\ NextExpireTime <= xTickCount
           /\ daemon' = [Sampled EXCEPT !.at = "expired"]
        \/ ~Wrapped /\ daemon' = [Looked EXCEPT !.at = "commands"]
        \/ Blocks /\ daemon' = [Looked EXCEPT !.at = "blocked", !.wait = TicksToWait]
    BY DEF ProcessTimerOrBlock
  <2> HIDE DEF Blocks
  <2> QED
    BY <2>1, <2>2 DEF TypeOK, Looked, Sampled
<1> HIDE DEF Blocks
<1>5. TypeOK'
  <2>1. daemon' \in [at : Places, xLastTime : TickType, xTimeNow : TickType,
                   wait : Nat \cup {Forever}, msg : MessageType \cup {NoMessage},
                   after : {"none", "commands", "handle"}, reload : ItemType \cup {NoItem}]
    <3>1. \/ daemon' = [Looked EXCEPT !.at = "switch", !.after = "commands"]
          \/ daemon' = [Sampled EXCEPT !.at = "expired"]
          \/ daemon' = [Looked EXCEPT !.at = "commands"]
          \/ daemon' = [Looked EXCEPT !.at = "blocked", !.wait = TicksToWait]
      BY DEF ProcessTimerOrBlock
    <3> QED
      BY ZenonT(40), <1>3, <3>1 DEF TypeOK, Looked, Sampled, Places
  <2> QED
    BY <1>1, <2>1 DEF TypeOK
<1>6. /\ Now = IF Wrapped THEN xTickCount + Wrap ELSE xTickCount
      /\ Now' = xTickCount /\ Round = 0 /\ Round' = IF Wrapped THEN -Wrap ELSE 0
      /\ xTickCount \in Nat /\ xTickCount < Wrap
      /\ daemon.xLastTime \in Nat /\ daemon.xLastTime < Wrap
      /\ (~Wrapped => daemon.xLastTime <= xTickCount)
  <2>1. xTickCount \in TickType /\ Minus(xTickCount, xTickCount) = 0
    <3>1. xTickCount \in TickType /\ xTickCount \in Nat
      BY Fields
    <3>2. Minus(xTickCount, xTickCount) = xTickCount - xTickCount
      BY <3>1, Age
    <3> QED
      BY <3>1, <3>2
  <2>2. Now' = xTickCount
    BY <1>1, <1>4, <2>1, Bounds DEF Now
  <2>3. Round = 0 /\ Round' = IF Wrapped THEN -Wrap ELSE 0
    <3>1. Round = 0 /\ Round' = IF daemon'.after = "none" THEN 0 ELSE -Wrap
      BY <1>4 DEF Round
    <3>2. Wrapped => daemon'.after = "commands"
      BY <1>4, Zenon DEF Blocks
    <3>3. ~Wrapped => daemon'.after = "none"
      BY <1>4, Zenon DEF Blocks
    <3> QED
      BY <3>1, <3>2, <3>3
  <2>4. /\ xTickCount \in Nat /\ xTickCount < Wrap
        /\ daemon.xLastTime \in Nat /\ daemon.xLastTime < Wrap
    BY Fields, Bounds
  <2>5. ~Wrapped => daemon.xLastTime <= xTickCount
    BY <2>4 DEF Wrapped
  <2> QED
    BY <2>2, <2>3, <2>4, <2>5, NowIs
<1>7. CurrentFits' /\ OverflowFits'
  <2>1. /\ Now' - Round' = Now - Round
        /\ daemon'.xLastTime - Round' >= daemon.xLastTime - Round
    BY <1>4, <1>6, Bounds
  <2> QED
    BY <1>1, <1>5, <2>1, FitsKept DEF Members
<1>8. ListsInv'
  <2>1. GoodList(pxCurrentTimerList)' /\ GoodList(pxOverflowTimerList)'
    BY <1>1, ListsAreGood DEF GoodList, Apart, InOrder
  <2> QED
    BY <1>1, <1>7, <2>1, ListsTogether DEF ListsInv, IsListed, TimersIn, Members
<1>9. LateInv'
  BY <1>1 DEF LateInv
<1>10. daemon.msg = NoMessage /\ daemon.reload = NoItem
  BY <1>1, <1>4 DEF HandInv, Handling, At
<1>11. HandInv'
  <2>1. daemon'.at = "expired" => Head(pxCurrentTimerList).value <= xTickCount
    BY <1>4 DEF NextExpireTime
  <2> QED
    BY <1>1, <1>4, <1>10, <2>1 DEF HandInv, Handling, At
<1>12. RestartInv'
  BY <1>1, <1>4 DEF RestartInv, RestartWaits, RestartInHand, Handling, At, IsListed, ByStart,
     AgeOf
<1>13. SleepInv'
  <2> SUFFICES ASSUME daemon'.at = "blocked", NEW t \in Timers, IsListed(t)
               PROVE  daemon'.wait # Forever /\ daemon'.wait <= left[t]
    BY <1>1, <1>3, <1>4 DEF SleepInv, At, IsListed
  <2>1. Blocks /\ daemon'.wait = TicksToWait
    BY <1>4
  <2>2. PICK item \in Members(pxCurrentTimerList) \cup Members(pxOverflowTimerList) :
           item.timer = t
    BY DEF IsListed, TimersIn
  <2>3. TicksToWait # Forever
    <3>1. pxCurrentTimerList # <<>> \/ pxOverflowTimerList # <<>>
      BY <2>2 DEF Members
    <3> QED
      BY <1>3, <3>1
  <2> DEFINE v == item.value
             n == NextExpireTime
  <2>4. v \in Nat
    BY <2>2, ListsAreGood
  <2>5. Now = xTickCount
    BY <1>6, <2>1 DEF Blocks
  <2>6. n \in TickType /\ n \in Nat
        /\ Minus(n, xTickCount) = IF xTickCount <= n THEN n - xTickCount ELSE n - xTickCount + Wrap
    <3>1. n \in TickType
      <4>1. CASE pxCurrentTimerList = <<>>
        BY <4>1, Bounds DEF NextExpireTime
      <4>2. CASE pxCurrentTimerList # <<>>
        BY <4>2, ListsAreGood, TailOfList DEF NextExpireTime
      <4> QED
        BY <4>1, <4>2
    <3> QED
      BY <3>1, Fields, Age, Bounds
  <2> HIDE DEF v, n
  <2>7. CASE item \in Members(pxCurrentTimerList)
    <3>1. pxCurrentTimerList # <<>>
      BY <2>7 DEF Members
    <3>2. n > xTickCount /\ n <= v
      BY <2>1, <2>7, <3>1, ListsAreGood, TailOfList DEF Blocks, n, NextExpireTime, v
    <3>3. left[t] = Round + v - Now
      BY <2>2, <2>7 DEF ListsInv, Fits, v
    <3>4. left[t] = v - xTickCount
      BY <1>6, <2>4, <2>5, <3>3
    <3>5. TicksToWait = 1 \/ TicksToWait = n - xTickCount
      BY <1>3, <1>6, <2>3, <2>6, <3>2 DEF n
    <3> QED
      BY <1>6, <2>1, <2>3, <2>4, <2>6, <3>2, <3>4, <3>5
  <2>8. CASE item \in Members(pxOverflowTimerList)
    <3>1. left[t] = Round + Wrap + v - Now
      BY <2>2, <2>8 DEF ListsInv, Fits, v
    <3>2. left[t] = Wrap + v - xTickCount
      BY <1>6, <2>4, <2>5, <3>1, Bounds
    <3>3. CASE pxCurrentTimerList = <<>>
      <4>1. n = 0
        BY <3>3 DEF n, NextExpireTime
      <4>2. TicksToWait = 1 \/ TicksToWait = IF xTickCount <= 0 THEN 0 - xTickCount
                                             ELSE 0 - xTickCount + Wrap
        BY <1>3, <2>3, <2>6, <4>1 DEF n
      <4> QED
        BY <1>6, <2>1, <2>3, <2>4, <3>2, <4>2, Bounds
    <3>4. CASE pxCurrentTimerList # <<>>
      <4>1. n > xTickCount /\ n < Wrap
        BY <2>1, <2>6, <3>4, Bounds DEF Blocks, n
      <4>2. TicksToWait = 1 \/ TicksToWait = n - xTickCount
        BY <1>3, <1>6, <2>3, <2>6, <4>1 DEF n
      <4> QED
        BY <1>6, <2>1, <2>3, <2>4, <2>6, <3>2, <4>1, <4>2, Bounds
    <3> QED
      BY <3>3, <3>4
  <2> QED
    BY <2>2, <2>7, <2>8
<1> QED
  BY <1>5, <1>8, <1>9, <1>11, <1>12, <1>13

\* The tick: nothing that has a time is so late that the tick count could pass it again.
LEMMA TickKeeps == ASSUME IInv, Tick PROVE IInv'
<1> USE DEF IInv
<1>1. /\ ~At("halted") /\ NotLate
      /\ xTickCount' = Plus(xTickCount, 1)
      /\ left' = [t \in Timers |-> IF left[t] = Off THEN Off ELSE left[t] - 1]
      /\ UNCHANGED <<isActive, xTimerPeriodInTicks, pxCurrentTimerList, pxOverflowTimerList,
                     xTimerQueue, overtaken>>
  BY DEF Tick, status, lists
<1>2. /\ daemon'.xLastTime = daemon.xLastTime /\ daemon'.xTimeNow = daemon.xTimeNow
      /\ daemon'.msg = daemon.msg /\ daemon'.after = daemon.after
      /\ daemon'.reload = daemon.reload
      /\ daemon'.at = IF At("blocked") /\ daemon.wait = 1 THEN "commands" ELSE daemon.at
      /\ At("blocked") /\ daemon.wait # 1 =>
            daemon'.wait = IF daemon.wait = Forever THEN Forever ELSE daemon.wait - 1
  BY DEF Tick, TypeOK, Woken, At
<1>3. /\ \A t \in Timers : left[t] \in Int /\ left[t] > -MaxLate
      /\ \A m \in ToSet(xTimerQueue) \cup {daemon.msg} : IsStart(m) => AgeOf(m) < MaxLate
      /\ Handling => Minus(xTickCount, daemon.xTimeNow) < MaxLate
  <2>1. Handling => daemon.msg # NoMessage /\ ~At("restart")
    BY DEF HandInv, Handling, At
  <2> QED
    BY <1>1, <2>1, Fields DEF NotLate, AgeOf
<1>4. Wrap \in Nat /\ MaxLate \in Nat /\ MaxLate >= 1 /\ MaxLate < Wrap - 2
  BY Bounds
<1>5. ASSUME NEW v \in TickType, Minus(xTickCount, v) < Wrap - 1
      PROVE  Minus(xTickCount', v) = Minus(xTickCount, v) + 1
  <2>1. Minus(xTickCount, v) \in Nat /\ xTickCount \in TickType
    BY Fields, MinusType
  <2> QED
    BY <1>1, <1>4, <1>5, <2>1, MinusOfTick
<1>6. ASSUME Now < daemon.xLastTime + (Wrap - 1) PROVE Now' = Now + 1
  <2> DEFINE k == daemon.xLastTime
             e == Minus(xTickCount, k)
  <2>1. k \in TickType /\ k \in Nat /\ e \in Nat /\ Now = k + e
    BY Fields, MinusType, Bounds DEF Now
  <2>2. Minus(xTickCount', k) = e + 1
    <3>1. e < Wrap - 1
      <4> HIDE DEF e, k
      <4> QED
        BY <1>4, <1>6, <2>1 DEF k
    <3> QED
      BY <1>5, <2>1, <3>1
  <2>3. Now' = k + (e + 1)
    BY <1>2, <2>2 DEF Now
  <2> HIDE DEF e, k
  <2> QED
    BY <2>1, <2>3
<1>7. ASSUME NEW t \in Timers, IsListed(t)
      PROVE  left'[t] = left[t] - 1 /\ Now' = Now + 1
  <2>1. left[t] # Off
    BY <1>7, ListedLeft
  <2>2. PICK item \in Members(pxCurrentTimerList) \cup Members(pxOverflowTimerList) :
           item.timer = t
    BY <1>7 DEF IsListed, TimersIn
  <2> DEFINE v == item.value
             k == daemon.xLastTime
  <2>3. PICK r \in {Round, Round + Wrap} :
           left[t] = r + v - Now /\ r + v <= k + (Wrap - MaxLate - 2)
    BY <2>2 DEF ListsInv, Fits
  <2>4. v \in Nat /\ k \in Nat /\ Now \in Nat /\ r \in Int /\ left[t] > -MaxLate
    BY <1>3, <1>4, <2>2, ListsAreGood, NowIs, RoundIs, Fields
  <2> HIDE DEF v
  <2>5. Now < k + (Wrap - 1)
    <3> HIDE DEF k
    <3> QED
      BY <1>4, <2>3, <2>4
  <2> QED
    BY <1>1, <1>6, <2>1, <2>5
<1>8. TypeOK'
  <2>1. xTickCount' \in TickType
    BY <1>1, Fields, MinusOfTick
  <2>2. left' \in [Timers -> Int]
    BY <1>1, <1>3, Bounds DEF Off
  <2>3. daemon' \in [at : Places, xLastTime : TickType, xTimeNow : TickType,
                   wait : Nat \cup {Forever}, msg : MessageType \cup {NoMessage},
                   after : {"none", "commands", "handle"}, reload : ItemType \cup {NoItem}]
    <3>1. /\ daemon.wait \in Nat \cup {Forever}
          /\ At("blocked") => daemon.wait # 0
      BY Fields DEF SleepInv
    <3>2. daemon.wait # 0 /\ daemon.wait # Forever => daemon.wait - 1 \in Nat
      BY <3>1 DEF Forever
    <3>3. \/ daemon' = Woken(daemon)
          \/ At("blocked") /\ daemon.wait # Forever /\ daemon' = [daemon EXCEPT !.wait = @ - 1]
          \/ daemon' = daemon
      BY DEF Tick
    <3>4. CASE daemon' = Woken(daemon)
      BY <3>4 DEF TypeOK, Woken, Places
    <3>5. CASE At("blocked") /\ daemon.wait # Forever /\ daemon' = [daemon EXCEPT !.wait = @ - 1]
      BY <3>1, <3>2, <3>5 DEF TypeOK
    <3>6. CASE daemon' = daemon
      BY <3>6 DEF TypeOK
    <3> QED
      BY <3>3, <3>4, <3>5, <3>6
  <2> QED
    BY <1>1, <2>1, <2>2, <2>3 DEF TypeOK
<1>9. ListsInv'
  <2>1. Round' = Round
    BY <1>2 DEF Round
  <2>2. ASSUME NEW item \in Members(pxCurrentTimerList) PROVE Fits(item, Round)'
    <3>1. item.timer \in Timers /\ IsListed(item.timer) /\ item.value \in Nat
      BY ListsAreGood
    <3>2. Fits(item, Round)
      BY DEF ListsInv
    <3>3. left'[item.timer] = left[item.timer] - 1 /\ Now' = Now + 1
      BY <1>7, <3>1
    <3>4. Now \in Nat /\ Round \in Int
      BY NowIs, RoundIs
    <3>5. \A v, r, n \in Int : (r + v - n) - 1 = r + v - (n + 1)
      OBVIOUS
    <3>6. left'[item.timer] = Round + item.value - Now'
      BY <3>1, <3>2, <3>3, <3>4, <3>5 DEF Fits
    <3> QED
      BY <1>2, <2>1, <3>2, <3>6 DEF Fits
  <2>3. ASSUME NEW item \in Members(pxOverflowTimerList) PROVE Fits(item, Round + Wrap)'
    <3>1. item.timer \in Timers /\ IsListed(item.timer) /\ item.value \in Nat
      BY ListsAreGood
    <3>2. Fits(item, Round + Wrap)
      BY DEF ListsInv
    <3>3. left'[item.timer] = left[item.timer] - 1 /\ Now' = Now + 1
      BY <1>7, <3>1
    <3>4. Now \in Nat /\ Round + Wrap \in Int
      BY <1>4, NowIs, RoundIs
    <3>5. \A v, r, n \in Int : (r + v - n) - 1 = r + v - (n + 1)
      OBVIOUS
    <3>6. left'[item.timer] = (Round + Wrap) + item.value - Now'
      BY <3>1, <3>2, <3>3, <3>4, <3>5 DEF Fits
    <3> QED
      BY <1>2, <2>1, <3>2, <3>6 DEF Fits
  <2>4. CurrentFits' /\ OverflowFits'
    BY <1>1, <2>2, <2>3 DEF CurrentFits, OverflowFits, Members
  <2>5. GoodList(pxCurrentTimerList)' /\ GoodList(pxOverflowTimerList)'
    BY <1>1, ListsAreGood DEF GoodList, Apart, InOrder
  <2> QED
    BY <1>1, <2>4, <2>5, ListsTogether DEF ListsInv, IsListed, TimersIn, Members
<1>10. LateInv'
  <2> SUFFICES ASSUME NEW t \in Timers PROVE left'[t] > -Wrap
    BY DEF LateInv
  <2>1. left'[t] = IF left[t] = Off THEN Off ELSE left[t] - 1
    BY <1>1
  <2> QED
    BY <1>3, <1>4, <2>1 DEF Off
\* The command in hand grows as old as the look at the time.
<1>11. ASSUME Handling
       PROVE  /\ Minus(xTickCount', daemon.xTimeNow) = Minus(xTickCount, daemon.xTimeNow) + 1
              /\ Minus(xTickCount, daemon.xTimeNow) \in Nat
  BY <1>3, <1>4, <1>5, <1>11, Fields, MinusType
<1>12. ASSUME NEW m \in ToSet(xTimerQueue) \cup {daemon.msg}, IsStart(m), m \in MessageType
       PROVE  AgeOf(m)' = AgeOf(m) + 1 /\ AgeOf(m) \in Nat
  <2>1. m.value \in TickType /\ Minus(xTickCount, m.value) < MaxLate
    BY <1>3, <1>12, MessageFields DEF AgeOf
  <2>2. Minus(xTickCount, m.value) \in Nat
    BY <2>1, Fields, MinusType
  <2> QED
    BY <1>4, <1>5, <2>1, <2>2 DEF AgeOf
<1>13. ASSUME daemon.msg # NoMessage, IsStart(daemon.msg)
       PROVE  AgeOf(daemon.msg)' = AgeOf(daemon.msg) + 1 /\ AgeOf(daemon.msg) \in Nat
  <2>1. AgeOf(daemon.msg)' = Minus(xTickCount', daemon.msg.value)
    BY <1>2 DEF AgeOf
  <2> DEFINE m == daemon.msg
  <2>2. m \in MessageType /\ m.value \in TickType /\ Minus(xTickCount, m.value) < MaxLate
    BY <1>3, <1>13, Fields, MessageFields DEF AgeOf
  <2>3. Minus(xTickCount, m.value) \in Nat
    BY <2>2, Fields, MinusType
  <2>4. Minus(xTickCount', m.value) = Minus(xTickCount, m.value) + 1
    BY <1>4, <1>5, <2>2, <2>3
  <2> QED
    BY <2>1, <2>3, <2>4 DEF AgeOf
<1>14. HandInv'
  <2>1. Handling' <=> Handling
    BY <1>1, <1>2 DEF Handling, At
  <2>2. /\ daemon'.at \in {"switch", "switchReload"} => daemon'.after # "none"
        /\ daemon'.after # "none" => daemon'.at \in {"switch", "switchReload", "halted"}
        /\ daemon'.msg # NoMessage => Handling' \/ At("restart")'
        /\ daemon'.at # "switchReload" => daemon'.reload = NoItem
    BY <1>2, <2>1 DEF HandInv, At
  <2>3. Handling' =>
          /\ daemon'.msg # NoMessage /\ ~IsListed(daemon.msg.timer)'
          /\ daemon'.xTimeNow = daemon'.xLastTime
          /\ IsStart(daemon.msg)' => Minus(xTickCount', daemon'.xTimeNow) <= AgeOf(daemon.msg)'
    <3> SUFFICES ASSUME Handling
                 PROVE  /\ daemon'.msg # NoMessage /\ ~IsListed(daemon.msg.timer)'
                        /\ daemon'.xTimeNow = daemon'.xLastTime
                        /\ IsStart(daemon.msg)' =>
                              Minus(xTickCount', daemon'.xTimeNow) <= AgeOf(daemon.msg)'
      BY <2>1
    <3>1. /\ daemon.msg # NoMessage /\ ~IsListed(daemon.msg.timer)
          /\ daemon.xTimeNow = daemon.xLastTime
          /\ IsStart(daemon.msg) => Minus(xTickCount, daemon.xTimeNow) <= AgeOf(daemon.msg)
      BY DEF HandInv
    <3>2. IsStart(daemon.msg) =>
             Minus(xTickCount', daemon.xTimeNow) <= AgeOf(daemon.msg)'
      BY <1>11, <1>13, <3>1
    <3> QED
      BY <1>1, <1>2, <3>1, <3>2 DEF IsListed, TimersIn, Members, IsStart
  <2>4. At("expired")' =>
          /\ pxCurrentTimerList' # <<>>
          /\ Head(pxCurrentTimerList').value <= daemon'.xTimeNow
          /\ daemon'.xTimeNow = daemon'.xLastTime
    BY <1>1, <1>2 DEF HandInv, At
  <2>5. ASSUME daemon'.at = "switchReload"
        PROVE  /\ daemon'.reload # NoItem /\ ~IsListed(daemon.reload.timer)'
               /\ daemon'.reload.timer \in isActive'
               /\ Handling' => daemon'.msg.timer # daemon'.reload.timer
               /\ daemon'.reload.timer \in uxAutoReload =>
                    /\ left'[daemon'.reload.timer] = daemon'.reload.value - Wrap
                         + xTimerPeriodInTicks'[daemon'.reload.timer] - Now'
                    /\ Now' < daemon'.reload.value
    <3> DEFINE t == daemon.reload.timer
               v == daemon.reload.value
               p == xTimerPeriodInTicks[t]
               k == daemon.xLastTime
    <3>1. /\ daemon.at = "switchReload" /\ daemon.reload # NoItem /\ ~IsListed(t) /\ t \in isActive
          /\ Handling => daemon.msg.timer # t
          /\ t \in uxAutoReload => left[t] = v - Wrap + p - Now /\ Now < v
      BY <1>2, <2>5 DEF HandInv, At
    <3>2. /\ t \in Timers /\ v \in TickType /\ v \in Nat /\ v < Wrap
          /\ p \in Nat /\ p <= Wrap - MaxLate - 2 /\ p >= 1
          /\ Now \in Nat /\ k \in Nat /\ Now >= k /\ left[t] > -MaxLate
      <4>1. daemon.reload \in ItemType
        BY <3>1, Fields
      <4>2. t \in Timers /\ v \in TickType
        BY <4>1 DEF ItemType
      <4>3. p \in 1 .. Wrap - MaxLate - 2
        BY <4>2, Fields
      <4> QED
        BY SMTT(30), <1>3, <1>4, <4>2, <4>3, Bounds, NowIs
    <3> HIDE DEF t, v, p
    <3>3. ASSUME t \in uxAutoReload PROVE left'[t] = v - Wrap + p - Now' /\ Now' < v
      <4>1. left[t] = v - Wrap + p - Now
        BY <3>1, <3>3
      <4>2. left[t] # Off /\ Now < k + (Wrap - 1)
        <5> HIDE DEF k
        <5> QED
          BY <1>4, <3>2, <4>1 DEF Off
      <4>3. left'[t] = left[t] - 1 /\ Now' = Now + 1
        BY <1>1, <1>6, <3>2, <4>2
      <4> QED
        BY <1>4, <3>2, <4>1, <4>3
    <3> QED
      BY <1>1, <1>2, <2>1, <3>1, <3>3 DEF t, v, p, IsListed, TimersIn, Members
  <2>6. ASSUME daemon'.at = "restart"
        PROVE  /\ daemon'.msg # NoMessage /\ IsStart(daemon.msg)' /\ ~IsListed(daemon.msg.timer)'
               /\ daemon'.msg.timer \in uxAutoReload
               /\ AgeOf(daemon.msg)' >= xTimerPeriodInTicks'[daemon'.msg.timer]
               /\ left'[daemon'.msg.timer] = ByStart(daemon.msg)' + xTimerPeriodInTicks'[daemon'.msg.timer]
    <3> DEFINE t == daemon.msg.timer
               p == xTimerPeriodInTicks[t]
               a == AgeOf(daemon.msg)
    <3>1. /\ daemon.at = "restart" /\ daemon.msg # NoMessage /\ IsStart(daemon.msg) /\ ~IsListed(t)
          /\ t \in uxAutoReload /\ a >= p /\ left[t] = (p - a) + p
      BY <1>2, <2>6 DEF HandInv, At, ByStart
    <3>2. t \in Timers /\ p \in Nat /\ p < Wrap
      <4>1. daemon.msg \in MessageType
        BY <3>1, Fields
      <4>2. t \in Timers
        BY <4>1, MessageFields
      <4> QED
        BY <4>2, Fields, Bounds
    <3>3. AgeOf(daemon.msg)' = a + 1 /\ a \in Nat
      BY <1>13, <3>1
    <3>4. ByStart(daemon.msg)' = p - (a + 1)
      BY <1>1, <1>2, <3>3 DEF ByStart
    <3> HIDE DEF p, a
    <3>5. left'[t] = left[t] - 1
      <4>1. left[t] # Off
        BY <3>1, <3>2, <3>3, <1>4 DEF Off
      <4> QED
        BY <1>1, <3>2, <4>1
    <3>6. left'[t] = (p - (a + 1)) + p /\ a + 1 >= p
      BY <3>1, <3>2, <3>3, <3>5
    <3> QED
      BY <1>1, <1>2, <3>1, <3>3, <3>4, <3>6 DEF p, IsListed, TimersIn, Members, IsStart
  <2> QED
    BY <2>2, <2>3, <2>4, <2>5, <2>6 DEF HandInv, At
<1>15. RestartInv'
  <2> SUFFICES ASSUME NEW t \in Timers \ overtaken PROVE RestartWaits(t)' /\ RestartInHand(t)'
    BY <1>1 DEF RestartInv
  <2>1. RestartWaits(t) /\ RestartInHand(t)
    BY DEF RestartInv
  <2> DEFINE p == xTimerPeriodInTicks[t]
  <2>2. p \in Nat /\ p < Wrap
    BY Fields, Bounds
  <2>3. ASSUME NEW m \in MessageType, NEW a \in Nat, m.timer = t, AgeOf(m) = a, AgeOf(m)' = a + 1,
               left[t] = ByStart(m)
        PROVE  left'[t] = ByStart(m)'
    <3>1. left[t] = p - a
      BY <2>3 DEF ByStart
    <3>2. left[t] # Off
      <4> HIDE DEF p
      <4> QED
        BY <1>4, <2>2, <3>1 DEF Off
    <3>3. left'[t] = (p - a) - 1
      BY <1>1, <3>1, <3>2
    <3>4. ByStart(m)' = p - (a + 1)
      BY <1>1, <2>3 DEF ByStart
    <3> HIDE DEF p
    <3> QED
      BY <2>2, <3>3, <3>4
  <2>4. RestartInHand(t)'
    <3> SUFFICES ASSUME Handling, IsRestart(daemon.msg, t)
                 PROVE  left'[t] = ByStart(daemon.msg)'
      BY <1>1, <1>2 DEF RestartInHand, Handling, IsRestart, At
    <3>1. /\ daemon.msg # NoMessage /\ IsStart(daemon.msg) /\ daemon.msg \in MessageType
          /\ daemon.msg.timer = t /\ left[t] = ByStart(daemon.msg)
      BY <2>1, NoItemHasNoTimer, Fields DEF RestartInHand, IsRestart, IsStart
    <3> DEFINE a == AgeOf(daemon.msg)
    <3>2. AgeOf(daemon.msg)' = a + 1 /\ a \in Nat
      BY <1>13, <3>1
    <3>3. left[t] = p - a /\ ByStart(daemon.msg)' = p - (a + 1)
      BY <1>1, <1>2, <3>1, <3>2 DEF ByStart
    <3> HIDE DEF p, a
    <3>4. left[t] # Off
      BY <1>4, <2>2, <3>2, <3>3 DEF Off
    <3>5. left'[t] = (p - a) - 1
      BY <1>1, <3>3, <3>4
    <3> QED
      BY <2>2, <3>2, <3>3, <3>5
  <2>5. RestartWaits(t)'
    <3> SUFFICES ASSUME NEW i \in DOMAIN xTimerQueue, IsRestart(xTimerQueue[i], t)
                 PROVE  /\ left'[t] = ByStart(xTimerQueue[i])'
                        /\ ~IsListed(t)' /\ daemon'.reload.timer # t
                        /\ ~IsRestart(daemon'.msg, t)
                        /\ ~(At("restart")' /\ daemon'.msg.timer = t)
                        /\ \A j \in DOMAIN xTimerQueue : IsRestart(xTimerQueue[j], t) => i = j
      BY <1>1 DEF RestartWaits, IsRestart
    <3> DEFINE m == xTimerQueue[i]
    <3>1. /\ left[t] = ByStart(m) /\ ~IsListed(t) /\ daemon.reload.timer # t
          /\ ~IsRestart(daemon.msg, t) /\ ~(At("restart") /\ daemon.msg.timer = t)
          /\ \A j \in DOMAIN xTimerQueue : IsRestart(xTimerQueue[j], t) => i = j
      BY <2>1 DEF RestartWaits
    <3>2. m \in MessageType /\ m \in ToSet(xTimerQueue) /\ IsStart(m) /\ m.timer = t
      BY DEF TypeOK, ToSet, IsRestart, IsStart
    <3>3. m.value \in TickType /\ Minus(xTickCount, m.value) < MaxLate
      BY <1>3, <3>2, MessageFields DEF AgeOf
    <3> DEFINE a == Minus(xTickCount, m.value)
    <3>4. a \in Nat /\ Minus(xTickCount', m.value) = a + 1
      BY <1>4, <1>5, <3>3, Fields, MinusType
    <3>5. left[t] = p - a /\ ByStart(xTimerQueue[i])' = p - (a + 1)
      BY <1>1, <3>1, <3>2, <3>4 DEF ByStart, AgeOf
    <3>6. left'[t] = ByStart(xTimerQueue[i])'
      <4> HIDE DEF p, a
      <4>1. left[t] # Off
        BY <1>4, <2>2, <3>4, <3>5 DEF Off
      <4>2. left'[t] = (p - a) - 1
        BY <1>1, <3>5, <4>1
      <4> QED
        BY <2>2, <3>4, <3>5, <4>2
    <3> QED
      BY <1>1, <1>2, <3>1, <3>6 DEF IsListed, TimersIn, Members, IsRestart, At
  <2> QED
    BY <2>4, <2>5
<1>16. SleepInv'
  <2> SUFFICES ASSUME daemon'.at = "blocked"
               PROVE  /\ daemon'.after = "none" /\ daemon'.wait # 0
                      /\ \A t \in Timers : IsListed(t)' =>
                            daemon'.wait # Forever /\ daemon'.wait <= left'[t]
    BY DEF SleepInv, At
  <2>1. /\ At("blocked") /\ daemon.wait # 1 /\ daemon.after = "none" /\ daemon.wait # 0
        /\ daemon.wait \in Nat \cup {Forever}
        /\ daemon'.wait = IF daemon.wait = Forever THEN Forever ELSE daemon.wait - 1
    BY <1>2, Fields DEF At, SleepInv
  <2>2. daemon'.wait # 0
    BY <2>1 DEF Forever
  <2>3. ASSUME NEW t \in Timers, IsListed(t)
        PROVE  daemon'.wait # Forever /\ daemon'.wait <= left'[t]
    <3>1. daemon.wait # Forever /\ daemon.wait <= left[t]
      BY <2>1, <2>3 DEF SleepInv
    <3>2. left'[t] = left[t] - 1 /\ left[t] \in Int
      BY <1>7, <2>3, Fields
    <3> QED
      BY <2>1, <3>1, <3>2 DEF Forever
  <2> QED
    BY <1>1, <1>2, <2>1, <2>2, <2>3 DEF IsListed, TimersIn, Members
<1> QED
  BY <1>8, <1>9, <1>10, <1>14, <1>15, <1>16


\* The change of the lists: the overflow list becomes the current one of the round that
\* has begun.
LEMMA SwitchListsKeeps == ASSUME IInv, SwitchLists PROVE IInv'
<1> USE DEF IInv
<1>1. /\ At("switch") /\ pxCurrentTimerList = <<>>
      /\ pxCurrentTimerList' = pxOverflowTimerList /\ pxOverflowTimerList' = <<>>
      /\ UNCHANGED <<xTickCount, isActive, xTimerPeriodInTicks, xTimerQueue, left, overtaken>>
  BY DEF SwitchLists, status, history
<1>2. /\ daemon'.at = daemon.after /\ daemon'.after = "none"
      /\ daemon'.xLastTime = daemon.xLastTime /\ daemon'.xTimeNow = daemon.xTimeNow
      /\ daemon'.msg = daemon.msg /\ daemon'.reload = daemon.reload
  BY DEF SwitchLists, TypeOK
<1>3. daemon.after \in {"commands", "handle"} /\ daemon.reload = NoItem
  BY <1>1, Fields DEF HandInv, At
<1>4. TypeOK'
  <2>1. daemon' \in DaemonType
    BY <1>3 DEF SwitchLists, TypeOK, DaemonType, Places
  <2>2. <<>> \in Seq(ItemType)
    OBVIOUS
  <2> QED
    BY <1>1, <2>1, <2>2 DEF TypeOK, DaemonType
<1>5. Members(<<>>) = {} /\ TimersIn(<<>>) = {} /\ Apart(<<>>) /\ InOrder(<<>>)
  BY DEF Members, TimersIn, Apart, InOrder
<1>6. \A t \in Timers : IsListed(t)' <=> IsListed(t)
  <2>1. \A t \in Timers : IsListed(t)' <=> t \in TimersIn(pxCurrentTimerList') \cup TimersIn(pxOverflowTimerList')
    BY DEF IsListed, TimersIn, Members
  <2> QED
    BY <1>1, <1>5, <2>1 DEF IsListed
<1>7. Now' = Now /\ Round + Wrap = 0 /\ Round' = 0
  BY <1>1, <1>2, <1>3, Bounds DEF Now, Round
<1>8. ListsInv'
  <2>1. GoodList(pxCurrentTimerList)' /\ GoodList(pxOverflowTimerList)'
    BY <1>1, <1>5, <1>4, ListsAreGood DEF GoodList, Apart, InOrder, TypeOK
  <2>2. (TimersIn(pxCurrentTimerList) \cap TimersIn(pxOverflowTimerList) = {})'
    <3>1. TimersIn(pxOverflowTimerList)' = {}
      BY <1>1, <1>5 DEF TimersIn, Members
    <3> QED
      BY <3>1 DEF TimersIn, Members
  <2>3. \A item \in Members(pxOverflowTimerList) : Fits(item, 0)
    BY <1>7 DEF ListsInv
  <2>4. CurrentFits' /\ OverflowFits'
    <3>1. Members(pxCurrentTimerList)' = Members(pxOverflowTimerList)
          /\ Members(pxOverflowTimerList)' = {}
      BY <1>1, <1>5 DEF Members
    <3>2. \A item \in Members(pxOverflowTimerList) : Fits(item, Round)'
      BY <1>1, <1>2, <1>7, <2>3 DEF Fits
    <3> QED
      BY <3>1, <3>2 DEF CurrentFits, OverflowFits
  <2>5. \A t \in Timers : IsListed(t)' => t \in isActive'
    BY <1>1, <1>6 DEF ListsInv
  <2> QED
    BY <2>1, <2>2, <2>4, <2>5, ListsTogether
<1>9. LateInv'
  BY <1>1 DEF LateInv
<1>10. HandInv'
  <2>1. Handling' => Handling
    BY <1>2 DEF Handling
  <2>2. Handling' => ~IsListed(daemon.msg.timer)'
    <3>1. Handling => daemon.msg.timer \in Timers
      BY Fields, MessageFields DEF HandInv
    <3>2. Handling => ~IsListed(daemon.msg.timer)
      BY DEF HandInv
    <3> QED
      BY <1>2, <1>6, <2>1, <3>1, <3>2
  <2>3. Handling' =>
          /\ daemon'.msg # NoMessage /\ ~IsListed(daemon.msg.timer)'
          /\ daemon'.xTimeNow = daemon'.xLastTime
          /\ IsStart(daemon'.msg) => Minus(xTickCount', daemon'.xTimeNow) <= AgeOf(daemon.msg)'
    BY <1>1, <1>2, <2>1, <2>2 DEF HandInv, AgeOf
  <2>4. daemon'.msg # NoMessage => Handling'
    BY <1>1, <1>2, <1>3 DEF HandInv, Handling, At
  <2> QED
    BY <1>2, <1>3, <2>3, <2>4 DEF HandInv, At
<1>11. RestartInv'
  <2> SUFFICES ASSUME NEW u \in Timers \ overtaken PROVE RestartWaits(u)' /\ RestartInHand(u)'
    BY <1>1 DEF RestartInv
  <2>1. RestartWaits(u) /\ RestartInHand(u)
    BY DEF RestartInv
  <2>2. RestartInHand(u)'
    <3>1. Handling' => Handling
      BY <1>2 DEF Handling
    <3> QED
      BY <1>1, <1>2, <2>1, <3>1 DEF RestartInHand, ByStart, AgeOf
  <2>3. u # NoTimer
    BY TimerAssumption
  <2>4. daemon'.at # "restart" /\ daemon'.reload.timer # u
    BY <1>2, <1>3, <2>3, NoItemHasNoTimer
  <2>5. RestartWaits(u)'
    BY <1>1, <1>2, <1>6, <2>1, <2>4, OtherRestartsKept
  <2> QED
    BY <2>2, <2>5
<1>12. SleepInv'
  BY <1>2, <1>3 DEF SleepInv, At
<1> QED
  BY <1>4, <1>8, <1>9, <1>10, <1>11, <1>12

\* prvProcessReceivedCommands: a command is received, and its timer leaves its list.
LEMMA ReceiveCommandKeeps == ASSUME IInv, ReceiveCommand PROVE IInv'
<1> USE DEF IInv
<1> DEFINE m == Head(xTimerQueue)
           w == m.timer
<1>1. /\ At("commands") /\ xTimerQueue # <<>> /\ xTimerQueue' = Tail(xTimerQueue)
      /\ pxCurrentTimerList' = WithoutTimer(pxCurrentTimerList, w)
      /\ pxOverflowTimerList' = WithoutTimer(pxOverflowTimerList, w)
      /\ UNCHANGED <<xTickCount, isActive, xTimerPeriodInTicks, left, overtaken>>
      /\ daemon' = IF Wrapped
                   THEN [Sampled EXCEPT !.at = "switch", !.after = "handle", !.msg = m]
                   ELSE [Sampled EXCEPT !.at = "handle", !.msg = m]
  BY DEF ReceiveCommand, status, history
<1>2. daemon.after = "none" /\ daemon.reload = NoItem /\ daemon.msg = NoMessage
  BY <1>1 DEF HandInv, Handling, At
<1>3. /\ daemon'.xLastTime = xTickCount /\ daemon'.xTimeNow = xTickCount
      /\ daemon'.msg = m /\ daemon'.reload = NoItem
      /\ Wrapped => daemon'.at = "switch" /\ daemon'.after = "handle"
      /\ ~Wrapped => daemon'.at = "handle" /\ daemon'.after = "none"
  <2>1. CASE Wrapped
    BY <1>1, <1>2, <2>1 DEF Sampled, Looked, TypeOK
  <2>2. CASE ~Wrapped
    BY <1>1, <1>2, <2>2 DEF Sampled, Looked, TypeOK
  <2> QED
    BY <2>1, <2>2
<1>4. /\ xTimerQueue' \in Seq(MessageType) /\ m \in MessageType
      /\ 1 \in DOMAIN xTimerQueue /\ m = xTimerQueue[1]
      /\ \A i \in DOMAIN xTimerQueue' :
            /\ i \in Nat /\ i + 1 # 1
            /\ i + 1 \in DOMAIN xTimerQueue /\ xTimerQueue'[i] = xTimerQueue[i + 1]
  BY <1>1, QueueWithoutHead
<1>5. w \in Timers /\ m.value \in TickType /\ m # NoMessage
  BY <1>4, MessageFields
<1> DEFINE a == pxCurrentTimerList
           b == pxOverflowTimerList
<1>6. /\ GoodList(WithoutTimer(a, w)) /\ Members(WithoutTimer(a, w)) \subseteq Members(a)
      /\ TimersIn(WithoutTimer(a, w)) = TimersIn(a) \ {w}
      /\ GoodList(WithoutTimer(b, w)) /\ Members(WithoutTimer(b, w)) \subseteq Members(b)
      /\ TimersIn(WithoutTimer(b, w)) = TimersIn(b) \ {w}
  BY ListsAreGood, ListWithoutTimer
<1> HIDE DEF m
<1>7. \A t : IsListed(t)' <=> IsListed(t) /\ t # w
  <2>1. \A t : IsListed(t)' <=> t \in TimersIn(pxCurrentTimerList') \cup TimersIn(pxOverflowTimerList')
    BY DEF IsListed, TimersIn, Members
  <2> QED
    BY <1>1, <1>6, <2>1 DEF IsListed
<1>8. TypeOK'
  <2>1. daemon' \in DaemonType
    BY <1>1, <1>4, Fields DEF Sampled, Looked, TypeOK, DaemonType, Places
  <2>2. pxCurrentTimerList' \in Seq(ItemType) /\ pxOverflowTimerList' \in Seq(ItemType)
    BY <1>1, <1>6 DEF GoodList
  <2> QED
    BY <1>1, <1>4, <2>1, <2>2 DEF TypeOK, DaemonType
<1>9. /\ Now' - Round' = Now - Round
      /\ daemon'.xLastTime - Round' >= daemon.xLastTime - Round
      /\ Minus(xTickCount, xTickCount) = 0
  BY <1>1, <1>2, <1>3, LookAtTime
<1>10. ListsInv'
  <2>1. CurrentFits' /\ OverflowFits'
    <3>1. Members(pxCurrentTimerList)' \subseteq Members(a)
          /\ Members(pxOverflowTimerList)' \subseteq Members(b)
      BY <1>1, <1>6 DEF Members
    <3> QED
      BY <1>1, <1>8, <1>9, <3>1, FitsKept
  <2>2. GoodList(pxCurrentTimerList)' /\ GoodList(pxOverflowTimerList)'
    BY <1>1, <1>6 DEF GoodList, Apart, InOrder
  <2>3. (TimersIn(pxCurrentTimerList) \cap TimersIn(pxOverflowTimerList) = {})'
    <3>1. TimersIn(pxCurrentTimerList') \cap TimersIn(pxOverflowTimerList') = {}
      BY <1>1, <1>6 DEF ListsInv
    <3> QED
      BY <3>1 DEF TimersIn, Members
  <2>4. \A t \in Timers : IsListed(t)' => t \in isActive'
    BY <1>1, <1>7 DEF ListsInv
  <2> QED
    BY <2>1, <2>2, <2>3, <2>4, ListsTogether
<1>11. LateInv'
  BY <1>1 DEF LateInv
<1>12. HandInv'
  <2>1. AgeOf(daemon.msg)' \in Nat
    BY <1>1, <1>3, <1>5, Fields, MinusType DEF AgeOf
  <2>2. Handling' /\ daemon'.msg # NoMessage /\ ~IsListed(daemon.msg.timer)'
    BY <1>3, <1>5, <1>7 DEF Handling
  <2>3. Minus(xTickCount', daemon'.xTimeNow) <= AgeOf(daemon.msg)'
    BY <1>1, <1>3, <1>9, <2>1
  <2> QED
    BY <1>3, <2>2, <2>3 DEF HandInv, At
<1>13. RestartInv'
  <2> SUFFICES ASSUME NEW u \in Timers \ overtaken PROVE RestartWaits(u)' /\ RestartInHand(u)'
    BY <1>1 DEF RestartInv
  <2>1. RestartWaits(u)
    BY DEF RestartInv
  <2>2. RestartInHand(u)'
    <3> SUFFICES ASSUME IsRestart(m, u) PROVE left'[u] = ByStart(daemon.msg)'
      BY <1>3 DEF RestartInHand, IsRestart
    <3>1. left[u] = ByStart(m)
      BY <1>4, <2>1 DEF RestartWaits
    <3> QED
      BY <1>1, <1>3, <3>1 DEF ByStart, AgeOf
  <2>3. u # NoTimer
    BY TimerAssumption
  <2>4. \A i \in DOMAIN xTimerQueue' : IsRestart(xTimerQueue'[i], u) =>
           /\ i + 1 \in DOMAIN xTimerQueue /\ xTimerQueue'[i] = xTimerQueue[i + 1]
           /\ left'[u] = left[u] /\ (IsListed(u)' => IsListed(u))
           /\ daemon'.reload.timer # u /\ ~IsRestart(daemon'.msg, u)
           /\ ~(daemon'.at = "restart" /\ daemon'.msg.timer = u)
    <3> SUFFICES ASSUME NEW i \in DOMAIN xTimerQueue', IsRestart(xTimerQueue'[i], u)
                 PROVE  /\ i + 1 \in DOMAIN xTimerQueue /\ xTimerQueue'[i] = xTimerQueue[i + 1]
                        /\ left'[u] = left[u] /\ (IsListed(u)' => IsListed(u))
                        /\ daemon'.reload.timer # u /\ ~IsRestart(daemon'.msg, u)
                        /\ ~(daemon'.at = "restart" /\ daemon'.msg.timer = u)
      BY DEF IsRestart
    <3>1. /\ i + 1 \in DOMAIN xTimerQueue /\ i + 1 # 1 /\ IsRestart(xTimerQueue[i + 1], u)
          /\ xTimerQueue'[i] = xTimerQueue[i + 1]
      BY <1>4 DEF IsRestart
    <3>2. ~IsRestart(m, u)
      BY <1>4, <2>1, <3>1 DEF RestartWaits
    <3>3. daemon'.at # "restart"
      BY <1>3
    <3> QED
      BY <1>1, <1>3, <1>7, <2>3, <3>1, <3>2, <3>3, NoItemHasNoTimer
  <2>5. \A i \in DOMAIN xTimerQueue' : i \in Nat
    BY <1>4
  <2>6. RestartWaits(u)'
    BY <1>1, <2>1, <2>4, <2>5, RestartWaitsKept
  <2> QED
    BY <2>2, <2>6
<1>14. SleepInv'
  BY <1>3 DEF SleepInv, At
<1> QED
  BY <1>8, <1>10, <1>11, <1>12, <1>13, <1>14

\* tmrCOMMAND_STOP and tmrCOMMAND_DELETE: the timer is in no list any more.
LEMMA HandleStopKeeps == ASSUME IInv, HandleStop PROVE IInv'
<1> USE DEF IInv
<1> DEFINE t == daemon.msg.timer
<1>1. /\ At("handle") /\ daemon' = Handled /\ Overtakes(t)
      /\ isActive' = isActive \ {t} /\ left' = [left EXCEPT ![t] = Off]
      /\ UNCHANGED <<xTickCount, xTimerPeriodInTicks, pxCurrentTimerList, pxOverflowTimerList,
                     xTimerQueue>>
  BY DEF HandleStop, Handle, lists
<1>2. /\ daemon.after = "none" /\ daemon.reload = NoItem
      /\ daemon.msg # NoMessage /\ ~IsListed(t)
  BY <1>1 DEF HandInv, Handling, At
<1>3. t \in Timers
  BY <1>2, Fields, MessageFields
<1>4. /\ daemon'.at = "commands" /\ daemon'.msg = NoMessage /\ daemon'.after = "none"
      /\ daemon'.reload = NoItem /\ daemon'.xLastTime = daemon.xLastTime
  BY <1>1, <1>2 DEF Handled, Done, TypeOK
<1>5. \A u : IsListed(u)' <=> IsListed(u)
  BY <1>1 DEF IsListed, TimersIn, Members
<1>6. /\ left' \in [Timers -> Int] /\ left'[t] = Off
      /\ \A u \in Timers \ {t} : left'[u] = left[u]
  BY <1>1, <1>3, Bounds DEF TypeOK, Off
<1>7. TypeOK'
  <2>1. daemon' \in DaemonType
    BY <1>1, Bounds DEF Handled, Done, TypeOK, DaemonType, Places
  <2>2. overtaken' \subseteq Timers
    BY <1>1, <1>3 DEF Overtakes, TypeOK
  <2> QED
    BY <1>1, <1>6, <2>1, <2>2 DEF TypeOK, DaemonType
<1>8. Now' = Now /\ Round' = Round
  BY <1>1, <1>2, <1>4, SameTime
<1>9. ListsInv'
  <2>1. \A item \in Members(pxCurrentTimerList) \cup Members(pxOverflowTimerList) :
           left'[item.timer] = left[item.timer]
    BY <1>2, <1>6, ListsAreGood
  <2>2. CurrentFits' /\ OverflowFits'
    BY <1>1, <1>4, <1>8, <2>1 DEF CurrentFits, OverflowFits, Fits, ListsInv, Members
  <2>3. GoodList(pxCurrentTimerList)' /\ GoodList(pxOverflowTimerList)'
    BY <1>1, ListsAreGood DEF GoodList, Apart, InOrder
  <2>4. (TimersIn(pxCurrentTimerList) \cap TimersIn(pxOverflowTimerList) = {})'
    BY <1>1 DEF ListsInv, TimersIn, Members
  <2>5. \A u \in Timers : IsListed(u)' => u \in isActive'
    BY <1>1, <1>2, <1>5 DEF ListsInv
  <2> QED
    BY <2>2, <2>3, <2>4, <2>5, ListsTogether
<1>10. LateInv'
  BY <1>6, Bounds DEF LateInv, Off
<1>11. HandInv'
  BY <1>4 DEF HandInv, Handling, At
<1>12. RestartInv'
  BY <1>1, <1>4, <1>5, <1>6, RestartsWhenHandled
<1>13. SleepInv'
  BY <1>4 DEF SleepInv, At
<1> QED
  BY <1>7, <1>9, <1>10, <1>11, <1>12, <1>13

\* prvProcessExpiredTimer: the first timer of the current list leaves it, and an
\* auto-reload timer goes where its next expiry belongs.
LEMMA ProcessExpiredTimerKeeps == ASSUME IInv, ProcessExpiredTimer PROVE IInv'
<1> USE DEF IInv
<1> DEFINE a     == pxCurrentTimerList
           b     == pxOverflowTimerList
           last  == daemon.xLastTime
<1>0. PICK t, value, p, next, place, x :
         /\ t = Head(a).timer /\ value = Head(a).value /\ p = xTimerPeriodInTicks[t]
         /\ next = Plus(value, p) /\ place = Place(next, daemon.xTimeNow, value, p)
         /\ x = Item(t, next)
  OBVIOUS
<1>1. /\ At("expired")
      /\ left' = [left EXCEPT ![t] = IF t \in uxAutoReload THEN @ + p ELSE Off]
      /\ UNCHANGED <<xTickCount, xTimerPeriodInTicks, overtaken>>
      /\ \/ /\ t \in uxAutoReload
            /\ prvInsertTimerInActiveList(Item(t, next), place, Tail(a))
            /\ IF place = "due" THEN PostRestart(t, value, Done)
               ELSE daemon' = Done /\ xTimerQueue' = xTimerQueue
            /\ isActive' = isActive
         \/ /\ t \notin uxAutoReload
            /\ isActive' = isActive \ {t} /\ daemon' = Done
            /\ pxCurrentTimerList' = Tail(a)
            /\ pxOverflowTimerList' = b /\ xTimerQueue' = xTimerQueue
  BY <1>0 DEF ProcessExpiredTimer, Expire
<1>2. /\ daemon.after = "none" /\ daemon.reload = NoItem /\ daemon.msg = NoMessage
      /\ a # <<>> /\ value <= daemon.xTimeNow /\ daemon.xTimeNow = last
  BY <1>0, <1>1 DEF HandInv, Handling, At
<1>3. /\ GoodList(Tail(a)) /\ Members(Tail(a)) \subseteq Members(a) /\ Head(a) \in Members(a)
      /\ t \notin TimersIn(Tail(a)) /\ TimersIn(a) = TimersIn(Tail(a)) \cup {t}
  BY <1>0, <1>2, ListsAreGood, TailOfList
<1>4. /\ t \in Timers /\ value \in TickType /\ value \in Nat /\ value < Wrap /\ IsListed(t)
      /\ p \in 1 .. Wrap - MaxLate - 2 /\ p \in Nat /\ last \in TickType /\ last \in Nat
      /\ Now \in Nat /\ Now >= last /\ left[t] \in Int /\ left[t] > -Wrap
      /\ Wrap \in Nat /\ MaxLate \in Nat /\ Off = Wrap
  <2>1. t \in Timers /\ value \in TickType /\ value \in Nat /\ value < Wrap /\ IsListed(t)
    BY <1>0, <1>3, ListsAreGood
  <2> QED
    BY <1>0, <2>1, Fields, Bounds, NowIs DEF LateInv, Off
<1>5. t \notin TimersIn(b) /\ t \in isActive
  BY <1>3, <1>4 DEF ListsInv
<1>6. left[t] = value - Now
  <2>1. left[t] = 0 + value - Now
    BY <1>0, <1>2, <1>3 DEF ListsInv, Fits, Round
  <2> QED
    BY <1>4, <2>1
<1> HIDE DEF a, b, last
<1>7. /\ \A u \in Timers \ {t} : left'[u] = left[u]
      /\ t \in uxAutoReload => left'[t] = (value + p) - Now
      /\ t \notin uxAutoReload => left'[t] = Off
      /\ left' \in [Timers -> Int]
  BY <1>1, <1>4, <1>6 DEF TypeOK
<1>8. /\ Done \in DaemonType /\ Done.at = "commands" /\ Done.msg = NoMessage
      /\ Done.after = "none" /\ Done.reload = NoItem /\ Done.xLastTime = daemon.xLastTime
  BY <1>2, Bounds DEF Done, TypeOK, DaemonType, Places
<1>9. /\ daemon' = Done \/ daemon' = [Done EXCEPT !.at = "halted"]
      /\ daemon' \in DaemonType /\ daemon'.at \in {"commands", "halted"}
      /\ daemon'.msg = NoMessage /\ daemon'.after = "none" /\ daemon'.reload = NoItem
      /\ daemon'.xLastTime = daemon.xLastTime
  <2>1. daemon' = Done \/ daemon' = [Done EXCEPT !.at = "halted"]
    BY <1>1 DEF PostRestart
  <2> QED
    BY <1>8, <2>1 DEF DaemonType, Places
<1>10. Now' = Now /\ Round' = Round
  BY <1>1, <1>2, <1>9, SameTime
<1>11. HandInv'
  BY <1>9 DEF HandInv, Handling, At
<1>12. SleepInv'
  BY <1>9 DEF SleepInv, At
<1>13. LateInv'
  <2> SUFFICES ASSUME NEW u \in Timers PROVE left'[u] > -Wrap
    BY DEF LateInv
  <2>1. left[u] > -Wrap
    BY DEF LateInv
  <2> QED
    BY <1>4, <1>6, <1>7, <2>1
\* The start by which it catches up is the only one.
<1>14. \A i \in DOMAIN xTimerQueue : t \notin overtaken => ~IsRestart(xTimerQueue[i], t)
  BY <1>4 DEF RestartInv, RestartWaits
<1>15. \A u \in Timers : ~Handling' /\ RestartInHand(u)'
  BY <1>9 DEF RestartInHand, Handling
<1>16. CASE t \in uxAutoReload
  <2>1. /\ prvInsertTimerInActiveList(Item(t, next), place, Tail(a)) /\ isActive' = isActive
        /\ place = "due" => PostRestart(t, value, Done)
        /\ place # "due" => xTimerQueue' = xTimerQueue
    BY <1>1, <1>16
  <2>2. /\ place \in {"due", "overflow", "current"}
        /\ place = "due" <=> Minus(last, value) >= p
        /\ place = "current" => next = last + (p - Minus(last, value))
        /\ place = "overflow" => next + Wrap = last + (p - Minus(last, value))
    <3>1. place = Place(Plus(value, p), last, value, p)
      BY <1>0, <1>2
    <3> QED
      BY <1>0, <1>4, <3>1, PlaceOfItem
  <2>3. Minus(last, value) = last - value
    BY <1>2, <1>4, Age
  <2>4. next \in TickType /\ next \in Nat
    BY <1>0, <1>4, PlusType, Bounds
  <2>5. x \in ItemType /\ x.timer = t /\ x.value = next
    BY <1>0, <1>4, <2>4 DEF Item, ItemType
  <2>6. place = "current" => Fits(x, Round)'
    <3> SUFFICES ASSUME place = "current" PROVE Fits(x, 0)'
      BY <1>2, <1>9 DEF Round
    <3>1. next = value + p
      BY <1>4, <2>2, <2>3
    <3>2. left'[t] = 0 + next - Now /\ 0 + next <= last + (Wrap - MaxLate - 2)
      BY <1>2, <1>4, <1>7, <1>16, <2>4, <3>1
    <3> QED
      BY <1>9, <1>10, <2>5, <3>2 DEF Fits, last
  <2>7. place = "overflow" => Fits(x, Round + Wrap)'
    <3> SUFFICES ASSUME place = "overflow" PROVE Fits(x, 0 + Wrap)'
      BY <1>2, <1>9 DEF Round
    <3>1. next + Wrap = value + p
      BY <1>4, <2>2, <2>3, <2>4
    <3>2. left'[t] = (0 + Wrap) + next - Now /\ (0 + Wrap) + next <= last + (Wrap - MaxLate - 2)
      BY <1>2, <1>4, <1>7, <1>16, <2>4, <3>1
    <3> QED
      BY <1>9, <1>10, <2>5, <3>2 DEF Fits, last
  <2>8. TypeOK'
    <3>1. xTimerQueue' \in Seq(MessageType)
      <4>1. xTimerQueue' = xTimerQueue
            \/ xTimerQueue' = Append(xTimerQueue, Message("restart", t, value))
        BY <2>1 DEF PostRestart
      <4>2. Message("restart", t, value) \in MessageType
        BY <1>4 DEF MessageType, Message
      <4> QED
        BY <4>1, <4>2, QueueWithOneMore DEF TypeOK
    <3>2. pxCurrentTimerList' \in Seq(ItemType) /\ pxOverflowTimerList' \in Seq(ItemType)
      <4>1. /\ GoodList(Insert(Tail(a), x)) /\ GoodList(Insert(b, x)) /\ GoodList(b)
        BY <1>3, <1>5, <2>5, ListsAreGood, ListWithItem DEF b, a
      <4> QED
        BY <1>0, <1>3, <2>1, <4>1 DEF prvInsertTimerInActiveList, GoodList, b
    <3> QED
      BY <1>1, <1>7, <1>9, <2>1, <3>1, <3>2 DEF TypeOK, DaemonType
  <2>9. /\ ListsInv'
        /\ \A u \in Timers \ {t} : IsListed(u)' => IsListed(u)
        /\ place = "due" => ~IsListed(t)'
    <3>1. /\ GoodList(Tail(a)) /\ Members(Tail(a)) \subseteq Members(pxCurrentTimerList)
          /\ x.timer \notin TimersIn(Tail(a)) /\ x.timer \notin TimersIn(pxOverflowTimerList)
          /\ prvInsertTimerInActiveList(x, place, Tail(a))
          /\ \A u \in Timers \ {x.timer} :
                left'[u] = left[u] /\ (u \in isActive => u \in isActive')
          /\ x.timer \in isActive'
      BY <1>0, <1>3, <1>5, <1>7, <2>1, <2>5 DEF a, b
    <3>2. daemon'.xLastTime = daemon.xLastTime
      BY <1>9
    <3> QED
      BY <1>10, <2>2, <2>5, <2>6, <2>7, <2>8, <3>1, <3>2, ItemInserted
  <2>10. RestartInv'
    <3> SUFFICES ASSUME NEW u \in Timers \ overtaken PROVE RestartWaits(u)'
      BY <1>1, <1>15 DEF RestartInv
    <3>1. RestartWaits(u) /\ u # NoTimer
      BY TimerAssumption DEF RestartInv
    <3>2. CASE place = "due"
      <4>1. left'[t] = xTimerPeriodInTicks[t] - Minus(xTickCount, value)
        <5>1. 0 + value <= Now /\ Now - (0 + value) < Wrap
          BY <1>2, <1>4, <1>6
        <5>2. Minus(xTickCount, value) = Now - (0 + value)
          BY <1>4, <5>1, TimePassed
        <5>3. left'[t] = p - Minus(xTickCount, value)
          BY <1>4, <1>7, <1>16, <5>2
        <5> QED
          BY <1>0, <5>3
      <4>2. PICK d : d = Done
        OBVIOUS
      <4>3. /\ d \in DaemonType /\ d.at # "restart" /\ d.msg = NoMessage /\ d.reload = NoItem
            /\ PostRestart(t, value, d)
        BY <1>8, <2>1, <3>2, <4>2
      <4>4. /\ u = t => \A i \in DOMAIN xTimerQueue : ~IsRestart(xTimerQueue[i], t)
            /\ u # t => left'[u] = left[u] /\ (IsListed(u)' => IsListed(u))
        BY <1>7, <1>14, <2>9
      <4> QED
        BY <1>1, <1>4, <2>9, <3>1, <3>2, <4>1, <4>3, <4>4, RestartPosted
    <3>3. CASE place # "due"
      <4>1. (\E i \in DOMAIN xTimerQueue : IsRestart(xTimerQueue[i], u)) =>
               left'[u] = left[u] /\ (IsListed(u)' => IsListed(u))
        BY <1>7, <1>14, <2>9
      <4>2. daemon'.reload.timer # u /\ daemon'.at # "restart"
        BY <1>9, <3>1, NoItemHasNoTimer
      <4> QED
        BY <1>1, <1>9, <2>1, <3>1, <3>3, <4>1, <4>2, OtherRestartsKept
    <3> QED
      BY <3>2, <3>3
  <2> QED
    BY <1>11, <1>12, <1>13, <2>8, <2>9, <2>10
<1>17. CASE t \notin uxAutoReload
  <2>1. /\ isActive' = isActive \ {t} /\ xTimerQueue' = xTimerQueue
        /\ pxCurrentTimerList' = Tail(a) /\ pxOverflowTimerList' = b
    BY <1>1, <1>17
  <2>2. TypeOK'
    BY <1>1, <1>3, <1>7, <1>9, <2>1 DEF TypeOK, DaemonType, GoodList, b
  <2>3. \A u : IsListed(u)' <=> IsListed(u) /\ u # t
    <3>1. \A u : IsListed(u)' <=> u \in TimersIn(pxCurrentTimerList') \cup TimersIn(pxOverflowTimerList')
      BY DEF IsListed, TimersIn, Members
    <3> QED
      BY <1>3, <1>5, <2>1, <3>1 DEF IsListed, a, b
  <2>4. ListsInv'
    <3>1. CurrentFits' /\ OverflowFits'
      <4>1. Members(pxCurrentTimerList)' \subseteq Members(pxCurrentTimerList)
            /\ Members(pxOverflowTimerList)' \subseteq Members(pxOverflowTimerList)
        BY <1>3, <2>1 DEF Members, a, b
      <4>2. \A u \in Timers : IsListed(u)' => left'[u] = left[u]
        BY <1>7, <2>3
      <4>3. Now' - Round' = Now - Round
            /\ daemon'.xLastTime - Round' >= daemon.xLastTime - Round
        BY <1>4, <1>9, <1>10, RoundIs DEF last
      <4> QED
        BY <2>2, <4>1, <4>2, <4>3, FitsKept
    <3>2. GoodList(pxCurrentTimerList)' /\ GoodList(pxOverflowTimerList)'
      BY <1>3, <2>1, ListsAreGood DEF GoodList, Apart, InOrder, b
    <3>3. (TimersIn(pxCurrentTimerList) \cap TimersIn(pxOverflowTimerList) = {})'
      <4>1. TimersIn(pxCurrentTimerList') \cap TimersIn(pxOverflowTimerList') = {}
        BY <1>3, <2>1 DEF ListsInv, a, b
      <4> QED
        BY <4>1 DEF TimersIn, Members
    <3>4. \A u \in Timers : IsListed(u)' => u \in isActive'
      BY <2>1, <2>3 DEF ListsInv
    <3> QED
      BY <3>1, <3>2, <3>3, <3>4, ListsTogether
  <2>5. RestartInv'
    <3> SUFFICES ASSUME NEW u \in Timers \ overtaken PROVE RestartWaits(u)'
      BY <1>1, <1>15 DEF RestartInv
    <3>1. RestartWaits(u) /\ u # NoTimer
      BY TimerAssumption DEF RestartInv
    <3>2. (\E i \in DOMAIN xTimerQueue : IsRestart(xTimerQueue[i], u)) =>
             left'[u] = left[u] /\ (IsListed(u)' => IsListed(u))
      BY <1>7, <1>14, <2>3
    <3>3. daemon'.reload.timer # u /\ daemon'.at # "restart"
      BY <1>9, <3>1, NoItemHasNoTimer
    <3> QED
      BY <1>1, <1>9, <2>1, <3>1, <3>2, <3>3, OtherRestartsKept
  <2> QED
    BY <1>11, <1>12, <1>13, <2>2, <2>4, <2>5
<1> QED
  BY <1>16, <1>17

\* prvSwitchTimerLists, first half: the callback of a timer left over in the list of the
\* round that has ended.
LEMMA SwitchCallbackKeeps == ASSUME IInv, SwitchCallback PROVE IInv'
<1> USE DEF IInv
<1> DEFINE a    == pxCurrentTimerList
           b    == pxOverflowTimerList
           last == daemon.xLastTime
<1>0. PICK item, t, value, p :
         /\ item = Head(a) /\ t = item.timer /\ value = item.value
         /\ p = xTimerPeriodInTicks[t]
  OBVIOUS
<1>1. /\ At("switch") /\ a # <<>>
      /\ left' = [left EXCEPT ![t] = IF t \in uxAutoReload THEN @ + p ELSE Off]
      /\ pxCurrentTimerList' = Tail(a)
      /\ daemon' = [daemon EXCEPT !.at = "switchReload", !.reload = item]
      /\ UNCHANGED <<xTickCount, isActive, xTimerPeriodInTicks, pxOverflowTimerList,
                     xTimerQueue, overtaken>>
  BY <1>0 DEF SwitchCallback, Expire, status
<1>2. daemon.after # "none" /\ daemon.reload = NoItem /\ ~(daemon.at = "handle")
  BY <1>1 DEF HandInv, At
<1>3. /\ GoodList(Tail(a)) /\ Members(Tail(a)) \subseteq Members(a) /\ item \in Members(a)
      /\ t \notin TimersIn(Tail(a)) /\ TimersIn(a) = TimersIn(Tail(a)) \cup {t}
  BY <1>0, <1>1, ListsAreGood, TailOfList
<1>4. /\ item \in ItemType /\ t \in Timers /\ value \in Nat /\ value < Wrap /\ IsListed(t)
      /\ p \in 1 .. Wrap - MaxLate - 2 /\ p \in Nat /\ last \in Nat
      /\ Now \in Nat /\ left[t] \in Int /\ left[t] > -Wrap
      /\ Wrap \in Nat /\ MaxLate \in Nat /\ Off = Wrap /\ -Wrap \in Int
  <2>1. item \in ItemType /\ t \in Timers /\ value \in Nat /\ value < Wrap /\ IsListed(t)
    BY <1>0, <1>3, ListsAreGood
  <2> QED
    BY <1>0, <2>1, Fields, Bounds, NowIs DEF LateInv, Off
<1>5. t \notin TimersIn(b) /\ t \in isActive
  BY <1>3, <1>4 DEF ListsInv
<1>6. left[t] = value - Wrap - Now /\ Now < value
  <2>1. left[t] = -Wrap + value - Now
    BY <1>0, <1>2, <1>3 DEF ListsInv, Fits, Round
  <2> QED
    BY <1>4, <2>1
<1>7. /\ daemon'.at = "switchReload" /\ daemon'.reload = item /\ daemon'.msg = daemon.msg
      /\ daemon'.after = daemon.after /\ daemon'.xLastTime = last
      /\ daemon'.xTimeNow = daemon.xTimeNow /\ daemon' \in DaemonType
  BY <1>1, <1>4 DEF TypeOK, DaemonType, Places
<1> HIDE DEF a, b, last
<1>8. /\ \A u \in Timers \ {t} : left'[u] = left[u]
      /\ t \in uxAutoReload => left'[t] = value - Wrap + p - Now
      /\ t \notin uxAutoReload => left'[t] = Off
      /\ left' \in [Timers -> Int]
  <2>1. (value - Wrap - Now) + p = value - Wrap + p - Now /\ (value - Wrap - Now) + p \in Int
    BY <1>4
  <2>2. left \in [Timers -> Int]
    BY DEF TypeOK
  <2>3. CASE t \in uxAutoReload
    BY <1>1, <1>4, <1>6, <2>1, <2>2, <2>3
  <2>4. CASE t \notin uxAutoReload
    BY <1>1, <1>4, <2>2, <2>4
  <2> QED
    BY <2>3, <2>4
<1>9. Now' = Now /\ Round' = Round
  BY <1>1, <1>7, SameTime DEF last
<1>10. TypeOK'
  BY <1>1, <1>3, <1>7, <1>8 DEF TypeOK, DaemonType, GoodList
<1>11. \A u : IsListed(u)' <=> IsListed(u) /\ u # t
  <2>1. \A u : IsListed(u)' <=> u \in TimersIn(pxCurrentTimerList') \cup TimersIn(pxOverflowTimerList')
    BY DEF IsListed, TimersIn, Members
  <2> QED
    BY <1>1, <1>3, <1>5, <2>1 DEF IsListed, a, b
<1>12. ListsInv'
  <2>1. CurrentFits' /\ OverflowFits'
    <3>1. Members(pxCurrentTimerList)' \subseteq Members(pxCurrentTimerList)
          /\ Members(pxOverflowTimerList)' \subseteq Members(pxOverflowTimerList)
      BY <1>1, <1>3 DEF Members, a
    <3>2. \A u \in Timers : IsListed(u)' => left'[u] = left[u]
      BY <1>8, <1>11
    <3>3. Now' - Round' = Now - Round
          /\ daemon'.xLastTime - Round' >= daemon.xLastTime - Round
      BY <1>4, <1>7, <1>9, RoundIs DEF last
    <3> QED
      BY <1>10, <3>1, <3>2, <3>3, FitsKept
  <2>2. GoodList(pxCurrentTimerList)' /\ GoodList(pxOverflowTimerList)'
    BY <1>1, <1>3, ListsAreGood DEF GoodList, Apart, InOrder
  <2>3. (TimersIn(pxCurrentTimerList) \cap TimersIn(pxOverflowTimerList) = {})'
    <3>1. TimersIn(pxCurrentTimerList') \cap TimersIn(pxOverflowTimerList') = {}
      BY <1>1, <1>3 DEF ListsInv, a
    <3> QED
      BY <3>1 DEF TimersIn, Members
  <2>4. \A u \in Timers : IsListed(u)' => u \in isActive'
    BY <1>1, <1>11 DEF ListsInv
  <2> QED
    BY <2>1, <2>2, <2>3, <2>4, ListsTogether
<1>13. LateInv'
  <2> SUFFICES ASSUME NEW u \in Timers PROVE left'[u] > -Wrap
    BY DEF LateInv
  <2>1. left[u] > -Wrap
    BY DEF LateInv
  <2> QED
    BY <1>4, <1>6, <1>8, <2>1
<1>14. Handling => daemon.msg.timer # t
  BY <1>4 DEF HandInv
<1>15. HandInv'
  <2>1. Handling' <=> Handling
    BY <1>2, <1>7 DEF Handling
  <2>2. Handling' =>
          /\ daemon'.msg # NoMessage /\ ~IsListed(daemon.msg.timer)'
          /\ daemon'.xTimeNow = daemon'.xLastTime
          /\ IsStart(daemon'.msg) => Minus(xTickCount', daemon'.xTimeNow) <= AgeOf(daemon.msg)'
    <3>1. Handling => ~IsListed(daemon.msg.timer)
      BY DEF HandInv
    <3>2. Handling' => ~IsListed(daemon.msg.timer)'
      BY <1>7, <1>11, <2>1, <3>1
    <3> QED
      BY <1>1, <1>7, <2>1, <3>2 DEF HandInv, AgeOf, last
  <2>3. daemon'.msg # NoMessage => Handling'
    BY <1>1, <1>7, <2>1 DEF HandInv, At
  <2>4. /\ daemon'.reload = item /\ item # NoItem /\ item.timer = t /\ item.value = value
        /\ t \in isActive' /\ xTimerPeriodInTicks'[t] = p
    BY <1>0, <1>1, <1>4, <1>5, <1>7, NoItemHasNoTimer
  <2>5. ~IsListed(daemon.reload.timer)'
    BY <1>11, <2>4
  <2>6. t \in uxAutoReload => left'[t] = value - Wrap + p - Now' /\ Now' < value
    BY <1>6, <1>8, <1>9
  <2>7. Handling' => daemon'.msg.timer # t
    BY <1>7, <1>14, <2>1
  <2> QED
    BY <1>2, <1>7, <2>2, <2>3, <2>4, <2>5, <2>6, <2>7 DEF HandInv, At
<1>16. RestartInv'
  <2> SUFFICES ASSUME NEW u \in Timers \ overtaken PROVE RestartWaits(u)' /\ RestartInHand(u)'
    BY <1>1 DEF RestartInv
  <2>1. RestartWaits(u) /\ RestartInHand(u)
    BY DEF RestartInv
  <2>2. RestartInHand(u)'
    <3> SUFFICES ASSUME Handling', IsRestart(daemon'.msg, u) PROVE left'[u] = ByStart(daemon.msg)'
      BY DEF RestartInHand, IsRestart
    <3>1. Handling /\ IsRestart(daemon.msg, u)
      BY <1>2, <1>7 DEF Handling, IsRestart
    <3>2. u # t /\ left[u] = ByStart(daemon.msg)
      BY <1>14, <2>1, <3>1 DEF RestartInHand, IsRestart
    <3> QED
      BY <1>1, <1>7, <1>8, <3>2 DEF ByStart, AgeOf
  <2>3. CASE \E i \in DOMAIN xTimerQueue : IsRestart(xTimerQueue[i], u)
    <3>1. u # t
      BY <1>4, <2>1, <2>3 DEF RestartWaits
    <3>2. daemon'.reload.timer # u /\ daemon'.at # "restart"
      BY <1>0, <1>7, <3>1
    <3> QED
      BY <1>1, <1>7, <1>8, <1>11, <2>1, <2>2, <3>1, <3>2, OtherRestartsKept
  <2>4. CASE ~\E i \in DOMAIN xTimerQueue : IsRestart(xTimerQueue[i], u)
    BY <1>1, <2>2, <2>4 DEF RestartWaits, IsRestart
  <2> QED
    BY <2>3, <2>4
<1>17. SleepInv'
  BY <1>7 DEF SleepInv, At
<1> QED
  BY <1>10, <1>12, <1>13, <1>15, <1>16, <1>17

\* prvSwitchTimerLists, second half: its next expiry is still in that round, or the daemon
\* posts itself a start that asks for it.
LEMMA SwitchReloadKeeps == ASSUME IInv, SwitchReload PROVE IInv'
<1> USE DEF IInv
<1> DEFINE a    == pxCurrentTimerList
           last == daemon.xLastTime
<1>0. PICK t, value, p, next, goon, x :
         /\ t = daemon.reload.timer /\ value = daemon.reload.value
         /\ p = xTimerPeriodInTicks[t] /\ next = Plus(value, p)
         /\ goon = [daemon EXCEPT !.at = "switch", !.reload = NoItem]
         /\ x = Item(t, next)
  OBVIOUS
<1>1. /\ At("switchReload")
      /\ UNCHANGED <<xTickCount, isActive, xTimerPeriodInTicks, pxOverflowTimerList, left,
                     overtaken>>
      /\ \/ /\ t \notin uxAutoReload
            /\ daemon' = goon /\ xTimerQueue' = xTimerQueue /\ pxCurrentTimerList' = a
         \/ /\ t \in uxAutoReload /\ next > value
            /\ pxCurrentTimerList' = Insert(a, x)
            /\ daemon' = goon /\ xTimerQueue' = xTimerQueue
         \/ /\ t \in uxAutoReload /\ next <= value
            /\ PostRestart(t, value, goon) /\ pxCurrentTimerList' = a
  BY <1>0 DEF SwitchReload, status, history
<1>2. /\ daemon.after # "none" /\ daemon.reload # NoItem /\ ~IsListed(t) /\ t \in isActive
      /\ Handling => daemon.msg.timer # t
      /\ t \in uxAutoReload => left[t] = value - Wrap + p - Now /\ Now < value
  BY <1>0, <1>1 DEF HandInv, At
<1>3. /\ daemon.reload \in ItemType /\ t \in Timers /\ value \in TickType /\ value \in Nat
      /\ value < Wrap /\ p \in 1 .. Wrap - MaxLate - 2 /\ p \in Nat /\ p >= 1 /\ p < Wrap
      /\ last \in Nat /\ Now \in Nat /\ Wrap \in Nat /\ MaxLate \in Nat /\ -Wrap \in Int
  <2>1. daemon.reload \in ItemType
    BY <1>2, Fields
  <2>2. t \in Timers /\ value \in TickType
    BY <1>0, <2>1 DEF ItemType
  <2>3. p \in 1 .. Wrap - MaxLate - 2
    BY <1>0, <2>2, Fields
  <2>4. p \in Nat /\ p >= 1 /\ p < Wrap /\ value \in Nat /\ value < Wrap
    BY <2>2, <2>3, Bounds
  <2> QED
    BY <2>1, <2>2, <2>3, <2>4, Fields, Bounds, NowIs
<1>4. /\ next \in TickType /\ next \in Nat /\ next < Wrap
      /\ next = IF value + p < Wrap THEN value + p ELSE value + p - Wrap
  BY <1>0, <1>3, PlusType, Bounds
<1>5. x \in ItemType /\ x.timer = t /\ x.value = next
  BY <1>0, <1>3, <1>4 DEF Item, ItemType
<1>6. /\ goon \in DaemonType /\ goon.at = "switch" /\ goon.reload = NoItem
      /\ goon.msg = daemon.msg /\ goon.after = daemon.after
      /\ goon.xLastTime = daemon.xLastTime /\ goon.xTimeNow = daemon.xTimeNow
  BY <1>0 DEF TypeOK, DaemonType, Places
<1>7. /\ daemon' \in DaemonType /\ daemon'.at \in {"switch", "halted"}
      /\ daemon'.reload = NoItem /\ daemon'.msg = daemon.msg /\ daemon'.after = daemon.after
      /\ daemon'.xLastTime = daemon.xLastTime /\ daemon'.xTimeNow = daemon.xTimeNow
  <2>1. daemon' = goon \/ daemon' = [goon EXCEPT !.at = "halted"]
    BY <1>1 DEF PostRestart
  <2> QED
    BY <1>6, <2>1 DEF DaemonType, Places
<1> HIDE DEF a, last
<1>8. Now' = Now /\ Round' = Round /\ Round = -Wrap
  BY <1>1, <1>2, <1>7, SameTime DEF Round
\* As if by prvInsertTimerInActiveList, in the current list or nowhere.
<1>9. PICK place \in {"due", "current"} :
         /\ prvInsertTimerInActiveList(x, place, a)
         /\ place = "current" <=> t \in uxAutoReload /\ next > value
         /\ xTimerQueue' = xTimerQueue \/ (t \in uxAutoReload /\ next <= value)
  <2>1. CASE t \in uxAutoReload /\ next > value
    <3>1. prvInsertTimerInActiveList(x, "current", a)
      BY <1>1, <1>3, <1>4, <2>1 DEF prvInsertTimerInActiveList
    <3> QED
      BY <1>1, <1>3, <1>4, <2>1, <3>1
  <2>2. CASE ~(t \in uxAutoReload /\ next > value)
    <3>1. prvInsertTimerInActiveList(x, "due", a)
      BY <1>1, <2>2 DEF prvInsertTimerInActiveList
    <3>2. xTimerQueue' = xTimerQueue \/ (t \in uxAutoReload /\ next <= value)
      BY <1>1
    <3> QED
      BY <2>2, <3>1, <3>2
  <2> QED
    BY <2>1, <2>2
<1>10. place = "current" => Fits(x, Round)'
  <2> SUFFICES ASSUME place = "current" PROVE Fits(x, -Wrap)'
    BY <1>2, <1>7 DEF Round
  <2>1. next = value + p
    BY <1>3, <1>4, <1>9
  <2>2. left'[t] = -Wrap + next - Now /\ -Wrap + next <= last + (Wrap - MaxLate - 2)
    <3>1. left[t] = value - Wrap + p - Now /\ left' = left
      BY <1>1, <1>2, <1>9
    <3>2. MaxLate < Wrap - 2
      BY Bounds
    <3> QED
      BY <1>3, <1>4, <2>1, <3>1, <3>2
  <2> QED
    BY <1>5, <1>7, <1>8, <2>2 DEF Fits, last
<1>11. GoodList(a) /\ t \notin TimersIn(a) /\ t \notin TimersIn(pxOverflowTimerList)
  BY <1>2, ListsAreGood DEF IsListed, a
<1>12. TypeOK'
  <2>1. xTimerQueue' \in Seq(MessageType)
    <3>1. xTimerQueue' = xTimerQueue
          \/ xTimerQueue' = Append(xTimerQueue, Message("restart", t, value))
      BY <1>1 DEF PostRestart
    <3>2. Message("restart", t, value) \in MessageType
      BY <1>3 DEF MessageType, Message
    <3> QED
      BY <3>1, <3>2, QueueWithOneMore DEF TypeOK
  <2>2. pxCurrentTimerList' \in Seq(ItemType)
    <3>1. GoodList(Insert(a, x))
      BY <1>5, <1>11, ListWithItem
    <3> QED
      BY <1>1, <1>11, <3>1 DEF GoodList
  <2> QED
    BY <1>1, <1>7, <2>1, <2>2 DEF TypeOK, DaemonType
<1>13. /\ ListsInv'
       /\ \A u \in Timers \ {t} : IsListed(u)' => IsListed(u)
       /\ place = "due" => ~IsListed(t)'
  <2>1. /\ Members(a) \subseteq Members(pxCurrentTimerList)
        /\ x.timer \notin TimersIn(a) /\ x.timer \notin TimersIn(pxOverflowTimerList)
        /\ \A u \in Timers \ {x.timer} :
              left'[u] = left[u] /\ (u \in isActive => u \in isActive')
        /\ x.timer \in isActive'
        /\ place \in {"due", "overflow", "current"} /\ place # "overflow"
        /\ daemon'.xLastTime = daemon.xLastTime
    BY <1>1, <1>2, <1>5, <1>7, <1>9, <1>11 DEF a
  <2> QED
    BY <1>5, <1>8, <1>9, <1>10, <1>11, <1>12, <2>1, ItemInserted
<1>14. LateInv'
  BY <1>1 DEF LateInv
<1>15. HandInv'
  <2>1. Handling' <=> Handling
    BY <1>1, <1>7 DEF Handling, At
  <2>2. Handling' =>
          /\ daemon'.msg # NoMessage /\ ~IsListed(daemon.msg.timer)'
          /\ daemon'.xTimeNow = daemon'.xLastTime
          /\ IsStart(daemon'.msg) => Minus(xTickCount', daemon'.xTimeNow) <= AgeOf(daemon.msg)'
    <3>1. Handling => /\ ~IsListed(daemon.msg.timer) /\ daemon.msg.timer # t
                      /\ daemon.msg.timer \in Timers
      BY <1>2, Fields, MessageFields DEF HandInv
    <3>2. Handling' => ~IsListed(daemon.msg.timer)'
      BY <1>7, <1>13, <2>1, <3>1
    <3> QED
      BY <1>1, <1>7, <2>1, <3>2 DEF HandInv, AgeOf
  <2>3. daemon'.msg # NoMessage => Handling'
    BY <1>1, <1>7, <2>1 DEF HandInv, At
  <2> QED
    BY <1>2, <1>7, <2>2, <2>3 DEF HandInv, At
<1>16. RestartInv'
  <2> SUFFICES ASSUME NEW u \in Timers \ overtaken PROVE RestartWaits(u)' /\ RestartInHand(u)'
    BY <1>1 DEF RestartInv
  <2>1. RestartWaits(u) /\ RestartInHand(u) /\ u # NoTimer
    BY TimerAssumption DEF RestartInv
  <2>2. RestartInHand(u)'
    <3>1. Handling' => Handling
      BY <1>1, <1>7 DEF Handling, At
    <3> QED
      BY <1>1, <1>7, <2>1, <3>1 DEF RestartInHand, ByStart, AgeOf
  <2>3. (\E i \in DOMAIN xTimerQueue : IsRestart(xTimerQueue[i], u)) => u # t
    BY <1>0, <2>1 DEF RestartWaits
  <2>4. CASE xTimerQueue' = xTimerQueue
    <3>1. (\E i \in DOMAIN xTimerQueue : IsRestart(xTimerQueue[i], u)) =>
             left'[u] = left[u] /\ (IsListed(u)' => IsListed(u))
      BY <1>1, <1>13, <2>3
    <3>2. daemon'.reload.timer # u /\ daemon'.at # "restart"
      BY <1>7, <2>1, NoItemHasNoTimer
    <3> QED
      BY <1>1, <1>7, <2>1, <2>2, <2>4, <3>1, <3>2, OtherRestartsKept
  <2>5. CASE xTimerQueue' # xTimerQueue
    <3>1. /\ t \in uxAutoReload /\ next <= value /\ place = "due"
          /\ PostRestart(t, value, goon)
      BY <1>1, <1>3, <1>4, <1>9, <2>5
    <3>2. left'[t] = xTimerPeriodInTicks[t] - Minus(xTickCount, value)
      <4>1. -Wrap + value <= Now /\ Now - (-Wrap + value) < Wrap
        BY <1>2, <1>3, <3>1
      <4>2. Minus(xTickCount, value) = Now - (-Wrap + value)
        BY <1>3, <4>1, TimePassed
      <4>3. left'[t] = p - Minus(xTickCount, value)
        BY <1>1, <1>2, <1>3, <3>1, <4>2
      <4> QED
        BY <1>0, <4>3
    <3>3. goon.msg = NoMessage \/ (goon.msg = daemon.msg /\ ~IsRestart(goon.msg, t))
      BY <1>1, <1>2, <1>6 DEF HandInv, At, IsRestart
    <3>4. goon.at # "restart" /\ ~IsListed(t)'
      BY <1>6, <1>13, <3>1
    <3>5. /\ u = t => \A i \in DOMAIN xTimerQueue : ~IsRestart(xTimerQueue[i], t)
          /\ u # t => left'[u] = left[u] /\ (IsListed(u)' => IsListed(u))
      BY <1>1, <1>13, <2>3
    <3> QED
      BY <1>1, <1>3, <1>6, <2>1, <2>2, <3>1, <3>2, <3>3, <3>4, <3>5, RestartPosted
  <2> QED
    BY <2>4, <2>5
<1>17. SleepInv'
  BY <1>7 DEF SleepInv, At
<1> QED
  BY <1>12, <1>13, <1>14, <1>15, <1>16, <1>17

\* After the callback of a timer that was due when it was started, the daemon posts
\* itself the start that asks for its next expiry.
LEMMA RestartKeeps == ASSUME IInv, Restart PROVE IInv'
<1> USE DEF IInv
<1>0. PICK t, v, p, w, h :
         /\ t = daemon.msg.timer /\ v = daemon.msg.value /\ p = xTimerPeriodInTicks[t]
         /\ w = Plus(v, p) /\ h = Handled
  OBVIOUS
<1>1. /\ At("restart") /\ PostRestart(t, w, h)
      /\ UNCHANGED <<xTickCount, isActive, xTimerPeriodInTicks, pxCurrentTimerList,
                     pxOverflowTimerList, left, overtaken>>
  BY <1>0 DEF Restart, status, lists, history
<1>2. /\ daemon.after = "none" /\ daemon.reload = NoItem
      /\ daemon.msg # NoMessage /\ ~IsListed(t)
      /\ Minus(xTickCount, v) >= p
      /\ left[t] = (p - Minus(xTickCount, v)) + p
  BY <1>0, <1>1 DEF HandInv, At, AgeOf, ByStart
<1>3. /\ t \in Timers /\ v \in TickType /\ p \in 1 .. Wrap - MaxLate - 2 /\ p \in Nat
      /\ xTickCount \in TickType /\ w \in TickType
  <2>1. t \in Timers /\ v \in TickType
    BY <1>0, <1>2, Fields, MessageFields
  <2>2. p \in 1 .. Wrap - MaxLate - 2
    BY <1>0, <2>1, Fields
  <2> QED
    BY <1>0, <2>1, <2>2, Fields, PlusType, Bounds
<1>4. left'[t] = xTimerPeriodInTicks[t] - Minus(xTickCount, w)
  <2>1. Minus(xTickCount, w) = Minus(xTickCount, v) - p /\ Minus(xTickCount, v) \in Nat
    BY <1>0, <1>2, <1>3, AgeOfLater, MinusType
  <2>2. left'[t] = p - Minus(xTickCount, w)
    BY <1>1, <1>2, <1>3, <2>1
  <2> QED
    BY <1>0, <2>2
<1>5. /\ h \in DaemonType /\ h.at = "commands" /\ h.msg = NoMessage /\ h.after = "none"
      /\ h.reload = NoItem /\ h.xLastTime = daemon.xLastTime
  BY <1>0, <1>2, Bounds DEF Handled, Done, TypeOK, DaemonType, Places
<1>6. /\ daemon' \in DaemonType /\ daemon'.at \in {"commands", "halted"}
      /\ daemon'.msg = NoMessage /\ daemon'.after = "none" /\ daemon'.reload = NoItem
      /\ daemon'.xLastTime = daemon.xLastTime
  <2>1. daemon' = h \/ daemon' = [h EXCEPT !.at = "halted"]
    BY <1>1 DEF PostRestart
  <2> QED
    BY <1>5, <2>1 DEF DaemonType, Places
<1>7. \A u : IsListed(u)' <=> IsListed(u)
  BY <1>1 DEF IsListed, TimersIn, Members
<1>8. TypeOK'
  <2>1. xTimerQueue' \in Seq(MessageType)
    <3>1. xTimerQueue' = xTimerQueue
          \/ xTimerQueue' = Append(xTimerQueue, Message("restart", t, w))
      BY <1>1 DEF PostRestart
    <3>2. Message("restart", t, w) \in MessageType
      BY <1>3 DEF MessageType, Message
    <3> QED
      BY <3>1, <3>2, QueueWithOneMore DEF TypeOK
  <2> QED
    BY <1>1, <1>6, <2>1 DEF TypeOK, DaemonType
<1>9. ListsInv'
  <2>1. Now' = Now /\ Round' = Round
    BY <1>1, <1>2, <1>6, SameTime
  <2> QED
    BY <1>1, <1>6, <1>7, <2>1 DEF ListsInv, Fits, Apart, InOrder, TimersIn, Members
<1>10. LateInv'
  BY <1>1 DEF LateInv
<1>11. HandInv'
  BY <1>6 DEF HandInv, Handling, At
<1>12. RestartInv'
  <2> SUFFICES ASSUME NEW u \in Timers \ overtaken PROVE RestartWaits(u)' /\ RestartInHand(u)'
    BY <1>1 DEF RestartInv
  <2>1. RestartInHand(u)'
    BY <1>6 DEF RestartInHand, Handling
  <2>2. RestartWaits(u)
    BY DEF RestartInv
  <2>3. u = t => \A i \in DOMAIN xTimerQueue : ~IsRestart(xTimerQueue[i], t)
    BY <1>0, <1>1, <2>2 DEF RestartWaits
  <2>4. h.at # "restart" /\ ~IsListed(t)' /\ left'[u] = left[u] /\ (IsListed(u)' => IsListed(u))
    BY <1>1, <1>2, <1>5, <1>7
  <2> QED
    BY <1>1, <1>3, <1>4, <1>5, <2>1, <2>2, <2>3, <2>4, RestartPosted
<1>13. SleepInv'
  BY <1>6 DEF SleepInv, At
<1> QED
  BY <1>8, <1>9, <1>10, <1>11, <1>12, <1>13

\* A command that puts its timer into a list, or nowhere if the timer is due: what it
\* asks for is what is left.
LEMMA TimerStarted ==
    ASSUME IInv, At("handle"),
           NEW t \in Timers, t = daemon.msg.timer,
           NEW v \in TickType, NEW p \in 1 .. Wrap - MaxLate - 2, NEW place, NEW x,
           place = Place(Plus(v, p), daemon.xTimeNow, v, p), x = Item(t, Plus(v, p)),
           Minus(xTickCount, daemon.xTimeNow) <= Minus(xTickCount, v),
           prvInsertTimerInActiveList(x, place, pxCurrentTimerList),
           TypeOK', UNCHANGED xTickCount, isActive' = isActive \cup {t},
           daemon'.xLastTime = daemon.xLastTime, daemon'.after = daemon.after,
           \A u \in Timers \ {t} : left'[u] = left[u],
           place # "due" => left'[t] = p - Minus(xTickCount, v)
    PROVE  /\ ListsInv'
           /\ \A u \in Timers \ {t} : IsListed(u)' => IsListed(u)
           /\ place = "due" => ~IsListed(t)' /\ Minus(xTickCount, v) >= p
<1> USE DEF IInv
<1> DEFINE last == daemon.xLastTime
           e    == Minus(xTickCount, last)
           c    == Minus(last, v)
           age  == Minus(xTickCount, v)
           next == Plus(v, p)
<1>1. daemon.after = "none" /\ ~IsListed(t) /\ daemon.xTimeNow = last
  BY DEF HandInv, Handling, At
<1>2. /\ last \in TickType /\ last \in Nat /\ e \in Nat /\ c \in Nat /\ age \in Nat
      /\ p \in Nat /\ p >= 1 /\ Wrap \in Nat /\ MaxLate \in Nat
      /\ next \in TickType /\ next \in Nat
  BY Fields, MinusType, PlusType, Bounds
<1>3. c = age - e
  BY <1>1, <1>2, Fields, MinusOfMinus
<1>4. /\ place \in {"due", "overflow", "current"}
      /\ place = "due" <=> c >= p
      /\ place = "current" => next = last + (p - c)
      /\ place = "overflow" => next + Wrap = last + (p - c)
  <2>1. place = Place(Plus(v, p), last, v, p)
    BY <1>1
  <2> QED
    BY <1>2, <2>1, PlaceOfItem
<1>5. x \in ItemType /\ x.timer = t /\ x.value = next
  BY <1>2 DEF Item, ItemType
<1>6. Now' = Now /\ Round' = Round /\ Round = 0 /\ Now = last + e
  BY <1>1, SameTime DEF Round, Now
<1>7. place # "due" => left'[t] = p - age
  OBVIOUS
<1> HIDE DEF last, e, c, age, next
<1>8. place = "current" => Fits(x, Round)'
  <2> SUFFICES ASSUME place = "current" PROVE Fits(x, 0)'
    BY <1>1 DEF Round
  <2>1. left'[t] = 0 + next - Now /\ 0 + next <= last + (Wrap - MaxLate - 2)
    BY <1>2, <1>3, <1>4, <1>6, <1>7
  <2> QED
    BY <1>5, <1>6, <2>1 DEF Fits, last
<1>9. place = "overflow" => Fits(x, Round + Wrap)'
  <2> SUFFICES ASSUME place = "overflow" PROVE Fits(x, 0 + Wrap)'
    BY <1>1 DEF Round
  <2>1. left'[t] = (0 + Wrap) + next - Now /\ (0 + Wrap) + next <= last + (Wrap - MaxLate - 2)
    BY <1>2, <1>3, <1>4, <1>6, <1>7
  <2> QED
    BY <1>5, <1>6, <2>1 DEF Fits, last
<1>10. /\ GoodList(pxCurrentTimerList)
       /\ x.timer \notin TimersIn(pxCurrentTimerList) /\ x.timer \notin TimersIn(pxOverflowTimerList)
       /\ \A u \in Timers \ {x.timer} :
             left'[u] = left[u] /\ (u \in isActive => u \in isActive')
       /\ x.timer \in isActive'
  BY <1>1, <1>5, ListsAreGood DEF IsListed
<1>11. Members(pxCurrentTimerList) \subseteq Members(pxCurrentTimerList)
  OBVIOUS
<1>12. /\ ListsInv'
       /\ \A u \in Timers \ {t} : IsListed(u)' => IsListed(u)
       /\ place = "due" => ~IsListed(t)'
  BY <1>4, <1>5, <1>6, <1>8, <1>9, <1>10, <1>11, ItemInserted
<1>13. place = "due" => age >= p
  BY <1>2, <1>3, <1>4
<1> QED
  BY <1>12, <1>13 DEF age

\* tmrCOMMAND_START and tmrCOMMAND_START_DONT_TRACE.
LEMMA HandleStartKeeps == ASSUME IInv, HandleStart PROVE IInv'
<1> USE DEF IInv
<1>0. PICK t, v, p, place, x :
         /\ t = daemon.msg.timer /\ v = daemon.msg.value /\ p = xTimerPeriodInTicks[t]
         /\ place = Place(Plus(v, p), daemon.xTimeNow, v, p) /\ x = Item(t, Plus(v, p))
  OBVIOUS
<1>1. /\ At("handle") /\ daemon.msg.command \in {"start", "restart"}
      /\ isActive' = isActive \cup {t} /\ Overtakes(t)
      /\ prvInsertTimerInActiveList(x, place, pxCurrentTimerList)
      /\ left' = [left EXCEPT ![t] =
             IF place # "due" THEN p - Minus(xTickCount, v)
             ELSE IF t \in uxAutoReload THEN (p - Minus(xTickCount, v)) + p ELSE Off]
      /\ daemon' = IF place = "due" /\ t \in uxAutoReload
                   THEN [daemon EXCEPT !.at = "restart", !.xTimeNow = 0] ELSE Handled
      /\ UNCHANGED <<xTickCount, xTimerPeriodInTicks, xTimerQueue>>
  BY <1>0 DEF HandleStart, Handle, ByCommand
<1>2. /\ daemon.after = "none" /\ daemon.reload = NoItem
      /\ daemon.msg # NoMessage /\ IsStart(daemon.msg) /\ ~IsListed(t)
      /\ Minus(xTickCount, daemon.xTimeNow) <= Minus(xTickCount, v)
  BY <1>0, <1>1 DEF HandInv, Handling, At, IsStart, AgeOf
<1>3. /\ t \in Timers /\ v \in TickType /\ p \in 1 .. Wrap - MaxLate - 2 /\ p \in Nat /\ p >= 1
      /\ Minus(xTickCount, v) \in Nat /\ Minus(xTickCount, v) < Wrap
      /\ Wrap \in Nat /\ Off = Wrap
  <2>1. t \in Timers /\ v \in TickType
    BY <1>0, <1>2, Fields, MessageFields
  <2>2. p \in 1 .. Wrap - MaxLate - 2
    BY <1>0, <2>1, Fields
  <2> QED
    BY <2>1, <2>2, Fields, MinusType, Bounds DEF Off
<1>4. /\ left' \in [Timers -> Int] /\ \A u \in Timers \ {t} : left'[u] = left[u]
      /\ left'[t] = IF place # "due" THEN p - Minus(xTickCount, v)
                    ELSE IF t \in uxAutoReload THEN (p - Minus(xTickCount, v)) + p ELSE Off
  <2> DEFINE n == IF place # "due" THEN p - Minus(xTickCount, v)
                  ELSE IF t \in uxAutoReload THEN (p - Minus(xTickCount, v)) + p ELSE Off
  <2>1. n \in Int
    BY <1>3
  <2> HIDE DEF n
  <2>2. left' = [left EXCEPT ![t] = n]
    BY <1>1 DEF n
  <2>3. left' \in [Timers -> Int] /\ (\A u \in Timers \ {t} : left'[u] = left[u]) /\ left'[t] = n
    BY <1>3, <2>1, <2>2 DEF TypeOK
  <2> QED
    BY <2>3 DEF n
<1>5. /\ daemon' \in DaemonType /\ daemon'.after = "none" /\ daemon'.reload = NoItem
      /\ daemon'.xLastTime = daemon.xLastTime
      /\ \/ /\ place = "due" /\ t \in uxAutoReload
            /\ daemon'.at = "restart" /\ daemon'.msg = daemon.msg
         \/ /\ ~(place = "due" /\ t \in uxAutoReload)
            /\ daemon'.at = "commands" /\ daemon'.msg = NoMessage
  <2>1. CASE place = "due" /\ t \in uxAutoReload
    BY <1>1, <1>2, <2>1, Bounds DEF TypeOK, DaemonType, Places
  <2>2. CASE ~(place = "due" /\ t \in uxAutoReload)
    BY <1>1, <1>2, <2>2, Bounds DEF Handled, Done, TypeOK, DaemonType, Places
  <2> QED
    BY <2>1, <2>2
<1>6. TypeOK'
  <2>1. overtaken' \subseteq Timers
    BY <1>1, <1>3 DEF Overtakes, TypeOK
  <2>2. pxCurrentTimerList' \in Seq(ItemType) /\ pxOverflowTimerList' \in Seq(ItemType)
    <3>1. x \in ItemType /\ x.timer = t
      BY <1>0, <1>3, PlusType DEF Item, ItemType
    <3>2. GoodList(Insert(pxCurrentTimerList, x)) /\ GoodList(Insert(pxOverflowTimerList, x))
      BY <1>2, <3>1, ListsAreGood, ListWithItem DEF IsListed
    <3> QED
      BY <1>1, <3>2 DEF prvInsertTimerInActiveList, GoodList, TypeOK
  <2> QED
    BY <1>1, <1>3, <1>4, <1>5, <2>1, <2>2 DEF TypeOK, DaemonType
<1>7. /\ ListsInv'
      /\ \A u \in Timers \ {t} : IsListed(u)' => IsListed(u)
      /\ place = "due" => ~IsListed(t)' /\ Minus(xTickCount, v) >= p
  <2>1. place # "due" => left'[t] = p - Minus(xTickCount, v)
    BY <1>4
  <2>2. /\ daemon'.after = daemon.after /\ daemon'.xLastTime = daemon.xLastTime
        /\ \A u \in Timers \ {t} : left'[u] = left[u]
        /\ t = daemon.msg.timer /\ x = Item(t, Plus(v, p))
        /\ place = Place(Plus(v, p), daemon.xTimeNow, v, p)
    BY <1>0, <1>2, <1>4, <1>5
  <2>3. /\ At("handle") /\ isActive' = isActive \cup {t} /\ UNCHANGED xTickCount
        /\ prvInsertTimerInActiveList(x, place, pxCurrentTimerList)
    BY <1>1
  <2> QED
    BY <1>2, <1>3, <1>6, <2>1, <2>2, <2>3, TimerStarted
<1>8. LateInv'
  <2> SUFFICES ASSUME NEW u \in Timers PROVE left'[u] > -Wrap
    BY DEF LateInv
  <2>1. left[u] > -Wrap
    BY DEF LateInv
  <2> DEFINE n == Minus(xTickCount, v)
  <2> HIDE DEF n
  <2>2. p - n > -Wrap /\ (p - n) + p > -Wrap /\ Wrap > -Wrap
    BY <1>3, Bounds DEF n
  <2> QED
    BY <1>3, <1>4, <2>1, <2>2 DEF n
<1>9. HandInv'
  <2>1. ~Handling'
    BY <1>5 DEF Handling
  <2>2. CASE daemon'.at = "restart" /\ place = "due" /\ t \in uxAutoReload /\ daemon'.msg = daemon.msg
    <3>1. /\ daemon'.msg.timer = t /\ daemon'.msg.value = v /\ ~IsListed(t)'
          /\ xTimerPeriodInTicks'[t] = p
      BY <1>0, <1>1, <1>7, <2>2
    <3>2. AgeOf(daemon.msg)' = Minus(xTickCount, v) /\ Minus(xTickCount, v) >= p
      BY <1>1, <1>7, <2>2, <3>1 DEF AgeOf
    <3>3. left'[t] = ByStart(daemon.msg)' + p
      BY <1>4, <2>2, <3>1, <3>2 DEF ByStart
    <3>4. daemon'.msg # NoMessage /\ IsStart(daemon.msg)'
      BY <1>2, <2>2 DEF IsStart
    <3> QED
      BY <1>5, <2>1, <2>2, <3>1, <3>2, <3>3, <3>4 DEF HandInv, At
  <2>3. CASE daemon'.at = "commands" /\ daemon'.msg = NoMessage
    BY <1>5, <2>1, <2>3 DEF HandInv, At
  <2> QED
    BY <1>5, <2>2, <2>3
<1>10. RestartInv'
  BY <1>0, <1>1, <1>4, <1>5, <1>7, RestartsWhenHandled
<1>11. SleepInv'
  BY <1>5 DEF SleepInv, At
<1> QED
  BY <1>6, <1>7, <1>8, <1>9, <1>10, <1>11

\* tmrCOMMAND_CHANGE_PERIOD: as if the timer was started just now.
LEMMA HandleChangePeriodKeeps == ASSUME IInv, HandleChangePeriod PROVE IInv'
<1> USE DEF IInv
<1>0. PICK t, v, p, place, x :
         /\ t = daemon.msg.timer /\ v = daemon.xTimeNow /\ p = daemon.msg.value
         /\ place = Place(Plus(v, p), daemon.xTimeNow, v, p) /\ x = Item(t, Plus(v, p))
  OBVIOUS
<1>1. /\ At("handle") /\ daemon.msg.command = "changePeriod"
      /\ isActive' = isActive \cup {t} /\ Overtakes(t)
      /\ prvInsertTimerInActiveList(x, place, pxCurrentTimerList)
      /\ left' = [left EXCEPT ![t] = p - Minus(xTickCount, v)]
      /\ xTimerPeriodInTicks' = [xTimerPeriodInTicks EXCEPT ![t] = p]
      /\ daemon' = Handled /\ UNCHANGED <<xTickCount, xTimerQueue>>
  BY <1>0 DEF HandleChangePeriod, Handle
<1>2. /\ daemon.after = "none" /\ daemon.reload = NoItem
      /\ daemon.msg # NoMessage /\ ~IsListed(t)
  BY <1>0, <1>1 DEF HandInv, Handling, At
<1>3. /\ t \in Timers /\ v \in TickType /\ p \in 1 .. Wrap - MaxLate - 2 /\ p \in Nat /\ p >= 1
      /\ Minus(xTickCount, v) \in Nat /\ Minus(xTickCount, v) < Wrap
      /\ Wrap \in Nat /\ Off = Wrap
  <2>1. t \in Timers /\ v \in TickType
    BY <1>0, <1>2, Fields, MessageFields
  <2>2. p \in 1 .. Wrap - MaxLate - 2
    BY <1>0, <1>1, <1>2, Fields, MessageFields, TimerAssumption
  <2> QED
    BY <2>1, <2>2, Fields, MinusType, Bounds DEF Off
<1>4. /\ left' \in [Timers -> Int] /\ left'[t] = p - Minus(xTickCount, v)
      /\ xTimerPeriodInTicks' \in [Timers -> 1 .. Wrap - MaxLate - 2]
      /\ \A u \in Timers \ {t} : /\ left'[u] = left[u]
                                 /\ xTimerPeriodInTicks'[u] = xTimerPeriodInTicks[u]
  <2> DEFINE n == p - Minus(xTickCount, v)
  <2>1. n \in Int
    BY <1>3
  <2> HIDE DEF n
  <2>2. left' = [left EXCEPT ![t] = n]
    BY <1>1 DEF n
  <2>3. left' \in [Timers -> Int] /\ (\A u \in Timers \ {t} : left'[u] = left[u]) /\ left'[t] = n
    BY <1>3, <2>1, <2>2 DEF TypeOK
  <2>4. /\ xTimerPeriodInTicks' \in [Timers -> 1 .. Wrap - MaxLate - 2]
        /\ \A u \in Timers \ {t} : xTimerPeriodInTicks'[u] = xTimerPeriodInTicks[u]
    BY <1>1, <1>3 DEF TypeOK
  <2> QED
    BY <2>3, <2>4 DEF n
<1>5. /\ daemon' \in DaemonType /\ daemon'.after = "none" /\ daemon'.reload = NoItem
      /\ daemon'.xLastTime = daemon.xLastTime
      /\ daemon'.at = "commands" /\ daemon'.msg = NoMessage
  BY <1>1, <1>2, Bounds DEF Handled, Done, TypeOK, DaemonType, Places
<1>6. TypeOK'
  <2>1. overtaken' \subseteq Timers
    BY <1>1, <1>3 DEF Overtakes, TypeOK
  <2>2. pxCurrentTimerList' \in Seq(ItemType) /\ pxOverflowTimerList' \in Seq(ItemType)
    <3>1. x \in ItemType /\ x.timer = t
      BY <1>0, <1>3, PlusType DEF Item, ItemType
    <3>2. GoodList(Insert(pxCurrentTimerList, x)) /\ GoodList(Insert(pxOverflowTimerList, x))
      BY <1>2, <3>1, ListsAreGood, ListWithItem DEF IsListed
    <3> QED
      BY <1>1, <3>2 DEF prvInsertTimerInActiveList, GoodList, TypeOK
  <2> QED
    BY <1>1, <1>3, <1>4, <1>5, <2>1, <2>2 DEF TypeOK, DaemonType
<1>7. ListsInv' /\ \A u \in Timers \ {t} : IsListed(u)' => IsListed(u)
  <2>1. /\ place # "due" => left'[t] = p - Minus(xTickCount, v)
        /\ daemon'.after = daemon.after /\ daemon'.xLastTime = daemon.xLastTime
        /\ Minus(xTickCount, daemon.xTimeNow) <= Minus(xTickCount, v)
        /\ \A u \in Timers \ {t} : left'[u] = left[u]
    BY <1>0, <1>2, <1>3, <1>4, <1>5
  <2> QED
    BY <1>0, <1>1, <1>3, <1>6, <2>1, TimerStarted
<1>8. LateInv'
  <2> SUFFICES ASSUME NEW u \in Timers PROVE left'[u] > -Wrap
    BY DEF LateInv
  <2>1. left[u] > -Wrap
    BY DEF LateInv
  <2> DEFINE n == Minus(xTickCount, v)
  <2> HIDE DEF n
  <2>2. p - n > -Wrap
    BY <1>3, Bounds DEF n
  <2> QED
    BY <1>3, <1>4, <2>1, <2>2 DEF n
<1>9. HandInv'
  BY <1>5 DEF HandInv, Handling, At
<1>10. RestartInv'
  BY <1>0, <1>1, <1>4, <1>5, <1>7, RestartsWhenHandled
<1>11. SleepInv'
  BY <1>5 DEF SleepInv, At
<1> QED
  BY <1>6, <1>7, <1>8, <1>9, <1>10, <1>11
-------------------------------------------------------------------------------
\* The invariant, and what it says.

LEMMA StutterKeeps == ASSUME IInv, UNCHANGED vars PROVE IInv'
<1>1. UNCHANGED <<xTickCount, isActive, xTimerPeriodInTicks, pxCurrentTimerList,
                  pxOverflowTimerList, xTimerQueue, daemon, left, overtaken>>
  BY DEF vars, status, lists, history
<1> USE DEF IInv
<1>2. TypeOK'
  BY <1>1 DEF TypeOK
<1>3. ListsInv' /\ LateInv' /\ SleepInv'
  BY <1>1 DEF ListsInv, LateInv, SleepInv, Fits, Apart, InOrder, TimersIn, Members, IsListed,
     Now, Round, At
<1>4. HandInv'
  BY <1>1 DEF HandInv, Handling, At, IsListed, TimersIn, Members, Now, AgeOf, ByStart
<1>5. RestartInv'
  BY <1>1 DEF RestartInv, RestartWaits, RestartInHand, Handling, At, IsListed, TimersIn,
     Members, AgeOf, ByStart
<1> QED
  BY <1>2, <1>3, <1>4, <1>5

\* Every step of the daemon, of the tick and of those who post commands keeps the
\* invariant of the schedule.
THEOREM TimerInvariant == Spec => []IInv
<1>1. Init => IInv
  BY InitHolds
<1>2. IInv /\ [Next]_vars => IInv'
  <2> SUFFICES ASSUME IInv, [Next]_vars PROVE IInv'
    OBVIOUS
  <2>1. CASE DaemonStep
    BY <2>1, ProcessTimerOrBlockKeeps, ProcessExpiredTimerKeeps, SwitchCallbackKeeps,
       SwitchReloadKeeps, SwitchListsKeeps, ReceiveCommandKeeps, NoMoreCommandsKeeps,
       HandleStartKeeps, RestartKeeps, HandleStopKeeps, HandleChangePeriodKeeps
    DEF DaemonStep
  <2>2. CASE Tick
    BY <2>2, TickKeeps
  <2>3. CASE \E t \in Timers : Post(t)
    BY <2>3, PostKeeps
  <2>4. CASE UNCHANGED vars
    BY <2>4, StutterKeeps
  <2> QED
    BY <2>1, <2>2, <2>3, <2>4 DEF Next
<1> QED
  BY <1>1, <1>2, PTL DEF Spec

\* The two lists as one.
LEMMA ListedItems ==
    ASSUME TypeOK, ListsInv
    PROVE  LET a == pxCurrentTimerList
               b == pxOverflowTimerList
           IN  /\ Len(a) \in Nat /\ Len(b) \in Nat /\ DOMAIN Listed = 1 .. Len(a) + Len(b)
               /\ \A i \in DOMAIN Listed :
                     \/ i \in DOMAIN a /\ i <= Len(a) /\ Listed[i] = a[i]
                     \/ i > Len(a) /\ i - Len(a) \in DOMAIN b /\ Listed[i] = b[i - Len(a)]
<1> DEFINE a == pxCurrentTimerList
           b == pxOverflowTimerList
<1>1. a \in Seq(ItemType) /\ b \in Seq(ItemType)
  BY DEF TypeOK
<1>2. /\ Len(a) \in Nat /\ Len(b) \in Nat /\ DOMAIN a = 1 .. Len(a) /\ DOMAIN b = 1 .. Len(b)
  BY <1>1
<1>3. /\ DOMAIN Listed = 1 .. Len(a) + Len(b)
      /\ \A i \in 1 .. Len(a) + Len(b) : Listed[i] = IF i <= Len(a) THEN a[i] ELSE b[i - Len(a)]
  <2>1. a \o b \in Seq(ItemType) /\ Len(a \o b) = Len(a) + Len(b)
    BY <1>1, ConcatProperties
  <2>2. DOMAIN (a \o b) = 1 .. Len(a) + Len(b)
    BY <2>1
  <2> QED
    BY <1>1, <2>2, ConcatProperties DEF Listed
<1> HIDE DEF a, b
<1>4. ASSUME NEW i \in 1 .. Len(a) + Len(b)
      PROVE  \/ i \in 1 .. Len(a) /\ i <= Len(a) /\ Listed[i] = a[i]
             \/ i > Len(a) /\ i - Len(a) \in 1 .. Len(b) /\ Listed[i] = b[i - Len(a)]
  <2>1. Listed[i] = IF i <= Len(a) THEN a[i] ELSE b[i - Len(a)]
    BY <1>3
  <2>2. \/ i \in 1 .. Len(a) /\ i <= Len(a)
        \/ i > Len(a) /\ i - Len(a) \in 1 .. Len(b) /\ ~(i <= Len(a))
    BY <1>2
  <2> QED
    BY <2>1, <2>2
<1> QED
  BY <1>2, <1>3, <1>4 DEF a, b

\* An item's value is the tick count at which what is left of its timer has passed.
LEMMA ValueOfItem ==
    ASSUME TypeOK, NEW v \in TickType, NEW l \in Int, NEW r \in {-Wrap, 0, Wrap},
           l = r + v - Now, l > -Wrap
    PROVE  v = Plus(xTickCount, l)
<1>1. /\ v \in Nat /\ v < Wrap /\ xTickCount \in Nat /\ xTickCount < Wrap
      /\ Wrap \in Nat \ {0} /\ -Wrap \in Int
  BY Fields, Bounds
<1>2. Now = xTickCount \/ Now = xTickCount + Wrap
  BY NowIs
<1> DEFINE x == xTickCount + l
<1>3. x \in Int /\ x > -Wrap /\ x \in {v - Wrap - Wrap, v - Wrap, v, v + Wrap}
  BY <1>1, <1>2
<1> HIDE DEF x
<1>4. x % Wrap = v
  <2>1. CASE x = v - Wrap - Wrap
    BY <1>1, <1>3, <2>1
  <2>2. CASE x = v - Wrap
    <3>1. -Wrap <= x /\ x < 0
      BY <1>1, <1>3, <2>2
    <3>2. x % Wrap = x + Wrap
      BY <1>1, <1>3, <3>1, ModOfNegative
    <3> QED
      BY <1>1, <1>3, <2>2, <3>2
  <2>3. CASE x = v
    BY <1>1, <2>3, ModOfSmall
  <2>4. CASE x = v + Wrap
    <3>1. x \in Nat /\ Wrap <= x /\ x < Wrap + Wrap
      BY <1>1, <2>4
    <3>2. x % Wrap = x - Wrap
      BY <1>1, <3>1, ModOfOneWrap
    <3> QED
      BY <1>1, <2>4, <3>2
  <2> QED
    BY <1>3, <2>1, <2>2, <2>3, <2>4
<1> QED
  BY <1>4 DEF x, Plus

\* The lists are one schedule across the wrap of the tick count, for every width of it,
\* every number of timers and every period.
THEOREM ScheduleIsKept == Spec => []ScheduleKept
<1>1. IInv => ScheduleKept
  <2> SUFFICES ASSUME IInv PROVE ScheduleKept
    OBVIOUS
  <2> USE DEF IInv
  <2> DEFINE a == pxCurrentTimerList
             b == pxOverflowTimerList
             n == Len(a)
  <2>1. /\ n \in Nat /\ Len(b) \in Nat /\ DOMAIN Listed = 1 .. n + Len(b)
        /\ \A i \in DOMAIN Listed :
              \/ i \in DOMAIN a /\ i <= n /\ Listed[i] = a[i]
              \/ i > n /\ i - n \in DOMAIN b /\ Listed[i] = b[i - n]
    BY ListedItems
  <2>2. /\ Wrap \in Nat /\ Now \in Nat /\ Round \in Int
        /\ Round \in {-Wrap, 0, Wrap} /\ Round + Wrap \in {-Wrap, 0, Wrap}
    BY RoundIs, NowIs, Bounds
  \* Each item, with the round it expires in.
  <2>3. ASSUME NEW item \in Members(a) \cup Members(b), NEW r \in {Round, Round + Wrap},
               Fits(item, r)
        PROVE  /\ item.value = Plus(xTickCount, left[item.timer]) /\ item.timer \in isActive
               /\ left[item.timer] = r + item.value - Now
               /\ item.value \in Nat /\ item.value < Wrap
    <3>1. /\ item.timer \in Timers /\ item.value \in TickType /\ IsListed(item.timer)
          /\ item.value \in Nat /\ item.value < Wrap
      BY ListsAreGood
    <3>2. left[item.timer] = r + item.value - Now
      BY <2>3 DEF Fits
    <3>3. left[item.timer] \in Int /\ left[item.timer] > -Wrap
      BY <3>1, Fields DEF LateInv
    <3>4. r \in {-Wrap, 0, Wrap}
      BY <2>2
    <3>5. item.value = Plus(xTickCount, left[item.timer])
      BY <3>1, <3>2, <3>3, <3>4, ValueOfItem
    <3> QED
      BY <3>1, <3>2, <3>5 DEF ListsInv
  <2>4. \A i \in DOMAIN a : /\ a[i] \in Members(a) /\ Fits(a[i], Round)
                            /\ a[i].timer \in TimersIn(a)
    BY DEF ListsInv, Members, TimersIn
  <2>5. \A i \in DOMAIN b : /\ b[i] \in Members(b) /\ Fits(b[i], Round + Wrap)
                            /\ b[i].timer \in TimersIn(b)
    BY DEF ListsInv, Members, TimersIn
  <2>6. \A i \in DOMAIN a : /\ a[i].value = Plus(xTickCount, left[a[i].timer])
                            /\ a[i].timer \in isActive
                            /\ left[a[i].timer] = Round + a[i].value - Now
                            /\ a[i].value \in Nat /\ a[i].value < Wrap
    BY <2>3, <2>4
  <2>7. \A i \in DOMAIN b : /\ b[i].value = Plus(xTickCount, left[b[i].timer])
                            /\ b[i].timer \in isActive
                            /\ left[b[i].timer] = (Round + Wrap) + b[i].value - Now
                            /\ b[i].value \in Nat /\ b[i].value < Wrap
    BY <2>3, <2>5
  <2>8. /\ \A i, j \in DOMAIN a : i < j => a[i].value <= a[j].value
        /\ \A i, j \in DOMAIN a : a[i].timer = a[j].timer => i = j
        /\ \A i, j \in DOMAIN b : i < j => b[i].value <= b[j].value
        /\ \A i, j \in DOMAIN b : b[i].timer = b[j].timer => i = j
        /\ TimersIn(a) \cap TimersIn(b) = {}
    BY DEF ListsInv, Apart, InOrder
  <2> HIDE DEF a, b, n
  <2>9. ASSUME NEW i \in DOMAIN Listed
        PROVE  /\ Listed[i].value = Plus(xTickCount, left[Listed[i].timer])
               /\ Listed[i].timer \in isActive
    BY <2>1, <2>6, <2>7
  <2>10. ASSUME NEW i \in DOMAIN Listed, NEW j \in DOMAIN Listed, i < j
         PROVE  /\ Listed[i].timer # Listed[j].timer
                /\ left[Listed[i].timer] <= left[Listed[j].timer]
    <3>1. i \in Nat /\ j \in Nat
      BY <2>1
    <3>2. CASE j \in DOMAIN a /\ j <= n /\ Listed[j] = a[j]
      <4>1. i \in DOMAIN a /\ Listed[i] = a[i]
        BY <2>1, <2>10, <3>1, <3>2
      <4>2. a[i].value <= a[j].value /\ a[i].timer # a[j].timer
        BY <2>8, <2>10, <3>1, <3>2, <4>1
      <4> QED
        BY <2>2, <2>6, <3>2, <4>1, <4>2
    <3>3. CASE j > n /\ j - n \in DOMAIN b /\ Listed[j] = b[j - n]
      <4>1. CASE i \in DOMAIN a /\ i <= n /\ Listed[i] = a[i]
        <5>1. a[i].timer # b[j - n].timer
          BY <2>4, <2>5, <2>8, <3>3, <4>1
        <5>2. /\ left[a[i].timer] = Round + a[i].value - Now
              /\ a[i].value \in Nat /\ a[i].value < Wrap
          BY <2>6, <4>1
        <5>3. /\ left[b[j - n].timer] = (Round + Wrap) + b[j - n].value - Now
              /\ b[j - n].value \in Nat
          BY <2>7, <3>3
        <5> QED
          BY <2>2, <3>3, <4>1, <5>1, <5>2, <5>3
      <4>2. CASE i > n /\ i - n \in DOMAIN b /\ Listed[i] = b[i - n]
        <5> DEFINE k == i - n
                   l == j - n
        <5>1. k < l /\ k # l
          BY <2>1, <2>10, <3>1
        <5>2. k \in DOMAIN b /\ l \in DOMAIN b /\ Listed[i] = b[k] /\ Listed[j] = b[l]
          BY <3>3, <4>2
        <5> HIDE DEF k, l
        <5>3. b[k].value <= b[l].value /\ b[k].timer # b[l].timer
          BY <2>8, <5>1, <5>2
        <5> QED
          BY <2>2, <2>7, <5>2, <5>3
      <4> QED
        BY <2>1, <4>1, <4>2
    <3> QED
      BY <2>1, <3>2, <3>3
  <2> QED
    BY <2>9, <2>10 DEF ScheduleKept
<1> QED
  BY <1>1, TimerInvariant, PTL

\* While it waits for a command, the daemon wakes up in time for every timer, in either
\* list and across the wrap.
THEOREM DaemonNeverOversleeps == Spec => []NeverOversleeps
<1>1. IInv => NeverOversleeps
  <2> SUFFICES ASSUME IInv, At("blocked"), Listed # <<>>
               PROVE  /\ daemon.wait # Forever
                      /\ \A i \in DOMAIN Listed : daemon.wait <= left[Listed[i].timer]
    BY DEF NeverOversleeps
  <2> USE DEF IInv
  <2>1. ASSUME NEW i \in DOMAIN Listed
        PROVE  Listed[i].timer \in Timers /\ IsListed(Listed[i].timer)
    <3>1. Listed[i] \in Members(pxCurrentTimerList) \cup Members(pxOverflowTimerList)
      BY ListedItems DEF Members
    <3> QED
      BY <3>1, ListsAreGood
  <2>2. 1 \in DOMAIN Listed
    <3>1. Listed \in Seq(ItemType)
      BY ConcatProperties DEF TypeOK, Listed
    <3> QED
      BY <3>1, EmptySeq
  <2> QED
    BY <2>1, <2>2 DEF SleepInv
<1> QED
  BY <1>1, TimerInvariant, PTL

\* The starts by which the daemon catches up keep a periodic timer on its old schedule,
\* however many periods it has missed.
THEOREM PeriodsAreKept == Spec => []KeepsPeriod
<1>1. IInv => KeepsPeriod
  <2> SUFFICES ASSUME IInv, Handle({"restart"}), daemon.msg.timer \notin overtaken
               PROVE  left[daemon.msg.timer] = ByCommand
    BY DEF KeepsPeriod
  <2> USE DEF IInv
  <2>1. Handling /\ daemon.msg.command = "restart"
    BY DEF Handle, Handling, At
  <2>2. daemon.msg.timer \in Timers
    BY <2>1, Fields, MessageFields DEF HandInv
  <2>3. RestartInHand(daemon.msg.timer)
    BY <2>2 DEF RestartInv
  <2> QED
    BY <2>1, <2>3 DEF RestartInHand, IsRestart, ByStart, ByCommand, AgeOf
<1> QED
  BY <1>1, TimerInvariant, PTL

\* A callback runs only when its timer is due.
LEMMA CallbackIsDue ==
    ASSUME IInv, NEW t \in Timers, RunsCallback(t) PROVE Time(t) <= 0
<1> USE DEF IInv
<1>1. CASE ProcessExpiredTimer /\ t = Head(pxCurrentTimerList).timer
  <2> DEFINE value == Head(pxCurrentTimerList).value
  <2>1. /\ daemon.at = "expired" /\ daemon.after = "none" /\ pxCurrentTimerList # <<>>
        /\ value <= daemon.xLastTime
    BY <1>1 DEF ProcessExpiredTimer, HandInv, At
  <2>2. Head(pxCurrentTimerList) \in Members(pxCurrentTimerList) /\ value \in Nat
    BY <2>1, ListsAreGood, TailOfList
  <2>3. left[t] = 0 + value - Now
    BY <1>1, <2>1, <2>2 DEF ListsInv, Fits, Round
  <2> HIDE DEF value
  <2>4. left[t] <= 0
    BY <2>1, <2>2, <2>3, NowIs
  <2> QED
    BY <2>1, <2>4 DEF Time, At
<1>2. CASE SwitchCallback /\ t = Head(pxCurrentTimerList).timer
  <2> DEFINE value == Head(pxCurrentTimerList).value
  <2>1. daemon.at = "switch" /\ daemon.after # "none" /\ pxCurrentTimerList # <<>>
    BY <1>2 DEF SwitchCallback, HandInv, At
  <2>2. /\ Head(pxCurrentTimerList) \in Members(pxCurrentTimerList)
        /\ value \in Nat /\ value < Wrap
    BY <2>1, ListsAreGood, TailOfList
  <2>3. left[t] = -Wrap + value - Now
    BY <1>2, <2>1, <2>2 DEF ListsInv, Fits, Round
  <2> HIDE DEF value
  <2>4. left[t] <= 0
    BY <2>2, <2>3, NowIs, Bounds
  <2> QED
    BY <2>1, <2>4 DEF Time, At
<1>3. CASE /\ HandleStart /\ t = daemon.msg.timer
           /\ left'[t] = IF t \in uxAutoReload THEN ByCommand + xTimerPeriodInTicks[t] ELSE Off
  <2> DEFINE v     == daemon.msg.value
             p     == xTimerPeriodInTicks[t]
             now   == daemon.xTimeNow
             place == Place(Plus(v, p), now, v, p)
             age   == Minus(xTickCount, v)
             e     == Minus(xTickCount, now)
             c     == Minus(now, v)
  <2>1. /\ daemon.at = "handle" /\ daemon.msg # NoMessage /\ e <= age
        /\ daemon.msg \in MessageType
    BY <1>3, Fields DEF HandleStart, Handle, HandInv, Handling, At, IsStart, AgeOf
  <2>2. /\ v \in TickType /\ now \in TickType /\ p \in 1 .. Wrap - MaxLate - 2
        /\ p \in Nat /\ p >= 1 /\ p < Wrap /\ Wrap \in Nat
    BY <1>3, <2>1, Fields, MessageFields, Bounds
  <2>3. age \in Nat /\ e \in Nat /\ c \in Nat /\ c = age - e
    BY <2>1, <2>2, Fields, MinusType, MinusOfMinus
  <2>4. place = "due" <=> c >= p
    BY <2>2, PlaceOfItem
  <2>5. ByCommand = p - age
    BY <1>3 DEF ByCommand
  <2>6. left'[t] = IF place # "due" THEN ByCommand
                   ELSE IF t \in uxAutoReload THEN ByCommand + p ELSE Off
    BY <1>3 DEF HandleStart, TypeOK
  <2> HIDE DEF v, p, now, place, age, e, c
  <2>7. left'[t] = IF t \in uxAutoReload THEN ByCommand + p ELSE Off
    BY <1>3 DEF p
  <2>8. ByCommand \in Int /\ ByCommand # ByCommand + p /\ ByCommand # Off
    BY <2>2, <2>3, <2>5 DEF Off
  <2>9. place = "due"
    BY <2>6, <2>7, <2>8
  <2>10. ByCommand <= 0
    BY <2>2, <2>3, <2>4, <2>5, <2>9
  <2> QED
    BY <2>1, <2>10 DEF Time, At
<1> QED
  BY <1>1, <1>2, <1>3 DEF RunsCallback

\* No callback runs early, however late its command is handled - up to MaxLate ticks -
\* and wherever the tick count wraps.
THEOREM CallbacksAreNeverEarly == Spec => NeverEarly
<1> DEFINE Due == \A t \in Timers : RunsCallback(t) => Time(t) <= 0
<1>1. IInv /\ [Next]_vars => [Due]_vars
  BY CallbackIsDue
<1>2. Spec => [][Due]_vars
  <2> HIDE DEF Due
  <2> QED
    BY <1>1, TimerInvariant, PTL DEF Spec
<1> QED
  BY <1>2 DEF NeverEarly
===============================================================================
