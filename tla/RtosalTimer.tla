----------------------------- MODULE RtosalTimer -----------------------------
(***************************************************************************)
(* The software timers of the RTOS abstraction layer (rtosal_time.c) over  *)
(* timers.c: the commands that tasks, interrupts and callbacks post to the *)
(* queue of the timer daemon, the daemon's two sorted lists of timers,     *)
(* their switch when the tick count wraps, expiry, automatic reload and    *)
(* its catching up on periods that were missed.                            *)
(*                                                                         *)
(* A step of the daemon ends where another task or an interrupt can post a *)
(* command that makes a difference, or where a callback runs; what the     *)
(* callback posts is posted by Post just after the step.                   *)
(***************************************************************************)
EXTENDS RtosLists, SequencesExt

CONSTANTS
    Timers,
    NoTimer,
    uxAutoReload,                \* the timers that reload
    InitialPeriod,               \* [timer -> the period it is created with]
    NewPeriods,                  \* periods it is changed to
    Services,                    \* [timer -> the commands the application posts]
    configTIMER_QUEUE_LENGTH,
    Wrap,                        \* the tick count wraps: at 2^32 in the code
    MaxLate                      \* bound: ticks by which the daemon lags behind

TickType   == 0 .. Wrap - 1
Plus(a, b)  == (a + b) % Wrap
Minus(a, b) == (a - b) % Wrap

ASSUME TimerAssumption ==
    /\ NoTimer \notin Timers /\ uxAutoReload \subseteq Timers
    /\ Wrap \in Nat /\ MaxLate \in Nat \ {0} /\ Wrap > MaxLate + 2
    /\ NewPeriods \subseteq 1 .. Wrap - MaxLate - 2
    /\ InitialPeriod \in [Timers -> 1 .. Wrap - MaxLate - 2]
    /\ Services \in [Timers -> SUBSET {"start", "stop", "changePeriod", "delete"}]
    /\ configTIMER_QUEUE_LENGTH \in Nat \ {0}

VARIABLES
    xTickCount,
    isActive,              \* the timers with tmrSTATUS_IS_ACTIVE
    xTimerPeriodInTicks,   \* [Timers -> the period]
    pxCurrentTimerList,    \* the list items [timer, value: expiry time] of those
    pxOverflowTimerList,   \*   that expire before and after the tick count wraps
    xTimerQueue,           \* the commands posted to the daemon
    daemon,                \* where the daemon is, and its local variables
    left,                  \* history: ticks until the timer ought to expire
    overtaken              \* history: timers with a command handled while one of
                           \*   the daemon's own was on its way behind it

lists   == <<pxCurrentTimerList, pxOverflowTimerList>>
status  == <<isActive, xTimerPeriodInTicks>>
history == <<left, overtaken>>
vars    == <<xTickCount, status, lists, xTimerQueue, daemon, history>>

Off     == Wrap          \* left of a timer that does not run
Forever == -1

Message(c, t, v) == [command |-> c, timer |-> t, value |-> v]
NoMessage == Message("none", NoTimer, 0)

Item(t, v) == [timer |-> t, value |-> v]
NoItem     == Item(NoTimer, 0)

\* tmrCOMMAND_START_DONT_TRACE, which the daemon posts to itself, is "restart".
IsStart(m) == m.command \in {"start", "restart"}

Init ==
    /\ xTickCount = 0
    /\ isActive = {}
    /\ xTimerPeriodInTicks = InitialPeriod
    /\ pxCurrentTimerList = <<>> /\ pxOverflowTimerList = <<>>
    /\ xTimerQueue = <<>>
    /\ daemon = [at |-> "process", xLastTime |-> 0, xTimeNow |-> 0, wait |-> 0,
                 msg |-> NoMessage, after |-> "none", reload |-> NoItem]
    /\ left = [t \in Timers |-> Off]
    /\ overtaken = {}

At(place) == daemon.at = place
-------------------------------------------------------------------------------
(***************************************************************************)
(* rtosTimerStart, rtosTimerStop, rtosTimerModifyPeriod, rtosTimerDestroy, *)
(* from a task, a callback or an interrupt: xTimerGenericCommand.  It      *)
(* fails when the queue is full.  rtosTimerStart reads the tick count      *)
(* first: a caller that is preempted before it posts posts an old one.     *)
(***************************************************************************)
HasRoom == Len(xTimerQueue) < configTIMER_QUEUE_LENGTH

\* A message ends the daemon's wait for one.
Woken(d) == IF d.at = "blocked" THEN [d EXCEPT !.at = "commands", !.wait = 0] ELSE d

\* Bound: the tick count of a start is at most MaxLate ticks old.
Parameters(c) ==
    CASE c = "start" -> {Minus(xTickCount, age) : age \in 0 .. MaxLate}
      [] c = "changePeriod" -> NewPeriods
      [] OTHER -> {0}

Post(t) ==
    /\ HasRoom /\ ~At("halted")
    /\ \E c \in Services[t] : \E v \in Parameters(c) :
           xTimerQueue' = Append(xTimerQueue, Message(c, t, v))
    /\ daemon' = Woken(daemon)
    /\ UNCHANGED <<xTickCount, status, lists, history>>
-------------------------------------------------------------------------------
\* vListInsert: behind the items of the same value.
Insert(list, item) ==
    LET i == SelectInSeq(list, LAMBDA j : j.value > item.value)
    IN  IF i = 0 THEN Append(list, item) ELSE InsertAt(list, i, item)

\* prvInsertTimerInActiveList: which list, or neither and the timer is due at once.
\* Both comparisons allow for a wrap between the command and now.
\* Mutant: a wrap between the command and now makes every timer due.
PlaceWrapDue(next, now, command, period) ==
    IF next <= now
    THEN IF Minus(now, command) >= period THEN "due" ELSE "overflow"
    ELSE IF now < command THEN "due" ELSE "current"

\* Mutant: a wrap between the command and now is not noticed.
PlaceNoWrap(next, now, command, period) ==
    IF next <= now
    THEN IF Minus(now, command) >= period THEN "due" ELSE "overflow"
    ELSE "current"

Place(next, now, command, period) ==
    IF next <= now
    THEN IF Minus(now, command) >= period THEN "due" ELSE "overflow"
    ELSE IF now < command /\ next >= command THEN "due" ELSE "current"

prvInsertTimerInActiveList(item, place, current) ==
    /\ pxCurrentTimerList' = IF place = "current" THEN Insert(current, item) ELSE current
    /\ pxOverflowTimerList' = IF place = "overflow" THEN Insert(pxOverflowTimerList, item)
                              ELSE pxOverflowTimerList

\* Mutant: the old schedule is given up.
PostRestartNow(t, value, d) ==
    /\ xTimerQueue' = IF HasRoom THEN Append(xTimerQueue, Message("restart", t, xTickCount))
                      ELSE xTimerQueue
    /\ daemon' = IF HasRoom THEN d ELSE [d EXCEPT !.at = "halted"]

\* The daemon posts to itself and goes on; it asserts that there is room.
PostRestart(t, value, d) ==
    /\ xTimerQueue' = IF HasRoom THEN Append(xTimerQueue, Message("restart", t, value))
                      ELSE xTimerQueue
    /\ daemon' = IF HasRoom THEN d ELSE [d EXCEPT !.at = "halted"]

\* The callback of t runs: the next one is due a period later, or none is.
Expire(t) ==
    left' = [left EXCEPT ![t] = IF t \in uxAutoReload THEN @ + xTimerPeriodInTicks[t] ELSE Off]
-------------------------------------------------------------------------------
(***************************************************************************)
(* The daemon: prvTimerTask.                                               *)
(***************************************************************************)
\* prvSampleTimeNow: the count has wrapped if it is less than at the last look.
\* Mutant: the lists never change places.
WrapUnnoticed == FALSE

Wrapped == xTickCount < daemon.xLastTime
Looked  == [daemon EXCEPT !.xLastTime = xTickCount]
Sampled == [Looked EXCEPT !.xTimeNow = xTickCount]

\* The sample is a local variable: it is forgotten when its function returns.
Done == [daemon EXCEPT !.at = "commands", !.xTimeNow = 0]

NextExpireTime == IF pxCurrentTimerList = <<>> THEN 0 ELSE Head(pxCurrentTimerList).value

\* Mutant: timers that expire behind the wrap are not waited for.
WaitForCurrent ==
    IF pxCurrentTimerList = <<>> THEN Forever ELSE Minus(NextExpireTime, xTickCount)

\* How long the daemon waits for a command; a wait of 0 ticks ends with the next one.
TicksToWait ==
    IF pxCurrentTimerList = <<>> /\ pxOverflowTimerList = <<>> THEN Forever
    ELSE Max({1, Minus(NextExpireTime, xTickCount)})

\* prvGetNextExpireTime and prvProcessTimerOrBlockTask.  The queue is looked at again
\* with the scheduler suspended before the daemon blocks.
ProcessTimerOrBlock ==
    /\ At("process")
    /\ UNCHANGED <<xTickCount, status, lists, xTimerQueue, history>>
    /\ \/ /\ Wrapped
          /\ daemon' = [Looked EXCEPT !.at = "switch", !.after = "commands"]
       \/ /\ ~Wrapped /\ pxCurrentTimerList # <<>> /\ NextExpireTime <= xTickCount
          /\ daemon' = [Sampled EXCEPT !.at = "expired"]
       \/ /\ ~Wrapped /\ (pxCurrentTimerList = <<>> \/ NextExpireTime > xTickCount)
          /\ daemon' = IF xTimerQueue # <<>> THEN [Looked EXCEPT !.at = "commands"]
                       ELSE [Looked EXCEPT !.at = "blocked", !.wait = TicksToWait]

\* prvProcessExpiredTimer
ProcessExpiredTimer ==
    LET t     == Head(pxCurrentTimerList).timer
        value == Head(pxCurrentTimerList).value
        rest  == Tail(pxCurrentTimerList)
        next  == Plus(value, xTimerPeriodInTicks[t])
        place == Place(next, daemon.xTimeNow, value, xTimerPeriodInTicks[t])
    IN  /\ At("expired")
        /\ Expire(t)
        /\ UNCHANGED <<xTickCount, xTimerPeriodInTicks, overtaken>>
        /\ \/ /\ t \in uxAutoReload
              /\ prvInsertTimerInActiveList(Item(t, next), place, rest)
              /\ IF place = "due" THEN PostRestart(t, value, Done)
                 ELSE daemon' = Done /\ UNCHANGED xTimerQueue
              /\ UNCHANGED isActive
           \/ /\ t \notin uxAutoReload
              /\ isActive' = isActive \ {t}
              /\ pxCurrentTimerList' = rest
              /\ daemon' = Done
              /\ UNCHANGED <<pxOverflowTimerList, xTimerQueue>>

\* prvSwitchTimerLists: the timers still in the current list expire, one by one, and
\* then the lists change places.
SwitchCallback ==
    LET item == Head(pxCurrentTimerList)
    IN  /\ At("switch") /\ pxCurrentTimerList # <<>>
        /\ Expire(item.timer)
        /\ pxCurrentTimerList' = Tail(pxCurrentTimerList)
        /\ daemon' = [daemon EXCEPT !.at = "switchReload", !.reload = item]
        /\ UNCHANGED <<xTickCount, status, pxOverflowTimerList, xTimerQueue, overtaken>>

SwitchReload ==
    LET t    == daemon.reload.timer
        last == daemon.reload.value
        next == Plus(last, xTimerPeriodInTicks[t])
        goon == [daemon EXCEPT !.at = "switch", !.reload = NoItem]
    IN  /\ At("switchReload")
        /\ UNCHANGED <<xTickCount, status, pxOverflowTimerList, history>>
        /\ \/ /\ t \notin uxAutoReload
              /\ daemon' = goon
              /\ UNCHANGED <<xTimerQueue, pxCurrentTimerList>>
           \/ /\ t \in uxAutoReload /\ next > last
              /\ pxCurrentTimerList' = Insert(pxCurrentTimerList, Item(t, next))
              /\ daemon' = goon
              /\ UNCHANGED xTimerQueue
           \/ /\ t \in uxAutoReload /\ next <= last
              /\ PostRestart(t, last, goon)
              /\ UNCHANGED pxCurrentTimerList

SwitchLists ==
    /\ At("switch") /\ pxCurrentTimerList = <<>>
    /\ pxCurrentTimerList' = pxOverflowTimerList
    /\ pxOverflowTimerList' = <<>>
    /\ daemon' = [daemon EXCEPT !.at = daemon.after, !.after = "none"]
    /\ UNCHANGED <<xTickCount, status, xTimerQueue, history>>
-------------------------------------------------------------------------------
\* uxListRemove of the item of a timer.
WithoutTimer(list, t) == Drop(list, {i \in Members(list) : i.timer = t})

\* prvProcessReceivedCommands: the next command, whose timer leaves its list.
ReceiveCommand ==
    LET m == Head(xTimerQueue)
    IN  /\ At("commands") /\ xTimerQueue # <<>>
        /\ xTimerQueue' = Tail(xTimerQueue)
        /\ pxCurrentTimerList' = WithoutTimer(pxCurrentTimerList, m.timer)
        /\ pxOverflowTimerList' = WithoutTimer(pxOverflowTimerList, m.timer)
        /\ daemon' = IF Wrapped
                     THEN [Sampled EXCEPT !.at = "switch", !.after = "handle", !.msg = m]
                     ELSE [Sampled EXCEPT !.at = "handle", !.msg = m]
        /\ UNCHANGED <<xTickCount, status, history>>

NoMoreCommands ==
    /\ At("commands") /\ xTimerQueue = <<>>
    /\ daemon' = [daemon EXCEPT !.at = "process"]
    /\ UNCHANGED <<xTickCount, status, lists, xTimerQueue, history>>

Handle(commands) == At("handle") /\ daemon.msg.command \in commands
Handled == [Done EXCEPT !.msg = NoMessage]

RestartOnItsWay(t) == \E m \in ToSet(xTimerQueue) : m.command = "restart" /\ m.timer = t

\* Whether a command of the application has overtaken one of the daemon's own.
Overtakes(t) ==
    overtaken' = IF daemon.msg.command # "restart" /\ RestartOnItsWay(t) THEN overtaken \cup {t}
                 ELSE IF RestartOnItsWay(t) THEN overtaken
                 ELSE overtaken \ {t}

\* When the timer ought to expire by the start that is handled, and after a callback
\* that it makes due at once.
ByCommand == xTimerPeriodInTicks[daemon.msg.timer] - Minus(xTickCount, daemon.msg.value)

HandleStart ==
    LET t     == daemon.msg.timer
        next  == Plus(daemon.msg.value, xTimerPeriodInTicks[t])
        place == Place(next, daemon.xTimeNow, daemon.msg.value, xTimerPeriodInTicks[t])
    IN  /\ Handle({"start", "restart"})
        /\ isActive' = isActive \cup {t}
        /\ prvInsertTimerInActiveList(Item(t, next), place, pxCurrentTimerList)
        /\ left' = [left EXCEPT ![t] =
               IF place # "due" THEN ByCommand
               ELSE IF t \in uxAutoReload THEN ByCommand + xTimerPeriodInTicks[t] ELSE Off]
        /\ daemon' = IF place = "due" /\ t \in uxAutoReload THEN [daemon EXCEPT !.at = "restart", !.xTimeNow = 0]
                     ELSE Handled
        /\ Overtakes(t)
        /\ UNCHANGED <<xTickCount, xTimerPeriodInTicks, xTimerQueue>>

\* After the callback of a timer that was due when it was started.
Restart ==
    LET t == daemon.msg.timer
    IN  /\ At("restart")
        /\ PostRestart(t, Plus(daemon.msg.value, xTimerPeriodInTicks[t]), Handled)
        /\ UNCHANGED <<xTickCount, status, lists, history>>

\* A timer created with a static buffer is not freed when it is deleted.
HandleStop ==
    /\ Handle({"stop", "delete"})
    /\ isActive' = isActive \ {daemon.msg.timer}
    /\ left' = [left EXCEPT ![daemon.msg.timer] = Off]
    /\ daemon' = Handled
    /\ Overtakes(daemon.msg.timer)
    /\ UNCHANGED <<xTickCount, xTimerPeriodInTicks, lists, xTimerQueue>>

\* The new period starts now, and starts a timer that does not run.
HandleChangePeriod ==
    LET t      == daemon.msg.timer
        period == daemon.msg.value
        now    == daemon.xTimeNow
        next   == Plus(now, period)
    IN  /\ Handle({"changePeriod"})
        /\ isActive' = isActive \cup {t}
        /\ xTimerPeriodInTicks' = [xTimerPeriodInTicks EXCEPT ![t] = period]
        /\ prvInsertTimerInActiveList(Item(t, next), Place(next, now, now, period), pxCurrentTimerList)
        /\ left' = [left EXCEPT ![t] = period - Minus(xTickCount, now)]
        /\ daemon' = Handled
        /\ Overtakes(t)
        /\ UNCHANGED <<xTickCount, xTimerQueue>>
-------------------------------------------------------------------------------
\* The daemon has the scheduler suspended: the tick is pended and comes after.
Suspended == At("switch") /\ daemon.after = "commands"

\* Bounds: no timer, command or look at the time is MaxLate ticks late.
NotLate ==
    /\ \A t \in Timers : left[t] > -MaxLate
    /\ \A m \in ToSet(xTimerQueue) \cup {daemon.msg} :
           IsStart(m) => Minus(xTickCount, m.value) < MaxLate
    /\ At("expired") \/ (daemon.msg # NoMessage /\ ~At("restart")) =>
           Minus(xTickCount, daemon.xTimeNow) < MaxLate

Tick ==
    /\ NotLate /\ ~Suspended /\ ~At("halted")
    /\ daemon.at = "switchReload" => daemon.after # "commands"
    /\ xTickCount' = Plus(xTickCount, 1)
    /\ left' = [t \in Timers |-> IF left[t] = Off THEN Off ELSE left[t] - 1]
    /\ daemon' = IF At("blocked") /\ daemon.wait = 1 THEN Woken(daemon)
                 ELSE IF At("blocked") /\ daemon.wait # Forever THEN [daemon EXCEPT !.wait = @ - 1]
                 ELSE daemon
    /\ UNCHANGED <<status, lists, xTimerQueue, overtaken>>

DaemonStep ==
    \/ ProcessTimerOrBlock \/ ProcessExpiredTimer
    \/ SwitchCallback \/ SwitchReload \/ SwitchLists
    \/ ReceiveCommand \/ NoMoreCommands
    \/ HandleStart \/ Restart \/ HandleStop \/ HandleChangePeriod

Next == DaemonStep \/ Tick \/ \E t \in Timers : Post(t)

Spec == Init /\ [][Next]_vars /\ WF_vars(DaemonStep) /\ WF_vars(Tick)
-------------------------------------------------------------------------------
(***************************************************************************)
(* Properties.                                                             *)
(***************************************************************************)
Listed == pxCurrentTimerList \o pxOverflowTimerList

\* The two lists are one schedule across the wrap of the tick count: the current list
\* and then the overflow list are in the order in which the timers ought to expire,
\* each running timer stands there once with the time its last command or its last
\* expiry asks for, and is active (prvInsertTimerInActiveList, prvSwitchTimerLists).
ScheduleKept ==
    /\ \A i \in DOMAIN Listed :
          /\ Listed[i].value = Plus(xTickCount, left[Listed[i].timer])
          /\ Listed[i].timer \in isActive
    /\ \A i, j \in DOMAIN Listed : i < j =>
          /\ Listed[i].timer # Listed[j].timer
          /\ left[Listed[i].timer] <= left[Listed[j].timer]

\* No callback runs before its time, however late the command that starts the timer
\* is handled and wherever the wrap of the tick count falls between the two.
RunsCallback(t) ==
    \/ ProcessExpiredTimer /\ t = Head(pxCurrentTimerList).timer
    \/ SwitchCallback      /\ t = Head(pxCurrentTimerList).timer
    \/ HandleStart /\ t = daemon.msg.timer
          /\ left'[t] = IF t \in uxAutoReload THEN ByCommand + xTimerPeriodInTicks[t] ELSE Off

Time(t) == IF At("handle") THEN ByCommand ELSE left[t]

NeverEarly == [][\A t \in Timers : RunsCallback(t) => Time(t) <= 0]_vars

\* The daemon never sleeps past an expiry: while it waits for a command, the wait ends
\* no later than any timer is due, in the overflow list as well (the list-was-empty
\* flag of prvProcessTimerOrBlockTask).
NeverOversleeps ==
    At("blocked") /\ Listed # <<>> =>
        /\ daemon.wait # Forever
        /\ \A i \in DOMAIN Listed : daemon.wait <= left[Listed[i].timer]

\* A periodic timer keeps its period: the start by which the daemon catches up on a
\* missed expiry asks for exactly the next time of the old schedule, unless another
\* command for the timer has been handled meanwhile.
KeepsPeriod ==
    Handle({"restart"}) /\ daemon.msg.timer \notin overtaken =>
        left[daemon.msg.timer] = ByCommand

\* A timer that is due expires: its callback runs, again and again if the daemon lags
\* behind, or it gets another command (unless an assertion has stopped the program).
Commanded(t) == Handle({"start", "stop", "changePeriod", "delete"}) /\ daemon.msg.timer = t

Expires(t) == []<>(left[t] > 0 \/ Commanded(t)) \/ []<><<RunsCallback(t)>>_vars

EveryTimerExpires == (\A t \in Timers : Expires(t)) \/ <>At("halted")

\* prvProcessReceivedCommands goes on as long as there are commands.  A due timer waits
\* for ever only if the application posts for ever and the daemon never looks at its
\* lists again; no wrap, switch of the lists or restart of its own keeps it from them.
Flooded == <>[]~At("process") /\ []<><<\E t \in Timers : Post(t)>>_vars

DueTimersExpire == EveryTimerExpires \/ Flooded

\* "Stopping a timer ensures the timer is not in the active state" (timers.h:520): only
\* the application starts it again.
StoppedStaysStopped ==
    [][\A t \in Timers : t \notin isActive /\ t \in isActive' =>
          Handle({"start", "changePeriod"})]_vars
-------------------------------------------------------------------------------
(***************************************************************************)
(* The inductive invariant of the schedule, part by part.                  *)
(***************************************************************************)
ItemType    == [timer : Timers, value : TickType]
MessageType == {m \in [command : {"start", "restart", "stop", "changePeriod", "delete"},
                       timer : Timers, value : TickType] :
                   m.command = "changePeriod" => m.value \in NewPeriods}
Places      == {"process", "blocked", "expired", "switch", "switchReload", "commands",
                "handle", "restart", "halted"}

TypeOK ==
    /\ xTickCount \in TickType
    /\ isActive \subseteq Timers
    /\ xTimerPeriodInTicks \in [Timers -> 1 .. Wrap - MaxLate - 2]
    /\ pxCurrentTimerList \in Seq(ItemType) /\ pxOverflowTimerList \in Seq(ItemType)
    /\ xTimerQueue \in Seq(MessageType)
    /\ daemon \in [at : Places, xLastTime : TickType, xTimeNow : TickType,
                   wait : Nat \cup {Forever}, msg : MessageType \cup {NoMessage},
                   after : {"none", "commands", "handle"}, reload : ItemType \cup {NoItem}]
    /\ left \in [Timers -> Int]
    /\ overtaken \subseteq Timers

\* The tick count, counted on from the daemon's last look at it across a wrap, and the
\* round of the tick count in which the timers of the current list expire: it is the
\* last round from the look that notices the wrap to the change of the lists.
Now   == daemon.xLastTime + Minus(xTickCount, daemon.xLastTime)
Round == IF daemon.after = "none" THEN 0 ELSE -Wrap

\* The item stands for what is left of its timer.
Fits(item, round) ==
    /\ left[item.timer] = round + item.value - Now
    /\ round + item.value <= daemon.xLastTime + (Wrap - MaxLate - 2)

TimersIn(list) == {i.timer : i \in Members(list)}
Apart(list)    == \A i, j \in DOMAIN list : list[i].timer = list[j].timer => i = j
InOrder(list)  == \A i, j \in DOMAIN list : i < j => list[i].value <= list[j].value

IsListed(t) == t \in TimersIn(pxCurrentTimerList) \cup TimersIn(pxOverflowTimerList)

\* The lists are sorted, a timer stands in them once, and each item fits.
ListsInv ==
    /\ Apart(pxCurrentTimerList) /\ InOrder(pxCurrentTimerList)
    /\ Apart(pxOverflowTimerList) /\ InOrder(pxOverflowTimerList)
    /\ TimersIn(pxCurrentTimerList) \cap TimersIn(pxOverflowTimerList) = {}
    /\ \A item \in Members(pxCurrentTimerList) : Fits(item, Round)
    /\ \A item \in Members(pxOverflowTimerList) : Fits(item, Round + Wrap)
    /\ \A t \in Timers : IsListed(t) => t \in isActive

\* No timer is a whole turn of the tick count late.
LateInv == \A t \in Timers : left[t] > -Wrap

AgeOf(m) == Minus(xTickCount, m.value)

\* What is left of a timer by a start, and by its next start from the daemon.
ByStart(m) == xTimerPeriodInTicks[m.timer] - AgeOf(m)

\* What the daemon has in hand: the command it handles, whose timer is in no list, and
\* which was posted before its look at the time; the timer that has expired; the timer
\* whose callback runs at the switch; the timer that was due when it was started.
Handling == daemon.at = "handle" \/ daemon.after = "handle"

HandInv ==
    /\ daemon.at \in {"switch", "switchReload"} => daemon.after # "none"
    /\ daemon.after # "none" => daemon.at \in {"switch", "switchReload", "halted"}
    /\ Handling =>
          /\ daemon.msg # NoMessage /\ ~IsListed(daemon.msg.timer)
          /\ daemon.xTimeNow = daemon.xLastTime
          /\ IsStart(daemon.msg) => Minus(xTickCount, daemon.xTimeNow) <= AgeOf(daemon.msg)
    /\ daemon.msg # NoMessage => Handling \/ At("restart")
    /\ At("expired") =>
          /\ pxCurrentTimerList # <<>>
          /\ Head(pxCurrentTimerList).value <= daemon.xTimeNow
          /\ daemon.xTimeNow = daemon.xLastTime
    /\ daemon.at # "switchReload" => daemon.reload = NoItem
    /\ At("switchReload") =>
          LET item == daemon.reload
              t    == item.timer
          IN  /\ item # NoItem /\ ~IsListed(t) /\ t \in isActive
              /\ Handling => daemon.msg.timer # t
              /\ t \in uxAutoReload =>
                    /\ left[t] = item.value - Wrap + xTimerPeriodInTicks[t] - Now
                    /\ Now < item.value
    /\ At("restart") =>
          LET m == daemon.msg
              t == m.timer
          IN  /\ m # NoMessage /\ IsStart(m) /\ ~IsListed(t) /\ t \in uxAutoReload
              /\ AgeOf(m) >= xTimerPeriodInTicks[t]
              /\ left[t] = ByStart(m) + xTimerPeriodInTicks[t]

\* A start by which the daemon catches up asks for what is left, is the only one for its
\* timer, and the timer is nowhere else, as long as no command has overtaken it.
IsRestart(m, t) == m.command = "restart" /\ m.timer = t

RestartWaits(t) ==
    \A i \in DOMAIN xTimerQueue : IsRestart(xTimerQueue[i], t) =>
        /\ left[t] = ByStart(xTimerQueue[i])
        /\ ~IsListed(t) /\ daemon.reload.timer # t
        /\ ~IsRestart(daemon.msg, t) /\ ~(At("restart") /\ daemon.msg.timer = t)
        /\ \A j \in DOMAIN xTimerQueue : IsRestart(xTimerQueue[j], t) => i = j

RestartInHand(t) ==
    Handling /\ IsRestart(daemon.msg, t) => left[t] = ByStart(daemon.msg)

RestartInv == \A t \in Timers \ overtaken : RestartWaits(t) /\ RestartInHand(t)

\* While the daemon waits, it waits no longer than any timer.
SleepInv ==
    At("blocked") =>
        /\ daemon.after = "none" /\ daemon.wait # 0
        /\ \A t \in Timers : IsListed(t) => daemon.wait # Forever /\ daemon.wait <= left[t]

IInv == TypeOK /\ ListsInv /\ LateInv /\ HandInv /\ RestartInv /\ SleepInv
===============================================================================
