--------------------------- MODULE PspDemoMultiHarts ---------------------------
(***************************************************************************)
(* demo_multi_harts.c: a whole program over PspMutex.  Both harts of EH2   *)
(* run demoStart.  They meet at sync points, accumulate a shared number    *)
(* with compare-and-set, fill a shared array under a mutex that hart 0     *)
(* creates and destroys, and count interrupts of the one machine timer     *)
(* they share.                                                             *)
(*                                                                         *)
(* The steps inside the mutex calls are those of PspMutex, here without    *)
(* the discipline that PspMutex asks of its applications: that this        *)
(* program keeps it is one of the results.                                 *)
(***************************************************************************)
EXTENDS PspMutex

CONSTANTS
    Iterations,       \* D_DEMO_NUM_ITERATIONS
    ArraySize,        \* D_DEMO_ARRAY_SIZE
    TimerInterrupts   \* [hart -> D_DEMO_NUMBER_OF_TIMER_INTERRUPTS_HARTn]

ASSUME DemoAssumption ==
    /\ BootHart = 0 /\ ~Disciplined
    /\ Iterations \in Nat \ {0} /\ ArraySize \in Nat \ {0}
    /\ TimerInterrupts \in [Harts -> Nat \ {0}]

VARIABLES
    syncPoints,         \* g_uiAtomicOperationVars: the four sync points ...
    accumulated,        \* ... and the number both harts accumulate
    part,               \* [hart -> the last sync point it has come to, then 4]
    at,                 \* [hart -> place in that part]
    uiCommonParameter,  \* [hart -> the word it has read before its CAS]
    uiIterator,         \* [hart -> turns of its loop done]
    g_uiCommonArray,    \* [cell -> hart whose value it holds, or NULL]
    copies,             \* g_uiVecA0 and g_uiVecA1: [hart -> [cell -> the same]]
    g_pMutex,
    due,                \* has mtime reached the mtimecmp both harts share
    mtie,               \* [hart -> timer interrupt enable]
    isr,                \* [hart -> place in its timer ISR]
    g_uiNumberOfTimerInterrupts,   \* [hart -> its count]
    uiCounter,          \* [hart -> its count of demoStart's entries less exits]
    ended               \* harts that have printed the end of the demo

Cells == 0 .. ArraySize - 1

casVars   == <<syncPoints, accumulated, uiCommonParameter, uiIterator>>
arrayVars == <<g_uiCommonArray, copies, g_pMutex>>
timerVars == <<due, mtie, isr, g_uiNumberOfTimerInterrupts>>
endVars   == <<uiCounter, ended>>
demoVars  == <<casVars, part, at, arrayVars, timerVars, endVars>>
allVars   == <<vars, demoVars>>

SyncPc == {"sync_read", "sync_cas", "sync_wait"}
Place  == SyncPc \cup
          {"start", "acc_read", "acc_cas", "check", "create", "created", "lock",
           "fill", "copy", "unlock", "verify", "destroy", "destroyed",
           "timer_reset", "timer_arm", "timer_enable", "timer_wait", "exit", "end",
           "done", "ebreak"}

\* The application of hart h runs, in no call of PSP and in no interrupt.
AppRuns(h, place) == pc[h] = "idle" /\ isr[h] = "none" /\ at[h] = place
Move(h, from, to) == AppRuns(h, from) /\ at' = [at EXCEPT ![h] = to] /\ UNCHANGED part
\* On to the next part, which begins with a sync point, or with the timer.
NextPart(h) ==
    /\ part' = [part EXCEPT ![h] = @ + 1]
    /\ at' = [at EXCEPT ![h] = IF part[h] = 3 THEN "timer_reset" ELSE "sync_read"]

\* Hart 0 has counted itself in demoStart; the sync points are zero before hart 1
\* starts; what mtimecmp holds at reset is unknown.
DemoInit ==
    /\ Init
    /\ syncPoints = [n \in 0 .. 3 |-> 0] /\ accumulated = 0
    /\ part = [h \in Harts |-> 0]
    /\ at = [h \in Harts |-> IF h = BootHart THEN "sync_read" ELSE "start"]
    /\ uiCommonParameter = [h \in Harts |-> 0] /\ uiIterator = [h \in Harts |-> 0]
    /\ g_uiCommonArray = [c \in Cells |-> NULL]
    /\ copies = [h \in Harts |-> [c \in Cells |-> NULL]]
    /\ g_pMutex = NULL
    /\ due \in BOOLEAN /\ mtie = [h \in Harts |-> FALSE]
    /\ isr = [h \in Harts |-> "none"]
    /\ g_uiNumberOfTimerInterrupts = [h \in Harts |-> 0]
    /\ uiCounter = [h \in Harts |-> IF h = BootHart THEN 1 ELSE 0]
    /\ ended = {}
-------------------------------------------------------------------------------
\* demoStart on hart 1.
Start(h) ==
    /\ Move(h, "start", "sync_read")
    /\ uiCounter' = [uiCounter EXCEPT ![h] = @ + 1]
    /\ UNCHANGED <<vars, casVars, arrayVars, timerVars, ended>>

\* pspAtomicsCompareAndSet of the word, lr to sc being one step.  It fails if the
\* word has changed since it was read; the sc may also fail of itself.
SyncRead(h) ==
    /\ Move(h, "sync_read", "sync_cas")
    /\ uiCommonParameter' = [uiCommonParameter EXCEPT ![h] = syncPoints[part[h]]]
    /\ UNCHANGED <<vars, syncPoints, accumulated, uiIterator, arrayVars, timerVars, endVars>>

SyncCas(h) ==
    /\ Move(h, "sync_cas", "sync_wait")
    /\ syncPoints[part[h]] = uiCommonParameter[h]
    /\ syncPoints' = [syncPoints EXCEPT ![part[h]] = uiCommonParameter[h] + 1]
    /\ uiCommonParameter' = [uiCommonParameter EXCEPT ![h] = 0]
    /\ UNCHANGED <<vars, accumulated, uiIterator, arrayVars, timerVars, endVars>>

CasFails(h) ==
    /\ \/ Move(h, "sync_cas", "sync_read")
       \/ Move(h, "acc_cas", "acc_read")
    /\ uiCommonParameter' = [uiCommonParameter EXCEPT ![h] = 0]
    /\ UNCHANGED <<vars, syncPoints, accumulated, uiIterator, arrayVars, timerVars, endVars>>

\* What a hart does once both are there.
AfterSync(h) ==
    CASE part[h] = 0 -> "acc_read"
      [] part[h] = 1 -> "check"
      [] part[h] = 2 -> "lock"
      [] part[h] = 3 -> "verify"

\* Mutant: the loop ends when one hart is there.
SyncWaitForOne(h) ==
    /\ Move(h, "sync_wait", AfterSync(h))
    /\ syncPoints[part[h]] >= 1
    /\ UNCHANGED <<vars, casVars, arrayVars, timerVars, endVars>>

SyncWait(h) ==
    /\ Move(h, "sync_wait", AfterSync(h))
    /\ syncPoints[part[h]] >= 2
    /\ UNCHANGED <<vars, casVars, arrayVars, timerVars, endVars>>

AccumulateRead(h) ==
    /\ Move(h, "acc_read", "acc_cas")
    /\ uiCommonParameter' = [uiCommonParameter EXCEPT ![h] = accumulated]
    /\ UNCHANGED <<vars, syncPoints, accumulated, uiIterator, arrayVars, timerVars, endVars>>

\* Mutant: the set does not compare.
AccumulateUnchecked(h) ==
    /\ AppRuns(h, "acc_cas")
    /\ accumulated' = uiCommonParameter[h] + 1
    /\ uiCommonParameter' = [uiCommonParameter EXCEPT ![h] = 0]
    /\ uiIterator' = [uiIterator EXCEPT ![h] = (@ + 1) % Iterations]
    /\ IF uiIterator[h] + 1 < Iterations
       THEN at' = [at EXCEPT ![h] = "acc_read"] /\ UNCHANGED part
       ELSE NextPart(h)
    /\ UNCHANGED <<vars, syncPoints, arrayVars, timerVars, endVars>>

AccumulateCas(h) ==
    /\ AppRuns(h, "acc_cas")
    /\ accumulated = uiCommonParameter[h]
    /\ accumulated' = uiCommonParameter[h] + 1
    /\ uiCommonParameter' = [uiCommonParameter EXCEPT ![h] = 0]
    /\ uiIterator' = [uiIterator EXCEPT ![h] = (@ + 1) % Iterations]
    /\ IF uiIterator[h] + 1 < Iterations
       THEN at' = [at EXCEPT ![h] = "acc_read"] /\ UNCHANGED part
       ELSE NextPart(h)
    /\ UNCHANGED <<vars, syncPoints, arrayVars, timerVars, endVars>>
-------------------------------------------------------------------------------
\* Both harts compare the number; a check that fails ends in an ebreak.
Check(h) ==
    /\ Move(h, "check", IF accumulated = 2 * Iterations THEN "create" ELSE "ebreak")
    /\ UNCHANGED <<vars, casVars, arrayVars, timerVars, endVars>>

\* Hart 0 zeroes the arrays, which leaves no hart's values in them, and creates
\* the mutex.
Create(h) ==
    /\ h = 0 /\ CreateCall(h)
    /\ Move(h, "create", "created")
    /\ g_uiCommonArray' = [c \in Cells |-> NULL]
    /\ copies' = [i \in Harts |-> [c \in Cells |-> NULL]]
    /\ UNCHANGED <<casVars, g_pMutex, timerVars, endVars>>

Created(h) ==
    /\ \/ AppRuns(h, "created") /\ g_pMutex' = ret[h]
       \/ AppRuns(h, "create") /\ h # 0 /\ UNCHANGED g_pMutex
    /\ NextPart(h)
    /\ UNCHANGED <<vars, casVars, g_uiCommonArray, copies, timerVars, endVars>>

Lock(h) ==
    /\ LockCall(h, g_pMutex)
    /\ Move(h, "lock", "fill")
    /\ UNCHANGED <<casVars, arrayVars, timerVars, endVars>>

\* One turn of the loops that fill the shared array and copy it.
Turn(h, from, to) ==
    /\ AppRuns(h, from)
    /\ uiIterator' = [uiIterator EXCEPT ![h] = (@ + 1) % ArraySize]
    /\ at' = [at EXCEPT ![h] = IF uiIterator[h] + 1 = ArraySize THEN to ELSE from]
    /\ UNCHANGED <<vars, syncPoints, accumulated, uiCommonParameter, part, g_pMutex,
                   timerVars, endVars>>

Fill(h) ==
    /\ Turn(h, "fill", "copy")
    /\ g_uiCommonArray' = [g_uiCommonArray EXCEPT ![uiIterator[h]] = h]
    /\ UNCHANGED copies

Copy(h) ==
    /\ Turn(h, "copy", "unlock")
    /\ copies' = [copies EXCEPT ![h][uiIterator[h]] = g_uiCommonArray[uiIterator[h]]]
    /\ UNCHANGED g_uiCommonArray

UnlockArray(h) ==
    /\ AppRuns(h, "unlock") /\ Unlock(h, g_pMutex)
    /\ NextPart(h)
    /\ UNCHANGED <<casVars, arrayVars, timerVars, endVars>>

\* Hart 0 checks the copies, destroys the mutex and checks that too.
Verify(h) ==
    /\ h = 0
    /\ Move(h, "verify", IF \A i \in Harts : \A c \in Cells : copies[i][c] = i
                         THEN "destroy" ELSE "ebreak")
    /\ UNCHANGED <<vars, casVars, arrayVars, timerVars, endVars>>

Destroy(h) ==
    /\ h = 0 /\ DestroyCall(h, g_pMutex)
    /\ Move(h, "destroy", "destroyed")
    /\ UNCHANGED <<casVars, arrayVars, timerVars, endVars>>

Destroyed(h) ==
    /\ AppRuns(h, "destroyed") \/ (AppRuns(h, "verify") /\ h # 0)
    /\ IF at[h] = "destroyed" /\ ret[h] # NULL
       THEN Move(h, "destroyed", "ebreak") ELSE NextPart(h)
    /\ UNCHANGED <<vars, casVars, arrayVars, timerVars, endVars>>
-------------------------------------------------------------------------------
\* demoMultiHartsTimerInterrupts: count and handler are reset, the timer armed
\* and the interrupts enabled.
TimerReset(h) ==
    /\ Move(h, "timer_reset", "timer_arm")
    /\ mtie' = [mtie EXCEPT ![h] = FALSE]
    /\ g_uiNumberOfTimerInterrupts' = [g_uiNumberOfTimerInterrupts EXCEPT ![h] = 0]
    /\ UNCHANGED <<vars, casVars, arrayVars, due, isr, endVars>>

TimerArm(h) ==
    /\ Move(h, "timer_arm", "timer_enable")
    /\ due' = FALSE
    /\ UNCHANGED <<vars, casVars, arrayVars, mtie, isr, g_uiNumberOfTimerInterrupts,
                   endVars>>

TimerEnable(h) ==
    /\ Move(h, "timer_enable", "timer_wait")
    /\ mtie' = [mtie EXCEPT ![h] = TRUE]
    /\ UNCHANGED <<vars, casVars, arrayVars, due, isr, g_uiNumberOfTimerInterrupts,
                   endVars>>

TimerWait(h) ==
    /\ Move(h, "timer_wait", "exit")
    /\ g_uiNumberOfTimerInterrupts[h] = TimerInterrupts[h]
    /\ UNCHANGED <<vars, casVars, arrayVars, timerVars, endVars>>

\* Time passes mtimecmp.
Tick ==
    /\ ~due /\ due' = TRUE
    /\ UNCHANGED <<vars, casVars, part, at, arrayVars, mtie, isr,
                   g_uiNumberOfTimerInterrupts, endVars>>

\* demoTimerIsrHart0 and demoTimerIsrHart1; the trap comes once interrupts are
\* enabled, at any place after that.
IsrStep(h, from, to) ==
    /\ isr[h] = from /\ isr' = [isr EXCEPT ![h] = to]
    /\ UNCHANGED <<vars, casVars, part, at, arrayVars, endVars>>

TimerTrap(h) ==
    /\ IsrStep(h, "none", "count")
    /\ due /\ mtie[h]
    /\ mtie' = [mtie EXCEPT ![h] = FALSE]
    /\ UNCHANGED <<due, g_uiNumberOfTimerInterrupts>>

IsrCount(h) ==
    /\ IsrStep(h, "count", IF g_uiNumberOfTimerInterrupts[h] + 1 < TimerInterrupts[h]
                           THEN "arm" ELSE "none")
    /\ g_uiNumberOfTimerInterrupts' = [g_uiNumberOfTimerInterrupts EXCEPT ![h] = @ + 1]
    /\ UNCHANGED <<due, mtie>>

IsrArm(h) ==
    /\ IsrStep(h, "arm", "enable")
    /\ due' = FALSE
    /\ UNCHANGED <<mtie, g_uiNumberOfTimerInterrupts>>

\* Mutant: the ISR returns without enabling the interrupt again.
IsrLeavesDisabled(h) ==
    /\ IsrStep(h, "enable", "none")
    /\ UNCHANGED <<due, mtie, g_uiNumberOfTimerInterrupts>>

IsrEnable(h) ==
    /\ IsrStep(h, "enable", "none")
    /\ mtie' = [mtie EXCEPT ![h] = TRUE]
    /\ UNCHANGED <<due, g_uiNumberOfTimerInterrupts>>

\* The end of demoStart; a hart that finds both counters equal prints.
Exit(h) ==
    /\ Move(h, "exit", "end")
    /\ uiCounter' = [uiCounter EXCEPT ![h] = @ - 1]
    /\ UNCHANGED <<vars, casVars, arrayVars, timerVars, ended>>

End(h) ==
    /\ Move(h, "end", "done")
    /\ ended' = IF \A i \in Harts : uiCounter[i] = uiCounter[h]
                THEN ended \cup {h} ELSE ended
    /\ UNCHANGED <<vars, casVars, arrayVars, timerVars, uiCounter>>
-------------------------------------------------------------------------------
AppStepOf(h) ==
    \/ Start(h) \/ SyncRead(h) \/ SyncCas(h) \/ CasFails(h) \/ SyncWait(h)
    \/ AccumulateRead(h) \/ AccumulateCas(h)
    \/ Check(h) \/ Create(h) \/ Created(h) \/ Lock(h) \/ Fill(h) \/ Copy(h) \/ UnlockArray(h)
    \/ Verify(h) \/ Destroy(h) \/ Destroyed(h)
    \/ TimerReset(h) \/ TimerArm(h) \/ TimerEnable(h) \/ TimerWait(h)
    \/ Exit(h) \/ End(h)

IsrStepOf(h) == TimerTrap(h) \/ IsrCount(h) \/ IsrArm(h) \/ IsrEnable(h)
PspStepOf(h) == PspStep(h) /\ UNCHANGED demoVars

DemoNext == Tick \/ \E h \in Harts : AppStepOf(h) \/ IsrStepOf(h) \/ PspStepOf(h)

\* A hart that can go on does; time passes; and a hart that tries its
\* compare-and-set again and again is not failed by the sc for ever.
DemoFairness ==
    /\ WF_allVars(Tick)
    /\ \A h \in Harts :
           /\ WF_allVars(AppStepOf(h)) /\ WF_allVars(IsrStepOf(h))
           /\ WF_allVars(PspStepOf(h))
           /\ SF_allVars(SyncCas(h)) /\ SF_allVars(AccumulateCas(h))

DemoSpec == DemoInit /\ [][DemoNext]_allVars /\ DemoFairness
-------------------------------------------------------------------------------
\* Hart h has come to part n, beyond the places `before` in it.
Past(h, n, before) == part[h] > n \/ (part[h] = n /\ at[h] \notin before)

\* demo_multi_harts.c:158, "to make sure both harts start the next activity,
\* following this function, simultaneously": no hart is past a sync point before
\* the other has come to it, and "if 2 cores passed this point" (line 484): the end
\* is printed only after both have counted all their timer interrupts.
SyncPointsAreBarriers ==
    /\ \A h, i \in Harts : \A n \in 0 .. 3 :
          Past(h, n, SyncPc \cup {"start"}) =>
              Past(i, n, {"start", "sync_read", "sync_cas"})
    /\ ended # {} => \A h \in Harts :
          /\ at[h] \in {"end", "done"}
          /\ g_uiNumberOfTimerInterrupts[h] = TimerInterrupts[h]

\* demo_multi_harts.c:276, "The global accumulated number should be exactly twice
\* than the loop iterator": past sync point 1 no increment of a hart is lost.
NoIncrementIsLost ==
    \A h \in Harts : Past(h, 1, SyncPc) => accumulated = 2 * Iterations

\* The demo ends on both harts and the end is printed, although the harts share
\* one compare register and each arms it over the other's time.
DemoEnds == <>(ended # {} /\ \A h \in Harts : at[h] = "done")
-------------------------------------------------------------------------------
(***************************************************************************)
(* The inductive invariant of the proofs: which places belong to which     *)
(* part, what the shared words say about where the harts are, and what the *)
(* timer interrupt of a hart does to a hart that is past it.               *)
(***************************************************************************)
PlacesOf(n) ==
    CASE n = 0 -> SyncPc \cup {"start", "acc_read", "acc_cas"}
      [] n = 1 -> SyncPc \cup {"check", "create", "created", "ebreak"}
      [] n = 2 -> SyncPc \cup {"lock", "fill", "copy", "unlock"}
      [] n = 3 -> SyncPc \cup {"verify", "destroy", "destroyed", "ebreak"}
      [] n = 4 -> {"timer_reset", "timer_arm", "timer_enable", "timer_wait",
                   "exit", "end", "done"}

PlaceInv ==
    /\ part \in [Harts -> 0 .. 4] /\ at \in [Harts -> Place]
    /\ \A h \in Harts : at[h] \in PlacesOf(part[h])

\* What hart h has added to sync point n and to the number.
Arrived(h, n) ==
    IF h \in Harts /\ Past(h, n, {"start", "sync_read", "sync_cas"}) THEN 1 ELSE 0
Added(h) == IF h \notin Harts THEN 0 ELSE IF part[h] = 0 THEN uiIterator[h] ELSE Iterations

SyncInv ==
    /\ syncPoints \in [0 .. 3 -> Nat]
    /\ uiCommonParameter \in [Harts -> Nat]
    /\ \A n \in 0 .. 3 : syncPoints[n] = Arrived(0, n) + Arrived(1, n)
    /\ \A n \in 0 .. 3 : \A h \in Harts : Past(h, n, SyncPc \cup {"start"}) => syncPoints[n] >= 2

AccumulatedInv ==
    /\ accumulated \in Nat /\ uiIterator \in [Harts -> Nat]
    /\ accumulated = Added(0) + Added(1)
    /\ \A h \in Harts : part[h] = 0 =>
          /\ uiIterator[h] < Iterations
          /\ at[h] \notin {"acc_read", "acc_cas"} => uiIterator[h] = 0

Counting(h) == g_uiNumberOfTimerInterrupts[h] < TimerInterrupts[h]

TimerInv ==
    /\ mtie \in [Harts -> BOOLEAN]
    /\ isr \in [Harts -> {"none", "count", "arm", "enable"}]
    /\ g_uiNumberOfTimerInterrupts \in [Harts -> Nat]
    /\ \A h \in Harts :
          /\ mtie[h] => isr[h] = "none" /\ at[h] = "timer_wait" /\ Counting(h)
          /\ isr[h] # "none" => at[h] = "timer_wait" /\ Counting(h)
          /\ at[h] \in {"timer_arm", "timer_enable"} => g_uiNumberOfTimerInterrupts[h] = 0
          /\ at[h] \in {"exit", "end", "done"} =>
                 g_uiNumberOfTimerInterrupts[h] = TimerInterrupts[h]

EndInv ==
    /\ uiCounter = [h \in Harts |-> IF at[h] \in {"start", "end", "done"} THEN 0 ELSE 1]
    /\ ended # {} => \A h \in Harts : at[h] \in {"end", "done"}

DemoInv == PlaceInv /\ SyncInv /\ AccumulatedInv /\ TimerInv /\ EndInv
===============================================================================
