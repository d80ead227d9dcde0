------------------------------ MODULE RtosalPort ------------------------------
(***************************************************************************)
(* The port of FreeRTOS to the PSP: critical sections, traps and context   *)
(* switches of one hart.                                                   *)
(*                                                                         *)
(* FreeRTOS counts critical nesting per task.  The port adds two globals   *)
(* shared by all tasks: how many times interrupts were disabled since they *)
(* were last enabled, and the MIE bit they had then (portmacro.h).  A trap *)
(* saves the registers and mepc of the interrupted task and restores those *)
(* of pxCurrentTCB (rtosal_int_vect_*.S); mstatus belongs to the hart, not *)
(* to the task.                                                            *)
(*                                                                         *)
(* Every access of the two globals or of mstatus is a step, so that an     *)
(* interrupt can fall between any two of them.  Which ready task           *)
(* vTaskSwitchContext selects is left open.                                *)
(***************************************************************************)
EXTENDS Naturals, FiniteSets

CONSTANTS
    Tasks,
    Creations,          \* objects and tasks created before the scheduler starts
    MaxNesting,         \* bound: how deep a task nests critical sections
    MaxDisables         \* bound: counter at which no section nests and no interrupt comes

ASSUME PortAssumption ==
    /\ Creations \in Nat \ {0}
    /\ MaxNesting \in Nat \ {0}
    /\ MaxDisables \in Nat

VARIABLES
    mie, mpie,                      \* mstatus.MIE and mstatus.MPIE, 0 or 1
    g_uInterruptsPreserveMask,      \* the MIE bit of the mask
    g_uInterruptsDisableCounter,
    g_rtosalIsInterruptContext,
    xSchedulerRunning,
    pxCurrentTCB,
    uxCriticalNesting,              \* [task -> depth]
    pc,                             \* [task -> place in its code]
    loaded,                         \* [task -> the counter it is incrementing]
    boot,                           \* creations left before the scheduler starts
    trap,                           \* place in the trap code
    atTrap,                         \* [task -> MIE when it was last switched out]
    settled,                        \* has the counter been reset since the start
    calm,                           \* has no interrupt come before that, and has no
                                    \* task yielded inside a critical section
    raced                           \* has a task resumed with MIE clear between its
                                    \* test of the counter and the clearing of MIE

portVars == <<g_uInterruptsPreserveMask, g_uInterruptsDisableCounter>>
taskVars == <<uxCriticalNesting, pc, loaded>>
trapVars == <<mpie, g_rtosalIsInterruptContext, pxCurrentTCB, trap, atTrap>>
bootVars == <<xSchedulerRunning, boot>>
vars     == <<mie, portVars, taskVars, trapVars, bootVars, settled, calm, raced>>

EnterPc == {"clear", "load", "store", "nest"}
ExitPc  == {"reset", "enable"}
Pc      == {"app", "critical", "yielded"} \cup EnterPc \cup ExitPc

\* The hart executes task t, outside any trap.
Running(t) == xSchedulerRunning /\ trap = "none" /\ pxCurrentTCB = t

Goto(t, from, to) == Running(t) /\ pc[t] = from /\ pc' = [pc EXCEPT ![t] = to]
-------------------------------------------------------------------------------
\* Reset leaves MIE clear; rtosalStart runs in main, before any task.
Init ==
    /\ mie = 0 /\ mpie = 0
    /\ g_uInterruptsPreserveMask = 0
    /\ g_uInterruptsDisableCounter = 0
    /\ g_rtosalIsInterruptContext = 0
    /\ xSchedulerRunning = FALSE
    /\ pxCurrentTCB \in Tasks
    /\ uxCriticalNesting = [t \in Tasks |-> 0]
    /\ pc = [t \in Tasks |-> "app"]
    /\ loaded = [t \in Tasks |-> 0]
    /\ boot = Creations
    /\ trap = "none"
    /\ atTrap = [t \in Tasks |-> 1]
    /\ settled = FALSE
    /\ calm = TRUE
    /\ raced = FALSE

\* portDISABLE_INTERRUPTS in main, where nothing interrupts it.
DisableAtBoot ==
    /\ IF g_uInterruptsDisableCounter = 0
       THEN g_uInterruptsPreserveMask' = mie /\ mie' = 0
       ELSE UNCHANGED <<g_uInterruptsPreserveMask, mie>>
    /\ g_uInterruptsDisableCounter' = g_uInterruptsDisableCounter + 1

\* A create function enters and leaves a critical section.  vTaskExitCritical
\* does nothing before the scheduler runs.
CreateObject ==
    /\ ~xSchedulerRunning /\ boot > 0
    /\ DisableAtBoot
    /\ boot' = boot - 1
    /\ UNCHANGED <<taskVars, trapVars, xSchedulerRunning, settled, calm, raced>>

\* vTaskStartScheduler disables interrupts once more; xPortStartScheduler sets
\* MIE behind the back of the counter and returns into the first task.
StartScheduler ==
    /\ ~xSchedulerRunning /\ boot = 0
    /\ g_uInterruptsDisableCounter' = g_uInterruptsDisableCounter + 1
    /\ g_uInterruptsPreserveMask' = IF g_uInterruptsDisableCounter = 0
                                    THEN mie ELSE g_uInterruptsPreserveMask
    /\ mie' = 1
    /\ xSchedulerRunning' = TRUE
    /\ UNCHANGED <<taskVars, trapVars, boot, settled, calm, raced>>
-------------------------------------------------------------------------------
\* Mutant: the test is of the task's own nesting, not of the shared counter.
EnterTestNesting(t) ==
    /\ Running(t)
    /\ pc[t] \in {"app", "critical"}
    /\ pc[t] = "critical" => /\ uxCriticalNesting[t] < MaxNesting
                             /\ g_uInterruptsDisableCounter < MaxDisables
    /\ pc' = [pc EXCEPT ![t] = IF uxCriticalNesting[t] = 0 THEN "clear" ELSE "load"]
    /\ UNCHANGED <<mie, portVars, uxCriticalNesting, loaded, trapVars,
                   bootVars, settled, calm, raced>>

\* vTaskEnterCritical.  portDISABLE_INTERRUPTS looks at the counter first ...
EnterTest(t) ==
    /\ Running(t)
    /\ pc[t] \in {"app", "critical"}
    /\ pc[t] = "critical" => /\ uxCriticalNesting[t] < MaxNesting
                             /\ g_uInterruptsDisableCounter < MaxDisables
    /\ pc' = [pc EXCEPT ![t] = IF g_uInterruptsDisableCounter = 0
                               THEN "clear" ELSE "load"]
    /\ UNCHANGED <<mie, portVars, uxCriticalNesting, loaded, trapVars,
                   bootVars, settled, calm, raced>>

\* Mutant: the section is entered without clearing MIE.
ReadWithoutClear(t) ==
    /\ Goto(t, "clear", "load")
    /\ g_uInterruptsPreserveMask' = mie
    /\ UNCHANGED <<mie, g_uInterruptsDisableCounter, uxCriticalNesting, loaded,
                   trapVars, bootVars, settled, calm, raced>>

\* Mutant: MIE is cleared and not saved.
ClearWithoutSaving(t) ==
    /\ Goto(t, "clear", "load")
    /\ mie' = 0
    /\ UNCHANGED <<portVars, uxCriticalNesting, loaded, trapVars, bootVars, settled, calm, raced>>

\* ... if it was 0, reads and clears MIE ...
ReadAndClear(t) ==
    /\ Goto(t, "clear", "load")
    /\ g_uInterruptsPreserveMask' = mie
    /\ mie' = 0
    /\ UNCHANGED <<g_uInterruptsDisableCounter, uxCriticalNesting, loaded,
                   trapVars, bootVars, settled, calm, raced>>

\* ... and increments the counter: a load and a store.
LoadCounter(t) ==
    /\ Goto(t, "load", "store")
    /\ loaded' = [loaded EXCEPT ![t] = g_uInterruptsDisableCounter]
    /\ UNCHANGED <<mie, portVars, uxCriticalNesting, trapVars, bootVars, settled, calm, raced>>

StoreCounter(t) ==
    /\ Goto(t, "store", "nest")
    /\ g_uInterruptsDisableCounter' = loaded[t] + 1
    /\ loaded' = [loaded EXCEPT ![t] = 0]   \* a register, dead from here
    /\ UNCHANGED <<mie, g_uInterruptsPreserveMask, uxCriticalNesting,
                   trapVars, bootVars, settled, calm, raced>>

Nest(t) ==
    /\ Goto(t, "nest", "critical")
    /\ uxCriticalNesting' = [uxCriticalNesting EXCEPT ![t] = @ + 1]
    /\ UNCHANGED <<mie, portVars, loaded, trapVars, bootVars, settled, calm, raced>>

\* vTaskExitCritical: leave one section, and enable interrupts after the last.
Unnest(t) ==
    /\ Running(t)
    /\ pc[t] \in {"critical", "yielded"}
    /\ uxCriticalNesting' = [uxCriticalNesting EXCEPT ![t] = @ - 1]
    /\ pc' = [pc EXCEPT ![t] = IF uxCriticalNesting[t] = 1 THEN "reset"
                                                           ELSE "critical"]
    /\ UNCHANGED <<mie, portVars, loaded, trapVars, bootVars, settled, calm, raced>>

\* portENABLE_INTERRUPTS
ResetCounter(t) ==
    /\ Goto(t, "reset", "enable")
    /\ g_uInterruptsDisableCounter' = 0
    /\ settled' = TRUE
    /\ UNCHANGED <<mie, g_uInterruptsPreserveMask, uxCriticalNesting, loaded,
                   trapVars, bootVars, calm, raced>>

\* M_PSP_SET_CSR sets the bits of the mask and clears none.
SetMie(t) ==
    /\ Goto(t, "enable", "app")
    /\ mie' = IF g_uInterruptsPreserveMask = 1 THEN 1 ELSE mie
    /\ UNCHANGED <<portVars, uxCriticalNesting, loaded, trapVars, bootVars, settled, calm, raced>>
-------------------------------------------------------------------------------
\* The hardware of a trap, and the trap code up to the handler.
EnterTrap(cause) ==
    /\ trap' = cause
    /\ mpie' = mie /\ mie' = 0
    /\ g_rtosalIsInterruptContext' = g_rtosalIsInterruptContext + 1
    /\ atTrap' = [atTrap EXCEPT ![pxCurrentTCB] = mie]
    /\ UNCHANGED <<portVars, uxCriticalNesting, loaded, pxCurrentTCB, bootVars,
                   settled, raced>>

\* A timer, software or external interrupt.
Interrupt ==
    /\ xSchedulerRunning /\ trap = "none" /\ mie = 1
    /\ g_uInterruptsDisableCounter < MaxDisables
    /\ EnterTrap("interrupt")
    /\ calm' = (calm /\ settled)
    /\ UNCHANGED pc

\* portYIELD is an ecall.  A task that blocks yields outside critical sections;
\* xTaskResumeAll, the queue and the task functions yield as the last act of one.
Yield(t) ==
    /\ Goto(t, "app", "app")
    /\ EnterTrap("ecall")
    /\ UNCHANGED calm

YieldInCritical(t) ==
    /\ uxCriticalNesting[t] = 1
    /\ Goto(t, "critical", "yielded")
    /\ EnterTrap("ecall")
    /\ calm' = FALSE

\* vTaskSwitchContext, from the ecall handler, from the tick and at the end of
\* the software and external interrupts; with the scheduler suspended, or no
\* better task ready, it keeps the current one.
vTaskSwitchContext(t) ==
    /\ trap \in {"interrupt", "ecall"}
    /\ pxCurrentTCB' = t
    /\ trap' = "return"
    /\ UNCHANGED <<mie, mpie, g_rtosalIsInterruptContext, atTrap, portVars,
                   taskVars, bootVars, settled, calm, raced>>

\* Mutant: the way out of a trap forgets M_RTOSAL_CLEAR_INT_CONTEXT.
ReturnInContext ==
    /\ trap = "return"
    /\ trap' = "none"
    /\ mie' = mpie /\ mpie' = 1
    /\ UNCHANGED <<g_rtosalIsInterruptContext, pxCurrentTCB, atTrap, portVars,
                   taskVars, bootVars, settled, calm, raced>>

\* Mutant: the trap code returns with ret, not mret.
ReturnWithoutMret ==
    /\ trap = "return"
    /\ trap' = "none"
    /\ g_rtosalIsInterruptContext' = g_rtosalIsInterruptContext - 1
    /\ UNCHANGED <<mie, mpie, pxCurrentTCB, atTrap, portVars, taskVars, bootVars,
                   settled, calm, raced>>

\* M_RTOSAL_RESTORE_CONTEXT, M_RTOSAL_CLEAR_INT_CONTEXT and mret.
ReturnFromTrap ==
    /\ trap = "return"
    /\ trap' = "none"
    /\ g_rtosalIsInterruptContext' = g_rtosalIsInterruptContext - 1
    /\ mie' = mpie /\ mpie' = 1
    /\ raced' = (raced \/ (mpie = 0 /\ pc[pxCurrentTCB] = "clear"))
    /\ UNCHANGED <<pxCurrentTCB, atTrap, portVars, taskVars, bootVars, settled, calm>>
-------------------------------------------------------------------------------
TaskStep(t) ==
    \/ EnterTest(t) \/ ReadAndClear(t) \/ LoadCounter(t) \/ StoreCounter(t)
    \/ Nest(t) \/ Unnest(t) \/ ResetCounter(t) \/ SetMie(t)
    \/ Yield(t) \/ YieldInCritical(t)

TrapStep == ReturnFromTrap \/ \E t \in Tasks : vTaskSwitchContext(t)

Next == \/ CreateObject \/ StartScheduler
        \/ Interrupt \/ TrapStep
        \/ \E t \in Tasks : TaskStep(t)

Spec == Init /\ [][Next]_vars
-------------------------------------------------------------------------------
\* Every variable holds a value of its C type, and its counts stay in bounds.
TypeOK ==
    /\ mie \in {0, 1} /\ mpie \in {0, 1}
    /\ g_uInterruptsPreserveMask \in {0, 1}
    /\ g_uInterruptsDisableCounter \in Nat
    /\ g_rtosalIsInterruptContext \in {0, 1}
    /\ xSchedulerRunning \in BOOLEAN
    /\ pxCurrentTCB \in Tasks
    /\ uxCriticalNesting \in [Tasks -> 0 .. MaxNesting]
    /\ pc \in [Tasks -> Pc]
    /\ loaded \in [Tasks -> Nat]
    /\ boot \in 0 .. Creations
    /\ trap \in {"none", "interrupt", "ecall", "return"}
    /\ atTrap \in [Tasks -> {0, 1}]
    /\ settled \in BOOLEAN /\ calm \in BOOLEAN /\ raced \in BOOLEAN

\* rtosalIsInterruptContext answers what it says: the count is 1 exactly while
\* the hart is in a trap, no trap is taken inside a trap, and the handler runs
\* with interrupts disabled.
InterruptContextIsTrap ==
    /\ g_rtosalIsInterruptContext = IF trap = "none" THEN 0 ELSE 1
    /\ trap # "none" => mie = 0

\* task.h:178 of FreeRTOS, "Preemptive context switches cannot occur when in a
\* critical region": an interrupt never finds the current task in a section.
NoInterruptInSection ==
    trap = "interrupt" => uxCriticalNesting[pxCurrentTCB] = 0

\* It holds until an interrupt comes before the first section is left or a task
\* yields inside one.
CriticalSectionsAreNotInterrupted == calm => NoInterruptInSection

\* As long as the program is calm only the current task can be in a critical
\* section: two tasks never work on the kernel's lists at the same time.
CriticalSectionsExclude ==
    calm => \A t \in Tasks : pc[t] = "critical" => pxCurrentTCB = t

\* Interrupts are only disabled where the code asks for it: in a calm program a
\* task outside its critical sections always runs with MIE set.
InterruptsOnOutsideCritical ==
    calm => \A t \in Tasks : Running(t) /\ pc[t] = "app" => mie = 1

\* A trap saves mepc with the registers and leaves mstatus alone, so that a task
\* may resume with the MIE of the task that yielded, inside a section too.  It
\* does not keep it: whoever yielded where, a task that leaves its last section
\* enables interrupts, unless one resumed so between the test and the clearing.
ForeignMieIsNotKept ==
    [][\A t \in Tasks : SetMie(t) /\ ~raced => mie' = 1]_vars

\* rtosal_macros.inc:63, "this macro save mstatus and mepc CSRs on stack": a task
\* that a trap switched out resumes with the MIE it had.
ResumesWithOwnMie ==
    [][trap = "return" /\ trap' = "none" => mie' = atTrap[pxCurrentTCB]]_vars

\* portmacro.h:105, "we have to use a global parameter to preserve interrupts
\* status over disable & enable of interrupts": a task that leaves its last
\* section with nothing disabled has interrupts enabled.
InterruptsStatusIsPreserved ==
    [][\A t \in Tasks : SetMie(t) /\ g_uInterruptsDisableCounter = 0 => mie' = 1]_vars
-------------------------------------------------------------------------------
(***************************************************************************)
(* The inductive invariants of the proofs: PortInv holds of every program, *)
(* CalmInv adds what holds while it is calm, MaskInv what holds until a    *)
(* task loses the race at the disabling of interrupts.                     *)
(***************************************************************************)
\* How deep a task is nested at each place.
NestingInv ==
    \A t \in Tasks :
        /\ pc[t] \in {"app", "reset", "enable"} => uxCriticalNesting[t] = 0
        /\ pc[t] \in EnterPc => uxCriticalNesting[t] < MaxNesting
        /\ pc[t] \in {"critical", "yielded"} => uxCriticalNesting[t] > 0

PortInv == /\ TypeOK
           /\ InterruptContextIsTrap
           /\ NestingInv
           /\ ~xSchedulerRunning => trap = "none"

\* Where a task can lose the hart: it has disabled nothing there.
OpenPc == {"app", "clear", "enable"}

Suspended ==
    /\ \A t \in Tasks : t # pxCurrentTCB => pc[t] \in OpenPc
    /\ trap # "none" => pc[pxCurrentTCB] \in OpenPc /\ mpie = 1
    /\ \A t \in Tasks : pc[t] # "yielded"
    /\ \A t \in Tasks : pc[t] = "clear" => uxCriticalNesting[t] = 0

\* Until the first section is left the counter is not 0 and MIE stays set.
StartInv ==
    /\ ~xSchedulerRunning => ~settled /\ \A t \in Tasks : pc[t] = "app"
    /\ ~xSchedulerRunning /\ boot < Creations => g_uInterruptsDisableCounter > 0
    /\ xSchedulerRunning /\ ~settled =>
           /\ g_uInterruptsDisableCounter > 0
           /\ trap = "none" => mie = 1
           /\ trap # "interrupt"
           /\ \A t \in Tasks : pc[t] \notin {"clear", "enable"}

\* From then on the counter, MIE and the mask say where the current task is.
SettledInv ==
    settled =>
        /\ trap # "none" => g_uInterruptsDisableCounter = 0
        /\ pc[pxCurrentTCB] \in {"app", "clear"} =>
               /\ trap = "none" => mie = 1
               /\ g_uInterruptsDisableCounter = 0
        /\ pc[pxCurrentTCB] \in {"load", "store", "nest", "critical", "reset"} =>
               mie = 0 /\ g_uInterruptsPreserveMask = 1
        /\ pc[pxCurrentTCB] \in {"nest", "critical", "reset"} =>
               g_uInterruptsDisableCounter > 0
        /\ pc[pxCurrentTCB] = "enable" =>
               /\ trap = "none" => mie = 1 \/ g_uInterruptsPreserveMask = 1
               /\ g_uInterruptsDisableCounter = 0

CalmInv == PortInv /\ (calm => Suspended /\ StartInv /\ SettledInv)

\* MIE is clear only where the counter or the place of the current task tells
\* that interrupts were disabled, and then the mask says that they were enabled.
MaskInv ==
    ~raced =>
        /\ xSchedulerRunning /\ trap = "none" /\ mie = 0 =>
               /\ g_uInterruptsPreserveMask = 1
               /\ pc[pxCurrentTCB] # "clear"
               /\ \/ g_uInterruptsDisableCounter > 0
                  \/ pc[pxCurrentTCB] \in {"load", "store", "enable"}
        /\ trap # "none" /\ mpie = 0 =>
               g_uInterruptsPreserveMask = 1 /\ g_uInterruptsDisableCounter > 0
===============================================================================
