--------------------------- MODULE RtosalPortProofs ---------------------------
(***************************************************************************)
(* Proofs about RtosalPort, for every set of tasks, every number of        *)
(* creations before the start and every depth of nesting.                  *)
(***************************************************************************)
EXTENDS RtosalPort, TLAPS

LEMMA PortInit == Init => PortInv
<1> SUFFICES ASSUME Init PROVE PortInv
  OBVIOUS
<1>1. TypeOK
  <2>1. boot \in 0 .. Creations
    BY PortAssumption DEF Init
  <2>2. uxCriticalNesting \in [Tasks -> 0 .. MaxNesting]
    BY PortAssumption DEF Init
  <2>3. /\ pc \in [Tasks -> Pc] /\ loaded \in [Tasks -> Nat]
        /\ atTrap \in [Tasks -> {0, 1}]
    BY DEF Init, Pc
  <2> QED
    BY <2>1, <2>2, <2>3 DEF Init, TypeOK
<1>2. InterruptContextIsTrap /\ NestingInv /\ trap = "none"
  BY DEF Init, InterruptContextIsTrap, NestingInv, EnterPc
<1> QED
  BY <1>1, <1>2 DEF PortInv

\* Every step of the port, whatever the tasks do.
LEMMA PortStep == PortInv /\ [Next]_vars => PortInv'
<1> SUFFICES ASSUME PortInv, [Next]_vars PROVE PortInv'
  OBVIOUS
<1> USE PortAssumption
    DEF PortInv, TypeOK, InterruptContextIsTrap, NestingInv, Pc, EnterPc, ExitPc,
        Running, Goto, portVars, taskVars, trapVars, bootVars
<1>1. CASE CreateObject
  BY <1>1 DEF CreateObject, DisableAtBoot
<1>2. CASE StartScheduler
  BY <1>2 DEF StartScheduler
<1>3. CASE Interrupt
  BY <1>3 DEF Interrupt, EnterTrap
<1>4. CASE ReturnFromTrap
  BY <1>4 DEF ReturnFromTrap
<1>5. ASSUME NEW t \in Tasks, vTaskSwitchContext(t) PROVE PortInv'
  BY <1>5 DEF vTaskSwitchContext
<1>6. ASSUME NEW t \in Tasks, TaskStep(t) PROVE PortInv'
  <2>1. CASE EnterTest(t)
    BY <2>1 DEF EnterTest
  <2>2. CASE ReadAndClear(t)
    BY <2>2 DEF ReadAndClear
  <2>3. CASE LoadCounter(t)
    BY <2>3 DEF LoadCounter
  <2>4. CASE StoreCounter(t)
    BY <2>4 DEF StoreCounter
  <2>5. CASE Nest(t)
    BY <2>5 DEF Nest
  <2>6. CASE Unnest(t)
    BY <2>6 DEF Unnest
  <2>7. CASE ResetCounter(t)
    BY <2>7 DEF ResetCounter
  <2>8. CASE SetMie(t)
    BY <2>8 DEF SetMie
  <2>9. CASE Yield(t)
    BY <2>9 DEF Yield, EnterTrap
  <2>10. CASE YieldInCritical(t)
    <3>1. calm' \in BOOLEAN
      BY <2>10 DEF YieldInCritical
    <3>2. /\ uxCriticalNesting[t] = 1
          /\ Goto(t, "critical", "yielded")
          /\ EnterTrap("ecall")
      BY <2>10 DEF YieldInCritical
    <3> QED
      BY <3>1, <3>2 DEF EnterTrap
  <2> QED
    BY <1>6, <2>1, <2>2, <2>3, <2>4, <2>5, <2>6, <2>7, <2>8, <2>9, <2>10 DEF TaskStep
<1>7. CASE UNCHANGED vars
  BY <1>7 DEF vars
<1> QED
  BY <1>1, <1>2, <1>3, <1>4, <1>5, <1>6, <1>7 DEF Next, TrapStep

LEMMA CalmInit == Init => CalmInv
<1> SUFFICES ASSUME Init PROVE CalmInv
  OBVIOUS
<1>1. Suspended /\ SettledInv
  BY DEF Init, Suspended, SettledInv, OpenPc
<1>2. StartInv
  BY PortAssumption DEF Init, StartInv
<1> QED
  BY <1>1, <1>2, PortInit DEF CalmInv

\* The steps of a calm program, given that PortInv holds before and after.
LEMMA CalmStep == CalmInv /\ [Next]_vars => CalmInv'
<1> SUFFICES ASSUME CalmInv, [Next]_vars, calm'
             PROVE Suspended' /\ StartInv' /\ SettledInv'
  BY PortStep DEF CalmInv
<1>c. calm /\ (Interrupt => settled) /\ \A t \in Tasks : ~YieldInCritical(t)
  <2>1. calm \in BOOLEAN /\ settled \in BOOLEAN
    BY DEF CalmInv, PortInv, TypeOK
  <2>2. ASSUME NEW t \in Tasks, TaskStep(t) PROVE calm /\ ~YieldInCritical(t)
    BY <2>1, <2>2
       DEF TaskStep, EnterTest, ReadAndClear, LoadCounter, StoreCounter, Nest, Unnest,
           ResetCounter, SetMie, Yield, YieldInCritical
  <2>3. \A t \in Tasks : ~YieldInCritical(t)
    BY DEF YieldInCritical
  <2>4. CASE Interrupt
    BY <2>1, <2>3, <2>4 DEF Interrupt
  <2>5. ASSUME CreateObject \/ StartScheduler \/ TrapStep \/ UNCHANGED vars PROVE calm
    BY <2>5 DEF CreateObject, StartScheduler, TrapStep, ReturnFromTrap,
                vTaskSwitchContext, vars
  <2> QED
    BY <2>2, <2>3, <2>4, <2>5 DEF Next
<1> USE PortAssumption
    DEF Suspended, StartInv, SettledInv, OpenPc,
        Running, Goto, portVars, taskVars, trapVars, bootVars
<1>0. /\ TypeOK /\ InterruptContextIsTrap /\ NestingInv
      /\ ~xSchedulerRunning => trap = "none"
      /\ Suspended /\ StartInv /\ SettledInv
  BY <1>c DEF CalmInv, PortInv
<1>1. CASE CreateObject
  BY <1>0, <1>1 DEF CreateObject, DisableAtBoot, TypeOK
<1>2. CASE StartScheduler
  BY <1>0, <1>2 DEF StartScheduler, TypeOK
<1>3. CASE Interrupt
  BY <1>0, <1>c, <1>3 DEF Interrupt, EnterTrap, TypeOK, Pc, EnterPc, ExitPc
<1>4. CASE ReturnFromTrap
  BY <1>0, <1>4 DEF ReturnFromTrap, TypeOK
<1>5. ASSUME NEW t \in Tasks, vTaskSwitchContext(t)
      PROVE Suspended' /\ StartInv' /\ SettledInv'
  BY <1>0, <1>5 DEF vTaskSwitchContext, TypeOK
<1>6. ASSUME NEW t \in Tasks, TaskStep(t)
      PROVE Suspended' /\ StartInv' /\ SettledInv'
  <2> USE <1>0
  <2>1. CASE EnterTest(t)
    BY <2>1 DEF EnterTest, TypeOK, NestingInv
  <2>2. CASE ReadAndClear(t)
    BY <2>2 DEF ReadAndClear, TypeOK
  <2>3. CASE LoadCounter(t)
    BY <2>3 DEF LoadCounter, TypeOK
  <2>4. CASE StoreCounter(t)
    BY <2>4 DEF StoreCounter, TypeOK
  <2>5. CASE Nest(t)
    BY <2>5 DEF Nest, TypeOK
  <2>6. CASE Unnest(t)
    BY <2>6 DEF Unnest, TypeOK
  <2>7. CASE ResetCounter(t)
    BY <2>7 DEF ResetCounter, TypeOK
  <2>8. CASE SetMie(t)
    BY <2>8 DEF SetMie, TypeOK
  <2>9. CASE Yield(t)
    BY <2>9 DEF Yield, EnterTrap, TypeOK
  <2>10. CASE YieldInCritical(t)
    BY <1>c, <2>10
  <2> QED
    BY <1>6, <2>1, <2>2, <2>3, <2>4, <2>5, <2>6, <2>7, <2>8, <2>9, <2>10 DEF TaskStep
<1>7. CASE UNCHANGED vars
  BY <1>0, <1>7 DEF vars
<1> QED
  BY <1>1, <1>2, <1>3, <1>4, <1>5, <1>6, <1>7 DEF Next, TrapStep

LEMMA PortInvariance == Spec => []PortInv
  BY PortInit, PortStep, PTL DEF Spec

LEMMA CalmInvariance == Spec => []CalmInv
  BY CalmInit, CalmStep, PTL DEF Spec

\* Every variable keeps a value of its C type, whatever the tasks do.
THEOREM PortTypeCorrectness == Spec => []TypeOK
<1>1. PortInv => TypeOK
  BY DEF PortInv
<1> QED
  BY <1>1, PortInvariance, PTL

\* rtosalIsInterruptContext tells tasks from handlers, and no trap interrupts
\* the trap code, whatever the tasks do.
THEOREM InterruptContextIsExact == Spec => []InterruptContextIsTrap
<1>1. PortInv => InterruptContextIsTrap
  BY DEF PortInv
<1> QED
  BY <1>1, PortInvariance, PTL

\* Until an interrupt precedes the first section or a task yields inside one, no
\* interrupt arrives inside a critical section.
THEOREM CalmSectionsAreNotInterrupted == Spec => []CriticalSectionsAreNotInterrupted
<1>1. CalmInv => CriticalSectionsAreNotInterrupted
  BY DEF CalmInv, PortInv, TypeOK, Suspended, StartInv, NestingInv, OpenPc,
         NoInterruptInSection, CriticalSectionsAreNotInterrupted
<1> QED
  BY <1>1, CalmInvariance, PTL

\* Until then one task at a time is inside a critical section.
THEOREM CalmSectionsExclude == Spec => []CriticalSectionsExclude
<1>1. CalmInv => CriticalSectionsExclude
  BY DEF CalmInv, Suspended, OpenPc, CriticalSectionsExclude
<1> QED
  BY <1>1, CalmInvariance, PTL

\* Until then a task outside its sections runs with interrupts enabled.
THEOREM CalmInterruptsOn == Spec => []InterruptsOnOutsideCritical
<1>1. CalmInv => InterruptsOnOutsideCritical
  BY DEF CalmInv, StartInv, SettledInv, Running, InterruptsOnOutsideCritical
<1> QED
  BY <1>1, CalmInvariance, PTL

\* What the mask, the counter and MIE say of one another, whatever the tasks do,
\* until a task resumes with MIE clear between its test and the clearing.
LEMMA MaskStep == PortInv /\ MaskInv /\ [Next]_vars => MaskInv'
<1> SUFFICES ASSUME PortInv, MaskInv, [Next]_vars, ~raced' PROVE MaskInv'
  BY DEF MaskInv
<1>r. ~raced
  <2>1. CASE ReturnFromTrap
    BY <2>1 DEF ReturnFromTrap
  <2>2. ASSUME NEW t \in Tasks, TaskStep(t) PROVE ~raced
    BY <2>2
       DEF TaskStep, EnterTest, ReadAndClear, LoadCounter, StoreCounter, Nest, Unnest,
           ResetCounter, SetMie, Yield, YieldInCritical, EnterTrap
  <2> QED
    BY <2>1, <2>2
       DEF Next, CreateObject, StartScheduler, Interrupt, EnterTrap, TrapStep,
           vTaskSwitchContext, vars
<1> USE DEF Running, Goto, portVars, taskVars, trapVars, bootVars, TypeOK
<1>0. /\ TypeOK /\ MaskInv /\ ~raced
      /\ ~xSchedulerRunning => trap = "none"
  BY <1>r DEF PortInv
<1>1. CASE CreateObject
  BY <1>0, <1>1 DEF CreateObject, MaskInv
<1>2. CASE StartScheduler
  BY <1>0, <1>2 DEF StartScheduler, MaskInv
<1>3. CASE Interrupt
  BY <1>0, <1>3 DEF Interrupt, EnterTrap, MaskInv
<1>4. CASE ReturnFromTrap
  BY <1>0, <1>4 DEF ReturnFromTrap, MaskInv
<1>5. ASSUME NEW t \in Tasks, vTaskSwitchContext(t) PROVE MaskInv'
  BY <1>0, <1>5 DEF vTaskSwitchContext, MaskInv
<1>6. ASSUME NEW t \in Tasks, TaskStep(t) PROVE MaskInv'
  <2> USE <1>0 DEF MaskInv
  <2>1. CASE EnterTest(t)
    BY <2>1 DEF EnterTest
  <2>2. CASE ReadAndClear(t)
    BY <2>2 DEF ReadAndClear
  <2>3. CASE LoadCounter(t)
    BY <2>3 DEF LoadCounter
  <2>4. CASE StoreCounter(t)
    BY <2>4 DEF StoreCounter
  <2>5. CASE Nest(t)
    BY <2>5 DEF Nest
  <2>6. CASE Unnest(t)
    BY <2>6 DEF Unnest
  <2>7. CASE ResetCounter(t)
    BY <2>7 DEF ResetCounter
  <2>8. CASE SetMie(t)
    BY <2>8 DEF SetMie
  <2>9. CASE Yield(t)
    BY <2>9 DEF Yield, EnterTrap
  <2>10. CASE YieldInCritical(t)
    BY <2>10 DEF YieldInCritical, EnterTrap
  <2> QED
    BY <1>6, <2>1, <2>2, <2>3, <2>4, <2>5, <2>6, <2>7, <2>8, <2>9, <2>10 DEF TaskStep
<1>7. CASE UNCHANGED vars
  BY <1>0, <1>7 DEF vars, MaskInv
<1> QED
  BY <1>1, <1>2, <1>3, <1>4, <1>5, <1>6, <1>7 DEF Next, TrapStep

\* A task that resumed with the MIE of another, yields inside sections included,
\* gives it back: it leaves its last section with interrupts enabled.
THEOREM ForeignMieIsGivenBack == Spec => ForeignMieIsNotKept
<1> DEFINE Enabled == \A t \in Tasks : SetMie(t) /\ ~raced => mie' = 1
<1>1. Init => MaskInv
  BY DEF Init, MaskInv
<1>2. PortInv /\ MaskInv => Enabled
  BY DEF PortInv, TypeOK, MaskInv, SetMie, Goto, Running
<1>3. PortInv /\ MaskInv /\ [Next]_vars => [Enabled]_vars
  BY <1>2
<1> QED
  BY <1>1, <1>3, PortInit, PortStep, MaskStep, PTL DEF Spec, ForeignMieIsNotKept
===============================================================================
