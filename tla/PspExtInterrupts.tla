--------------------------- MODULE PspExtInterrupts ---------------------------
(***************************************************************************)
(* External interrupts of SweRV EH2: psp_ext_interrupts_eh2.c over the     *)
(* interrupt controller (PIC) both harts share, the trigger register of    *)
(* the board that raises the lines, and handlers as those of               *)
(* demo_external_interrupts.c.                                             *)
(*                                                                         *)
(* A hart runs in two contexts: 0 is the application, 1 an interrupt that  *)
(* arrived at any point of it where mstatus.MIE was set.  A service reads  *)
(* or writes one shared register; the local instructions around that       *)
(* access are one step with it.                                            *)
(***************************************************************************)
EXTENDS PspInternalMutex, Integers

CONSTANTS
    Harts,        \* hart ids
    Irqs,         \* numbers of the interrupt lines in use, none of them 0
    EdgeIrqs,     \* the lines the board pulses; it holds the others until cleared
    ActiveLow,    \* the lines whose level is low when they ask for service
    MaxPriority,  \* highest priority and threshold (15 in the PIC)
    Owner,        \* [line -> hart that serves it]
    Services,     \* the services the application calls
    Disciplined,  \* is a line configured and delegated by its owner only, enabled
                  \* when it is set up, and triggered when the board is quiet
    Shared        \* services that, even so, either hart calls for any line

ASSUME LinesAssumption ==
    /\ Harts \subseteq {0, 1}
    /\ Irqs \subseteq Nat \ {0}
    /\ EdgeIrqs \subseteq Irqs
    /\ ActiveLow \subseteq Irqs
    /\ MaxPriority \in Nat \ {0}
    /\ Owner \in [Irqs -> Harts]
    /\ Disciplined \in BOOLEAN

VARIABLES
    meie, meidel, meipl,  \* [line -> enable bit, hart, priority]
    meigwctrl,            \* [line -> bits set in its gateway's control register]
    gateway,              \* [line -> the edge its gateway has latched]
    mpiccfg,              \* priority order of the PIC
    mie,                  \* [hart -> mstatus.MIE]
    meipt, meicurpl,      \* [hart -> thresholds]
    meicidpl, meihap,     \* [hart -> captured priority, captured line]
    meivt,                \* [hart -> row of g_ExtInterruptHandlers it points to]
    g_ExtInterruptHandlers,   \* [hart -> [line -> handler]]
    generation,           \* active bits of the board's trigger register
    ctx,                  \* [hart -> [context -> the call it is in]]
    on,                   \* [hart -> has the application enabled interrupts]
    requested,            \* [line -> gateway bits that services have set]
    registered,           \* lines their owner has registered a handler for
    triggered             \* lines triggered and not cleared since

picVars   == <<meie, meidel, meipl, meigwctrl, mpiccfg>>
csrVars   == <<meipt, meicurpl, meicidpl, meihap, meivt>>
boardVars == <<gateway, generation, triggered>>
histVars  == <<on, requested, registered>>
vars == <<g_uiInternalPspMutex, picVars, csrVars, boardVars, histVars, mie,
          g_ExtInterruptHandlers, ctx>>

PIC  == E_MUTEX_INTERNAL_FOR_EXT_INTERRUPTS
NULL == -1
ISR  == 1
NoLine == 0                      \* the claim id when no interrupt is pending
GatewayBits == {"type", "polarity"}
Level == 0 .. MaxPriority

\* Services that write a register of the PIC under the internal mutex.
Locked == {"enable", "disable", "priority", "type", "polarity", "clear",
           "order", "delegate"}
Op == Locked \cup {"none"}
Pc == {"none", "idle", "lock", "disable", "write", "unlock", "table",
       "capture", "load", "bsp_read", "bsp_write", "mret", "lost"}

\* reg and byte hold what the call has read of a control register or of the
\* trigger register, outer the MIE that RegisterISR saved around the nested call
\* of DelegateToHart (NULL outside RegisterISR).
Call == [pc : Pc, op : Op, irq : Irqs \cup {NoLine}, arg : Level \cup {0, 1},
         saved : {0, 1}, outer : {NULL, 0, 1},
         reg : SUBSET GatewayBits, byte : SUBSET Irqs]
At(place) == [pc |-> place, op |-> "none", irq |-> NoLine, arg |-> 0,
              saved |-> 0, outer |-> NULL, reg |-> {}, byte |-> {}]

\* The context that runs on a hart, and a step of it from one place to another.
Running(h) == IF ctx[h][1].pc = "none" THEN 0 ELSE 1
Cur(h)     == ctx[h][Running(h)]
Become(h, c) == ctx' = [ctx EXCEPT ![h][Running(h)] = c]
Goto(h, from, to) == Cur(h).pc = from /\ Become(h, [Cur(h) EXCEPT !.pc = to])
Return(h) == Become(h, At(IF Running(h) = 0 THEN "idle" ELSE "mret"))

\* Between the internal Lock and Unlock.
InSection(h, l) == ctx[h][l].pc \in {"disable", "write", "unlock"}
InPicSection(h) == \E l \in {0, 1} : InSection(h, l)
-------------------------------------------------------------------------------
\* The lines as the PIC sees them.
Asserted(i) == (i \in generation \ EdgeIrqs)
                   # ((i \in ActiveLow) # ("polarity" \in meigwctrl[i]))
Pending(i)  == IF "type" \in meigwctrl[i] THEN gateway[i] = 1 ELSE Asserted(i)

\* Priority order: 0 standard, 1 reversed.
Above(p, t) == IF mpiccfg = 0 THEN p > t ELSE p < t
Deliverable(h, i) == /\ Pending(i) /\ meie[i] = 1 /\ meidel[i] = h
                     /\ Above(meipl[i], meipt[h]) /\ Above(meipl[i], meicurpl[h])
\* The line the PIC offers: the best priority, the lowest number among equals.
Best(h, i) == /\ Deliverable(h, i)
              /\ \A j \in Irqs \ {i} : Deliverable(h, j) =>
                     Above(meipl[i], meipl[j]) \/ (meipl[i] = meipl[j] /\ i < j)
Offered(h) == IF \E i \in Irqs : Best(h, i) THEN CHOOSE i \in Irqs : Best(h, i)
              ELSE NoLine

\* The controller after reset and pspMutexInitPspMutexs: nothing enabled.
Init ==
    /\ g_uiInternalPspMutex = [n \in InternalMutexes |-> D_PSP_MUTEX_UNLOCKED]
    /\ meie = [i \in Irqs |-> 0] /\ meidel = [i \in Irqs |-> 0]
    /\ meipl = [i \in Irqs |-> 0] /\ meigwctrl = [i \in Irqs |-> {}]
    /\ gateway = [i \in Irqs |-> 0] /\ mpiccfg = 0
    /\ mie = [h \in Harts |-> 0]
    /\ meipt = [h \in Harts |-> 0] /\ meicurpl = [h \in Harts |-> 0]
    /\ meicidpl = [h \in Harts |-> 0] /\ meihap = [h \in Harts |-> NoLine]
    /\ meivt = [h \in Harts |-> NULL]
    /\ g_ExtInterruptHandlers = [h \in Harts |-> [i \in Irqs \cup {NoLine} |-> NULL]]
    /\ generation = {} /\ triggered = {}
    /\ ctx = [h \in Harts |-> [l \in {0, 1} |-> At(IF l = 0 THEN "idle" ELSE "none")]]
    /\ on = [h \in Harts |-> FALSE]
    /\ requested = [i \in Irqs |-> {}]
    /\ registered = {}
-------------------------------------------------------------------------------
\* The application.  `arg` is the enable bit, the priority, the type or polarity
\* bit, the order or the hart that the service writes.
Argument(op) == CASE op = "enable"  -> {1}
                  [] op \in {"disable", "clear", "register"} -> {0}
                  [] op \in {"type", "polarity", "order"} -> {0, 1}
                  [] op = "priority" -> Level
                  [] op = "delegate" -> Harts

\* What the lines need before they are enabled: the board's type and polarity at
\* the gateway, and a handler that their owner has registered.  As long as all
\* interrupts are off the handler may come later, as in the demo.
Wanted(i) == (IF i \in EdgeIrqs THEN {"type"} ELSE {})
                 \cup (IF i \in ActiveLow THEN {"polarity"} ELSE {})
SetUp(i)  == /\ requested[i] = Wanted(i)
             /\ i \in registered \/ \A h \in Harts : ~on[h]
MayCall(h, op, i, a) ==
    \/ ~Disciplined
    \/ /\ Owner[i] = h \/ op \in Shared
       /\ op = "order" => ~on[h] /\ \A j \in Irqs : Owner[j] = h
       /\ op = "delegate" => a = h
       /\ op \in GatewayBits => a = (IF op \in Wanted(i) THEN 1 ELSE 0)
       /\ op = "enable" => SetUp(i)

CallService(h, op, i, a) ==
    /\ Cur(h).pc = "idle" /\ op \in Services \cap Locked
    /\ a \in Argument(op) /\ MayCall(h, op, i, a)
    /\ Become(h, [At("lock") EXCEPT !.op = op, !.irq = i, !.arg = a])
    /\ UNCHANGED <<g_uiInternalPspMutex, picVars, csrVars, boardVars, histVars,
                   mie, g_ExtInterruptHandlers>>

\* Mutant: the service does not take the internal mutex.
ServiceNoLock(h) ==
    /\ Goto(h, "lock", "disable")
    /\ UNCHANGED <<g_uiInternalPspMutex, picVars, csrVars, boardVars, histVars,
                   mie, g_ExtInterruptHandlers>>

\* pspInternalMutexLock comes first in every service, with interrupts as they are.
ServiceLock(h) ==
    /\ Goto(h, "lock", "disable")
    /\ pspInternalMutexLock(PIC)
    /\ UNCHANGED <<picVars, csrVars, boardVars, histVars, mie,
                   g_ExtInterruptHandlers>>

\* Interrupts disabled; SetType and SetPolarity then load the control register.
ServiceDisable(h) ==
    /\ Cur(h).pc = "disable"
    /\ Become(h, [Cur(h) EXCEPT !.pc = "write", !.saved = mie[h],
                     !.reg = IF Cur(h).op \in GatewayBits
                             THEN meigwctrl[Cur(h).irq] ELSE {}])
    /\ mie' = [mie EXCEPT ![h] = 0]
    /\ UNCHANGED <<g_uiInternalPspMutex, picVars, csrVars, boardVars, histVars,
                   g_ExtInterruptHandlers>>

\* Mutant: the type is shifted to the offset of the polarity, and conversely.
SwappedGatewayBit(c) == IF c.arg = 1 THEN GatewayBits \ {c.op} ELSE {}

\* The value shifted to its place in the gateway's control register.
GatewayBit(c) == IF c.arg = 1 THEN {c.op} ELSE {}

\* The store of each service, c being the call.
WriteEnable(c) ==
    /\ c.op \in {"enable", "disable"}
    /\ meie' = [meie EXCEPT ![c.irq] = c.arg]
    /\ UNCHANGED <<meidel, meipl, meigwctrl, mpiccfg, gateway, triggered, requested>>

WriteDelegation(c) ==
    /\ c.op = "delegate"
    /\ meidel' = [meidel EXCEPT ![c.irq] = c.arg]
    /\ UNCHANGED <<meie, meipl, meigwctrl, mpiccfg, gateway, triggered, requested>>

WritePriority(c) ==
    /\ c.op = "priority"
    /\ meipl' = [meipl EXCEPT ![c.irq] = c.arg]
    /\ UNCHANGED <<meie, meidel, meigwctrl, mpiccfg, gateway, triggered, requested>>

WriteOrder(c) ==
    /\ c.op = "order"
    /\ mpiccfg' = c.arg
    /\ UNCHANGED <<meie, meidel, meipl, meigwctrl, gateway, triggered, requested>>

\* M_PSP_SET_REGISTER_32 can only add bits.
WriteGateway(c) ==
    /\ c.op \in GatewayBits
    /\ meigwctrl' = [meigwctrl EXCEPT ![c.irq] = c.reg \cup GatewayBit(c)]
    /\ requested' = [requested EXCEPT ![c.irq] = IF c.arg = 1 THEN @ \cup {c.op} ELSE @]
    /\ UNCHANGED <<meie, meidel, meipl, mpiccfg, gateway, triggered>>

\* A latched edge is dropped by a write to the gateway's clear register.
ClearGateway(c) ==
    /\ c.op = "clear"
    /\ gateway' = [gateway EXCEPT ![c.irq] = 0]
    /\ triggered' = triggered \ ({c.irq} \cap EdgeIrqs)
    /\ UNCHANGED <<meie, meidel, meipl, meigwctrl, mpiccfg, requested>>

WriteRegister(c) ==
    \/ WriteEnable(c) \/ WriteDelegation(c) \/ WritePriority(c)
    \/ WriteOrder(c) \/ WriteGateway(c) \/ ClearGateway(c)

\* The store, then pspMachineInterruptsRestore.
ServiceWrite(h) ==
    /\ Goto(h, "write", "unlock")
    /\ WriteRegister(Cur(h))
    /\ mie' = [mie EXCEPT ![h] = Cur(h).saved]
    /\ UNCHANGED <<g_uiInternalPspMutex, csrVars, generation, on, registered,
                   g_ExtInterruptHandlers>>

\* Mutant: DelegateToHart's caller does not restore what it saved.
UnlockWithoutRestore(h) ==
    /\ Cur(h).pc = "unlock"
    /\ Return(h)
    /\ pspInternalMutexUnlock(PIC)
    /\ registered' = IF Cur(h).outer = NULL THEN registered
                                            ELSE registered \cup {Cur(h).irq}
    /\ UNCHANGED <<picVars, csrVars, boardVars, on, requested, mie,
                   g_ExtInterruptHandlers>>

\* Unlock; RegisterISR then restores the interrupts it disabled, and the call
\* returns.
ServiceUnlock(h) ==
    /\ Cur(h).pc = "unlock"
    /\ Return(h)
    /\ pspInternalMutexUnlock(PIC)
    /\ mie' = IF Cur(h).outer = NULL THEN mie
                                     ELSE [mie EXCEPT ![h] = Cur(h).outer]
    /\ registered' = IF Cur(h).outer = NULL THEN registered
                                            ELSE registered \cup {Cur(h).irq}
    /\ UNCHANGED <<picVars, csrVars, boardVars, on, requested,
                   g_ExtInterruptHandlers>>
-------------------------------------------------------------------------------
\* RegisterISR: interrupts off, MEIVT (SetVectorTableAddress disables and
\* restores interrupts that are off already), the hart's row of the table, then
\* DelegateToHart as a nested service.
RegisterISR(h, i) ==
    /\ Cur(h).pc = "idle" /\ "register" \in Services /\ MayCall(h, "register", i, 0)
    /\ Become(h, [At("table") EXCEPT !.op = "delegate", !.irq = i, !.arg = h,
                                     !.outer = mie[h]])
    /\ mie' = [mie EXCEPT ![h] = 0]
    /\ UNCHANGED <<g_uiInternalPspMutex, picVars, csrVars, boardVars, histVars,
                   g_ExtInterruptHandlers>>

\* Mutant: the handler goes to the first row, whichever hart registers it.
RegisterInRowZero(h) ==
    /\ Goto(h, "table", "lock")
    /\ meivt' = [meivt EXCEPT ![h] = h]
    /\ g_ExtInterruptHandlers' = [g_ExtInterruptHandlers EXCEPT ![0][Cur(h).irq] = ISR]
    /\ UNCHANGED <<g_uiInternalPspMutex, picVars, meipt, meicurpl, meicidpl,
                   meihap, boardVars, histVars, mie>>

RegisterTable(h) ==
    /\ Goto(h, "table", "lock")
    /\ meivt' = [meivt EXCEPT ![h] = h]
    /\ g_ExtInterruptHandlers' = [g_ExtInterruptHandlers EXCEPT ![h][Cur(h).irq] = ISR]
    /\ UNCHANGED <<g_uiInternalPspMutex, picVars, meipt, meicurpl, meicidpl,
                   meihap, boardVars, histVars, mie>>

\* SetThreshold and SetNestingPriorityThreshold write only the hart's own
\* registers, with interrupts disabled throughout: one step each.
SetThreshold(h, t) ==
    /\ Cur(h).pc = "idle" /\ "threshold" \in Services
    /\ meipt' = [meipt EXCEPT ![h] = t]
    /\ UNCHANGED <<g_uiInternalPspMutex, picVars, meicurpl, meicidpl, meihap,
                   meivt, boardVars, histVars, mie, g_ExtInterruptHandlers, ctx>>

SetNestingPriorityThreshold(h, t) ==
    /\ Cur(h).pc = "idle" /\ "nesting" \in Services
    /\ meicidpl' = [meicidpl EXCEPT ![h] = t]
    /\ meicurpl' = [meicurpl EXCEPT ![h] = t]
    /\ UNCHANGED <<g_uiInternalPspMutex, picVars, meipt, meihap, meivt,
                   boardVars, histVars, mie, g_ExtInterruptHandlers, ctx>>

\* A line that is enabled or being enabled.
Enabled(i) == \/ meie[i] = 1
              \/ \E h \in Harts, l \in {0, 1} : ctx[h][l].op = "enable" /\ ctx[h][l].irq = i

\* pspMachineInterruptsEnable and the MEIE bit of mie, as at the end of
\* demoDefaultInitialization, where every line that is enabled has its handler.
EnableInterrupts(h) ==
    /\ Cur(h).pc = "idle" /\ ~on[h]
    /\ Disciplined => \A i \in Irqs : Enabled(i) => i \in registered
    /\ on' = [on EXCEPT ![h] = TRUE]
    /\ mie' = [mie EXCEPT ![h] = 1]
    /\ UNCHANGED <<g_uiInternalPspMutex, picVars, csrVars, boardVars, requested,
                   registered, g_ExtInterruptHandlers, ctx>>

\* bspGenerateExtInterrupt stores a byte that holds line i's bits and no others.
GenerateExtInterrupt(h, i) ==
    /\ Cur(h).pc = "idle" /\ "generate" \in Services
    /\ Disciplined =>
           /\ triggered = {}
           /\ \A g \in Harts : ctx[g][1].pc \notin {"bsp_read", "bsp_write"}
    /\ generation' = {i}
    /\ triggered' = triggered \cup {i}
    /\ gateway' = [gateway EXCEPT ![i] = 1]
    /\ UNCHANGED <<g_uiInternalPspMutex, picVars, csrVars, histVars, mie,
                   g_ExtInterruptHandlers, ctx>>
-------------------------------------------------------------------------------
\* An interrupt: taken between any two steps of the application while MIE is
\* set, never inside another (the trap clears MIE).
Trap(h) ==
    /\ Running(h) = 0 /\ mie[h] = 1 /\ Offered(h) # NoLine
    /\ ctx' = [ctx EXCEPT ![h][1] = At("capture")]
    /\ mie' = [mie EXCEPT ![h] = 0]
    /\ UNCHANGED <<g_uiInternalPspMutex, picVars, csrVars, boardVars, histVars,
                   g_ExtInterruptHandlers>>

\* pspMachineExtInterruptIsr, and the vector table's M_PSP_CALL_EXT_INT_HANDLER:
\* the write of MEICPCT captures the line the PIC offers now, which need not be
\* the one that caused the trap.
Capture(h) ==
    /\ Goto(h, "capture", "load")
    /\ meihap' = [meihap EXCEPT ![h] = Offered(h)]
    /\ meicidpl' = [meicidpl EXCEPT ![h] = IF Offered(h) = NoLine THEN 0
                                            ELSE meipl[Offered(h)]]
    /\ UNCHANGED <<g_uiInternalPspMutex, picVars, meipt, meicurpl, meivt,
                   boardVars, histVars, mie, g_ExtInterruptHandlers>>

\* The handler that MEIHAP points to in the table of MEIVT.
Handler(h) == IF meivt[h] = NULL THEN NULL
              ELSE g_ExtInterruptHandlers[meivt[h]][meihap[h]]

\* The call of the handler; a null one loses the hart.  A handler finds its line
\* with GetClaimId and clears it: a level at the board, an edge at the gateway.
CallHandler(h) ==
    /\ Cur(h).pc = "load"
    /\ \/ Handler(h) = NULL /\ Become(h, At("lost"))
       \/ /\ Handler(h) = ISR /\ meihap[h] \in EdgeIrqs
          /\ Become(h, [At("lock") EXCEPT !.op = "clear", !.irq = meihap[h]])
       \/ /\ Handler(h) = ISR /\ meihap[h] \notin EdgeIrqs
          /\ Become(h, [At("bsp_read") EXCEPT !.irq = meihap[h]])
    /\ UNCHANGED <<g_uiInternalPspMutex, picVars, csrVars, boardVars, histVars,
                   mie, g_ExtInterruptHandlers>>

\* bspClearExtInterrupt: a load and a store of the byte both harts share.
ClearRead(h) ==
    /\ Cur(h).pc = "bsp_read"
    /\ Become(h, [Cur(h) EXCEPT !.pc = "bsp_write", !.byte = generation])
    /\ UNCHANGED <<g_uiInternalPspMutex, picVars, csrVars, boardVars, histVars,
                   mie, g_ExtInterruptHandlers>>

ClearWrite(h) ==
    /\ Cur(h).pc = "bsp_write"
    /\ Return(h)
    /\ generation' = Cur(h).byte \ {Cur(h).irq}
    /\ triggered' = triggered \ {Cur(h).irq}
    /\ UNCHANGED <<g_uiInternalPspMutex, picVars, csrVars, gateway, histVars,
                   mie, g_ExtInterruptHandlers>>

\* The trap returns to the instruction it interrupted, with interrupts enabled.
\* Nothing reads what it captured any more: the model forgets it.
Mret(h) ==
    /\ Cur(h).pc = "mret"
    /\ ctx' = [ctx EXCEPT ![h][1] = At("none")]
    /\ mie' = [mie EXCEPT ![h] = 1]
    /\ meihap' = [meihap EXCEPT ![h] = NoLine]
    /\ meicidpl' = [meicidpl EXCEPT ![h] = 0]
    /\ UNCHANGED <<g_uiInternalPspMutex, picVars, meipt, meicurpl, meivt,
                   boardVars, histVars, g_ExtInterruptHandlers>>
-------------------------------------------------------------------------------
\* What a hart does of its own accord, and what it does once in a call.
AppStep(h) ==
    \/ \E op \in Locked, i \in Irqs : \E a \in Argument(op) : CallService(h, op, i, a)
    \/ \E i \in Irqs : RegisterISR(h, i) \/ GenerateExtInterrupt(h, i)
    \/ \E t \in Level : SetThreshold(h, t) \/ SetNestingPriorityThreshold(h, t)
    \/ EnableInterrupts(h)

CallStep(h) ==
    \/ ServiceLock(h) \/ ServiceDisable(h) \/ ServiceWrite(h) \/ ServiceUnlock(h)
    \/ RegisterTable(h)
    \/ Capture(h) \/ CallHandler(h) \/ ClearRead(h) \/ ClearWrite(h) \/ Mret(h)

Next == \E h \in Harts : AppStep(h) \/ CallStep(h) \/ Trap(h)

Spec == Init /\ [][Next]_vars

\* A hart in a call keeps executing.  Hardware takes an interrupt that stays
\* offered while MIE is set again and again.  The lock is not fair.
Fairness == \A h \in Harts : WF_vars(CallStep(h)) /\ SF_vars(Trap(h))

FairSpec == Spec /\ Fairness
-------------------------------------------------------------------------------
\* Every variable holds a value of its register or C type.
RegistersTypeOK ==
    /\ g_uiInternalPspMutex \in [InternalMutexes -> LockWord]
    /\ meie \in [Irqs -> {0, 1}] /\ meidel \in [Irqs -> {0, 1}]
    /\ meipl \in [Irqs -> Level] /\ meigwctrl \in [Irqs -> SUBSET GatewayBits]
    /\ gateway \in [Irqs -> {0, 1}] /\ mpiccfg \in {0, 1}
    /\ mie \in [Harts -> {0, 1}]
    /\ meipt \in [Harts -> Level] /\ meicurpl \in [Harts -> Level]
    /\ meicidpl \in [Harts -> Level] /\ meihap \in [Harts -> Irqs \cup {NoLine}]
    /\ meivt \in [Harts -> {NULL, 0, 1}]
    /\ g_ExtInterruptHandlers \in [Harts -> [Irqs \cup {NoLine} -> {NULL, ISR}]]
    /\ generation \in SUBSET Irqs /\ triggered \in SUBSET Irqs
    /\ on \in [Harts -> BOOLEAN]
    /\ requested \in [Irqs -> SUBSET GatewayBits]
    /\ registered \in SUBSET Irqs

\* And every context is in a call.
TypeOK == RegistersTypeOK /\ ctx \in [Harts -> [{0, 1} -> Call]]

\* "make sure that it will not be accessed simultaneously by more than single
\* hart" (psp_ext_interrupts_eh2.c:184): one hart at a time, application or
\* handler, is between the internal Lock and Unlock, and the word is set then.
PicSectionsExclude ==
    /\ \A h, g \in Harts : InPicSection(h) /\ InPicSection(g) => h = g
    /\ g_uiInternalPspMutex[PIC] = D_PSP_MUTEX_LOCKED
           <=> \E h \in Harts : InPicSection(h)

\* No bit that SetType or SetPolarity set at a gateway is lost to a concurrent
\* read-modify-write of the other hart.
GatewaysKeepRequests == \A i \in Irqs : meigwctrl[i] = requested[i]

\* Once the application has enabled interrupts, a hart has them disabled only in
\* a trap, at the register access of a service and in RegisterISR: no path
\* through the nested disables and restores leaves them off.
InterruptsComeBack ==
    \A h \in Harts : on[h] /\ mie[h] = 0 =>
        \/ Running(h) = 1
        \/ ctx[h][0].pc \in {"write", "table"}
        \/ ctx[h][0].outer # NULL

\* M_PSP_ASSERT(fptrExtIntHandler != NULL) (psp_ext_interrupts_eh2.c:513): the
\* handler that pspMachineExtInterruptIsr loads exists.
HandlerFound == \A h \in Harts : Cur(h).pc = "load" => Handler(h) # NULL

\* What demoCheckInterruptStatusInISR checks in every handler: the claimed line
\* is pending and the captured priority is the line's; and it is this hart's.
ClaimIsCurrent ==
    \A h \in Harts : Cur(h).pc = "load" =>
        /\ meihap[h] # NoLine
        /\ Pending(meihap[h])
        /\ meidel[meihap[h]] = h
        /\ meicidpl[h] = meipl[meihap[h]]

\* A line that stays deliverable on a hart whose application enabled interrupts
\* is served, unless the hart waits for the internal mutex for ever with
\* interrupts disabled: in RegisterISR, for a lock the other hart takes and
\* releases for ever, or in a handler, for the lock of the code it interrupted.
InterruptsAreServed ==
    \A h \in Harts : \A i \in Irqs :
        <>[](on[h] /\ Deliverable(h, i)) =>
            \/ <>[](ctx[h][1].pc = "lock")
            \/ /\ <>[](ctx[h][0].pc = "lock" /\ ctx[h][0].outer # NULL)
               /\ []<>(\E g \in Harts : InPicSection(g))
               /\ []<>(\A g \in Harts : ~InPicSection(g))

\* pspMachineExtInterruptClearPendingInt "clears the indication of pending
\* interrupt" (psp_ext_interrupts_eh2.c:408): the call a handler makes returns,
\* unless the lock is taken and released for ever.
ClearInHandlerReturns ==
    \A h \in Harts :
        <>[](ctx[h][1].pc = "lock") =>
            /\ []<>(\E g \in Harts : InPicSection(g))
            /\ []<>(\A g \in Harts : ~InPicSection(g))
-------------------------------------------------------------------------------
(***************************************************************************)
(* The inductive invariants of the proofs.  They hold whatever services    *)
(* the applications call, in any order, for any line.                      *)
(***************************************************************************)
ServicePc == {"lock", "disable", "write", "unlock"}
AppPc  == ServicePc \cup {"idle", "table"}
TrapPc == ServicePc \cup {"none", "capture", "load", "bsp_read", "bsp_write",
                          "mret", "lost"}

\* What a call's record means at each place of a call in context l.
CallOK(c, l) ==
    /\ c.pc \in IF l = 0 THEN AppPc ELSE TrapPc
    /\ l = 1 => c.outer = NULL
    /\ c.pc = "idle" => c.outer = NULL
    /\ c.pc = "table" => c.outer # NULL
    /\ c.pc \in ServicePc \cup {"table"} =>
           /\ c.op \in Locked /\ c.irq \in Irqs
           /\ c.op # "priority" => c.arg \in {0, 1}
CallInv == \A h \in Harts : \A l \in {0, 1} : CallOK(ctx[h][l], l)

\* One context of one hart is between Lock and Unlock, and the word is set then.
SectionInv ==
    /\ \A h, g \in Harts : \A l, k \in {0, 1} :
           InSection(h, l) /\ InSection(g, k) => h = g /\ l = k
    /\ g_uiInternalPspMutex[PIC] = D_PSP_MUTEX_LOCKED
           <=> \E h \in Harts : InPicSection(h)

\* What SetType and SetPolarity loaded is still there when they store.
GatewayInv ==
    /\ GatewaysKeepRequests
    /\ \A h \in Harts : \A l \in {0, 1} :
           ctx[h][l].pc = "write" /\ ctx[h][l].op \in GatewayBits =>
               ctx[h][l].reg = meigwctrl[ctx[h][l].irq]

\* Where a hart's MIE is clear, and who has saved which value of it.
HartMieOK(h) ==
    LET app   == ctx[h][0]
        isr   == ctx[h][1]
        saves == app.pc \in {"write", "table"} \/ app.outer # NULL
    IN  /\ isr.pc # "none" => on[h] /\ ~saves
        /\ isr.pc = "write" => isr.saved = 0
        /\ mie[h] = IF on[h] /\ isr.pc = "none" /\ ~saves THEN 1 ELSE 0
        /\ app.outer # NULL => app.outer = IF on[h] THEN 1 ELSE 0
        /\ app.pc = "write" => app.saved = IF on[h] /\ app.outer = NULL THEN 1 ELSE 0
MieInv == \A h \in Harts : HartMieOK(h)

\* The inductive invariant.
PicInv == TypeOK /\ CallInv /\ SectionInv /\ GatewayInv /\ MieInv
-------------------------------------------------------------------------------
(***************************************************************************)
(* What a disciplined application adds to it, if no service is shared:     *)
(* only the owner of a line changes what the line needs, and the board     *)
(* raises one line at a time.                                              *)
(***************************************************************************)
\* A call of hart h is for a line of its own and does what the line wants.  From
\* the table to the end of RegisterISR, the handler and the delegation are there.
Owned(h, c) ==
    c.pc \in ServicePc \cup {"table"} =>
        /\ Owner[c.irq] = h
        /\ c.op = "delegate" => c.arg = h
        /\ c.op \in GatewayBits => c.arg = (IF c.op \in Wanted(c.irq) THEN 1 ELSE 0)
        /\ c.op = "enable" => SetUp(c.irq)
        /\ c.op = "disable" => c.arg = 0
        /\ c.op = "order" => \A j \in Irqs : Owner[j] = h
        /\ c.outer # NULL =>
               /\ c.op = "delegate"
               /\ c.pc # "table" => g_ExtInterruptHandlers[h][c.irq] = ISR /\ meivt[h] = h
               /\ c.pc = "unlock" => meidel[c.irq] = h
OwnedInv == \A h \in Harts : \A l \in {0, 1} : Owned(h, ctx[h][l])

\* A registered line has its handler and goes to its owner; one that is enabled is
\* set up.
LinesInv ==
    \A i \in Irqs :
        /\ i \in registered => /\ g_ExtInterruptHandlers[Owner[i]][i] = ISR
                               /\ meivt[Owner[i]] = Owner[i]
                               /\ meidel[i] = Owner[i]
        /\ requested[i] \subseteq Wanted(i)
        /\ meie[i] = 1 => SetUp(i)

\* The one line that is triggered, and the hart that clears it.
BoardInv ==
    /\ \A i, j \in triggered : i = j
    /\ generation \ EdgeIrqs \subseteq triggered
    /\ \A i \in EdgeIrqs : gateway[i] = 1 => i \in triggered
    /\ \A h \in Harts : LET c == ctx[h][1] IN
           /\ c.pc \in {"bsp_read", "bsp_write"} =>
                  c.irq \in generation \ EdgeIrqs /\ Owner[c.irq] = h
           /\ c.pc = "bsp_write" => c.byte = generation

\* From the trap to the call of its handler the line stays deliverable.
ClaimInv ==
    \A h \in Harts :
        /\ ctx[h][1].pc = "capture" => \E i \in Irqs : Deliverable(h, i)
        /\ ctx[h][1].pc = "load" =>
               /\ meihap[h] \in Irqs
               /\ meie[meihap[h]] = 1 /\ meidel[meihap[h]] = h /\ Pending(meihap[h])
               /\ meicidpl[h] = meipl[meihap[h]]

DisciplinedInv == OwnedInv /\ LinesInv /\ BoardInv /\ ClaimInv
===============================================================================
