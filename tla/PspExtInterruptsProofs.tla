------------------------- MODULE PspExtInterruptsProofs -------------------------
(***************************************************************************)
(* Proofs about PspExtInterrupts, for every set of lines, every program    *)
(* and every mix of services: the registers of the PIC change under the    *)
(* internal mutex, no gateway bit is lost and interrupts come back on.     *)
(***************************************************************************)
EXTENDS PspExtInterrupts, TLAPS

\* The PIC offers a line or none.
LEMMA OfferedIsLine ==
    ASSUME NEW h \in Harts
    PROVE  Offered(h) \in Irqs \cup {NoLine}
BY DEF Offered

-------------------------------------------------------------------------------
\* The context that a hart runs is one of its two, and a call.
LEMMA CurIsCall ==
    ASSUME TypeOK, NEW h \in Harts
    PROVE  /\ Running(h) \in {0, 1}
           /\ Cur(h) \in Call
           /\ Cur(h) = ctx[h][Running(h)]
BY DEF TypeOK, Running, Cur

\* A step of the running context changes no other.
LEMMA BecomeOnly ==
    ASSUME TypeOK, NEW h \in Harts, NEW c \in Call, Become(h, c)
    PROVE  /\ ctx' \in [Harts -> [{0, 1} -> Call]]
           /\ ctx'[h][Running(h)] = c
           /\ \A g \in Harts, l \in {0, 1} :
                  g # h \/ l # Running(h) => ctx'[g][l] = ctx[g][l]
BY CurIsCall DEF TypeOK, Become

LEMMA AtIsCall ==
    ASSUME NEW p \in Pc
    PROVE  At(p) \in Call /\ At(p).pc = p /\ At(p).outer = NULL
BY DEF At, Call, Op, NoLine, NULL

\* The place of a call changes, and the rest of it stays.
LEMMA GotoIsCall ==
    ASSUME NEW c \in Call, NEW p \in Pc
    PROVE  /\ [c EXCEPT !.pc = p] \in Call
           /\ [c EXCEPT !.pc = p].pc = p
           /\ [c EXCEPT !.pc = p].op = c.op /\ [c EXCEPT !.pc = p].irq = c.irq
           /\ [c EXCEPT !.pc = p].arg = c.arg /\ [c EXCEPT !.pc = p].saved = c.saved
           /\ [c EXCEPT !.pc = p].outer = c.outer /\ [c EXCEPT !.pc = p].reg = c.reg
BY DEF Call

\* What a step makes of the context it runs in: the place, and whether the
\* rest of the call stays.
Others(h) == /\ ctx' \in [Harts -> [{0, 1} -> Call]]
             /\ \A g \in Harts, l \in {0, 1} :
                    g # h \/ l # Running(h) => ctx'[g][l] = ctx[g][l]

Moves(h, from, to) == /\ Others(h)
                      /\ Cur(h).pc = from
                      /\ ctx'[h][Running(h)].pc = to

Keeps(h) == LET d == ctx'[h][Running(h)]
            IN  /\ d.op = Cur(h).op /\ d.irq = Cur(h).irq
                /\ d.arg = Cur(h).arg /\ d.outer = Cur(h).outer

Calls(h, op, i, a, o) == LET d == ctx'[h][Running(h)]
                         IN  d.op = op /\ d.irq = i /\ d.arg = a /\ d.outer = o

LEMMA GotoMoves ==
    ASSUME TypeOK, NEW h \in Harts, NEW from \in Pc, NEW to \in Pc, Goto(h, from, to)
    PROVE  Moves(h, from, to) /\ Keeps(h)
<1>1. Cur(h) \in Call /\ [Cur(h) EXCEPT !.pc = to] \in Call
  BY CurIsCall, GotoIsCall
<1>2. Others(h) /\ ctx'[h][Running(h)] = [Cur(h) EXCEPT !.pc = to]
  BY <1>1, BecomeOnly DEF Goto, Others
<1> QED
  BY <1>1, <1>2, GotoIsCall DEF Goto, Moves, Keeps

LEMMA ReturnMoves ==
    ASSUME TypeOK, NEW h \in Harts, NEW from \in Pc, Cur(h).pc = from, Return(h)
    PROVE  /\ Moves(h, from, IF Running(h) = 0 THEN "idle" ELSE "mret")
           /\ ctx'[h][Running(h)].outer = NULL
<1> DEFINE d == At(IF Running(h) = 0 THEN "idle" ELSE "mret")
<1>1. d \in Call
  BY AtIsCall DEF Pc
<1>2. Others(h) /\ ctx'[h][Running(h)] = d
  BY <1>1, BecomeOnly DEF Return, Others
<1> QED
  BY <1>2 DEF Moves, At

LEMMA StartMoves ==
    ASSUME TypeOK, NEW h \in Harts, NEW from \in Pc, NEW d \in Call, Cur(h).pc = from,
           Become(h, d)
    PROVE  Moves(h, from, d.pc) /\ Calls(h, d.op, d.irq, d.arg, d.outer)
BY BecomeOnly DEF Others, Moves, Calls

-------------------------------------------------------------------------------
\* The steps of a call, by place.
LEMMA StepsMove ==
    ASSUME TypeOK, CallInv, NEW h \in Harts
    PROVE  /\ ServiceLock(h) => Moves(h, "lock", "disable") /\ Keeps(h)
           /\ ServiceDisable(h) =>
                  /\ Moves(h, "disable", "write") /\ Keeps(h)
                  /\ ctx'[h][Running(h)].saved = mie[h]
                  /\ Cur(h).op \in GatewayBits =>
                         ctx'[h][Running(h)].reg = meigwctrl[Cur(h).irq]
           /\ ServiceWrite(h) => Moves(h, "write", "unlock") /\ Keeps(h)
           /\ RegisterTable(h) => Moves(h, "table", "lock") /\ Keeps(h)
           /\ Capture(h) => Moves(h, "capture", "load") /\ Keeps(h)
           /\ ClearRead(h) => Moves(h, "bsp_read", "bsp_write") /\ Keeps(h)
<1>1. ASSUME ServiceLock(h) PROVE Moves(h, "lock", "disable") /\ Keeps(h)
  BY <1>1, GotoMoves DEF ServiceLock, Pc
<1>2. ASSUME ServiceDisable(h)
      PROVE  /\ Moves(h, "disable", "write") /\ Keeps(h)
             /\ ctx'[h][Running(h)].saved = mie[h]
             /\ Cur(h).op \in GatewayBits =>
                    ctx'[h][Running(h)].reg = meigwctrl[Cur(h).irq]
  <2> DEFINE r == IF Cur(h).op \in GatewayBits THEN meigwctrl[Cur(h).irq] ELSE {}
             d == [Cur(h) EXCEPT !.pc = "write", !.saved = mie[h], !.reg = r]
  <2>1. Cur(h) \in Call /\ Running(h) \in {0, 1} /\ Cur(h) = ctx[h][Running(h)]
    BY CurIsCall
  <2>2. Cur(h).op \in GatewayBits => Cur(h).irq \in Irqs
    BY <1>2, <2>1 DEF ServiceDisable, CallInv, CallOK, ServicePc
  <2>3. r \in SUBSET GatewayBits
    BY <2>2 DEF TypeOK, RegistersTypeOK
  <2>4. d \in Call /\ d.pc = "write" /\ d.saved = mie[h] /\ d.reg = r
        /\ d.op = Cur(h).op /\ d.irq = Cur(h).irq /\ d.arg = Cur(h).arg
        /\ d.outer = Cur(h).outer
    <3> HIDE DEF r
    <3>1. mie[h] \in {0, 1}
      BY DEF TypeOK, RegistersTypeOK
    <3> QED
      BY <2>1, <2>3, <3>1 DEF Call, Pc
  <2>5. Others(h) /\ ctx'[h][Running(h)] = d
    BY <1>2, <2>4, BecomeOnly DEF ServiceDisable, Others
  <2> HIDE DEF d
  <2> QED
    BY <1>2, <2>4, <2>5 DEF ServiceDisable, Moves, Keeps
<1>3. ASSUME ServiceWrite(h) PROVE Moves(h, "write", "unlock") /\ Keeps(h)
  BY <1>3, GotoMoves DEF ServiceWrite, Pc
<1>4. ASSUME RegisterTable(h) PROVE Moves(h, "table", "lock") /\ Keeps(h)
  BY <1>4, GotoMoves DEF RegisterTable, Pc
<1>5. ASSUME Capture(h) PROVE Moves(h, "capture", "load") /\ Keeps(h)
  BY <1>5, GotoMoves DEF Capture, Pc
<1>6. ASSUME ClearRead(h) PROVE Moves(h, "bsp_read", "bsp_write") /\ Keeps(h)
  <2> DEFINE d == [Cur(h) EXCEPT !.pc = "bsp_write", !.byte = generation]
  <2>1. Cur(h) \in Call /\ generation \in SUBSET Irqs
    BY CurIsCall DEF TypeOK, RegistersTypeOK
  <2>2. d \in Call /\ d.pc = "bsp_write" /\ d.op = Cur(h).op /\ d.irq = Cur(h).irq
        /\ d.arg = Cur(h).arg /\ d.outer = Cur(h).outer
    BY <2>1 DEF Call, Pc
  <2>3. Others(h) /\ ctx'[h][Running(h)] = d
    BY <1>6, <2>2, BecomeOnly DEF ClearRead, Others
  <2> HIDE DEF d
  <2> QED
    BY <1>6, <2>2, <2>3 DEF ClearRead, Moves, Keeps
<1> QED
  BY <1>1, <1>2, <1>3, <1>4, <1>5, <1>6

\* The steps that begin or end a call.
LEMMA CallsMove ==
    ASSUME TypeOK, NEW h \in Harts
    PROVE  /\ \A op \in Locked, i \in Irqs : \A a \in Argument(op) :
                  CallService(h, op, i, a) =>
                      Moves(h, "idle", "lock") /\ Calls(h, op, i, a, NULL)
           /\ \A i \in Irqs : RegisterISR(h, i) =>
                  Moves(h, "idle", "table") /\ Calls(h, "delegate", i, h, mie[h])
           /\ ServiceUnlock(h) =>
                  /\ Moves(h, "unlock", IF Running(h) = 0 THEN "idle" ELSE "mret")
                  /\ ctx'[h][Running(h)].outer = NULL
           /\ ClearWrite(h) =>
                  /\ Moves(h, "bsp_write", IF Running(h) = 0 THEN "idle" ELSE "mret")
                  /\ ctx'[h][Running(h)].outer = NULL
           /\ CallHandler(h) =>
                  \/ Moves(h, "load", "lost") /\ ctx'[h][Running(h)].outer = NULL
                  \/ \E i \in Irqs : Moves(h, "load", "lock")
                                     /\ Calls(h, "clear", i, 0, NULL)
                  \/ Moves(h, "load", "bsp_read") /\ ctx'[h][Running(h)].outer = NULL
<1> USE LinesAssumption
<1>1. ASSUME NEW op \in Locked, NEW i \in Irqs, NEW a \in Argument(op),
             CallService(h, op, i, a)
      PROVE  Moves(h, "idle", "lock") /\ Calls(h, op, i, a, NULL)
  <2>1. a \in Level \cup {0, 1}
    BY DEF Argument, Locked, Level
  <2> DEFINE d == [At("lock") EXCEPT !.op = op, !.irq = i, !.arg = a]
  <2>2. /\ d \in Call /\ d.pc = "lock" /\ d.op = op /\ d.irq = i /\ d.arg = a
        /\ d.outer = NULL
    BY <2>1 DEF At, Call, Op, Pc, NULL
  <2>3. "idle" \in Pc /\ Cur(h).pc = "idle" /\ Become(h, d)
    BY <1>1 DEF Pc, CallService
  <2> HIDE DEF d
  <2>4. Moves(h, "idle", d.pc) /\ Calls(h, d.op, d.irq, d.arg, d.outer)
    BY <2>2, <2>3, StartMoves
  <2> QED
    BY <2>2, <2>4
<1>2. ASSUME NEW i \in Irqs, RegisterISR(h, i)
      PROVE  Moves(h, "idle", "table") /\ Calls(h, "delegate", i, h, mie[h])
  <2>1. mie[h] \in {NULL, 0, 1} /\ h \in Level \cup {0, 1}
    BY DEF TypeOK, RegistersTypeOK
  <2> DEFINE d == [At("table") EXCEPT !.op = "delegate", !.irq = i, !.arg = h,
                                      !.outer = mie[h]]
  <2>2. /\ d \in Call /\ d.pc = "table" /\ d.op = "delegate" /\ d.irq = i
        /\ d.arg = h /\ d.outer = mie[h]
    BY <2>1 DEF At, Call, Op, Locked, Pc, NULL
  <2>3. "idle" \in Pc /\ Cur(h).pc = "idle" /\ Become(h, d)
    BY <1>2 DEF Pc, RegisterISR
  <2> HIDE DEF d
  <2>4. Moves(h, "idle", d.pc) /\ Calls(h, d.op, d.irq, d.arg, d.outer)
    BY <2>2, <2>3, StartMoves
  <2> QED
    BY <2>2, <2>4
<1>3. ASSUME ServiceUnlock(h)
      PROVE  /\ Moves(h, "unlock", IF Running(h) = 0 THEN "idle" ELSE "mret")
             /\ ctx'[h][Running(h)].outer = NULL
  BY <1>3, ReturnMoves DEF ServiceUnlock, Pc
<1>4. ASSUME ClearWrite(h)
      PROVE  /\ Moves(h, "bsp_write", IF Running(h) = 0 THEN "idle" ELSE "mret")
             /\ ctx'[h][Running(h)].outer = NULL
  BY <1>4, ReturnMoves DEF ClearWrite, Pc
<1>5. ASSUME CallHandler(h)
      PROVE  \/ Moves(h, "load", "lost") /\ ctx'[h][Running(h)].outer = NULL
             \/ \E i \in Irqs : Moves(h, "load", "lock") /\ Calls(h, "clear", i, 0, NULL)
             \/ Moves(h, "load", "bsp_read") /\ ctx'[h][Running(h)].outer = NULL
  <2>1. Cur(h).pc = "load" /\ {"load", "lock", "lost", "bsp_read"} \subseteq Pc
        /\ "clear" \in Op /\ "none" \in Op /\ meihap[h] \in Irqs \cup {NoLine}
    BY <1>5 DEF CallHandler, Pc, Op, Locked, TypeOK, RegistersTypeOK
  <2>2. CASE Become(h, At("lost"))
    <3>1. At("lost") \in Call
      BY <2>1, AtIsCall
    <3>2. Others(h) /\ ctx'[h][Running(h)] = At("lost")
      BY <2>2, <3>1, BecomeOnly DEF Others
    <3> QED
      BY <2>1, <3>2 DEF Moves, At
  <2>3. CASE /\ meihap[h] \in EdgeIrqs
             /\ Become(h, [At("lock") EXCEPT !.op = "clear", !.irq = meihap[h]])
    <3> DEFINE d == [At("lock") EXCEPT !.op = "clear", !.irq = meihap[h]]
    <3>1. /\ d \in Call /\ d.pc = "lock" /\ d.op = "clear" /\ d.irq = meihap[h]
          /\ d.arg = 0 /\ d.outer = NULL
      BY <2>1 DEF At, Call, NULL
    <3>2. meihap[h] \in Irqs
      BY <2>3
    <3> HIDE DEF d
    <3>3. Moves(h, "load", d.pc) /\ Calls(h, d.op, d.irq, d.arg, d.outer)
      BY <2>1, <2>3, <3>1, StartMoves DEF d
    <3>4. Moves(h, "load", "lock") /\ Calls(h, "clear", meihap[h], 0, NULL)
      BY <3>1, <3>3 DEF Moves, Calls
    <3> QED
      BY <3>2, <3>4
  <2>4. CASE Become(h, [At("bsp_read") EXCEPT !.irq = meihap[h]])
    <3> DEFINE d == [At("bsp_read") EXCEPT !.irq = meihap[h]]
    <3>1. d \in Call /\ d.pc = "bsp_read" /\ d.outer = NULL
      BY <2>1 DEF At, Call, NULL
    <3> HIDE DEF d
    <3>2. Moves(h, "load", d.pc) /\ Calls(h, d.op, d.irq, d.arg, d.outer)
      BY <2>1, <2>4, <3>1, StartMoves DEF d
    <3> QED
      BY <3>1, <3>2 DEF Calls
  <2> QED
    BY <1>5, <2>2, <2>3, <2>4 DEF CallHandler
<1> QED
  BY <1>1, <1>2, <1>3, <1>4, <1>5
-------------------------------------------------------------------------------
LEMMA InitInv == Init => PicInv
<1> SUFFICES ASSUME Init PROVE PicInv
  OBVIOUS
<1> USE LinesAssumption DEF Init, At, NULL, NoLine, Level
<1>1. TypeOK
  <2>1. RegistersTypeOK
    BY DEF RegistersTypeOK, InternalMutexes, LockWord, D_PSP_MUTEX_UNLOCKED,
           D_PSP_MUTEX_LOCKED, ISR
  <2>2. At("idle") \in Call /\ At("none") \in Call
    BY AtIsCall DEF Pc
  <2>3. ctx \in [Harts -> [{0, 1} -> Call]]
    BY <2>2
  <2> QED
    BY <2>1, <2>3 DEF TypeOK
<1>2. CallInv
  BY DEF CallInv, CallOK, AppPc, TrapPc, ServicePc
<1>3. SectionInv
  BY DEF SectionInv, InSection, InPicSection, PIC, E_MUTEX_INTERNAL_FOR_EXT_INTERRUPTS,
         InternalMutexes, D_PSP_MUTEX_UNLOCKED, D_PSP_MUTEX_LOCKED
<1>4. GatewayInv
  BY DEF GatewayInv, GatewaysKeepRequests
<1>5. MieInv
  BY DEF MieInv, HartMieOK
<1> QED
  BY <1>1, <1>2, <1>3, <1>4, <1>5 DEF PicInv

LEMMA RegistersStep ==
    ASSUME TypeOK, CallInv, Next
    PROVE  RegistersTypeOK'
<1> USE LinesAssumption DEF TypeOK, RegistersTypeOK, Level, NULL, NoLine, ISR,
        picVars, csrVars, boardVars, histVars
<1>1. ASSUME NEW h \in Harts, NEW op \in Locked, NEW i \in Irqs, NEW a \in Argument(op),
             CallService(h, op, i, a)
      PROVE  RegistersTypeOK'
  BY <1>1 DEF CallService
<1>2. ASSUME NEW h \in Harts, NEW i \in Irqs, RegisterISR(h, i)
      PROVE  RegistersTypeOK'
  BY <1>2 DEF RegisterISR
<1>3. ASSUME NEW h \in Harts, NEW i \in Irqs, GenerateExtInterrupt(h, i)
      PROVE  RegistersTypeOK'
  BY <1>3 DEF GenerateExtInterrupt
<1>4. ASSUME NEW h \in Harts, NEW t \in Level, SetThreshold(h, t)
      PROVE  RegistersTypeOK'
  BY <1>4 DEF SetThreshold
<1>5. ASSUME NEW h \in Harts, NEW t \in Level, SetNestingPriorityThreshold(h, t)
      PROVE  RegistersTypeOK'
  BY <1>5 DEF SetNestingPriorityThreshold
<1>6. ASSUME NEW h \in Harts, EnableInterrupts(h)
      PROVE  RegistersTypeOK'
  BY <1>6 DEF EnableInterrupts
<1>7. ASSUME NEW h \in Harts, Trap(h)
      PROVE  RegistersTypeOK'
  BY <1>7 DEF Trap
<1>8. ASSUME NEW h \in Harts, CallStep(h)
      PROVE  RegistersTypeOK'
  <2> Cur(h) \in Call /\ Running(h) \in {0, 1} /\ Cur(h) = ctx[h][Running(h)]
    BY CurIsCall
  <2>1. CASE ServiceLock(h)
    BY <2>1 DEF ServiceLock, pspInternalMutexLock, pspAtomicsEnterCriticalSection,
                LockWord, D_PSP_MUTEX_LOCKED
  <2>2. CASE ServiceDisable(h)
    BY <2>2 DEF ServiceDisable
  <2>3. CASE ServiceWrite(h)
    <3>1. /\ Cur(h).irq \in Irqs /\ Cur(h).op \in Locked
          /\ Cur(h).arg \in Level \cup {0, 1} /\ Cur(h).saved \in {0, 1}
          /\ Cur(h).reg \in SUBSET GatewayBits
          /\ Cur(h).op # "priority" => Cur(h).arg \in {0, 1}
      BY <2>3 DEF ServiceWrite, Goto, Call, CallInv, CallOK, ServicePc
    <3> HIDE DEF NULL, NoLine, ISR
    <3>2. g_uiInternalPspMutex' \in [InternalMutexes -> LockWord] /\ mie' \in [Harts -> {0, 1}]
      BY <2>3, <3>1 DEF ServiceWrite
    <3>3. /\ UNCHANGED <<csrVars, generation, on, registered, g_ExtInterruptHandlers>>
          /\ WriteRegister(Cur(h))
      BY <2>3 DEF ServiceWrite
    <3>4. CASE Cur(h).op \in {"enable", "disable"}
      BY <3>1, <3>2, <3>3, <3>4 DEF WriteRegister, WriteEnable, WriteDelegation, WritePriority,
                                    WriteOrder, WriteGateway, ClearGateway, GatewayBits
    <3>5. CASE Cur(h).op = "delegate"
      BY <3>1, <3>2, <3>3, <3>5 DEF WriteRegister, WriteEnable, WriteDelegation, WritePriority,
                                    WriteOrder, WriteGateway, ClearGateway, GatewayBits
    <3>6. CASE Cur(h).op = "priority"
      <4>1. Cur(h).arg \in 0 .. MaxPriority
        BY <3>1
      <4> QED
        BY <4>1, <3>1, <3>2, <3>3, <3>6 DEF WriteRegister, WriteEnable, WriteDelegation, WritePriority,
                                            WriteOrder, WriteGateway, ClearGateway, GatewayBits
    <3>7. CASE Cur(h).op = "order"
      BY <3>1, <3>2, <3>3, <3>7 DEF WriteRegister, WriteEnable, WriteDelegation, WritePriority,
                                    WriteOrder, WriteGateway, ClearGateway, GatewayBits
    <3>8. CASE Cur(h).op \in GatewayBits
      <4>1. Cur(h).op \notin {"enable", "disable", "delegate", "priority", "order", "clear"}
        BY <3>8 DEF GatewayBits
      <4>2. GatewayBit(Cur(h)) \in SUBSET GatewayBits /\ {Cur(h).op} \in SUBSET GatewayBits
        BY <3>8 DEF GatewayBit
      <4>3. /\ meigwctrl' = [meigwctrl EXCEPT ![Cur(h).irq] =
                                Cur(h).reg \cup GatewayBit(Cur(h))]
            /\ requested' = [requested EXCEPT ![Cur(h).irq] =
                                IF Cur(h).arg = 1 THEN @ \cup {Cur(h).op} ELSE @]
            /\ UNCHANGED <<meie, meidel, meipl, mpiccfg, gateway, triggered>>
        BY <3>3, <4>1 DEF WriteRegister, WriteEnable, WriteDelegation, WritePriority,
                          WriteOrder, WriteGateway, ClearGateway
      <4>4. meigwctrl' \in [Irqs -> SUBSET GatewayBits]
        <5>1. Cur(h).reg \cup GatewayBit(Cur(h)) \in SUBSET GatewayBits
          BY <3>1, <4>2
        <5> QED
          BY <5>1, <4>3
      <4>5. requested' \in [Irqs -> SUBSET GatewayBits]
        <5>1. requested[Cur(h).irq] \cup {Cur(h).op} \in SUBSET GatewayBits
          BY <3>1, <4>2
        <5> QED
          BY <5>1, <3>1, <4>3
      <4> QED
        BY <3>2, <3>3, <4>3, <4>4, <4>5
    <3>9. CASE Cur(h).op = "clear"
      BY <3>1, <3>2, <3>3, <3>9 DEF WriteRegister, WriteEnable, WriteDelegation, WritePriority,
                                    WriteOrder, WriteGateway, ClearGateway, GatewayBits
    <3> QED
      BY <3>1, <3>4, <3>5, <3>6, <3>7, <3>8, <3>9 DEF Locked, GatewayBits
  <2>4. CASE ServiceUnlock(h)
    <3>1. /\ Cur(h).outer \in {NULL, 0, 1}
          /\ Cur(h).irq \in Irqs
      BY <2>4 DEF ServiceUnlock, Call, CallInv, CallOK, ServicePc
    <3> QED
      BY <2>4, <3>1 DEF ServiceUnlock, pspInternalMutexUnlock,
                pspAtomicsExitCriticalSection, LockWord, D_PSP_MUTEX_UNLOCKED
  <2>5. CASE RegisterTable(h)
    BY <2>5 DEF RegisterTable
  <2>6. CASE Capture(h)
    <3> HIDE DEF NULL, NoLine, ISR, Level
    <3>1. Offered(h) \in Irqs \cup {NoLine}
      BY OfferedIsLine
    <3>2. (IF Offered(h) = NoLine THEN 0 ELSE meipl[Offered(h)]) \in Level
      <4>1. Offered(h) # NoLine => meipl[Offered(h)] \in Level
        BY <3>1
      <4>2. 0 \in Level
        BY DEF Level
      <4> QED
        BY <4>1, <4>2
    <3>3. meihap' \in [Harts -> Irqs \cup {NoLine}]
      BY <2>6, <3>1 DEF Capture
    <3>4. meicidpl' = [meicidpl EXCEPT ![h] = IF Offered(h) = NoLine THEN 0
                                               ELSE meipl[Offered(h)]]
      BY <2>6 DEF Capture
    <3>5. meicidpl' \in [Harts -> Level]
      BY <3>2, <3>4
    <3>6. UNCHANGED <<g_uiInternalPspMutex, picVars, meipt, meicurpl, meivt, boardVars,
                      histVars, mie, g_ExtInterruptHandlers>>
      BY <2>6 DEF Capture
    <3> QED
      BY <3>3, <3>5, <3>6
  <2>7. CASE CallHandler(h)
    BY <2>7 DEF CallHandler
  <2>8. CASE ClearRead(h)
    BY <2>8 DEF ClearRead
  <2>9. CASE ClearWrite(h)
    <3>1. Cur(h).byte \in SUBSET Irqs
      BY DEF Call
    <3> QED
      BY <2>9, <3>1 DEF ClearWrite
  <2>10. CASE Mret(h)
    <3>1. /\ meihap' \in [Harts -> Irqs \cup {NoLine}]
          /\ meicidpl' \in [Harts -> 0 .. MaxPriority]
          /\ mie' \in [Harts -> {0, 1}]
      BY <2>10 DEF Mret
    <3>2. UNCHANGED <<g_uiInternalPspMutex, picVars, meipt, meicurpl, meivt, boardVars,
                      histVars, g_ExtInterruptHandlers>>
      BY <2>10 DEF Mret
    <3> QED
      BY <3>1, <3>2
  <2> QED
    BY <1>8, <2>1, <2>2, <2>3, <2>4, <2>5, <2>6, <2>7, <2>8, <2>9, <2>10 DEF CallStep
<1> QED
  BY <1>1, <1>2, <1>3, <1>4, <1>5, <1>6, <1>7, <1>8 DEF Next, AppStep

\* The two steps that enter and leave a trap.
LEMMA TrapsMove ==
    ASSUME TypeOK, CallInv, NEW h \in Harts
    PROVE  /\ Trap(h) =>
                  /\ Running(h) = 0 /\ ctx[h][1].pc = "none"
                  /\ ctx' \in [Harts -> [{0, 1} -> Call]]
                  /\ ctx'[h][1].pc = "capture" /\ ctx'[h][1].outer = NULL
                  /\ ctx'[h][0] = ctx[h][0]
                  /\ \A g \in Harts \ {h} : ctx'[g] = ctx[g]
           /\ Mret(h) =>
                  /\ Running(h) = 1
                  /\ Moves(h, "mret", "none") /\ ctx'[h][1].outer = NULL
<1>1. ASSUME Trap(h)
      PROVE  /\ Running(h) = 0 /\ ctx[h][1].pc = "none"
             /\ ctx' \in [Harts -> [{0, 1} -> Call]]
             /\ ctx'[h][1].pc = "capture" /\ ctx'[h][1].outer = NULL
             /\ ctx'[h][0] = ctx[h][0]
             /\ \A g \in Harts \ {h} : ctx'[g] = ctx[g]
  <2>1. At("capture") \in Call /\ At("capture").pc = "capture" /\ At("capture").outer = NULL
    BY AtIsCall DEF Pc
  <2> QED
    BY <1>1, <2>1 DEF Trap, TypeOK, Running
<1>2. ASSUME Mret(h)
      PROVE  /\ Running(h) = 1
             /\ Moves(h, "mret", "none") /\ ctx'[h][1].outer = NULL
  <2>1. At("none") \in Call /\ At("none").pc = "none" /\ At("none").outer = NULL
    BY AtIsCall DEF Pc
  <2>2. Running(h) = 1
    BY <1>2, CurIsCall DEF Mret, CallInv, CallOK, AppPc, ServicePc
  <2>3. Cur(h).pc = "mret" /\ ctx' = [ctx EXCEPT ![h][1] = At("none")]
    BY <1>2 DEF Mret
  <2> QED
    BY <2>1, <2>2, <2>3 DEF Moves, Others, TypeOK
<1> QED
  BY <1>1, <1>2

\* A step of the running context keeps the type of the calls, and CallInv when
\* the new call is in order.
LEMMA CallKept ==
    ASSUME TypeOK, CallInv, NEW h \in Harts, Others(h),
           CallOK(ctx'[h][Running(h)], Running(h))
    PROVE  ctx' \in [Harts -> [{0, 1} -> Call]] /\ CallInv'
BY CurIsCall DEF Others, CallInv

LEMMA CallStepKeeps ==
    ASSUME TypeOK, CallInv, NEW h \in Harts, CallStep(h)
    PROVE  ctx' \in [Harts -> [{0, 1} -> Call]] /\ CallInv'
<1> DEFINE d == ctx'[h][Running(h)]
           Goal == Others(h) /\ CallOK(d, Running(h))
<1>0. CallOK(Cur(h), Running(h)) /\ Running(h) \in {0, 1} /\ Cur(h) \in Call
  BY CurIsCall DEF CallInv
<1> USE DEF CallOK, AppPc, TrapPc, ServicePc, Moves, Keeps, Calls
<1>1. ASSUME ServiceLock(h) PROVE Goal
  BY <1>0, <1>1, StepsMove
<1>2. ASSUME ServiceDisable(h) PROVE Goal
  BY <1>0, <1>2, StepsMove
<1>3. ASSUME ServiceWrite(h) PROVE Goal
  BY <1>0, <1>3, StepsMove
<1>4. ASSUME ServiceUnlock(h) PROVE Goal
  BY <1>0, <1>4, CallsMove
<1>5. ASSUME RegisterTable(h) PROVE Goal
  BY <1>0, <1>5, StepsMove
<1>6. ASSUME Capture(h) PROVE Goal
  BY <1>0, <1>6, StepsMove
<1>7. ASSUME CallHandler(h) PROVE Goal
  BY <1>0, <1>7, CallsMove DEF Locked
<1>8. ASSUME ClearRead(h) PROVE Goal
  BY <1>0, <1>8, StepsMove
<1>9. ASSUME ClearWrite(h) PROVE Goal
  BY <1>0, <1>9, CallsMove
<1>10. ASSUME Mret(h) PROVE Goal
  BY <1>0, <1>10, TrapsMove
<1>11. Goal
  BY <1>1, <1>2, <1>3, <1>4, <1>5, <1>6, <1>7, <1>8, <1>9, <1>10 DEF CallStep
<1> QED
  BY <1>11, CallKept

LEMMA CallsStep ==
    ASSUME TypeOK, CallInv, Next
    PROVE  TypeOK' /\ CallInv'
<1> DEFINE Goal == ctx' \in [Harts -> [{0, 1} -> Call]] /\ CallInv'
<1>1. ASSUME NEW h \in Harts, NEW op \in Locked, NEW i \in Irqs, NEW a \in Argument(op),
             CallService(h, op, i, a)
      PROVE  Goal
  <2>1. Moves(h, "idle", "lock") /\ Calls(h, op, i, a, NULL)
    BY <1>1, CallsMove
  <2>2. op # "priority" => a \in {0, 1}
    BY LinesAssumption DEF Argument, Locked
  <2>3. CallOK(Cur(h), Running(h)) /\ Running(h) \in {0, 1}
    BY CurIsCall DEF CallInv
  <2>4. Others(h) /\ CallOK(ctx'[h][Running(h)], Running(h))
    BY <2>1, <2>2, <2>3 DEF Moves, Calls, CallOK, AppPc, TrapPc, ServicePc
  <2> QED
    BY <2>4, CallKept
<1>2. ASSUME NEW h \in Harts, NEW i \in Irqs, RegisterISR(h, i)
      PROVE  Goal
  <2>1. Moves(h, "idle", "table") /\ Calls(h, "delegate", i, h, mie[h])
    BY <1>2, CallsMove
  <2>2. h \in {0, 1} /\ mie[h] # NULL
    BY LinesAssumption DEF TypeOK, RegistersTypeOK, NULL
  <2>3. CallOK(Cur(h), Running(h)) /\ Running(h) \in {0, 1}
    BY CurIsCall DEF CallInv
  <2>4. Others(h) /\ CallOK(ctx'[h][Running(h)], Running(h))
    BY <2>1, <2>2, <2>3 DEF Moves, Calls, CallOK, AppPc, TrapPc, ServicePc, Locked
  <2> QED
    BY <2>4, CallKept
<1>3. ASSUME NEW h \in Harts, CallStep(h) PROVE Goal
  BY <1>3, CallStepKeeps
<1>4. ASSUME NEW h \in Harts, Trap(h) PROVE Goal
  BY <1>4, TrapsMove DEF CallInv, CallOK, TrapPc, ServicePc
<1>5. ASSUME UNCHANGED ctx PROVE Goal
  BY <1>5 DEF TypeOK, CallInv
<1>6. ASSUME NEW h \in Harts, NEW i \in Irqs, GenerateExtInterrupt(h, i)
      PROVE  Goal
  BY <1>5, <1>6 DEF GenerateExtInterrupt
<1>7. ASSUME NEW h \in Harts, NEW t \in Level,
             SetThreshold(h, t) \/ SetNestingPriorityThreshold(h, t)
      PROVE  Goal
  BY <1>5, <1>7 DEF SetThreshold, SetNestingPriorityThreshold
<1>8. ASSUME NEW h \in Harts, EnableInterrupts(h) PROVE Goal
  BY <1>5, <1>8 DEF EnableInterrupts
<1>9. Goal
  <2> HIDE DEF Goal
  <2> QED
    BY <1>1, <1>2, <1>3, <1>4, <1>6, <1>7, <1>8 DEF Next, AppStep
<1> QED
  BY <1>9, RegistersStep DEF TypeOK

-------------------------------------------------------------------------------
\* A move that crosses neither end of the section, with the word as it is.
LEMMA SectionKept ==
    ASSUME TypeOK, SectionInv, NEW h \in Harts, NEW from \in Pc, NEW to \in Pc,
           Moves(h, from, to), UNCHANGED g_uiInternalPspMutex,
           from \in {"disable", "write", "unlock"} <=> to \in {"disable", "write", "unlock"}
    PROVE  SectionInv'
<1>1. \A g \in Harts, l \in {0, 1} : InSection(g, l)' <=> InSection(g, l)
  BY CurIsCall DEF Moves, Others, InSection
<1>2. \A g \in Harts : InPicSection(g)' <=> InPicSection(g)
  BY <1>1 DEF InPicSection
<1> QED
  BY <1>1, <1>2 DEF SectionInv

\* A step that touches neither the calls nor the word.
LEMMA SectionUnchanged ==
    ASSUME SectionInv, UNCHANGED <<ctx, g_uiInternalPspMutex>>
    PROVE  SectionInv'
BY DEF SectionInv, InPicSection, InSection

LEMMA SectionStep ==
    ASSUME TypeOK, CallInv, SectionInv, Next
    PROVE  SectionInv'
<1> DEFINE Goal == SectionInv'
<1>pic. PIC \in InternalMutexes /\ D_PSP_MUTEX_LOCKED # D_PSP_MUTEX_UNLOCKED
  BY DEF PIC, E_MUTEX_INTERNAL_FOR_EXT_INTERRUPTS, InternalMutexes,
         D_PSP_MUTEX_LOCKED, D_PSP_MUTEX_UNLOCKED
<1>1. ASSUME NEW h \in Harts, NEW op \in Locked, NEW i \in Irqs, NEW a \in Argument(op),
             CallService(h, op, i, a)
      PROVE  Goal
  BY <1>1, CallsMove, SectionKept DEF CallService, Pc
<1>2. ASSUME NEW h \in Harts, NEW i \in Irqs, RegisterISR(h, i)
      PROVE  Goal
  BY <1>2, CallsMove, SectionKept DEF RegisterISR, Pc
<1>3. ASSUME NEW h \in Harts, ServiceLock(h) PROVE Goal
  <2>1. Moves(h, "lock", "disable") /\ pspInternalMutexLock(PIC)
    BY <1>3, StepsMove DEF ServiceLock
  <2>2. /\ g_uiInternalPspMutex[PIC] # D_PSP_MUTEX_LOCKED
        /\ g_uiInternalPspMutex'[PIC] = D_PSP_MUTEX_LOCKED
    BY <2>1, <1>pic DEF pspInternalMutexLock, pspAtomicsEnterCriticalSection, TypeOK,
          RegistersTypeOK
  <2>3. \A g \in Harts, l \in {0, 1} : ~InSection(g, l)
    BY <2>2 DEF SectionInv, InPicSection
  <2>4. \A g \in Harts, l \in {0, 1} : InSection(g, l)' <=> g = h /\ l = Running(h)
    BY <2>1, <2>3, CurIsCall DEF Moves, Others, InSection
  <2>5. Running(h) \in {0, 1}
    BY CurIsCall
  <2> QED
    BY <2>2, <2>4, <2>5 DEF SectionInv, InPicSection
<1>4. ASSUME NEW h \in Harts, ServiceUnlock(h) PROVE Goal
  <2>1. /\ Moves(h, "unlock", IF Running(h) = 0 THEN "idle" ELSE "mret")
        /\ pspInternalMutexUnlock(PIC)
    BY <1>4, CallsMove DEF ServiceUnlock
  <2>2. g_uiInternalPspMutex'[PIC] # D_PSP_MUTEX_LOCKED
    BY <2>1, <1>pic DEF pspInternalMutexUnlock, pspAtomicsExitCriticalSection, TypeOK,
          RegistersTypeOK
  <2>3. Running(h) \in {0, 1} /\ InSection(h, Running(h))
    BY <2>1, CurIsCall DEF Moves, InSection
  <2>4. \A g \in Harts, l \in {0, 1} : InSection(g, l) => g = h /\ l = Running(h)
    BY <2>3 DEF SectionInv
  <2>5. \A g \in Harts, l \in {0, 1} : ~InSection(g, l)'
    BY <2>1, <2>3, <2>4 DEF Moves, Others, InSection
  <2> QED
    BY <2>2, <2>5 DEF SectionInv, InPicSection
<1>5. ASSUME NEW h \in Harts, ServiceDisable(h) PROVE Goal
  BY <1>5, StepsMove, SectionKept DEF ServiceDisable, Pc
<1>6. ASSUME NEW h \in Harts, ServiceWrite(h) PROVE Goal
  BY <1>6, StepsMove, SectionKept DEF ServiceWrite, Pc
<1>7. ASSUME NEW h \in Harts, RegisterTable(h) PROVE Goal
  BY <1>7, StepsMove, SectionKept DEF RegisterTable, Pc
<1>8. ASSUME NEW h \in Harts, Capture(h) PROVE Goal
  BY <1>8, StepsMove, SectionKept DEF Capture, Pc
<1>9. ASSUME NEW h \in Harts, CallHandler(h) PROVE Goal
  <2>1. UNCHANGED g_uiInternalPspMutex
    BY <1>9 DEF CallHandler
  <2>2. Moves(h, "load", "lost") \/ Moves(h, "load", "lock") \/ Moves(h, "load", "bsp_read")
    BY <1>9, CallsMove
  <2> QED
    BY <2>1, <2>2, SectionKept DEF Pc
<1>10. ASSUME NEW h \in Harts, ClearRead(h) PROVE Goal
  BY <1>10, StepsMove, SectionKept DEF ClearRead, Pc
<1>11. ASSUME NEW h \in Harts, ClearWrite(h) PROVE Goal
  BY <1>11, CallsMove, SectionKept DEF ClearWrite, Pc
<1>12. ASSUME NEW h \in Harts, Mret(h) PROVE Goal
  BY <1>12, TrapsMove, SectionKept DEF Mret, Pc
<1>13. ASSUME NEW h \in Harts, Trap(h) PROVE Goal
  <2>1. \A g \in Harts, l \in {0, 1} : InSection(g, l)' <=> InSection(g, l)
    BY <1>13, TrapsMove DEF InSection
  <2>2. UNCHANGED g_uiInternalPspMutex
    BY <1>13 DEF Trap
  <2> QED
    BY <2>1, <2>2 DEF SectionInv, InPicSection
<1>14. ASSUME NEW h \in Harts, NEW i \in Irqs, GenerateExtInterrupt(h, i)
       PROVE  Goal
  BY <1>14, SectionUnchanged DEF GenerateExtInterrupt
<1>15. ASSUME NEW h \in Harts, NEW t \in Level,
              SetThreshold(h, t) \/ SetNestingPriorityThreshold(h, t)
       PROVE  Goal
  BY <1>15, SectionUnchanged DEF SetThreshold, SetNestingPriorityThreshold
<1>16. ASSUME NEW h \in Harts, EnableInterrupts(h) PROVE Goal
  BY <1>16, SectionUnchanged DEF EnableInterrupts
<1> HIDE DEF Goal
<1>17. Goal
  BY <1>1, <1>2, <1>3, <1>4, <1>5, <1>6, <1>7, <1>8, <1>9, <1>10, <1>11, <1>12, <1>13,
     <1>14, <1>15, <1>16 DEF Next, AppStep, CallStep
<1> QED
  BY <1>17 DEF Goal

-------------------------------------------------------------------------------
\* A step that leaves the control registers alone and does not load one.
LEMMA GatewayKept ==
    ASSUME TypeOK, GatewayInv, NEW h \in Harts, NEW from \in Pc, NEW to \in Pc \ {"write"},
           Moves(h, from, to), UNCHANGED <<meigwctrl, requested>>
    PROVE  GatewayInv'
BY CurIsCall DEF Moves, Others, GatewayInv, GatewaysKeepRequests

LEMMA GatewayUnchanged ==
    ASSUME GatewayInv, UNCHANGED <<ctx, meigwctrl, requested>>
    PROVE  GatewayInv'
BY DEF GatewayInv, GatewaysKeepRequests

\* The load and the store of a control register are both in the section: no
\* other context is about to store what it loaded before this store.
LEMMA GatewayStep ==
    ASSUME TypeOK, CallInv, SectionInv, GatewayInv, Next
    PROVE  GatewayInv'
<1> DEFINE Goal == GatewayInv'
<1> USE DEF picVars, histVars
<1>1. ASSUME NEW h \in Harts, NEW op \in Locked, NEW i \in Irqs, NEW a \in Argument(op),
             CallService(h, op, i, a)
      PROVE  Goal
  BY <1>1, CallsMove, GatewayKept DEF CallService, Pc
<1>2. ASSUME NEW h \in Harts, NEW i \in Irqs, RegisterISR(h, i)
      PROVE  Goal
  BY <1>2, CallsMove, GatewayKept DEF RegisterISR, Pc
<1>3. ASSUME NEW h \in Harts, ServiceLock(h) PROVE Goal
  BY <1>3, StepsMove, GatewayKept DEF ServiceLock, Pc
<1>4. ASSUME NEW h \in Harts, ServiceUnlock(h) PROVE Goal
  BY <1>4, CallsMove, GatewayKept DEF ServiceUnlock, Pc
<1>5. ASSUME NEW h \in Harts, ServiceDisable(h) PROVE Goal
  <2> DEFINE d == ctx'[h][Running(h)]
  <2>1. /\ Others(h) /\ d.op = Cur(h).op /\ d.irq = Cur(h).irq
        /\ Cur(h).op \in GatewayBits => d.reg = meigwctrl[Cur(h).irq]
    BY <1>5, StepsMove DEF Moves, Keeps
  <2>2. UNCHANGED <<meigwctrl, requested>>
    BY <1>5 DEF ServiceDisable
  <2> QED
    BY <2>1, <2>2 DEF Others, GatewayInv, GatewaysKeepRequests
<1>6. ASSUME NEW h \in Harts, ServiceWrite(h) PROVE Goal
  <2>1. Others(h) /\ Cur(h).pc = "write" /\ ctx'[h][Running(h)].pc = "unlock"
    BY <1>6, StepsMove DEF Moves
  <2>2. Running(h) \in {0, 1} /\ InSection(h, Running(h)) /\ Cur(h) = ctx[h][Running(h)]
    BY <2>1, CurIsCall DEF InSection
  <2>3. \A g \in Harts, l \in {0, 1} : ctx'[g][l].pc # "write"
    BY <2>1, <2>2 DEF SectionInv, InSection, Others
  <2>4. Cur(h).irq \in Irqs /\ WriteRegister(Cur(h))
    BY <1>6, <2>1, <2>2 DEF ServiceWrite, CallInv, CallOK, ServicePc
  <2>5. GatewaysKeepRequests'
    <3>1. CASE Cur(h).op \in GatewayBits
      <4>1. Cur(h).op \notin {"enable", "disable", "delegate", "priority", "order", "clear"}
        BY <3>1 DEF GatewayBits
      <4>2. /\ meigwctrl' = [meigwctrl EXCEPT ![Cur(h).irq] =
                                Cur(h).reg \cup GatewayBit(Cur(h))]
            /\ requested' = [requested EXCEPT ![Cur(h).irq] =
                                IF Cur(h).arg = 1 THEN @ \cup {Cur(h).op} ELSE @]
        BY <2>4, <4>1 DEF WriteRegister, WriteEnable, WriteDelegation, WritePriority,
                          WriteOrder, WriteGateway, ClearGateway
      <4>3. Cur(h).reg = meigwctrl[Cur(h).irq] /\ meigwctrl[Cur(h).irq] = requested[Cur(h).irq]
        BY <2>1, <2>2, <2>4, <3>1 DEF GatewayInv, GatewaysKeepRequests
      <4>4. meigwctrl'[Cur(h).irq] = requested'[Cur(h).irq]
        BY <2>4, <4>2, <4>3 DEF GatewayBit, TypeOK, RegistersTypeOK
      <4> QED
        BY <2>4, <4>2, <4>4 DEF GatewayInv, GatewaysKeepRequests, TypeOK, RegistersTypeOK
    <3>2. CASE Cur(h).op \notin GatewayBits
      <4>1. UNCHANGED <<meigwctrl, requested>>
        BY <2>4, <3>2 DEF WriteRegister, WriteEnable, WriteDelegation, WritePriority,
                          WriteOrder, WriteGateway, ClearGateway
      <4> QED
        BY <4>1 DEF GatewayInv, GatewaysKeepRequests
    <3> QED
      BY <3>1, <3>2
  <2> QED
    BY <2>3, <2>5 DEF GatewayInv
<1>7. ASSUME NEW h \in Harts, RegisterTable(h) PROVE Goal
  BY <1>7, StepsMove, GatewayKept DEF RegisterTable, Pc
<1>8. ASSUME NEW h \in Harts, Capture(h) PROVE Goal
  BY <1>8, StepsMove, GatewayKept DEF Capture, Pc
<1>9. ASSUME NEW h \in Harts, CallHandler(h) PROVE Goal
  <2>1. UNCHANGED <<meigwctrl, requested>>
    BY <1>9 DEF CallHandler
  <2>2. Moves(h, "load", "lost") \/ Moves(h, "load", "lock") \/ Moves(h, "load", "bsp_read")
    BY <1>9, CallsMove
  <2> QED
    BY <2>1, <2>2, GatewayKept DEF Pc
<1>10. ASSUME NEW h \in Harts, ClearRead(h) PROVE Goal
  BY <1>10, StepsMove, GatewayKept DEF ClearRead, Pc
<1>11. ASSUME NEW h \in Harts, ClearWrite(h) PROVE Goal
  BY <1>11, CallsMove, GatewayKept DEF ClearWrite, Pc
<1>12. ASSUME NEW h \in Harts, Mret(h) PROVE Goal
  BY <1>12, TrapsMove, GatewayKept DEF Mret, Pc
<1>13. ASSUME NEW h \in Harts, Trap(h) PROVE Goal
  <2>1. UNCHANGED <<meigwctrl, requested>>
    BY <1>13 DEF Trap
  <2>2. \A g \in Harts, l \in {0, 1} : ctx'[g][l] = ctx[g][l] \/ ctx'[g][l].pc # "write"
    BY <1>13, TrapsMove
  <2> QED
    BY <2>1, <2>2 DEF GatewayInv, GatewaysKeepRequests
<1>14. ASSUME NEW h \in Harts, NEW i \in Irqs, GenerateExtInterrupt(h, i)
       PROVE  Goal
  BY <1>14, GatewayUnchanged DEF GenerateExtInterrupt
<1>15. ASSUME NEW h \in Harts, NEW t \in Level,
              SetThreshold(h, t) \/ SetNestingPriorityThreshold(h, t)
       PROVE  Goal
  BY <1>15, GatewayUnchanged DEF SetThreshold, SetNestingPriorityThreshold
<1>16. ASSUME NEW h \in Harts, EnableInterrupts(h) PROVE Goal
  BY <1>16, GatewayUnchanged DEF EnableInterrupts
<1> HIDE DEF Goal
<1>17. Goal
  BY <1>1, <1>2, <1>3, <1>4, <1>5, <1>6, <1>7, <1>8, <1>9, <1>10, <1>11, <1>12, <1>13,
     <1>14, <1>15, <1>16 DEF Next, AppStep, CallStep
<1> QED
  BY <1>17 DEF Goal

-------------------------------------------------------------------------------
\* What a step of hart h leaves of MieInv to show: that hart.
LEMMA MieOfOthers ==
    ASSUME TypeOK, MieInv, NEW h \in Harts, Others(h),
           \A g \in Harts \ {h} : mie'[g] = mie[g] /\ on'[g] = on[g],
           HartMieOK(h)'
    PROVE  MieInv'
<1>1. \A g \in Harts \ {h} : ctx'[g][0] = ctx[g][0] /\ ctx'[g][1] = ctx[g][1]
  BY DEF Others
<1>2. \A g \in Harts \ {h} : HartMieOK(g)'
  BY <1>1 DEF MieInv, HartMieOK
<1> QED
  BY <1>2 DEF MieInv

\* A move of the application or of a handler.
LEMMA ContextMoves ==
    ASSUME TypeOK, CallInv, NEW h \in Harts, NEW from, NEW to, Moves(h, from, to)
    PROVE  \/ /\ ctx[h][1].pc = "none" /\ ctx'[h][1] = ctx[h][1]
              /\ from \in AppPc
              /\ Running(h) = 0 /\ Cur(h) = ctx[h][0]
              /\ ctx[h][0].pc = from /\ ctx'[h][0].pc = to
           \/ /\ ctx[h][1].pc # "none" /\ ctx'[h][0] = ctx[h][0]
              /\ from \in TrapPc \ {"none"} /\ ctx[h][1].outer = NULL
              /\ Running(h) = 1 /\ Cur(h) = ctx[h][1]
              /\ ctx[h][1].pc = from /\ ctx'[h][1].pc = to
BY DEF Moves, Others, Running, Cur, CallInv, CallOK

\* A move that leaves MIE alone and does not touch what was saved.
LEMMA MieKept ==
    ASSUME TypeOK, CallInv, MieInv, NEW h \in Harts,
           NEW from \in Pc \ {"write", "table", "none"},
           NEW to \in Pc \ {"write", "table", "none"}, Moves(h, from, to),
           Running(h) = 0 => ctx'[h][0].outer = ctx[h][0].outer,
           UNCHANGED <<mie, on>>
    PROVE  MieInv'
<1>1. HartMieOK(h)
  BY DEF MieInv
<1>2. HartMieOK(h)'
  BY <1>1, ContextMoves DEF HartMieOK
<1> QED
  BY <1>2, MieOfOthers DEF Moves

LEMMA MieUnchanged ==
    ASSUME MieInv, UNCHANGED <<ctx, mie, on>>
    PROVE  MieInv'
BY DEF MieInv, HartMieOK

\* Whoever disables interrupts saves what MIE was, and whoever restores puts
\* back what the innermost disable saved.
LEMMA MieStep ==
    ASSUME TypeOK, CallInv, MieInv, Next
    PROVE  MieInv'
<1> DEFINE Goal == MieInv'
<1> USE DEF histVars
<1>0. \A h \in Harts : HartMieOK(h) /\ mie[h] \in {0, 1} /\ Running(h) \in {0, 1}
  BY CurIsCall DEF MieInv, TypeOK, RegistersTypeOK
<1>types. mie \in [Harts -> {0, 1}] /\ on \in [Harts -> BOOLEAN]
  BY DEF TypeOK, RegistersTypeOK
<1>idle. \A h \in Harts : Cur(h).pc \in {"idle", "table"} =>
             /\ Running(h) = 0 /\ Cur(h) = ctx[h][0] /\ ctx[h][1].pc = "none"
             /\ Cur(h).pc = "idle" => ctx[h][0].outer = NULL
  BY DEF Running, Cur, CallInv, CallOK, TrapPc, ServicePc
<1>1. ASSUME NEW h \in Harts, NEW op \in Locked, NEW i \in Irqs, NEW a \in Argument(op),
             CallService(h, op, i, a)
      PROVE  Goal
  <2>1. /\ Moves(h, "idle", "lock") /\ ctx'[h][Running(h)].outer = NULL
        /\ Cur(h).pc = "idle" /\ UNCHANGED <<mie, on>>
    BY <1>1, CallsMove DEF Calls, CallService, Moves
  <2> QED
    BY <2>1, <1>idle, MieKept DEF Pc
<1>2. ASSUME NEW h \in Harts, NEW i \in Irqs, RegisterISR(h, i)
      PROVE  Goal
  <2>1. /\ Moves(h, "idle", "table") /\ ctx'[h][Running(h)].outer = mie[h]
        /\ Cur(h).pc = "idle" /\ mie' = [mie EXCEPT ![h] = 0] /\ UNCHANGED on
    BY <1>2, CallsMove DEF Calls, RegisterISR, Moves
  <2>2. HartMieOK(h)'
    BY <2>1, <1>0, <1>idle, ContextMoves, <1>types DEF HartMieOK, NULL
  <2> QED
    BY <2>1, <2>2, MieOfOthers, <1>types DEF Moves
<1>3. ASSUME NEW h \in Harts, ServiceLock(h) PROVE Goal
  <2>1. Moves(h, "lock", "disable") /\ Keeps(h) /\ UNCHANGED <<mie, on>>
    BY <1>3, StepsMove DEF ServiceLock
  <2>2. Running(h) = 0 => ctx'[h][0].outer = ctx[h][0].outer
    BY <2>1, ContextMoves DEF Keeps
  <2> QED
    BY <2>1, <2>2, MieKept DEF Pc
<1>4. ASSUME NEW h \in Harts, ServiceDisable(h) PROVE Goal
  <2>1. /\ Moves(h, "disable", "write") /\ Keeps(h)
        /\ ctx'[h][Running(h)].saved = mie[h]
        /\ mie' = [mie EXCEPT ![h] = 0] /\ UNCHANGED on
    BY <1>4, StepsMove DEF ServiceDisable
  <2>2. HartMieOK(h)'
    BY <2>1, <1>0, ContextMoves, <1>types DEF Keeps, HartMieOK
  <2> QED
    BY <2>1, <2>2, MieOfOthers, <1>types DEF Moves
<1>5. ASSUME NEW h \in Harts, ServiceWrite(h) PROVE Goal
  <2>1. /\ Moves(h, "write", "unlock") /\ Keeps(h)
        /\ mie' = [mie EXCEPT ![h] = Cur(h).saved] /\ UNCHANGED on
    BY <1>5, StepsMove DEF ServiceWrite
  <2>2. HartMieOK(h)'
    BY <2>1, <1>0, ContextMoves, <1>types DEF Keeps, HartMieOK
  <2> QED
    BY <2>1, <2>2, MieOfOthers, <1>types DEF Moves
<1>6. ASSUME NEW h \in Harts, ServiceUnlock(h) PROVE Goal
  <2>1. /\ Moves(h, "unlock", IF Running(h) = 0 THEN "idle" ELSE "mret")
        /\ ctx'[h][Running(h)].outer = NULL /\ UNCHANGED on
        /\ mie' = IF Cur(h).outer = NULL THEN mie ELSE [mie EXCEPT ![h] = Cur(h).outer]
    BY <1>6, CallsMove DEF ServiceUnlock
  <2>2. HartMieOK(h)'
    BY <2>1, <1>0, ContextMoves, <1>types DEF HartMieOK
  <2> QED
    BY <2>1, <2>2, MieOfOthers, <1>types DEF Moves
<1>7. ASSUME NEW h \in Harts, RegisterTable(h) PROVE Goal
  <2>1. Moves(h, "table", "lock") /\ Keeps(h) /\ UNCHANGED <<mie, on>>
    BY <1>7, StepsMove DEF RegisterTable
  <2>2. HartMieOK(h)'
    BY <2>1, <1>0, <1>idle, ContextMoves DEF Keeps, HartMieOK, Moves, CallInv, CallOK
  <2> QED
    BY <2>1, <2>2, MieOfOthers DEF Moves
<1>8. ASSUME NEW h \in Harts, Capture(h) PROVE Goal
  <2>1. Moves(h, "capture", "load") /\ UNCHANGED <<mie, on>>
    BY <1>8, StepsMove DEF Capture
  <2>2. Running(h) # 0
    BY <2>1, ContextMoves DEF AppPc, ServicePc
  <2> QED
    BY <2>1, <2>2, MieKept DEF Pc
<1>9. ASSUME NEW h \in Harts, CallHandler(h) PROVE Goal
  <2>1. UNCHANGED <<mie, on>>
    BY <1>9 DEF CallHandler
  <2>2. Moves(h, "load", "lost") \/ Moves(h, "load", "lock") \/ Moves(h, "load", "bsp_read")
    BY <1>9, CallsMove
  <2>3. Running(h) # 0
    BY <2>2, ContextMoves DEF AppPc, ServicePc
  <2> QED
    BY <2>1, <2>2, <2>3, MieKept DEF Pc
<1>10. ASSUME NEW h \in Harts, ClearRead(h) PROVE Goal
  <2>1. Moves(h, "bsp_read", "bsp_write") /\ UNCHANGED <<mie, on>>
    BY <1>10, StepsMove DEF ClearRead
  <2>2. Running(h) # 0
    BY <2>1, ContextMoves DEF AppPc, ServicePc
  <2> QED
    BY <2>1, <2>2, MieKept DEF Pc
<1>11. ASSUME NEW h \in Harts, ClearWrite(h) PROVE Goal
  <2>1. /\ Moves(h, "bsp_write", IF Running(h) = 0 THEN "idle" ELSE "mret")
        /\ UNCHANGED <<mie, on>>
    BY <1>11, CallsMove DEF ClearWrite
  <2>2. Running(h) # 0
    BY <2>1, ContextMoves DEF AppPc, ServicePc
  <2> QED
    BY <2>1, <2>2, MieKept DEF Pc
<1>12. ASSUME NEW h \in Harts, Mret(h) PROVE Goal
  <2>1. /\ Running(h) = 1 /\ Moves(h, "mret", "none") /\ ctx'[h][1].outer = NULL
        /\ mie' = [mie EXCEPT ![h] = 1] /\ UNCHANGED on
    BY <1>12, TrapsMove DEF Mret
  <2>2. HartMieOK(h)'
    BY <2>1, <1>0, ContextMoves, <1>types DEF HartMieOK
  <2> QED
    BY <2>1, <2>2, MieOfOthers, <1>types DEF Moves
<1>13. ASSUME NEW h \in Harts, Trap(h) PROVE Goal
  <2>1. /\ mie[h] = 1 /\ mie' = [mie EXCEPT ![h] = 0] /\ UNCHANGED on
    BY <1>13 DEF Trap
  <2>2. /\ ctx[h][1].pc = "none" /\ ctx'[h][1].pc = "capture" /\ ctx'[h][0] = ctx[h][0]
        /\ \A g \in Harts \ {h} : ctx'[g] = ctx[g]
    BY <1>13, TrapsMove
  <2>3. HartMieOK(h)'
    BY <2>1, <2>2, <1>0, <1>types DEF HartMieOK
  <2>4. \A g \in Harts \ {h} : HartMieOK(g)'
    BY <2>1, <2>2, <1>0, <1>types DEF HartMieOK
  <2> QED
    BY <2>3, <2>4 DEF MieInv
<1>14. ASSUME NEW h \in Harts, NEW i \in Irqs, GenerateExtInterrupt(h, i)
       PROVE  Goal
  BY <1>14, MieUnchanged DEF GenerateExtInterrupt
<1>15. ASSUME NEW h \in Harts, NEW t \in Level,
              SetThreshold(h, t) \/ SetNestingPriorityThreshold(h, t)
       PROVE  Goal
  BY <1>15, MieUnchanged DEF SetThreshold, SetNestingPriorityThreshold
<1>16. ASSUME NEW h \in Harts, EnableInterrupts(h) PROVE Goal
  <2>1. /\ Cur(h).pc = "idle" /\ on' = [on EXCEPT ![h] = TRUE]
        /\ mie' = [mie EXCEPT ![h] = 1] /\ UNCHANGED ctx
    BY <1>16 DEF EnableInterrupts
  <2>2. \A g \in Harts : HartMieOK(g)'
    BY <2>1, <1>0, <1>idle, <1>types DEF HartMieOK
  <2> QED
    BY <2>2 DEF MieInv
<1> HIDE DEF Goal
<1>17. Goal
  BY <1>1, <1>2, <1>3, <1>4, <1>5, <1>6, <1>7, <1>8, <1>9, <1>10, <1>11, <1>12, <1>13,
     <1>14, <1>15, <1>16 DEF Next, AppStep, CallStep
<1> QED
  BY <1>17 DEF Goal

-------------------------------------------------------------------------------
LEMMA PicInvHolds == Spec => []PicInv
<1>1. PicInv /\ [Next]_vars => PicInv'
  <2> SUFFICES ASSUME PicInv, [Next]_vars PROVE PicInv'
    OBVIOUS
  <2>1. CASE Next
    BY <2>1, CallsStep, SectionStep, GatewayStep, MieStep DEF PicInv
  <2>2. CASE UNCHANGED vars
    <3>1. UNCHANGED <<ctx, g_uiInternalPspMutex, mie, on, meigwctrl, requested>>
      BY <2>2 DEF vars, picVars, histVars
    <3>2. TypeOK'
      BY <2>2 DEF vars, picVars, csrVars, boardVars, histVars, PicInv, TypeOK, RegistersTypeOK
    <3>3. CallInv'
      BY <3>1 DEF PicInv, CallInv
    <3> QED
      BY <3>1, <3>2, <3>3, SectionUnchanged, GatewayUnchanged, MieUnchanged DEF PicInv
  <2> QED
    BY <2>1, <2>2
<1> QED
  BY <1>1, InitInv, PTL DEF Spec

\* The registers of the PIC, the words and the calls keep the values of their
\* types whatever the harts call: a 0 or 1 in every enable, threshold and
\* priority in range, a claimed line that exists.
THEOREM PicTypeCorrectness == Spec => []TypeOK
BY PicInvHolds, PTL DEF PicInv

\* pspInternalMutexLock and Unlock around every store to the shared registers
\* of the PIC (psp_ext_interrupts_eh2.c) exclude the two harts, and a handler
\* from the application that it interrupted.
THEOREM PicSectionsAreExclusive == Spec => []PicSectionsExclude
<1>1. PicInv => PicSectionsExclude
  BY DEF PicInv, SectionInv, PicSectionsExclude, InPicSection
<1> QED
  BY <1>1, PicInvHolds, PTL

\* SetType and SetPolarity read, modify and write the control register that
\* holds both: no bit that one of them set is lost to the other.
THEOREM NoGatewayBitIsLost == Spec => []GatewaysKeepRequests
<1>1. PicInv => GatewaysKeepRequests
  BY DEF PicInv, GatewayInv
<1> QED
  BY <1>1, PicInvHolds, PTL

\* The nested disables and restores of RegisterISR and of the services it calls,
\* and traps between them, never leave an application's interrupts off.
THEOREM InterruptsAlwaysComeBack == Spec => []InterruptsComeBack
<1>1. PicInv => InterruptsComeBack
  BY DEF PicInv, MieInv, HartMieOK, InterruptsComeBack, Running
<1> QED
  BY <1>1, PicInvHolds, PTL
-------------------------------------------------------------------------------
(***************************************************************************)
(* Under the discipline of the demos, each line set up and served by one   *)
(* hart, the handler that the hardware loads exists and the line that a    *)
(* handler claims is pending.                                              *)
(***************************************************************************)

\* A line that is set up is pending exactly while its source asks for service.
LEMMA PendingOfSetUp ==
    ASSUME TypeOK, GatewaysKeepRequests, NEW i \in Irqs, SetUp(i)
    PROVE  Pending(i) <=> IF i \in EdgeIrqs THEN gateway[i] = 1 ELSE i \in generation
<1>1. meigwctrl[i] = Wanted(i)
  BY DEF GatewaysKeepRequests, SetUp
<1>2. "type" \in meigwctrl[i] <=> i \in EdgeIrqs
  BY <1>1 DEF Wanted
<1>3. "polarity" \in meigwctrl[i] <=> i \in ActiveLow
  BY <1>1 DEF Wanted
<1>4. CASE i \in EdgeIrqs
  BY <1>2, <1>4 DEF Pending
<1>5. CASE i \notin EdgeIrqs
  <2>1. Pending(i) <=> Asserted(i)
    BY <1>2, <1>5 DEF Pending
  <2>2. Asserted(i) <=> i \in generation
    BY <1>3, <1>5 DEF Asserted
  <2> QED
    BY <1>5, <2>1, <2>2
<1> QED
  BY <1>4, <1>5

\* A hart that is in a trap has enabled interrupts.
LEMMA TrapsAreOn ==
    ASSUME PicInv, NEW h \in Harts, ctx[h][1].pc # "none" \/ mie[h] = 1
    PROVE  on[h]
BY DEF PicInv, MieInv, HartMieOK

\* Once a hart has, an enabled line that is pending is the one that was triggered,
\* and its owner's.
LEMMA EnabledLine ==
    ASSUME PicInv, LinesInv, BoardInv, NEW g \in Harts, on[g],
           NEW i \in Irqs, meie[i] = 1, Pending(i)
    PROVE  /\ SetUp(i) /\ i \in triggered /\ meidel[i] = Owner[i]
           /\ g_ExtInterruptHandlers[Owner[i]][i] = ISR /\ meivt[Owner[i]] = Owner[i]
           /\ i \notin EdgeIrqs => i \in generation
<1>1. SetUp(i)
  BY DEF LinesInv
<1>2. IF i \in EdgeIrqs THEN gateway[i] = 1 ELSE i \in generation
  BY <1>1, PendingOfSetUp DEF PicInv, GatewayInv
<1>3. i \in triggered
  BY <1>2 DEF BoardInv
<1> QED
  BY <1>1, <1>2, <1>3 DEF LinesInv, SetUp

\* One line at most is deliverable: the PIC offers it.
LEMMA OfferedIsDeliverable ==
    ASSUME PicInv, LinesInv, BoardInv, NEW h \in Harts, on[h]
    PROVE  /\ \A i \in Irqs : Deliverable(h, i) => Offered(h) = i
           /\ Offered(h) # NoLine => /\ Offered(h) \in Irqs
                                     /\ Deliverable(h, Offered(h))
<1>1. \A i, j \in Irqs : Deliverable(h, i) /\ Deliverable(h, j) => i = j
  <2>1. \A i \in Irqs : Deliverable(h, i) => i \in triggered
    BY EnabledLine DEF Deliverable
  <2> QED
    BY <2>1 DEF BoardInv
<1>2. \A i \in Irqs : Best(h, i) <=> Deliverable(h, i)
  BY <1>1 DEF Best
<1>3. ASSUME NEW i \in Irqs, Deliverable(h, i) PROVE Offered(h) = i
  <2>1. \E j \in Irqs : Best(h, j)
    BY <1>2, <1>3
  <2>2. Offered(h) \in Irqs /\ Best(h, Offered(h))
    BY <2>1 DEF Offered
  <2> QED
    BY <1>1, <1>2, <1>3, <2>2
<1>4. Offered(h) # NoLine => Offered(h) \in Irqs /\ Deliverable(h, Offered(h))
  BY <1>2 DEF Offered
<1> QED
  BY <1>3, <1>4
-------------------------------------------------------------------------------
\* What the store of a service changes, as one assignment for each register.
LEMMA WriteEffects ==
    ASSUME TypeOK, CallInv, NEW h \in Harts, ServiceWrite(h)
    PROVE  LET c == Cur(h)
           IN  /\ c.irq \in Irqs /\ c.op \in Locked /\ c.pc = "write"
               /\ meie' = IF c.op \in {"enable", "disable"}
                          THEN [meie EXCEPT ![c.irq] = c.arg] ELSE meie
               /\ meidel' = IF c.op = "delegate"
                            THEN [meidel EXCEPT ![c.irq] = c.arg] ELSE meidel
               /\ meipl' = IF c.op = "priority"
                           THEN [meipl EXCEPT ![c.irq] = c.arg] ELSE meipl
               /\ c.op # "order" => mpiccfg' = mpiccfg
               /\ \A i \in Irqs : i # c.irq => meigwctrl'[i] = meigwctrl[i]
               /\ requested' = IF c.op \in GatewayBits /\ c.arg = 1
                               THEN [requested EXCEPT ![c.irq] = @ \cup {c.op}]
                               ELSE requested
               /\ gateway' = IF c.op = "clear"
                             THEN [gateway EXCEPT ![c.irq] = 0] ELSE gateway
               /\ triggered' = IF c.op = "clear"
                               THEN triggered \ ({c.irq} \cap EdgeIrqs) ELSE triggered
<1> DEFINE c == Cur(h)
<1>1. c.irq \in Irqs /\ c.op \in Locked /\ c.pc = "write" /\ WriteRegister(c)
  BY CurIsCall DEF ServiceWrite, Goto, CallInv, CallOK, ServicePc
<1>2. /\ meigwctrl \in [Irqs -> SUBSET GatewayBits]
      /\ requested \in [Irqs -> SUBSET GatewayBits]
  BY DEF TypeOK, RegistersTypeOK
<1> HIDE DEF c
<1>3. CASE c.op \in {"enable", "disable"}
  BY <1>1, <1>3 DEF WriteRegister, WriteEnable, WriteDelegation, WritePriority,
                    WriteOrder, WriteGateway, ClearGateway, GatewayBits, c
<1>4. CASE c.op = "delegate"
  BY <1>1, <1>4 DEF WriteRegister, WriteEnable, WriteDelegation, WritePriority,
                    WriteOrder, WriteGateway, ClearGateway, GatewayBits, c
<1>5. CASE c.op = "priority"
  BY <1>1, <1>5 DEF WriteRegister, WriteEnable, WriteDelegation, WritePriority,
                    WriteOrder, WriteGateway, ClearGateway, GatewayBits, c
<1>6. CASE c.op = "order"
  BY <1>1, <1>6 DEF WriteRegister, WriteEnable, WriteDelegation, WritePriority,
                    WriteOrder, WriteGateway, ClearGateway, GatewayBits, c
<1>7. CASE c.op \in GatewayBits
  <2>1. /\ meigwctrl' = [meigwctrl EXCEPT ![c.irq] = c.reg \cup GatewayBit(c)]
        /\ requested' = [requested EXCEPT ![c.irq] =
                            IF c.arg = 1 THEN @ \cup {c.op} ELSE @]
        /\ UNCHANGED <<meie, meidel, meipl, mpiccfg, gateway, triggered>>
    BY <1>1, <1>7 DEF WriteRegister, WriteEnable, WriteDelegation, WritePriority,
                      WriteOrder, WriteGateway, ClearGateway, GatewayBits
  <2>2. requested' = IF c.arg = 1 THEN [requested EXCEPT ![c.irq] = @ \cup {c.op}]
                     ELSE requested
    BY <1>1, <1>2, <2>1
  <2> QED
    BY <1>1, <1>2, <1>7, <2>1, <2>2 DEF GatewayBits, c
<1>8. CASE c.op = "clear"
  BY <1>1, <1>8 DEF WriteRegister, WriteEnable, WriteDelegation, WritePriority,
                    WriteOrder, WriteGateway, ClearGateway, GatewayBits, c
<1> QED
  BY <1>1, <1>3, <1>4, <1>5, <1>6, <1>7, <1>8 DEF Locked, GatewayBits

\* The call of the handler, and the line that it clears.
LEMMA HandlerMoves ==
    ASSUME TypeOK, CallInv, NEW h \in Harts, CallHandler(h)
    PROVE  LET d == ctx'[h][1]
           IN  /\ Running(h) = 1 /\ ctx[h][1].pc = "load" /\ Others(h)
               /\ \/ d.pc = "lost" /\ Handler(h) = NULL
                  \/ /\ d.pc = "lock" /\ meihap[h] \in EdgeIrqs
                     /\ d.op = "clear" /\ d.irq = meihap[h] /\ d.outer = NULL
                  \/ /\ d.pc = "bsp_read" /\ meihap[h] \notin EdgeIrqs
                     /\ d.irq = meihap[h] /\ d.op = "none"
<1>1. Cur(h).pc = "load" /\ meihap[h] \in Irqs \cup {NoLine}
  BY DEF CallHandler, TypeOK, RegistersTypeOK
<1>2. Running(h) = 1 /\ ctx[h][1].pc = "load"
  BY <1>1, CurIsCall DEF CallInv, CallOK, AppPc, ServicePc
<1>3. /\ At("lost") \in Call
      /\ [At("lock") EXCEPT !.op = "clear", !.irq = meihap[h]] \in Call
      /\ [At("bsp_read") EXCEPT !.irq = meihap[h]] \in Call
  BY <1>1 DEF At, Call, Pc, Op, Locked, NULL
<1>4. \A c \in Call : Become(h, c) => Others(h) /\ ctx'[h][1] = c
  BY <1>2, BecomeOnly DEF Others
<1> DEFINE clear == [At("lock") EXCEPT !.op = "clear", !.irq = meihap[h]]
           bsp == [At("bsp_read") EXCEPT !.irq = meihap[h]]
<1>5. At("lost").pc = "lost"
  BY DEF At
<1>6. /\ clear.pc = "lock" /\ clear.op = "clear" /\ clear.irq = meihap[h]
      /\ clear.outer = NULL
  BY DEF At
<1>7. bsp.pc = "bsp_read" /\ bsp.irq = meihap[h] /\ bsp.op = "none"
  BY DEF At
<1>8. \/ Handler(h) = NULL /\ Become(h, At("lost"))
      \/ meihap[h] \in EdgeIrqs /\ Become(h, clear)
      \/ meihap[h] \notin EdgeIrqs /\ Become(h, bsp)
  BY DEF CallHandler
<1> HIDE DEF clear, bsp
<1>9. clear \in Call /\ bsp \in Call
  BY <1>3 DEF clear, bsp
<1> QED
  BY <1>2, <1>3, <1>4, <1>5, <1>6, <1>7, <1>8, <1>9
-------------------------------------------------------------------------------
\* What no step takes back: registrations, handlers, their rows, the delegation
\* of a line to its owner, and a set-up that the line is enabled with.
Steady ==
    /\ registered \subseteq registered'
    /\ \A i \in Irqs : /\ requested'[i] \subseteq Wanted(i)
                       /\ SetUp(i) /\ Enabled(i) => SetUp(i)'
                       /\ meidel[i] = Owner[i] => meidel'[i] = Owner[i]
    /\ \A g \in Harts : /\ meivt[g] = g => meivt'[g] = g
                        /\ \A i \in Irqs : g_ExtInterruptHandlers[g][i] = ISR =>
                               g_ExtInterruptHandlers'[g][i] = ISR

LEMMA SteadyUnchanged ==
    ASSUME LinesInv,
           UNCHANGED <<on, registered, requested, meidel, meivt, g_ExtInterruptHandlers>>
    PROVE  Steady
BY DEF LinesInv, Steady, SetUp

\* The call that runs satisfies what the invariants say of it.
LEMMA CurOwned ==
    ASSUME TypeOK, CallInv, OwnedInv, NEW h \in Harts
    PROVE  /\ Running(h) \in {0, 1} /\ Owned(h, Cur(h))
           /\ Cur(h).pc \in ServicePc \cup {"table"} => Cur(h).irq \in Irqs
BY CurIsCall DEF OwnedInv, CallInv, CallOK

LEMMA SteadyStep ==
    ASSUME Disciplined, PicInv, OwnedInv, LinesInv, NEW h \in Harts,
           AppStep(h) \/ CallStep(h) \/ Trap(h)
    PROVE  Steady
<1> USE DEF picVars, csrVars, boardVars, histVars
<1>0. TypeOK /\ CallInv
  BY DEF PicInv
<1>1. CASE ServiceWrite(h)
  <2> DEFINE c == Cur(h)
  <2>1. /\ c.irq \in Irqs /\ c.pc = "write" /\ Owned(h, c)
        /\ meidel' = IF c.op = "delegate" THEN [meidel EXCEPT ![c.irq] = c.arg]
                     ELSE meidel
        /\ requested' = IF c.op \in GatewayBits /\ c.arg = 1
                        THEN [requested EXCEPT ![c.irq] = @ \cup {c.op}] ELSE requested
    BY <1>0, <1>1, WriteEffects, CurOwned
  <2>2. UNCHANGED <<on, registered, meivt, g_ExtInterruptHandlers>>
    BY <1>1 DEF ServiceWrite
  <2>3. /\ meidel \in [Irqs -> {0, 1}] /\ requested \in [Irqs -> SUBSET GatewayBits]
        /\ \A i \in Irqs : requested[i] \subseteq Wanted(i)
    BY <1>0 DEF TypeOK, RegistersTypeOK, LinesInv
  <2> HIDE DEF c
  <2>4. /\ Owner[c.irq] = h
        /\ c.op = "delegate" => c.arg = h
        /\ c.op \in GatewayBits /\ c.arg = 1 => c.op \in Wanted(c.irq)
    BY <2>1 DEF Owned, ServicePc
  <2>5. \A i \in Irqs : meidel[i] = Owner[i] => meidel'[i] = Owner[i]
    BY <2>1, <2>3, <2>4
  <2>6. \A i \in Irqs : requested[i] \subseteq requested'[i] /\ requested'[i] \subseteq Wanted(i)
    BY <2>1, <2>3, <2>4
  <2> QED
    BY <2>2, <2>5, <2>6 DEF Steady, SetUp
<1>2. CASE ServiceUnlock(h)
  BY <1>2 DEF ServiceUnlock, Steady, LinesInv, SetUp
<1>3. CASE RegisterTable(h)
  <2>1. /\ meivt' = [meivt EXCEPT ![h] = h]
        /\ g_ExtInterruptHandlers' = [g_ExtInterruptHandlers EXCEPT ![h][Cur(h).irq] = ISR]
        /\ UNCHANGED <<on, registered, requested, meidel>>
    BY <1>3 DEF RegisterTable
  <2>2. /\ meivt \in [Harts -> {NULL, 0, 1}]
        /\ g_ExtInterruptHandlers \in [Harts -> [Irqs \cup {NoLine} -> {NULL, ISR}]]
    BY <1>0 DEF TypeOK, RegistersTypeOK
  <2> QED
    BY <2>1, <2>2 DEF Steady, LinesInv, SetUp
<1>4. CASE UNCHANGED <<on, registered, requested, meidel, meivt, g_ExtInterruptHandlers>>
  BY <1>4, SteadyUnchanged
<1>5. CASE AppStep(h)
  <2>1. CASE EnableInterrupts(h)
    <3>1. /\ \A i \in Irqs : Enabled(i) => i \in registered
          /\ UNCHANGED <<registered, requested, meidel, meivt, g_ExtInterruptHandlers>>
      BY <2>1 DEF EnableInterrupts
    <3> QED
      BY <3>1 DEF LinesInv, Steady, SetUp
  <2>2. CASE ~EnableInterrupts(h)
    <3>1. UNCHANGED <<on, registered, requested, meidel, meivt, g_ExtInterruptHandlers>>
      BY <1>5, <2>2 DEF AppStep, CallService, RegisterISR, GenerateExtInterrupt,
         SetThreshold, SetNestingPriorityThreshold
    <3> QED
      BY <1>4, <3>1
  <2> QED
    BY <2>1, <2>2
<1>6. CASE Trap(h)
  BY <1>4, <1>6 DEF Trap
<1>7. CASE \/ ServiceLock(h) \/ ServiceDisable(h) \/ Capture(h) \/ CallHandler(h)
           \/ ClearRead(h) \/ ClearWrite(h) \/ Mret(h)
  <2>1. UNCHANGED <<on, registered, requested, meidel, meivt, g_ExtInterruptHandlers>>
    BY <1>7 DEF ServiceLock, ServiceDisable, Capture, CallHandler, ClearRead, ClearWrite, Mret
  <2> QED
    BY <1>4, <2>1
<1> QED
  BY <1>1, <1>2, <1>3, <1>5, <1>6, <1>7 DEF CallStep
-------------------------------------------------------------------------------
\* The other calls stay in order when the one that moves does.
LEMMA OwnedKept ==
    ASSUME TypeOK, CallInv, OwnedInv, Steady, NEW h \in Harts, Others(h),
           NEW r \in {0, 1}, r = Running(h), Owned(h, ctx[h][r])'
    PROVE  OwnedInv'
<1>1. ASSUME NEW g \in Harts, NEW l \in {0, 1}, g # h \/ l # r
      PROVE  Owned(g, ctx[g][l])'
  <2>1. ctx'[g][l] = ctx[g][l] /\ Owned(g, ctx[g][l])
    BY <1>1 DEF Others, OwnedInv
  <2>2. ctx[g][l].pc \in ServicePc \cup {"table"} => ctx[g][l].irq \in Irqs
    BY DEF CallInv, CallOK
  <2>3. ctx[g][l].op = "enable" => Enabled(ctx[g][l].irq)
    BY DEF Enabled
  <2> QED
    BY <2>1, <2>2, <2>3 DEF Owned, Steady
<1> QED
  BY <1>1 DEF OwnedInv

LEMMA OwnedUnchanged ==
    ASSUME TypeOK, CallInv, OwnedInv, Steady, UNCHANGED ctx
    PROVE  OwnedInv'
<1>1. ASSUME NEW g \in Harts, NEW l \in {0, 1}
      PROVE  Owned(g, ctx[g][l])'
  <2>1. ctx'[g][l] = ctx[g][l] /\ Owned(g, ctx[g][l])
    BY DEF OwnedInv
  <2>2. ctx[g][l].pc \in ServicePc \cup {"table"} => ctx[g][l].irq \in Irqs
    BY DEF CallInv, CallOK
  <2>3. ctx[g][l].op = "enable" => Enabled(ctx[g][l].irq)
    BY DEF Enabled
  <2> QED
    BY <2>1, <2>2, <2>3 DEF Owned, Steady
<1> QED
  BY <1>1 DEF OwnedInv

\* A service is called for a line of the caller's own, and a handler clears a
\* line of its own hart.
LEMMA OwnedStep ==
    ASSUME Disciplined, Shared = {}, PicInv, DisciplinedInv, NEW h \in Harts,
           AppStep(h) \/ CallStep(h) \/ Trap(h)
    PROVE  OwnedInv'
<1>0. TypeOK /\ CallInv /\ Steady /\ OwnedInv
  BY SteadyStep DEF PicInv, DisciplinedInv
<1>r. PICK r \in {0, 1} : r = Running(h)
  BY <1>0, CurIsCall
<1> DEFINE d == ctx[h][r]
           Goal == OwnedInv'
<1>cur. /\ Owned(h, Cur(h))
        /\ Cur(h).pc \in ServicePc \cup {"table"} => Cur(h).irq \in Irqs
  BY <1>0, CurOwned
<1>en. /\ Cur(h).op = "enable" => Enabled(Cur(h).irq)
       /\ \A g \in Harts, l \in {0, 1} : ctx[g][l].op = "enable" => Enabled(ctx[g][l].irq)
  BY <1>r DEF Cur, Enabled
<1>kept. ASSUME Others(h), Owned(h, d)' PROVE Goal
  BY <1>kept, <1>0, <1>r, OwnedKept
<1>out. ASSUME Others(h), d'.pc \notin ServicePc \cup {"table"} PROVE Goal
  BY <1>out, <1>kept DEF Owned
<1>1. ASSUME NEW op \in Locked, NEW i \in Irqs, NEW a \in Argument(op),
             CallService(h, op, i, a)
      PROVE  Goal
  <2>1. /\ Others(h) /\ d'.pc = "lock" /\ d'.op = op /\ d'.irq = i /\ d'.arg = a
        /\ d'.outer = NULL
    BY <1>0, <1>r, <1>1, CallsMove DEF Moves, Calls
  <2>2. MayCall(h, op, i, a)
    BY <1>1 DEF CallService
  <2>3. op = "disable" => a = 0
    BY DEF Argument
  <2>4. op = "enable" => SetUp(i)'
    BY <1>1, <2>2 DEF CallService, MayCall, SetUp, histVars
  <2>5. /\ Owner[i] = h
        /\ op = "delegate" => a = h
        /\ op \in GatewayBits => a = (IF op \in Wanted(i) THEN 1 ELSE 0)
        /\ op = "order" => \A j \in Irqs : Owner[j] = h
    BY <2>2 DEF MayCall
  <2>6. Owned(h, d)'
    BY <2>1, <2>3, <2>4, <2>5 DEF Owned
  <2> QED
    BY <1>kept, <2>1, <2>6
<1>2. ASSUME NEW i \in Irqs, RegisterISR(h, i) PROVE Goal
  <2>1. /\ Others(h) /\ d'.pc = "table" /\ d'.op = "delegate" /\ d'.irq = i /\ d'.arg = h
    BY <1>0, <1>r, <1>2, CallsMove DEF Moves, Calls
  <2>2. Owner[i] = h
    BY <1>2 DEF RegisterISR, MayCall
  <2>3. Owned(h, d)'
    BY <2>1, <2>2 DEF Owned, GatewayBits
  <2> QED
    BY <1>kept, <2>1, <2>3
<1>3. ASSUME \/ Moves(h, "lock", "disable") \/ Moves(h, "disable", "write"), Keeps(h)
      PROVE  Goal
  <2>1. /\ Others(h) /\ Cur(h).pc \in {"lock", "disable"} /\ d'.pc \in {"disable", "write"}
        /\ d'.op = Cur(h).op /\ d'.irq = Cur(h).irq /\ d'.arg = Cur(h).arg
        /\ d'.outer = Cur(h).outer
    BY <1>r, <1>3 DEF Moves, Keeps
  <2>2. Owned(h, d)'
    BY <1>0, <1>cur, <1>en, <2>1 DEF Owned, Steady, ServicePc
  <2> QED
    BY <1>kept, <2>1, <2>2
<1>4. ASSUME ServiceWrite(h) PROVE Goal
  <2>1. /\ Others(h) /\ Cur(h).pc = "write" /\ d'.pc = "unlock"
        /\ d'.op = Cur(h).op /\ d'.irq = Cur(h).irq /\ d'.arg = Cur(h).arg
        /\ d'.outer = Cur(h).outer
    BY <1>0, <1>r, <1>4, StepsMove DEF Moves, Keeps
  <2>2. Cur(h).op = "delegate" => meidel' = [meidel EXCEPT ![Cur(h).irq] = Cur(h).arg]
    BY <1>0, <1>4, WriteEffects
  <2>3. Cur(h).irq \in Irqs /\ meidel \in [Irqs -> {0, 1}]
    BY <1>0, <1>cur, <2>1 DEF ServicePc, TypeOK, RegistersTypeOK
  <2>4. Cur(h).outer # NULL => meidel'[Cur(h).irq] = h
    BY <1>cur, <2>1, <2>2, <2>3 DEF Owned, ServicePc
  <2>5. Owned(h, d)'
    BY <1>0, <1>cur, <1>en, <2>1, <2>3, <2>4 DEF Owned, Steady, ServicePc
  <2> QED
    BY <1>kept, <2>1, <2>5
<1>5. ASSUME RegisterTable(h) PROVE Goal
  <2>1. /\ Others(h) /\ Cur(h).pc = "table" /\ d'.pc = "lock"
        /\ d'.op = Cur(h).op /\ d'.irq = Cur(h).irq /\ d'.arg = Cur(h).arg
        /\ d'.outer = Cur(h).outer
    BY <1>0, <1>r, <1>5, StepsMove DEF Moves, Keeps
  <2>2. /\ meivt' = [meivt EXCEPT ![h] = h]
        /\ g_ExtInterruptHandlers' = [g_ExtInterruptHandlers EXCEPT ![h][Cur(h).irq] = ISR]
        /\ meivt \in [Harts -> {NULL, 0, 1}]
        /\ g_ExtInterruptHandlers \in [Harts -> [Irqs \cup {NoLine} -> {NULL, ISR}]]
    BY <1>0, <1>5 DEF RegisterTable, TypeOK, RegistersTypeOK
  <2>3. meivt'[h] = h /\ g_ExtInterruptHandlers'[h][Cur(h).irq] = ISR
    BY <1>cur, <2>1, <2>2
  <2>4. Owned(h, d)'
    BY <1>0, <1>cur, <1>en, <2>1, <2>3 DEF Owned, Steady, ServicePc
  <2> QED
    BY <1>kept, <2>1, <2>4
<1>6. ASSUME CallHandler(h) PROVE Goal
  <2>1. /\ Running(h) = 1 /\ ctx[h][1].pc = "load" /\ Others(h)
        /\ \/ d'.pc \in {"lost", "bsp_read"}
           \/ /\ d'.pc = "lock" /\ meihap[h] \in EdgeIrqs
              /\ d'.op = "clear" /\ d'.irq = meihap[h] /\ d'.outer = NULL
    BY <1>0, <1>r, <1>6, HandlerMoves
  <2>2. Owner[meihap[h]] = h
    BY <2>1, TrapsAreOn, EnabledLine DEF DisciplinedInv, ClaimInv
  <2>3. Owned(h, d)'
    BY <2>1, <2>2 DEF Owned, ServicePc, GatewayBits
  <2> QED
    BY <1>kept, <2>1, <2>3
<1>7. ASSUME ServiceUnlock(h) \/ Capture(h) \/ ClearRead(h) \/ ClearWrite(h) \/ Mret(h)
      PROVE  Goal
  <2>1. Others(h) /\ d'.pc \in {"idle", "mret", "load", "bsp_write", "none"}
    BY <1>0, <1>r, <1>7, StepsMove, CallsMove, TrapsMove DEF Moves
  <2> QED
    BY <1>out, <2>1 DEF ServicePc
<1>8. ASSUME Trap(h) PROVE Goal
  <2>1. /\ ctx'[h][1].pc = "capture" /\ ctx'[h][0] = ctx[h][0]
        /\ \A g \in Harts \ {h} : ctx'[g] = ctx[g]
    BY <1>0, <1>8, TrapsMove
  <2>2. ASSUME NEW g \in Harts, NEW l \in {0, 1} PROVE Owned(g, ctx[g][l])'
    <3>1. CASE g = h /\ l = 1
      BY <2>1, <3>1 DEF Owned, ServicePc
    <3>2. CASE g # h \/ l # 1
      <4>1. ctx'[g][l] = ctx[g][l] /\ Owned(g, ctx[g][l])
        BY <1>0, <2>1, <3>2 DEF OwnedInv
      <4>2. ctx[g][l].pc \in ServicePc \cup {"table"} => ctx[g][l].irq \in Irqs
        BY <1>0 DEF CallInv, CallOK
      <4> QED
        BY <1>0, <1>en, <4>1, <4>2 DEF Owned, Steady
    <3> QED
      BY <3>1, <3>2
  <2> QED
    BY <2>2 DEF OwnedInv
<1>9. ASSUME UNCHANGED ctx PROVE Goal
  BY <1>0, <1>9, OwnedUnchanged
<1>10. ASSUME ServiceLock(h) \/ ServiceDisable(h) PROVE Goal
  BY <1>0, <1>3, <1>10, StepsMove
<1> HIDE DEF Goal
<1>11. ASSUME AppStep(h) PROVE Goal
  BY <1>1, <1>2, <1>9, <1>11 DEF AppStep, GenerateExtInterrupt, SetThreshold,
     SetNestingPriorityThreshold, EnableInterrupts
<1>12. Goal
  BY <1>4, <1>5, <1>6, <1>7, <1>8, <1>10, <1>11 DEF CallStep
<1> QED
  BY <1>12 DEF Goal
-------------------------------------------------------------------------------
\* Which steps of a hart bring its handler to a place that the invariants name.
LEMMA StepOfHart ==
    ASSUME TypeOK, CallInv, NEW h \in Harts, AppStep(h) \/ CallStep(h) \/ Trap(h)
    PROVE  /\ \A g \in Harts \ {h} : ctx'[g][1] = ctx[g][1]
           /\ ctx'[h][1].pc = "capture" => Trap(h)
           /\ ctx'[h][1].pc = "load" => Capture(h)
           /\ ctx'[h][1].pc = "bsp_read" => CallHandler(h)
           /\ ctx'[h][1].pc = "bsp_write" => ClearRead(h)
<1> DEFINE Named == {"capture", "load", "bsp_read", "bsp_write"}
           Apart == \A g \in Harts \ {h} : ctx'[g][1] = ctx[g][1]
<1>moves. ASSUME NEW from, NEW to, Moves(h, from, to)
          PROVE  Apart /\ (ctx'[h][1].pc = to \/ ctx'[h][1].pc = "none")
  BY <1>moves, ContextMoves DEF Moves, Others
<1>idle. Cur(h).pc = "idle" => ctx[h][1].pc = "none"
  BY DEF Running, Cur, CallInv, CallOK, TrapPc, ServicePc
<1>1. CASE AppStep(h)
  <2>1. CASE UNCHANGED ctx /\ Cur(h).pc = "idle"
    BY <1>idle, <2>1
  <2>2. ASSUME NEW op \in Locked, NEW i \in Irqs, NEW a \in Argument(op),
               CallService(h, op, i, a)
        PROVE  Apart /\ ctx'[h][1].pc \in {"lock", "none"}
    BY <1>moves, <2>2, CallsMove
  <2>3. ASSUME NEW i \in Irqs, RegisterISR(h, i)
        PROVE  Apart /\ ctx'[h][1].pc \in {"table", "none"}
    BY <1>moves, <2>3, CallsMove
  <2> QED
    BY <1>1, <2>1, <2>2, <2>3 DEF AppStep, GenerateExtInterrupt, SetThreshold,
       SetNestingPriorityThreshold, EnableInterrupts
<1>2. CASE Trap(h)
  BY <1>2, TrapsMove
<1>3. CASE \/ ServiceLock(h) \/ ServiceDisable(h) \/ ServiceWrite(h) \/ ServiceUnlock(h)
           \/ RegisterTable(h) \/ ClearWrite(h) \/ Mret(h)
  <2>1. \E to \in {"disable", "write", "unlock", "idle", "mret", "lock", "none"} :
            \E from \in Pc : Moves(h, from, to)
    BY <1>3, StepsMove, CallsMove, TrapsMove DEF Pc
  <2>2. Apart /\ ctx'[h][1].pc \in {"disable", "write", "unlock", "idle", "mret", "lock", "none"}
    BY <1>moves, <2>1
  <2> QED
    BY <2>2
<1>4. CASE Capture(h)
  BY <1>moves, <1>4, StepsMove
<1>5. CASE CallHandler(h)
  BY <1>5, HandlerMoves DEF Others
<1>6. CASE ClearRead(h)
  BY <1>moves, <1>6, StepsMove
<1> QED
  BY <1>1, <1>2, <1>3, <1>4, <1>5, <1>6 DEF CallStep

LEMMA LinesStep ==
    ASSUME Disciplined, PicInv, OwnedInv, LinesInv, NEW h \in Harts,
           AppStep(h) \/ CallStep(h) \/ Trap(h)
    PROVE  LinesInv'
<1> USE DEF picVars, csrVars, boardVars, histVars
<1>0. TypeOK /\ CallInv /\ Steady
  BY SteadyStep DEF PicInv
<1>1. ASSUME NEW i \in registered'
      PROVE  /\ g_ExtInterruptHandlers'[Owner[i]][i] = ISR
             /\ meivt'[Owner[i]] = Owner[i] /\ meidel'[i] = Owner[i]
  <2>1. CASE i \in registered
    <3>1. i \in Irqs /\ Owner[i] \in Harts
      BY <1>0, <2>1, LinesAssumption DEF TypeOK, RegistersTypeOK
    <3> QED
      BY <1>0, <2>1, <3>1 DEF LinesInv, Steady
  <2>2. CASE i \notin registered
    <3>1. ServiceUnlock(h)
      BY <1>1, <2>2 DEF AppStep, CallService, RegisterISR, GenerateExtInterrupt,
         SetThreshold, SetNestingPriorityThreshold, EnableInterrupts, CallStep,
         ServiceLock, ServiceDisable, ServiceWrite, RegisterTable, Capture, CallHandler,
         ClearRead, ClearWrite, Mret, Trap
    <3>2. i = Cur(h).irq /\ Cur(h).outer # NULL /\ Cur(h).pc = "unlock"
      BY <1>1, <2>2, <3>1 DEF ServiceUnlock
    <3>3. Owned(h, Cur(h))
      BY <1>0, CurOwned
    <3>4. /\ Owner[i] = h /\ g_ExtInterruptHandlers[h][i] = ISR /\ meivt[h] = h
          /\ meidel[i] = h
      BY <3>2, <3>3 DEF Owned, ServicePc
    <3> QED
      BY <3>1, <3>4 DEF ServiceUnlock
  <2> QED
    BY <2>1, <2>2
<1>2. ASSUME NEW i \in Irqs, meie'[i] = 1 PROVE SetUp(i)'
  <2>1. CASE meie[i] = 1
    BY <1>0, <2>1 DEF LinesInv, Steady, Enabled
  <2>2. CASE meie[i] # 1
    <3>1. ServiceWrite(h)
      BY <1>2, <2>2 DEF AppStep, CallService, RegisterISR, GenerateExtInterrupt,
         SetThreshold, SetNestingPriorityThreshold, EnableInterrupts, CallStep,
         ServiceLock, ServiceDisable, ServiceUnlock, RegisterTable, Capture, CallHandler,
         ClearRead, ClearWrite, Mret, Trap
    <3>2. /\ Cur(h).pc = "write" /\ Cur(h).irq \in Irqs
          /\ meie' = IF Cur(h).op \in {"enable", "disable"}
                     THEN [meie EXCEPT ![Cur(h).irq] = Cur(h).arg] ELSE meie
      BY <1>0, <3>1, WriteEffects
    <3>3. meie \in [Irqs -> {0, 1}] /\ Owned(h, Cur(h))
      BY <1>0, CurOwned DEF TypeOK, RegistersTypeOK
    <3>4. i = Cur(h).irq /\ Cur(h).op \in {"enable", "disable"} /\ Cur(h).arg = 1
      BY <1>2, <2>2, <3>2, <3>3
    <3>5. SetUp(i)
      BY <3>2, <3>3, <3>4 DEF Owned, ServicePc
    <3>6. Cur(h).op = "enable" /\ Enabled(i)
      BY <1>0, <3>2, <3>3, <3>4, CurIsCall DEF Owned, ServicePc, Cur, Enabled
    <3> QED
      BY <1>0, <3>5, <3>6 DEF Steady
  <2> QED
    BY <2>1, <2>2
<1> QED
  BY <1>0, <1>1, <1>2 DEF LinesInv, Steady
-------------------------------------------------------------------------------
\* A step that leaves the board alone and brings no handler to its register.
LEMMA BoardKept ==
    ASSUME BoardInv, UNCHANGED <<gateway, generation, triggered>>,
           \A g \in Harts : \/ ctx'[g][1] = ctx[g][1]
                            \/ ctx'[g][1].pc \notin {"bsp_read", "bsp_write"}
    PROVE  BoardInv'
BY DEF BoardInv

LEMMA BoardStep ==
    ASSUME Disciplined, PicInv, DisciplinedInv, NEW h \in Harts,
           AppStep(h) \/ CallStep(h) \/ Trap(h)
    PROVE  BoardInv'
<1> USE DEF picVars, csrVars, boardVars, histVars
<1>0. TypeOK /\ CallInv /\ OwnedInv /\ LinesInv /\ BoardInv /\ ClaimInv
  BY DEF PicInv, DisciplinedInv
<1>apart. \A g \in Harts \ {h} : ctx'[g][1] = ctx[g][1]
  BY <1>0, StepOfHart
<1>pcs. /\ ctx'[h][1].pc = "bsp_read" => CallHandler(h)
        /\ ctx'[h][1].pc = "bsp_write" => ClearRead(h)
  BY <1>0, StepOfHart
<1>types. gateway \in [Irqs -> {0, 1}] /\ EdgeIrqs \subseteq Irqs
  BY <1>0, LinesAssumption DEF TypeOK, RegistersTypeOK
<1>1. ASSUME NEW i \in Irqs, GenerateExtInterrupt(h, i) PROVE BoardInv'
  <2>1. /\ triggered = {} /\ generation' = {i} /\ triggered' = {i}
        /\ gateway' = [gateway EXCEPT ![i] = 1] /\ ctx' = ctx
        /\ \A g \in Harts : ctx[g][1].pc \notin {"bsp_read", "bsp_write"}
    BY <1>1 DEF GenerateExtInterrupt
  <2>2. \A e \in EdgeIrqs : gateway'[e] = 1 => e \in triggered'
    BY <1>0, <1>types, <2>1 DEF BoardInv
  <2> QED
    BY <2>1, <2>2 DEF BoardInv
<1>2. CASE ServiceWrite(h)
  <2>1. /\ Cur(h).irq \in Irqs
        /\ gateway' = IF Cur(h).op = "clear" THEN [gateway EXCEPT ![Cur(h).irq] = 0]
                      ELSE gateway
        /\ triggered' = IF Cur(h).op = "clear" THEN triggered \ ({Cur(h).irq} \cap EdgeIrqs)
                        ELSE triggered
    BY <1>0, <1>2, WriteEffects
  <2>2. UNCHANGED generation
    BY <1>2 DEF ServiceWrite
  <2>3. \A e \in EdgeIrqs : gateway'[e] = 1 => e \in triggered'
    BY <1>0, <1>types, <2>1 DEF BoardInv
  <2>4. /\ \A i, j \in triggered' : i = j
        /\ generation' \ EdgeIrqs \subseteq triggered'
    BY <1>0, <2>1, <2>2 DEF BoardInv
  <2>5. Cur(h).pc = "write"
    BY <1>2 DEF ServiceWrite, Goto
  <2>6. ctx'[h][1].pc \notin {"bsp_read", "bsp_write"}
    BY <1>pcs, <2>5 DEF CallHandler, ClearRead
  <2> QED
    BY <1>0, <1>apart, <2>2, <2>3, <2>4, <2>6 DEF BoardInv
<1>3. CASE ClearRead(h)
  <2>1. /\ ctx[h][1].pc = "bsp_read" /\ Cur(h) = ctx[h][1] /\ Running(h) = 1
        /\ Cur(h) \in Call
    BY <1>0, <1>3, CurIsCall DEF ClearRead, CallInv, CallOK, AppPc, ServicePc
  <2> DEFINE d == [Cur(h) EXCEPT !.pc = "bsp_write", !.byte = generation]
  <2>2. d \in Call /\ d.irq = Cur(h).irq /\ d.byte = generation
    BY <1>0, <2>1 DEF Call, Pc, TypeOK, RegistersTypeOK
  <2> HIDE DEF d
  <2>3. ctx'[h][1] = d
    BY <1>0, <1>3, <2>1, <2>2, BecomeOnly DEF ClearRead, d
  <2>4. UNCHANGED <<gateway, generation, triggered>>
    BY <1>3 DEF ClearRead
  <2> QED
    BY <1>0, <1>apart, <2>1, <2>2, <2>3, <2>4 DEF BoardInv
<1>4. CASE ClearWrite(h)
  <2> DEFINE i == Cur(h).irq
  <2>1. /\ ctx[h][1].pc = "bsp_write" /\ Cur(h) = ctx[h][1]
    BY <1>0, <1>4, CurIsCall DEF ClearWrite, CallInv, CallOK, AppPc, ServicePc
  <2>2. /\ i \in generation \ EdgeIrqs /\ Owner[i] = h /\ Cur(h).byte = generation
        /\ i \in triggered
    BY <1>0, <2>1 DEF BoardInv
  <2>3. /\ generation' = generation \ {i} /\ triggered' = triggered \ {i}
        /\ UNCHANGED gateway
    BY <1>4, <2>2 DEF ClearWrite
  <2>4. triggered = {i} /\ triggered' = {} /\ generation' \ EdgeIrqs = {}
    BY <1>0, <2>2, <2>3 DEF BoardInv
  <2>5. \A e \in EdgeIrqs : gateway'[e] # 1
    BY <1>0, <2>2, <2>3, <2>4 DEF BoardInv
  <2>6. \A g \in Harts \ {h} : ctx[g][1].pc \notin {"bsp_read", "bsp_write"}
    BY <1>0, <2>2, <2>4 DEF BoardInv
  <2>7. ctx'[h][1].pc \notin {"bsp_read", "bsp_write"}
    BY <1>pcs, <1>4 DEF CallHandler, ClearRead, ClearWrite
  <2> QED
    BY <1>apart, <2>4, <2>5, <2>6, <2>7 DEF BoardInv
<1>5. CASE CallHandler(h)
  <2>1. /\ ctx[h][1].pc = "load"
        /\ ctx'[h][1].pc = "bsp_read" => /\ meihap[h] \notin EdgeIrqs
                                         /\ ctx'[h][1].irq = meihap[h]
        /\ ctx'[h][1].pc # "bsp_write"
    BY <1>0, <1>5, HandlerMoves
  <2>2. meihap[h] \notin EdgeIrqs => meihap[h] \in generation \ EdgeIrqs /\ Owner[meihap[h]] = h
    BY <1>0, <2>1, TrapsAreOn, EnabledLine DEF ClaimInv
  <2>3. UNCHANGED <<gateway, generation, triggered>>
    BY <1>5 DEF CallHandler
  <2> QED
    BY <1>0, <1>apart, <2>1, <2>2, <2>3 DEF BoardInv
<1>6. CASE UNCHANGED <<gateway, generation, triggered>> /\ ~CallHandler(h) /\ ~ClearRead(h)
  BY <1>0, <1>apart, <1>pcs, <1>6, BoardKept
<1>7. CASE AppStep(h)
  <2>1. (\E i \in Irqs : GenerateExtInterrupt(h, i))
            \/ UNCHANGED <<gateway, generation, triggered>>
    BY <1>7 DEF AppStep, CallService, RegisterISR, SetThreshold,
       SetNestingPriorityThreshold, EnableInterrupts
  <2> QED
    BY <1>1, <1>3, <1>5, <1>6, <2>1
<1>8. CASE \/ ServiceLock(h) \/ ServiceDisable(h) \/ ServiceUnlock(h) \/ RegisterTable(h)
           \/ Capture(h) \/ Mret(h) \/ Trap(h)
  <2>1. UNCHANGED <<gateway, generation, triggered>>
    BY <1>8 DEF ServiceLock, ServiceDisable, ServiceUnlock, RegisterTable, Capture, Mret, Trap
  <2> QED
    BY <1>3, <1>5, <1>6, <2>1
<1> QED
  BY <1>2, <1>3, <1>4, <1>5, <1>7, <1>8 DEF CallStep
-------------------------------------------------------------------------------
\* What makes line i deliverable on hart k, and what k has captured, stay.
Untouched(k, i) ==
    /\ meie'[i] = meie[i] /\ meidel'[i] = meidel[i] /\ meipl'[i] = meipl[i]
    /\ meigwctrl'[i] = meigwctrl[i] /\ gateway'[i] = gateway[i] /\ mpiccfg' = mpiccfg
    /\ i \in generation' <=> i \in generation
    /\ meipt'[k] = meipt[k] /\ meicurpl'[k] = meicurpl[k]
    /\ meicidpl'[k] = meicidpl[k] /\ meihap'[k] = meihap[k]

LEMMA UntouchedStays ==
    ASSUME NEW k \in Harts, NEW i \in Irqs, Untouched(k, i)
    PROVE  /\ Pending(i) => Pending(i)'
           /\ Deliverable(k, i) => Deliverable(k, i)'
<1>1. Asserted(i)' <=> Asserted(i)
  BY DEF Untouched, Asserted
<1>2. Pending(i)' <=> Pending(i)
  BY <1>1 DEF Untouched, Pending
<1> QED
  BY <1>2 DEF Untouched, Deliverable, Above

\* A hart does not touch the triggered line of another.
LEMMA OthersUntouched ==
    ASSUME Disciplined, PicInv, DisciplinedInv, NEW h \in Harts,
           AppStep(h) \/ CallStep(h) \/ Trap(h),
           NEW k \in Harts \ {h}, NEW i \in triggered, Owner[i] = k, i \in Irqs
    PROVE  Untouched(k, i)
<1> USE DEF picVars, csrVars, boardVars, histVars
<1>0. TypeOK /\ CallInv /\ OwnedInv /\ BoardInv
  BY DEF PicInv, DisciplinedInv
<1>types. /\ meipt \in [Harts -> Level] /\ meicurpl \in [Harts -> Level]
          /\ meicidpl \in [Harts -> Level] /\ meihap \in [Harts -> Irqs \cup {NoLine}]
          /\ meie \in [Irqs -> {0, 1}] /\ meidel \in [Irqs -> {0, 1}]
          /\ meipl \in [Irqs -> Level] /\ gateway \in [Irqs -> {0, 1}]
  BY <1>0 DEF TypeOK, RegistersTypeOK
<1>1. CASE ServiceWrite(h)
  <2>1. Cur(h).pc = "write" /\ Cur(h).irq \in Irqs /\ Owned(h, Cur(h))
    BY <1>0, <1>1, WriteEffects, CurOwned
  <2>2. i # Cur(h).irq /\ Cur(h).op # "order"
    BY <2>1 DEF Owned, ServicePc
  <2>3. UNCHANGED <<csrVars, generation>>
    BY <1>1 DEF ServiceWrite
  <2>4. /\ meie'[i] = meie[i] /\ meidel'[i] = meidel[i] /\ meipl'[i] = meipl[i]
        /\ meigwctrl'[i] = meigwctrl[i] /\ gateway'[i] = gateway[i]
        /\ mpiccfg' = mpiccfg
    BY <1>0, <1>1, <1>types, <2>2, WriteEffects
  <2> QED
    BY <2>3, <2>4 DEF Untouched
<1>2. CASE ClearWrite(h)
  <2>1. /\ ctx[h][1].pc = "bsp_write" /\ Cur(h) = ctx[h][1]
    BY <1>0, <1>2, CurIsCall DEF ClearWrite, CallInv, CallOK, AppPc, ServicePc
  <2>2. Owner[Cur(h).irq] = h /\ Cur(h).byte = generation
    BY <1>0, <2>1 DEF BoardInv
  <2>3. /\ generation' = generation \ {Cur(h).irq}
        /\ UNCHANGED <<picVars, csrVars, gateway>>
    BY <1>2, <2>2 DEF ClearWrite
  <2> QED
    BY <2>2, <2>3 DEF Untouched
<1>3. CASE Capture(h)
  <2>1. /\ meihap' = [meihap EXCEPT ![h] = Offered(h)]
        /\ meicidpl' = [meicidpl EXCEPT ![h] = IF Offered(h) = NoLine THEN 0
                                                ELSE meipl[Offered(h)]]
        /\ UNCHANGED <<picVars, meipt, meicurpl, gateway, generation>>
    BY <1>3 DEF Capture
  <2> QED
    BY <1>types, <2>1 DEF Untouched
<1>4. CASE Mret(h)
  <2>1. /\ meihap' = [meihap EXCEPT ![h] = NoLine]
        /\ meicidpl' = [meicidpl EXCEPT ![h] = 0]
        /\ UNCHANGED <<picVars, meipt, meicurpl, gateway, generation>>
    BY <1>4 DEF Mret
  <2> QED
    BY <1>types, <2>1 DEF Untouched
<1>5. CASE UNCHANGED <<picVars, meipt, meicurpl, meicidpl, meihap, gateway, generation>>
  BY <1>5 DEF Untouched
<1>6. CASE \/ ServiceLock(h) \/ ServiceDisable(h) \/ ServiceUnlock(h) \/ RegisterTable(h)
           \/ CallHandler(h) \/ ClearRead(h) \/ Trap(h)
  <2>1. UNCHANGED <<picVars, meipt, meicurpl, meicidpl, meihap, gateway, generation>>
    BY <1>6 DEF ServiceLock, ServiceDisable, ServiceUnlock, RegisterTable, CallHandler,
       ClearRead, Trap
  <2> QED
    BY <1>5, <2>1
<1>7. CASE AppStep(h)
  <2>1. ASSUME NEW j \in Irqs, GenerateExtInterrupt(h, j) PROVE FALSE
    BY <2>1 DEF GenerateExtInterrupt
  <2>2. ASSUME NEW t \in Level, SetThreshold(h, t) PROVE Untouched(k, i)
    BY <1>types, <2>2 DEF SetThreshold, Untouched
  <2>3. ASSUME NEW t \in Level, SetNestingPriorityThreshold(h, t) PROVE Untouched(k, i)
    BY <1>types, <2>3 DEF SetNestingPriorityThreshold, Untouched
  <2>4. CASE \/ \E op \in Locked, j \in Irqs : \E a \in Argument(op) : CallService(h, op, j, a)
             \/ \E j \in Irqs : RegisterISR(h, j)
             \/ EnableInterrupts(h)
    <3>1. UNCHANGED <<picVars, meipt, meicurpl, meicidpl, meihap, gateway, generation>>
      BY <2>4 DEF CallService, RegisterISR, EnableInterrupts
    <3> QED
      BY <1>5, <3>1
  <2> QED
    BY <1>7, <2>1, <2>2, <2>3, <2>4 DEF AppStep
<1> QED
  BY <1>1, <1>2, <1>3, <1>4, <1>6, <1>7 DEF CallStep

LEMMA ClaimStep ==
    ASSUME Disciplined, PicInv, DisciplinedInv, NEW h \in Harts,
           AppStep(h) \/ CallStep(h) \/ Trap(h)
    PROVE  ClaimInv'
<1> USE DEF picVars, csrVars, boardVars, histVars
<1> DEFINE Claims(k) ==
               /\ ctx[k][1].pc = "capture" => \E i \in Irqs : Deliverable(k, i)
               /\ ctx[k][1].pc = "load" =>
                      /\ meihap[k] \in Irqs
                      /\ meie[meihap[k]] = 1 /\ meidel[meihap[k]] = k
                      /\ Pending(meihap[k])
                      /\ meicidpl[k] = meipl[meihap[k]]
<1>0. TypeOK /\ CallInv /\ LinesInv /\ BoardInv /\ \A k \in Harts : Claims(k)
  BY DEF PicInv, DisciplinedInv, ClaimInv
<1>1. ASSUME NEW k \in Harts \ {h} PROVE Claims(k)'
  <2>1. ctx'[k][1] = ctx[k][1]
    BY <1>0, StepOfHart
  <2>2. ASSUME ctx[k][1].pc = "capture" PROVE \E i \in Irqs : Deliverable(k, i)'
    <3>1. PICK i \in Irqs : Deliverable(k, i)
      BY <1>0, <2>2
    <3>2. i \in triggered /\ Owner[i] = k
      BY <1>0, <2>2, <3>1, TrapsAreOn, EnabledLine DEF Deliverable
    <3> QED
      BY <3>1, <3>2, OthersUntouched, UntouchedStays
  <2>3. ASSUME ctx[k][1].pc = "load"
        PROVE  /\ meihap'[k] \in Irqs
               /\ meie'[meihap'[k]] = 1 /\ meidel'[meihap'[k]] = k
               /\ Pending(meihap[k])'
               /\ meicidpl'[k] = meipl'[meihap'[k]]
    <3>1. PICK i \in Irqs : i = meihap[k]
      BY <1>0, <2>3
    <3>2. meie[i] = 1 /\ meidel[i] = k /\ Pending(i) /\ meicidpl[k] = meipl[i]
      BY <1>0, <2>3, <3>1
    <3>3. i \in triggered /\ Owner[i] = k
      BY <1>0, <2>3, <3>2, TrapsAreOn, EnabledLine
    <3>4. Untouched(k, i) /\ Pending(i)'
      BY <3>2, <3>3, OthersUntouched, UntouchedStays
    <3>5. i = meihap'[k]
      BY <3>1, <3>4 DEF Untouched
    <3>6. Pending(meihap[k])'
      BY <3>4, <3>5 DEF Pending, Asserted
    <3> QED
      BY <3>2, <3>4, <3>5, <3>6 DEF Untouched
  <2> QED
    BY <2>1, <2>2, <2>3
<1>2. ASSUME Trap(h) PROVE \E i \in Irqs : Deliverable(h, i)'
  <2>1. PICK i \in Irqs : Deliverable(h, i)
    BY <1>0, <1>2, TrapsAreOn, OfferedIsDeliverable DEF Trap
  <2>2. UNCHANGED <<picVars, csrVars, boardVars>>
    BY <1>2 DEF Trap
  <2>3. Untouched(h, i)
    BY <2>2 DEF Untouched
  <2> QED
    BY <2>1, <2>3, UntouchedStays
<1>3. ASSUME Capture(h)
      PROVE  /\ meihap'[h] \in Irqs
             /\ meie'[meihap'[h]] = 1 /\ meidel'[meihap'[h]] = h
             /\ Pending(meihap[h])'
             /\ meicidpl'[h] = meipl'[meihap'[h]]
  <2>1. ctx[h][1].pc = "capture"
    BY <1>0, <1>3, CurIsCall DEF Capture, Goto, CallInv, CallOK, AppPc, ServicePc
  <2>2. PICK i \in Irqs : Deliverable(h, i) /\ Offered(h) = i
    BY <1>0, <2>1, TrapsAreOn, OfferedIsDeliverable
  <2>3. i # NoLine
    BY LinesAssumption DEF NoLine
  <2>4. /\ meihap' = [meihap EXCEPT ![h] = i] /\ meicidpl' = [meicidpl EXCEPT ![h] = meipl[i]]
        /\ UNCHANGED <<picVars, meipt, meicurpl, gateway, generation>>
    BY <1>3, <2>2, <2>3 DEF Capture
  <2>5. meihap'[h] = i /\ meicidpl'[h] = meipl[i]
    BY <1>0, <2>4 DEF TypeOK, RegistersTypeOK
  <2>6. Pending(meihap[h])'
    BY <2>2, <2>4, <2>5 DEF Deliverable, Pending, Asserted
  <2> QED
    BY <2>2, <2>4, <2>5, <2>6 DEF Deliverable
<1>4. Claims(h)'
  <2>1. ctx'[h][1].pc = "capture" => Trap(h)
    BY <1>0, StepOfHart
  <2>2. ctx'[h][1].pc = "load" => Capture(h)
    BY <1>0, StepOfHart
  <2> QED
    BY <1>2, <1>3, <2>1, <2>2
<1> QED
  BY <1>1, <1>4 DEF ClaimInv
-------------------------------------------------------------------------------
LEMMA DisciplinedInit ==
    Init => DisciplinedInv
<1> SUFFICES ASSUME Init PROVE DisciplinedInv
  OBVIOUS
<1>1. OwnedInv
  BY DEF Init, OwnedInv, Owned, At, ServicePc
<1>2. LinesInv
  BY DEF Init, LinesInv
<1>3. BoardInv
  BY LinesAssumption DEF Init, BoardInv, At
<1>4. ClaimInv
  BY DEF Init, ClaimInv, At
<1> QED
  BY <1>1, <1>2, <1>3, <1>4 DEF DisciplinedInv

LEMMA DisciplinedHolds ==
    Disciplined /\ Shared = {} /\ Spec => [](PicInv /\ DisciplinedInv)
<1> SUFFICES ASSUME Disciplined, Shared = {}
             PROVE  Spec => [](PicInv /\ DisciplinedInv)
  OBVIOUS
<1>1. PicInv /\ DisciplinedInv /\ [Next]_vars => DisciplinedInv'
  <2> SUFFICES ASSUME PicInv, DisciplinedInv, [Next]_vars
               PROVE  DisciplinedInv'
    OBVIOUS
  <2>1. CASE Next
    <3>1. PICK h \in Harts : AppStep(h) \/ CallStep(h) \/ Trap(h)
      BY <2>1 DEF Next
    <3> QED
      BY <3>1, OwnedStep, LinesStep, BoardStep, ClaimStep DEF DisciplinedInv
  <2>2. CASE UNCHANGED vars
    <3> USE <2>2 DEF vars, picVars, csrVars, boardVars, histVars, DisciplinedInv
    <3>1. OwnedInv'
      BY DEF OwnedInv, Owned, SetUp
    <3>2. LinesInv'
      BY DEF LinesInv, SetUp
    <3>3. BoardInv'
      BY DEF BoardInv
    <3>4. ClaimInv'
      BY DEF ClaimInv, Deliverable, Above, Pending, Asserted
    <3> QED
      BY <3>1, <3>2, <3>3, <3>4
  <2> QED
    BY <2>1, <2>2
<1> QED
  BY <1>1, DisciplinedInit, PicInvHolds, PTL DEF Spec

\* M_PSP_ASSERT(fptrExtIntHandler != NULL) (psp_ext_interrupts_eh2.c:513): if a
\* line is set up, enabled and served by its owner only, the entry that
\* pspMachineExtInterruptIsr loads holds a handler, in every interleaving of the
\* harts and of the traps inside the services.
THEOREM HandlerIsFound == Disciplined /\ Shared = {} /\ Spec => []HandlerFound
<1>1. PicInv /\ DisciplinedInv => HandlerFound
  <2> SUFFICES ASSUME PicInv, DisciplinedInv, NEW h \in Harts, Cur(h).pc = "load"
               PROVE  Handler(h) # NULL
    BY DEF HandlerFound
  <2>1. ctx[h][1].pc = "load"
    BY CurIsCall DEF PicInv, CallInv, CallOK, AppPc, ServicePc
  <2>2. /\ meihap[h] \in Irqs /\ meie[meihap[h]] = 1 /\ meidel[meihap[h]] = h
        /\ Pending(meihap[h])
    BY <2>1 DEF DisciplinedInv, ClaimInv
  <2>3. g_ExtInterruptHandlers[h][meihap[h]] = ISR /\ meivt[h] = h
    BY <2>1, <2>2, TrapsAreOn, EnabledLine DEF DisciplinedInv
  <2>4. h # NULL /\ ISR # NULL
    BY LinesAssumption DEF NULL, ISR
  <2> QED
    BY <2>3, <2>4 DEF Handler
<1> QED
  BY <1>1, DisciplinedHolds, PTL

\* demoCheckInterruptStatusInISR (demo_external_interrupts.c) never reports a
\* failure: the claimed line is pending, delegated to this hart, and its priority
\* is the captured one.
THEOREM ClaimsAreCurrent == Disciplined /\ Shared = {} /\ Spec => []ClaimIsCurrent
<1>1. PicInv /\ DisciplinedInv => ClaimIsCurrent
  <2> SUFFICES ASSUME PicInv, DisciplinedInv, NEW h \in Harts, Cur(h).pc = "load"
               PROVE  /\ meihap[h] # NoLine
                      /\ Pending(meihap[h])
                      /\ meidel[meihap[h]] = h
                      /\ meicidpl[h] = meipl[meihap[h]]
    BY DEF ClaimIsCurrent
  <2>1. ctx[h][1].pc = "load"
    BY CurIsCall DEF PicInv, CallInv, CallOK, AppPc, ServicePc
  <2> QED
    BY <2>1, LinesAssumption DEF DisciplinedInv, ClaimInv, NoLine
<1> QED
  BY <1>1, DisciplinedHolds, PTL
===============================================================================
