------------------------------- MODULE PspMutex -------------------------------
(***************************************************************************)
(* The mutexes PSP offers to the harts of SweRV EH2: psp_mutex_eh2.c, step *)
(* by step.  The application gives PSP an array of control blocks (the     *)
(* heap); Create and Destroy hand blocks out and take them back under the  *)
(* internal mutex E_MUTEX_INTERNAL_FOR_MUTEX_HEAP_MNG; AtomicLock and      *)
(* AtomicUnlock work on a block's own lock word and take no other lock.    *)
(*                                                                         *)
(* Every shared-memory access that another hart can observe on its own is  *)
(* a step.  A hart's `pc` is the place in the call it is in, "idle" when   *)
(* the application runs.  Start-up is the one of demo_multi_harts.c: the   *)
(* boot hart initialises the internal mutexes and the heap and then starts *)
(* the others.                                                             *)
(***************************************************************************)
EXTENDS PspInternalMutex, FiniteSets

CONSTANTS
    Harts,        \* hart ids; the creator field of a block has one bit for them
    BootHart,     \* the hart that runs after reset
    NumMutexes,   \* blocks in the application's heap
    NULL,         \* the null pointer
    Disciplined   \* do applications use a mutex only while it exists, and
                  \* destroy it only when no other hart uses it

ASSUME HartsAssumption ==
    /\ Harts \subseteq {0, 1}
    /\ BootHart \in Harts

ASSUME HeapAssumption ==
    /\ NumMutexes \in Nat \ {0}
    /\ NULL \notin Nat
    /\ Disciplined \in BOOLEAN

\* Control blocks, named by their index in the heap: HeapBase is the address of
\* the array the application passes to pspMutexHeapInit.
Cb       == 0 .. NumMutexes - 1
HeapBase == 0

VARIABLES
    g_uiAppMutexsHeapAddress,
    g_uiAppNumberOfMutexs,
    uiMutexState,      \* the fields of the blocks, each a function on Cb
    uiMutexOccupied,
    uiMutexCreator,
    pc,                \* [hart -> place in the code]
    pMutex,            \* [hart -> the block its call works on]
    ret,               \* [hart -> what its call returns]
    held,              \* [hart -> blocks it has locked and not unlocked]
    live               \* [block -> hart that Create returned it to, or NULL]

heapVars == <<g_uiAppMutexsHeapAddress, g_uiAppNumberOfMutexs>>
cbVars   == <<uiMutexState, uiMutexOccupied, uiMutexCreator>>
vars     == <<g_uiInternalPspMutex, heapVars, cbVars, pc, pMutex, ret, held, live>>

HEAP_MNG == E_MUTEX_INTERNAL_FOR_MUTEX_HEAP_MNG

InitPc    == {"init_mutexes", "init_lock", "init_zero", "init_address",
              "init_number", "init_unlock", "start_harts"}
CreatePc  == {"create_lock", "create_scan", "create_mark", "create_free",
              "create_unlock"}
DestroyPc == {"destroy_lock", "destroy_check", "destroy_mark", "destroy_free",
              "destroy_unlock"}
Pc == {"off", "idle", "lock_spin"} \cup InitPc \cup CreatePc \cup DestroyPc

\* Places in the code between the internal Lock and Unlock.
InHeapSection(h) ==
    pc[h] \in {"init_zero", "init_address", "init_number", "init_unlock",
               "create_scan", "create_mark", "create_free", "create_unlock",
               "destroy_check", "destroy_mark", "destroy_free", "destroy_unlock"}

Goto(h, from, to) == pc[h] = from /\ pc' = [pc EXCEPT ![h] = to]
-------------------------------------------------------------------------------
\* At reset the boot hart runs alone; the lock words and the array the
\* application provides hold anything, the other globals are zero.
Init ==
    /\ InternalMutexesAtReset
    /\ g_uiAppMutexsHeapAddress = NULL
    /\ g_uiAppNumberOfMutexs = 0
    /\ uiMutexState \in [Cb -> LockWord]
    /\ uiMutexOccupied \in [Cb -> BOOLEAN]
    /\ uiMutexCreator \in [Cb -> {0, 1}]
    /\ pc = [h \in Harts |-> IF h = BootHart THEN "init_mutexes" ELSE "off"]
    /\ pMutex = [h \in Harts |-> NULL]
    /\ ret = [h \in Harts |-> NULL]
    /\ held = [h \in Harts |-> {}]
    /\ live = [m \in Cb |-> NULL]

\* pspMutexInitPspMutexs, called by demoStart on the boot hart.
InitPspMutexs(h) ==
    /\ Goto(h, "init_mutexes", "init_lock")
    /\ pspInternalMutexInit
    /\ UNCHANGED <<heapVars, cbVars, pMutex, ret, held, live>>

\* pspMutexHeapInit: lock, zero every block, save address and number, unlock.
HeapInitLock(h) ==
    /\ Goto(h, "init_lock", "init_zero")
    /\ pspInternalMutexLock(HEAP_MNG)
    /\ UNCHANGED <<heapVars, cbVars, pMutex, ret, held, live>>

HeapInitZero(h) ==
    /\ Goto(h, "init_zero", "init_address")
    /\ uiMutexState' = [m \in Cb |-> D_PSP_MUTEX_UNLOCKED]
    /\ uiMutexOccupied' = [m \in Cb |-> FALSE]
    /\ uiMutexCreator' = [m \in Cb |-> 0]
    /\ UNCHANGED <<g_uiInternalPspMutex, heapVars, pMutex, ret, held, live>>

HeapInitAddress(h) ==
    /\ Goto(h, "init_address", "init_number")
    /\ g_uiAppMutexsHeapAddress' = HeapBase
    /\ UNCHANGED <<g_uiInternalPspMutex, g_uiAppNumberOfMutexs, cbVars, pMutex,
                   ret, held, live>>

HeapInitNumber(h) ==
    /\ Goto(h, "init_number", "init_unlock")
    /\ g_uiAppNumberOfMutexs' = NumMutexes
    /\ UNCHANGED <<g_uiInternalPspMutex, g_uiAppMutexsHeapAddress, cbVars,
                   pMutex, ret, held, live>>

HeapInitUnlock(h) ==
    /\ Goto(h, "init_unlock", "start_harts")
    /\ pspInternalMutexUnlock(HEAP_MNG)
    /\ UNCHANGED <<heapVars, cbVars, pMutex, ret, held, live>>

\* The boot hart writes mhartstart; the other harts begin to run.
StartHarts(h) ==
    /\ pc[h] = "start_harts"
    /\ pc' = [i \in Harts |-> "idle"]
    /\ UNCHANGED <<g_uiInternalPspMutex, heapVars, cbVars, pMutex, ret, held, live>>
-------------------------------------------------------------------------------
\* pspMutexCreate.  The heap's address is read before the lock is taken.
CreateCall(h) ==
    /\ Goto(h, "idle", "create_lock")
    /\ pMutex' = [pMutex EXCEPT ![h] = g_uiAppMutexsHeapAddress]
    /\ ret' = [ret EXCEPT ![h] = NULL]
    /\ UNCHANGED <<g_uiInternalPspMutex, heapVars, cbVars, held, live>>

\* Mutant: Create does not take the internal mutex.
CreateWithoutLock(h) ==
    /\ Goto(h, "create_lock", "create_scan")
    /\ UNCHANGED <<g_uiInternalPspMutex, heapVars, cbVars, pMutex, ret, held, live>>

CreateLock(h) ==
    /\ Goto(h, "create_lock", "create_scan")
    /\ pspInternalMutexLock(HEAP_MNG)
    /\ UNCHANGED <<heapVars, cbVars, pMutex, ret, held, live>>

\* Mutant: the loop takes the first block without looking at its occupied bit.
CreateScanAny(h) ==
    /\ Goto(h, "create_scan", "create_mark")
    /\ ret' = [ret EXCEPT ![h] = pMutex[h]]
    /\ UNCHANGED <<g_uiInternalPspMutex, heapVars, cbVars, pMutex, held, live>>

\* The search loop, up to its `break`.  It looks at pMutex at every turn and
\* never advances it, and only the holder of the internal mutex writes what it
\* reads: all its turns are one step.
CreateScan(h) ==
    /\ pc[h] = "create_scan"
    /\ \/ /\ g_uiAppNumberOfMutexs > 0
          /\ ~uiMutexOccupied[pMutex[h]]
          /\ ret' = [ret EXCEPT ![h] = pMutex[h]]
          /\ pc' = [pc EXCEPT ![h] = "create_mark"]
       \/ /\ g_uiAppNumberOfMutexs = 0 \/ uiMutexOccupied[pMutex[h]]
          /\ pc' = [pc EXCEPT ![h] = "create_unlock"]
          /\ UNCHANGED ret
    /\ UNCHANGED <<g_uiInternalPspMutex, heapVars, cbVars, pMutex, held, live>>

\* The occupied and creator bits share a word.
CreateMark(h) ==
    /\ Goto(h, "create_mark", "create_free")
    /\ uiMutexOccupied' = [uiMutexOccupied EXCEPT ![pMutex[h]] = TRUE]
    /\ uiMutexCreator' = [uiMutexCreator EXCEPT ![pMutex[h]] = h]
    /\ UNCHANGED <<g_uiInternalPspMutex, heapVars, uiMutexState, pMutex, ret,
                   held, live>>

CreateFree(h) ==
    /\ Goto(h, "create_free", "create_unlock")
    /\ uiMutexState' = [uiMutexState EXCEPT ![pMutex[h]] = D_PSP_MUTEX_UNLOCKED]
    /\ UNCHANGED <<g_uiInternalPspMutex, heapVars, uiMutexOccupied,
                   uiMutexCreator, pMutex, ret, held, live>>

\* Mutant: the failing path returns without unlocking.
CreateUnlockIfFound(h) ==
    /\ Goto(h, "create_unlock", "idle")
    /\ IF ret[h] = NULL THEN UNCHANGED g_uiInternalPspMutex
                        ELSE pspInternalMutexUnlock(HEAP_MNG)
    /\ live' = IF ret[h] = NULL THEN live ELSE [live EXCEPT ![ret[h]] = h]
    /\ UNCHANGED <<heapVars, cbVars, pMutex, ret, held>>

\* Unlock and return ret[h] to the application.
CreateUnlock(h) ==
    /\ Goto(h, "create_unlock", "idle")
    /\ pspInternalMutexUnlock(HEAP_MNG)
    /\ live' = IF ret[h] = NULL THEN live ELSE [live EXCEPT ![ret[h]] = h]
    /\ UNCHANGED <<heapVars, cbVars, pMutex, ret, held>>
-------------------------------------------------------------------------------
\* What a disciplined application knows about block m: it was created and not
\* destroyed, and which harts are working on it.
Destroying(h, m) == pc[h] \in DestroyPc /\ pMutex[h] = m
Using(h, m)      == m \in held[h] \/ (pc[h] = "lock_spin" /\ pMutex[h] = m)

\* The addresses an application can pass: any block of the heap passes
\* pspIsMutexAddressValid.
pspIsMutexAddressValid(m) ==
    /\ g_uiAppMutexsHeapAddress # NULL
    /\ m \in g_uiAppMutexsHeapAddress ..
             g_uiAppMutexsHeapAddress + g_uiAppNumberOfMutexs - 1

\* pspMutexDestroy
DestroyCall(h, m) ==
    /\ Goto(h, "idle", "destroy_lock")
    /\ pspIsMutexAddressValid(m)
    /\ Disciplined => /\ live[m] # NULL
                      /\ \A i \in Harts : ~Using(i, m) /\ ~Destroying(i, m)
    /\ pMutex' = [pMutex EXCEPT ![h] = m]
    /\ UNCHANGED <<g_uiInternalPspMutex, heapVars, cbVars, ret, held, live>>

DestroyLock(h) ==
    /\ Goto(h, "destroy_lock", "destroy_check")
    /\ pspInternalMutexLock(HEAP_MNG)
    /\ UNCHANGED <<heapVars, cbVars, pMutex, ret, held, live>>

\* Only the creator may destroy; otherwise the address is returned as failure.
DestroyCheck(h) ==
    /\ pc[h] = "destroy_check"
    /\ \/ /\ uiMutexCreator[pMutex[h]] = h
          /\ ret' = [ret EXCEPT ![h] = NULL]
          /\ pc' = [pc EXCEPT ![h] = "destroy_mark"]
       \/ /\ uiMutexCreator[pMutex[h]] # h
          /\ ret' = [ret EXCEPT ![h] = pMutex[h]]
          /\ pc' = [pc EXCEPT ![h] = "destroy_unlock"]
    /\ UNCHANGED <<g_uiInternalPspMutex, heapVars, cbVars, pMutex, held, live>>

\* Mutant: Destroy leaves the creator in the block.
DestroyKeepsCreator(h) ==
    /\ Goto(h, "destroy_mark", "destroy_free")
    /\ uiMutexOccupied' = [uiMutexOccupied EXCEPT ![pMutex[h]] = FALSE]
    /\ UNCHANGED <<g_uiInternalPspMutex, heapVars, uiMutexState, uiMutexCreator,
                   pMutex, ret, held, live>>

DestroyMark(h) ==
    /\ Goto(h, "destroy_mark", "destroy_free")
    /\ uiMutexOccupied' = [uiMutexOccupied EXCEPT ![pMutex[h]] = FALSE]
    /\ uiMutexCreator' = [uiMutexCreator EXCEPT ![pMutex[h]] = 0]
    /\ UNCHANGED <<g_uiInternalPspMutex, heapVars, uiMutexState, pMutex, ret,
                   held, live>>

DestroyFree(h) ==
    /\ Goto(h, "destroy_free", "destroy_unlock")
    /\ uiMutexState' = [uiMutexState EXCEPT ![pMutex[h]] = D_PSP_MUTEX_UNLOCKED]
    /\ UNCHANGED <<g_uiInternalPspMutex, heapVars, uiMutexOccupied,
                   uiMutexCreator, pMutex, ret, held, live>>

\* Unlock and return; NULL is success.
DestroyUnlock(h) ==
    /\ Goto(h, "destroy_unlock", "idle")
    /\ pspInternalMutexUnlock(HEAP_MNG)
    /\ live' = IF ret[h] = NULL THEN [live EXCEPT ![pMutex[h]] = NULL] ELSE live
    /\ UNCHANGED <<heapVars, cbVars, pMutex, ret, held>>
-------------------------------------------------------------------------------
\* pspMutexAtomicLock: the call, and the swap that gets the lock.
LockCall(h, m) ==
    /\ Goto(h, "idle", "lock_spin")
    /\ pspIsMutexAddressValid(m)
    /\ Disciplined => /\ live[m] # NULL /\ m \notin held[h]
                      /\ \A i \in Harts : ~Destroying(i, m)
    /\ pMutex' = [pMutex EXCEPT ![h] = m]
    /\ UNCHANGED <<g_uiInternalPspMutex, heapVars, cbVars, ret, held, live>>

\* Mutant: the lock word is stored without looking at what it held.
LockWithoutWaiting(h) ==
    /\ Goto(h, "lock_spin", "idle")
    /\ uiMutexState' = [uiMutexState EXCEPT ![pMutex[h]] = D_PSP_MUTEX_LOCKED]
    /\ held' = [held EXCEPT ![h] = @ \cup {pMutex[h]}]
    /\ UNCHANGED <<g_uiInternalPspMutex, heapVars, uiMutexOccupied,
                   uiMutexCreator, pMutex, ret, live>>

LockAcquire(h) ==
    /\ Goto(h, "lock_spin", "idle")
    /\ pspAtomicsEnterCriticalSection(uiMutexState, pMutex[h])
    /\ held' = [held EXCEPT ![h] = @ \cup {pMutex[h]}]
    /\ UNCHANGED <<g_uiInternalPspMutex, heapVars, uiMutexOccupied,
                   uiMutexCreator, pMutex, ret, live>>

\* pspMutexAtomicUnlock: one store, by whoever calls it.
Unlock(h, m) ==
    /\ pc[h] = "idle"
    /\ pspIsMutexAddressValid(m)
    /\ Disciplined => m \in held[h]
    /\ pspAtomicsExitCriticalSection(uiMutexState, m)
    /\ held' = [held EXCEPT ![h] = @ \ {m}]
    /\ UNCHANGED <<g_uiInternalPspMutex, heapVars, uiMutexOccupied,
                   uiMutexCreator, pc, pMutex, ret, live>>
-------------------------------------------------------------------------------
\* The steps of hart h inside PSP or during start-up; it has no choice in them.
PspStep(h) ==
    \/ InitPspMutexs(h) \/ HeapInitLock(h) \/ HeapInitZero(h)
    \/ HeapInitAddress(h) \/ HeapInitNumber(h) \/ HeapInitUnlock(h)
    \/ StartHarts(h)
    \/ CreateLock(h) \/ CreateScan(h) \/ CreateMark(h) \/ CreateFree(h)
    \/ CreateUnlock(h)
    \/ DestroyLock(h) \/ DestroyCheck(h) \/ DestroyMark(h) \/ DestroyFree(h)
    \/ DestroyUnlock(h)
    \/ LockAcquire(h)

\* The calls its application may make when it is not in one.
AppStep(h) ==
    \/ CreateCall(h)
    \/ \E m \in Cb : DestroyCall(h, m) \/ LockCall(h, m) \/ Unlock(h, m)

Next == \E h \in Harts : PspStep(h) \/ AppStep(h)

Spec == Init /\ [][Next]_vars

\* A hart inside PSP keeps executing, and an application that holds a mutex
\* unlocks it some day.  No lock is fair: nothing says that a hart that swaps
\* again and again is ever the one that reads 0.
ReleaseHeld(h) == \E m \in Cb : m \in held[h] /\ Unlock(h, m)

Fairness == \A h \in Harts : WF_vars(PspStep(h)) /\ SF_vars(ReleaseHeld(h))

FairSpec == Spec /\ Fairness
-------------------------------------------------------------------------------
\* Every variable holds a value of its C type; pointers are NULL or a block.
TypeOK ==
    /\ g_uiInternalPspMutex \in [InternalMutexes -> LockWord]
    /\ g_uiAppMutexsHeapAddress \in {NULL, HeapBase}
    /\ g_uiAppNumberOfMutexs \in {0, NumMutexes}
    /\ uiMutexState \in [Cb -> LockWord]
    /\ uiMutexOccupied \in [Cb -> BOOLEAN]
    /\ uiMutexCreator \in [Cb -> {0, 1}]
    /\ pc \in [Harts -> Pc]
    /\ pMutex \in [Harts -> Cb \cup {NULL}]
    /\ ret \in [Harts -> Cb \cup {NULL}]
    /\ held \in [Harts -> SUBSET Cb]
    /\ live \in [Cb -> Harts \cup {NULL}]

\* The management of the heap is mutually exclusive, whatever applications do:
\* at most one hart is between the internal Lock and Unlock of
\* pspMutexHeapInit, Create and Destroy, and the lock word is set exactly
\* while one is.  (Before pspMutexInitPspMutexs the word is garbage.)
HeapManagementExclusion ==
    /\ \A h, i \in Harts : InHeapSection(h) /\ InHeapSection(i) => h = i
    /\ pc[BootHart] # "init_mutexes" =>
           (g_uiInternalPspMutex[HEAP_MNG] = D_PSP_MUTEX_LOCKED
                <=> \E h \in Harts : InHeapSection(h))

\* Once the harts run and none manages the heap, the blocks say what the
\* application was told: the occupied ones are those that Create returned and
\* Destroy did not take back, and their creator is the hart Create returned to.
BlocksMatchHandles ==
    (\A h \in Harts : pc[h] \notin InitPc /\ ~InHeapSection(h)) =>
        \A m \in Cb :
            /\ uiMutexOccupied[m] <=> live[m] # NULL
            /\ uiMutexCreator[m] = IF live[m] = NULL THEN 0 ELSE live[m]

\* Create never returns a mutex that another application part already owns, and
\* never one that is locked.
CreateReturnsFreshMutex ==
    \A h \in Harts : pc[h] = "create_unlock" /\ ret[h] # NULL =>
        /\ live[ret[h]] = NULL
        /\ uiMutexState[ret[h]] = D_PSP_MUTEX_UNLOCKED
        /\ \A i \in Harts : ret[h] \notin held[i]

\* "Only the creator is allowed to destroy" (psp_mutex_eh2.h:50): a Destroy that
\* passes the check is the creating hart's, and the mutex exists.
OnlyCreatorDestroys ==
    \A h \in Harts : pc[h] = "destroy_mark" => live[pMutex[h]] = h

\* The promise of pspMutexAtomicLock: no two harts hold the same mutex.
HoldersExclude ==
    \A h, i \in Harts : h # i => held[h] \cap held[i] = {}

\* psp_mutex_eh2.c:164, "NULL == there's no available mutex in the mutexs-heap".
CreateFailsOnlyWhenFull ==
    \A h \in Harts : pc[h] = "create_unlock" /\ ret[h] = NULL =>
        \A m \in Cb : uiMutexOccupied[m]

\* A hart waits for ever for the heap's internal mutex only if other harts enter
\* and leave heap management for ever: the lock is never lost.
HeapLockStarvesOnlyUnderTraffic ==
    \A h \in Harts :
        <>[](pc[h] \in {"create_lock", "destroy_lock"}) =>
            /\ []<>(\E i \in Harts : InHeapSection(i))
            /\ []<>(\A i \in Harts : ~InHeapSection(i))

\* Used as its documentation asks, the API is the mutex pool of MutexService:
\* Create and Destroy take effect when they return, Lock at the swap that reads
\* 0 and Unlock at its store.
Holder(m) == IF \E h \in Harts : m \in held[h]
             THEN CHOOSE h \in Harts : m \in held[h] ELSE NULL

Service == INSTANCE MutexService WITH
               Mutexes <- Cb, Nobody <- NULL,
               creator <- live, owner <- [m \in Cb |-> Holder(m)]

ImplementsMutexService == Service!Spec
-------------------------------------------------------------------------------
(***************************************************************************)
(* The inductive invariant of the proofs.  Its first three parts hold      *)
(* whatever applications do, the last needs their discipline.              *)
(***************************************************************************)
Zeroed == pc[BootHart] \notin {"init_mutexes", "init_lock", "init_zero"}

\* Start-up: the boot hart works alone, and what it sets up is there when the
\* others run.
StartUpInv ==
    /\ pc[BootHart] # "off"
    /\ pc[BootHart] \in InitPc =>
           /\ \A h \in Harts : h # BootHart => pc[h] = "off"
           /\ \A h \in Harts : held[h] = {}
           /\ \A m \in Cb : live[m] = NULL
    /\ pc[BootHart] \notin InitPc =>
           /\ \A h \in Harts : pc[h] \notin InitPc \cup {"off"}
           /\ g_uiAppNumberOfMutexs = NumMutexes
    /\ pc[BootHart] \notin {"init_mutexes", "init_lock", "init_zero", "init_address"}
           => g_uiAppMutexsHeapAddress = HeapBase
    /\ pc[BootHart] \in {"init_unlock", "start_harts"} =>
           g_uiAppNumberOfMutexs = NumMutexes

\* What a hart's locals mean at each place of a call.
LocalsInv ==
    \A h \in Harts :
        /\ pc[h] \in CreatePc \cup DestroyPc \cup {"lock_spin"} => pMutex[h] \in Cb
        /\ pc[h] \in {"create_lock", "create_scan"} => ret[h] = NULL
        /\ pc[h] \in {"create_mark", "create_free"} => ret[h] = pMutex[h]
        /\ pc[h] = "create_unlock" => ret[h] \in {NULL, pMutex[h]}
        /\ pc[h] \in {"destroy_mark", "destroy_free"} => ret[h] = NULL
        /\ pc[h] = "destroy_unlock" => ret[h] \in {NULL, pMutex[h]}

\* What a Create or Destroy found out about its block still holds when it acts.
CheckedInv ==
    \A h \in Harts :
        /\ pc[h] = "create_mark" => ~uiMutexOccupied[pMutex[h]]
        /\ pc[h] = "destroy_mark" => uiMutexCreator[pMutex[h]] = h

\* A block says what the application was told, except the one a Create has
\* marked or a Destroy has cleared and not yet returned.
Creating(h, m) == pc[h] \in {"create_free", "create_unlock"} /\ ret[h] = m
Removing(h, m) == /\ pc[h] \in {"destroy_free", "destroy_unlock"}
                  /\ pMutex[h] = m /\ ret[h] = NULL

BlockInv ==
    Zeroed => \A m \in Cb :
        /\ (\A h \in Harts : ~Creating(h, m) /\ ~Removing(h, m)) =>
               /\ uiMutexOccupied[m] <=> live[m] # NULL
               /\ uiMutexCreator[m] = (IF live[m] = NULL THEN 0 ELSE live[m])
        /\ \A h \in Harts :
               /\ Creating(h, m) => /\ uiMutexOccupied[m]
                                    /\ uiMutexCreator[m] = h
                                    /\ live[m] = NULL
               /\ Removing(h, m) => /\ ~uiMutexOccupied[m]
                                    /\ uiMutexCreator[m] = 0

\* Under discipline, the lock word of a block is set exactly while one hart
\* holds it, and a mutex in use exists and is not being destroyed.
LockWordInv ==
    /\ HoldersExclude
    /\ Zeroed => \A m \in Cb : uiMutexState[m] = D_PSP_MUTEX_LOCKED
                                   <=> \E h \in Harts : m \in held[h]
    /\ \A h \in Harts : \A m \in Cb :
           Using(h, m) => live[m] # NULL /\ \A i \in Harts : ~Destroying(i, m)
    /\ \A h, i \in Harts : \A m \in Cb :
           Destroying(h, m) /\ Destroying(i, m) => h = i
    /\ \A h \in Harts : \A m \in Cb : Destroying(h, m) => live[m] # NULL

IndInv == /\ TypeOK
          /\ StartUpInv
          /\ HeapManagementExclusion
          /\ LocalsInv
          /\ CheckedInv
          /\ BlockInv

DisciplinedInv == IndInv /\ (Disciplined => LockWordInv)
===============================================================================
