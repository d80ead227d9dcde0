---------------------------- MODULE PspMutexProofs ----------------------------
(***************************************************************************)
(* Proofs about PspMutex, for every set of harts and every heap, and about *)
(* the demo that extends it, PspDemoMultiHarts, for every number of        *)
(* iterations, every size of the array and every number of timer           *)
(* interrupts.                                                             *)
(*                                                                         *)
(* IndInv is inductive: the initial states satisfy it (InitInv) and every  *)
(* step preserves each of its six parts (the *Step lemmas, one step per    *)
(* action).  It gives the typing, the exclusion of heap management and     *)
(* the agreement of blocks and handles, whatever applications do.          *)
(* LockWordInv is preserved too when applications are disciplined, and     *)
(* gives mutual exclusion of the mutexes and the refinement.               *)
(*                                                                         *)
(* DemoInv is inductive in the same way.  The calls of PSP matter there    *)
(* only in that they leave the demo's variables alone.                     *)
(***************************************************************************)
EXTENDS PspDemoMultiHarts, TLAPS

-------------------------------------------------------------------------------
\* The states after reset satisfy the invariant: only the boot hart runs, and
\* no block has been handed out.
LEMMA InitInv == Init => IndInv /\ LockWordInv
<1> SUFFICES ASSUME Init PROVE IndInv /\ LockWordInv
  OBVIOUS
<1> USE HartsAssumption, HeapAssumption DEF Init, Cb, InitPc
<1>1. TypeOK
  BY DEF TypeOK, InternalMutexesAtReset, Pc
<1>2. StartUpInv
  BY DEF StartUpInv
<1>3. HeapManagementExclusion
  BY DEF HeapManagementExclusion, InHeapSection
<1>4. LocalsInv /\ CheckedInv
  BY DEF LocalsInv, CheckedInv, CreatePc, DestroyPc
<1>5. BlockInv /\ LockWordInv
  BY DEF BlockInv, Creating, LockWordInv, HoldersExclude, Zeroed, Using, Destroying, DestroyPc
<1> QED BY <1>1, <1>2, <1>3, <1>4, <1>5 DEF IndInv

\* Every step keeps the types; a call's pMutex is a block by LocalsInv.
LEMMA TypeStep ==
  ASSUME IndInv, [Next]_vars
  PROVE  TypeOK'
<1> USE HartsAssumption, HeapAssumption DEF IndInv, TypeOK, LocalsInv, pspIsMutexAddressValid,
         Goto, heapVars, cbVars, pspInternalMutexInit, pspInternalMutexLock,
         pspInternalMutexUnlock, pspAtomicsEnterCriticalSection,
         pspAtomicsExitCriticalSection,
         Cb, HeapBase, Pc, InitPc, CreatePc, DestroyPc, LockWord,
         D_PSP_MUTEX_LOCKED, D_PSP_MUTEX_UNLOCKED, HEAP_MNG,
         E_MUTEX_INTERNAL_FOR_MUTEX_HEAP_MNG, InternalMutexes
<1>0. CASE UNCHANGED vars
  BY <1>0 DEF vars, heapVars, cbVars
<1>1. ASSUME NEW h \in Harts, InitPspMutexs(h) PROVE TypeOK'
  BY <1>1 DEF InitPspMutexs
<1>2. ASSUME NEW h \in Harts, HeapInitLock(h) PROVE TypeOK'
  BY <1>2 DEF HeapInitLock
<1>3. ASSUME NEW h \in Harts, HeapInitZero(h) PROVE TypeOK'
  BY <1>3 DEF HeapInitZero
<1>4. ASSUME NEW h \in Harts, HeapInitAddress(h) PROVE TypeOK'
  BY <1>4 DEF HeapInitAddress
<1>5. ASSUME NEW h \in Harts, HeapInitNumber(h) PROVE TypeOK'
  BY <1>5 DEF HeapInitNumber
<1>6. ASSUME NEW h \in Harts, HeapInitUnlock(h) PROVE TypeOK'
  BY <1>6 DEF HeapInitUnlock
<1>7. ASSUME NEW h \in Harts, StartHarts(h) PROVE TypeOK'
  BY <1>7 DEF StartHarts
<1>8. ASSUME NEW h \in Harts, CreateLock(h) PROVE TypeOK'
  BY <1>8 DEF CreateLock
<1>9. ASSUME NEW h \in Harts, CreateScan(h) PROVE TypeOK'
  BY <1>9 DEF CreateScan
<1>10. ASSUME NEW h \in Harts, CreateMark(h) PROVE TypeOK'
  BY <1>10 DEF CreateMark
<1>11. ASSUME NEW h \in Harts, CreateFree(h) PROVE TypeOK'
  BY <1>11 DEF CreateFree
<1>12. ASSUME NEW h \in Harts, CreateUnlock(h) PROVE TypeOK'
  BY <1>12 DEF CreateUnlock
<1>13. ASSUME NEW h \in Harts, DestroyLock(h) PROVE TypeOK'
  BY <1>13 DEF DestroyLock
<1>14. ASSUME NEW h \in Harts, DestroyCheck(h) PROVE TypeOK'
  BY <1>14 DEF DestroyCheck
<1>15. ASSUME NEW h \in Harts, DestroyMark(h) PROVE TypeOK'
  BY <1>15 DEF DestroyMark
<1>16. ASSUME NEW h \in Harts, DestroyFree(h) PROVE TypeOK'
  BY <1>16 DEF DestroyFree
<1>17. ASSUME NEW h \in Harts, DestroyUnlock(h) PROVE TypeOK'
  BY <1>17 DEF DestroyUnlock
<1>18. ASSUME NEW h \in Harts, LockAcquire(h) PROVE TypeOK'
  BY <1>18 DEF LockAcquire
<1>19. ASSUME NEW h \in Harts, CreateCall(h) PROVE TypeOK'
  BY <1>19 DEF CreateCall
<1>20. ASSUME NEW h \in Harts, NEW m \in Cb, DestroyCall(h, m) PROVE TypeOK'
  BY <1>20 DEF DestroyCall
<1>21. ASSUME NEW h \in Harts, NEW m \in Cb, LockCall(h, m) PROVE TypeOK'
  BY <1>21 DEF LockCall
<1>22. ASSUME NEW h \in Harts, NEW m \in Cb, Unlock(h, m) PROVE TypeOK'
  BY <1>22 DEF Unlock
<1> QED
  BY <1>0, <1>1, <1>2, <1>3, <1>4, <1>5, <1>6, <1>7, <1>8, <1>9, <1>10, <1>11, <1>12, <1>13, <1>14, <1>15, <1>16, <1>17, <1>18, <1>19, <1>20, <1>21, <1>22 DEF Next, PspStep, AppStep

\* While the boot hart starts up no other hart moves; afterwards the heap is set.
LEMMA StartUpStep ==
  ASSUME IndInv, [Next]_vars
  PROVE  StartUpInv'
<1> USE HartsAssumption, HeapAssumption DEF IndInv, TypeOK, LocalsInv, StartUpInv,
         Goto, heapVars, cbVars, pspInternalMutexInit, pspInternalMutexLock,
         pspInternalMutexUnlock, pspAtomicsEnterCriticalSection,
         pspAtomicsExitCriticalSection,
         Cb, HeapBase, Pc, InitPc, CreatePc, DestroyPc, LockWord,
         D_PSP_MUTEX_LOCKED, D_PSP_MUTEX_UNLOCKED, HEAP_MNG,
         E_MUTEX_INTERNAL_FOR_MUTEX_HEAP_MNG, InternalMutexes
<1>0. CASE UNCHANGED vars
  BY <1>0 DEF vars, heapVars, cbVars
<1>1. ASSUME NEW h \in Harts, InitPspMutexs(h) PROVE StartUpInv'
  BY <1>1 DEF InitPspMutexs
<1>2. ASSUME NEW h \in Harts, HeapInitLock(h) PROVE StartUpInv'
  BY <1>2 DEF HeapInitLock
<1>3. ASSUME NEW h \in Harts, HeapInitZero(h) PROVE StartUpInv'
  BY <1>3 DEF HeapInitZero
<1>4. ASSUME NEW h \in Harts, HeapInitAddress(h) PROVE StartUpInv'
  BY <1>4 DEF HeapInitAddress
<1>5. ASSUME NEW h \in Harts, HeapInitNumber(h) PROVE StartUpInv'
  BY <1>5 DEF HeapInitNumber
<1>6. ASSUME NEW h \in Harts, HeapInitUnlock(h) PROVE StartUpInv'
  BY <1>6 DEF HeapInitUnlock
<1>7. ASSUME NEW h \in Harts, StartHarts(h) PROVE StartUpInv'
  BY <1>7 DEF StartHarts
<1>8. ASSUME NEW h \in Harts, CreateLock(h) PROVE StartUpInv'
  BY <1>8 DEF CreateLock
<1>9. ASSUME NEW h \in Harts, CreateScan(h) PROVE StartUpInv'
  BY <1>9 DEF CreateScan
<1>10. ASSUME NEW h \in Harts, CreateMark(h) PROVE StartUpInv'
  BY <1>10 DEF CreateMark
<1>11. ASSUME NEW h \in Harts, CreateFree(h) PROVE StartUpInv'
  BY <1>11 DEF CreateFree
<1>12. ASSUME NEW h \in Harts, CreateUnlock(h) PROVE StartUpInv'
  BY <1>12 DEF CreateUnlock
<1>13. ASSUME NEW h \in Harts, DestroyLock(h) PROVE StartUpInv'
  BY <1>13 DEF DestroyLock
<1>14. ASSUME NEW h \in Harts, DestroyCheck(h) PROVE StartUpInv'
  BY <1>14 DEF DestroyCheck
<1>15. ASSUME NEW h \in Harts, DestroyMark(h) PROVE StartUpInv'
  BY <1>15 DEF DestroyMark
<1>16. ASSUME NEW h \in Harts, DestroyFree(h) PROVE StartUpInv'
  BY <1>16 DEF DestroyFree
<1>17. ASSUME NEW h \in Harts, DestroyUnlock(h) PROVE StartUpInv'
  BY <1>17 DEF DestroyUnlock
<1>18. ASSUME NEW h \in Harts, LockAcquire(h) PROVE StartUpInv'
  BY <1>18 DEF LockAcquire
<1>19. ASSUME NEW h \in Harts, CreateCall(h) PROVE StartUpInv'
  BY <1>19 DEF CreateCall
<1>20. ASSUME NEW h \in Harts, NEW m \in Cb, DestroyCall(h, m) PROVE StartUpInv'
  BY <1>20 DEF DestroyCall
<1>21. ASSUME NEW h \in Harts, NEW m \in Cb, LockCall(h, m) PROVE StartUpInv'
  BY <1>21 DEF LockCall
<1>22. ASSUME NEW h \in Harts, NEW m \in Cb, Unlock(h, m) PROVE StartUpInv'
  BY <1>22 DEF Unlock
<1> QED
  BY <1>0, <1>1, <1>2, <1>3, <1>4, <1>5, <1>6, <1>7, <1>8, <1>9, <1>10, <1>11, <1>12, <1>13, <1>14, <1>15, <1>16, <1>17, <1>18, <1>19, <1>20, <1>21, <1>22 DEF Next, PspStep, AppStep

\* The internal lock admits one hart: the swap that reads 0 happens only while
\* no hart is in the section, and only the hart in the section stores 0.
LEMMA ExclusionStep ==
  ASSUME IndInv, [Next]_vars
  PROVE  HeapManagementExclusion'
<1> USE HartsAssumption, HeapAssumption DEF IndInv, TypeOK, StartUpInv, LocalsInv,
         HeapManagementExclusion, InHeapSection,
         Goto, heapVars, cbVars, pspInternalMutexInit, pspInternalMutexLock,
         pspInternalMutexUnlock, pspAtomicsEnterCriticalSection,
         pspAtomicsExitCriticalSection,
         Cb, HeapBase, Pc, InitPc, CreatePc, DestroyPc, LockWord,
         D_PSP_MUTEX_LOCKED, D_PSP_MUTEX_UNLOCKED, HEAP_MNG,
         E_MUTEX_INTERNAL_FOR_MUTEX_HEAP_MNG, InternalMutexes
<1>0. CASE UNCHANGED vars
  BY <1>0 DEF vars, heapVars, cbVars
<1>1. ASSUME NEW h \in Harts, InitPspMutexs(h) PROVE HeapManagementExclusion'
  BY <1>1 DEF InitPspMutexs
<1>2. ASSUME NEW h \in Harts, HeapInitLock(h) PROVE HeapManagementExclusion'
  BY <1>2 DEF HeapInitLock
<1>3. ASSUME NEW h \in Harts, HeapInitZero(h) PROVE HeapManagementExclusion'
  BY <1>3 DEF HeapInitZero
<1>4. ASSUME NEW h \in Harts, HeapInitAddress(h) PROVE HeapManagementExclusion'
  BY <1>4 DEF HeapInitAddress
<1>5. ASSUME NEW h \in Harts, HeapInitNumber(h) PROVE HeapManagementExclusion'
  BY <1>5 DEF HeapInitNumber
<1>6. ASSUME NEW h \in Harts, HeapInitUnlock(h) PROVE HeapManagementExclusion'
  BY <1>6 DEF HeapInitUnlock
<1>7. ASSUME NEW h \in Harts, StartHarts(h) PROVE HeapManagementExclusion'
  BY <1>7 DEF StartHarts
<1>8. ASSUME NEW h \in Harts, CreateLock(h) PROVE HeapManagementExclusion'
  BY <1>8 DEF CreateLock
<1>9. ASSUME NEW h \in Harts, CreateScan(h) PROVE HeapManagementExclusion'
  BY <1>9 DEF CreateScan
<1>10. ASSUME NEW h \in Harts, CreateMark(h) PROVE HeapManagementExclusion'
  BY <1>10 DEF CreateMark
<1>11. ASSUME NEW h \in Harts, CreateFree(h) PROVE HeapManagementExclusion'
  BY <1>11 DEF CreateFree
<1>12. ASSUME NEW h \in Harts, CreateUnlock(h) PROVE HeapManagementExclusion'
  BY <1>12 DEF CreateUnlock
<1>13. ASSUME NEW h \in Harts, DestroyLock(h) PROVE HeapManagementExclusion'
  BY <1>13 DEF DestroyLock
<1>14. ASSUME NEW h \in Harts, DestroyCheck(h) PROVE HeapManagementExclusion'
  BY <1>14 DEF DestroyCheck
<1>15. ASSUME NEW h \in Harts, DestroyMark(h) PROVE HeapManagementExclusion'
  BY <1>15 DEF DestroyMark
<1>16. ASSUME NEW h \in Harts, DestroyFree(h) PROVE HeapManagementExclusion'
  BY <1>16 DEF DestroyFree
<1>17. ASSUME NEW h \in Harts, DestroyUnlock(h) PROVE HeapManagementExclusion'
  BY <1>17 DEF DestroyUnlock
<1>18. ASSUME NEW h \in Harts, LockAcquire(h) PROVE HeapManagementExclusion'
  BY <1>18 DEF LockAcquire
<1>19. ASSUME NEW h \in Harts, CreateCall(h) PROVE HeapManagementExclusion'
  BY <1>19 DEF CreateCall
<1>20. ASSUME NEW h \in Harts, NEW m \in Cb, DestroyCall(h, m) PROVE HeapManagementExclusion'
  BY <1>20 DEF DestroyCall
<1>21. ASSUME NEW h \in Harts, NEW m \in Cb, LockCall(h, m) PROVE HeapManagementExclusion'
  BY <1>21 DEF LockCall
<1>22. ASSUME NEW h \in Harts, NEW m \in Cb, Unlock(h, m) PROVE HeapManagementExclusion'
  BY <1>22 DEF Unlock
<1> QED
  BY <1>0, <1>1, <1>2, <1>3, <1>4, <1>5, <1>6, <1>7, <1>8, <1>9, <1>10, <1>11, <1>12, <1>13, <1>14, <1>15, <1>16, <1>17, <1>18, <1>19, <1>20, <1>21, <1>22 DEF Next, PspStep, AppStep

\* A hart's locals mean at its next place what LocalsInv says.
LEMMA LocalsStep ==
  ASSUME IndInv, [Next]_vars
  PROVE  LocalsInv'
<1> USE HartsAssumption, HeapAssumption DEF IndInv, TypeOK, StartUpInv, LocalsInv,
         Goto, heapVars, cbVars, pspInternalMutexInit, pspInternalMutexLock,
         pspInternalMutexUnlock, pspAtomicsEnterCriticalSection,
         pspAtomicsExitCriticalSection,
         Cb, HeapBase, Pc, InitPc, CreatePc, DestroyPc, LockWord,
         D_PSP_MUTEX_LOCKED, D_PSP_MUTEX_UNLOCKED, HEAP_MNG,
         E_MUTEX_INTERNAL_FOR_MUTEX_HEAP_MNG, InternalMutexes
<1>0. CASE UNCHANGED vars
  BY <1>0 DEF vars, heapVars, cbVars
<1>1. ASSUME NEW h \in Harts, InitPspMutexs(h) PROVE LocalsInv'
  BY <1>1 DEF InitPspMutexs
<1>2. ASSUME NEW h \in Harts, HeapInitLock(h) PROVE LocalsInv'
  BY <1>2 DEF HeapInitLock
<1>3. ASSUME NEW h \in Harts, HeapInitZero(h) PROVE LocalsInv'
  BY <1>3 DEF HeapInitZero
<1>4. ASSUME NEW h \in Harts, HeapInitAddress(h) PROVE LocalsInv'
  BY <1>4 DEF HeapInitAddress
<1>5. ASSUME NEW h \in Harts, HeapInitNumber(h) PROVE LocalsInv'
  BY <1>5 DEF HeapInitNumber
<1>6. ASSUME NEW h \in Harts, HeapInitUnlock(h) PROVE LocalsInv'
  BY <1>6 DEF HeapInitUnlock
<1>7. ASSUME NEW h \in Harts, StartHarts(h) PROVE LocalsInv'
  BY <1>7 DEF StartHarts
<1>8. ASSUME NEW h \in Harts, CreateLock(h) PROVE LocalsInv'
  BY <1>8 DEF CreateLock
<1>9. ASSUME NEW h \in Harts, CreateScan(h) PROVE LocalsInv'
  BY <1>9 DEF CreateScan
<1>10. ASSUME NEW h \in Harts, CreateMark(h) PROVE LocalsInv'
  BY <1>10 DEF CreateMark
<1>11. ASSUME NEW h \in Harts, CreateFree(h) PROVE LocalsInv'
  BY <1>11 DEF CreateFree
<1>12. ASSUME NEW h \in Harts, CreateUnlock(h) PROVE LocalsInv'
  BY <1>12 DEF CreateUnlock
<1>13. ASSUME NEW h \in Harts, DestroyLock(h) PROVE LocalsInv'
  BY <1>13 DEF DestroyLock
<1>14. ASSUME NEW h \in Harts, DestroyCheck(h) PROVE LocalsInv'
  BY <1>14 DEF DestroyCheck
<1>15. ASSUME NEW h \in Harts, DestroyMark(h) PROVE LocalsInv'
  BY <1>15 DEF DestroyMark
<1>16. ASSUME NEW h \in Harts, DestroyFree(h) PROVE LocalsInv'
  BY <1>16 DEF DestroyFree
<1>17. ASSUME NEW h \in Harts, DestroyUnlock(h) PROVE LocalsInv'
  BY <1>17 DEF DestroyUnlock
<1>18. ASSUME NEW h \in Harts, LockAcquire(h) PROVE LocalsInv'
  BY <1>18 DEF LockAcquire
<1>19. ASSUME NEW h \in Harts, CreateCall(h) PROVE LocalsInv'
  BY <1>19 DEF CreateCall
<1>20. ASSUME NEW h \in Harts, NEW m \in Cb, DestroyCall(h, m) PROVE LocalsInv'
  BY <1>20 DEF DestroyCall
<1>21. ASSUME NEW h \in Harts, NEW m \in Cb, LockCall(h, m) PROVE LocalsInv'
  BY <1>21 DEF LockCall
<1>22. ASSUME NEW h \in Harts, NEW m \in Cb, Unlock(h, m) PROVE LocalsInv'
  BY <1>22 DEF Unlock
<1> QED
  BY <1>0, <1>1, <1>2, <1>3, <1>4, <1>5, <1>6, <1>7, <1>8, <1>9, <1>10, <1>11, <1>12, <1>13, <1>14, <1>15, <1>16, <1>17, <1>18, <1>19, <1>20, <1>21, <1>22 DEF Next, PspStep, AppStep

\* No other hart can change the creator between the check and the step after it.
LEMMA CheckedStep ==
  ASSUME IndInv, [Next]_vars
  PROVE  CheckedInv'
<1> USE HartsAssumption, HeapAssumption DEF IndInv, TypeOK, StartUpInv, LocalsInv, CheckedInv,
         HeapManagementExclusion, InHeapSection,
         Goto, heapVars, cbVars, pspInternalMutexInit, pspInternalMutexLock,
         pspInternalMutexUnlock, pspAtomicsEnterCriticalSection,
         pspAtomicsExitCriticalSection,
         Cb, HeapBase, Pc, InitPc, CreatePc, DestroyPc, LockWord,
         D_PSP_MUTEX_LOCKED, D_PSP_MUTEX_UNLOCKED, HEAP_MNG,
         E_MUTEX_INTERNAL_FOR_MUTEX_HEAP_MNG, InternalMutexes
<1>0. CASE UNCHANGED vars
  BY <1>0 DEF vars, heapVars, cbVars
<1>1. ASSUME NEW h \in Harts, InitPspMutexs(h) PROVE CheckedInv'
  BY <1>1 DEF InitPspMutexs
<1>2. ASSUME NEW h \in Harts, HeapInitLock(h) PROVE CheckedInv'
  BY <1>2 DEF HeapInitLock
<1>3. ASSUME NEW h \in Harts, HeapInitZero(h) PROVE CheckedInv'
  BY <1>3 DEF HeapInitZero
<1>4. ASSUME NEW h \in Harts, HeapInitAddress(h) PROVE CheckedInv'
  BY <1>4 DEF HeapInitAddress
<1>5. ASSUME NEW h \in Harts, HeapInitNumber(h) PROVE CheckedInv'
  BY <1>5 DEF HeapInitNumber
<1>6. ASSUME NEW h \in Harts, HeapInitUnlock(h) PROVE CheckedInv'
  BY <1>6 DEF HeapInitUnlock
<1>7. ASSUME NEW h \in Harts, StartHarts(h) PROVE CheckedInv'
  BY <1>7 DEF StartHarts
<1>8. ASSUME NEW h \in Harts, CreateLock(h) PROVE CheckedInv'
  BY <1>8 DEF CreateLock
<1>9. ASSUME NEW h \in Harts, CreateScan(h) PROVE CheckedInv'
  BY <1>9 DEF CreateScan
<1>10. ASSUME NEW h \in Harts, CreateMark(h) PROVE CheckedInv'
  BY <1>10 DEF CreateMark
<1>11. ASSUME NEW h \in Harts, CreateFree(h) PROVE CheckedInv'
  BY <1>11 DEF CreateFree
<1>12. ASSUME NEW h \in Harts, CreateUnlock(h) PROVE CheckedInv'
  BY <1>12 DEF CreateUnlock
<1>13. ASSUME NEW h \in Harts, DestroyLock(h) PROVE CheckedInv'
  BY <1>13 DEF DestroyLock
<1>14. ASSUME NEW h \in Harts, DestroyCheck(h) PROVE CheckedInv'
  BY <1>14 DEF DestroyCheck
<1>15. ASSUME NEW h \in Harts, DestroyMark(h) PROVE CheckedInv'
  BY <1>15 DEF DestroyMark
<1>16. ASSUME NEW h \in Harts, DestroyFree(h) PROVE CheckedInv'
  BY <1>16 DEF DestroyFree
<1>17. ASSUME NEW h \in Harts, DestroyUnlock(h) PROVE CheckedInv'
  BY <1>17 DEF DestroyUnlock
<1>18. ASSUME NEW h \in Harts, LockAcquire(h) PROVE CheckedInv'
  BY <1>18 DEF LockAcquire
<1>19. ASSUME NEW h \in Harts, CreateCall(h) PROVE CheckedInv'
  BY <1>19 DEF CreateCall
<1>20. ASSUME NEW h \in Harts, NEW m \in Cb, DestroyCall(h, m) PROVE CheckedInv'
  BY <1>20 DEF DestroyCall
<1>21. ASSUME NEW h \in Harts, NEW m \in Cb, LockCall(h, m) PROVE CheckedInv'
  BY <1>21 DEF LockCall
<1>22. ASSUME NEW h \in Harts, NEW m \in Cb, Unlock(h, m) PROVE CheckedInv'
  BY <1>22 DEF Unlock
<1> QED
  BY <1>0, <1>1, <1>2, <1>3, <1>4, <1>5, <1>6, <1>7, <1>8, <1>9, <1>10, <1>11, <1>12, <1>13, <1>14, <1>15, <1>16, <1>17, <1>18, <1>19, <1>20, <1>21, <1>22 DEF Next, PspStep, AppStep

\* A step of a hart that neither starts nor ends work on a block, and leaves the
\* blocks alone, keeps BlockInv.
LEMMA BlockFrame ==
  ASSUME BlockInv, Zeroed, NULL \notin Cb, NEW h \in Harts,
         uiMutexOccupied' = uiMutexOccupied, uiMutexCreator' = uiMutexCreator,
         live' = live,
         \A i \in Harts : i # h => /\ pc'[i] = pc[i]
                                   /\ ret'[i] = ret[i]
                                   /\ pMutex'[i] = pMutex[i],
         pc[h] \notin {"create_free", "create_unlock", "destroy_free", "destroy_unlock"},
         pc'[h] \notin {"create_free", "destroy_free"},
         pc'[h] = "create_unlock" => ret'[h] = NULL,
         pc'[h] = "destroy_unlock" => ret'[h] # NULL
  PROVE  BlockInv'
<1>1. ASSUME NEW i \in Harts, NEW m \in Cb
      PROVE  /\ Creating(i, m)' <=> Creating(i, m)
             /\ Removing(i, m)' <=> Removing(i, m)
  BY DEF Creating, Removing
<1>2. ASSUME NEW m \in Cb
      PROVE  /\ (\A i \in Harts : ~Creating(i, m)' /\ ~Removing(i, m)') =>
                    /\ uiMutexOccupied'[m] <=> live'[m] # NULL
                    /\ uiMutexCreator'[m] =
                           (IF live'[m] = NULL THEN 0 ELSE live'[m])
             /\ \A i \in Harts :
                    /\ Creating(i, m)' => /\ uiMutexOccupied'[m]
                                         /\ uiMutexCreator'[m] = i
                                         /\ live'[m] = NULL
                    /\ Removing(i, m)' => /\ ~uiMutexOccupied'[m]
                                         /\ uiMutexCreator'[m] = 0
  BY <1>1 DEF BlockInv, Creating, Removing
<1> QED BY <1>2 DEF BlockInv, Creating, Removing

\* A block changes only in the heap section, so the one hart there accounts for
\* every block that does not agree with what the application was told.
LEMMA BlockStep ==
  ASSUME IndInv, [Next]_vars
  PROVE  BlockInv'
<1> USE HartsAssumption, HeapAssumption DEF IndInv, TypeOK, StartUpInv, HeapManagementExclusion,
         InHeapSection, LocalsInv, CheckedInv, pspIsMutexAddressValid,
         Goto, heapVars, cbVars, pspInternalMutexInit, pspInternalMutexLock,
         pspInternalMutexUnlock, pspAtomicsEnterCriticalSection,
         pspAtomicsExitCriticalSection,
         Cb, HeapBase, Pc, InitPc, CreatePc, DestroyPc, LockWord,
         D_PSP_MUTEX_LOCKED, D_PSP_MUTEX_UNLOCKED, HEAP_MNG,
         E_MUTEX_INTERNAL_FOR_MUTEX_HEAP_MNG, InternalMutexes
<1>0. CASE UNCHANGED vars
  BY <1>0 DEF BlockInv, Creating, Removing, Zeroed, vars, heapVars, cbVars
<1>1. ASSUME NEW h \in Harts, InitPspMutexs(h) PROVE BlockInv'
  BY <1>1 DEF InitPspMutexs, BlockInv, Creating, Removing, Zeroed
<1>2. ASSUME NEW h \in Harts, HeapInitLock(h) PROVE BlockInv'
  BY <1>2 DEF HeapInitLock, BlockInv, Creating, Removing, Zeroed
<1>3. ASSUME NEW h \in Harts, HeapInitZero(h) PROVE BlockInv'
  BY <1>3 DEF HeapInitZero, BlockInv, Creating, Removing, Zeroed
<1>4. ASSUME NEW h \in Harts, HeapInitAddress(h) PROVE BlockInv'
  BY <1>4 DEF HeapInitAddress, BlockInv, Creating, Removing, Zeroed
<1>5. ASSUME NEW h \in Harts, HeapInitNumber(h) PROVE BlockInv'
  BY <1>5 DEF HeapInitNumber, BlockInv, Creating, Removing, Zeroed
<1>6. ASSUME NEW h \in Harts, HeapInitUnlock(h) PROVE BlockInv'
  BY <1>6 DEF HeapInitUnlock, BlockInv, Creating, Removing, Zeroed
<1>7. ASSUME NEW h \in Harts, StartHarts(h) PROVE BlockInv'
  BY <1>7 DEF StartHarts, BlockInv, Creating, Removing, Zeroed
<1>8. ASSUME NEW h \in Harts, CreateLock(h) PROVE BlockInv'
  BY <1>8 DEF CreateLock, BlockInv, Creating, Removing, Zeroed
<1>9. ASSUME NEW h \in Harts, CreateScan(h) PROVE BlockInv'
  <2>1. /\ UNCHANGED <<uiMutexOccupied, uiMutexCreator, live>>
        /\ \A i \in Harts : i # h => /\ pc'[i] = pc[i]
                                     /\ ret'[i] = ret[i]
                                     /\ pMutex'[i] = pMutex[i]
        /\ pc[h] = "create_scan"
    BY <1>9 DEF CreateScan
  <2>2. /\ pc'[h] \in {"create_mark", "create_unlock"}
        /\ pc'[h] = "create_unlock" => ret'[h] = NULL
    BY <1>9 DEF CreateScan
  <2>3. BlockInv /\ NULL \notin Cb /\ Zeroed
    BY <2>1 DEF Zeroed
  <2> QED BY <2>1, <2>2, <2>3, BlockFrame
<1>10. ASSUME NEW h \in Harts, CreateMark(h) PROVE BlockInv'
  BY <1>10 DEF CreateMark, BlockInv, Creating, Removing, Zeroed
<1>11. ASSUME NEW h \in Harts, CreateFree(h) PROVE BlockInv'
  BY <1>11 DEF CreateFree, BlockInv, Creating, Removing, Zeroed
<1>12. ASSUME NEW h \in Harts, CreateUnlock(h) PROVE BlockInv'
  BY <1>12 DEF CreateUnlock, BlockInv, Creating, Removing, Zeroed
<1>13. ASSUME NEW h \in Harts, DestroyLock(h) PROVE BlockInv'
  BY <1>13 DEF DestroyLock, BlockInv, Creating, Removing, Zeroed
<1>14. ASSUME NEW h \in Harts, DestroyCheck(h) PROVE BlockInv'
  <2>1. /\ UNCHANGED <<uiMutexOccupied, uiMutexCreator, live>>
        /\ \A i \in Harts : i # h => /\ pc'[i] = pc[i]
                                     /\ ret'[i] = ret[i]
                                     /\ pMutex'[i] = pMutex[i]
        /\ pc[h] = "destroy_check"
    BY <1>14 DEF DestroyCheck
  <2>2. /\ pc'[h] \in {"destroy_mark", "destroy_unlock"}
        /\ pc'[h] = "destroy_unlock" => ret'[h] # NULL
    BY <1>14 DEF DestroyCheck
  <2>3. BlockInv /\ NULL \notin Cb /\ Zeroed
    BY <2>1 DEF Zeroed
  <2> QED BY <2>1, <2>2, <2>3, BlockFrame
<1>15. ASSUME NEW h \in Harts, DestroyMark(h) PROVE BlockInv'
  BY <1>15 DEF DestroyMark, BlockInv, Creating, Removing, Zeroed
<1>16. ASSUME NEW h \in Harts, DestroyFree(h) PROVE BlockInv'
  BY <1>16 DEF DestroyFree, BlockInv, Creating, Removing, Zeroed
<1>17. ASSUME NEW h \in Harts, DestroyUnlock(h) PROVE BlockInv'
  BY <1>17 DEF DestroyUnlock, BlockInv, Creating, Removing, Zeroed
<1>18. ASSUME NEW h \in Harts, LockAcquire(h) PROVE BlockInv'
  <2>1. /\ UNCHANGED <<uiMutexOccupied, uiMutexCreator, live>>
        /\ \A i \in Harts : i # h => /\ pc'[i] = pc[i]
                                     /\ ret'[i] = ret[i]
                                     /\ pMutex'[i] = pMutex[i]
        /\ pc[h] = "lock_spin"
    BY <1>18 DEF LockAcquire
  <2>2. /\ pc'[h] = "idle"
    BY <1>18 DEF LockAcquire
  <2>3. BlockInv /\ NULL \notin Cb /\ Zeroed
    BY <2>1 DEF Zeroed
  <2> QED BY <2>1, <2>2, <2>3, BlockFrame, ZenonT(40)
<1>19. ASSUME NEW h \in Harts, CreateCall(h) PROVE BlockInv'
  BY <1>19 DEF CreateCall, BlockInv, Creating, Removing, Zeroed
<1>20. ASSUME NEW h \in Harts, NEW m \in Cb, DestroyCall(h, m) PROVE BlockInv'
  BY <1>20 DEF DestroyCall, BlockInv, Creating, Removing, Zeroed
<1>21. ASSUME NEW h \in Harts, NEW m \in Cb, LockCall(h, m) PROVE BlockInv'
  BY <1>21 DEF LockCall, BlockInv, Creating, Removing, Zeroed
<1>22. ASSUME NEW h \in Harts, NEW m \in Cb, Unlock(h, m) PROVE BlockInv'
  BY <1>22 DEF Unlock, BlockInv, Creating, Removing, Zeroed
<1> QED
  BY <1>0, <1>1, <1>2, <1>3, <1>4, <1>5, <1>6, <1>7, <1>8, <1>9, <1>10, <1>11, <1>12, <1>13, <1>14, <1>15, <1>16, <1>17, <1>18, <1>19, <1>20, <1>21, <1>22 DEF Next, PspStep, AppStep

\* Under discipline the lock words follow the holders: Create and Destroy clear
\* only the word of a mutex nobody uses, the swap takes only a free one.
LEMMA LockWordStep ==
  ASSUME Disciplined, IndInv, LockWordInv, [Next]_vars
  PROVE  LockWordInv'
<1> USE HartsAssumption, HeapAssumption DEF IndInv, TypeOK, StartUpInv, HeapManagementExclusion,
         InHeapSection, LocalsInv, CheckedInv, BlockInv,
         Creating, Removing, Zeroed, LockWordInv,
         HoldersExclude, Using, Destroying, pspIsMutexAddressValid,
         Goto, heapVars, cbVars, pspInternalMutexInit, pspInternalMutexLock,
         pspInternalMutexUnlock, pspAtomicsEnterCriticalSection,
         pspAtomicsExitCriticalSection,
         Cb, HeapBase, Pc, InitPc, CreatePc, DestroyPc, LockWord,
         D_PSP_MUTEX_LOCKED, D_PSP_MUTEX_UNLOCKED, HEAP_MNG,
         E_MUTEX_INTERNAL_FOR_MUTEX_HEAP_MNG, InternalMutexes
<1>0. CASE UNCHANGED vars
  BY <1>0 DEF vars, heapVars, cbVars
<1>1. ASSUME NEW h \in Harts, InitPspMutexs(h) PROVE LockWordInv'
  BY <1>1 DEF InitPspMutexs
<1>2. ASSUME NEW h \in Harts, HeapInitLock(h) PROVE LockWordInv'
  BY <1>2 DEF HeapInitLock
<1>3. ASSUME NEW h \in Harts, HeapInitZero(h) PROVE LockWordInv'
  BY <1>3 DEF HeapInitZero
<1>4. ASSUME NEW h \in Harts, HeapInitAddress(h) PROVE LockWordInv'
  BY <1>4 DEF HeapInitAddress
<1>5. ASSUME NEW h \in Harts, HeapInitNumber(h) PROVE LockWordInv'
  BY <1>5 DEF HeapInitNumber
<1>6. ASSUME NEW h \in Harts, HeapInitUnlock(h) PROVE LockWordInv'
  BY <1>6 DEF HeapInitUnlock
<1>7. ASSUME NEW h \in Harts, StartHarts(h) PROVE LockWordInv'
  BY <1>7 DEF StartHarts
<1>8. ASSUME NEW h \in Harts, CreateLock(h) PROVE LockWordInv'
  BY <1>8 DEF CreateLock
<1>9. ASSUME NEW h \in Harts, CreateScan(h) PROVE LockWordInv'
  BY SMTT(30), <1>9 DEF CreateScan
<1>10. ASSUME NEW h \in Harts, CreateMark(h) PROVE LockWordInv'
  BY <1>10 DEF CreateMark
<1>11. ASSUME NEW h \in Harts, CreateFree(h) PROVE LockWordInv'
  BY SMTT(30), <1>11 DEF CreateFree
<1>12. ASSUME NEW h \in Harts, CreateUnlock(h) PROVE LockWordInv'
  BY <1>12 DEF CreateUnlock
<1>13. ASSUME NEW h \in Harts, DestroyLock(h) PROVE LockWordInv'
  BY SMTT(30), <1>13 DEF DestroyLock
<1>14. ASSUME NEW h \in Harts, DestroyCheck(h) PROVE LockWordInv'
  BY SMTT(30), <1>14 DEF DestroyCheck
<1>15. ASSUME NEW h \in Harts, DestroyMark(h) PROVE LockWordInv'
  BY <1>15 DEF DestroyMark
<1>16. ASSUME NEW h \in Harts, DestroyFree(h) PROVE LockWordInv'
  BY SMTT(30), <1>16 DEF DestroyFree
<1>17. ASSUME NEW h \in Harts, DestroyUnlock(h) PROVE LockWordInv'
  BY SMTT(30), <1>17 DEF DestroyUnlock
<1>18. ASSUME NEW h \in Harts, LockAcquire(h) PROVE LockWordInv'
  BY SMTT(30), <1>18 DEF LockAcquire
<1>19. ASSUME NEW h \in Harts, CreateCall(h) PROVE LockWordInv'
  BY <1>19 DEF CreateCall
<1>20. ASSUME NEW h \in Harts, NEW m \in Cb, DestroyCall(h, m) PROVE LockWordInv'
  <2>1. /\ UNCHANGED <<uiMutexState, held, live>>
        /\ pMutex' = [pMutex EXCEPT ![h] = m]
        /\ pc[h] = "idle" /\ pc' = [pc EXCEPT ![h] = "destroy_lock"]
        /\ live[m] # NULL
        /\ \A i \in Harts : ~Using(i, m) /\ ~Destroying(i, m)
    BY <1>20 DEF DestroyCall
  <2>2. HoldersExclude'
    BY <2>1
  <2>3. Zeroed' => \A n \in Cb : uiMutexState'[n] = D_PSP_MUTEX_LOCKED
                                   <=> \E i \in Harts : n \in held'[i]
    BY <2>1
  <2>4. ASSUME NEW i \in Harts, NEW n \in Cb
        PROVE  /\ Using(i, n)' => Using(i, n)
               /\ Destroying(i, n)' => Destroying(i, n) \/ (i = h /\ n = m)
    BY <2>1
  <2>5. ASSUME NEW i \in Harts, NEW n \in Cb, Using(i, n)'
        PROVE  live'[n] # NULL /\ \A j \in Harts : ~Destroying(j, n)'
    <3>1. Using(i, n)
      BY <2>4, <2>5
    <3>2. n # m
      BY <2>1, <3>1
    <3> QED BY <2>1, <2>4, <3>1, <3>2
  <2>6. ASSUME NEW i \in Harts, NEW j \in Harts, NEW n \in Cb,
               Destroying(i, n)', Destroying(j, n)'
        PROVE  i = j
    BY <2>1, <2>4, <2>6
  <2>7. ASSUME NEW i \in Harts, NEW n \in Cb, Destroying(i, n)'
        PROVE  live'[n] # NULL
    BY <2>1, <2>4, <2>7
  <2> QED BY <2>2, <2>3, <2>5, <2>6, <2>7
<1>21. ASSUME NEW h \in Harts, NEW m \in Cb, LockCall(h, m) PROVE LockWordInv'
  <2>1. /\ UNCHANGED <<uiMutexState, held, live>>
        /\ pMutex' = [pMutex EXCEPT ![h] = m]
        /\ pc[h] = "idle" /\ pc' = [pc EXCEPT ![h] = "lock_spin"]
        /\ live[m] # NULL
        /\ \A i \in Harts : ~Destroying(i, m)
    BY <1>21 DEF LockCall
  <2>2. HoldersExclude'
    BY <2>1
  <2>3. Zeroed' => \A n \in Cb : uiMutexState'[n] = D_PSP_MUTEX_LOCKED
                                   <=> \E i \in Harts : n \in held'[i]
    BY <2>1
  <2>4. ASSUME NEW i \in Harts, NEW n \in Cb
        PROVE  /\ Using(i, n)' => Using(i, n) \/ (i = h /\ n = m)
               /\ Destroying(i, n)' => Destroying(i, n)
    BY <2>1
  <2>5. ASSUME NEW i \in Harts, NEW n \in Cb, Using(i, n)'
        PROVE  live'[n] # NULL /\ \A j \in Harts : ~Destroying(j, n)'
    BY <2>1, <2>4, <2>5
  <2>6. ASSUME NEW i \in Harts, NEW j \in Harts, NEW n \in Cb,
               Destroying(i, n)', Destroying(j, n)'
        PROVE  i = j
    <3>1. Destroying(i, n) /\ Destroying(j, n)
      BY <2>4, <2>6
    <3> QED BY <3>1
  <2>7. ASSUME NEW i \in Harts, NEW n \in Cb, Destroying(i, n)'
        PROVE  live'[n] # NULL
    BY <2>1, <2>4, <2>7
  <2> QED BY <2>2, <2>3, <2>5, <2>6, <2>7
<1>22. ASSUME NEW h \in Harts, NEW m \in Cb, Unlock(h, m) PROVE LockWordInv'
  BY SMTT(30), <1>22 DEF Unlock
<1> QED
  BY <1>0, <1>1, <1>2, <1>3, <1>4, <1>5, <1>6, <1>7, <1>8, <1>9, <1>10, <1>11, <1>12, <1>13, <1>14, <1>15, <1>16, <1>17, <1>18, <1>19, <1>20, <1>21, <1>22 DEF Next, PspStep, AppStep

-------------------------------------------------------------------------------
\* The inductive invariant holds of every reachable state.
LEMMA Invariance == Spec => []IndInv
<1>1. Init => IndInv
  BY InitInv
<1>2. IndInv /\ [Next]_vars => IndInv'
  BY TypeStep, StartUpStep, ExclusionStep, LocalsStep,
     CheckedStep, BlockStep DEF IndInv
<1> QED BY <1>1, <1>2, PTL DEF Spec

\* So does its last part, when applications are disciplined.
LEMMA DisciplinedInvariance ==
  ASSUME Disciplined
  PROVE  Spec => [](IndInv /\ LockWordInv)
<1>1. Init => LockWordInv
  BY InitInv
<1>2. IndInv /\ LockWordInv /\ [Next]_vars => LockWordInv'
  BY LockWordStep
<1> QED BY <1>1, <1>2, Invariance, PTL DEF Spec

\* Type correctness: every variable keeps a value of its C type, for every
\* number of blocks and whatever the garbage at reset.
THEOREM TypeCorrectness == Spec => []TypeOK
<1>1. IndInv => TypeOK
  BY DEF IndInv
<1> QED BY <1>1, Invariance, PTL

\* The internal mutex makes the heap's management (pspMutexHeapInit, Create,
\* Destroy) mutually exclusive.
THEOREM HeapManagementIsExclusive == Spec => []HeapManagementExclusion
<1>1. IndInv => HeapManagementExclusion
  BY DEF IndInv
<1> QED BY <1>1, Invariance, PTL

\* Whenever no hart manages the heap, its blocks agree with what Create and
\* Destroy told the applications.
THEOREM BlocksAgreeWithHandles == Spec => []BlocksMatchHandles
<1>1. IndInv => BlocksMatchHandles
  <2> SUFFICES ASSUME IndInv,
                      \A h \in Harts : pc[h] \notin InitPc /\ ~InHeapSection(h),
                      NEW m \in Cb
               PROVE  /\ uiMutexOccupied[m] <=> live[m] # NULL
                      /\ uiMutexCreator[m] = IF live[m] = NULL THEN 0 ELSE live[m]
    BY DEF BlocksMatchHandles
  <2>1. Zeroed
    BY HartsAssumption DEF Zeroed, InitPc
  <2>2. \A h \in Harts :
            pc[h] \notin {"create_free", "create_unlock",
                          "destroy_free", "destroy_unlock"}
    BY DEF InHeapSection
  <2> QED BY <2>1, <2>2 DEF IndInv, BlockInv, Creating, Removing
<1> QED BY <1>1, Invariance, PTL

\* A disciplined application's mutexes exclude: no two harts hold the same one.
THEOREM MutualExclusion ==
  ASSUME Disciplined
  PROVE  Spec => []HoldersExclude
<1>1. LockWordInv => HoldersExclude
  BY DEF LockWordInv
<1> QED BY <1>1, DisciplinedInvariance, PTL

\* A disciplined application's Destroy succeeds for the creator only.
THEOREM DestroyIsTheCreators ==
  ASSUME Disciplined
  PROVE  Spec => []OnlyCreatorDestroys
<1>1. IndInv /\ LockWordInv => OnlyCreatorDestroys
  <2> SUFFICES ASSUME IndInv, LockWordInv, NEW h \in Harts, pc[h] = "destroy_mark"
               PROVE  live[pMutex[h]] = h
    BY DEF OnlyCreatorDestroys
  <2> DEFINE m == pMutex[h]
  <2>1. m \in Cb /\ Destroying(h, m) /\ uiMutexCreator[m] = h
    BY DEF IndInv, LocalsInv, CheckedInv, Destroying, DestroyPc
  <2>2. live[m] # NULL
    BY <2>1 DEF LockWordInv
  <2>3. uiMutexCreator[m] = live[m]
    BY <2>1, <2>2, HartsAssumption
       DEF IndInv, StartUpInv, CheckedInv, BlockInv, Creating, Removing, Zeroed, InitPc, HeapManagementExclusion,
           InHeapSection
  <2> QED BY <2>1, <2>3
<1> QED BY <1>1, DisciplinedInvariance, PTL

\* Create hands out a mutex that nobody owns, holds or has locked.
THEOREM CreatedMutexIsFresh ==
  ASSUME Disciplined
  PROVE  Spec => []CreateReturnsFreshMutex
<1>1. IndInv /\ LockWordInv => CreateReturnsFreshMutex
  <2> SUFFICES ASSUME IndInv, LockWordInv, NEW h \in Harts,
                      pc[h] = "create_unlock", ret[h] # NULL
               PROVE  /\ live[ret[h]] = NULL
                      /\ uiMutexState[ret[h]] = D_PSP_MUTEX_UNLOCKED
                      /\ \A i \in Harts : ret[h] \notin held[i]
    BY DEF CreateReturnsFreshMutex
  <2> DEFINE m == ret[h]
  <2>1. m \in Cb /\ m = pMutex[h]
    BY DEF IndInv, LocalsInv, CreatePc
  <2>2. Zeroed
    BY HartsAssumption DEF IndInv, StartUpInv, Zeroed, InitPc
  <2>3. live[m] = NULL
    BY <2>1, <2>2
       DEF IndInv, BlockInv, Creating, HeapManagementExclusion, InHeapSection
  <2>4. \A i \in Harts : m \notin held[i]
    BY <2>1, <2>3 DEF LockWordInv, Using
  <2>5. uiMutexState[m] = D_PSP_MUTEX_UNLOCKED
    BY <2>1, <2>2, <2>4 DEF LockWordInv, IndInv, TypeOK, LockWord
  <2> QED BY <2>3, <2>4, <2>5
<1> QED BY <1>1, DisciplinedInvariance, PTL
-------------------------------------------------------------------------------
\* A Destroy that has cleared a block was called by the hart Create returned it
\* to, and the application has it until that Destroy returns.
RemovalInv == \A h \in Harts, m \in Cb : Removing(h, m) => live[m] = h

LEMMA RemovalStep ==
  ASSUME Disciplined, IndInv, LockWordInv, RemovalInv, [Next]_vars
  PROVE  RemovalInv'
<1> USE HartsAssumption, HeapAssumption DEF RemovalInv, Goto
<1>types. /\ pc \in [Harts -> Pc] /\ pMutex \in [Harts -> Cb \cup {NULL}]
          /\ ret \in [Harts -> Cb \cup {NULL}] /\ live \in [Cb -> Harts \cup {NULL}]
  BY DEF IndInv, TypeOK
<1>section. \A h, i \in Harts : InHeapSection(h) /\ InHeapSection(i) => h = i
  BY DEF IndInv, HeapManagementExclusion
<1>kept. ASSUME live' = live,
                \A h \in Harts, m \in Cb : Removing(h, m)' => Removing(h, m)
         PROVE  RemovalInv'
  BY <1>kept
<1>1. ASSUME NEW h \in Harts, NEW place \in Pc \ {"destroy_free", "destroy_unlock"},
             pc' = [pc EXCEPT ![h] = place], live' = live,
             \A i \in Harts \ {h} : pMutex'[i] = pMutex[i] /\ ret'[i] = ret[i]
      PROVE  RemovalInv'
  BY <1>types, <1>1, <1>kept DEF Removing
<1>2. ASSUME NEW h \in Harts, CreateUnlock(h) PROVE RemovalInv'
  <2>1. /\ pc[h] = "create_unlock" /\ pc' = [pc EXCEPT ![h] = "idle"]
        /\ UNCHANGED <<pMutex, ret>>
    BY <1>2 DEF CreateUnlock
  <2>2. \A i \in Harts : pc[i] \notin {"destroy_free", "destroy_unlock"}
    BY <1>section, <2>1 DEF InHeapSection
  <2> QED
    BY <1>types, <2>1, <2>2 DEF Removing
<1>3. ASSUME NEW h \in Harts, DestroyUnlock(h) PROVE RemovalInv'
  <2>1. /\ pc[h] = "destroy_unlock" /\ pc' = [pc EXCEPT ![h] = "idle"]
        /\ UNCHANGED <<pMutex, ret>>
    BY <1>3 DEF DestroyUnlock
  <2>2. \A i \in Harts \ {h} : pc[i] \notin {"destroy_free", "destroy_unlock"}
    BY <1>section, <2>1 DEF InHeapSection
  <2> QED
    BY <1>types, <2>1, <2>2 DEF Removing
<1>4. ASSUME NEW h \in Harts, DestroyCheck(h) PROVE RemovalInv'
  <2>1. /\ pc[h] = "destroy_check" /\ UNCHANGED <<pMutex, live>>
        /\ \/ pc' = [pc EXCEPT ![h] = "destroy_mark"]
           \/ /\ ret' = [ret EXCEPT ![h] = pMutex[h]]
              /\ pc' = [pc EXCEPT ![h] = "destroy_unlock"]
    BY <1>4 DEF DestroyCheck
  <2>2. \A i \in Harts \ {h} : ret'[i] = ret[i]
    BY <1>4, <1>types DEF DestroyCheck
  <2>3. pMutex[h] \in Cb
    BY <2>1 DEF IndInv, LocalsInv, DestroyPc
  <2>4. NULL \notin Cb
    BY DEF Cb
  <2> QED
    BY <1>types, <2>1, <2>2, <2>3, <2>4, <1>kept DEF Removing
<1>5. ASSUME NEW h \in Harts, DestroyMark(h) PROVE RemovalInv'
  <2> DEFINE m == pMutex[h]
  <2>1. /\ pc[h] = "destroy_mark" /\ pc' = [pc EXCEPT ![h] = "destroy_free"]
        /\ UNCHANGED <<pMutex, ret, live>>
    BY <1>5 DEF DestroyMark
  <2>2. m \in Cb /\ Destroying(h, m) /\ uiMutexCreator[m] = h
    BY <2>1 DEF IndInv, LocalsInv, CheckedInv, Destroying, DestroyPc
  <2>3. live[m] # NULL
    BY <2>2 DEF LockWordInv
  <2>4. uiMutexCreator[m] = live[m]
    BY <2>1, <2>2, <2>3
       DEF IndInv, StartUpInv, BlockInv, Creating, Removing, Zeroed, InitPc,
           HeapManagementExclusion, InHeapSection
  <2> QED
    BY <1>types, <2>1, <2>2, <2>4 DEF Removing
<1>6. ASSUME NEW h \in Harts, DestroyFree(h) PROVE RemovalInv'
  <2>1. /\ pc[h] = "destroy_free" /\ pc' = [pc EXCEPT ![h] = "destroy_unlock"]
        /\ UNCHANGED <<pMutex, ret, live>>
    BY <1>6 DEF DestroyFree
  <2> QED
    BY <1>types, <2>1, <1>kept DEF Removing
<1>7. ASSUME NEW h \in Harts, StartHarts(h) PROVE RemovalInv'
  BY <1>7, <1>types, <1>kept DEF StartHarts, Removing
<1>8. ASSUME NEW h \in Harts, NEW m \in Cb, Unlock(h, m) PROVE RemovalInv'
  BY <1>8, <1>kept DEF Unlock, Removing
<1>9. CASE UNCHANGED vars
  BY <1>9, <1>kept DEF vars, Removing
<1>10. ASSUME NEW h \in Harts,
              \/ InitPspMutexs(h) \/ HeapInitLock(h) \/ HeapInitZero(h)
              \/ HeapInitAddress(h) \/ HeapInitNumber(h) \/ HeapInitUnlock(h)
              \/ CreateLock(h) \/ CreateMark(h) \/ CreateFree(h)
              \/ DestroyLock(h) \/ LockAcquire(h)
       PROVE  RemovalInv'
  <2>1. /\ UNCHANGED <<pMutex, ret, live>>
        /\ \E place \in Pc \ {"destroy_free", "destroy_unlock"} :
               pc' = [pc EXCEPT ![h] = place]
    BY <1>10 DEF InitPspMutexs, HeapInitLock, HeapInitZero, HeapInitAddress,
       HeapInitNumber, HeapInitUnlock, CreateLock, CreateMark, CreateFree, DestroyLock,
       LockAcquire, Pc, InitPc, CreatePc, DestroyPc
  <2> QED
    BY <1>1, <2>1
<1>11. ASSUME NEW h \in Harts, CreateScan(h) \/ CreateCall(h) PROVE RemovalInv'
  <2>1. /\ live' = live /\ \A i \in Harts \ {h} : pMutex'[i] = pMutex[i] /\ ret'[i] = ret[i]
        /\ \E place \in Pc \ {"destroy_free", "destroy_unlock"} :
               pc' = [pc EXCEPT ![h] = place]
    BY <1>11, <1>types DEF CreateScan, CreateCall, Pc, InitPc, CreatePc, DestroyPc
  <2> QED
    BY <1>1, <2>1
<1>12. ASSUME NEW h \in Harts, NEW m \in Cb, DestroyCall(h, m) \/ LockCall(h, m)
       PROVE  RemovalInv'
  <2>1. /\ live' = live /\ \A i \in Harts \ {h} : pMutex'[i] = pMutex[i] /\ ret'[i] = ret[i]
        /\ \E place \in Pc \ {"destroy_free", "destroy_unlock"} :
               pc' = [pc EXCEPT ![h] = place]
    BY <1>12, <1>types DEF DestroyCall, LockCall, Pc, InitPc, CreatePc, DestroyPc
  <2> QED
    BY <1>1, <2>1
<1> HIDE DEF RemovalInv
<1> QED
  BY <1>2, <1>3, <1>4, <1>5, <1>6, <1>7, <1>8, <1>9, <1>10, <1>11, <1>12
     DEF Next, PspStep, AppStep
-------------------------------------------------------------------------------
\* The holder of a block, as a function of what each hart holds.
HolderOf(f, m) == IF \E h \in Harts : m \in f[h]
                  THEN CHOOSE h \in Harts : m \in f[h] ELSE NULL

LEMMA HolderIsUnique ==
  ASSUME NEW f, NEW m, \A h, i \in Harts : h # i => f[h] \cap f[i] = {}
  PROVE  /\ \A h \in Harts : m \in f[h] => HolderOf(f, m) = h
         /\ (\A h \in Harts : m \notin f[h]) => HolderOf(f, m) = NULL
BY DEF HolderOf

\* What a step does to the mutexes of MutexService: four steps do something.
LEMMA ServiceStep ==
  ASSUME Disciplined, IndInv, LockWordInv, RemovalInv, LockWordInv', [Next]_vars
  PROVE  [Service!Next]_<<live, [m \in Cb |-> Holder(m)]>>
<1> DEFINE own == [m \in Cb |-> Holder(m)]
           Goal == [Service!Next]_<<live, own>>
<1> USE HartsAssumption, HeapAssumption
<1>types. /\ held \in [Harts -> SUBSET Cb] /\ live \in [Cb -> Harts \cup {NULL}]
          /\ uiMutexState \in [Cb -> LockWord]
  BY DEF IndInv, TypeOK
<1>holder. /\ \A m \in Cb : own[m] = HolderOf(held, m) /\ own'[m] = HolderOf(held', m)
           /\ HoldersExclude /\ HoldersExclude'
  BY DEF Holder, HolderOf, LockWordInv
<1>now. \A m \in Cb : /\ \A h \in Harts : m \in held[h] => own[m] = h
                      /\ (\A h \in Harts : m \notin held[h]) => own[m] = NULL
  BY <1>holder, HolderIsUnique DEF HoldersExclude
<1>next. \A m \in Cb : /\ \A h \in Harts : m \in held'[h] => own'[m] = h
                       /\ (\A h \in Harts : m \notin held'[h]) => own'[m] = NULL
  BY <1>holder, HolderIsUnique DEF HoldersExclude
<1>kept. held' = held => own' = own
  BY DEF Holder
<1>1. ASSUME NEW h \in Harts, CreateUnlock(h) PROVE Goal
  <2>1. /\ pc[h] = "create_unlock" /\ held' = held
        /\ live' = IF ret[h] = NULL THEN live ELSE [live EXCEPT ![ret[h]] = h]
    BY <1>1 DEF CreateUnlock, Goto
  <2>2. CASE ret[h] = NULL
    BY <1>kept, <2>1, <2>2
  <2>3. CASE ret[h] # NULL
    <3>1. ret[h] \in Cb
      BY <2>1, <2>3 DEF IndInv, LocalsInv, CreatePc
    <3>2. live[ret[h]] = NULL
      BY <2>1, <3>1 DEF IndInv, StartUpInv, BlockInv, Zeroed, InitPc, Creating
    <3>3. Service!Create(h, ret[h])
      BY <1>kept, <2>1, <2>3, <3>2 DEF Service!Create
    <3> QED
      BY <3>1, <3>3 DEF Service!Next
  <2> QED
    BY <2>2, <2>3
<1>2. ASSUME NEW h \in Harts, DestroyUnlock(h) PROVE Goal
  <2>1. /\ pc[h] = "destroy_unlock" /\ held' = held
        /\ live' = IF ret[h] = NULL THEN [live EXCEPT ![pMutex[h]] = NULL] ELSE live
    BY <1>2 DEF DestroyUnlock, Goto
  <2>2. CASE ret[h] # NULL
    BY <1>kept, <2>1, <2>2
  <2>3. CASE ret[h] = NULL
    <3> DEFINE m == pMutex[h]
    <3>1. m \in Cb /\ Removing(h, m) /\ Destroying(h, m)
      BY <2>1, <2>3 DEF IndInv, LocalsInv, DestroyPc, Removing, Destroying
    <3>2. live[m] = h
      BY <3>1 DEF RemovalInv
    <3>3. \A i \in Harts : m \notin held[i]
      BY <3>1 DEF LockWordInv, Using
    <3>4. Service!Destroy(h, m)
      BY <1>kept, <1>now, <2>1, <2>3, <3>1, <3>2, <3>3 DEF Service!Destroy
    <3> QED
      BY <3>1, <3>4 DEF Service!Next
  <2> QED
    BY <2>2, <2>3
<1>3. ASSUME NEW h \in Harts, LockAcquire(h) PROVE Goal
  <2> DEFINE m == pMutex[h]
  <2>1. /\ pc[h] = "lock_spin" /\ uiMutexState[m] # D_PSP_MUTEX_LOCKED
        /\ held' = [held EXCEPT ![h] = @ \cup {m}] /\ live' = live
    BY <1>3 DEF LockAcquire, Goto, pspAtomicsEnterCriticalSection, D_PSP_MUTEX_LOCKED,
       D_PSP_MUTEX_UNLOCKED
  <2>2. m \in Cb /\ Using(h, m)
    BY <2>1 DEF IndInv, LocalsInv, Using
  <2>3. live[m] # NULL
    BY <2>2 DEF LockWordInv
  <2>4. Zeroed
    BY <2>1 DEF IndInv, StartUpInv, Zeroed, InitPc
  <2>5. \A i \in Harts : m \notin held[i]
    BY <2>1, <2>2, <2>4 DEF LockWordInv
  <2>6. own[m] = NULL /\ own'[m] = h
    BY <1>now, <1>next, <1>types, <2>1, <2>2, <2>5
  <2>7. \A n \in Cb \ {m} : own'[n] = own[n]
    <3>1. \A n \in Cb \ {m}, i \in Harts : n \in held'[i] <=> n \in held[i]
      BY <1>types, <2>1
    <3> QED
      BY <1>now, <1>next, <3>1
  <2>8. own' = [own EXCEPT ![m] = h]
    BY <2>2, <2>6, <2>7
  <2>9. Service!Lock(h, m)
    BY <2>1, <2>2, <2>3, <2>6, <2>8 DEF Service!Lock
  <2> QED
    BY <2>2, <2>9 DEF Service!Next
<1>4. ASSUME NEW h \in Harts, NEW m \in Cb, Unlock(h, m) PROVE Goal
  <2>1. /\ m \in held[h] /\ held' = [held EXCEPT ![h] = @ \ {m}] /\ live' = live
    BY <1>4 DEF Unlock
  <2>2. \A i \in Harts : m \notin held'[i]
    BY <1>holder, <1>types, <2>1 DEF HoldersExclude
  <2>3. own[m] = h /\ own'[m] = NULL
    BY <1>now, <1>next, <2>1, <2>2
  <2>4. \A n \in Cb \ {m} : own'[n] = own[n]
    <3>1. \A n \in Cb \ {m}, i \in Harts : n \in held'[i] <=> n \in held[i]
      BY <1>types, <2>1
    <3> QED
      BY <1>now, <1>next, <3>1
  <2>5. own' = [own EXCEPT ![m] = NULL]
    BY <2>3, <2>4
  <2>6. Service!Unlock(h, m)
    BY <2>1, <2>3, <2>5 DEF Service!Unlock
  <2> QED
    BY <2>6 DEF Service!Next
<1>5. ASSUME UNCHANGED <<held, live>> PROVE Goal
  BY <1>kept, <1>5
<1>6. ASSUME NEW h \in Harts,
             PspStep(h) \/ CreateCall(h)
                \/ \E m \in Cb : DestroyCall(h, m) \/ LockCall(h, m),
             ~CreateUnlock(h), ~DestroyUnlock(h), ~LockAcquire(h)
      PROVE  UNCHANGED <<held, live>>
  BY <1>6 DEF PspStep, InitPspMutexs, HeapInitLock, HeapInitZero, HeapInitAddress,
     HeapInitNumber, HeapInitUnlock, StartHarts, CreateLock, CreateScan, CreateMark,
     CreateFree, DestroyLock, DestroyCheck, DestroyMark, DestroyFree, CreateCall,
     DestroyCall, LockCall
<1> HIDE DEF Goal
<1>7. Goal
  BY <1>1, <1>2, <1>3, <1>4, <1>5, <1>6 DEF Next, AppStep, vars
<1> QED
  BY <1>7 DEF Goal

\* Used as psp_mutex_eh2.h asks, the blocks, lock words and internal mutex of
\* psp_mutex_eh2.c behave as MutexService: Create, Destroy, AtomicLock and
\* AtomicUnlock each take effect at one step.
THEOREM MutexesImplementTheService ==
  ASSUME Disciplined
  PROVE  Spec => ImplementsMutexService
<1>1. Init => RemovalInv
  BY HartsAssumption DEF Init, RemovalInv, Removing
<1>2. IndInv /\ LockWordInv /\ RemovalInv /\ [Next]_vars => RemovalInv'
  BY RemovalStep
<1>3. Init => Service!Init
  <2> SUFFICES ASSUME Init PROVE Service!Init
    OBVIOUS
  <2>1. \A m \in Cb : Holder(m) = NULL
    BY DEF Init, Holder
  <2> QED
    BY <2>1 DEF Init, Service!Init
<1>4. /\ IndInv /\ LockWordInv /\ RemovalInv /\ LockWordInv' /\ [Next]_vars
      => [Service!Next]_<<live, [m \in Cb |-> Holder(m)]>>
  BY ServiceStep
<1> QED
  BY <1>1, <1>2, <1>3, <1>4, DisciplinedInvariance, PTL
     DEF Spec, ImplementsMutexService, Service!Spec
-------------------------------------------------------------------------------
(***************************************************************************)
(* The demo.                                                               *)
(***************************************************************************)
\* Before the first step no hart has passed a sync point and nothing is counted.
LEMMA DemoInitInv == DemoInit => DemoInv
<1> SUFFICES ASSUME DemoInit PROVE DemoInv
  OBVIOUS
<1> USE HartsAssumption, DemoAssumption DEF DemoInit
<1>1. PlaceInv
  BY DEF PlaceInv, PlacesOf, Place, SyncPc
<1>2. SyncInv
  BY DEF SyncInv, Arrived, Past, SyncPc
<1>3. AccumulatedInv
  BY DEF AccumulatedInv, Added
<1>4. TimerInv
  BY DEF TimerInv
<1>5. EndInv
  BY DEF EndInv
<1> QED  BY <1>1, <1>2, <1>3, <1>4, <1>5 DEF DemoInv

\* A step of a hart's program leaves the places of the other hart alone, and its own
\* place follows the program.
LEMMA PlaceStep ==
    ASSUME DemoInv, [DemoNext]_allVars
    PROVE  PlaceInv'
<1> USE DEF DemoInv, PlaceInv, PlacesOf, Place, SyncPc, Move, AppRuns, NextPart, demoVars
<1>1. CASE UNCHANGED allVars
  BY <1>1 DEF allVars
<1>2. CASE Tick
  BY <1>2 DEF Tick
<1>3. ASSUME NEW h \in Harts, PspStepOf(h) PROVE PlaceInv'
  BY <1>3 DEF PspStepOf
<1>4. ASSUME NEW h \in Harts, IsrStepOf(h) PROVE PlaceInv'
  BY <1>4 DEF IsrStepOf, IsrStep, TimerTrap, IsrCount, IsrArm, IsrEnable
<1>5. ASSUME NEW h \in Harts, AppStepOf(h) PROVE PlaceInv'
  <2>1. CASE Start(h) \/ SyncRead(h) \/ SyncCas(h) \/ CasFails(h)
    BY <2>1 DEF Start, SyncRead, SyncCas, CasFails
  <2>2. CASE SyncWait(h)
    BY <2>2 DEF SyncWait, AfterSync
  <2>3. CASE AccumulateRead(h) \/ AccumulateCas(h)
    BY <2>3 DEF AccumulateRead, AccumulateCas
  <2>4. CASE Check(h) \/ Create(h) \/ Created(h)
    BY <2>4 DEF Check, Create, Created
  <2>5. CASE Lock(h) \/ Fill(h) \/ Copy(h) \/ UnlockArray(h)
    BY <2>5 DEF Lock, Fill, Copy, Turn, UnlockArray
  <2>6. CASE Verify(h) \/ Destroy(h) \/ Destroyed(h)
    BY <2>6 DEF Verify, Destroy, Destroyed
  <2>7. CASE TimerReset(h) \/ TimerArm(h) \/ TimerEnable(h) \/ TimerWait(h) \/ Exit(h) \/ End(h)
    BY <2>7 DEF TimerReset, TimerArm, TimerEnable, TimerWait, Exit, End
  <2> QED  BY <1>5, <2>1, <2>2, <2>3, <2>4, <2>5, <2>6, <2>7 DEF AppStepOf
<1> QED  BY <1>1, <1>2, <1>3, <1>4, <1>5 DEF DemoNext

\* A sync point counts the harts that have come to it: the compare-and-set adds to
\* what it has compared with.  A hart goes on when it has read two.
LEMMA SyncStep ==
    ASSUME DemoInv, PlaceInv', [DemoNext]_allVars
    PROVE  SyncInv'
<1> USE HartsAssumption
    DEF DemoInv, PlaceInv, PlacesOf, SyncPc, SyncInv, Arrived, Past, Move, AppRuns, NextPart,
        demoVars, casVars
<1>1. CASE UNCHANGED allVars
  BY <1>1 DEF allVars
<1>2. CASE Tick
  BY <1>2 DEF Tick
<1>3. ASSUME NEW h \in Harts, PspStepOf(h) PROVE SyncInv'
  BY <1>3 DEF PspStepOf
<1>4. ASSUME NEW h \in Harts, IsrStepOf(h) PROVE SyncInv'
  BY <1>4 DEF IsrStepOf, IsrStep, TimerTrap, IsrCount, IsrArm, IsrEnable
<1>5. ASSUME NEW h \in Harts, AppStepOf(h) PROVE SyncInv'
  <2>1. CASE Start(h) \/ SyncRead(h) \/ CasFails(h)
    BY <2>1 DEF Start, SyncRead, CasFails
  <2>0. CASE SyncCas(h)
    <3>1. /\ part' = part /\ at' = [at EXCEPT ![h] = "sync_wait"] /\ at[h] = "sync_cas"
          /\ part[h] \in 0 .. 3
          /\ syncPoints' = [syncPoints EXCEPT ![part[h]] = @ + 1]
          /\ uiCommonParameter' \in [Harts -> Nat]
      BY <2>0 DEF SyncCas
    <3>2. Arrived(h, part[h]) = 0 /\ Arrived(h, part[h])' = 1
      BY <3>1
    <3>3. \A i \in {0, 1} : \A n \in 0 .. 3 :
              i # h \/ n # part[h] => Arrived(i, n)' = Arrived(i, n)
      BY <3>1
    <3>4. \A i \in {0, 1} : \A n \in 0 .. 3 : Arrived(i, n) \in Nat
      OBVIOUS
    <3>5. \A n \in 0 .. 3 : syncPoints'[n] = Arrived(0, n)' + Arrived(1, n)'
      <4> TAKE n \in 0 .. 3
      <4>1. CASE n # part[h]
        BY <3>1, <3>3, <4>1
      <4>2. CASE n = part[h] /\ h = 0
        BY <3>1, <3>2, <3>3, <3>4, <4>2
      <4>3. CASE n = part[h] /\ h = 1
        BY <3>1, <3>2, <3>3, <3>4, <4>3
      <4> QED  BY <4>1, <4>2, <4>3
    <3>6. \A n \in 0 .. 3 : \A i \in Harts :
              Past(i, n, SyncPc \cup {"start"})' => syncPoints'[n] >= 2
      BY <3>1
    <3> QED  BY <3>1, <3>5, <3>6
  <2>2. CASE SyncWait(h)
    BY <2>2 DEF SyncWait, AfterSync
  <2>3. CASE AccumulateRead(h) \/ AccumulateCas(h)
    BY <2>3 DEF AccumulateRead, AccumulateCas, AccumulatedInv
  <2>4. CASE Check(h) \/ Create(h) \/ Created(h)
    BY <2>4 DEF Check, Create, Created
  <2>5. CASE Lock(h) \/ Fill(h) \/ Copy(h) \/ UnlockArray(h)
    BY <2>5 DEF Lock, Fill, Copy, Turn, UnlockArray
  <2>6. CASE Verify(h) \/ Destroy(h) \/ Destroyed(h)
    BY <2>6 DEF Verify, Destroy, Destroyed
  <2>7. CASE TimerReset(h) \/ TimerArm(h) \/ TimerEnable(h) \/ TimerWait(h) \/ Exit(h) \/ End(h)
    BY <2>7 DEF TimerReset, TimerArm, TimerEnable, TimerWait, Exit, End
  <2> QED  BY <1>5, <2>0, <2>1, <2>2, <2>3, <2>4, <2>5, <2>6, <2>7 DEF AppStepOf
<1> QED  BY <1>1, <1>2, <1>3, <1>4, <1>5 DEF DemoNext

\* A number below the modulus is its own remainder (the order of the copies of the array).
LEMMA RemainderOfSmall ==
    ASSUME NEW n \in Nat \ {0}, NEW x \in Nat
    PROVE  x % n \in Nat /\ (x < n => x % n = x)
BY SMT

\* The number is what both harts have added: the compare-and-set adds to what it has
\* compared with, so that an increment of the other hart in between makes it fail.
LEMMA AccumulatedStep ==
    ASSUME DemoInv, PlaceInv', [DemoNext]_allVars
    PROVE  AccumulatedInv'
<1> USE HartsAssumption, DemoAssumption
    DEF DemoInv, PlaceInv, PlacesOf, SyncPc, AccumulatedInv, Added, Move, AppRuns, NextPart,
        demoVars, casVars
<1>1. CASE UNCHANGED allVars
  BY <1>1 DEF allVars
<1>2. CASE Tick
  BY <1>2 DEF Tick
<1>3. ASSUME NEW h \in Harts, PspStepOf(h) PROVE AccumulatedInv'
  BY <1>3 DEF PspStepOf
<1>4. ASSUME NEW h \in Harts, IsrStepOf(h) PROVE AccumulatedInv'
  BY <1>4 DEF IsrStepOf, IsrStep, TimerTrap, IsrCount, IsrArm, IsrEnable
<1>5. ASSUME NEW h \in Harts, AppStepOf(h) PROVE AccumulatedInv'
  <2>1. CASE Start(h) \/ SyncRead(h) \/ SyncCas(h) \/ CasFails(h)
    BY <2>1 DEF Start, SyncRead, SyncCas, CasFails
  <2>2. CASE SyncWait(h)
    BY <2>2 DEF SyncWait, AfterSync
  <2>3. CASE AccumulateRead(h)
    BY <2>3 DEF AccumulateRead
  <2>8. CASE AccumulateCas(h)
    <3>1. part[h] = 0 /\ uiIterator[h] < Iterations /\ uiIterator[h] + 1 \in Nat
      BY <2>8 DEF AccumulateCas
    <3>2. /\ (uiIterator[h] + 1) % Iterations \in Nat
          /\ uiIterator[h] + 1 < Iterations =>
                 (uiIterator[h] + 1) % Iterations = uiIterator[h] + 1
      BY <3>1, RemainderOfSmall
    <3>3. CASE uiIterator[h] + 1 < Iterations
      BY <2>8, <3>1, <3>2, <3>3 DEF AccumulateCas
    <3>4. CASE ~(uiIterator[h] + 1 < Iterations)
      BY <2>8, <3>1, <3>2, <3>4 DEF AccumulateCas
    <3> QED  BY <3>3, <3>4
  <2>4. CASE Check(h) \/ Create(h) \/ Created(h)
    BY <2>4 DEF Check, Create, Created
  <2>5. CASE Lock(h) \/ Fill(h) \/ Copy(h) \/ UnlockArray(h)
    <3>1. CASE Lock(h) \/ UnlockArray(h)
      BY <3>1 DEF Lock, UnlockArray
    <3>2. CASE Fill(h) \/ Copy(h)
      <4>1. /\ part[h] = 2 /\ UNCHANGED <<part, accumulated>>
            /\ at' = [at EXCEPT ![h] = at'[h]]
            /\ uiIterator' = [uiIterator EXCEPT ![h] = (@ + 1) % ArraySize]
        BY <3>2 DEF Fill, Copy, Turn
      <4>2. (uiIterator[h] + 1) % ArraySize \in Nat
        BY RemainderOfSmall
      <4> QED  BY <4>1, <4>2
    <3> QED  BY <2>5, <3>1, <3>2
  <2>6. CASE Verify(h) \/ Destroy(h) \/ Destroyed(h)
    BY <2>6 DEF Verify, Destroy, Destroyed
  <2>7. CASE TimerReset(h) \/ TimerArm(h) \/ TimerEnable(h) \/ TimerWait(h) \/ Exit(h) \/ End(h)
    BY <2>7 DEF TimerReset, TimerArm, TimerEnable, TimerWait, Exit, End
  <2> QED  BY <1>5, <2>1, <2>2, <2>3, <2>4, <2>5, <2>6, <2>7, <2>8 DEF AppStepOf
<1> QED  BY <1>1, <1>2, <1>3, <1>4, <1>5 DEF DemoNext

\* An interrupt comes only to a hart that waits for its interrupts: they are enabled
\* when the wait begins, and the last one leaves them disabled.
LEMMA TimerStep ==
    ASSUME DemoInv, PlaceInv', [DemoNext]_allVars
    PROVE  TimerInv'
<1> USE DemoAssumption
    DEF DemoInv, PlaceInv, PlacesOf, SyncPc, TimerInv, Counting, Move, AppRuns, NextPart,
        demoVars, timerVars
<1>1. CASE UNCHANGED allVars
  BY <1>1 DEF allVars
<1>2. CASE Tick
  BY <1>2 DEF Tick
<1>3. ASSUME NEW h \in Harts, PspStepOf(h) PROVE TimerInv'
  BY <1>3 DEF PspStepOf
<1>4. ASSUME NEW h \in Harts, IsrStepOf(h) PROVE TimerInv'
  <2>1. CASE TimerTrap(h)
    BY <2>1 DEF TimerTrap, IsrStep
  <2>2. CASE IsrCount(h)
    BY <2>2 DEF IsrCount, IsrStep
  <2>3. CASE IsrArm(h)
    BY <2>3 DEF IsrArm, IsrStep
  <2>4. CASE IsrEnable(h)
    <3>1. /\ UNCHANGED <<at, g_uiNumberOfTimerInterrupts>>
          /\ at[h] = "timer_wait" /\ g_uiNumberOfTimerInterrupts[h] < TimerInterrupts[h]
          /\ isr' = [isr EXCEPT ![h] = "none"] /\ mtie' = [mtie EXCEPT ![h] = TRUE]
      BY <2>4 DEF IsrEnable, IsrStep
    <3>2. \A i \in Harts : mtie'[i] => i = h \/ mtie[i]
      BY <3>1
    <3> QED  BY <3>1, <3>2
  <2> QED  BY <1>4, <2>1, <2>2, <2>3, <2>4 DEF IsrStepOf
<1>5. ASSUME NEW h \in Harts, AppStepOf(h) PROVE TimerInv'
  <2>1. CASE Start(h) \/ SyncRead(h) \/ SyncCas(h) \/ CasFails(h)
    BY <2>1 DEF Start, SyncRead, SyncCas, CasFails
  <2>2. CASE SyncWait(h)
    BY <2>2 DEF SyncWait, AfterSync
  <2>3. CASE AccumulateRead(h) \/ AccumulateCas(h)
    BY <2>3 DEF AccumulateRead, AccumulateCas
  <2>4. CASE Check(h) \/ Create(h) \/ Created(h)
    BY <2>4 DEF Check, Create, Created
  <2>5. CASE Lock(h) \/ Fill(h) \/ Copy(h) \/ UnlockArray(h)
    BY <2>5 DEF Lock, Fill, Copy, Turn, UnlockArray
  <2>6. CASE Verify(h) \/ Destroy(h) \/ Destroyed(h)
    BY <2>6 DEF Verify, Destroy, Destroyed
  <2>7. CASE TimerReset(h)
    BY <2>7 DEF TimerReset
  <2>10. CASE TimerArm(h)
    BY <2>10 DEF TimerArm
  <2>8. CASE TimerEnable(h)
    BY <2>8 DEF TimerEnable
  <2>11. CASE TimerWait(h)
    BY <2>11 DEF TimerWait
  <2>9. CASE Exit(h) \/ End(h)
    BY <2>9 DEF Exit, End
  <2> QED  BY <1>5, <2>1, <2>2, <2>3, <2>4, <2>5, <2>6, <2>7, <2>8, <2>9, <2>10, <2>11 DEF AppStepOf
<1> QED  BY <1>1, <1>2, <1>3, <1>4, <1>5 DEF DemoNext

\* A hart that prints finds the other's count equal to its own, which is 0: the other
\* is past the first sync point, as this one is, so it has left the demo.
LEMMA EndStep ==
    ASSUME DemoInv, PlaceInv', [DemoNext]_allVars
    PROVE  EndInv'
<1> USE HartsAssumption, DemoAssumption
    DEF DemoInv, PlaceInv, PlacesOf, SyncPc, EndInv, Move, AppRuns, NextPart, demoVars, endVars
<1>1. CASE UNCHANGED allVars
  BY <1>1 DEF allVars
<1>2. CASE Tick
  BY <1>2 DEF Tick
<1>3. ASSUME NEW h \in Harts, PspStepOf(h) PROVE EndInv'
  BY <1>3 DEF PspStepOf
<1>4. ASSUME NEW h \in Harts, IsrStepOf(h) PROVE EndInv'
  BY <1>4 DEF IsrStepOf, IsrStep, TimerTrap, IsrCount, IsrArm, IsrEnable
<1>5. ASSUME NEW h \in Harts, AppStepOf(h) PROVE EndInv'
  <2>1. CASE Start(h) \/ SyncRead(h) \/ SyncCas(h) \/ CasFails(h)
    BY <2>1 DEF Start, SyncRead, SyncCas, CasFails
  <2>2. CASE SyncWait(h)
    BY <2>2 DEF SyncWait, AfterSync
  <2>3. CASE AccumulateRead(h) \/ AccumulateCas(h)
    BY <2>3 DEF AccumulateRead, AccumulateCas
  <2>4. CASE Check(h) \/ Create(h) \/ Created(h)
    BY <2>4 DEF Check, Create, Created
  <2>5. CASE Lock(h) \/ Fill(h) \/ Copy(h) \/ UnlockArray(h)
    BY <2>5 DEF Lock, Fill, Copy, Turn, UnlockArray
  <2>6. CASE Verify(h) \/ Destroy(h) \/ Destroyed(h)
    BY <2>6 DEF Verify, Destroy, Destroyed
  <2>7. CASE TimerReset(h) \/ TimerArm(h) \/ TimerEnable(h) \/ TimerWait(h)
    BY <2>7 DEF TimerReset, TimerArm, TimerEnable, TimerWait
  <2>8. CASE Exit(h)
    BY <2>8 DEF Exit
  <2>9. CASE End(h)
    <3>1. at[h] = "end" /\ part[h] = 4 /\ syncPoints[0] >= 2
      BY <2>9 DEF End, SyncInv, Past
    <3>2. \A i \in Harts : at[i] # "start"
      BY <3>1 DEF SyncInv, Arrived, Past
    <3> QED  BY <2>9, <3>1, <3>2 DEF End
  <2> QED  BY <1>5, <2>1, <2>2, <2>3, <2>4, <2>5, <2>6, <2>7, <2>8, <2>9 DEF AppStepOf
<1> QED  BY <1>1, <1>2, <1>3, <1>4, <1>5 DEF DemoNext
-------------------------------------------------------------------------------
\* Every state of the demo satisfies the invariant.
LEMMA DemoInductive == DemoSpec => []DemoInv
<1>1. DemoInit => DemoInv
  BY DemoInitInv
<1>2. DemoInv /\ [DemoNext]_allVars => DemoInv'
  <2> SUFFICES ASSUME DemoInv, [DemoNext]_allVars PROVE DemoInv'
    OBVIOUS
  <2>1. PlaceInv'
    BY PlaceStep
  <2> QED  BY <2>1, SyncStep, AccumulatedStep, TimerStep, EndStep DEF DemoInv
<1> QED  BY <1>1, <1>2, PTL DEF DemoSpec

\* Both harts have come to a sync point before either is past it, and the end is
\* printed only when both have counted all their interrupts, in every run of the
\* demo (the compare-and-set loops of its sync points).
THEOREM SyncPointsHold == DemoSpec => []SyncPointsAreBarriers
<1>1. DemoInv => SyncPointsAreBarriers
  <2> SUFFICES ASSUME DemoInv PROVE SyncPointsAreBarriers
    OBVIOUS
  <2>1. ASSUME NEW h \in Harts, NEW i \in Harts, NEW n \in 0 .. 3,
               Past(h, n, SyncPc \cup {"start"})
        PROVE  Past(i, n, {"start", "sync_read", "sync_cas"})
    BY <2>1, HartsAssumption DEF DemoInv, SyncInv, Arrived
  <2>2. ASSUME ended # {}, NEW h \in Harts
        PROVE  /\ at[h] \in {"end", "done"}
               /\ g_uiNumberOfTimerInterrupts[h] = TimerInterrupts[h]
    BY <2>2 DEF DemoInv, EndInv, TimerInv
  <2> QED  BY <2>1, <2>2 DEF SyncPointsAreBarriers
<1> QED  BY <1>1, DemoInductive, PTL

\* The accumulated number is exact once a hart is past sync point 1, in every
\* interleaving of the two loops of compare-and-set and for every number of turns
\* (demoMultiHartsCasInSharedMemory).
THEOREM AccumulationIsExact == DemoSpec => []NoIncrementIsLost
<1>1. DemoInv => NoIncrementIsLost
  <2> SUFFICES ASSUME DemoInv, NEW h \in Harts, Past(h, 1, SyncPc)
               PROVE  accumulated = 2 * Iterations
    BY DEF NoIncrementIsLost
  <2>1. at[h] # "start" \/ part[h] > 1
    BY DEF DemoInv, PlaceInv, PlacesOf, SyncPc, Past
  <2>2. syncPoints[1] >= 2
    BY <2>1 DEF DemoInv, SyncInv, Past
  <2>3. Arrived(0, 1) = 1 /\ Arrived(1, 1) = 1
    BY <2>2 DEF DemoInv, SyncInv, Arrived
  <2>4. Added(0) = Iterations /\ Added(1) = Iterations
    BY <2>3 DEF DemoInv, PlaceInv, Arrived, Added, Past
  <2> QED  BY <2>4, DemoAssumption DEF DemoInv, AccumulatedInv
<1> QED  BY <1>1, DemoInductive, PTL
===============================================================================
