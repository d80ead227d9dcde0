--------------------------- MODULE PspInternalMutex ---------------------------
(***************************************************************************)
(* The PSP-internal mutexes of SweRV EH2 (psp_internal_mutex_eh2.c) and    *)
(* the spin lock they are made of (psp_atomics_eh2.c).  Every multi-hart   *)
(* PSP service that changes shared state does so between a Lock and an     *)
(* Unlock of one of these five words; the modules of those services extend *)
(* this one and use its operators as the steps of their calls.             *)
(*                                                                         *)
(* A lock word holds D_PSP_MUTEX_UNLOCKED (0) or a value that is not 0;    *)
(* the model keeps 1 for all of them, which is what a locker stores.       *)
(***************************************************************************)
EXTENDS Naturals

D_PSP_MUTEX_UNLOCKED == 0
D_PSP_MUTEX_LOCKED   == 1
LockWord == {D_PSP_MUTEX_UNLOCKED, D_PSP_MUTEX_LOCKED}

\* ePspInternalMutex_t
E_MUTEX_INTERNAL_FOR_MUTEX_HEAP_MNG    == 0
E_MUTEX_INTERNAL_FOR_EXT_INTERRUPTS    == 1
E_MUTEX_INTERNAL_FOR_CORR_ERR_COUNTERS == 2
E_MUTEX_INTERNAL_FOR_NMI_DELEGATION    == 3
E_MUTEX_INTERNAL_FOR_MEMORY_CONTROL    == 4
InternalMutexes == 0 .. 4

VARIABLE g_uiInternalPspMutex   \* the array of lock words

\* The array lies in a section nobody clears before pspInternalMutexInit.
InternalMutexesAtReset == g_uiInternalPspMutex \in [InternalMutexes -> LockWord]

\* The amoswap loop on lock word n of an array of them: the step is the swap
\* that reads 0 and stores 1.  A swap that reads 1 stores 1 over it, so
\* spinning changes nothing and is a stuttering step.
pspAtomicsEnterCriticalSection(words, n) ==
    /\ words[n] = D_PSP_MUTEX_UNLOCKED
    /\ words' = [words EXCEPT ![n] = D_PSP_MUTEX_LOCKED]

\* The store of 0 asks nothing: neither who holds the lock nor whether any does.
pspAtomicsExitCriticalSection(words, n) ==
    words' = [words EXCEPT ![n] = D_PSP_MUTEX_UNLOCKED]

pspInternalMutexInit ==
    g_uiInternalPspMutex' = [n \in InternalMutexes |-> D_PSP_MUTEX_UNLOCKED]

pspInternalMutexLock(n) ==
    pspAtomicsEnterCriticalSection(g_uiInternalPspMutex, n)

pspInternalMutexUnlock(n) ==
    pspAtomicsExitCriticalSection(g_uiInternalPspMutex, n)
===============================================================================
