----------------------------- MODULE MutexService -----------------------------
(***************************************************************************)
(* What the application-mutex API of PSP promises, without lock words,     *)
(* control blocks or an internal mutex: a pool of mutexes, each created by *)
(* one hart, destroyed by that hart only and only when nobody holds it,    *)
(* and held by at most one hart at a time.  PspMutex implements it.        *)
(***************************************************************************)
CONSTANTS Harts, Mutexes, Nobody

VARIABLES
    creator,   \* [mutex -> the hart that created it, Nobody if it is free]
    owner      \* [mutex -> the hart that holds it, or Nobody]

Init ==
    /\ creator = [m \in Mutexes |-> Nobody]
    /\ owner = [m \in Mutexes |-> Nobody]

Create(h, m) ==
    /\ creator[m] = Nobody
    /\ creator' = [creator EXCEPT ![m] = h]
    /\ UNCHANGED owner

Destroy(h, m) ==
    /\ creator[m] = h
    /\ owner[m] = Nobody
    /\ creator' = [creator EXCEPT ![m] = Nobody]
    /\ UNCHANGED owner

Lock(h, m) ==
    /\ creator[m] # Nobody
    /\ owner[m] = Nobody
    /\ owner' = [owner EXCEPT ![m] = h]
    /\ UNCHANGED creator

Unlock(h, m) ==
    /\ owner[m] = h
    /\ owner' = [owner EXCEPT ![m] = Nobody]
    /\ UNCHANGED creator

Next == \E h \in Harts, m \in Mutexes :
            Create(h, m) \/ Destroy(h, m) \/ Lock(h, m) \/ Unlock(h, m)

Spec == Init /\ [][Next]_<<creator, owner>>
===============================================================================
