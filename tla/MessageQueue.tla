----------------------------- MODULE MessageQueue -----------------------------
(***************************************************************************)
(* What a message queue of rtosal promises, without ring buffer, lock      *)
(* counts, event lists or a scheduler: items leave it in the order in      *)
(* which they stand, each once, as the receiver gets them; an item joins   *)
(* at the back or at the front, and never more than Length are inside.     *)
(* RtosalQueue implements it.                                              *)
(***************************************************************************)
EXTENDS Naturals, Sequences

CONSTANTS Items, Length

VARIABLES
    queue,      \* the items, the first to leave first
    transfer    \* what the last step gave or took, <<>> if nothing

Init == queue = <<>> /\ transfer = <<>>

Send(item) ==
    /\ Len(queue) < Length
    /\ queue' = Append(queue, item)
    /\ transfer' = <<"send", item>>

SendToFront(item) ==
    /\ Len(queue) < Length
    /\ queue' = <<item>> \o queue
    /\ transfer' = <<"send", item>>

Receive ==
    /\ queue # <<>>
    /\ queue' = Tail(queue)
    /\ transfer' = <<"receive", Head(queue)>>

\* A step that gives and takes nothing.
Other == queue' = queue /\ transfer' = <<>>

Next == Other \/ Receive \/ \E item \in Items : Send(item) \/ SendToFront(item)

Spec == Init /\ [][Next]_<<queue, transfer>>
===============================================================================
