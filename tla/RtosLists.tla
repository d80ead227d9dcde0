------------------------------- MODULE RtosLists -------------------------------
(***************************************************************************)
(* The kernel's lists (list.c, list.h) as sequences of the items they      *)
(* link, what goes out of one, and the turn of the index of a ring.        *)
(***************************************************************************)
EXTENDS Integers, Sequences

\* uxListRemove of every item of `gone` that is in the list: the others keep their order.
Drop(s, gone) ==
    LET kept[i \in 0 .. Len(s)] ==
            IF i = 0 THEN <<>>
            ELSE IF s[i] \in gone THEN kept[i - 1] ELSE Append(kept[i - 1], s[i])
    IN  kept[Len(s)]

Without(s, t) == Drop(s, {t})

\* listGET_OWNER_OF_NEXT_ENTRY: the index of a ring, here the front, moves on by one item.
Turn(r) == Append(Tail(r), Head(r))

\* What is in a list, and that nothing is in it twice.
Members(s)  == {s[i] : i \in DOMAIN s}
Distinct(s) == \A i, j \in DOMAIN s : s[i] = s[j] => i = j

\* The items of a list stand in descending order of what f gives them.
SortedBy(s, f) == \A i, n \in DOMAIN s : i < n => f[s[i]] >= f[s[n]]
===============================================================================
