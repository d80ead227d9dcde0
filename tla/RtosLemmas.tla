------------------------------ MODULE RtosLemmas -------------------------------
(***************************************************************************)
(* Lemmas on which the proofs about the objects of rtosal rest: what the   *)
(* operators on the kernel's lists do to their members, and what the       *)
(* differences of unsigned tick counts are.                                *)
(*                                                                         *)
(* Drop is defined by recursion over a list.  What it computes takes an    *)
(* induction over the natural numbers, here as a theorem about sets of     *)
(* numbers: it follows from the well-founded order of finite sets.         *)
(***************************************************************************)
EXTENDS RtosLists, SequencesExt, FiniteSetTheorems, SequenceTheorems, TLAPS

\* A set of numbers has a least one.
LEMMA LeastNumber ==
    ASSUME NEW T \in SUBSET Nat, T # {}
    PROVE  \E x \in T : \A y \in T : x <= y
<1> DEFINE I == {0 .. n : n \in T}
<1>1. I \in SUBSET FiniteSubsetsOf(Nat) /\ I # {}
  <2>1. \A n \in T : (0 .. n) \in SUBSET Nat /\ IsFiniteSet(0 .. n)
    BY FS_Interval
  <2> QED
    BY <2>1 DEF FiniteSubsetsOf
<1>2. PICK X \in I : \A Y \in I : <<Y, X>> \notin StrictSubsetOrdering(Nat)
  <2> HIDE DEF I
  <2> QED
    BY <1>1, WFMin, FS_StrictSubsetOrderingWellFounded
<1>3. PICK x \in T : X = 0 .. x
  BY <1>2
<1>4. ASSUME NEW y \in T, ~(x <= y) PROVE FALSE
  <2>1. (0 .. y) \in I /\ (0 .. y) \subseteq X /\ (0 .. y) # X
    BY <1>3, <1>4
  <2>2. (0 .. y) \in SUBSET Nat /\ X \in SUBSET Nat
    BY <1>3
  <2>3. <<0 .. y, X>> \in StrictSubsetOrdering(Nat)
    BY <2>1, <2>2 DEF StrictSubsetOrdering
  <2> QED
    BY <1>2, <2>1, <2>3
<1> QED
  BY <1>4

\* Induction: a set that holds 0 and every successor of its numbers holds them all.
LEMMA Induction ==
    ASSUME NEW S, 0 \in S, \A n \in Nat : n \in S => n + 1 \in S
    PROVE  Nat \subseteq S
<1> SUFFICES ASSUME NEW k \in Nat, k \notin S PROVE FALSE
  OBVIOUS
<1> DEFINE T == {n \in Nat : n \notin S}
<1>1. PICK x \in T : \A y \in T : x <= y
  <2> T \in SUBSET Nat /\ T # {}
    OBVIOUS
  <2> HIDE DEF T
  <2> QED
    BY LeastNumber
<1>2. x # 0 /\ x - 1 \in Nat /\ x - 1 \notin T
  BY <1>1
<1> QED
  BY <1>1, <1>2
-------------------------------------------------------------------------------
\* Drop.

\* f[i] is what Drop has kept of the first i items.
IsKept(f, s, gone, n) ==
    f = [i \in 0 .. n |->
            IF i = 0 THEN <<>>
            ELSE IF s[i] \in gone THEN f[i - 1] ELSE Append(f[i - 1], s[i])]

LEMMA KeptExists ==
    ASSUME NEW s, NEW gone, NEW n \in Nat
    PROVE  \E f : IsKept(f, s, gone, n)
<1> DEFINE P == {m \in Nat : \E f : IsKept(f, s, gone, m)}
<1>1. 0 \in P
  <2>1. IsKept([i \in 0 .. 0 |-> <<>>], s, gone, 0)
    BY DEF IsKept
  <2> QED
    BY <2>1
<1>2. ASSUME NEW m \in Nat, m \in P PROVE m + 1 \in P
  <2>1. PICK f : IsKept(f, s, gone, m)
    BY <1>2
  <2> DEFINE g == [i \in 0 .. m + 1 |->
                      IF i <= m THEN f[i]
                      ELSE IF s[i] \in gone THEN f[m] ELSE Append(f[m], s[i])]
  <2>2. \A i \in 0 .. m :
           f[i] = IF i = 0 THEN <<>>
                  ELSE IF s[i] \in gone THEN f[i - 1] ELSE Append(f[i - 1], s[i])
    BY <2>1 DEF IsKept
  <2>3. ASSUME NEW i \in 0 .. m + 1
        PROVE  g[i] = IF i = 0 THEN <<>>
                      ELSE IF s[i] \in gone THEN g[i - 1] ELSE Append(g[i - 1], s[i])
    BY <2>2
  <2>4. IsKept(g, s, gone, m + 1)
    BY <2>3 DEF IsKept
  <2> QED
    BY <2>4
<1> HIDE DEF P
<1>3. Nat \subseteq P
  BY <1>1, <1>2, Induction
<1> QED
  BY <1>3 DEF P

LEMMA DropIsKept ==
    ASSUME NEW s, NEW gone, Len(s) \in Nat
    PROVE  \E f : IsKept(f, s, gone, Len(s)) /\ Drop(s, gone) = f[Len(s)]
<1> DEFINE k == CHOOSE f : IsKept(f, s, gone, Len(s))
<1>1. IsKept(k, s, gone, Len(s))
  BY KeptExists
<1>2. Drop(s, gone) = k[Len(s)]
  BY DEF Drop, IsKept
<1> QED
  BY <1>1, <1>2

\* What Drop leaves is a list of the other members, each as often as before at most.
LEMMA DropProperties ==
    ASSUME NEW U, NEW s \in Seq(U), NEW gone
    PROVE  /\ Drop(s, gone) \in Seq(U)
           /\ Members(Drop(s, gone)) = Members(s) \ gone
           /\ Distinct(s) => Distinct(Drop(s, gone))
<1>1. PICK f : IsKept(f, s, gone, Len(s)) /\ Drop(s, gone) = f[Len(s)]
  BY DropIsKept
<1>2. \A i \in 0 .. Len(s) :
         f[i] = IF i = 0 THEN <<>>
                ELSE IF s[i] \in gone THEN f[i - 1] ELSE Append(f[i - 1], s[i])
  BY <1>1 DEF IsKept
<1> DEFINE First(n) == {s[i] : i \in 1 .. n}
           P == {n \in Nat : n <= Len(s) =>
                    /\ f[n] \in Seq(U)
                    /\ Members(f[n]) = First(n) \ gone
                    /\ Distinct(s) => Distinct(f[n])}
<1>3. 0 \in P
  <2>1. f[0] = <<>>
    BY <1>2
  <2>2. Members(<<>>) = {} /\ Distinct(<<>>) /\ First(0) = {} /\ <<>> \in Seq(U)
    BY DEF Members, Distinct
  <2> HIDE DEF First
  <2> QED
    BY <2>1, <2>2
<1>4. ASSUME NEW n \in Nat, n \in P PROVE n + 1 \in P
  <2> SUFFICES ASSUME n + 1 <= Len(s)
               PROVE  /\ f[n + 1] \in Seq(U)
                      /\ Members(f[n + 1]) = First(n + 1) \ gone
                      /\ Distinct(s) => Distinct(f[n + 1])
    OBVIOUS
  <2>1. /\ f[n] \in Seq(U)
        /\ Members(f[n]) = First(n) \ gone
        /\ Distinct(s) => Distinct(f[n])
    BY <1>4
  <2>2. First(n + 1) = First(n) \cup {s[n + 1]} /\ s[n + 1] \in U
    BY <2>1
  <2>3. f[n + 1] = IF s[n + 1] \in gone THEN f[n] ELSE Append(f[n], s[n + 1])
    BY <1>2
  <2>4. CASE s[n + 1] \in gone
    <3> HIDE DEF First
    <3> QED
      BY <2>1, <2>2, <2>3, <2>4
  <2>5. CASE s[n + 1] \notin gone
    <3> DEFINE g == f[n]
               a == Append(g, s[n + 1])
    <3>1. /\ a \in Seq(U) /\ Len(a) = Len(g) + 1 /\ Len(g) \in Nat
          /\ \A i \in 1 .. Len(g) : a[i] = g[i]
          /\ a[Len(g) + 1] = s[n + 1]
      BY <2>1, <2>2, AppendProperties, LenProperties
    <3>2. Members(a) = Members(g) \cup {s[n + 1]}
      <4> HIDE DEF a, g
      <4>1. DOMAIN a = 1 .. Len(a) /\ DOMAIN g = 1 .. Len(g)
        BY <3>1, <2>1 DEF g
      <4> QED
        BY <3>1, <4>1 DEF Members
    <3>3. ASSUME Distinct(s) PROVE Distinct(a)
      <4>1. s[n + 1] \notin Members(g)
        BY SMTT(30), <3>3, <2>1 DEF Distinct, Members
      <4> HIDE DEF a, g
      <4>2. DOMAIN a = 1 .. Len(a) /\ DOMAIN g = 1 .. Len(g)
        BY <3>1, <2>1 DEF g
      <4>3. Distinct(g)
        BY <3>3, <2>1 DEF g
      <4> QED
        BY <3>1, <4>1, <4>2, <4>3 DEF Distinct, Members
    <3> HIDE DEF First, a
    <3> QED
      BY <2>1, <2>2, <2>3, <2>5, <3>1, <3>2, <3>3 DEF a
  <2> QED
    BY <2>4, <2>5
<1>5. Len(s) \in P
  <2> HIDE DEF P
  <2>1. Nat \subseteq P
    BY <1>3, <1>4, Induction
  <2> QED
    BY <2>1
<1>6. First(Len(s)) = Members(s)
  BY DEF Members
<1> QED
  BY <1>1, <1>5, <1>6
\* What Drop leaves is in the order in which it was.
LEMMA DropKeepsOrder ==
    ASSUME NEW U, NEW s \in Seq(U), NEW gone
    PROVE  \A i, j \in DOMAIN Drop(s, gone) : i < j =>
              \E a, b \in DOMAIN s :
                 a < b /\ Drop(s, gone)[i] = s[a] /\ Drop(s, gone)[j] = s[b]
<1>1. PICK f : IsKept(f, s, gone, Len(s)) /\ Drop(s, gone) = f[Len(s)]
  BY DropIsKept
<1>2. \A i \in 0 .. Len(s) :
         f[i] = IF i = 0 THEN <<>>
                ELSE IF s[i] \in gone THEN f[i - 1] ELSE Append(f[i - 1], s[i])
  BY <1>1 DEF IsKept
<1> DEFINE Ordered(r, n) ==
               /\ r \in Seq(U)
               /\ \A i \in 1 .. Len(r) : \E a \in 1 .. n : r[i] = s[a]
               /\ \A i, j \in 1 .. Len(r) : i < j =>
                     \E a, b \in 1 .. n : a < b /\ r[i] = s[a] /\ r[j] = s[b]
           P == {n \in Nat : n <= Len(s) => Ordered(f[n], n)}
<1> HIDE DEF Ordered
<1>3. 0 \in P
  <2>1. f[0] = <<>>
    BY <1>2
  <2>2. Ordered(<<>>, 0)
    BY DEF Ordered
  <2> QED
    BY <2>1, <2>2
<1>4. ASSUME NEW n \in Nat, n \in P PROVE n + 1 \in P
  <2> SUFFICES ASSUME n + 1 <= Len(s) PROVE Ordered(f[n + 1], n + 1)
    OBVIOUS
  <2>1. Ordered(f[n], n)
    BY <1>4
  <2> USE DEF Ordered
  <2>2. f[n + 1] = IF s[n + 1] \in gone THEN f[n] ELSE Append(f[n], s[n + 1])
    BY <1>2
  <2>3. \A a \in 1 .. n : a \in 1 .. n + 1 /\ a < n + 1
    OBVIOUS
  <2>4. CASE s[n + 1] \in gone
    BY <2>1, <2>2, <2>3, <2>4
  <2>5. CASE s[n + 1] \notin gone
    <3> DEFINE g == f[n]
               r == Append(g, s[n + 1])
    <3>1. /\ r \in Seq(U) /\ Len(r) = Len(g) + 1 /\ Len(g) \in Nat
          /\ \A i \in 1 .. Len(g) : r[i] = g[i]
          /\ r[Len(g) + 1] = s[n + 1]
      <4>1. s[n + 1] \in U
        OBVIOUS
      <4> QED
        BY <2>1, <4>1, AppendProperties, LenProperties
    <3> HIDE DEF r
    <3>2. \A i \in 1 .. Len(r) : i = Len(g) + 1 \/ i \in 1 .. Len(g)
      BY <3>1
    <3>3. n + 1 \in 1 .. n + 1
      OBVIOUS
    <3>4. \A i \in 1 .. Len(r) : \E a \in 1 .. n + 1 : r[i] = s[a]
      BY <2>1, <2>3, <3>1, <3>2, <3>3
    <3>5. ASSUME NEW i \in 1 .. Len(r), NEW j \in 1 .. Len(r), i < j
          PROVE  \E a, b \in 1 .. n + 1 : a < b /\ r[i] = s[a] /\ r[j] = s[b]
      <4>1. i \in 1 .. Len(g) /\ r[i] = g[i]
        BY <3>1, <3>5
      <4>2. CASE j = Len(g) + 1
        <5>1. PICK a \in 1 .. n : g[i] = s[a]
          BY <2>1, <4>1
        <5> QED
          BY <2>3, <3>1, <3>3, <4>1, <4>2, <5>1
      <4>3. CASE j \in 1 .. Len(g)
        <5>1. PICK a \in 1 .. n, b \in 1 .. n : a < b /\ g[i] = s[a] /\ g[j] = s[b]
          BY <2>1, <3>5, <4>1, <4>3
        <5> QED
          BY <2>3, <3>1, <4>1, <4>3, <5>1
      <4> QED
        BY <3>2, <4>2, <4>3
    <3>6. f[n + 1] = r
      BY <2>2, <2>5 DEF r
    <3> QED
      BY SMTT(30), <3>1, <3>4, <3>5, <3>6
  <2> QED
    BY <2>4, <2>5
<1>5. Len(s) \in P
  <2> HIDE DEF P
  <2>1. Nat \subseteq P
    BY <1>3, <1>4, Induction
  <2> QED
    BY <2>1
<1>6. Ordered(f[Len(s)], Len(s)) /\ DOMAIN s = 1 .. Len(s)
  BY <1>5
<1> DEFINE r == f[Len(s)]
<1> HIDE DEF r
<1>7. /\ r \in Seq(U)
      /\ \A i, j \in 1 .. Len(r) : i < j =>
            \E a, b \in 1 .. Len(s) : a < b /\ r[i] = s[a] /\ r[j] = s[b]
  BY <1>6 DEF Ordered, r
<1>8. DOMAIN r = 1 .. Len(r) /\ DOMAIN s = 1 .. Len(s) /\ Drop(s, gone) = r
  BY <1>1, <1>7 DEF r
<1>9. ASSUME NEW i \in DOMAIN r, NEW j \in DOMAIN r, i < j
      PROVE  \E a, b \in DOMAIN s : a < b /\ r[i] = s[a] /\ r[j] = s[b]
  <2>1. i \in 1 .. Len(r) /\ j \in 1 .. Len(r)
    BY <1>8
  <2>2. PICK a \in 1 .. Len(s), b \in 1 .. Len(s) : a < b /\ r[i] = s[a] /\ r[j] = s[b]
    BY <1>7, <1>9, <2>1
  <2> QED
    BY <1>8, <2>2
<1> QED
  <2> HIDE DEF P
  <2> QED
    BY <1>8, <1>9
-------------------------------------------------------------------------------
\* Members of parts and of compositions of lists.

LEMMA MembersProperties ==
    ASSUME NEW U, NEW s \in Seq(U)
    PROVE  /\ DOMAIN s = 1 .. Len(s) /\ Len(s) \in Nat
           /\ Members(s) \subseteq U
           /\ s = <<>> <=> Members(s) = {}
           /\ \A x : x \in Members(s) <=> \E i \in 1 .. Len(s) : s[i] = x
<1>1. DOMAIN s = 1 .. Len(s) /\ Len(s) \in Nat
  OBVIOUS
<1>2. \A x : x \in Members(s) <=> \E i \in 1 .. Len(s) : s[i] = x
  BY <1>1 DEF Members
<1>3. Members(s) \subseteq U
  BY <1>2
<1>4. ASSUME Members(s) = {} PROVE s = <<>>
  <2>1. Len(s) = 0
    BY <1>1, <1>2, <1>4
  <2> QED
    BY <2>1
<1>5. Members(<<>>) = {}
  BY DEF Members
<1> QED
  BY <1>1, <1>2, <1>3, <1>4, <1>5

\* The first k of a list and the others.
LEMMA SplitProperties ==
    ASSUME NEW U, NEW s \in Seq(U), NEW k \in 0 .. Len(s)
    PROVE  LET first == SubSeq(s, 1, k)
               rest  == SubSeq(s, k + 1, Len(s))
           IN  /\ first \in Seq(U) /\ rest \in Seq(U)
               /\ Len(first) = k /\ Len(rest) = Len(s) - k
               /\ Members(first) = {s[i] : i \in 1 .. k}
               /\ Members(s) = Members(first) \cup Members(rest)
               /\ Distinct(s) => /\ Distinct(first) /\ Distinct(rest)
                                 /\ Members(rest) = Members(s) \ Members(first)
<1> DEFINE first == SubSeq(s, 1, k)
           rest  == SubSeq(s, k + 1, Len(s))
<1>1. Len(s) \in Nat /\ k \in Nat /\ k <= Len(s) /\ DOMAIN s = 1 .. Len(s)
      /\ \A i \in 1 .. Len(s) : s[i] \in U
  OBVIOUS
<1>2. /\ first \in Seq(U) /\ Len(first) = k /\ DOMAIN first = 1 .. k
      /\ \A i \in 1 .. k : first[i] = s[i]
  <2>1. \A i \in 1 .. k : s[i] \in U
    BY <1>1
  <2>2. /\ first \in Seq(U) /\ Len(first) = IF 1 <= k THEN k - 1 + 1 ELSE 0
        /\ \A i \in 1 .. k - 1 + 1 : first[i] = s[1 + i - 1]
    BY <1>1, <2>1, SubSeqProperties
  <2>3. Len(first) = k
    BY <1>1, <2>2
  <2>4. \A i \in 1 .. k : i \in 1 .. k - 1 + 1 /\ 1 + i - 1 = i
    BY <1>1
  <2> QED
    BY <2>2, <2>3, <2>4, LenProperties
<1>3. /\ rest \in Seq(U) /\ Len(rest) = Len(s) - k /\ DOMAIN rest = 1 .. Len(s) - k
      /\ \A i \in 1 .. Len(s) - k : rest[i] = s[k + i]
  <2>1. \A i \in k + 1 .. Len(s) : s[i] \in U
    BY <1>1
  <2>2. /\ rest \in Seq(U)
        /\ Len(rest) = IF k + 1 <= Len(s) THEN Len(s) - (k + 1) + 1 ELSE 0
        /\ \A i \in 1 .. Len(s) - (k + 1) + 1 : rest[i] = s[(k + 1) + i - 1]
    BY <1>1, <2>1, SubSeqProperties
  <2>3. Len(rest) = Len(s) - k
    <3> HIDE DEF rest
    <3>1. \A m, n \in Nat : m <= n => (IF m + 1 <= n THEN n - (m + 1) + 1 ELSE 0) = n - m
      OBVIOUS
    <3> QED
      BY <1>1, <2>2, <3>1
  <2>4. \A i \in 1 .. Len(s) - k : i \in 1 .. Len(s) - (k + 1) + 1 /\ (k + 1) + i - 1 = k + i
    BY <1>1
  <2> QED
    BY <2>2, <2>3, <2>4, LenProperties
<1> HIDE DEF first, rest
<1>4. Members(first) = {s[i] : i \in 1 .. k}
  BY <1>2 DEF Members
<1>5. Members(rest) = {s[k + i] : i \in 1 .. Len(s) - k}
  BY <1>3 DEF Members
<1>6. ASSUME NEW j \in 1 .. Len(s), ~(j <= k)
      PROVE  j - k \in 1 .. Len(s) - k /\ k + (j - k) = j
  BY <1>1, <1>6
<1>7. \A i \in 1 .. Len(s) - k : k + i \in 1 .. Len(s) /\ ~(k + i <= k)
  BY <1>1
<1>8. Members(s) = Members(first) \cup Members(rest)
  <2>1. ASSUME NEW j \in 1 .. Len(s) PROVE s[j] \in Members(first) \cup Members(rest)
    <3>1. CASE j <= k
      BY <1>1, <1>4, <3>1
    <3>2. CASE ~(j <= k)
      BY <1>5, <1>6, <3>2
    <3> QED
      BY <3>1, <3>2
  <2>2. Members(first) \subseteq Members(s)
    <3>1. \A i \in 1 .. k : i \in 1 .. Len(s)
      BY <1>1
    <3> QED
      BY <1>1, <1>4, <3>1 DEF Members
  <2>3. Members(rest) \subseteq Members(s)
    BY <1>1, <1>5, <1>7 DEF Members
  <2> QED
    BY <1>1, <2>1, <2>2, <2>3 DEF Members
<1>9. ASSUME Distinct(s)
      PROVE  Distinct(first) /\ Distinct(rest) /\ Members(first) \cap Members(rest) = {}
  <2>1. \A i, j \in 1 .. Len(s) : s[i] = s[j] => i = j
    BY <1>1, <1>9 DEF Distinct
  <2>2. Distinct(first)
    BY <1>1, <1>2, <2>1 DEF Distinct
  <2>3. Distinct(rest)
    <3>1. ASSUME NEW i \in 1 .. Len(s) - k, NEW j \in 1 .. Len(s) - k, rest[i] = rest[j]
          PROVE  i = j
      <4>1. s[k + i] = s[k + j]
        BY <1>3, <3>1
      <4>2. k + i = k + j
        BY <1>7, <2>1, <4>1
      <4> QED
        BY <1>1, <4>2
    <3> QED
      BY <1>3, <3>1 DEF Distinct
  <2>4. ASSUME NEW i \in 1 .. k, NEW j \in 1 .. Len(s) - k, s[i] = s[k + j]
        PROVE  FALSE
    <3>1. i = k + j
      BY <1>1, <1>7, <2>1, <2>4
    <3> QED
      BY <1>1, <1>7, <3>1
  <2> QED
    BY <1>4, <1>5, <2>2, <2>3, <2>4
<1> QED
  BY <1>2, <1>3, <1>4, <1>8, <1>9 DEF first, rest

\* One list behind another.
LEMMA JoinProperties ==
    ASSUME NEW U, NEW s \in Seq(U), NEW r \in Seq(U)
    PROVE  /\ s \o r \in Seq(U)
           /\ Members(s \o r) = Members(s) \cup Members(r)
           /\ Distinct(s) /\ Distinct(r) /\ Members(s) \cap Members(r) = {}
                 => Distinct(s \o r)
<1> DEFINE c == s \o r
<1>1. /\ Len(s) \in Nat /\ Len(r) \in Nat
      /\ DOMAIN s = 1 .. Len(s) /\ DOMAIN r = 1 .. Len(r)
  OBVIOUS
<1>2. /\ c \in Seq(U) /\ Len(c) = Len(s) + Len(r) /\ DOMAIN c = 1 .. Len(s) + Len(r)
      /\ \A i \in 1 .. Len(s) + Len(r) : c[i] = IF i <= Len(s) THEN s[i] ELSE r[i - Len(s)]
  BY ConcatProperties, LenProperties
<1> HIDE DEF c
<1>3. \A i \in 1 .. Len(s) : i \in 1 .. Len(s) + Len(r) /\ c[i] = s[i]
  BY <1>1, <1>2
<1>4. \A i \in 1 .. Len(r) : Len(s) + i \in 1 .. Len(s) + Len(r) /\ c[Len(s) + i] = r[i]
  <2> TAKE i \in 1 .. Len(r)
  <2>1. Len(s) + i \in 1 .. Len(s) + Len(r) /\ ~(Len(s) + i <= Len(s)) /\ (Len(s) + i) - Len(s) = i
    BY <1>1
  <2> QED
    BY <1>2, <2>1
<1>5. ASSUME NEW i \in 1 .. Len(s) + Len(r), ~(i <= Len(s))
      PROVE  i - Len(s) \in 1 .. Len(r) /\ c[i] = r[i - Len(s)]
  BY <1>1, <1>2, <1>5
<1>6. ASSUME NEW i \in 1 .. Len(s) + Len(r), i <= Len(s)
      PROVE  i \in 1 .. Len(s) /\ c[i] = s[i]
  BY <1>1, <1>2, <1>6
<1>7. Members(c) = Members(s) \cup Members(r)
  <2>1. Members(c) \subseteq Members(s) \cup Members(r)
    BY <1>1, <1>2, <1>5, <1>6 DEF Members
  <2>2. Members(s) \subseteq Members(c)
    BY <1>1, <1>2, <1>3 DEF Members
  <2>3. Members(r) \subseteq Members(c)
    <3> SUFFICES ASSUME NEW i \in 1 .. Len(r) PROVE \E j \in DOMAIN c : c[j] = r[i]
      BY <1>1 DEF Members
    <3> QED
      BY <1>2, <1>4
  <2> QED
    BY <2>1, <2>2, <2>3
<1>8. ASSUME Distinct(s), Distinct(r), Members(s) \cap Members(r) = {}
      PROVE  Distinct(c)
  <2> SUFFICES ASSUME NEW i \in 1 .. Len(s) + Len(r), NEW j \in 1 .. Len(s) + Len(r),
                      c[i] = c[j]
               PROVE  i = j
    BY <1>2 DEF Distinct
  <2>1. CASE i <= Len(s) /\ j <= Len(s)
    BY <1>1, <1>6, <1>8, <2>1 DEF Distinct
  <2>2. CASE ~(i <= Len(s)) /\ ~(j <= Len(s))
    <3>1. i - Len(s) = j - Len(s)
      BY <1>1, <1>5, <1>8, <2>2 DEF Distinct
    <3> QED
      BY <1>1, <3>1
  <2>3. CASE i <= Len(s) /\ ~(j <= Len(s))
    <3>1. c[i] \in Members(s)
      BY <1>1, <1>6, <2>3 DEF Members
    <3>2. c[j] \in Members(r)
      BY <1>1, <1>5, <2>3 DEF Members
    <3> QED
      BY <1>8, <3>1, <3>2
  <2>4. CASE ~(i <= Len(s)) /\ j <= Len(s)
    <3>1. c[i] \in Members(r)
      BY <1>1, <1>5, <2>4 DEF Members
    <3>2. c[j] \in Members(s)
      BY <1>1, <1>6, <2>4 DEF Members
    <3> QED
      BY <1>8, <3>1, <3>2
  <2> QED
    BY <2>1, <2>2, <2>3, <2>4
<1> QED
  BY <1>2, <1>7, <1>8 DEF c

\* An item put in behind the first n.
PutIn(s, n, x) == SubSeq(s, 1, n) \o <<x>> \o SubSeq(s, n + 1, Len(s))

LEMMA InsertProperties ==
    ASSUME NEW U, NEW s \in Seq(U), NEW n \in 0 .. Len(s), NEW x \in U
    PROVE  /\ PutIn(s, n, x) \in Seq(U)
           /\ Members(PutIn(s, n, x)) = Members(s) \cup {x}
           /\ Distinct(s) /\ x \notin Members(s) => Distinct(PutIn(s, n, x))
<1> DEFINE new == PutIn(s, n, x)
<1> DEFINE first  == SubSeq(s, 1, n)
           rest   == SubSeq(s, n + 1, Len(s))
           one    == <<x>>
           before == first \o one
<1>1. new = before \o rest
  BY DEF PutIn
<1>2. /\ first \in Seq(U) /\ rest \in Seq(U)
      /\ Members(s) = Members(first) \cup Members(rest)
      /\ Distinct(s) => /\ Distinct(first) /\ Distinct(rest)
                        /\ Members(rest) = Members(s) \ Members(first)
  BY SplitProperties
<1>3. one \in Seq(U) /\ Members(one) = {x} /\ Distinct(one)
  BY DEF Members, Distinct
<1> HIDE DEF new, first, rest, one
<1>4. /\ before \in Seq(U)
      /\ Members(before) = Members(first) \cup Members(one)
      /\ Distinct(first) /\ Distinct(one) /\ Members(first) \cap Members(one) = {}
            => Distinct(before)
  BY <1>2, <1>3, JoinProperties
<1> HIDE DEF before
<1>5. /\ before \o rest \in Seq(U)
      /\ Members(before \o rest) = Members(before) \cup Members(rest)
      /\ Distinct(before) /\ Distinct(rest) /\ Members(before) \cap Members(rest) = {}
            => Distinct(before \o rest)
  BY <1>2, <1>4, JoinProperties
<1>6. new \in Seq(U) /\ Members(new) = Members(s) \cup {x}
  BY <1>1, <1>2, <1>3, <1>4, <1>5
<1>7. ASSUME Distinct(s), x \notin Members(s) PROVE Distinct(new)
  BY <1>1, <1>2, <1>3, <1>4, <1>5, <1>7
<1> QED
  BY <1>6, <1>7 DEF new

\* The items of a list into which one was put behind the first n.
IsInserted(new, s, n, x) ==
    /\ Len(new) = Len(s) + 1 /\ DOMAIN new = 1 .. Len(s) + 1
    /\ \A i \in 1 .. Len(s) + 1 :
          new[i] = IF i <= n THEN s[i] ELSE IF i = n + 1 THEN x ELSE s[i - 1]

LEMMA InsertElements ==
    ASSUME NEW U, NEW s \in Seq(U), NEW n \in 0 .. Len(s), NEW x \in U,
           NEW new, new = SubSeq(s, 1, n) \o <<x>> \o SubSeq(s, n + 1, Len(s))
    PROVE  new \in Seq(U) /\ IsInserted(new, s, n, x)
<1> DEFINE first  == SubSeq(s, 1, n)
           rest   == SubSeq(s, n + 1, Len(s))
           before == first \o <<x>>
<1>0. new = before \o rest
  OBVIOUS
<1>1. Len(s) \in Nat /\ n \in Nat /\ n <= Len(s) /\ \A i \in 1 .. Len(s) : s[i] \in U
  OBVIOUS
<1>2. /\ first \in Seq(U) /\ Len(first) = n /\ \A i \in 1 .. n : first[i] = s[i]
  <2>1. \A i \in 1 .. n : s[i] \in U
    BY <1>1
  <2>2. /\ first \in Seq(U) /\ Len(first) = IF 1 <= n THEN n - 1 + 1 ELSE 0
        /\ \A i \in 1 .. n - 1 + 1 : first[i] = s[1 + i - 1]
    BY <1>1, <2>1, SubSeqProperties
  <2>3. \A i \in 1 .. n : i \in 1 .. n - 1 + 1 /\ 1 + i - 1 = i
    BY <1>1
  <2> QED
    BY <1>1, <2>2, <2>3
<1>3. /\ rest \in Seq(U) /\ Len(rest) = Len(s) - n
      /\ \A i \in 1 .. Len(s) - n : rest[i] = s[n + i]
  <2>1. \A i \in n + 1 .. Len(s) : s[i] \in U
    BY <1>1
  <2>2. /\ rest \in Seq(U)
        /\ Len(rest) = IF n + 1 <= Len(s) THEN Len(s) - (n + 1) + 1 ELSE 0
        /\ \A i \in 1 .. Len(s) - (n + 1) + 1 : rest[i] = s[(n + 1) + i - 1]
    BY <1>1, <2>1, SubSeqProperties
  <2>3. Len(rest) = Len(s) - n
    <3> HIDE DEF rest
    <3>1. \A m, l \in Nat : m <= l => (IF m + 1 <= l THEN l - (m + 1) + 1 ELSE 0) = l - m
      OBVIOUS
    <3> QED
      BY <1>1, <2>2, <3>1
  <2>4. \A i \in 1 .. Len(s) - n : i \in 1 .. Len(s) - (n + 1) + 1 /\ (n + 1) + i - 1 = n + i
    BY <1>1
  <2> QED
    BY <2>2, <2>3, <2>4
<1>4. <<x>> \in Seq(U) /\ Len(<<x>>) = 1 /\ <<x>>[1] = x
  OBVIOUS
<1> DEFINE one == <<x>>
<1> HIDE DEF first, rest, one
<1>5. /\ before \in Seq(U) /\ Len(before) = n + 1
      /\ \A i \in 1 .. n + 1 : before[i] = IF i <= n THEN s[i] ELSE x
  <2>1. /\ first \o one \in Seq(U) /\ Len(first \o one) = Len(first) + Len(one)
        /\ \A i \in 1 .. Len(first) + Len(one) :
              (first \o one)[i] = IF i <= Len(first) THEN first[i] ELSE one[i - Len(first)]
    BY <1>2, <1>4, ConcatProperties DEF one
  <2>2. \A i \in 1 .. n + 1 : (i <= n => i \in 1 .. n) /\ (~(i <= n) => i - n = 1)
    BY <1>1
  <2> QED
    BY <1>2, <1>4, <2>1, <2>2 DEF one
<1> HIDE DEF before
<1>6. /\ new \in Seq(U) /\ Len(new) = (n + 1) + (Len(s) - n)
      /\ \A i \in 1 .. (n + 1) + (Len(s) - n) :
            new[i] = IF i <= n + 1 THEN before[i] ELSE rest[i - (n + 1)]
  <2>1. before \in Seq(U) /\ rest \in Seq(U)
    BY <1>3, <1>5
  <2>2. /\ before \o rest \in Seq(U) /\ Len(before \o rest) = Len(before) + Len(rest)
        /\ \A i \in 1 .. Len(before) + Len(rest) :
              (before \o rest)[i] = IF i <= Len(before) THEN before[i] ELSE rest[i - Len(before)]
    BY <2>1, ConcatProperties
  <2>3. Len(before) = n + 1 /\ Len(rest) = Len(s) - n
    BY <1>3, <1>5
  <2> QED
    BY <1>0, <2>2, <2>3
<1>7. (n + 1) + (Len(s) - n) = Len(s) + 1
  BY <1>1
<1>8. ASSUME NEW i \in 1 .. Len(s) + 1
      PROVE  new[i] = IF i <= n THEN s[i] ELSE IF i = n + 1 THEN x ELSE s[i - 1]
  <2>1. i \in Nat /\ i >= 1 /\ i <= Len(s) + 1
    BY <1>1
  <2>2. CASE i <= n + 1
    <3>1. i \in 1 .. n + 1
      BY <1>1, <2>1, <2>2
    <3>2. new[i] = before[i]
      BY <1>6, <1>7, <2>2
    <3>3. i <= n \/ i = n + 1
      BY <1>1, <2>1, <2>2
    <3>4. i = n + 1 => ~(i <= n)
      BY <1>1, <2>1
    <3> QED
      BY <1>5, <3>1, <3>2, <3>3, <3>4
  <2>3. CASE ~(i <= n + 1)
    <3>1. i - (n + 1) \in 1 .. Len(s) - n /\ n + (i - (n + 1)) = i - 1
          /\ ~(i <= n) /\ i # n + 1
      BY <1>1, <2>1, <2>3
    <3>2. new[i] = rest[i - (n + 1)]
      BY <1>6, <1>7, <2>3
    <3> QED
      BY <1>3, <3>1, <3>2
  <2> QED
    BY <2>2, <2>3
<1>9. DOMAIN new = 1 .. Len(s) + 1
  BY <1>6, <1>7, LenProperties
<1> QED
  BY <1>6, <1>7, <1>8, <1>9 DEF IsInserted

\* A list without repetitions has as many members as it is long.
LEMMA DistinctCounts ==
    ASSUME NEW U, NEW s \in Seq(U), Distinct(s)
    PROVE  IsFiniteSet(Members(s)) /\ Cardinality(Members(s)) = Len(s)
<1>1. Len(s) \in Nat /\ DOMAIN s = 1 .. Len(s)
  OBVIOUS
<1>2. s \in Bijection(1 .. Len(s), Members(s))
  BY <1>1 DEF Members, Distinct, Bijection, Injection, Surjection, IsInjective
<1>3. ExistsBijection(1 .. Len(s), Members(s))
  BY <1>2 DEF ExistsBijection
<1> QED
  BY <1>1, <1>3, FS_NatBijection, FS_CountingElements

\* SetToSeqs: the lists of the members of a finite set, each once.
LEMMA ListOfSet ==
    ASSUME NEW S, IsFiniteSet(S), NEW f \in SetToSeqs(S)
    PROVE  f \in Seq(S) /\ Distinct(f) /\ Members(f) = S
<1> DEFINE n == Cardinality(S)
           D == 1 .. n
<1>1. n \in Nat
  BY FS_CardinalityType
<1>2. f \in [D -> S] /\ \A i, j \in D : i # j => f[i] # f[j]
  BY DEF SetToSeqs
<1>3. f \in Seq(S) /\ DOMAIN f = D
  BY <1>1, <1>2
<1>4. Distinct(f)
  BY <1>2, <1>3 DEF Distinct
<1>5. Members(f) \subseteq S
  BY <1>2, <1>3 DEF Members
<1>6. IsFiniteSet(Members(f)) /\ Cardinality(Members(f)) = n
  <2>1. Cardinality(Members(f)) = Len(f) /\ IsFiniteSet(Members(f))
    BY <1>3, <1>4, DistinctCounts
  <2>2. Len(f) = n
    BY <1>1, <1>2
  <2> QED
    BY <2>1, <2>2
<1>7. Members(f) = S
  BY <1>5, <1>6, FS_Subset
<1> QED
  BY <1>3, <1>4, <1>7
-------------------------------------------------------------------------------
\* What adds an item.

\* Append adds one member.
LEMMA AppendMembers ==
    ASSUME NEW U, NEW s \in Seq(U), NEW x \in U
    PROVE  /\ Append(s, x) \in Seq(U) /\ Members(Append(s, x)) = Members(s) \cup {x}
           /\ Distinct(s) /\ x \notin Members(s) => Distinct(Append(s, x))
<1>1. <<x>> \in Seq(U) /\ Members(<<x>>) = {x} /\ Distinct(<<x>>)
  BY DEF Members, Distinct
<1>2. Append(s, x) = s \o <<x>>
  BY AppendIsConcat
<1> DEFINE one == <<x>>
<1> HIDE DEF one
<1>3. /\ s \o one \in Seq(U) /\ Members(s \o one) = Members(s) \cup Members(one)
      /\ Distinct(s) /\ Distinct(one) /\ Members(s) \cap Members(one) = {} => Distinct(s \o one)
  BY ZenonT(40), <1>1, JoinProperties DEF one
<1>4. Members(one) = {x} /\ Distinct(one) /\ Append(s, x) = s \o one
  BY <1>1, <1>2 DEF one
<1> QED
  BY <1>3, <1>4

\* Before item i, or at the end.
PutBefore(s, i, x) == IF i = 0 THEN Append(s, x) ELSE InsertAt(s, i, x)

\* An ordered insertion adds one member and moves none.
LEMMA PutBeforeProperties ==
    ASSUME NEW U, NEW s \in Seq(U), NEW i \in 0 .. Len(s), NEW x \in U
    PROVE  /\ PutBefore(s, i, x) \in Seq(U) /\ Members(PutBefore(s, i, x)) = Members(s) \cup {x}
           /\ Distinct(s) /\ x \notin Members(s) => Distinct(PutBefore(s, i, x))
<1>1. CASE i = 0
  BY <1>1, AppendMembers DEF PutBefore
<1>2. CASE i # 0
  <2>1. PICK n \in 0 .. Len(s) : n = i - 1 /\ n + 1 = i
    <3>1. i - 1 \in 0 .. Len(s) /\ (i - 1) + 1 = i
      BY <1>2
    <3> QED
      BY <3>1
  <2>2. PutBefore(s, i, x) = PutIn(s, n, x)
    BY <1>2, <2>1, Zenon DEF PutBefore, InsertAt, PutIn
  <2> QED
    BY <2>2, InsertProperties
<1> QED
  BY <1>1, <1>2

\* SelectInSeq is an index of the list or 0.
LEMMA FirstIndex ==
    ASSUME NEW n \in Nat, NEW I \in SUBSET (1 .. n)
    PROVE  (IF I # {} THEN Min(I) ELSE 0) \in 0 .. n
<1>1. CASE I # {}
  <2>1. I \in SUBSET Nat
    OBVIOUS
  <2>2. \E x \in I : \A y \in I : x <= y
    BY <1>1, <2>1, LeastNumber
  <2>3. Min(I) \in I
    BY <2>2 DEF Min
  <2> DEFINE m == Min(I)
  <2>4. m \in I
    BY <2>3
  <2> HIDE DEF m
  <2>5. m \in 0 .. n
    BY <2>4
  <2> QED
    BY <1>1, <2>5 DEF m
<1> QED
  BY <1>1
-------------------------------------------------------------------------------
\* Rings, and lists in an order.

\* Turning the index of a ring loses and doubles no item.
LEMMA TurnProperties ==
    ASSUME NEW U, NEW r \in Seq(U), r # <<>>
    PROVE  /\ Turn(r) \in Seq(U) /\ Turn(r) # <<>>
           /\ Len(Turn(r)) = Len(r) /\ Members(Turn(r)) = Members(r)
           /\ Distinct(r) => Distinct(Turn(r))
           /\ \A i \in 1 .. Len(r) - 1 : Turn(r)[i] = r[i + 1]
           /\ Turn(r)[Len(r)] = r[1]
<1>1. /\ Tail(r) \in Seq(U) /\ Head(r) \in U /\ Head(r) = r[1]
      /\ Len(Tail(r)) = Len(r) - 1 /\ Len(r) \in Nat /\ Len(r) >= 1
      /\ \A i \in 1 .. Len(r) - 1 : Tail(r)[i] = r[i + 1]
  BY HeadTailProperties
<1>2. /\ Turn(r) \in Seq(U) /\ Len(Turn(r)) = Len(r)
      /\ \A i \in 1 .. Len(r) - 1 : Turn(r)[i] = r[i + 1]
      /\ Turn(r)[Len(r)] = r[1]
  BY <1>1, AppendProperties DEF Turn
<1> DEFINE s == Turn(r)
           n == Len(r)
<1>3. DOMAIN r = 1 .. n /\ DOMAIN s = 1 .. n /\ n \in Nat /\ n >= 1
  BY <1>1, <1>2, LenProperties
<1>4. s # <<>>
  BY <1>2, <1>3
<1>5. /\ s \in Seq(U) /\ Len(s) = n
      /\ \A i \in 1 .. n - 1 : s[i] = r[i + 1]
      /\ s[n] = r[1]
  BY <1>2
<1> HIDE DEF s, n
<1>6. Members(s) = Members(r)
  <2>1. ASSUME NEW i \in 1 .. n PROVE \E j \in 1 .. n : s[i] = r[j]
    <3>1. CASE i = n
      BY <1>3, <1>5, <3>1
    <3>2. CASE i # n
      <4>1. i \in 1 .. n - 1 /\ i + 1 \in 1 .. n
        BY <1>3, <3>2
      <4> QED
        BY <1>5, <4>1
    <3> QED
      BY <3>1, <3>2
  <2>2. ASSUME NEW j \in 1 .. n PROVE \E i \in 1 .. n : s[i] = r[j]
    <3>1. CASE j = 1
      BY <1>3, <1>5, <3>1
    <3>2. CASE j # 1
      <4>1. j - 1 \in 1 .. n - 1 /\ j - 1 \in 1 .. n /\ (j - 1) + 1 = j
        BY <1>3, <3>2
      <4> QED
        BY <1>5, <4>1
    <3> QED
      BY <3>1, <3>2
  <2>3. \A x : /\ x \in Members(s) <=> \E i \in 1 .. n : s[i] = x
               /\ x \in Members(r) <=> \E i \in 1 .. n : r[i] = x
    BY <1>3 DEF Members
  <2> QED
    BY <2>1, <2>2, <2>3
<1>7. ASSUME Distinct(r) PROVE Distinct(s)
  <2> SUFFICES ASSUME NEW i \in 1 .. n, NEW j \in 1 .. n, s[i] = s[j] PROVE i = j
    BY <1>3 DEF Distinct
  <2>1. \A a, b \in 1 .. n : r[a] = r[b] => a = b
    BY <1>3, <1>7 DEF Distinct
  <2> DEFINE At(a) == IF a = n THEN 1 ELSE a + 1
  <2>2. \A a \in 1 .. n : At(a) \in 1 .. n /\ s[a] = r[At(a)]
    <3>1. ASSUME NEW a \in 1 .. n PROVE At(a) \in 1 .. n /\ s[a] = r[At(a)]
      <4>1. CASE a = n
        BY <1>3, <1>5, <4>1
      <4>2. CASE a # n
        <5>1. a \in 1 .. n - 1 /\ a + 1 \in 1 .. n
          BY <1>3, <4>2
        <5> QED
          BY <1>5, <4>2, <5>1
      <4> QED
        BY <4>1, <4>2
    <3> QED
      BY <3>1
  <2>3. At(i) = At(j) => i = j
    BY <1>3
  <2> HIDE DEF At
  <2> QED
    BY <2>1, <2>2, <2>3
<1> QED
  BY <1>4, <1>5, <1>6, <1>7 DEF s, n

\* The index moves on to an item other than e, if there is one.
LEMMA TurnPast ==
    ASSUME NEW U, NEW r \in Seq(U), Distinct(r), NEW e, e \in Members(r),
           Members(r) # {e},
           NEW q, q = IF Last(Turn(r)) = e THEN Turn(Turn(r)) ELSE Turn(r)
    PROVE  /\ q \in Seq(U) /\ Distinct(q) /\ Members(q) = Members(r)
           /\ Last(q) \in Members(r) \ {e}
<1>1. r # <<>> /\ Len(r) \in Nat /\ Len(r) >= 1 /\ DOMAIN r = 1 .. Len(r)
  BY MembersProperties
<1> DEFINE s == Turn(r)
           u == Turn(s)
<1>2. /\ s \in Seq(U) /\ s # <<>> /\ Len(s) = Len(r) /\ Members(s) = Members(r) /\ Distinct(s)
      /\ \A i \in 1 .. Len(r) - 1 : s[i] = r[i + 1]
      /\ s[Len(r)] = r[1]
  BY <1>1, TurnProperties
<1> HIDE DEF s
<1>3. /\ u \in Seq(U) /\ Len(u) = Len(r) /\ Members(u) = Members(r) /\ Distinct(u)
      /\ u[Len(r)] = s[1]
  BY <1>2, TurnProperties
<1> HIDE DEF u
<1>4. Last(s) = r[1] /\ Last(u) = s[1]
  BY <1>2, <1>3 DEF Last
<1>5. q = IF r[1] = e THEN u ELSE s
  BY <1>4 DEF s, u
<1>6. CASE r[1] = e
  <2>1. PICK i \in 1 .. Len(r) : r[i] # e
    BY <1>1 DEF Members
  <2>2. Len(r) >= 2 /\ 1 \in 1 .. Len(r) - 1 /\ 2 \in 1 .. Len(r)
    BY <1>1, <1>6, <2>1
  <2>3. s[1] = r[2] /\ r[2] # r[1] /\ r[2] \in Members(r)
    BY <1>1, <1>2, <2>2 DEF Distinct, Members
  <2> QED
    BY <1>3, <1>4, <1>5, <1>6, <2>3
<1>7. CASE r[1] # e
  <2>1. r[1] \in Members(r)
    BY <1>1 DEF Members
  <2> QED
    BY <1>2, <1>4, <1>5, <1>7, <2>1
<1> QED
  BY <1>6, <1>7

\* A sequence of distinct items has the one member x exactly if it is <<x>>.
LEMMA OneItemRing ==
    ASSUME NEW U, NEW r \in Seq(U), Distinct(r), NEW x \in U
    PROVE  r = <<x>> <=> Members(r) = {x}
<1>1. DOMAIN r = 1 .. Len(r) /\ Len(r) \in Nat
  BY LenProperties
<1>2. ASSUME Members(r) = {x} PROVE r = <<x>>
  <2>1. \A i \in 1 .. Len(r) : r[i] = x
    BY <1>1, <1>2 DEF Members
  <2>2. Len(r) # 0
    <3>1. PICK i \in DOMAIN r : r[i] = x
      BY <1>2 DEF Members
    <3> QED
      BY <1>1, <3>1
  <2>3. ~(Len(r) >= 2)
    BY <1>1, <2>1 DEF Distinct
  <2>4. Len(r) = 1
    BY <1>1, <2>2, <2>3
  <2> QED
    BY <1>1, <2>1, <2>4
<1>3. Members(<<x>>) = {x}
  BY DEF Members
<1> QED
  BY <1>2, <1>3

\* What takes other items out of an event list leaves the order as it is.
LEMMA DropSorted ==
    ASSUME NEW U, NEW s \in Seq(U), NEW gone, NEW f, SortedBy(s, f)
    PROVE  SortedBy(Drop(s, gone), f)
<1>1. ASSUME NEW i \in DOMAIN Drop(s, gone), NEW n \in DOMAIN Drop(s, gone), i < n
      PROVE  f[Drop(s, gone)[i]] >= f[Drop(s, gone)[n]]
  <2>1. PICK a \in DOMAIN s, b \in DOMAIN s :
            a < b /\ Drop(s, gone)[i] = s[a] /\ Drop(s, gone)[n] = s[b]
    BY <1>1, DropKeepsOrder
  <2> QED
    BY <2>1 DEF SortedBy
<1> QED
  BY <1>1 DEF SortedBy

\* The tail of a sequence of distinct items holds all of them but the head.
LEMMA TailMembers ==
    ASSUME NEW U, NEW s \in Seq(U), s # <<>>, Distinct(s)
    PROVE  /\ Tail(s) \in Seq(U) /\ Distinct(Tail(s)) /\ Head(s) \in U /\ Head(s) \in Members(s)
           /\ Members(Tail(s)) = Members(s) \ {Head(s)}
           /\ \A f : SortedBy(s, f) => SortedBy(Tail(s), f)
           /\ \A f : SortedBy(s, f) => \A x \in Members(Tail(s)) : f[Head(s)] >= f[x]
<1>1. Len(s) \in Nat /\ Len(s) >= 1 /\ DOMAIN s = 1 .. Len(s) /\ Head(s) = s[1] /\ s[1] \in U
  BY HeadTailProperties
<1>2. Tail(s) = SubSeq(s, 2, Len(s)) /\ 1 \in 0 .. Len(s)
  BY <1>1, TailIsSubSeq
<1> DEFINE first == SubSeq(s, 1, 1)
           rest  == SubSeq(s, 2, Len(s))
<1>3. /\ rest \in Seq(U) /\ Members(first) = {s[i] : i \in 1 .. 1}
      /\ Distinct(rest) /\ Members(rest) = Members(s) \ Members(first)
  <2>1. 1 + 1 = 2
    OBVIOUS
  <2> QED
    BY <1>2, <2>1, SplitProperties
<1>4. Members(first) = {s[1]}
  BY <1>3
<1> HIDE DEF first, rest
<1>5. Head(s) \in Members(s)
  BY <1>1 DEF Members
<1>6. DOMAIN Tail(s) = 1 .. Len(s) - 1 /\ \A i \in 1 .. Len(s) - 1 : Tail(s)[i] = s[i + 1]
  BY <1>1, HeadTailProperties
<1>7. \A f : SortedBy(s, f) => SortedBy(Tail(s), f)
  BY <1>1, <1>6 DEF SortedBy
<1>8. \A f : SortedBy(s, f) => \A x \in Members(Tail(s)) : f[Head(s)] >= f[x]
  BY <1>1, <1>6 DEF SortedBy, Members
<1> QED
  BY <1>1, <1>2, <1>3, <1>4, <1>5, <1>7, <1>8 DEF rest

\* An ordered insertion: before the first item of a lower value of f, or at the end.
LEMMA PutBeforeSorted ==
    ASSUME NEW U, NEW s \in Seq(U), NEW t \in U, NEW f \in [U -> Nat], SortedBy(s, f),
           NEW I, I = {n \in 1 .. Len(s) : f[s[n]] < f[t]},
           NEW i, i = IF I # {} THEN Min(I) ELSE 0
    PROVE  SortedBy(PutBefore(s, i, t), f)
<1> DEFINE N == Len(s)
           new == PutBefore(s, i, t)
<1>1. new = PutBefore(s, i, t)
  OBVIOUS
<1>2. /\ N \in Nat /\ DOMAIN s = 1 .. N
      /\ \A n \in 1 .. N : s[n] \in U /\ s[n] \in Members(s)
      /\ \A u \in U : f[u] \in Nat
  BY DEF Members
<1>3. I = {n \in 1 .. N : f[s[n]] < f[t]}
  OBVIOUS
<1>4. \A a, b \in 1 .. N : a < b => f[s[a]] >= f[s[b]]
  BY <1>2 DEF SortedBy
<1> HIDE DEF new
<1>5. PICK q \in 0 .. N : /\ new = PutIn(s, q, t) \/ (q = N /\ new = Append(s, t))
                          /\ \A n \in 1 .. N : n <= q => f[s[n]] >= f[t]
                          /\ \A n \in 1 .. N : n > q => f[t] >= f[s[n]]
  <2>1. CASE I = {}
    <3>1. new = Append(s, t)
      BY <1>1, <2>1 DEF PutBefore
    <3>2. \A n \in 1 .. N : f[s[n]] >= f[t]
      BY <1>2, <1>3, <2>1
    <3>3. N \in 0 .. N
      BY <1>2
    <3>4. \A n \in 1 .. N : ~(n > N)
      BY <1>2
    <3> HIDE DEF N
    <3> QED
      BY <3>1, <3>2, <3>3, <3>4, Zenon
  <2>2. CASE I # {}
    <3>1. \E x \in I : \A y \in I : x <= y
      <4>1. I \in SUBSET Nat
        BY <1>2, <1>3
      <4> QED
        BY <2>2, <4>1, LeastNumber
    <3> DEFINE m == Min(I)
    <3>2. m \in I /\ \A y \in I : m <= y
      BY <3>1 DEF Min
    <3>3. i = m
      BY <2>2
    <3> HIDE DEF m
    <3>4. PICK q \in 0 .. N : q = m - 1 /\ m = q + 1 /\ m \in 1 .. N
      <4>1. m \in 1 .. N
        BY <1>3, <3>2
      <4>2. m - 1 \in 0 .. N /\ m = (m - 1) + 1
        BY <1>2, <4>1
      <4> QED
        BY <4>1, <4>2
    <3>5. new = PutIn(s, q, t)
      <4>1. i # 0
        BY <3>3, <3>4
      <4>2. new = InsertAt(s, i, t)
        BY <1>1, <4>1, Zenon DEF PutBefore
      <4>3. new = InsertAt(s, m, t)
        BY <3>3, <4>2, Zenon
      <4> QED
        BY <3>4, <4>3, Zenon DEF InsertAt, PutIn
    <3>6. ASSUME NEW n \in 1 .. N, n <= q PROVE f[s[n]] >= f[t]
      <4>1. n \notin I
        BY <1>2, <3>2, <3>4, <3>6
      <4> QED
        BY <1>2, <1>3, <4>1
    <3>7. ASSUME NEW n \in 1 .. N, n > q PROVE f[t] >= f[s[n]]
      <4>1. f[s[m]] < f[t] /\ (n = m \/ m < n)
        BY <1>2, <1>3, <3>2, <3>4, <3>7
      <4> QED
        BY <1>2, <1>4, <3>4, <4>1
    <3> QED
      BY <3>5, <3>6, <3>7
  <2> QED
    BY <2>1, <2>2
<1>6. IsInserted(new, s, q, t)
  <2>1. CASE new = PutIn(s, q, t)
    <3>1. new = SubSeq(s, 1, q) \o <<t>> \o SubSeq(s, q + 1, Len(s))
      BY <2>1 DEF PutIn
    <3>2. q \in 0 .. Len(s)
      OBVIOUS
    <3> HIDE DEF N
    <3>3. \A r : r = SubSeq(s, 1, q) \o <<t>> \o SubSeq(s, q + 1, Len(s))
             => r \in Seq(U) /\ IsInserted(r, s, q, t)
      BY <3>2, InsertElements, Zenon
    <3> QED
      BY <3>1, <3>3
  <2>2. CASE q = N /\ new = Append(s, t)
    <3>1. /\ Len(new) = N + 1 /\ DOMAIN new = 1 .. N + 1
          /\ \A n \in 1 .. N : new[n] = s[n]
          /\ new[N + 1] = t
      BY <1>2, <2>2, AppendProperties
    <3> QED
      BY <1>2, <2>2, <3>1 DEF IsInserted
  <2> QED
    BY <1>5, <2>1, <2>2
<1> HIDE DEF N
<1>7. ASSUME NEW a \in 1 .. N + 1, NEW b \in 1 .. N + 1, a < b
      PROVE  f[new[a]] >= f[new[b]]
  <2>1. /\ new[a] = IF a <= q THEN s[a] ELSE IF a = q + 1 THEN t ELSE s[a - 1]
        /\ new[b] = IF b <= q THEN s[b] ELSE IF b = q + 1 THEN t ELSE s[b - 1]
    BY <1>6, <1>7 DEF IsInserted, N
  <2>2. CASE b <= q
    <3>1. a \in 1 .. N /\ b \in 1 .. N /\ a <= q
      BY <1>2, <1>7, <2>2
    <3> QED
      BY <1>4, <1>7, <2>1, <2>2, <3>1
  <2>3. CASE b = q + 1
    <3>1. a \in 1 .. N /\ a <= q /\ ~(b <= q)
      BY <1>2, <1>7, <2>3
    <3> QED
      BY <1>5, <2>1, <2>3, <3>1
  <2>4. CASE b > q + 1
    <3>1. b - 1 \in 1 .. N /\ b - 1 > q /\ ~(b <= q) /\ b # q + 1
      BY <1>2, <1>7, <2>4
    <3>2. CASE a = q + 1
      BY <1>5, <2>1, <3>1, <3>2
    <3>3. CASE a <= q
      <4>1. a \in 1 .. N /\ a < b - 1
        BY <1>2, <1>7, <3>1, <3>3
      <4> QED
        BY <1>4, <2>1, <3>1, <3>3, <4>1
    <3>4. CASE a > q + 1
      <4>1. a - 1 \in 1 .. N /\ a - 1 < b - 1 /\ ~(a <= q) /\ a # q + 1
        BY <1>2, <1>7, <3>1, <3>4
      <4> QED
        BY <1>4, <2>1, <3>1, <4>1
    <3> QED
      BY <1>2, <1>7, <3>2, <3>3, <3>4
  <2> QED
    BY <1>2, <1>7, <2>2, <2>3, <2>4
<1>8. DOMAIN new = 1 .. N + 1
  BY <1>6 DEF IsInserted, N
<1> QED
  BY <1>7, <1>8 DEF SortedBy, new

\* The count of pended gives is never negative.
LEMMA MaxWithZero ==
    ASSUME NEW c \in Nat
    PROVE  Max({c, 0}) = c
<1>1. c \in {c, 0} /\ \A y \in {c, 0} : c >= y
  OBVIOUS
<1>2. \A x \in {c, 0} : (\A y \in {c, 0} : x >= y) => x = c
  OBVIOUS
<1>3. Max({c, 0}) \in {c, 0} /\ \A y \in {c, 0} : Max({c, 0}) >= y
  BY <1>1 DEF Max
<1> QED
  BY <1>2, <1>3

\* The gives that prvUnlockQueue has still to hand on.
LEMMA LockCount ==
    ASSUME NEW c \in Int
    PROVE  Max({c, 0}) = IF c > 0 THEN c ELSE 0
<1>1. (IF c > 0 THEN c ELSE 0) \in {c, 0} /\ \A y \in {c, 0} : (IF c > 0 THEN c ELSE 0) >= y
  OBVIOUS
<1>2. \A x \in {c, 0} : (\A y \in {c, 0} : x >= y) => x = IF c > 0 THEN c ELSE 0
  OBVIOUS
<1>3. Max({c, 0}) \in {c, 0} /\ \A y \in {c, 0} : Max({c, 0}) >= y
  BY <1>1 DEF Max
<1> QED
  BY <1>2, <1>3
-------------------------------------------------------------------------------
\* Loops: a recursive function over the number of turns.

\* f[n] is what n turns of step make of u.
IsIteration(f, u, step, N) ==
    f = [n \in 0 .. N |-> IF n = 0 THEN u ELSE step[f[n - 1]][n]]

\* A function that is defined step by step over 0..N exists and has the type of its values.
LEMMA IterationExists ==
    ASSUME NEW U, NEW u \in U, NEW step \in [U -> [Nat -> U]], NEW N \in Nat
    PROVE  \E f \in [0 .. N -> U] : IsIteration(f, u, step, N)
<1> DEFINE P == {n \in Nat : \E f \in [0 .. n -> U] : IsIteration(f, u, step, n)}
<1>1. 0 \in P
  <2> DEFINE f == [n \in 0 .. 0 |-> u]
  <2>1. f \in [0 .. 0 -> U] /\ f = [n \in 0 .. 0 |-> IF n = 0 THEN u ELSE step[f[n - 1]][n]]
    OBVIOUS
  <2> QED
    BY <2>1 DEF IsIteration
<1>2. ASSUME NEW m \in Nat, m \in P PROVE m + 1 \in P
  <2>1. PICK f \in [0 .. m -> U] : IsIteration(f, u, step, m)
    BY <1>2
  <2>2. \A n \in 0 .. m : f[n] = IF n = 0 THEN u ELSE step[f[n - 1]][n]
    BY <2>1 DEF IsIteration
  <2>3. f[m] \in U /\ m + 1 \in Nat
    OBVIOUS
  <2> DEFINE x == step[f[m]][m + 1]
             g == [n \in 0 .. m + 1 |-> IF n <= m THEN f[n] ELSE x]
  <2>4. x \in U
    BY <2>3
  <2> HIDE DEF x
  <2>5. g \in [0 .. m + 1 -> U]
    BY <2>4
  <2>6. ASSUME NEW n \in 0 .. m + 1
        PROVE  g[n] = IF n = 0 THEN u ELSE step[g[n - 1]][n]
    <3>1. CASE n = 0
      BY <2>2, <3>1
    <3>2. CASE n \in 1 .. m
      <4>1. n - 1 \in 0 .. m /\ n \in 0 .. m /\ n # 0
        BY <3>2
      <4>2. g[n] = f[n] /\ g[n - 1] = f[n - 1]
        BY <3>2, <4>1
      <4>3. f[n] = step[f[n - 1]][n]
        BY <2>2, <4>1
      <4> QED
        BY <4>1, <4>2, <4>3
    <3>3. CASE n = m + 1
      <4>1. n - 1 = m /\ n # 0 /\ ~(n <= m)
        BY <3>3
      <4>2. g[n] = x /\ g[n - 1] = f[m]
        BY <3>3, <4>1
      <4> QED
        BY <3>3, <4>1, <4>2 DEF x
    <3> QED
      BY <3>1, <3>2, <3>3
  <2> HIDE DEF g
  <2>7. IsIteration(g, u, step, m + 1)
    <3>1. g = [n \in 0 .. m + 1 |-> g[n]]
      BY <2>5
    <3> QED
      BY <2>6, <3>1 DEF IsIteration
  <2> QED
    BY <2>3, <2>5, <2>7
<1> HIDE DEF P
<1>3. N \in P
  BY <1>1, <1>2, Induction
<1> QED
  BY <1>3 DEF P
-------------------------------------------------------------------------------
\* Unsigned arithmetic.

LEMMA ModOfSmall ==
    ASSUME NEW w \in Nat \ {0}, NEW x \in Nat, x < w
    PROVE  x % w = x
BY SMT

LEMMA ModOfOneWrap ==
    ASSUME NEW w \in Nat \ {0}, NEW x \in Nat, w <= x, x < w + w
    PROVE  x % w = x - w
BY SMT

LEMMA ModOfNegative ==
    ASSUME NEW w \in Nat \ {0}, NEW x \in Int, -w <= x, x < 0
    PROVE  x % w = x + w
BY SMT

\* The difference of two counts is how far they are apart, across a wrap too.
LEMMA UnsignedDifference ==
    ASSUME NEW w \in Nat \ {0}, NEW x \in 0 .. w - 1, NEW y \in 0 .. w - 1
    PROVE  (x - y) % w = IF y <= x THEN x - y ELSE x - y + w
<1>1. w \in Nat /\ x \in Nat /\ y \in Nat /\ x < w /\ y < w
  OBVIOUS
<1>2. ASSUME y <= x PROVE (x - y) % w = x - y
  <2>1. x - y \in Nat /\ x - y < w
    BY <1>1, <1>2
  <2> QED
    BY <2>1, ModOfSmall
<1>3. ASSUME ~(y <= x) PROVE (x - y) % w = x - y + w
  <2>1. x - y \in Int /\ -w <= x - y /\ x - y < 0
    BY <1>1, <1>3
  <2> QED
    BY <2>1, ModOfNegative
<1> QED
  BY <1>2, <1>3

\* A sum of two counts wraps once at most.
LEMMA UnsignedSum ==
    ASSUME NEW w \in Nat \ {0}, NEW x \in 0 .. w - 1, NEW y \in 0 .. w - 1
    PROVE  (x + y) % w = IF x + y < w THEN x + y ELSE x + y - w
<1>1. w \in Nat /\ x \in Nat /\ y \in Nat /\ x < w /\ y < w
  OBVIOUS
<1>2. ASSUME x + y < w PROVE (x + y) % w = x + y
  BY <1>1, <1>2, ModOfSmall
<1>3. ASSUME ~(x + y < w) PROVE (x + y) % w = x + y - w
  <2> DEFINE z == x + y
  <2>1. z \in Nat /\ w <= z /\ z < w + w
    BY <1>1, <1>3
  <2> HIDE DEF z
  <2>2. z % w = z - w
    BY <2>1, ModOfOneWrap
  <2> QED
    BY <2>2 DEF z
<1> QED
  BY <1>2, <1>3
===============================================================================
