---------------------------- MODULE NatInduction ----------------------------
(***************************************************************************)
(* Induction on natural numbers, stated of sets: the lemmas that the       *)
(* proofs about recursive functions and about least elements share.        *)
(***************************************************************************)
EXTENDS Integers, Sequences, WellFoundedInduction, TLAPS

\* A set of numbers that holds each number whose smaller ones it holds.  The
\* recursions of the code proved by it go to smaller indices: module parents,
\* path segments, task lists.
LEMMA NatBySmaller ==
    ASSUME NEW S \in SUBSET Nat, \A n \in Nat : (\A k \in 0 .. n - 1 : k \in S) => n \in S
    PROVE  S = Nat
<1> DEFINE Less == {ij \in Nat \X Nat : ij[1] < ij[2]}
           Out == Nat \ S
<1>1. IsWellFoundedOn(Less, Nat)
  BY NatLessThanWellFounded, Zenon DEF OpToRel
<1> SUFFICES ASSUME Out # {} PROVE FALSE
  OBVIOUS
<1>2. PICK n \in Out : \A k \in Out : ~ (<<k, n>> \in Less)
  <2>1. Out \subseteq Nat /\ Out # {}
    OBVIOUS
  <2> HIDE DEF Less, Out
  <2> QED BY <1>1, <2>1, WFMin
<1>3. \A k \in 0 .. n - 1 : k \in S
  <2> SUFFICES ASSUME NEW k \in 0 .. n - 1, k \notin S PROVE FALSE
    OBVIOUS
  <2>1. k \in Out /\ n \in Nat /\ k < n
    OBVIOUS
  <2> QED BY <1>2, <2>1
<1> QED BY <1>2, <1>3

\* The same from each number to the next: scans and counted loops.
LEMMA NatByNext ==
    ASSUME NEW S \in SUBSET Nat, 0 \in S, \A n \in Nat : n \in S => n + 1 \in S
    PROVE  S = Nat
<1>1. ASSUME NEW n \in Nat, \A k \in 0 .. n - 1 : k \in S PROVE n \in S
  <2>1. CASE n = 0
    BY <2>1
  <2>2. CASE n # 0
    <3>1. n - 1 \in Nat /\ n - 1 \in 0 .. n - 1 /\ (n - 1) + 1 = n
      BY <2>2
    <3>2. n - 1 \in S
      BY <1>1, <3>1
    <3>3. (n - 1) + 1 \in S
      BY <3>1, <3>2
    <3> QED BY <3>1, <3>3
  <2> QED BY <2>1, <2>2
<1> QED BY <1>1, NatBySmaller

\* The entry a scan from the front stops at.
LEMMA LeastExists ==
    ASSUME NEW S \in SUBSET Nat, S # {}
    PROVE  \E i \in S : \A j \in S : i <= j
<1> DEFINE Less == {ij \in Nat \X Nat : ij[1] < ij[2]}
<1>1. IsWellFoundedOn(Less, Nat)
  BY NatLessThanWellFounded, Zenon DEF OpToRel
<1>2. PICK i \in S : \A j \in S : ~ (<<j, i>> \in Less)
  <2> HIDE DEF Less
  <2> QED BY <1>1, WFMin
<1>3. ASSUME NEW j \in S PROVE i <= j
  <2>1. i \in Nat /\ j \in Nat
    OBVIOUS
  <2>2. ~ (j < i)
    BY <1>2, <2>1
  <2> QED BY <2>1, <2>2
<1> QED BY <1>3

\* The recursion by which lists are joined together has a solution.
LEMMA JoinsExist ==
    ASSUME NEW ls, NEW N \in Nat
    PROVE  \E g : g = [i \in 1 .. N |-> IF i = 1 THEN ls[i] ELSE g[i - 1] \o ls[i]]
<1> DEFINE Body(g, i) == IF i = 1 THEN ls[i] ELSE g[i - 1] \o ls[i]
           Unfolds(n, g) == g = [i \in 1 .. n |-> Body(g, i)]
           S == {n \in Nat : \E g : Unfolds(n, g)}
<1>1. 0 \in S
  <2> DEFINE e == [i \in 1 .. 0 |-> <<>>]
  <2>1. e = [i \in 1 .. 0 |-> Body(e, i)]
    OBVIOUS
  <2> QED BY <2>1
<1>2. ASSUME NEW n \in Nat, n \in S PROVE n + 1 \in S
  <2>1. PICK g : g = [i \in 1 .. n |-> Body(g, i)]
    BY <1>2
  <2> DEFINE h == [i \in 1 .. n + 1 |-> Body(g, i)]
  <2>2. ASSUME NEW i \in 1 .. n + 1 PROVE Body(h, i) = Body(g, i)
    <3>1. CASE i = 1
      BY <3>1
    <3>2. CASE i # 1
      <4>1. i - 1 \in 1 .. n /\ i - 1 \in 1 .. n + 1
        BY <3>2
      <4>2. h[i - 1] = Body(g, i - 1)
        BY <4>1
      <4>3. g[i - 1] = Body(g, i - 1)
        BY <2>1, <4>1
      <4> HIDE DEF h
      <4>4. h[i - 1] = g[i - 1]
        BY <4>2, <4>3
      <4> QED BY <3>2, <4>4
    <3> QED BY <3>1, <3>2
  <2>3. h = [i \in 1 .. n + 1 |-> Body(h, i)]
    <3> HIDE DEF Body
    <3>1. \A i \in 1 .. n + 1 : Body(h, i) = Body(g, i)
      BY <2>2
    <3> QED BY <3>1
  <2>4. Unfolds(n + 1, h)
    BY <2>3
  <2> HIDE DEF h, Unfolds
  <2> QED BY <2>4
<1>3. S = Nat
  <2> HIDE DEF S
  <2>1. S \in SUBSET Nat
    BY DEF S
  <2> QED BY <1>1, <1>2, <2>1, NatByNext
<1>4. \E g : Unfolds(N, g)
  BY <1>3
<1> QED BY <1>4

=============================================================================
