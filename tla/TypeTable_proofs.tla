-------------------------- MODULE TypeTable_proofs --------------------------
(***************************************************************************)
(* For packages of every size and types of every shape: every index the    *)
(* type registry hands out is of an entry, no nominal is interned twice or *)
(* shares its entry, and what a complete nominal holds is never written    *)
(* again.                                                                  *)
(*                                                                         *)
(* The parts of the invariant take the program q, the tables c and the     *)
(* state they are about as arguments, so that a part a step does not touch *)
(* is carried over by a lemma about the tables alone.                      *)
(***************************************************************************)
EXTENDS TypeTable, NatInduction, SequenceTheorems, TLAPS

-----------------------------------------------------------------------------
(***************************************************************************)
(* What the factories of StorageTypes keep, for tables of every size: the  *)
(* tables only grow, and every index in them stays one of an entry.        *)
(***************************************************************************)

Node  == [tag : TypeTag, data : Nat]
RunRange == [head : Nat, size : Nat]
Tables ==
    [types : Seq(Node), structs : Seq(RunRange), enums : Seq(RunRange), variants : Seq(RunRange),
     refs : Seq(Nat), tuples : Seq(RunRange), arrays : Seq([element : Nat, count : Nat])]

PreInterned(tb) ==
    /\ 17 <= Len(tb.types)
    /\ \A i \in 1 .. 17 : tb.types[i] = [tag |-> PrimitiveTag[i], data |-> 0]

\* Tables as the builder leaves them.
Valid(tb) == tb \in Tables /\ PreInterned(tb) /\ IsTables(tb)

\* The entries a list may name: all but the pre-interned Ref and MutRef, whose
\* copies would be references without a pointee.
Idx(tb) ==
    {i \in 1 .. Len(tb.types) :
        tb.types[i].tag \in {"Ref", "MutRef"} => tb.types[i].data \in 1 .. Len(tb.refs)}

Extends(s, t) == Len(s) <= Len(t) /\ \A i \in 1 .. Len(s) : t[i] = s[i]

\* From tables tb to tables c: only structs and enums may be written again.
Grows(tb, c) ==
    /\ Extends(tb.types, c.types) /\ Extends(tb.variants, c.variants)
    /\ Extends(tb.refs, c.refs) /\ Extends(tb.tuples, c.tuples)
    /\ Len(tb.structs) <= Len(c.structs) /\ Len(tb.enums) <= Len(c.enums)
Keeps(tb, c) == Grows(tb, c) /\ Extends(tb.structs, c.structs) /\ Extends(tb.enums, c.enums)

-----------------------------------------------------------------------------
\* The pre-interned block of the builder has 17 nodes.
LEMMA SeventeenPrimitives == Len(PrimitiveTag) = 17
BY DEF PrimitiveTag

\* What one more entry does to a table.
LEMMA AppendFacts ==
    ASSUME NEW S, NEW s \in Seq(S), NEW x \in S
    PROVE  /\ Append(s, x) \in Seq(S)
           /\ Len(Append(s, x)) = Len(s) + 1
           /\ Append(s, x)[Len(s) + 1] = x
           /\ Extends(s, Append(s, x))
BY DEF Extends

\* Extends is reflexive on sequences.
LEMMA ExtendsRefl == ASSUME NEW S, NEW s \in Seq(S) PROVE Extends(s, s)
BY DEF Extends

\* Extends is transitive on sequences.
LEMMA ExtendsTrans ==
    ASSUME NEW S, NEW s \in Seq(S), NEW t \in Seq(S), NEW u \in Seq(S), Extends(s, t), Extends(t, u)
    PROVE  Extends(s, u)
BY DEF Extends

\* The tables are sequences.
LEMMA Fields ==
    ASSUME NEW tb \in Tables
    PROVE  /\ tb.types \in Seq(Node) /\ Len(tb.types) \in Nat
           /\ tb.structs \in Seq(RunRange) /\ Len(tb.structs) \in Nat
           /\ tb.enums \in Seq(RunRange) /\ Len(tb.enums) \in Nat
           /\ tb.variants \in Seq(RunRange) /\ Len(tb.variants) \in Nat
           /\ tb.refs \in Seq(Nat) /\ Len(tb.refs) \in Nat
           /\ tb.tuples \in Seq(RunRange) /\ Len(tb.tuples) \in Nat
           /\ tb.arrays \in Seq([element : Nat, count : Nat]) /\ Len(tb.arrays) \in Nat
BY DEF Tables

Sizes(tb) ==
    /\ Len(tb.types) \in Nat /\ Len(tb.structs) \in Nat /\ Len(tb.enums) \in Nat
    /\ Len(tb.variants) \in Nat /\ Len(tb.refs) \in Nat /\ Len(tb.tuples) \in Nat
    /\ Len(tb.arrays) \in Nat

\* The sizes of the tables are numbers, for the arithmetic below.
LEMMA SizesAreNat == ASSUME NEW tb \in Tables PROVE Sizes(tb)
BY Fields DEF Sizes

\* An entry of the types is a node.
LEMMA NodesAt ==
    ASSUME NEW tb \in Tables, NEW i \in 1 .. Len(tb.types)
    PROVE  tb.types[i].tag \in TypeTag /\ tb.types[i].data \in Nat
<1>1. tb.types \in Seq(Node)
  BY Fields
<1>2. tb.types[i] \in Node
  BY <1>1
<1> QED BY <1>2 DEF Node

\* Tables keep what they hold when nothing is done.
LEMMA GrowsRefl == ASSUME NEW tb \in Tables PROVE Keeps(tb, tb)
BY Fields, ExtendsRefl DEF Keeps, Grows

\* Growing twice is growing.
LEMMA GrowsTrans ==
    ASSUME NEW tb \in Tables, NEW c \in Tables, NEW d \in Tables, Grows(tb, c), Grows(c, d)
    PROVE  Grows(tb, d)
<1>1. Extends(tb.types, d.types) /\ Extends(tb.variants, d.variants)
  BY Fields, ExtendsTrans DEF Grows
<1>2. Extends(tb.refs, d.refs) /\ Extends(tb.tuples, d.tuples)
  BY Fields, ExtendsTrans DEF Grows
<1>3. Sizes(tb) /\ Sizes(c) /\ Sizes(d)
  BY SizesAreNat
<1>4. Len(tb.structs) <= Len(d.structs) /\ Len(tb.enums) <= Len(d.enums)
  <2>1. /\ Len(tb.structs) \in Nat /\ Len(c.structs) \in Nat /\ Len(d.structs) \in Nat
        /\ Len(tb.enums) \in Nat /\ Len(c.enums) \in Nat /\ Len(d.enums) \in Nat
    BY <1>3 DEF Sizes
  <2>2. /\ Len(tb.structs) <= Len(c.structs) /\ Len(c.structs) <= Len(d.structs)
        /\ Len(tb.enums) <= Len(c.enums) /\ Len(c.enums) <= Len(d.enums)
    BY DEF Grows
  <2> QED BY <2>1, <2>2
<1> QED BY <1>1, <1>2, <1>4 DEF Grows

\* Keeping everything twice is keeping everything.
LEMMA KeepsTrans ==
    ASSUME NEW tb \in Tables, NEW c \in Tables, NEW d \in Tables, Keeps(tb, c), Keeps(c, d)
    PROVE  Keeps(tb, d)
<1>1. Grows(tb, d)
  BY GrowsTrans DEF Keeps
<1>2. Extends(tb.structs, d.structs) /\ Extends(tb.enums, d.enums)
  BY Fields, ExtendsTrans DEF Keeps
<1> QED BY <1>1, <1>2 DEF Keeps

\* An index stays one when the tables grow.
LEMMA IdxGrows ==
    ASSUME NEW tb \in Tables, NEW c \in Tables, Grows(tb, c)
    PROVE  Idx(tb) \subseteq Idx(c)
<1> SUFFICES ASSUME NEW i \in Idx(tb) PROVE i \in Idx(c)
  OBVIOUS
<1>1. Sizes(tb) /\ Sizes(c)
  BY SizesAreNat
<1>2. i \in 1 .. Len(tb.types) /\ Len(tb.types) <= Len(c.types) /\ Len(tb.refs) <= Len(c.refs)
  BY DEF Grows, Extends, Idx
<1>3. c.types[i] = tb.types[i]
  BY <1>2 DEF Grows, Extends
<1>4. tb.types[i].tag \in {"Ref", "MutRef"} => tb.types[i].data \in 1 .. Len(tb.refs)
  BY DEF Idx
<1>5. Len(tb.types) \in Nat /\ Len(c.types) \in Nat /\ Len(tb.refs) \in Nat /\ Len(c.refs) \in Nat
  BY <1>1 DEF Sizes
<1>6. i \in 1 .. Len(c.types)
  BY <1>2, <1>5
<1>7. c.types[i].tag \in {"Ref", "MutRef"} => c.types[i].data \in 1 .. Len(c.refs)
  BY <1>2, <1>3, <1>4, <1>5
<1> QED BY <1>6, <1>7 DEF Idx

\* A run of entries stays one.
LEMMA RunGrows ==
    ASSUME NEW S, NEW s \in Seq(S), NEW t \in Seq(S), Len(s) <= Len(t),
           NEW r \in RunRange, IsRun(r, s)
    PROVE  IsRun(r, t)
BY DEF IsRun, RunRange

-----------------------------------------------------------------------------
NodeFits(tb, n) ==
    /\ n.tag = "Struct" => n.data \in 1 .. Len(tb.structs)
    /\ n.tag = "Enum" => n.data \in 1 .. Len(tb.enums)
    /\ n.tag = "Array" => n.data \in 1 .. Len(tb.arrays)
    /\ n.tag = "Tuple" => n.data \in 1 .. Len(tb.tuples)
    /\ n.tag \in {"Ref", "MutRef"} => n.data \in 1 .. Len(tb.refs)

\* Entries that fit the tables may be appended.
LEMMA Appended ==
    ASSUME NEW tb, NEW c, Valid(tb), c \in Tables, Keeps(tb, c), c.arrays = tb.arrays,
           \A i \in Len(tb.types) + 1 .. Len(c.types) : NodeFits(c, c.types[i]),
           \A k \in Len(tb.structs) + 1 .. Len(c.structs) : IsRun(c.structs[k], c.types),
           \A k \in Len(tb.variants) + 1 .. Len(c.variants) : IsRun(c.variants[k], c.types),
           \A k \in Len(tb.tuples) + 1 .. Len(c.tuples) : IsRun(c.tuples[k], c.types),
           \A k \in Len(tb.enums) + 1 .. Len(c.enums) : IsRun(c.enums[k], c.variants),
           \A k \in Len(tb.refs) + 1 .. Len(c.refs) : c.refs[k] \in 1 .. Len(c.types)
    PROVE  Valid(c)
<1>9. /\ Extends(tb.types, c.types) /\ Extends(tb.variants, c.variants) /\ Extends(tb.tuples, c.tuples)
      /\ Extends(tb.refs, c.refs) /\ Extends(tb.structs, c.structs) /\ Extends(tb.enums, c.enums)
  BY DEF Keeps, Grows
<1>10. tb \in Tables /\ IsTables(tb)
  BY DEF Valid
<1>11. Sizes(tb) /\ Sizes(c)
  BY <1>10, SizesAreNat
<1>1. PreInterned(c)
  <2>1. /\ 17 <= Len(tb.types) /\ \A i \in 1 .. 17 : tb.types[i] = [tag |-> PrimitiveTag[i], data |-> 0]
        /\ Len(tb.types) <= Len(c.types) /\ \A i \in 1 .. Len(tb.types) : c.types[i] = tb.types[i]
    BY <1>9 DEF Valid, PreInterned, Extends
  <2>2. Len(tb.types) \in Nat /\ Len(c.types) \in Nat
    BY <1>11 DEF Sizes
  <2>3. 17 <= Len(c.types) /\ \A i \in 1 .. 17 : i \in 1 .. Len(tb.types)
    <3>1. 17 <= Len(tb.types) /\ Len(tb.types) <= Len(c.types)
      BY <2>1
    <3> QED BY <2>2, <3>1
  <2>4. \A i \in 1 .. 17 : c.types[i] = tb.types[i]
    BY <2>1, <2>3
  <2> QED BY <2>1, <2>3, <2>4 DEF PreInterned
<1>2. \A i \in 1 .. Len(c.types) :
          LET n == c.types[i] IN
          /\ n.tag \in TypeTag
          /\ n.tag = "Struct" => n.data \in 1 .. Len(c.structs)
          /\ n.tag = "Enum" => n.data \in 1 .. Len(c.enums)
          /\ n.tag = "Array" => n.data \in 1 .. Len(c.arrays)
          /\ n.tag = "Tuple" => n.data \in 1 .. Len(c.tuples)
          /\ n.tag \in {"Ref", "MutRef"} /\ i \in Interned(c) => n.data \in 1 .. Len(c.refs)
  <2> SUFFICES ASSUME NEW i \in 1 .. Len(c.types)
               PROVE  /\ c.types[i].tag \in TypeTag
                      /\ c.types[i].tag = "Struct" => c.types[i].data \in 1 .. Len(c.structs)
                      /\ c.types[i].tag = "Enum" => c.types[i].data \in 1 .. Len(c.enums)
                      /\ c.types[i].tag = "Array" => c.types[i].data \in 1 .. Len(c.arrays)
                      /\ c.types[i].tag = "Tuple" => c.types[i].data \in 1 .. Len(c.tuples)
                      /\ c.types[i].tag \in {"Ref", "MutRef"} /\ i \in Interned(c)
                            => c.types[i].data \in 1 .. Len(c.refs)
    OBVIOUS
  <2>1. c.types[i].tag \in TypeTag
    BY NodesAt
  <2>2. CASE i > Len(tb.types)
    <3>1. NodeFits(c, c.types[i])
      BY <2>2, <1>10, Fields
    <3> QED BY <2>1, <3>1 DEF NodeFits
  <2>3. CASE i <= Len(tb.types)
    <3>1. c.types[i] = tb.types[i] /\ i \in 1 .. Len(tb.types)
      BY <2>3, <1>9, <1>10, Fields DEF Extends
    <3>2. i \in Interned(c) => i \in Interned(tb)
      BY <3>1, <1>10, SeventeenPrimitives, Fields DEF Interned
    <3>3. /\ Len(tb.structs) <= Len(c.structs) /\ Len(tb.enums) <= Len(c.enums)
          /\ Len(tb.tuples) <= Len(c.tuples) /\ Len(tb.refs) <= Len(c.refs)
      BY <1>9 DEF Extends
    <3>4. /\ tb.types[i].tag = "Struct" => tb.types[i].data \in 1 .. Len(tb.structs)
          /\ tb.types[i].tag = "Enum" => tb.types[i].data \in 1 .. Len(tb.enums)
          /\ tb.types[i].tag = "Array" => tb.types[i].data \in 1 .. Len(tb.arrays)
          /\ tb.types[i].tag = "Tuple" => tb.types[i].data \in 1 .. Len(tb.tuples)
          /\ tb.types[i].tag \in {"Ref", "MutRef"} /\ i \in Interned(tb)
                => tb.types[i].data \in 1 .. Len(tb.refs)
      BY <1>10, <3>1 DEF IsTables
    <3>5. c.arrays = tb.arrays
      OBVIOUS
    <3>6. /\ Len(tb.structs) \in Nat /\ Len(c.structs) \in Nat
          /\ Len(tb.enums) \in Nat /\ Len(c.enums) \in Nat
      BY <1>11 DEF Sizes
    <3>7. /\ Len(tb.tuples) \in Nat /\ Len(c.tuples) \in Nat
          /\ Len(tb.refs) \in Nat /\ Len(c.refs) \in Nat
      BY <1>11 DEF Sizes
    <3>8. /\ tb.types[i].tag = "Struct" => tb.types[i].data \in 1 .. Len(c.structs)
          /\ tb.types[i].tag = "Enum" => tb.types[i].data \in 1 .. Len(c.enums)
      BY <3>3, <3>4, <3>6
    <3>9. /\ tb.types[i].tag = "Tuple" => tb.types[i].data \in 1 .. Len(c.tuples)
          /\ tb.types[i].tag \in {"Ref", "MutRef"} /\ i \in Interned(tb)
                => tb.types[i].data \in 1 .. Len(c.refs)
      BY <3>3, <3>4, <3>7
    <3> QED BY <2>1, <3>1, <3>2, <3>4, <3>5, <3>8, <3>9
  <2> QED BY <2>2, <2>3, <1>10, Fields
<1>3. \A k \in 1 .. Len(c.structs) : IsRun(c.structs[k], c.types)
  <2> SUFFICES ASSUME NEW k \in 1 .. Len(c.structs)
               PROVE  IsRun(c.structs[k], c.types)
    OBVIOUS
  <2>1. CASE k > Len(tb.structs)
    BY <1>10, <2>1, Fields
  <2>2. CASE k <= Len(tb.structs)
    <3>1. c.structs[k] = tb.structs[k] /\ k \in 1 .. Len(tb.structs) /\ tb.structs[k] \in RunRange
      BY <1>9, <1>10, <2>2, Fields DEF Extends
    <3>2. IsRun(tb.structs[k], tb.types)
      BY <1>10, <3>1 DEF IsTables
    <3>3. Len(tb.types) <= Len(c.types)
      BY <1>9 DEF Extends
    <3> QED BY <1>10, <3>1, <3>2, <3>3, Fields, RunGrows
  <2> QED BY <2>1, <2>2, <1>10, Fields
<1>4. \A k \in 1 .. Len(c.variants) : IsRun(c.variants[k], c.types)
  <2> SUFFICES ASSUME NEW k \in 1 .. Len(c.variants)
               PROVE  IsRun(c.variants[k], c.types)
    OBVIOUS
  <2>1. CASE k > Len(tb.variants)
    BY <1>10, <2>1, Fields
  <2>2. CASE k <= Len(tb.variants)
    <3>1. c.variants[k] = tb.variants[k] /\ k \in 1 .. Len(tb.variants) /\ tb.variants[k] \in RunRange
      BY <1>9, <1>10, <2>2, Fields DEF Extends
    <3>2. IsRun(tb.variants[k], tb.types)
      BY <1>10, <3>1 DEF IsTables
    <3>3. Len(tb.types) <= Len(c.types)
      BY <1>9 DEF Extends
    <3> QED BY <1>10, <3>1, <3>2, <3>3, Fields, RunGrows
  <2> QED BY <2>1, <2>2, <1>10, Fields
<1>5. \A k \in 1 .. Len(c.tuples) : IsRun(c.tuples[k], c.types)
  <2> SUFFICES ASSUME NEW k \in 1 .. Len(c.tuples)
               PROVE  IsRun(c.tuples[k], c.types)
    OBVIOUS
  <2>1. CASE k > Len(tb.tuples)
    BY <1>10, <2>1, Fields
  <2>2. CASE k <= Len(tb.tuples)
    <3>1. c.tuples[k] = tb.tuples[k] /\ k \in 1 .. Len(tb.tuples) /\ tb.tuples[k] \in RunRange
      BY <1>9, <1>10, <2>2, Fields DEF Extends
    <3>2. IsRun(tb.tuples[k], tb.types)
      BY <1>10, <3>1 DEF IsTables
    <3>3. Len(tb.types) <= Len(c.types)
      BY <1>9 DEF Extends
    <3> QED BY <1>10, <3>1, <3>2, <3>3, Fields, RunGrows
  <2> QED BY <2>1, <2>2, <1>10, Fields
<1>6. \A k \in 1 .. Len(c.enums) : IsRun(c.enums[k], c.variants)
  <2> SUFFICES ASSUME NEW k \in 1 .. Len(c.enums)
               PROVE  IsRun(c.enums[k], c.variants)
    OBVIOUS
  <2>1. CASE k > Len(tb.enums)
    BY <1>10, <2>1, Fields
  <2>2. CASE k <= Len(tb.enums)
    <3>1. c.enums[k] = tb.enums[k] /\ k \in 1 .. Len(tb.enums) /\ tb.enums[k] \in RunRange
      BY <1>9, <1>10, <2>2, Fields DEF Extends
    <3>2. IsRun(tb.enums[k], tb.variants)
      BY <1>10, <3>1 DEF IsTables
    <3>3. Len(tb.variants) <= Len(c.variants)
      BY <1>9 DEF Extends
    <3> QED BY <1>10, <3>1, <3>2, <3>3, Fields, RunGrows
  <2> QED BY <2>1, <2>2, <1>10, Fields
<1>12. Len(tb.types) <= Len(c.types) /\ Len(tb.refs) <= Len(c.refs)
  BY <1>9 DEF Extends
<1>7. \A k \in 1 .. Len(c.arrays) : c.arrays[k].element \in 1 .. Len(c.types)
  <2>1. \A k \in 1 .. Len(tb.arrays) : tb.arrays[k].element \in 1 .. Len(tb.types)
    BY <1>10 DEF IsTables
  <2>2. Len(tb.types) \in Nat /\ Len(c.types) \in Nat
    BY <1>11 DEF Sizes
  <2>3. c.arrays = tb.arrays
    OBVIOUS
  <2> QED BY <2>1, <2>2, <2>3, <1>12
<1>8. \A k \in 1 .. Len(c.refs) : c.refs[k] \in 1 .. Len(c.types)
  <2>1. \A k \in 1 .. Len(tb.refs) : tb.refs[k] \in 1 .. Len(tb.types)
    BY <1>10 DEF IsTables
  <2>2. \A k \in 1 .. Len(tb.refs) : c.refs[k] = tb.refs[k]
    BY <1>9 DEF Extends
  <2>3. /\ Len(tb.types) \in Nat /\ Len(c.types) \in Nat
        /\ Len(tb.refs) \in Nat /\ Len(c.refs) \in Nat
    BY <1>11 DEF Sizes
  <2> SUFFICES ASSUME NEW k \in 1 .. Len(c.refs) PROVE c.refs[k] \in 1 .. Len(c.types)
    OBVIOUS
  <2>4. CASE k > Len(tb.refs)
    <3>1. k \in Len(tb.refs) + 1 .. Len(c.refs)
      BY <2>3, <2>4
    <3> QED BY <3>1
  <2>5. CASE k <= Len(tb.refs)
    <3>1. k \in 1 .. Len(tb.refs)
      BY <2>3, <2>5
    <3>2. c.refs[k] \in 1 .. Len(tb.types)
      BY <2>1, <2>2, <3>1
    <3> QED BY <1>12, <2>3, <3>2
  <2> QED BY <2>3, <2>4, <2>5
<1> QED BY <1>1, <1>2, <1>3, <1>4, <1>5, <1>6, <1>7, <1>8 DEF Valid, IsTables

-----------------------------------------------------------------------------
\* The entry a scan stops at is one that it looks for.
LEMMA LowestIn == ASSUME NEW S \in SUBSET Nat, S # {} PROVE Lowest(S) \in S
BY LeastExists DEF Lowest

\* What is past the end of a table that got one more entry is that entry.
LEMMA NewSlots ==
    ASSUME NEW S, NEW s \in Seq(S), NEW x \in S
    PROVE  /\ Extends(s, Append(s, x))
           /\ \A k \in Len(s) + 1 .. Len(Append(s, x)) : Append(s, x)[k] = x
BY AppendFacts

\* A node and what it stands for are appended.
LEMMA NodeAdded ==
    ASSUME NEW tb, Valid(tb), NEW c, c \in Tables, NEW n \in Node,
           c.types = Append(tb.types, n), NodeFits(c, n),
           c.arrays = tb.arrays, c.variants = tb.variants,
           c.structs = tb.structs \/ c.structs = Append(tb.structs, NoSlots),
           c.enums = tb.enums
               \/ \E r \in RunRange : IsRun(r, tb.variants) /\ c.enums = Append(tb.enums, r),
           c.refs = tb.refs \/ \E i \in 1 .. Len(tb.types) : c.refs = Append(tb.refs, i),
           c.tuples = tb.tuples
               \/ \E r \in RunRange : IsRun(r, tb.types) /\ c.tuples = Append(tb.tuples, r)
    PROVE  /\ Valid(c) /\ Keeps(tb, c)
           /\ Len(tb.types) + 1 \in Idx(c) /\ c.types[Len(tb.types) + 1] = n
<1>1. tb \in Tables
  BY DEF Valid
<1>2. /\ Extends(tb.types, c.types) /\ Len(c.types) = Len(tb.types) + 1
      /\ c.types[Len(tb.types) + 1] = n
      /\ \A i \in Len(tb.types) + 1 .. Len(c.types) : c.types[i] = n
  BY <1>1, Fields, AppendFacts, NewSlots
<1>3. Sizes(tb) /\ Sizes(c)
  BY <1>1, SizesAreNat
<1>4. Len(tb.types) \in Nat /\ Len(c.types) \in Nat /\ Len(tb.types) <= Len(c.types)
  BY <1>2, <1>3 DEF Sizes
<1>5. /\ Extends(tb.structs, c.structs)
      /\ \A k \in Len(tb.structs) + 1 .. Len(c.structs) : IsRun(c.structs[k], c.types)
  <2>1. NoSlots \in RunRange /\ IsRun(NoSlots, c.types)
    BY <1>4 DEF NoSlots, IdxRange, RunRange, IsRun
  <2>2. CASE c.structs = tb.structs
    BY <2>2, <1>1, Fields, ExtendsRefl
  <2>3. CASE c.structs = Append(tb.structs, NoSlots)
    BY <2>1, <2>3, <1>1, Fields, NewSlots
  <2> QED BY <2>2, <2>3
<1>6. /\ Extends(tb.enums, c.enums)
      /\ \A k \in Len(tb.enums) + 1 .. Len(c.enums) : IsRun(c.enums[k], c.variants)
  <2>1. CASE c.enums = tb.enums
    BY <2>1, <1>1, Fields, ExtendsRefl
  <2>2. ASSUME NEW r \in RunRange, IsRun(r, tb.variants), c.enums = Append(tb.enums, r)
        PROVE  /\ Extends(tb.enums, c.enums)
               /\ \A k \in Len(tb.enums) + 1 .. Len(c.enums) : IsRun(c.enums[k], c.variants)
    BY <2>2, <1>1, Fields, NewSlots
  <2> QED BY <2>1, <2>2
<1>7. /\ Extends(tb.refs, c.refs)
      /\ \A k \in Len(tb.refs) + 1 .. Len(c.refs) : c.refs[k] \in 1 .. Len(c.types)
  <2>1. CASE c.refs = tb.refs
    BY <2>1, <1>1, Fields, ExtendsRefl
  <2>2. ASSUME NEW i \in 1 .. Len(tb.types), c.refs = Append(tb.refs, i)
        PROVE  /\ Extends(tb.refs, c.refs)
               /\ \A k \in Len(tb.refs) + 1 .. Len(c.refs) : c.refs[k] \in 1 .. Len(c.types)
    <3>1. i \in Nat /\ i \in 1 .. Len(c.types)
      BY <1>4
    <3>2. tb.refs \in Seq(Nat)
      BY <1>1, Fields
    <3> QED BY <2>2, <3>1, <3>2, NewSlots
  <2> QED BY <2>1, <2>2
<1>8. /\ Extends(tb.tuples, c.tuples)
      /\ \A k \in Len(tb.tuples) + 1 .. Len(c.tuples) : IsRun(c.tuples[k], c.types)
  <2>1. CASE c.tuples = tb.tuples
    BY <2>1, <1>1, Fields, ExtendsRefl
  <2>2. ASSUME NEW r \in RunRange, IsRun(r, tb.types), c.tuples = Append(tb.tuples, r)
        PROVE  /\ Extends(tb.tuples, c.tuples)
               /\ \A k \in Len(tb.tuples) + 1 .. Len(c.tuples) : IsRun(c.tuples[k], c.types)
    <3>1. IsRun(r, c.types)
      BY <2>2, <1>1, <1>4, Fields, RunGrows
    <3> QED BY <2>2, <3>1, <1>1, Fields, NewSlots
  <2> QED BY <2>1, <2>2
<1>9. Extends(tb.variants, c.variants)
  BY <1>1, Fields, ExtendsRefl
<1>10. Keeps(tb, c)
  BY <1>2, <1>5, <1>6, <1>7, <1>8, <1>9 DEF Keeps, Grows, Extends
<1>11. \A i \in Len(tb.types) + 1 .. Len(c.types) : NodeFits(c, c.types[i])
  BY <1>2
<1>12. \A k \in Len(tb.variants) + 1 .. Len(c.variants) : IsRun(c.variants[k], c.types)
  <2>1. Len(tb.variants) \in Nat
    BY <1>3 DEF Sizes
  <2> QED BY <2>1
<1>13. Valid(c)
  BY <1>5, <1>6, <1>7, <1>8, <1>10, <1>11, <1>12, Appended
<1>14. Len(tb.types) + 1 \in Idx(c)
  BY <1>2, <1>4 DEF Idx, NodeFits
<1> QED BY <1>2, <1>10, <1>13, <1>14

-----------------------------------------------------------------------------
\* What the caller of a factory gets: tables that only grew, and the index of
\* an entry of them.
MadeOK(tb, made) ==
    Valid(made.builder) /\ Keeps(tb, made.builder) /\ made.idx \in Idx(made.builder)

\* storage_builder.h:157-161, reserve_struct: a new entry, with a struct of its own.
LEMMA ReserveStructMakes ==
    ASSUME NEW tb, Valid(tb)
    PROVE  LET made == ReserveStruct(tb) IN
           /\ MadeOK(tb, made)
           /\ made.builder.types[made.idx] = [tag |-> "Struct", data |-> Len(tb.structs) + 1]
<1> DEFINE c == ReserveStruct(tb).builder
           n == [tag |-> "Struct", data |-> Len(tb.structs) + 1]
<1>1. tb \in Tables
  BY DEF Valid
<1>2. NoSlots \in RunRange
  BY DEF NoSlots, IdxRange, RunRange
<1>3. n \in Node
  <2>1. Len(tb.structs) + 1 \in Nat
    BY <1>1, Fields
  <2>2. "Struct" \in TypeTag
    BY DEF TypeTag
  <2> QED BY <2>1, <2>2 DEF Node
<1>4. /\ c = [tb EXCEPT !.structs = Append(tb.structs, NoSlots), !.types = Append(tb.types, n)]
      /\ ReserveStruct(tb).idx = Len(tb.types) + 1
  BY <1>1 DEF ReserveStruct, AppendNode, Made, Tables
<1>5. /\ c.types = Append(tb.types, n) /\ c.structs = Append(tb.structs, NoSlots)
      /\ c.enums = tb.enums /\ c.variants = tb.variants /\ c.refs = tb.refs
      /\ c.tuples = tb.tuples /\ c.arrays = tb.arrays
  BY <1>1, <1>4 DEF Tables
<1>6. c \in Tables
  <2>1. Append(tb.types, n) \in Seq(Node) /\ Append(tb.structs, NoSlots) \in Seq(RunRange)
    BY <1>1, <1>2, <1>3, Fields, AppendFacts
  <2> QED BY <1>1, <1>4, <2>1 DEF Tables
<1>7. NodeFits(c, n)
  BY <1>1, <1>2, <1>5, Fields, AppendFacts DEF NodeFits
<1> HIDE DEF c, n
<1>8. /\ Valid(c) /\ Keeps(tb, c)
      /\ Len(tb.types) + 1 \in Idx(c) /\ c.types[Len(tb.types) + 1] = n
  BY <1>3, <1>5, <1>6, <1>7, NodeAdded
<1> QED BY <1>4, <1>8 DEF MadeOK, c, n

\* storage_builder.h, enum_type: a new entry, with an enum of its own.
LEMMA EnumTypeMakes ==
    ASSUME NEW tb, Valid(tb), NEW variants \in RunRange, IsRun(variants, tb.variants)
    PROVE  LET made == EnumType(tb, variants) IN
           /\ MadeOK(tb, made)
           /\ made.builder.types[made.idx] = [tag |-> "Enum", data |-> Len(tb.enums) + 1]
<1> DEFINE c == EnumType(tb, variants).builder
           n == [tag |-> "Enum", data |-> Len(tb.enums) + 1]
<1>1. tb \in Tables
  BY DEF Valid
<1>3. n \in Node
  <2>1. Len(tb.enums) + 1 \in Nat
    BY <1>1, Fields
  <2>2. "Enum" \in TypeTag
    BY DEF TypeTag
  <2> QED BY <2>1, <2>2 DEF Node
<1>4. /\ c = [tb EXCEPT !.enums = Append(tb.enums, variants), !.types = Append(tb.types, n)]
      /\ EnumType(tb, variants).idx = Len(tb.types) + 1
  BY <1>1 DEF EnumType, AppendNode, Made, Tables
<1>5. /\ c.types = Append(tb.types, n) /\ c.enums = Append(tb.enums, variants)
      /\ c.structs = tb.structs /\ c.variants = tb.variants /\ c.refs = tb.refs
      /\ c.tuples = tb.tuples /\ c.arrays = tb.arrays
  BY <1>1, <1>4 DEF Tables
<1>6. c \in Tables
  <2>1. Append(tb.types, n) \in Seq(Node) /\ Append(tb.enums, variants) \in Seq(RunRange)
    BY <1>1, <1>3, Fields, AppendFacts
  <2> QED BY <1>1, <1>4, <2>1 DEF Tables
<1>7. NodeFits(c, n)
  BY <1>1, <1>5, Fields, AppendFacts DEF NodeFits
<1> HIDE DEF c, n
<1>8. /\ Valid(c) /\ Keeps(tb, c)
      /\ Len(tb.types) + 1 \in Idx(c) /\ c.types[Len(tb.types) + 1] = n
  BY <1>3, <1>5, <1>6, <1>7, NodeAdded
<1> QED BY <1>4, <1>8 DEF MadeOK, c, n

\* storage_builder.h:157-161, reserve_enum: a new entry, with an enum of its own.
LEMMA ReserveEnumMakes ==
    ASSUME NEW tb, Valid(tb)
    PROVE  LET made == ReserveEnum(tb) IN
           /\ MadeOK(tb, made)
           /\ made.builder.types[made.idx] = [tag |-> "Enum", data |-> Len(tb.enums) + 1]
<1>1. NoSlots \in RunRange /\ IsRun(NoSlots, tb.variants)
  BY Fields DEF Valid, NoSlots, IdxRange, RunRange, IsRun
<1>2. ReserveEnum(tb) = EnumType(tb, NoSlots)
  BY DEF ReserveEnum, EnumType
<1> QED BY <1>1, <1>2, EnumTypeMakes

\* storage_builder.h, reference_type: the entry found or appended points into the tables.
LEMMA ReferenceTypeMakes ==
    ASSUME NEW tb, Valid(tb), NEW pointee \in 1 .. Len(tb.types), NEW is_mut \in BOOLEAN
    PROVE  MadeOK(tb, ReferenceType(tb, pointee, is_mut))
<1> DEFINE tag  == IF is_mut THEN "MutRef" ELSE "Ref"
           same == {i \in Interned(tb) : tb.types[i].tag = tag /\ tb.refs[tb.types[i].data] = pointee}
           n    == [tag |-> tag, data |-> Len(tb.refs) + 1]
           c    == [tb EXCEPT !.refs = Append(tb.refs, pointee), !.types = Append(tb.types, n)]
<1>1. tb \in Tables /\ IsTables(tb)
  BY DEF Valid
<1>2. CASE same # {}
  <2>1. same \subseteq 1 .. Len(tb.types) /\ same \in SUBSET Nat
    BY <1>1, SeventeenPrimitives, Fields DEF Interned
  <2>2. Lowest(same) \in same
    BY <1>2, <2>1, LowestIn
  <2>3. Lowest(same) \in Idx(tb)
    BY <1>1, <2>1, <2>2 DEF Idx, IsTables
  <2>4. ReferenceType(tb, pointee, is_mut) = Made(tb, Lowest(same))
    BY <1>2 DEF ReferenceType
  <2> QED BY <1>1, <2>3, <2>4, GrowsRefl DEF MadeOK, Made
<1>3. CASE same = {}
  <2>1. n \in Node /\ pointee \in Nat
    <3>1. Len(tb.refs) + 1 \in Nat /\ Len(tb.types) \in Nat
      BY <1>1, Fields
    <3>2. tag \in TypeTag
      BY SeventeenPrimitives DEF TypeTag, PrimitiveTag
    <3> QED BY <3>1, <3>2 DEF Node
  <2>2. ReferenceType(tb, pointee, is_mut) = Made(c, Len(tb.types) + 1)
    BY <1>1, <1>3 DEF ReferenceType, AppendNode, Made, Tables
  <2>3. /\ c.types = Append(tb.types, n) /\ c.refs = Append(tb.refs, pointee)
        /\ c.structs = tb.structs /\ c.variants = tb.variants /\ c.enums = tb.enums
        /\ c.tuples = tb.tuples /\ c.arrays = tb.arrays
    BY <1>1 DEF Tables
  <2>4. c \in Tables
    <3>1. Append(tb.types, n) \in Seq(Node) /\ Append(tb.refs, pointee) \in Seq(Nat)
      BY <1>1, <2>1, Fields, AppendFacts
    <3> QED BY <1>1, <3>1 DEF Tables
  <2>5. NodeFits(c, n)
    BY <1>1, <2>1, <2>3, Fields, AppendFacts DEF NodeFits
  <2> HIDE DEF c, n
  <2>6. Valid(c) /\ Keeps(tb, c) /\ Len(tb.types) + 1 \in Idx(c)
    BY <2>1, <2>3, <2>4, <2>5, NodeAdded
  <2> QED BY <2>2, <2>6 DEF MadeOK, Made
<1> QED BY <1>2, <1>3

\* storage_builder.h, tuple_type: the entry found or appended has its elements in the tables.
LEMMA TupleTypeMakes ==
    ASSUME NEW tb, Valid(tb), NEW elements \in RunRange, IsRun(elements, tb.types)
    PROVE  MadeOK(tb, TupleType(tb, elements))
<1> DEFINE same == {i \in Interned(tb) :
                       /\ tb.types[i].tag = "Tuple"
                       /\ LET t == tb.tuples[tb.types[i].data] IN
                          t.size = elements.size /\ (t.size > 0 => t.head = elements.head)}
           n    == [tag |-> "Tuple", data |-> Len(tb.tuples) + 1]
           c    == [tb EXCEPT !.tuples = Append(tb.tuples, elements), !.types = Append(tb.types, n)]
<1>1. tb \in Tables
  BY DEF Valid
<1>2. CASE same # {}
  <2>1. same \subseteq 1 .. Len(tb.types) /\ same \in SUBSET Nat
    BY <1>1, SeventeenPrimitives, Fields DEF Interned
  <2>2. Lowest(same) \in same
    BY <1>2, <2>1, LowestIn
  <2>3. Lowest(same) \in Idx(tb)
    BY <2>1, <2>2 DEF Idx
  <2>4. TupleType(tb, elements) = Made(tb, Lowest(same))
    BY <1>2 DEF TupleType
  <2> HIDE DEF same
  <2> QED BY <1>1, <2>3, <2>4, GrowsRefl DEF MadeOK, Made
<1>3. CASE same = {}
  <2>1. n \in Node
    <3>1. Len(tb.tuples) + 1 \in Nat
      BY <1>1, Fields
    <3>2. "Tuple" \in TypeTag
      BY DEF TypeTag
    <3> QED BY <3>1, <3>2 DEF Node
  <2>2. TupleType(tb, elements) = Made(c, Len(tb.types) + 1)
    BY <1>1, <1>3 DEF TupleType, AppendNode, Made, Tables
  <2>3. /\ c.types = Append(tb.types, n) /\ c.tuples = Append(tb.tuples, elements)
        /\ c.structs = tb.structs /\ c.variants = tb.variants /\ c.enums = tb.enums
        /\ c.refs = tb.refs /\ c.arrays = tb.arrays
    BY <1>1 DEF Tables
  <2>4. c \in Tables
    <3>1. Append(tb.types, n) \in Seq(Node) /\ Append(tb.tuples, elements) \in Seq(RunRange)
      BY <1>1, <2>1, Fields, AppendFacts
    <3> QED BY <1>1, <3>1 DEF Tables
  <2>5. NodeFits(c, n)
    BY <1>1, <2>1, <2>3, Fields, AppendFacts DEF NodeFits
  <2> HIDE DEF c, n
  <2>6. Valid(c) /\ Keeps(tb, c) /\ Len(tb.types) + 1 \in Idx(c)
    BY <2>1, <2>3, <2>4, <2>5, NodeAdded
  <2> QED BY <2>2, <2>6 DEF MadeOK, Made
<1> QED BY <1>2, <1>3

\* storage_builder.h, never_type and error_type: the one entry, found or appended.
LEMMA SingleTypeMakes ==
    ASSUME NEW tb, Valid(tb), NEW tag \in {"Never", "Error"}
    PROVE  MadeOK(tb, SingleType(tb, tag))
<1> DEFINE same == {i \in Interned(tb) : tb.types[i].tag = tag}
           n    == [tag |-> tag, data |-> 0]
           c    == [tb EXCEPT !.types = Append(tb.types, n)]
<1>1. tb \in Tables
  BY DEF Valid
<1>2. CASE same # {}
  <2>1. same \subseteq 1 .. Len(tb.types) /\ same \in SUBSET Nat
    BY <1>1, SeventeenPrimitives, Fields DEF Interned
  <2>2. Lowest(same) \in same
    BY <1>2, <2>1, LowestIn
  <2>3. Lowest(same) \in Idx(tb)
    BY <2>1, <2>2 DEF Idx
  <2>4. SingleType(tb, tag) = Made(tb, Lowest(same))
    BY <1>2 DEF SingleType
  <2> QED BY <1>1, <2>3, <2>4, GrowsRefl DEF MadeOK, Made
<1>3. CASE same = {}
  <2>1. n \in Node
    BY DEF Node, TypeTag
  <2>2. SingleType(tb, tag) = Made(c, Len(tb.types) + 1)
    BY <1>1, <1>3 DEF SingleType, AppendNode, Made, Tables
  <2>3. /\ c.types = Append(tb.types, n) /\ c.tuples = tb.tuples
        /\ c.structs = tb.structs /\ c.variants = tb.variants /\ c.enums = tb.enums
        /\ c.refs = tb.refs /\ c.arrays = tb.arrays
    BY <1>1 DEF Tables
  <2>4. c \in Tables
    <3>1. Append(tb.types, n) \in Seq(Node)
      BY <1>1, <2>1, Fields, AppendFacts
    <3> QED BY <1>1, <3>1 DEF Tables
  <2>5. NodeFits(c, n)
    BY DEF NodeFits
  <2> HIDE DEF c, n
  <2>6. Valid(c) /\ Keeps(tb, c) /\ Len(tb.types) + 1 \in Idx(c)
    BY <2>1, <2>3, <2>4, <2>5, NodeAdded
  <2> QED BY <2>2, <2>6 DEF MadeOK, Made
<1> QED BY <1>2, <1>3

-----------------------------------------------------------------------------
\* Only tables of nodes and variants grow when a list is copied and a variant
\* is appended.
OtherTablesSame(tb, c) ==
    /\ c.structs = tb.structs /\ c.enums = tb.enums /\ c.refs = tb.refs
    /\ c.tuples = tb.tuples /\ c.arrays = tb.arrays

\* What an index leads to: a node whose payload is in its table.
LEMMA NodesFit ==
    ASSUME NEW tb, Valid(tb), NEW i \in Idx(tb)
    PROVE  i \in 1 .. Len(tb.types) /\ tb.types[i] \in Node /\ NodeFits(tb, tb.types[i])
<1>1. tb.types \in Seq(Node) /\ IsTables(tb)
  BY Fields DEF Valid
<1>2. i \in 1 .. Len(tb.types)
  BY DEF Idx
<1>3. tb.types[i] \in Node
  BY <1>1, <1>2
<1>4. NodeFits(tb, tb.types[i])
  BY <1>1, <1>2 DEF IsTables, NodeFits, Idx
<1> QED BY <1>2, <1>3, <1>4

\* storage_builder.h, ref_type for every entry of a list: the copies are a run of the types.
LEMMA CopiesKeep ==
    ASSUME NEW tb, Valid(tb), NEW list \in Seq(Nat), \A k \in 1 .. Len(list) : list[k] \in Idx(tb)
    PROVE  LET c == AppendCopies(tb, list) IN
           /\ Valid(c) /\ Keeps(tb, c) /\ OtherTablesSame(tb, c) /\ c.variants = tb.variants
           /\ CopiesRange(tb, list) \in RunRange /\ IsRun(CopiesRange(tb, list), c.types)
<1> DEFINE copies == [k \in 1 .. Len(list) |-> tb.types[list[k]]]
           c      == AppendCopies(tb, list)
<1>1. tb \in Tables /\ tb.types \in Seq(Node) /\ Len(tb.types) \in Nat /\ Len(list) \in Nat
  BY Fields DEF Valid
<1>2. copies \in Seq(Node) /\ Len(copies) = Len(list)
  <2>1. \A k \in 1 .. Len(list) : tb.types[list[k]] \in Node
    BY NodesFit
  <2> QED BY <1>1, <2>1
<1>3. c = [tb EXCEPT !.types = tb.types \o copies]
  BY <1>1 DEF AppendCopies, Tables
<1>4. /\ c.types = tb.types \o copies /\ OtherTablesSame(tb, c) /\ c.variants = tb.variants
  BY <1>1, <1>3 DEF Tables, OtherTablesSame
<1>5. c \in Tables
  <2>1. tb.types \o copies \in Seq(Node)
    BY <1>1, <1>2, ConcatProperties
  <2> QED BY <1>1, <1>3, <2>1 DEF Tables
<1>6. /\ Len(c.types) = Len(tb.types) + Len(list)
      /\ \A i \in 1 .. Len(tb.types) + Len(list) :
             c.types[i] = IF i <= Len(tb.types) THEN tb.types[i] ELSE copies[i - Len(tb.types)]
  BY <1>1, <1>2, <1>4, ConcatProperties
<1> HIDE DEF c
<1>7. Extends(tb.types, c.types)
  <2>1. Len(tb.types) <= Len(c.types)
    BY <1>1, <1>6
  <2>2. ASSUME NEW i \in 1 .. Len(tb.types) PROVE c.types[i] = tb.types[i]
    <3>1. i \in 1 .. Len(tb.types) + Len(list) /\ i <= Len(tb.types)
      BY <1>1
    <3> QED BY <1>6, <3>1
  <2> QED BY <2>1, <2>2 DEF Extends
<1>8. Keeps(tb, c)
  <2>1. /\ Extends(tb.structs, c.structs) /\ Extends(tb.enums, c.enums)
        /\ Extends(tb.variants, c.variants) /\ Extends(tb.refs, c.refs)
        /\ Extends(tb.tuples, c.tuples)
    BY <1>1, <1>4, Fields, ExtendsRefl DEF OtherTablesSame
  <2> QED BY <1>7, <2>1 DEF Keeps, Grows, Extends
<1>9. \A i \in Len(tb.types) + 1 .. Len(c.types) : NodeFits(c, c.types[i])
  <2> SUFFICES ASSUME NEW i \in Len(tb.types) + 1 .. Len(c.types)
               PROVE  NodeFits(c, c.types[i])
    OBVIOUS
  <2>1. i - Len(tb.types) \in 1 .. Len(list) /\ c.types[i] = copies[i - Len(tb.types)]
    <3>1. /\ Len(tb.types) \in Nat /\ Len(list) \in Nat /\ i \in Nat
          /\ Len(tb.types) < i /\ i <= Len(tb.types) + Len(list)
      BY <1>1, <1>6
    <3>2. i \in 1 .. Len(tb.types) + Len(list) /\ ~(i <= Len(tb.types))
      BY <3>1
    <3>3. c.types[i] = copies[i - Len(tb.types)]
      <4> HIDE DEF copies
      <4> QED BY <1>6, <3>2
    <3>4. i - Len(tb.types) \in 1 .. Len(list)
      BY <3>1
    <3> QED BY <3>3, <3>4
  <2>2. NodeFits(tb, c.types[i])
    BY <2>1, NodesFit
  <2> QED BY <2>2, <1>4 DEF NodeFits, OtherTablesSame
<1>10. Valid(c)
  <2>1. Sizes(tb)
    BY <1>1, SizesAreNat
  <2>2. /\ \A k \in Len(tb.structs) + 1 .. Len(c.structs) : IsRun(c.structs[k], c.types)
        /\ \A k \in Len(tb.enums) + 1 .. Len(c.enums) : IsRun(c.enums[k], c.variants)
        /\ \A k \in Len(tb.variants) + 1 .. Len(c.variants) : IsRun(c.variants[k], c.types)
    BY <2>1, <1>4 DEF Sizes, OtherTablesSame
  <2>3. /\ \A k \in Len(tb.tuples) + 1 .. Len(c.tuples) : IsRun(c.tuples[k], c.types)
        /\ \A k \in Len(tb.refs) + 1 .. Len(c.refs) : c.refs[k] \in 1 .. Len(c.types)
    BY <2>1, <1>4 DEF Sizes, OtherTablesSame
  <2> QED BY <1>4, <1>5, <1>8, <1>9, <2>2, <2>3, Appended DEF OtherTablesSame
<1>11. CopiesRange(tb, list) \in RunRange /\ IsRun(CopiesRange(tb, list), c.types)
  <2>1. CASE list = <<>>
    BY <2>1, <1>1, <1>6 DEF CopiesRange, NoSlots, IdxRange, RunRange, IsRun
  <2>2. CASE list # <<>>
    BY <2>2, <1>1, <1>6 DEF CopiesRange, IdxRange, RunRange, IsRun
  <2> QED BY <2>1, <2>2
<1> QED BY <1>4, <1>8, <1>10, <1>11 DEF c

\* storage_builder.h, enum_variant: one more variant, and nothing else.
LEMMA AppendVariantKeeps ==
    ASSUME NEW tb, Valid(tb), NEW fields \in RunRange, IsRun(fields, tb.types)
    PROVE  LET c == AppendVariant(tb, fields) IN
           /\ Valid(c) /\ Keeps(tb, c) /\ OtherTablesSame(tb, c) /\ c.types = tb.types
           /\ Len(c.variants) = Len(tb.variants) + 1
<1> DEFINE c == AppendVariant(tb, fields)
<1>1. tb \in Tables /\ Sizes(tb)
  BY SizesAreNat DEF Valid
<1>2. c = [tb EXCEPT !.variants = Append(tb.variants, fields)]
  BY <1>1 DEF AppendVariant, Tables
<1>3. c.variants = Append(tb.variants, fields) /\ OtherTablesSame(tb, c) /\ c.types = tb.types
  BY <1>1, <1>2 DEF Tables, OtherTablesSame
<1>4. /\ Append(tb.variants, fields) \in Seq(RunRange) /\ Extends(tb.variants, c.variants)
      /\ Len(c.variants) = Len(tb.variants) + 1
      /\ \A k \in Len(tb.variants) + 1 .. Len(c.variants) : c.variants[k] = fields
  BY <1>1, <1>3, Fields, AppendFacts, NewSlots
<1>5. c \in Tables
  BY <1>1, <1>2, <1>4 DEF Tables
<1> HIDE DEF c
<1>6. Keeps(tb, c)
  <2>1. /\ Extends(tb.structs, c.structs) /\ Extends(tb.enums, c.enums)
        /\ Extends(tb.types, c.types) /\ Extends(tb.refs, c.refs)
        /\ Extends(tb.tuples, c.tuples)
    BY <1>1, <1>3, Fields, ExtendsRefl DEF OtherTablesSame
  <2> QED BY <1>4, <2>1 DEF Keeps, Grows, Extends
<1>7. Valid(c)
  <2>1. /\ \A i \in Len(tb.types) + 1 .. Len(c.types) : NodeFits(c, c.types[i])
        /\ \A k \in Len(tb.structs) + 1 .. Len(c.structs) : IsRun(c.structs[k], c.types)
        /\ \A k \in Len(tb.enums) + 1 .. Len(c.enums) : IsRun(c.enums[k], c.variants)
    BY <1>1, <1>3 DEF Sizes, OtherTablesSame
  <2>2. /\ \A k \in Len(tb.tuples) + 1 .. Len(c.tuples) : IsRun(c.tuples[k], c.types)
        /\ \A k \in Len(tb.refs) + 1 .. Len(c.refs) : c.refs[k] \in 1 .. Len(c.types)
    BY <1>1, <1>3 DEF Sizes, OtherTablesSame
  <2>3. \A k \in Len(tb.variants) + 1 .. Len(c.variants) : IsRun(c.variants[k], c.types)
    BY <1>3, <1>4
  <2> QED BY <1>3, <1>5, <1>6, <2>1, <2>2, <2>3, Appended DEF OtherTablesSame
<1> QED BY <1>3, <1>4, <1>6, <1>7 DEF c

\* What a nominal holds is written once its fields are known.
LEMMA FillStructGrows ==
    ASSUME NEW tb, Valid(tb), NEW idx \in Idx(tb), tb.types[idx].tag = "Struct",
           NEW fields \in RunRange, IsRun(fields, tb.types)
    PROVE  LET c == FillStruct(tb, idx, fields) IN
           /\ Valid(c) /\ Grows(tb, c) /\ c.types = tb.types /\ c.variants = tb.variants
           /\ c.refs = tb.refs /\ c.enums = tb.enums
           /\ \A k \in 1 .. Len(tb.structs) : k # tb.types[idx].data => c.structs[k] = tb.structs[k]
<1> DEFINE c == FillStruct(tb, idx, fields)
           d == tb.types[idx].data
           filled == [tb.structs EXCEPT ![d] = fields]
<1>1. tb \in Tables /\ IsTables(tb) /\ PreInterned(tb)
  BY DEF Valid
<1>2. d \in 1 .. Len(tb.structs)
  BY NodesFit DEF NodeFits
<1>3. /\ filled \in Seq(RunRange) /\ Len(filled) = Len(tb.structs)
      /\ \A k \in 1 .. Len(tb.structs) : filled[k] = IF k = d THEN fields ELSE tb.structs[k]
  BY <1>1, <1>2, Fields, ExceptSeq
<1>4. c = [tb EXCEPT !.structs = filled]
  BY <1>1 DEF FillStruct, Tables
<1> HIDE DEF filled, d
<1>5. /\ c.structs = filled /\ c.types = tb.types /\ c.enums = tb.enums /\ c.variants = tb.variants
      /\ c.refs = tb.refs /\ c.tuples = tb.tuples /\ c.arrays = tb.arrays
  BY <1>1, <1>4 DEF Tables
<1>6. c \in Tables
  BY <1>1, <1>3, <1>4 DEF Tables
<1> HIDE DEF c
<1>7. \A k \in 1 .. Len(c.structs) : IsRun(c.structs[k], c.types)
  BY <1>1, <1>3, <1>5 DEF IsTables
<1>8. PreInterned(c)
  BY <1>1, <1>5 DEF PreInterned
<1>9. IsTables(c)
  BY <1>1, <1>3, <1>5, <1>7 DEF IsTables, Interned
<1>10. Grows(tb, c)
  <2>1. /\ Extends(tb.types, c.types) /\ Extends(tb.variants, c.variants)
        /\ Extends(tb.refs, c.refs) /\ Extends(tb.tuples, c.tuples)
    BY <1>1, <1>5, Fields, ExtendsRefl
  <2>2. Len(tb.structs) <= Len(c.structs) /\ Len(tb.enums) <= Len(c.enums)
    BY <1>1, <1>3, <1>5, Fields
  <2> QED BY <2>1, <2>2 DEF Grows
<1> QED BY <1>3, <1>5, <1>6, <1>8, <1>9, <1>10 DEF Valid, c, d

\* The same for the variants of an enum.
LEMMA FillEnumGrows ==
    ASSUME NEW tb, Valid(tb), NEW idx \in Idx(tb), tb.types[idx].tag = "Enum",
           NEW variants \in RunRange, IsRun(variants, tb.variants)
    PROVE  LET c == FillEnum(tb, idx, variants) IN
           /\ Valid(c) /\ Grows(tb, c) /\ c.types = tb.types /\ c.variants = tb.variants
           /\ c.refs = tb.refs /\ c.structs = tb.structs
           /\ \A k \in 1 .. Len(tb.enums) : k # tb.types[idx].data => c.enums[k] = tb.enums[k]
<1> DEFINE c == FillEnum(tb, idx, variants)
           d == tb.types[idx].data
           filled == [tb.enums EXCEPT ![d] = variants]
<1>1. tb \in Tables /\ IsTables(tb) /\ PreInterned(tb)
  BY DEF Valid
<1>2. d \in 1 .. Len(tb.enums)
  BY NodesFit DEF NodeFits
<1>3. /\ filled \in Seq(RunRange) /\ Len(filled) = Len(tb.enums)
      /\ \A k \in 1 .. Len(tb.enums) : filled[k] = IF k = d THEN variants ELSE tb.enums[k]
  BY <1>1, <1>2, Fields, ExceptSeq
<1>4. c = [tb EXCEPT !.enums = filled]
  BY <1>1 DEF FillEnum, Tables
<1> HIDE DEF filled, d
<1>5. /\ c.enums = filled /\ c.types = tb.types /\ c.structs = tb.structs /\ c.variants = tb.variants
      /\ c.refs = tb.refs /\ c.tuples = tb.tuples /\ c.arrays = tb.arrays
  BY <1>1, <1>4 DEF Tables
<1>6. c \in Tables
  BY <1>1, <1>3, <1>4 DEF Tables
<1> HIDE DEF c
<1>7. \A k \in 1 .. Len(c.enums) : IsRun(c.enums[k], c.variants)
  BY <1>1, <1>3, <1>5 DEF IsTables
<1>8. PreInterned(c)
  BY <1>1, <1>5 DEF PreInterned
<1>9. IsTables(c)
  BY <1>1, <1>3, <1>5, <1>7 DEF IsTables, Interned
<1>10. Grows(tb, c)
  <2>1. /\ Extends(tb.types, c.types) /\ Extends(tb.variants, c.variants)
        /\ Extends(tb.refs, c.refs) /\ Extends(tb.tuples, c.tuples)
    BY <1>1, <1>5, Fields, ExtendsRefl
  <2>2. Len(tb.structs) <= Len(c.structs) /\ Len(tb.enums) <= Len(c.enums)
    BY <1>1, <1>3, <1>5, Fields
  <2> QED BY <2>1, <2>2 DEF Grows
<1> QED BY <1>3, <1>5, <1>6, <1>8, <1>9, <1>10 DEF Valid, c, d

-----------------------------------------------------------------------------
\* The pre-interned primitives may be named by every list.
LEMMA PrimitiveIn ==
    ASSUME NEW tb, Valid(tb), NEW tag \in {PrimitiveTag[i] : i \in 1 .. 14}
    PROVE  Primitive(tag) \in Idx(tb)
<1>1. PICK i \in DOMAIN PrimitiveTag : PrimitiveTag[i] = tag
  BY SeventeenPrimitives DEF PrimitiveTag
<1>2. Primitive(tag) \in DOMAIN PrimitiveTag /\ PrimitiveTag[Primitive(tag)] = tag
  BY <1>1 DEF Primitive
<1>3. Primitive(tag) \in 1 .. 17
  BY <1>2 DEF PrimitiveTag
<1>4. tag \notin {"Ref", "MutRef"}
  BY DEF PrimitiveTag
<1>5. 17 <= Len(tb.types) /\ tb.types[Primitive(tag)].tag = tag
  <2>1. 17 <= Len(tb.types)
    BY DEF Valid, PreInterned
  <2>2. tb.types[Primitive(tag)] = [tag |-> PrimitiveTag[Primitive(tag)], data |-> 0]
    BY <1>3 DEF Valid, PreInterned
  <2> QED BY <1>2, <2>1, <2>2
<1>6. Primitive(tag) \in 1 .. Len(tb.types)
  BY <1>3, <1>5, Fields DEF Valid
<1> QED BY <1>4, <1>5, <1>6 DEF Idx

\* The builder starts with tables that hold together.
LEMMA InitBuilderValid == Valid(InitBuilder)
<1>1. DOMAIN PrimitiveTag = 1 .. 17
  BY DEF PrimitiveTag
<1>2. /\ InitBuilder.types = [i \in 1 .. 17 |-> [tag |-> PrimitiveTag[i], data |-> 0]]
      /\ InitBuilder.structs = <<>> /\ InitBuilder.enums = <<>> /\ InitBuilder.variants = <<>>
      /\ InitBuilder.refs = <<>> /\ InitBuilder.tuples = <<>> /\ InitBuilder.arrays = <<>>
  BY <1>1 DEF InitBuilder
<1>3. InitBuilder.types \in Seq(Node) /\ Len(InitBuilder.types) = 17
  <2>1. \A i \in 1 .. 17 : [tag |-> PrimitiveTag[i], data |-> 0] \in Node
    BY <1>1 DEF Node, TypeTag
  <2> QED BY <1>2, <2>1
<1>4. InitBuilder \in Tables
  BY <1>2, <1>3 DEF InitBuilder, Tables
<1>5. PreInterned(InitBuilder)
  BY <1>2, <1>3 DEF PreInterned
<1>6. \A i \in 1 .. 17 : PrimitiveTag[i] \notin {"Struct", "Enum", "Array", "Tuple"}
  BY DEF PrimitiveTag
<1>7. IsTables(InitBuilder)
  <2>1. \A i \in 1 .. 17 : /\ InitBuilder.types[i].tag \in TypeTag
                           /\ InitBuilder.types[i].tag \notin {"Struct", "Enum", "Array", "Tuple"}
                           /\ i \notin Interned(InitBuilder)
    BY <1>1, <1>2, <1>3, <1>6, SeventeenPrimitives DEF TypeTag, Interned
  <2>2. /\ Len(InitBuilder.structs) = 0 /\ Len(InitBuilder.enums) = 0
        /\ Len(InitBuilder.variants) = 0 /\ Len(InitBuilder.refs) = 0
        /\ Len(InitBuilder.tuples) = 0 /\ Len(InitBuilder.arrays) = 0
    BY <1>2
  <2>3. \A i \in 1 .. 17 :
            LET n == InitBuilder.types[i] IN
            /\ n.tag \in TypeTag
            /\ n.tag = "Struct" => n.data \in 1 .. Len(InitBuilder.structs)
            /\ n.tag = "Enum" => n.data \in 1 .. Len(InitBuilder.enums)
            /\ n.tag = "Array" => n.data \in 1 .. Len(InitBuilder.arrays)
            /\ n.tag = "Tuple" => n.data \in 1 .. Len(InitBuilder.tuples)
            /\ n.tag \in {"Ref", "MutRef"} /\ i \in Interned(InitBuilder)
                  => n.data \in 1 .. Len(InitBuilder.refs)
    BY <2>1, Zenon
  <2>4. \A k : k \notin 1 .. 0
    OBVIOUS
  <2> QED BY <1>3, <2>2, <2>3, <2>4, Zenon DEF IsTables
<1> QED BY <1>4, <1>5, <1>7 DEF Valid

-----------------------------------------------------------------------------
(***************************************************************************)
(* The registry over those tables.                                         *)
(***************************************************************************)
FrameKind == {"Signature", "Struct", "Enum", "Tuple", "Ref", "MutRef", "Result", "Option"}
NominalKind == {"Struct", "Enum"}
Part(q) == [ty : TypeExpr, self : Registered(q) \cup {NoNominal}]
Place == Int \X Nat
FrameType(q) == [kind : FrameKind, item : Place, parts : Seq(Part(q)), done : Seq(Nat),
                 payloads : Seq(Seq(Nat)), head : Nat \ {0}, added : Nat]
NominalEntry == [type : Nat, started : BOOLEAN, complete : BOOLEAN]
Instance == [is_result : BOOLEAN, args : Seq(Nat), type : Nat]
SignatureEntry == [item : Place, sig : Nat, types : Seq(Nat),
                   receiver : {"None", "ByValue", "Shared", "Exclusive"}]

InIdx(c, list) == \A k \in 1 .. Len(list) : list[k] \in Idx(c)

NominalsFit(q, c, noms) ==
    /\ noms \in [Registered(q) -> NominalEntry]
    /\ \A n \in Registered(q) :
           /\ noms[n].type \in Idx(c)
           /\ noms[n].started => c.types[noms[n].type].tag = ItemAt(q, n).kind
           /\ noms[n].complete => noms[n].started

InstancesFit(c, list) ==
    /\ list \in Seq(Instance)
    /\ \A k \in 1 .. Len(list) : list[k].type \in Idx(c) /\ c.types[list[k].type].tag = "Enum"

\* What a call in progress holds: indexes of entries, and of an enum the run of
\* the variants appended so far.
FrameFits(q, c, f) ==
    /\ InIdx(c, f.done)
    /\ \A v \in 1 .. Len(f.payloads) : InIdx(c, f.payloads[v])
    /\ f.kind \in {"Ref", "MutRef", "Option"} => Len(f.parts) = 1
    /\ f.kind = "Result" => Len(f.parts) = 2
    /\ f.kind \in NominalKind => f.item \in Registered(q) /\ f.kind = ItemAt(q, f.item).kind
    /\ f.head + f.added <= Len(c.variants) + 1

StackFits(q, c, s) ==
    s \in Seq(FrameType(q)) /\ \A k \in 1 .. Len(s) : FrameFits(q, c, s[k])

\* A nominal has one call that interns it, and only until it is complete.
StackOnce(noms, s) ==
    /\ \A k \in 1 .. Len(s) :
           s[k].kind \in NominalKind => noms[s[k].item].started /\ ~noms[s[k].item].complete
    /\ \A j, k \in 1 .. Len(s) :
           /\ s[j].kind \in NominalKind /\ s[k].kind \in NominalKind
           /\ s[j].item = s[k].item
           => j = k

SigsFit(c, list) ==
    list \in Seq(SignatureEntry) /\ \A k \in 1 .. Len(list) : InIdx(c, list[k].types)

SameNodeIn(c, i, j) == c.types[i].tag = c.types[j].tag /\ c.types[i].data = c.types[j].data

\* Nominals and instances have entries of their own.
NodesDiffer(q, c, noms, list) ==
    /\ \A n, k \in Registered(q) :
           noms[n].started /\ noms[k].started /\ SameNodeIn(c, noms[n].type, noms[k].type) => n = k
    /\ \A n \in Registered(q) : \A i \in 1 .. Len(list) :
           noms[n].started => ~SameNodeIn(c, noms[n].type, list[i].type)
    /\ \A i, j \in 1 .. Len(list) : SameNodeIn(c, list[i].type, list[j].type) => i = j

PlaceFits(q, place) ==
    /\ IsProgram(q)
    /\ place \in [pass : {"Items", "Bodies", "Cycles", "Done"}, module : Modules(q),
                  item : Nat \ {0}, sig : Nat]

IInv ==
    /\ Valid(b)
    /\ PlaceFits(p, at)
    /\ NominalsFit(p, b, nominals)
    /\ InstancesFit(b, blessed)
    /\ StackFits(p, b, stack)
    /\ StackOnce(nominals, stack)
    /\ SigsFit(b, sigs)
    /\ NodesDiffer(p, b, nominals, blessed)

-----------------------------------------------------------------------------
\* What the tables held stays when they grow.
LEMMA InIdxGrows ==
    ASSUME NEW c, NEW d, Valid(c), Valid(d), Grows(c, d), NEW list, InIdx(c, list)
    PROVE  InIdx(d, list)
BY IdxGrows DEF InIdx, Valid

\* An entry stays what it is when the tables grow.
LEMMA TagsGrow ==
    ASSUME NEW c, NEW d, Valid(c), Valid(d), Grows(c, d), NEW i \in Idx(c)
    PROVE  i \in Idx(d) /\ d.types[i] = c.types[i]
<1>1. i \in Idx(d)
  BY IdxGrows DEF Valid
<1>2. d.types[i] = c.types[i]
  BY DEF Grows, Extends, Idx
<1> QED BY <1>1, <1>2

\* Nominals fit tables that grew.
LEMMA NominalsGrow ==
    ASSUME NEW q, NEW c, NEW d, Valid(c), Valid(d), Grows(c, d), NEW noms, NominalsFit(q, c, noms)
    PROVE  NominalsFit(q, d, noms)
BY TagsGrow DEF NominalsFit

\* Instances fit tables that grew.
LEMMA InstancesGrow ==
    ASSUME NEW c, NEW d, Valid(c), Valid(d), Grows(c, d), NEW list, InstancesFit(c, list)
    PROVE  InstancesFit(d, list)
BY TagsGrow DEF InstancesFit

\* A call in progress fits tables that grew.
LEMMA FrameGrows ==
    ASSUME NEW q, NEW c, NEW d, Valid(c), Valid(d), Grows(c, d),
           NEW f \in FrameType(q), FrameFits(q, c, f)
    PROVE  FrameFits(q, d, f)
<1>1. InIdx(d, f.done) /\ \A v \in 1 .. Len(f.payloads) : InIdx(d, f.payloads[v])
  BY InIdxGrows DEF FrameFits
<1>2. f.head + f.added <= Len(d.variants) + 1
  <2>1. Len(c.variants) \in Nat /\ Len(d.variants) \in Nat /\ f.head \in Nat /\ f.added \in Nat
    BY Fields DEF Valid, FrameType
  <2>2. Len(c.variants) <= Len(d.variants) /\ f.head + f.added <= Len(c.variants) + 1
    BY DEF Grows, Extends, FrameFits
  <2> QED BY <2>1, <2>2
<1> QED BY <1>1, <1>2 DEF FrameFits

\* So do all calls in progress.
LEMMA StackGrows ==
    ASSUME NEW q, NEW c, NEW d, Valid(c), Valid(d), Grows(c, d), NEW s, StackFits(q, c, s)
    PROVE  StackFits(q, d, s)
<1>1. \A k \in 1 .. Len(s) : s[k] \in FrameType(q) /\ FrameFits(q, c, s[k])
  BY DEF StackFits
<1>2. \A k \in 1 .. Len(s) : FrameFits(q, d, s[k])
  BY <1>1, FrameGrows
<1> QED BY <1>2 DEF StackFits

\* Signatures fit tables that grew.
LEMMA SigsGrow ==
    ASSUME NEW c, NEW d, Valid(c), Valid(d), Grows(c, d), NEW list, SigsFit(c, list)
    PROVE  SigsFit(d, list)
BY InIdxGrows DEF SigsFit

\* Entries that differ do so in tables that grew.
LEMMA NodesGrow ==
    ASSUME NEW q, NEW c, NEW d, Valid(c), Valid(d), Grows(c, d), NEW noms, NEW list,
           NominalsFit(q, c, noms), InstancesFit(c, list), NodesDiffer(q, c, noms, list)
    PROVE  NodesDiffer(q, d, noms, list)
<1>1. \A n \in Registered(q) : noms[n].type \in Idx(c)
  BY DEF NominalsFit
<1>2. \A k \in 1 .. Len(list) : list[k].type \in Idx(c)
  BY DEF InstancesFit
<1>3. \A i, j \in Idx(c) : SameNodeIn(d, i, j) <=> SameNodeIn(c, i, j)
  BY TagsGrow DEF SameNodeIn
<1> QED BY <1>1, <1>2, <1>3 DEF NodesDiffer

-----------------------------------------------------------------------------
\* The stack: the call on top changes, a call is entered, a call returns.
LEMMA TopIn ==
    ASSUME NEW q, NEW c, NEW s, StackFits(q, c, s), s # <<>>
    PROVE  /\ Len(s) \in 1 .. Len(s)
           /\ s[Len(s)] \in FrameType(q) /\ FrameFits(q, c, s[Len(s)])
BY DEF StackFits

\* The call on top may change all but its kind and item.
LEMMA StackTop ==
    ASSUME NEW q, NEW c, NEW noms, NEW s, StackFits(q, c, s), StackOnce(noms, s), s # <<>>,
           NEW f \in FrameType(q), FrameFits(q, c, f),
           f.kind = s[Len(s)].kind, f.item = s[Len(s)].item
    PROVE  LET t == [s EXCEPT ![Len(s)] = f] IN StackFits(q, c, t) /\ StackOnce(noms, t)
<1> DEFINE t == [s EXCEPT ![Len(s)] = f]
<1>1. s \in Seq(FrameType(q)) /\ Len(s) \in 1 .. Len(s)
  BY TopIn DEF StackFits
<1>2. /\ t \in Seq(FrameType(q)) /\ Len(t) = Len(s)
      /\ \A j \in 1 .. Len(s) : t[j] = IF j = Len(s) THEN f ELSE s[j]
  BY <1>1, ExceptSeq
<1> HIDE DEF t
<1>3. \A j \in 1 .. Len(s) : t[j].kind = s[j].kind /\ t[j].item = s[j].item
  BY <1>2
<1>4. StackFits(q, c, t)
  BY <1>2 DEF StackFits
<1>5. StackOnce(noms, t)
  BY <1>2, <1>3 DEF StackOnce
<1> QED BY <1>4, <1>5 DEF t

\* The call on top may get the index of an entry.
LEMMA StackAnswered ==
    ASSUME NEW q, NEW c, NEW noms, NEW s, StackFits(q, c, s), StackOnce(noms, s), s # <<>>,
           NEW idx \in Idx(c)
    PROVE  StackFits(q, c, Answered(s, idx)) /\ StackOnce(noms, Answered(s, idx))
<1> DEFINE top == s[Len(s)]
           f   == [top EXCEPT !.done = Append(top.done, idx)]
<1>1. top \in FrameType(q) /\ FrameFits(q, c, top)
  BY TopIn
<1>2. idx \in Nat
  BY DEF Idx
<1>3. /\ Append(top.done, idx) \in Seq(Nat) /\ Len(Append(top.done, idx)) = Len(top.done) + 1
      /\ \A k \in 1 .. Len(top.done) : Append(top.done, idx)[k] = top.done[k]
      /\ Append(top.done, idx)[Len(top.done) + 1] = idx /\ Len(top.done) \in Nat
  BY <1>1, <1>2, AppendProperties DEF FrameType
<1>4. InIdx(c, Append(top.done, idx))
  <2> SUFFICES ASSUME NEW k \in 1 .. Len(top.done) + 1
               PROVE  Append(top.done, idx)[k] \in Idx(c)
    BY <1>3 DEF InIdx
  <2>1. CASE k = Len(top.done) + 1
    BY <1>3, <2>1
  <2>2. CASE k # Len(top.done) + 1
    <3>1. k \in 1 .. Len(top.done)
      BY <1>3, <2>2
    <3> QED BY <1>1, <1>3, <3>1 DEF FrameFits, InIdx
  <2> QED BY <2>1, <2>2
<1>5. /\ f \in FrameType(q) /\ f.done = Append(top.done, idx) /\ f.payloads = top.payloads
      /\ f.kind = top.kind /\ f.item = top.item /\ f.parts = top.parts
      /\ f.head = top.head /\ f.added = top.added
  BY <1>1, <1>3 DEF FrameType
<1>6. FrameFits(q, c, f)
  BY <1>1, <1>4, <1>5 DEF FrameFits
<1>7. Answered(s, idx) = [s EXCEPT ![Len(s)] = f]
  BY DEF Answered
<1>8. f.kind = s[Len(s)].kind /\ f.item = s[Len(s)].item
  BY <1>5
<1> HIDE DEF f
<1>9. LET t == [s EXCEPT ![Len(s)] = f] IN StackFits(q, c, t) /\ StackOnce(noms, t)
  BY <1>5, <1>6, <1>8, StackTop
<1> QED BY <1>7, <1>9

\* What a call returns to is a stack.
LEMMA StackBelow ==
    ASSUME NEW q, NEW c, NEW noms, NEW s, StackFits(q, c, s), StackOnce(noms, s), s # <<>>
    PROVE  LET t == SubSeq(s, 1, Len(s) - 1) IN
           /\ StackFits(q, c, t) /\ StackOnce(noms, t)
           /\ Len(t) = Len(s) - 1 /\ \A k \in 1 .. Len(t) : t[k] = s[k]
<1> DEFINE t == SubSeq(s, 1, Len(s) - 1)
<1>1. s \in Seq(FrameType(q)) /\ Len(s) \in Nat \ {0}
  BY TopIn DEF StackFits
<1>2. t \in Seq(FrameType(q)) /\ Len(t) = Len(s) - 1 /\ \A k \in 1 .. Len(t) : t[k] = s[k]
  <2>1. PICK n \in Nat : Len(s) = n + 1 /\ Len(s) - 1 = n
    BY <1>1
  <2>2. \A i \in 1 .. n : s[i] \in FrameType(q)
    BY <1>1, <2>1
  <2>3. /\ SubSeq(s, 1, n) \in Seq(FrameType(q))
        /\ Len(SubSeq(s, 1, n)) = IF 1 <= n THEN n - 1 + 1 ELSE 0
        /\ \A i \in 1 .. n - 1 + 1 : SubSeq(s, 1, n)[i] = s[1 + i - 1]
    BY <2>2, SubSeqProperties
  <2>4. Len(SubSeq(s, 1, n)) = n /\ \A i \in 1 .. n : SubSeq(s, 1, n)[i] = s[i]
    BY <2>3
  <2> QED BY <2>1, <2>3, <2>4
<1> HIDE DEF t
<1>3. \A k \in 1 .. Len(t) : k \in 1 .. Len(s)
  BY <1>1, <1>2
<1>4. StackFits(q, c, t)
  BY <1>2, <1>3 DEF StackFits
<1>5. StackOnce(noms, t)
  BY <1>2, <1>3 DEF StackOnce
<1> QED BY <1>2, <1>4, <1>5 DEF t

\* The empty stack fits all tables.
LEMMA StackEmpty ==
    ASSUME NEW q, NEW c, NEW noms
    PROVE  StackFits(q, c, <<>>) /\ StackOnce(noms, <<>>)
BY DEF StackFits, StackOnce

\* A frame just entered.
LEMMA StackPushed ==
    ASSUME NEW q, NEW c, Valid(c), NEW noms, NEW s, StackFits(q, c, s), StackOnce(noms, s),
           NEW kind \in FrameKind, NEW item \in Place, NEW parts \in Seq(Part(q)),
           kind \in {"Ref", "MutRef", "Option"} => Len(parts) = 1,
           kind = "Result" => Len(parts) = 2,
           kind \in NominalKind =>
               /\ item \in Registered(q) /\ kind = ItemAt(q, item).kind
               /\ noms[item].started /\ ~noms[item].complete
               /\ \A k \in 1 .. Len(s) : s[k].kind \in NominalKind => s[k].item # item
    PROVE  LET t == Append(s, Frame(kind, item, parts)) IN StackFits(q, c, t) /\ StackOnce(noms, t)
<1> DEFINE f == Frame(kind, item, parts)
           t == Append(s, f)
<1>1. /\ f \in FrameType(q) /\ f.kind = kind /\ f.item = item /\ f.parts = parts
      /\ f.done = <<>> /\ f.payloads = <<>> /\ f.head = 1 /\ f.added = 0
  BY DEF Frame, FrameType
<1>2. FrameFits(q, c, f)
  <2>1. Len(c.variants) \in Nat
    BY Fields DEF Valid
  <2> QED BY <1>1, <2>1 DEF FrameFits, InIdx
<1> HIDE DEF f
<1>3. /\ t \in Seq(FrameType(q)) /\ Len(t) = Len(s) + 1 /\ Len(s) \in Nat
      /\ \A k \in 1 .. Len(s) : t[k] = s[k]
      /\ t[Len(s) + 1] = f
  BY <1>1, AppendProperties DEF StackFits
<1> HIDE DEF t
<1>4. \A k \in 1 .. Len(t) : k \in 1 .. Len(s) \/ k = Len(s) + 1
  BY <1>3
<1>5. StackFits(q, c, t)
  BY <1>2, <1>3, <1>4 DEF StackFits
<1>6. StackOnce(noms, t)
  BY <1>1, <1>3, <1>4 DEF StackOnce
<1> QED BY <1>5, <1>6 DEF t, f

\* Expressions with what Self means in them can be the parts of a frame.
LEMMA SeeingTyped ==
    ASSUME NEW q, NEW self \in Registered(q) \cup {NoNominal}, NEW list \in Seq(TypeExpr)
    PROVE  Seeing(self, list) \in Seq(Part(q)) /\ Len(Seeing(self, list)) = Len(list)
<1>1. Len(list) \in Nat /\ \A k \in 1 .. Len(list) : [ty |-> list[k], self |-> self] \in Part(q)
  BY DEF Part
<1> QED BY <1>1, IsASeq DEF Seeing

-----------------------------------------------------------------------------
\* What a lookup finds is registered.
LEMMA FindNominalIn ==
    ASSUME NEW q, NEW m, NEW name
    PROVE  FindNominal(q, m, name) \in Registered(q) \cup {NoNominal}
BY DEF FindNominal

\* A path without imports leads to a registered nominal, or to none.
LEMMA PathNominalIn ==
    ASSUME NEW q, NEW m, NEW path
    PROVE  PathNominal(q, m, path) \in Registered(q) \cup {NoNominal}
BY FindNominalIn DEF PathNominal

\* So does a path that may name an import.
LEMMA TypeNominalIn ==
    ASSUME NEW q, NEW m, NEW path
    PROVE  TypeNominal(q, m, path) \in Registered(q) \cup {NoNominal}
BY FindNominalIn, PathNominalIn DEF TypeNominal, ImportedNominal

\* So does the subject of an impl block.
LEMMA ImplNominalIn ==
    ASSUME NEW q, NEW n
    PROVE  ImplNominal(q, n) \in Registered(q) \cup {NoNominal}
BY PathNominalIn DEF ImplNominal

\* A registered nominal is a struct or an enum of the program.
LEMMA RegisteredItem ==
    ASSUME NEW q, IsProgram(q), NEW n \in Registered(q)
    PROVE  /\ n \in Place /\ n # NoNominal
           /\ ItemAt(q, n) \in Item /\ ItemAt(q, n).kind \in NominalKind
<1>1. PICK m \in Modules(q) : n \in {m} \X (1 .. Len(q.items[m]))
  BY DEF Registered, Items
<1>2. m \in Int /\ m # kNoModule
  <2>1. q.count \in Nat
    BY DEF IsProgram
  <2> QED BY <1>1, <2>1 DEF Modules, kNoModule
<1>3. q.items[m] \in Seq(Item)
  BY <1>1 DEF IsProgram
<1>4. n = <<m, n[2]>> /\ n[1] = m /\ n[2] \in 1 .. Len(q.items[m]) /\ Len(q.items[m]) \in Nat
  BY <1>1, <1>3
<1>5. ItemAt(q, n) \in Item
  BY <1>3, <1>4 DEF ItemAt
<1>6. n \in Place /\ n # NoNominal
  BY <1>2, <1>4 DEF Place, NoNominal
<1>7. ItemAt(q, n).kind \in NominalKind
  BY DEF Registered, IsNominal, NominalKind
<1> QED BY <1>5, <1>6, <1>7

-----------------------------------------------------------------------------
\* A table that extends another has it as a prefix.
LEMMA Prefix ==
    ASSUME NEW S, NEW s \in Seq(S), NEW t \in Seq(S), Extends(s, t)
    PROVE  IsPrefix(s, t)
<1>1. Len(s) \in Nat /\ Len(t) \in Nat /\ Len(s) <= Len(t)
  BY DEF Extends
<1>2. \A i \in 1 .. Len(s) : t[i] \in S
  BY DEF Extends
<1>3. /\ SubSeq(t, 1, Len(s)) \in Seq(S)
      /\ Len(SubSeq(t, 1, Len(s))) = IF 1 <= Len(s) THEN Len(s) - 1 + 1 ELSE 0
      /\ \A i \in 1 .. Len(s) - 1 + 1 : SubSeq(t, 1, Len(s))[i] = t[1 + i - 1]
  BY <1>1, <1>2, SubSeqProperties
<1>4. /\ Len(SubSeq(t, 1, Len(s))) = Len(s)
      /\ \A i \in 1 .. Len(s) : SubSeq(t, 1, Len(s))[i] = t[i]
  BY <1>1, <1>3
<1>5. s = SubSeq(t, 1, Len(s))
  BY <1>3, <1>4, SeqEqual DEF Extends
<1> QED BY <1>1, <1>5 DEF IsPrefix

\* Tables that grow are the tables the property asks for.
LEMMA GrowsStay == ASSUME Valid(b), Valid(b'), Grows(b, b') PROVE TablesGrow
BY Fields, Prefix DEF Valid, Grows, TablesGrow

\* A nominal that is started is left alone.
NominalsStay ==
    \A n \in Registered(p) : nominals[n].started => nominals'[n] = nominals[n]

\* Nothing complete changes when the tables keep what they hold.
LEMMA KeepsStay ==
    ASSUME Valid(b), Valid(b'), Keeps(b, b'), NominalsFit(p, b, nominals),
           IsProgram(p), p' = p, NominalsStay
    PROVE  TablesGrow /\ CompleteStays
<1>1. TablesGrow
  BY GrowsStay DEF Keeps
<1>2. ASSUME NEW n \in Registered(p), nominals[n].complete
      PROVE  Contents(n)' = Contents(n)
  <2>1. nominals[n].started /\ nominals[n].type \in Idx(b)
    BY <1>2 DEF NominalsFit
  <2>2. nominals'[n] = nominals[n]
    BY <2>1 DEF NominalsStay
  <2>3. b'.types[nominals[n].type] = b.types[nominals[n].type]
    BY <2>1, TagsGrow DEF Keeps
  <2>4. NodeFits(b, b.types[nominals[n].type])
    BY <2>1, NodesFit
  <2>5. b.types[nominals[n].type].tag = ItemAt(p, n).kind /\ ItemAt(p, n).kind \in NominalKind
    BY <2>1, RegisteredItem DEF NominalsFit
  <2>6. CASE ItemAt(p, n).kind = "Struct"
    <3>1. b'.structs[b.types[nominals[n].type].data] = b.structs[b.types[nominals[n].type].data]
      BY <2>4, <2>5, <2>6 DEF NodeFits, Keeps, Extends
    <3> QED BY <2>2, <2>3, <2>6, <3>1 DEF Contents
  <2>7. CASE ItemAt(p, n).kind = "Enum"
    <3>1. b'.enums[b.types[nominals[n].type].data] = b.enums[b.types[nominals[n].type].data]
      BY <2>4, <2>5, <2>7 DEF NodeFits, Keeps, Extends
    <3> QED BY <2>2, <2>3, <2>7, <3>1 DEF Contents
  <2> QED BY <2>5, <2>6, <2>7 DEF NominalKind
<1>3. CompleteStays
  BY <1>2 DEF CompleteStays, NominalsStay, NominalsFit
<1> QED BY <1>1, <1>3

\* A step that leaves the nominals and instances alone.
LEMMA QuietStep ==
    ASSUME IInv, Valid(b'), Keeps(b, b'), UNCHANGED <<p, nominals, blessed>>
    PROVE  /\ NominalsFit(p', b', nominals') /\ InstancesFit(b', blessed')
           /\ NodesDiffer(p', b', nominals', blessed')
           /\ StackFits(p', b', stack) /\ StackOnce(nominals', stack) /\ SigsFit(b', sigs)
           /\ TablesGrow /\ CompleteStays
<1>1. Valid(b) /\ Grows(b, b') /\ p' = p /\ nominals' = nominals /\ blessed' = blessed
  BY DEF IInv, Keeps
<1>2. NominalsFit(p, b', nominals) /\ InstancesFit(b', blessed)
  BY <1>1, NominalsGrow, InstancesGrow DEF IInv
<1>3. NodesDiffer(p, b', nominals, blessed)
  BY <1>1, NodesGrow DEF IInv
<1>4. StackFits(p, b', stack) /\ SigsFit(b', sigs)
  BY <1>1, StackGrows, SigsGrow DEF IInv
<1>5. TablesGrow /\ CompleteStays
  BY <1>1, KeepsStay DEF IInv, NominalsStay, PlaceFits
<1>6. StackOnce(nominals, stack)
  BY DEF IInv
<1> QED BY <1>1, <1>2, <1>3, <1>4, <1>5, <1>6

\* A step that leaves the tables alone keeps what they hold.
LEMMA SameTables == ASSUME Valid(b), b' = b PROVE Valid(b') /\ Keeps(b, b')
BY GrowsRefl DEF Valid

\* The call on top returns.
LEMMA StackReturned ==
    ASSUME NEW q, NEW c, NEW noms, StackFits(q, c, stack), StackOnce(noms, stack), stack # <<>>,
           NEW idx \in Idx(c)
    PROVE  StackFits(q, c, Returned(idx)) /\ StackOnce(noms, Returned(idx))
<1>1. StackFits(q, c, Below) /\ StackOnce(noms, Below)
  BY StackBelow DEF Below
<1>2. CASE Below = <<>>
  BY <1>2, StackEmpty DEF Returned
<1>3. CASE Below # <<>>
  BY <1>1, <1>3, StackAnswered DEF Returned
<1> QED BY <1>2, <1>3

-----------------------------------------------------------------------------
\* register_nominals leaves the registry in the invariant.
LEMMA InitInv == Init => IInv
<1> SUFFICES ASSUME Init PROVE IInv
  OBVIOUS
<1>1. Valid(b)
  BY InitBuilderValid DEF Init
<1>2. IsProgram(p)
  BY FamiliesAssumption DEF Init
<1>3. PlaceFits(p, at)
  <2>1. p.count \in Nat \ {0}
    BY <1>2 DEF IsProgram
  <2>2. 0 \in Modules(p)
    BY <2>1 DEF Modules
  <2> QED BY <1>2, <2>2 DEF Init, PlaceFits
<1>4. \A n \in Registered(p) :
          nominals[n] = [type |-> 1, started |-> FALSE, complete |-> FALSE]
  BY DEF Init
<1>5. NominalsFit(p, b, nominals)
  <2>1. 1 \in Idx(b)
    <3>1. Primitive("Void") \in Idx(b)
      <4>1. "Void" \in {PrimitiveTag[i] : i \in 1 .. 14}
        BY DEF PrimitiveTag
      <4> QED BY <1>1, <4>1, PrimitiveIn
    <3>2. 17 <= Len(b.types) /\ b.types[1] = [tag |-> PrimitiveTag[1], data |-> 0]
      BY <1>1 DEF Valid, PreInterned
    <3>3. PrimitiveTag[1] = "Void"
      BY DEF PrimitiveTag
    <3>4. Len(b.types) \in Nat
      BY <1>1, Fields DEF Valid
    <3> QED BY <3>2, <3>3, <3>4 DEF Idx
  <2>2. nominals \in [Registered(p) -> NominalEntry]
    BY DEF Init, NominalEntry
  <2> QED BY <1>4, <2>1, <2>2 DEF NominalsFit
<1>6. blessed = <<>> /\ stack = <<>> /\ sigs = <<>>
  BY DEF Init
<1>7. InstancesFit(b, blessed) /\ SigsFit(b, sigs)
  BY <1>6 DEF InstancesFit, SigsFit
<1>8. StackFits(p, b, stack) /\ StackOnce(nominals, stack)
  BY <1>6, StackEmpty
<1>9. NodesDiffer(p, b, nominals, blessed)
  BY <1>4, <1>6 DEF NodesDiffer
<1> QED BY <1>1, <1>3, <1>5, <1>7, <1>8, <1>9 DEF IInv

-----------------------------------------------------------------------------
(***************************************************************************)
(* One lemma for each action: it keeps the invariant, the tables only grow *)
(* and a complete nominal stays as it is.                                  *)
(***************************************************************************)
Stays == TablesGrow /\ CompleteStays

\* What is under way when a call is on top.
LEMMA OnTop ==
    ASSUME IInv, stack # <<>>
    PROVE  /\ Top \in FrameType(p) /\ FrameFits(p, b, Top)
           /\ Len(Top.done) \in Nat /\ Len(Top.parts) \in Nat /\ Top.item \in Place
<1>1. Top \in FrameType(p) /\ FrameFits(p, b, Top)
  BY TopIn DEF IInv, Top
<1> QED BY <1>1 DEF FrameType

\* The expression to resolve next is one, and its Self is a nominal or none.
LEMMA PendingTyped ==
    ASSUME IInv, Resolving
    PROVE  stack # <<>> /\ Expr \in TypeExpr /\ Self \in Registered(p) \cup {NoNominal}
<1>1. stack # <<>> /\ Len(Top.done) < Len(Top.parts)
  BY DEF Resolving
<1>2. Len(Top.done) + 1 \in 1 .. Len(Top.parts) /\ Top.parts \in Seq(Part(p))
  BY <1>1, OnTop DEF FrameType
<1>3. Pending \in Part(p)
  BY <1>2 DEF Pending
<1> QED BY <1>1, <1>3 DEF Expr, Self, Part

\* The tables grow by what a factory makes, and the call on top gets the index.
LEMMA AnsweredStep ==
    ASSUME IInv, stack # <<>>, NEW made, MadeOK(b, made), b' = made.builder,
           stack' = Answered(stack, made.idx), UNCHANGED <<p, at, nominals, blessed, sigs>>
    PROVE  IInv' /\ Stays
<1>1. Valid(b') /\ Keeps(b, b') /\ made.idx \in Idx(b')
  BY DEF MadeOK
<1>2. /\ NominalsFit(p', b', nominals') /\ InstancesFit(b', blessed')
      /\ NodesDiffer(p', b', nominals', blessed')
      /\ StackFits(p', b', stack) /\ StackOnce(nominals', stack) /\ SigsFit(b', sigs)
      /\ Stays
  BY <1>1, QuietStep DEF Stays
<1>3. StackFits(p', b', stack') /\ StackOnce(nominals', stack')
  BY <1>1, <1>2, StackAnswered
<1>4. PlaceFits(p', at') /\ SigsFit(b', sigs')
  BY <1>2 DEF IInv
<1> QED BY <1>1, <1>2, <1>3, <1>4 DEF IInv

\* The same when the call returns the index to the one below.
LEMMA ReturnedStep ==
    ASSUME IInv, stack # <<>>, NEW made, MadeOK(b, made), b' = made.builder,
           stack' = Returned(made.idx), UNCHANGED <<p, at, nominals, blessed, sigs>>
    PROVE  IInv' /\ Stays
<1>1. Valid(b') /\ Keeps(b, b') /\ made.idx \in Idx(b')
  BY DEF MadeOK
<1>2. /\ NominalsFit(p', b', nominals') /\ InstancesFit(b', blessed')
      /\ NodesDiffer(p', b', nominals', blessed')
      /\ StackFits(p', b', stack) /\ StackOnce(nominals', stack) /\ SigsFit(b', sigs)
      /\ Stays
  BY <1>1, QuietStep DEF Stays
<1>3. StackFits(p', b', stack') /\ StackOnce(nominals', stack')
  BY <1>1, <1>2, StackReturned
<1>4. PlaceFits(p', at') /\ SigsFit(b', sigs')
  BY <1>2 DEF IInv
<1> QED BY <1>1, <1>2, <1>3, <1>4 DEF IInv

\* An index looked up is as good as one made.
LEMMA MadeSame ==
    ASSUME Valid(b), NEW idx \in Idx(b)
    PROVE  MadeOK(b, Made(b, idx)) /\ Made(b, idx).builder = b /\ Made(b, idx).idx = idx
BY GrowsRefl DEF Valid, MadeOK, Made

\* resolve_type of a keyword: the entry is pre-interned.
LEMMA ResolvePrimitiveStep == ASSUME IInv, ResolvePrimitive PROVE IInv' /\ Stays
<1> DEFINE tag == PrimitiveTagOf(p, Expr)
<1>1. stack # <<>> /\ Expr \in TypeExpr /\ Expr.kind \in {"Primitive", "Unit"} /\ Valid(b)
  BY PendingTyped DEF ResolvePrimitive, IInv
<1>2. tag \in {PrimitiveTag[i] : i \in 1 .. 14}
  <2>1. {PrimitiveTag[i] : i \in 1 .. 14} =
            {"Void", "I1", "I8", "I16", "I32", "I64", "U8", "U16", "U32", "U64",
             "F32", "F64", "Str", "Ptr"}
    BY DEF PrimitiveTag
  <2>2. CASE Expr.kind = "Unit"
    BY <2>1, <2>2 DEF PrimitiveTagOf
  <2>3. CASE Expr.kind = "Primitive"
    <3>1. Expr.tag \in PrimitiveKind
      BY <1>1, <2>3, TypeExprAssumption
    <3>2. Expr.tag \notin {"I128", "U128"}
      BY <2>3 DEF ResolvePrimitive, Fails, Failure
    <3> QED BY <2>1, <2>3, <3>1, <3>2 DEF PrimitiveTagOf, PrimitiveKind
  <2> QED BY <1>1, <2>2, <2>3
<1>3. Primitive(tag) \in Idx(b)
  BY <1>1, <1>2, PrimitiveIn
<1> QED BY <1>1, <1>3, MadeSame, AnsweredStep DEF ResolvePrimitive

\* resolve_type of `!`.
LEMMA ResolveNeverStep == ASSUME IInv, ResolveNever PROVE IInv' /\ Stays
<1>1. stack # <<>> /\ MadeOK(b, SingleType(b, "Never"))
  BY SingleTypeMakes DEF IInv, ResolveNever, Resolving
<1> QED BY <1>1, AnsweredStep DEF ResolveNever

\* resolve_type that fails: the error type stands in.
LEMMA ResolveFailedStep == ASSUME IInv, ResolveFailed PROVE IInv' /\ Stays
<1>1. stack # <<>> /\ MadeOK(b, SingleType(b, "Error"))
  BY SingleTypeMakes DEF IInv, ResolveFailed, Resolving
<1> QED BY <1>1, AnsweredStep DEF ResolveFailed

\* resolve_type of Self: the entry of the impl block's nominal.
LEMMA ResolveSelfStep == ASSUME IInv, ResolveSelf PROVE IInv' /\ Stays
<1>1. stack # <<>> /\ Self \in Registered(p) \cup {NoNominal} /\ Valid(b)
  BY PendingTyped DEF IInv, ResolveSelf
<1>2. Self # NoNominal
  BY DEF ResolveSelf, Fails, Failure, IsSelf
<1>3. nominals[Self].type \in Idx(b)
  BY <1>1, <1>2 DEF IInv, NominalsFit
<1> QED BY <1>1, <1>3, MadeSame, AnsweredStep DEF ResolveSelf

\* A path that does not fail names a registered nominal.
LEMMA NamedIn == ASSUME NamesNominal, ~Fails PROVE Named \in Registered(p)
<1>1. /\ Expr.kind = "Path" /\ ~IsSelf(Expr) /\ ~IsBlessed(Expr)
      /\ Failure(p, InModule, Self, Expr) = ""
  BY DEF NamesNominal, Fails
<1>2. TypeNominal(p, InModule, Expr.path) # NoNominal
  <2> SUFFICES ASSUME TypeNominal(p, InModule, Expr.path) = NoNominal PROVE FALSE
    OBVIOUS
  <2>1. CASE Expr.args = <<>>
    BY <1>1, <2>1 DEF Failure
  <2>2. CASE Expr.args # <<>>
    BY <1>1, <2>2 DEF Failure
  <2> QED BY <2>1, <2>2
<1> QED BY <1>2, TypeNominalIn DEF Named

\* resolve_type of a nominal reserved before, filled or not.
LEMMA ResolveNominalStep == ASSUME IInv, ResolveNominal PROVE IInv' /\ Stays
<1>1. stack # <<>> /\ Named \in Registered(p) /\ Valid(b)
  BY NamedIn DEF IInv, ResolveNominal, Resolving
<1>2. nominals[Named].type \in Idx(b)
  BY <1>1 DEF IInv, NominalsFit
<1> QED BY <1>1, <1>2, MadeSame, AnsweredStep DEF ResolveNominal

\* resolve_type of a tuple, once its elements are resolved.
LEMMA FinishTupleStep == ASSUME IInv, FinishTuple PROVE IInv' /\ Stays
<1> DEFINE list == Top.done
           c    == AppendCopies(b, list)
           made == TupleType(c, CopiesRange(b, list))
<1>1. stack # <<>> /\ Valid(b) /\ list \in Seq(Nat) /\ \A k \in 1 .. Len(list) : list[k] \in Idx(b)
  BY OnTop DEF IInv, FinishTuple, Ready, FrameType, FrameFits, InIdx
<1>2. /\ Valid(c) /\ Keeps(b, c)
      /\ CopiesRange(b, list) \in RunRange /\ IsRun(CopiesRange(b, list), c.types)
  BY <1>1, CopiesKeep
<1>3. MadeOK(c, made)
  BY <1>2, TupleTypeMakes
<1>4. MadeOK(b, made)
  BY <1>1, <1>2, <1>3, KeepsTrans DEF MadeOK, Valid
<1> QED BY <1>1, <1>4, ReturnedStep DEF FinishTuple

\* resolve_type of a reference, once its pointee is resolved.
LEMMA FinishReferenceStep == ASSUME IInv, FinishReference PROVE IInv' /\ Stays
<1> DEFINE made == ReferenceType(b, Top.done[1], Top.kind = "MutRef")
<1>1. stack # <<>> /\ Valid(b) /\ Len(Top.done) = 1
  BY OnTop DEF IInv, FinishReference, Ready, FrameFits
<1>2. Top.done[1] \in 1 .. Len(b.types)
  BY <1>1, OnTop DEF FrameFits, InIdx, Idx
<1>3. MadeOK(b, made)
  BY <1>1, <1>2, ReferenceTypeMakes
<1> QED BY <1>1, <1>3, ReturnedStep DEF FinishReference

\* intern_blessed that finds the instance.
LEMMA FinishBlessedFoundStep == ASSUME IInv, FinishBlessedFound PROVE IInv' /\ Stays
<1> DEFINE same == Instances(Top.kind = "Result", Top.done)
<1>1. stack # <<>> /\ Valid(b) /\ same # {} /\ same \in SUBSET Nat
  BY DEF IInv, FinishBlessedFound, Ready, Instances
<1>2. Lowest(same) \in 1 .. Len(blessed)
  BY <1>1, LowestIn DEF Instances
<1>3. blessed[Lowest(same)].type \in Idx(b)
  BY <1>2 DEF IInv, InstancesFit
<1> QED BY <1>1, <1>3, MadeSame, ReturnedStep DEF FinishBlessedFound

\* resolve_type of a tuple, reference or instance, up to its first part.
LEMMA EnterPartsStep == ASSUME IInv, EnterParts PROVE IInv' /\ Stays
<1> DEFINE parts == Seeing(Self, Expr.args)
<1>1. /\ stack # <<>> /\ Expr \in TypeExpr /\ Self \in Registered(p) \cup {NoNominal}
      /\ Top.item \in Place /\ Valid(b)
  BY PendingTyped, OnTop DEF IInv, EnterParts
<1>2. Expr.args \in Seq(TypeExpr) /\ (Expr.kind = "Ref" => Len(Expr.args) = 1)
  BY <1>1, TypeExprAssumption
<1>3. parts \in Seq(Part(p)) /\ Len(parts) = Len(Expr.args)
  BY <1>1, <1>2, SeeingTyped
<1>4. IsBlessed(Expr) => Len(Expr.args) = Arity(Expr)
  <2> SUFFICES ASSUME IsBlessed(Expr), Len(Expr.args) # Arity(Expr) PROVE FALSE
    OBVIOUS
  <2>1. Expr.kind = "Path" /\ Expr.path \in {<<"Result">>, <<"Option">>} /\ ~IsSelf(Expr)
    BY DEF IsBlessed, IsSelf
  <2>2. Failure(p, InModule, Self, Expr) = ""
    BY DEF EnterParts, Fails
  <2> QED BY <2>1, <2>2 DEF Failure
<1>5. /\ PartsKind \in {"Tuple", "Ref", "MutRef", "Result", "Option"}
      /\ PartsKind \in {"Ref", "MutRef", "Option"} => Len(parts) = 1
      /\ PartsKind = "Result" => Len(parts) = 2
  <2>1. CASE Expr.kind = "Tuple"
    BY <2>1 DEF PartsKind
  <2>2. CASE Expr.kind = "Ref"
    BY <1>2, <1>3, <2>2 DEF PartsKind
  <2>3. CASE IsBlessed(Expr)
    <3>1. Expr.kind = "Path" /\ Expr.path \in {<<"Result">>, <<"Option">>}
      BY <2>3 DEF IsBlessed
    <3>2. PartsKind = Expr.path[1]
      BY <3>1 DEF PartsKind
    <3>3. Len(parts) = Arity(Expr)
      BY <1>3, <1>4, <2>3
    <3>4. CASE Expr.path = <<"Result">>
      BY <3>2, <3>3, <3>4 DEF Arity
    <3>5. CASE Expr.path = <<"Option">>
      BY <3>2, <3>3, <3>5 DEF Arity
    <3> QED BY <3>1, <3>4, <3>5
  <2> QED BY <2>1, <2>2, <2>3 DEF EnterParts
<1>6. Valid(b') /\ Keeps(b, b')
  BY <1>1, SameTables DEF EnterParts
<1>7. /\ NominalsFit(p', b', nominals') /\ InstancesFit(b', blessed')
      /\ NodesDiffer(p', b', nominals', blessed')
      /\ StackFits(p', b', stack) /\ StackOnce(nominals', stack) /\ SigsFit(b', sigs)
      /\ Stays
  BY <1>6, QuietStep DEF Stays, EnterParts
<1>8. /\ stack' = Append(stack, Frame(PartsKind, Top.item, parts))
      /\ p' = p /\ at' = at /\ sigs' = sigs
  BY DEF EnterParts
<1> HIDE DEF parts
<1>9. StackFits(p', b', stack') /\ StackOnce(nominals', stack')
  BY <1>1, <1>3, <1>5, <1>6, <1>7, <1>8, StackPushed DEF FrameKind, NominalKind
<1>10. PlaceFits(p', at')
  BY <1>8 DEF IInv
<1> QED BY <1>6, <1>7, <1>8, <1>9, <1>10 DEF IInv

\* An entry made for a nominal or an instance is no other's.
LEMMA FreshStruct ==
    ASSUME NEW c, NEW d, Valid(c), Valid(d), Keeps(c, d), NEW idx,
           d.types[idx] = [tag |-> "Struct", data |-> Len(c.structs) + 1], NEW i \in Idx(c)
    PROVE  ~SameNodeIn(d, idx, i) /\ ~SameNodeIn(d, i, idx)
<1>1. d.types[i] = c.types[i] /\ NodeFits(c, c.types[i])
  BY TagsGrow, NodesFit DEF Keeps
<1>2. Len(c.structs) \in Nat
  BY Fields DEF Valid
<1>3. d.types[i].tag = "Struct" => d.types[i].data \in 1 .. Len(c.structs)
  BY <1>1 DEF NodeFits
<1> QED BY <1>2, <1>3 DEF SameNodeIn

\* The same for an enum.
LEMMA FreshEnum ==
    ASSUME NEW c, NEW d, Valid(c), Valid(d), Keeps(c, d), NEW idx,
           d.types[idx] = [tag |-> "Enum", data |-> Len(c.enums) + 1], NEW i \in Idx(c)
    PROVE  ~SameNodeIn(d, idx, i) /\ ~SameNodeIn(d, i, idx)
<1>1. d.types[i] = c.types[i] /\ NodeFits(c, c.types[i])
  BY TagsGrow, NodesFit DEF Keeps
<1>2. Len(c.enums) \in Nat
  BY Fields DEF Valid
<1>3. d.types[i].tag = "Enum" => d.types[i].data \in 1 .. Len(c.enums)
  BY <1>1 DEF NodeFits
<1> QED BY <1>2, <1>3 DEF SameNodeIn

\* intern_blessed that makes the instance: two variants, then the enum.
LEMMA FinishBlessedNewStep == ASSUME IInv, FinishBlessedNew PROVE IInv' /\ Stays
<1> DEFINE is_result == Top.kind = "Result"
           ok   == AppendVariant(b, IdxRange(Top.done[1], 1))
           other == IF is_result THEN IdxRange(Top.done[2], 1) ELSE NoSlots
           both == AppendVariant(ok, other)
           run  == IdxRange(Len(b.variants) + 1, 2)
           made == EnumType(both, run)
           new  == [is_result |-> is_result, args |-> Top.done, type |-> made.idx]
<1>1. /\ stack # <<>> /\ Valid(b) /\ Len(Top.done) = Len(Top.parts)
      /\ Top.kind \in {"Result", "Option"} /\ FrameFits(p, b, Top) /\ Top.done \in Seq(Nat)
  BY OnTop DEF IInv, FinishBlessedNew, Ready, FrameType
<1>2. /\ Top.done[1] \in 1 .. Len(b.types)
      /\ is_result => Top.done[2] \in 1 .. Len(b.types)
  <2>1. Len(Top.done) \in {1, 2} /\ (is_result => Len(Top.done) = 2)
    BY <1>1 DEF FrameFits
  <2> QED BY <1>1, <2>1 DEF FrameFits, InIdx, Idx
<1>3. b \in Tables /\ Len(b.types) \in Nat /\ Len(b.variants) \in Nat
  BY <1>1, Fields DEF Valid
<1>4. IdxRange(Top.done[1], 1) \in RunRange /\ IsRun(IdxRange(Top.done[1], 1), b.types)
  BY <1>2, <1>3 DEF IdxRange, RunRange, IsRun
<1>5. /\ Valid(ok) /\ Keeps(b, ok) /\ OtherTablesSame(b, ok) /\ ok.types = b.types
      /\ Len(ok.variants) = Len(b.variants) + 1
  BY <1>1, <1>4, AppendVariantKeeps
<1>6. other \in RunRange /\ IsRun(other, ok.types)
  <2>1. CASE is_result
    BY <1>2, <1>3, <1>5, <2>1 DEF IdxRange, RunRange, IsRun
  <2>2. CASE ~is_result
    BY <1>3, <1>5, <2>2 DEF NoSlots, IdxRange, RunRange, IsRun
  <2> QED BY <2>1, <2>2
<1> HIDE DEF ok, other
<1>7. /\ Valid(both) /\ Keeps(ok, both) /\ OtherTablesSame(ok, both) /\ both.types = ok.types
      /\ Len(both.variants) = Len(ok.variants) + 1
  BY <1>5, <1>6, AppendVariantKeeps
<1> HIDE DEF both
<1>8. run \in RunRange /\ IsRun(run, both.variants)
  BY <1>3, <1>5, <1>7 DEF IdxRange, RunRange, IsRun
<1> HIDE DEF run
<1>9. /\ MadeOK(both, made)
      /\ made.builder.types[made.idx] = [tag |-> "Enum", data |-> Len(both.enums) + 1]
  BY <1>7, <1>8, EnumTypeMakes
<1> HIDE DEF made
<1>10. b' = made.builder /\ blessed' = Append(blessed, new) /\ stack' = Returned(made.idx)
       /\ UNCHANGED <<p, at, nominals, sigs>>
  BY DEF FinishBlessedNew, made, both, ok, other, run
<1>11. /\ Valid(b') /\ Keeps(b, b') /\ made.idx \in Idx(b')
       /\ b'.types[made.idx] = [tag |-> "Enum", data |-> Len(b.enums) + 1]
  <2>1. Keeps(b, both) /\ Keeps(both, made.builder)
    BY <1>1, <1>5, <1>7, <1>9, KeepsTrans DEF MadeOK, Valid
  <2>2. Keeps(b, made.builder)
    BY <1>1, <1>7, <1>9, <2>1, KeepsTrans DEF MadeOK, Valid
  <2>3. both.enums = b.enums
    BY <1>5, <1>7 DEF OtherTablesSame
  <2> QED BY <1>9, <1>10, <2>2, <2>3 DEF MadeOK
<1>12. /\ NominalsFit(p, b', nominals) /\ InstancesFit(b', blessed)
       /\ NodesDiffer(p, b', nominals, blessed)
  BY <1>1, <1>11, NominalsGrow, InstancesGrow, NodesGrow DEF IInv, Keeps
<1>13. StackFits(p, b', stack) /\ StackOnce(nominals, stack) /\ SigsFit(b', sigs)
  BY <1>1, <1>11, StackGrows, SigsGrow DEF IInv, Keeps
<1>14. StackFits(p, b', stack') /\ StackOnce(nominals, stack')
  BY <1>1, <1>10, <1>11, <1>13, StackReturned
<1>15. /\ blessed' \in Seq(Instance) /\ Len(blessed') = Len(blessed) + 1 /\ Len(blessed) \in Nat
       /\ \A k \in 1 .. Len(blessed) : blessed'[k] = blessed[k]
       /\ blessed'[Len(blessed) + 1] = new
  <2>1. new \in Instance
    BY <1>1, <1>11 DEF Instance, Idx
  <2>2. blessed \in Seq(Instance)
    BY DEF IInv, InstancesFit
  <2> QED BY <1>10, <2>1, <2>2, AppendProperties
<1>16. \A k \in 1 .. Len(blessed') : k \in 1 .. Len(blessed) \/ k = Len(blessed) + 1
  BY <1>15
<1>17. InstancesFit(b', blessed')
  BY <1>11, <1>12, <1>15, <1>16 DEF InstancesFit
<1>18. \A i \in Idx(b) : ~SameNodeIn(b', made.idx, i) /\ ~SameNodeIn(b', i, made.idx)
  BY <1>1, <1>11, FreshEnum
<1>19. NodesDiffer(p, b', nominals, blessed')
  <2>1. \A n \in Registered(p) : nominals[n].type \in Idx(b)
    BY DEF IInv, NominalsFit
  <2>2. \A k \in 1 .. Len(blessed) : blessed[k].type \in Idx(b)
    BY DEF IInv, InstancesFit
  <2> QED BY <1>12, <1>15, <1>16, <1>18, <2>1, <2>2 DEF NodesDiffer
<1>20. Stays
  BY <1>1, <1>10, <1>11, KeepsStay DEF Stays, IInv, NominalsStay, PlaceFits
<1>21. PlaceFits(p, at)
  BY DEF IInv
<1> QED BY <1>10, <1>11, <1>12, <1>13, <1>14, <1>17, <1>19, <1>20, <1>21 DEF IInv

\* intern_nominal, up to its first field: the entry reserved is the nominal's own.
LEMMA ReserveStep ==
    ASSUME IInv, NEW n \in Registered(p), NEW base, Valid(base), Keeps(b, base), Reserve(n, base),
           UNCHANGED <<p, blessed, sigs>>, PlaceFits(p, at')
    PROVE  IInv' /\ Stays
<1> DEFINE kind == ItemAt(p, n).kind
           made == IF kind = "Struct" THEN ReserveStruct(base) ELSE ReserveEnum(base)
           size == IF kind = "Struct" THEN Len(base.structs) + 1 ELSE Len(base.enums) + 1
           variants == ItemAt(p, n).variants
           parts == IF variants = <<>> THEN <<>> ELSE Seeing(NoNominal, variants[1])
<1>1. /\ Valid(b) /\ IsProgram(p) /\ n \in Place /\ ItemAt(p, n) \in Item /\ kind \in NominalKind
      /\ NominalsFit(p, b, nominals) /\ ~nominals[n].started /\ ~nominals[n].complete
  BY RegisteredItem DEF IInv, PlaceFits, Reserve, NominalsFit
<1>2. MadeOK(base, made) /\ made.builder.types[made.idx] = [tag |-> kind, data |-> size]
  BY <1>1, ReserveStructMakes, ReserveEnumMakes DEF NominalKind
<1>3. /\ b' = made.builder
      /\ nominals' = [nominals EXCEPT ![n].type = made.idx, ![n].started = TRUE]
      /\ stack' = Append(stack, Frame(kind, n, parts))
  BY DEF Reserve, NominalFrame
<1>4. /\ Valid(b') /\ Keeps(base, b') /\ made.idx \in Idx(b') /\ made.idx \in Nat
      /\ b'.types[made.idx] = [tag |-> kind, data |-> size]
  BY <1>2, <1>3 DEF MadeOK, Idx
<1>5. \A i \in Idx(base) : ~SameNodeIn(b', made.idx, i) /\ ~SameNodeIn(b', i, made.idx)
  <2>1. CASE kind = "Struct"
    BY <1>4, <2>1, FreshStruct
  <2>2. CASE kind = "Enum"
    BY <1>4, <2>2, FreshEnum
  <2> QED BY <1>1, <2>1, <2>2 DEF NominalKind
<1> HIDE DEF made, size
<1>6. Keeps(b, b') /\ Grows(b, b') /\ Idx(b) \subseteq Idx(base)
  BY <1>1, <1>4, KeepsTrans, IdxGrows DEF Valid, Keeps
<1>7. /\ NominalsFit(p, b', nominals) /\ InstancesFit(b', blessed)
      /\ NodesDiffer(p, b', nominals, blessed) /\ StackFits(p, b', stack) /\ SigsFit(b', sigs)
  BY <1>1, <1>4, <1>6, NominalsGrow, InstancesGrow, NodesGrow, StackGrows, SigsGrow DEF IInv
<1>8. /\ nominals' \in [Registered(p) -> NominalEntry]
      /\ nominals'[n].type = made.idx /\ nominals'[n].started /\ ~nominals'[n].complete
      /\ \A k \in Registered(p) : k # n => nominals'[k] = nominals[k]
  <2>1. nominals \in [Registered(p) -> NominalEntry]
    BY <1>1 DEF NominalsFit
  <2>2. nominals[n] \in NominalEntry
    BY <2>1
  <2>3. nominals' = [nominals EXCEPT ![n] = [[@ EXCEPT !.type = made.idx] EXCEPT !.started = TRUE]]
    BY <1>3, <2>1
  <2> QED BY <1>1, <1>4, <2>1, <2>2, <2>3 DEF NominalEntry
<1>9. NominalsFit(p, b', nominals')
  BY <1>4, <1>7, <1>8 DEF NominalsFit
<1>10. NodesDiffer(p, b', nominals', blessed)
  <2>1. \A k \in Registered(p) : nominals[k].type \in Idx(base)
    BY <1>1, <1>6 DEF NominalsFit
  <2>2. \A k \in 1 .. Len(blessed) : blessed[k].type \in Idx(base)
    BY <1>6 DEF IInv, InstancesFit
  <2> QED BY <1>5, <1>7, <1>8, <2>1, <2>2 DEF NodesDiffer
<1>11. parts \in Seq(Part(p))
  <2>1. CASE variants = <<>>
    BY <2>1
  <2>2. CASE variants # <<>>
    <3>1. variants \in Seq(Seq(TypeExpr))
      BY <1>1 DEF Item
    <3>2. variants[1] \in Seq(TypeExpr)
      BY <2>2, <3>1
    <3> QED BY <2>2, <3>2, SeeingTyped
  <2> QED BY <2>1, <2>2
<1>12. \A k \in 1 .. Len(stack) : stack[k].kind \in NominalKind =>
           /\ stack[k].item \in Registered(p) /\ stack[k].item # n
           /\ nominals'[stack[k].item] = nominals[stack[k].item]
  BY <1>1, <1>8 DEF IInv, StackOnce, StackFits, FrameFits
<1>13. StackOnce(nominals', stack)
  BY <1>12 DEF IInv, StackOnce
<1> HIDE DEF parts, kind
<1>14. StackFits(p, b', stack') /\ StackOnce(nominals', stack')
  <2>1. kind \in FrameKind /\ kind \notin {"Ref", "MutRef", "Option", "Result"}
    BY <1>1 DEF FrameKind, NominalKind
  <2>2. /\ n \in Registered(p) /\ kind = ItemAt(p, n).kind
        /\ nominals'[n].started /\ ~nominals'[n].complete
        /\ \A k \in 1 .. Len(stack) : stack[k].kind \in NominalKind => stack[k].item # n
    BY <1>8, <1>12 DEF kind
  <2>3. n \in Place /\ StackFits(p, b', stack) /\ StackOnce(nominals', stack) /\ Valid(b')
    BY <1>1, <1>4, <1>7, <1>13
  <2>4. LET t == Append(stack, Frame(kind, n, parts)) IN
        StackFits(p, b', t) /\ StackOnce(nominals', t)
    BY <1>11, <2>1, <2>2, <2>3, StackPushed
  <2> QED BY <1>3, <2>4 DEF kind, parts
<1>15. Stays
  <2>1. NominalsStay
    BY <1>1, <1>8 DEF NominalsStay
  <2> QED BY <1>1, <1>4, <1>6, <2>1, KeepsStay DEF Stays
<1> QED BY <1>4, <1>7, <1>9, <1>10, <1>14, <1>15 DEF IInv

\* resolve_type of a nominal that is not started.
LEMMA EnterNominalStep == ASSUME IInv, EnterNominal PROVE IInv' /\ Stays
<1>1. Named \in Registered(p) /\ Valid(b) /\ Keeps(b, b)
  BY NamedIn, GrowsRefl DEF IInv, EnterNominal, Valid
<1>2. PlaceFits(p, at')
  BY DEF IInv, EnterNominal
<1> QED BY <1>1, <1>2, ReserveStep DEF EnterNominal

-----------------------------------------------------------------------------
\* An impl block asks for the error type.
LEMMA ItemTablesKeep == ASSUME Valid(b) PROVE Valid(ItemTables) /\ Keeps(b, ItemTables)
<1>1. MadeOK(b, SingleType(b, "Error"))
  BY SingleTypeMakes
<1>2. Keeps(b, b)
  BY GrowsRefl DEF Valid
<1> QED BY <1>1, <1>2 DEF ItemTables, MadeOK

\* The nominal that an item interns is registered.
LEMMA ItemNominalIn == ItemNominal \in Registered(p) \cup {NoNominal}
BY ImplNominalIn, FindNominalIn DEF ItemNominal

\* The loops may move on to any signature.
LEMMA NextPlace ==
    ASSUME PlaceFits(p, at), NEW sig \in Nat, at' = [at EXCEPT !.sig = sig] PROVE PlaceFits(p, at')
BY DEF PlaceFits

\* process_module: an item interns its nominal.
LEMMA InternItemStep == ASSUME IInv, InternItem PROVE IInv' /\ Stays
<1>1. Valid(ItemTables) /\ Keeps(b, ItemTables) /\ ItemNominal \in Registered(p)
  BY ItemTablesKeep, ItemNominalIn DEF IInv, InternItem
<1>2. PlaceFits(p, at')
  BY NextPlace DEF IInv, InternItem
<1> QED BY <1>1, <1>2, ReserveStep DEF InternItem

\* A step that leaves all but the tables and the place alone.
LEMMA WalkStep ==
    ASSUME IInv, Valid(b'), Keeps(b, b'), UNCHANGED <<p, nominals, blessed, stack, sigs>>,
           PlaceFits(p, at')
    PROVE  IInv' /\ Stays
<1>1. /\ NominalsFit(p', b', nominals') /\ InstancesFit(b', blessed')
      /\ NodesDiffer(p', b', nominals', blessed')
      /\ StackFits(p', b', stack) /\ StackOnce(nominals', stack) /\ SigsFit(b', sigs)
      /\ Stays
  BY QuietStep DEF Stays
<1> QED BY <1>1 DEF IInv

\* process_module: nothing to intern.
LEMMA PassItemStep == ASSUME IInv, PassItem PROVE IInv' /\ Stays
<1>1. Valid(b') /\ Keeps(b, b')
  BY ItemTablesKeep DEF IInv, PassItem
<1>2. PlaceFits(p, at')
  BY NextPlace DEF IInv, PassItem
<1> QED BY <1>1, <1>2, WalkStep DEF PassItem

\* process_module: the next item.
LEMMA NextItemStep == ASSUME IInv, NextItem PROVE IInv' /\ Stays
<1>1. Valid(b') /\ Keeps(b, b')
  BY SameTables DEF IInv, NextItem
<1>2. PlaceFits(p, at')
  <2>1. at.item \in Nat \ {0} /\ at.item + 1 \in Nat \ {0}
    BY DEF IInv, PlaceFits
  <2>2. at' = [at EXCEPT !.item = at.item + 1, !.sig = 0]
    BY DEF NextItem
  <2> QED BY <2>1, <2>2 DEF IInv, PlaceFits
<1> QED BY <1>1, <1>2, WalkStep DEF NextItem

\* process_module and check_bodies: the next module, or the next pass.
LEMMA NextModuleStep == ASSUME IInv, NextModule PROVE IInv' /\ Stays
<1>1. Valid(b') /\ Keeps(b, b')
  BY SameTables DEF IInv, NextModule
<1>2. PlaceFits(p, at')
  <2>1. p.count \in Nat \ {0} /\ at.module \in 0 .. p.count - 1
    BY DEF IInv, PlaceFits, IsProgram, Modules
  <2>2. CASE at.module + 1 < p.count
    <3>1. at.module + 1 \in Modules(p)
      BY <2>1, <2>2 DEF Modules
    <3>2. at' = [at EXCEPT !.module = at.module + 1, !.item = 1]
      BY <2>2 DEF NextModule
    <3> DEFINE Places == [pass : {"Items", "Bodies", "Cycles", "Done"}, module : Modules(p),
                          item : Nat \ {0}, sig : Nat]
    <3>3. IsProgram(p) /\ at \in Places
      BY DEF IInv, PlaceFits
    <3>4. at' \in Places
      <4>1. 1 \in Nat \ {0}
        OBVIOUS
      <4> QED BY <3>1, <3>2, <3>3, <4>1, Zenon
    <3> QED BY <3>3, <3>4 DEF PlaceFits
  <2>3. CASE ~(at.module + 1 < p.count)
    <3>1. 0 \in Modules(p)
      BY <2>1 DEF Modules
    <3> QED BY <2>3, <3>1 DEF IInv, NextModule, PlaceFits
  <2> QED BY <2>2, <2>3
<1> QED BY <1>1, <1>2, WalkStep DEF NextModule

\* validate_cycles only reports.
LEMMA ValidateCyclesStep == ASSUME IInv, ValidateCycles PROVE IInv' /\ Stays
<1>1. Valid(b') /\ Keeps(b, b')
  BY SameTables DEF IInv, ValidateCycles
<1>2. PlaceFits(p, at')
  BY DEF IInv, ValidateCycles, PlaceFits
<1> QED BY <1>1, <1>2, WalkStep DEF ValidateCycles

\* Nothing happens.
LEMMA StutterStep == ASSUME IInv, UNCHANGED vars PROVE IInv' /\ Stays
<1>1. Valid(b') /\ Keeps(b, b')
  BY SameTables DEF IInv, vars
<1>2. PlaceFits(p, at')
  BY DEF IInv, vars
<1> QED BY <1>1, <1>2, WalkStep DEF vars

-----------------------------------------------------------------------------
\* The place of the loops is an item's.
LEMMA HereIn == ASSUME IInv PROVE Here \in Place
<1>1. p.count \in Nat /\ at.module \in 0 .. p.count - 1 /\ at.item \in Nat
  BY DEF IInv, PlaceFits, IsProgram, Modules
<1> QED BY <1>1 DEF Here, Place

\* The item the loops look at is one of the program.
LEMMA TheItemIn == ASSUME IInv, AtItem PROVE TheItem \in Item
<1>1. p.items[at.module] \in Seq(Item)
  BY DEF IInv, PlaceFits, IsProgram
<1>2. at.item \in 1 .. Len(p.items[at.module])
  <2>1. at.item \in Nat \ {0} /\ at.item <= Len(p.items[at.module])
    BY DEF IInv, PlaceFits, AtItem
  <2> QED BY <1>1, <2>1
<1> QED BY <1>1, <1>2 DEF TheItem

\* What a signature resolves are type expressions.
LEMMA SignaturePartsTyped ==
    ASSUME NEW sig \in Signature PROVE SignatureParts(sig) \in Seq(Part(p))
<1> DEFINE self == IF TheItem.kind = "Impl" THEN ImplNominal(p, Here) ELSE NoNominal
           main == TheItem.kind = "Fn" /\ TheItem.name = "main" /\ at.module = 0
           first == Seeing(self, <<sig.ret>> \o sig.params)
           named == Seeing(NoNominal, sig.body)
           last  == IF main THEN Seeing(NoNominal, <<sig.ret>>) ELSE <<>>
<1>1. self \in Registered(p) \cup {NoNominal} /\ NoNominal \in Registered(p) \cup {NoNominal}
  BY ImplNominalIn
<1>2. sig.params \in Seq(TypeExpr) /\ sig.ret \in TypeExpr /\ sig.body \in Seq(TypeExpr)
  BY DEF Signature
<1>3. /\ Append(sig.params, sig.ret) \in Seq(TypeExpr)
      /\ <<sig.ret>> \in Seq(TypeExpr) /\ <<sig.ret>> \o sig.params \in Seq(TypeExpr)
  BY <1>2, AppendProperties, ConcatProperties
<1> HIDE DEF self, main
<1>4. /\ Seeing(self, Append(sig.params, sig.ret)) \in Seq(Part(p))
      /\ first \in Seq(Part(p)) /\ named \in Seq(Part(p)) /\ last \in Seq(Part(p))
  <2>1. Seeing(NoNominal, <<sig.ret>>) \in Seq(Part(p))
    BY <1>1, <1>3, SeeingTyped
  <2>2. <<>> \in Seq(Part(p))
    OBVIOUS
  <2> QED BY <1>1, <1>2, <1>3, <2>1, <2>2, SeeingTyped
<1> HIDE DEF first, named, last
<1>5. first \o named \o last \in Seq(Part(p))
  BY <1>4, ConcatProperties
<1>6. SignatureParts(sig) = IF at.pass = "Items" THEN Seeing(self, Append(sig.params, sig.ret))
                            ELSE first \o named \o last
  BY DEF SignatureParts, self, main, first, named, last
<1> QED BY <1>4, <1>5, <1>6

\* process_module and check_bodies: a signature is started.
LEMMA StartSignatureStep == ASSUME IInv, StartSignature PROVE IInv' /\ Stays
<1> DEFINE parts == SignatureParts(TheItem.sigs[at.sig])
<1>1. stack = <<>> /\ AtItem /\ Valid(b)
  BY DEF IInv, StartSignature, AtItem, Walking
<1>2. TheItem.sigs[at.sig] \in Signature
  BY <1>1, TheItemIn DEF StartSignature, Item
<1>3. parts \in Seq(Part(p)) /\ Here \in Place
  BY <1>2, SignaturePartsTyped, HereIn
<1> HIDE DEF parts
<1>4. Valid(b') /\ Keeps(b, b')
  BY <1>1, SameTables DEF StartSignature
<1>5. /\ NominalsFit(p', b', nominals') /\ InstancesFit(b', blessed')
      /\ NodesDiffer(p', b', nominals', blessed') /\ SigsFit(b', sigs)
      /\ Stays
  BY <1>4, QuietStep DEF StartSignature, Stays
<1>6. LET t == Append(<<>>, Frame("Signature", Here, parts)) IN
      StackFits(p, b', t) /\ StackOnce(nominals, t)
  BY <1>3, <1>4, StackEmpty, StackPushed DEF FrameKind, NominalKind
<1>7. stack' = Append(<<>>, Frame("Signature", Here, parts)) /\ UNCHANGED <<p, at, nominals, sigs>>
  BY DEF StartSignature, parts
<1> QED BY <1>4, <1>5, <1>6, <1>7 DEF IInv

\* process_module and check_bodies: a signature is resolved.
LEMMA FinishSignatureStep == ASSUME IInv, FinishSignature PROVE IInv' /\ Stays
<1> DEFINE new == [item |-> Here, sig |-> at.sig, types |-> Top.done,
                       receiver |-> SignatureReceiver]
<1>1. /\ stack # <<>> /\ Valid(b) /\ Top.done \in Seq(Nat) /\ InIdx(b, Top.done)
      /\ Here \in Place /\ at.sig \in Nat
  BY OnTop, HereIn DEF IInv, FinishSignature, Ready, FrameType, FrameFits, PlaceFits
<1>2. SignatureReceiver \in {"None", "ByValue", "Shared", "Exclusive"}
  BY DEF SignatureReceiver, Receiver
<1>3. Valid(b') /\ Keeps(b, b')
  BY <1>1, SameTables DEF FinishSignature
<1>4. /\ NominalsFit(p', b', nominals') /\ InstancesFit(b', blessed')
      /\ NodesDiffer(p', b', nominals', blessed') /\ SigsFit(b', sigs)
      /\ Stays
  BY <1>3, QuietStep DEF FinishSignature, Stays
<1>5. SigsFit(b', sigs')
  <2>1. CASE at.pass = "Items"
    <3>1. new \in SignatureEntry
      BY <1>1, <1>2 DEF SignatureEntry
    <3>2. sigs' = Append(sigs, new) /\ sigs \in Seq(SignatureEntry) /\ b' = b
      BY <2>1 DEF FinishSignature, IInv, SigsFit
    <3>3. /\ sigs' \in Seq(SignatureEntry) /\ Len(sigs') = Len(sigs) + 1 /\ Len(sigs) \in Nat
          /\ \A k \in 1 .. Len(sigs) : sigs'[k] = sigs[k]
          /\ sigs'[Len(sigs) + 1] = new
      BY <3>1, <3>2, AppendProperties
    <3>4. \A k \in 1 .. Len(sigs') : k \in 1 .. Len(sigs) \/ k = Len(sigs) + 1
      BY <3>3
    <3> QED BY <1>1, <1>4, <3>2, <3>3, <3>4 DEF SigsFit
  <2>2. CASE at.pass # "Items"
    BY <1>4, <2>2 DEF FinishSignature
  <2> QED BY <2>1, <2>2
<1>6. StackFits(p', b', stack') /\ StackOnce(nominals', stack')
  BY StackEmpty DEF FinishSignature
<1>7. PlaceFits(p', at')
  <2>1. at' = [at EXCEPT !.sig = at.sig + 1] /\ at.sig + 1 \in Nat /\ p' = p
    BY <1>1 DEF FinishSignature
  <2> QED BY <2>1, NextPlace DEF IInv
<1> QED BY <1>3, <1>4, <1>5, <1>6, <1>7 DEF IInv

-----------------------------------------------------------------------------
\* A nominal is filled: its call returns, and it is complete.
LEMMA FillStep ==
    ASSUME IInv, stack # <<>>, Top.kind \in NominalKind, Valid(b'), Grows(b, b'),
           \A n \in Registered(p) : nominals[n].complete => Contents(n)' = Contents(n),
           nominals' = [nominals EXCEPT ![Top.item].complete = TRUE],
           stack' = Returned(nominals[Top.item].type), UNCHANGED <<p, at, blessed, sigs>>
    PROVE  IInv' /\ Stays
<1> DEFINE n == Top.item
<1>1. /\ Valid(b) /\ n \in Registered(p) /\ NominalsFit(p, b, nominals)
      /\ stack \in Seq(FrameType(p)) /\ Len(stack) \in Nat \ {0}
  BY OnTop DEF IInv, FrameFits, StackFits
<1>2. nominals[n].started /\ ~nominals[n].complete
  BY <1>1 DEF IInv, StackOnce, Top
<1>3. /\ nominals' \in [Registered(p) -> NominalEntry]
      /\ nominals'[n].type = nominals[n].type /\ nominals'[n].started /\ nominals'[n].complete
      /\ \A k \in Registered(p) : k # n => nominals'[k] = nominals[k]
  <2>1. nominals \in [Registered(p) -> NominalEntry] /\ nominals[n] \in NominalEntry
    BY <1>1 DEF NominalsFit
  <2>2. nominals' = [nominals EXCEPT ![n] = [@ EXCEPT !.complete = TRUE]]
    BY <2>1
  <2> HIDE DEF n
  <2>3. [nominals[n] EXCEPT !.complete = TRUE] \in NominalEntry
    BY <2>1 DEF NominalEntry
  <2>4. nominals'[n] = [nominals[n] EXCEPT !.complete = TRUE]
    BY <1>1, <2>1, <2>2
  <2>5. nominals' \in [Registered(p) -> NominalEntry]
    BY <1>1, <2>1, <2>2, <2>3
  <2>6. \A k \in Registered(p) : k # n => nominals'[k] = nominals[k]
    BY <1>1, <2>1, <2>2
  <2> QED BY <1>2, <2>1, <2>4, <2>5, <2>6 DEF NominalEntry
<1>4. \A k \in Registered(p) :
          /\ nominals'[k].type = nominals[k].type
          /\ nominals'[k].started = nominals[k].started
  BY <1>1, <1>2, <1>3 DEF NominalsFit, NominalEntry
<1>5. /\ NominalsFit(p, b', nominals) /\ InstancesFit(b', blessed)
      /\ NodesDiffer(p, b', nominals, blessed) /\ StackFits(p, b', stack) /\ SigsFit(b', sigs)
  BY <1>1, NominalsGrow, InstancesGrow, NodesGrow, StackGrows, SigsGrow DEF IInv
<1>6. NominalsFit(p, b', nominals')
  BY <1>2, <1>3, <1>4, <1>5 DEF NominalsFit
<1>7. NodesDiffer(p, b', nominals', blessed)
  BY <1>4, <1>5 DEF NodesDiffer
<1>8. /\ StackFits(p, b', Below) /\ StackOnce(nominals', Below)
  <2>1. /\ StackFits(p, b', Below) /\ StackOnce(nominals, Below)
        /\ Len(Below) = Len(stack) - 1 /\ \A k \in 1 .. Len(Below) : Below[k] = stack[k]
    BY <1>5, StackBelow DEF IInv, Below
  <2>2. ASSUME NEW k \in 1 .. Len(Below), Below[k].kind \in NominalKind
        PROVE  Below[k].item \in Registered(p) /\ Below[k].item # n
    <3>1. k \in 1 .. Len(stack) /\ k # Len(stack) /\ Len(stack) \in 1 .. Len(stack)
      BY <1>1, <2>1
    <3>2. stack[k].item # n
      BY <2>1, <2>2, <3>1 DEF IInv, StackOnce, Top
    <3> QED BY <2>1, <2>2, <3>2 DEF StackFits, FrameFits
  <2>3. StackOnce(nominals', Below)
    BY <1>3, <2>1, <2>2 DEF StackOnce
  <2> QED BY <2>1, <2>3
<1>9. StackFits(p, b', stack') /\ StackOnce(nominals', stack')
  <2>1. nominals[n].type \in Idx(b')
    BY <1>1, <1>5 DEF NominalsFit
  <2>2. CASE Below = <<>>
    BY <2>2, StackEmpty DEF Returned
  <2>3. CASE Below # <<>>
    <3>1. stack' = Answered(Below, nominals[n].type)
      BY <2>3 DEF Returned
    <3> QED BY <1>8, <2>1, <2>3, <3>1, StackAnswered
  <2> QED BY <2>2, <2>3
<1>10. Stays
  <2>1. TablesGrow
    BY <1>1, GrowsStay
  <2>2. \A k \in Registered(p) : nominals[k].complete => nominals'[k].complete
    BY <1>3
  <2>3. CompleteStays
    BY <1>4, <2>2 DEF CompleteStays
  <2> QED BY <2>1, <2>3 DEF Stays
<1>11. PlaceFits(p, at)
  BY DEF IInv
<1> QED BY <1>5, <1>6, <1>7, <1>9, <1>10, <1>11 DEF IInv

\* intern_nominal of a struct: only its own fields are written.
LEMMA FinishStructStep == ASSUME IInv, FinishStruct PROVE IInv' /\ Stays
<1> DEFINE list == Top.done
           c    == AppendCopies(b, list)
           idx  == nominals[Top.item].type
           run  == CopiesRange(b, list)
<1>1. /\ stack # <<>> /\ Valid(b) /\ list \in Seq(Nat)
      /\ \A k \in 1 .. Len(list) : list[k] \in Idx(b)
      /\ Top.item \in Registered(p) /\ ItemAt(p, Top.item).kind = "Struct"
  BY OnTop DEF IInv, FinishStruct, Ready, FrameType, FrameFits, InIdx, NominalKind
<1>2. /\ nominals[Top.item].started /\ ~nominals[Top.item].complete
      /\ idx \in Idx(b) /\ b.types[idx].tag = "Struct"
  <2>1. Len(stack) \in 1 .. Len(stack)
    BY <1>1, TopIn DEF IInv
  <2>2. nominals[Top.item].started /\ ~nominals[Top.item].complete
    BY <2>1 DEF IInv, StackOnce, FinishStruct, NominalKind, Top
  <2> QED BY <1>1, <2>2 DEF IInv, NominalsFit
<1>3. /\ Valid(c) /\ Keeps(b, c) /\ OtherTablesSame(b, c)
      /\ run \in RunRange /\ IsRun(run, c.types)
  BY <1>1, CopiesKeep
<1> HIDE DEF c, run
<1>4. idx \in Idx(c) /\ c.types[idx] = b.types[idx]
  BY <1>1, <1>2, <1>3, TagsGrow DEF Keeps
<1>5. /\ b' = FillStruct(c, idx, run) /\ p' = p
      /\ nominals' = [nominals EXCEPT ![Top.item].complete = TRUE]
      /\ stack' = Returned(idx) /\ UNCHANGED <<p, at, blessed, sigs>>
  BY DEF FinishStruct, c, run
<1>6. /\ Valid(b') /\ Grows(c, b') /\ b'.types = c.types /\ b'.enums = c.enums
      /\ \A k \in 1 .. Len(c.structs) : k # c.types[idx].data => b'.structs[k] = c.structs[k]
  BY <1>2, <1>3, <1>4, <1>5, FillStructGrows
<1>7. Grows(b, b')
  BY <1>1, <1>3, <1>6, GrowsTrans DEF Keeps, Valid
<1>8. ASSUME NEW n \in Registered(p), nominals[n].complete PROVE Contents(n)' = Contents(n)
  <2>1. nominals[n].started /\ nominals[n].type \in Idx(b) /\ n # Top.item
    BY <1>2, <1>8 DEF IInv, NominalsFit
  <2>2. nominals'[n] = nominals[n]
    BY <1>5, <2>1 DEF IInv, NominalsFit
  <2>3. b'.types[nominals[n].type] = b.types[nominals[n].type]
    BY <1>1, <1>6, <1>7, <2>1, TagsGrow
  <2>4. NodeFits(b, b.types[nominals[n].type])
    BY <1>1, <2>1, NodesFit
  <2>5. b.types[nominals[n].type].tag = ItemAt(p, n).kind
    BY <2>1 DEF IInv, NominalsFit
  <2>6. CASE ItemAt(p, n).kind = "Struct"
    <3>1. b.types[nominals[n].type].data # b.types[idx].data
      BY <1>1, <1>2, <2>1, <2>5, <2>6 DEF IInv, NodesDiffer, SameNodeIn
    <3>2. b.types[nominals[n].type].data \in 1 .. Len(b.structs) /\ c.structs = b.structs
      BY <1>3, <2>4, <2>5, <2>6 DEF NodeFits, OtherTablesSame
    <3>3. b'.structs[b.types[nominals[n].type].data] = b.structs[b.types[nominals[n].type].data]
      BY <1>4, <1>6, <3>1, <3>2
    <3> QED BY <1>5, <2>2, <2>3, <2>6, <3>3 DEF Contents
  <2>7. CASE ItemAt(p, n).kind # "Struct"
    <3>1. b'.enums = b.enums
      BY <1>3, <1>6 DEF OtherTablesSame
    <3> QED BY <1>5, <2>2, <2>3, <2>7, <3>1 DEF Contents
  <2> QED BY <2>6, <2>7
<1> QED BY <1>1, <1>5, <1>6, <1>7, <1>8, FillStep DEF FinishStruct, NominalKind

\* intern_nominal of an enum: only its own variants are written.
LEMMA FinishEnumStep == ASSUME IInv, FinishEnum PROVE IInv' /\ Stays
<1> DEFINE idx == nominals[Top.item].type
           run == IdxRange(Top.head, Top.added)
<1>1. /\ stack # <<>> /\ Valid(b) /\ Top \in FrameType(p) /\ FrameFits(p, b, Top)
      /\ Top.item \in Registered(p) /\ ItemAt(p, Top.item).kind = "Enum"
  BY OnTop DEF IInv, FinishEnum, PayloadsResolved, Ready, FrameFits, NominalKind
<1>2. /\ nominals[Top.item].started /\ ~nominals[Top.item].complete
      /\ idx \in Idx(b) /\ b.types[idx].tag = "Enum"
  <2>1. Len(stack) \in 1 .. Len(stack)
    BY <1>1, TopIn DEF IInv
  <2>2. nominals[Top.item].started /\ ~nominals[Top.item].complete
    BY <2>1 DEF IInv, StackOnce, FinishEnum, PayloadsResolved, NominalKind, Top
  <2> QED BY <1>1, <2>2 DEF IInv, NominalsFit
<1>3. run \in RunRange /\ IsRun(run, b.variants)
  <2>1. /\ Top.head \in Nat \ {0} /\ Top.added \in Nat /\ Len(b.variants) \in Nat
        /\ Top.head + Top.added <= Len(b.variants) + 1
    BY <1>1, Fields DEF FrameType, FrameFits, Valid
  <2> QED BY <2>1 DEF IdxRange, RunRange, IsRun
<1> HIDE DEF run
<1>4. /\ b' = FillEnum(b, idx, run) /\ p' = p
      /\ nominals' = [nominals EXCEPT ![Top.item].complete = TRUE]
      /\ stack' = Returned(idx) /\ UNCHANGED <<p, at, blessed, sigs>>
  BY DEF FinishEnum, run
<1>5. /\ Valid(b') /\ Grows(b, b') /\ b'.types = b.types /\ b'.structs = b.structs
      /\ \A k \in 1 .. Len(b.enums) : k # b.types[idx].data => b'.enums[k] = b.enums[k]
  BY <1>1, <1>2, <1>3, <1>4, FillEnumGrows
<1>6. ASSUME NEW n \in Registered(p), nominals[n].complete PROVE Contents(n)' = Contents(n)
  <2>1. nominals[n].started /\ nominals[n].type \in Idx(b) /\ n # Top.item
    BY <1>2, <1>6 DEF IInv, NominalsFit
  <2>2. nominals'[n] = nominals[n]
    BY <1>4, <2>1 DEF IInv, NominalsFit
  <2>3. b'.types[nominals[n].type] = b.types[nominals[n].type]
    BY <1>5
  <2>4. NodeFits(b, b.types[nominals[n].type])
    BY <1>1, <2>1, NodesFit
  <2>5. /\ b.types[nominals[n].type].tag = ItemAt(p, n).kind
        /\ ItemAt(p, n).kind \in NominalKind
    BY <2>1, RegisteredItem DEF IInv, NominalsFit, PlaceFits
  <2>6. CASE ItemAt(p, n).kind = "Enum"
    <3>1. b.types[nominals[n].type].data # b.types[idx].data
      BY <1>1, <1>2, <2>1, <2>5, <2>6 DEF IInv, NodesDiffer, SameNodeIn
    <3>2. b.types[nominals[n].type].data \in 1 .. Len(b.enums)
      BY <2>4, <2>5, <2>6 DEF NodeFits
    <3>3. b'.enums[b.types[nominals[n].type].data] = b.enums[b.types[nominals[n].type].data]
      BY <1>5, <3>1, <3>2
    <3> QED BY <1>4, <2>2, <2>3, <2>6, <3>3 DEF Contents
  <2>7. CASE ItemAt(p, n).kind = "Struct"
    BY <1>4, <1>5, <2>2, <2>3, <2>7 DEF Contents
  <2> QED BY <2>5, <2>6, <2>7 DEF NominalKind
<1> QED BY <1>1, <1>4, <1>5, <1>6, FillStep DEF FinishEnum, PayloadsResolved, NominalKind

\* The call on top of an enum takes its next step; the tables may grow.
LEMMA EnumFrameStep ==
    ASSUME IInv, stack # <<>>, Valid(b'), Keeps(b, b'), NEW f \in FrameType(p), FrameFits(p, b', f),
           f.kind = Top.kind, f.item = Top.item, stack' = [stack EXCEPT ![Len(stack)] = f],
           UNCHANGED <<p, at, nominals, blessed, sigs>>
    PROVE  IInv' /\ Stays
<1>1. /\ NominalsFit(p', b', nominals') /\ InstancesFit(b', blessed')
      /\ NodesDiffer(p', b', nominals', blessed')
      /\ StackFits(p', b', stack) /\ StackOnce(nominals', stack) /\ SigsFit(b', sigs)
      /\ Stays
  BY QuietStep DEF Stays
<1>2. LET t == [stack EXCEPT ![Len(stack)] = f] IN StackFits(p, b', t) /\ StackOnce(nominals, t)
  BY <1>1, StackTop DEF Top
<1>3. PlaceFits(p, at)
  BY DEF IInv
<1> QED BY <1>1, <1>2, <1>3 DEF IInv

\* The variants of an enum are lists of type expressions.
LEMMA VariantsTyped ==
    ASSUME IInv, stack # <<>>, Top.kind = "Enum" PROVE Variants \in Seq(Seq(TypeExpr))
<1>1. Top.item \in Registered(p) /\ IsProgram(p)
  BY OnTop DEF FrameFits, NominalKind, IInv, PlaceFits
<1> QED BY <1>1, RegisteredItem DEF Variants, Item

\* intern_nominal of an enum: one payload is resolved.
LEMMA EndPayloadStep == ASSUME IInv, EndPayload PROVE IInv' /\ Stays
<1> DEFINE k == Len(Top.payloads) + 1
           parts == IF k < Len(Variants) THEN Seeing(NoNominal, Variants[k + 1]) ELSE <<>>
           f == [Top EXCEPT !.payloads = Append(Top.payloads, Top.done),
                                !.done = <<>>, !.parts = parts]
<1>1. /\ stack # <<>> /\ Valid(b) /\ Top.kind = "Enum" /\ Top \in FrameType(p)
      /\ FrameFits(p, b, Top) /\ k <= Len(Variants)
  BY OnTop DEF IInv, EndPayload, Ready
<1>2. Variants \in Seq(Seq(TypeExpr)) /\ Len(Variants) \in Nat
  BY <1>1, VariantsTyped
<1>3. Top.payloads \in Seq(Seq(Nat)) /\ Top.done \in Seq(Nat) /\ k \in Nat
  BY <1>1 DEF FrameType
<1>4. parts \in Seq(Part(p))
  <2>1. CASE k < Len(Variants)
    <3>1. Variants[k + 1] \in Seq(TypeExpr)
      BY <1>2, <1>3, <2>1
    <3> QED BY <2>1, <3>1, SeeingTyped
  <2>2. CASE ~(k < Len(Variants))
    BY <2>2
  <2> QED BY <2>1, <2>2
<1> HIDE DEF parts
<1>5. /\ Append(Top.payloads, Top.done) \in Seq(Seq(Nat))
      /\ \A v \in 1 .. Len(Append(Top.payloads, Top.done)) :
             InIdx(b, Append(Top.payloads, Top.done)[v])
  <2>1. /\ Append(Top.payloads, Top.done) \in Seq(Seq(Nat))
        /\ Len(Append(Top.payloads, Top.done)) = Len(Top.payloads) + 1
        /\ \A v \in 1 .. Len(Top.payloads) : Append(Top.payloads, Top.done)[v] = Top.payloads[v]
        /\ Append(Top.payloads, Top.done)[Len(Top.payloads) + 1] = Top.done
        /\ Len(Top.payloads) \in Nat
    BY <1>3, AppendProperties
  <2>2. \A v \in 1 .. Len(Top.payloads) + 1 : v \in 1 .. Len(Top.payloads) \/ v = Len(Top.payloads) + 1
    BY <2>1
  <2> QED BY <1>1, <2>1, <2>2 DEF FrameFits
<1>6. /\ f \in FrameType(p) /\ f.kind = Top.kind /\ f.item = Top.item /\ f.done = <<>>
      /\ f.payloads = Append(Top.payloads, Top.done) /\ f.head = Top.head /\ f.added = Top.added
  <2> DEFINE top == Top
             list == Append(top.payloads, top.done)
             none == <<>>
  <2>1. top \in FrameType(p) /\ list \in Seq(Seq(Nat)) /\ none \in Seq(Nat)
    BY <1>1, <1>5
  <2> HIDE DEF top, list, none
  <2>2. LET g == [top EXCEPT !.payloads = list, !.done = none, !.parts = parts] IN
        /\ g \in FrameType(p) /\ g.kind = top.kind /\ g.item = top.item /\ g.done = none
        /\ g.payloads = list /\ g.head = top.head /\ g.added = top.added
    BY <1>4, <2>1 DEF FrameType
  <2> QED BY <2>2 DEF top, list, none
<1>7. FrameFits(p, b, f)
  BY <1>1, <1>5, <1>6 DEF FrameFits, InIdx
<1>8. /\ stack' = [stack EXCEPT ![Len(stack)] = f] /\ b' = b
      /\ UNCHANGED <<p, at, nominals, blessed, sigs>>
  <2>1. stack' = [stack EXCEPT ![Len(stack)] = f]
    BY Zenon DEF EndPayload, WithTop, parts
  <2> QED BY <2>1 DEF EndPayload
<1>9. Valid(b') /\ Keeps(b, b')
  BY <1>1, <1>8, SameTables
<1> HIDE DEF f
<1> QED BY <1>1, <1>6, <1>7, <1>8, <1>9, EnumFrameStep

\* intern_nominal of an enum: one variant is appended, and the run stays one of the variants.
LEMMA AddVariantStep == ASSUME IInv, AddVariant PROVE IInv' /\ Stays
<1> DEFINE list == Top.payloads[Top.added + 1]
           c    == AppendCopies(b, list)
           run  == CopiesRange(b, list)
           head == IF Top.added = 0 THEN Len(b.variants) + 1 ELSE Top.head
           f    == [Top EXCEPT !.head = head, !.added = Top.added + 1]
<1>1. /\ stack # <<>> /\ Valid(b) /\ Top.kind = "Enum" /\ Top \in FrameType(p)
      /\ FrameFits(p, b, Top) /\ Top.added < Len(Top.payloads)
  BY OnTop DEF IInv, AddVariant, PayloadsResolved, Ready
<1>2. /\ Top.payloads \in Seq(Seq(Nat)) /\ Top.added \in Nat /\ Top.head \in Nat \ {0}
      /\ Top.added + 1 \in 1 .. Len(Top.payloads)
  BY <1>1 DEF FrameType
<1>3. list \in Seq(Nat) /\ \A k \in 1 .. Len(list) : list[k] \in Idx(b)
  BY <1>1, <1>2 DEF FrameFits, InIdx
<1>4. /\ Valid(c) /\ Keeps(b, c) /\ c.variants = b.variants
      /\ run \in RunRange /\ IsRun(run, c.types)
  BY <1>1, <1>3, CopiesKeep
<1> HIDE DEF c, run
<1>5. b' = AppendVariant(c, run) /\ UNCHANGED <<p, at, nominals, blessed, sigs>>
  BY DEF AddVariant, c, run
<1>6. /\ Valid(b') /\ Keeps(c, b') /\ Len(b'.variants) = Len(b.variants) + 1
      /\ Len(b.variants) \in Nat
  BY <1>1, <1>4, <1>5, AppendVariantKeeps, Fields DEF Valid
<1>7. Keeps(b, b')
  BY <1>1, <1>4, <1>6, KeepsTrans DEF Valid
<1>8. /\ head \in Nat \ {0} /\ Top.added + 1 \in Nat
      /\ head + (Top.added + 1) <= Len(b'.variants) + 1
  BY <1>1, <1>2, <1>6 DEF FrameFits
<1> HIDE DEF head
<1>9. /\ f \in FrameType(p) /\ f.kind = Top.kind /\ f.item = Top.item /\ f.done = Top.done
      /\ f.payloads = Top.payloads /\ f.parts = Top.parts /\ f.head = head /\ f.added = Top.added + 1
  BY <1>1, <1>8 DEF FrameType
<1>10. FrameFits(p, b', Top)
  BY <1>1, <1>6, <1>7, FrameGrows DEF Keeps
<1>11. FrameFits(p, b', f)
  BY <1>8, <1>9, <1>10 DEF FrameFits
<1>12. stack' = [stack EXCEPT ![Len(stack)] = f]
  BY Zenon DEF AddVariant, WithTop, head
<1> HIDE DEF f
<1> QED BY <1>1, <1>5, <1>6, <1>7, <1>9, <1>11, <1>12, EnumFrameStep

-----------------------------------------------------------------------------
\* Every step keeps the invariant and what is complete.
LEMMA NextInv == ASSUME IInv, [Next]_vars PROVE IInv' /\ Stays
<1>1. CASE InternItem \/ PassItem \/ StartSignature \/ NextItem \/ NextModule
  BY <1>1, InternItemStep, PassItemStep, StartSignatureStep, NextItemStep, NextModuleStep
<1>2. CASE ResolvePrimitive \/ ResolveNever \/ ResolveFailed \/ ResolveSelf
  BY <1>2, ResolvePrimitiveStep, ResolveNeverStep, ResolveFailedStep, ResolveSelfStep
<1>3. CASE ResolveNominal \/ EnterNominal \/ EnterParts
  BY <1>3, ResolveNominalStep, EnterNominalStep, EnterPartsStep
<1>4. CASE FinishTuple \/ FinishReference \/ FinishBlessedFound \/ FinishBlessedNew
  BY <1>4, FinishTupleStep, FinishReferenceStep, FinishBlessedFoundStep, FinishBlessedNewStep
<1>5. CASE FinishStruct \/ EndPayload \/ AddVariant \/ FinishEnum
  BY <1>5, FinishStructStep, EndPayloadStep, AddVariantStep, FinishEnumStep
<1>6. CASE FinishSignature \/ ValidateCycles
  BY <1>6, FinishSignatureStep, ValidateCyclesStep
<1>7. CASE Done \/ UNCHANGED vars
  BY <1>7, StutterStep DEF Done
<1> QED BY <1>1, <1>2, <1>3, <1>4, <1>5, <1>6, <1>7 DEF Next

\* The invariant bounds every index.
LEMMA InvTypeOK == IInv => TypeOK
<1> SUFFICES ASSUME IInv PROVE TypeOK
  OBVIOUS
<1>1. \A list : InIdx(b, list) => AreIdx(list)
  BY DEF InIdx, AreIdx, IsIdx, Idx
<1>2. \A i \in Idx(b) : IsIdx(i)
  BY DEF Idx, IsIdx
<1>3. IsTables(b)
  BY DEF IInv, Valid
<1>4. \A n \in Registered(p) : IsIdx(nominals[n].type)
  BY <1>2 DEF IInv, NominalsFit
<1>5. \A k \in 1 .. Len(blessed) : IsIdx(blessed[k].type)
  BY <1>2 DEF IInv, InstancesFit
<1>6. \A k \in 1 .. Len(stack) :
          /\ AreIdx(stack[k].done)
          /\ \A v \in 1 .. Len(stack[k].payloads) : AreIdx(stack[k].payloads[v])
  BY <1>1 DEF IInv, StackFits, FrameFits
<1>7. \A k \in 1 .. Len(sigs) : AreIdx(sigs[k].types)
  BY <1>1 DEF IInv, SigsFit
<1> QED BY <1>3, <1>4, <1>5, <1>6, <1>7 DEF TypeOK

\* The invariant says that nominals are interned once.
LEMMA InvNominalsOnce == IInv => NominalsOnce
<1> SUFFICES ASSUME IInv PROVE NominalsOnce
  OBVIOUS
<1>1. \A i, j : SameNodeIn(b, i, j) <=> SameNode(i, j)
  BY DEF SameNodeIn, SameNode
<1>2. \A k \in NominalFrames : k \in 1 .. Len(stack) /\ stack[k].kind \in NominalKind
  BY DEF NominalFrames, NominalKind
<1>3. StackOnce(nominals, stack) /\ NodesDiffer(p, b, nominals, blessed)
  BY DEF IInv
<1>4. \A j, k \in NominalFrames : stack[j].item = stack[k].item => j = k
  BY <1>2, <1>3 DEF StackOnce
<1>5. \A k \in NominalFrames :
          nominals[stack[k].item].started /\ ~nominals[stack[k].item].complete
  BY <1>2, <1>3 DEF StackOnce
<1> QED BY <1>1, <1>3, <1>4, <1>5 DEF NominalsOnce, NodesDiffer

\* storage_builder.h:157-175: whatever is half built, every index in the type tables
\* and every index a nominal, an instance, a call in progress or a signature holds is
\* of an entry, and every range a run of entries.
THEOREM IndicesInBounds == Spec => []TypeOK
<1>1. IInv /\ [Next]_vars => IInv'
  BY NextInv
<1> QED BY <1>1, InitInv, InvTypeOK, PTL DEF Spec

\* storage_builder.h:157-161, types.cc:226-238: for every package, however its types
\* lead back to each other, intern_nominal runs once for a nominal and reserves an
\* entry that no other nominal and no instance has.
THEOREM NominalsInternedOnce == Spec => []NominalsOnce
<1>1. IInv /\ [Next]_vars => IInv'
  BY NextInv
<1> QED BY <1>1, InitInv, InvNominalsOnce, PTL DEF Spec

\* storage_builder.h:162-175, types.cc:226-280: the tables only grow, and no step
\* writes what a complete nominal holds.
THEOREM TablesOnlyGrow == Spec => EntriesStay
<1>1. IInv /\ [Next]_vars => IInv'
  BY NextInv
<1>2. IInv /\ [Next]_vars => [TablesGrow /\ CompleteStays]_vars
  BY NextInv DEF Stays
<1> QED BY <1>1, <1>2, InitInv, PTL DEF Spec, EntriesStay

=============================================================================
