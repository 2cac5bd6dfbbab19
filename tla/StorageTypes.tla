---------------------------- MODULE StorageTypes ----------------------------
(***************************************************************************)
(* The type tables of ir::StorageBuilder, as one value b, and what its     *)
(* factories append to them.                                               *)
(*                                                                         *)
(*   b.types      TypeNode [tag, data]; data is a position in the table    *)
(*                that the tag names, 0 for a node without payload         *)
(*   b.structs    StructType: the range of its field slots                 *)
(*   b.enums      EnumType: the range of its variants                      *)
(*   b.variants   EnumVariantType: the range of its payload slots          *)
(*   b.refs       RefType: the type it points to                           *)
(*   b.tuples     TupleType: the range of its element slots                *)
(*   b.arrays     ArrayType [element, count]                               *)
(*                                                                         *)
(* An index here is the index of the code plus one. A range is the code's  *)
(* {head, size}: a list of types is always a run of consecutive entries,   *)
(* so a list is built by appending copies of the entries it names. Names,  *)
(* which only messages read, are left out.                                 *)
(***************************************************************************)
EXTENDS Integers, Sequences

\* Pre-interned in TypeTag order, Function right after them.
PrimitiveTag == <<"Void", "I1", "I8", "I16", "I32", "I64", "U8", "U16", "U32", "U64",
                  "F32", "F64", "Str", "Ptr", "Ref", "MutRef", "Function">>
TypeTag == {PrimitiveTag[i] : i \in DOMAIN PrimitiveTag}
               \cup {"Struct", "Array", "Enum", "Never", "Tuple", "Error"}

Primitive(tag) == CHOOSE i \in DOMAIN PrimitiveTag : PrimitiveTag[i] = tag

IdxRange(head, size) == [head |-> head, size |-> size]
Slots(range) == range.head .. range.head + range.size - 1
NoSlots == IdxRange(1, 0)

InitBuilder ==
    [types    |-> [i \in DOMAIN PrimitiveTag |-> [tag |-> PrimitiveTag[i], data |-> 0]],
     structs  |-> <<>>, enums |-> <<>>, variants |-> <<>>, refs |-> <<>>, tuples |-> <<>>,
     arrays  |-> <<>>]

-----------------------------------------------------------------------------
\* Every factory has the builder it leaves and the index it returns.
Made(b, idx) == [builder |-> b, idx |-> idx]

AppendNode(b, tag, data) ==
    Made([b EXCEPT !.types = Append(@, [tag |-> tag, data |-> data])], Len(b.types) + 1)

\* The scans start past the pre-interned block, whose Ref and MutRef nodes
\* have no payload.
Interned(b) == Len(PrimitiveTag) + 1 .. Len(b.types)

\* The entry a scan stops at; the scan found one.
Lowest(S) == CHOOSE i \in S : \A j \in S : i <= j

ReserveStruct(b) ==
    AppendNode([b EXCEPT !.structs = Append(@, NoSlots)], "Struct", Len(b.structs) + 1)

ReserveEnum(b) ==
    AppendNode([b EXCEPT !.enums = Append(@, NoSlots)], "Enum", Len(b.enums) + 1)

\* Mutant: the contents go to the struct reserved last, a nested one.
FillStructLast(b, idx, fields) == [b EXCEPT !.structs[Len(b.structs)] = fields]
FillStruct(b, idx, fields) == [b EXCEPT !.structs[b.types[idx].data] = fields]
FillEnum(b, idx, variants) == [b EXCEPT !.enums[b.types[idx].data] = variants]

\* ref_type for every entry of a list, with the TypeSeq that collects them.
AppendCopies(b, list) ==
    [b EXCEPT !.types = @ \o [k \in 1 .. Len(list) |-> b.types[list[k]]]]
CopiesRange(b, list) == IF list = <<>> THEN NoSlots ELSE IdxRange(Len(b.types) + 1, Len(list))

AppendVariant(b, fields) == [b EXCEPT !.variants = Append(@, fields)]

StructType(b, fields) ==
    AppendNode([b EXCEPT !.structs = Append(@, fields)], "Struct", Len(b.structs) + 1)

EnumType(b, variants) ==
    AppendNode([b EXCEPT !.enums = Append(@, variants)], "Enum", Len(b.enums) + 1)

ReferenceType(b, pointee, is_mut) ==
    LET tag  == IF is_mut THEN "MutRef" ELSE "Ref"
        same == {i \in Interned(b) : b.types[i].tag = tag /\ b.refs[b.types[i].data] = pointee}
    IN  IF same # {} THEN Made(b, Lowest(same))
        ELSE AppendNode([b EXCEPT !.refs = Append(@, pointee)], tag, Len(b.refs) + 1)

ArrayType(b, element, count) ==
    LET shape == [element |-> element, count |-> count]
        same  == {i \in Interned(b) :
                     b.types[i].tag = "Array" /\ b.arrays[b.types[i].data] = shape}
    IN  IF same # {} THEN Made(b, Lowest(same))
        ELSE AppendNode([b EXCEPT !.arrays = Append(@, shape)], "Array", Len(b.arrays) + 1)

\* Elements are compared by index.
TupleType(b, elements) ==
    LET same == {i \in Interned(b) :
                    /\ b.types[i].tag = "Tuple"
                    /\ LET t == b.tuples[b.types[i].data] IN
                       t.size = elements.size /\ (t.size > 0 => t.head = elements.head)}
    IN  IF same # {} THEN Made(b, Lowest(same))
        ELSE AppendNode([b EXCEPT !.tuples = Append(@, elements)], "Tuple", Len(b.tuples) + 1)

\* never_type and error_type: one node each, appended when first asked for.
SingleType(b, tag) ==
    LET same == {i \in Interned(b) : b.types[i].tag = tag}
    IN  IF same # {} THEN Made(b, Lowest(same)) ELSE AppendNode(b, tag, 0)

-----------------------------------------------------------------------------
\* Mutant: tuples are not descended into.
ValuePartsNominal(b, i) ==
    LET data == b.types[i].data IN
    CASE b.types[i].tag = "Struct" -> Slots(b.structs[data])
      [] b.types[i].tag = "Enum"   -> UNION {Slots(b.variants[v]) : v \in Slots(b.enums[data])}
      [] OTHER                     -> {}

\* The entries a value of type i holds in place: its fields, the payloads of
\* all its variants, its elements. A reference holds none.
ValueParts(b, i) ==
    LET data == b.types[i].data IN
    CASE b.types[i].tag = "Struct" -> Slots(b.structs[data])
      [] b.types[i].tag = "Enum"   -> UNION {Slots(b.variants[v]) : v \in Slots(b.enums[data])}
      [] b.types[i].tag = "Tuple"  -> Slots(b.tuples[data])
      [] OTHER                     -> {}

IsReference(b, i) == b.types[i].tag \in {"Ref", "MutRef"}
Pointee(b, i) == b.refs[b.types[i].data]

\* Mutant: two nominals are equal if both are structs, or both are enums.
TypesEqualByTag(b, i, j) ==
    LET equal[x \in Nat, y \in Nat] ==
            \/ x = y
            \/ /\ b.types[x].tag = b.types[y].tag
               /\ CASE IsReference(b, x) -> equal[Pointee(b, x), Pointee(b, y)]
                    [] b.types[x].tag = "Tuple" ->
                           LET s == b.tuples[b.types[x].data]
                               t == b.tuples[b.types[y].data]
                           IN  /\ s.size = t.size
                               /\ \A k \in 0 .. s.size - 1 : equal[s.head + k, t.head + k]
                    [] OTHER -> TRUE
    IN  equal[i, j]

\* types_equal: by tag, through references and tuples, nominals and blessed
\* instances by index. No path of references and tuples is cyclic, so the
\* guard against pairs seen before is left out.
TypesEqual(b, i, j) ==
    LET equal[x \in Nat, y \in Nat] ==
            \/ x = y
            \/ /\ b.types[x].tag = b.types[y].tag
               /\ CASE IsReference(b, x) -> equal[Pointee(b, x), Pointee(b, y)]
                    [] b.types[x].tag = "Tuple" ->
                           LET s == b.tuples[b.types[x].data]
                               t == b.tuples[b.types[y].data]
                           IN  /\ s.size = t.size
                               /\ \A k \in 0 .. s.size - 1 : equal[s.head + k, t.head + k]
                    [] OTHER -> b.types[x].tag \notin {"Struct", "Enum"}
    IN  equal[i, j]

-----------------------------------------------------------------------------
IsRun(r, table) ==
    r.size \in Nat /\ r.head \in 1 .. Len(table) + 1 /\ r.head + r.size <= Len(table) + 1

\* Every index in the tables is of an entry, every range a run of entries.
IsTables(b) ==
    /\ \A i \in 1 .. Len(b.types) :
           LET n == b.types[i] IN
           /\ n.tag \in TypeTag
           /\ n.tag = "Struct" => n.data \in 1 .. Len(b.structs)
           /\ n.tag = "Enum" => n.data \in 1 .. Len(b.enums)
           /\ n.tag = "Array" => n.data \in 1 .. Len(b.arrays)
           /\ n.tag = "Tuple" => n.data \in 1 .. Len(b.tuples)
           /\ n.tag \in {"Ref", "MutRef"} /\ i \in Interned(b) => n.data \in 1 .. Len(b.refs)
    /\ \A k \in 1 .. Len(b.structs) : IsRun(b.structs[k], b.types)
    /\ \A k \in 1 .. Len(b.variants) : IsRun(b.variants[k], b.types)
    /\ \A k \in 1 .. Len(b.tuples) : IsRun(b.tuples[k], b.types)
    /\ \A k \in 1 .. Len(b.enums) : IsRun(b.enums[k], b.variants)
    /\ \A k \in 1 .. Len(b.arrays) : b.arrays[k].element \in 1 .. Len(b.types)
    /\ \A k \in 1 .. Len(b.refs) : b.refs[k] \in 1 .. Len(b.types)

=============================================================================
