----------------------------- MODULE ValueNames -----------------------------
(***************************************************************************)
(* What body checking looks up (analyzer/types.cc): the value namespace,   *)
(* the constructors that patterns and calls name, and which patterns cover *)
(* which values. Nothing here changes state.                               *)
(*                                                                         *)
(* Env is what the passes before check_bodies leave of a module:           *)
(*   builder    the type tables (StorageTypes)                             *)
(*   nominals   the complete nominals: name, kind, type, the names of the  *)
(*              fields, and for an enum its variants with their payloads   *)
(*   blessed    the instances of Result and Option                         *)
(*   functions, statics, methods   with the indexes of their types         *)
(* A path is one name, or two; a prefix of module names leads to the same  *)
(* tables of another module and is left out.                               *)
(***************************************************************************)
EXTENDS Trees, FiniteSets, SequencesExt

CONSTANT Env

ResolveType(b, ty) ==
    IF ty.tuple THEN TupleType(AppendCopies(b, ty.of), CopiesRange(b, ty.of)) ELSE Made(b, ty.of[1])

ResolveTypes(b, list) ==
    LET upto[k \in Nat] ==
            IF k = 0 THEN Made(b, <<>>)
            ELSE LET made == ResolveType(upto[k - 1].builder, list[k])
                 IN  Made(made.builder, Append(upto[k - 1].idx, made.idx))
    IN  upto[Len(list)]

\* The tables as check_bodies finds them. An error and a never entry are there
\* already, as in a package with an impl block and a function that returns `!`.
ASSUME EnvAssumption ==
    /\ IsTables(Env.builder)
    /\ \A tag \in {"Error", "Never"} : \E i \in Interned(Env.builder) : Env.builder.types[i].tag = tag
    /\ \A k \in 1 .. Len(Env.nominals) : Env.nominals[k].type \in Interned(Env.builder)
    /\ \A k \in 1 .. Len(Env.blessed) : Env.blessed[k].type \in Interned(Env.builder)

TheEntry(tag) == Lowest({i \in Interned(Env.builder) : Env.builder.types[i].tag = tag})
ErrorType == TheEntry("Error")
NeverType == TheEntry("Never")
Void == Primitive("Void")
Bool == Primitive("I1")
Str == Primitive("Str")

IsInteger(tag) == tag \in {"I8", "I16", "I32", "I64", "U8", "U16", "U32", "U64"}
IsFloat(tag) == tag \in {"F32", "F64"}

-----------------------------------------------------------------------------
Named(table, name) == {k \in DOMAIN table : table[k].name = name}
NominalOf(type) == {k \in DOMAIN Env.nominals : Env.nominals[k].type = type}
InstanceOf(type) == {k \in DOMAIN Env.blessed : Env.blessed[k].type = type}
Instance(type) == Env.blessed[Lowest(InstanceOf(type))]

\* lookup_local: the innermost scope that has the name, in it the first local.
LocalsNamed(scopes, name) == {s \in DOMAIN scopes : Named(scopes[s], name) # {}}
LookupLocal(scopes, name) ==
    LET s == CHOOSE s \in LocalsNamed(scopes, name) : \A t \in LocalsNamed(scopes, name) : t <= s
    IN  scopes[s][Lowest(Named(scopes[s], name))]

\* find_variant: every variant of that name, of any enum in scope.
VariantsNamed(name) ==
    UNION {{n} \X Named(Env.nominals[n].variants, name) : n \in DOMAIN Env.nominals}
VariantOf(n, name) == {n} \X Named(Env.nominals[n].variants, name)

Constructor(found) ==
    LET m == CHOOSE m \in found : TRUE
        v == Env.nominals[m[1]].variants[m[2]]
    IN  [kind |-> IF v.payload = <<>> THEN "UnitVariant" ELSE "TupleVariant",
         type |-> Env.nominals[m[1]].type, payload |-> v.payload]

\* resolve_blessed_ctor: the first instance of the kind, if there is any.
BlessedName == {"Ok", "Err", "Some", "None"}
OfResult(name) == name \in {"Ok", "Err"}
BlessedInstances(name) == {k \in DOMAIN Env.blessed : Env.blessed[k].is_result = OfResult(name)}
BlessedCtor(name) ==
    [kind |-> "BlessedCtor", name |-> name,
     type |-> Env.blessed[Lowest(BlessedInstances(name))].type]

Unresolved == [kind |-> "None"]

ResolveName(scopes, name) ==
    IF LocalsNamed(scopes, name) # {}
        THEN [kind |-> "Local", type |-> LookupLocal(scopes, name).type]
    ELSE IF Named(Env.statics, name) # {}
        THEN [kind |-> "Static", type |-> Env.statics[Lowest(Named(Env.statics, name))].type]
    ELSE IF Named(Env.functions, name) # {}
        THEN [kind |-> "Function", fn |-> Env.functions[Lowest(Named(Env.functions, name))]]
    ELSE IF Cardinality(VariantsNamed(name)) = 1 THEN Constructor(VariantsNamed(name))
    ELSE IF name \in BlessedName /\ BlessedInstances(name) # {} THEN BlessedCtor(name)
    ELSE IF Named(Env.nominals, name) # {} THEN [kind |-> "Type"]
    ELSE Unresolved

\* lookup_method: by the index of the type, so that a copy of it has none.
MethodsOf(type, name) ==
    {k \in Named(Env.methods, name) : Env.methods[k].self_type = type}

\* `Enum::Variant`, `Type::function`, `Result::Ok`.
ResolveMember(head, member) ==
    LET heads == Named(Env.nominals, head)
        n     == Lowest(heads)
        found == MethodsOf(Env.nominals[n].type, member)
    IN  IF heads # {} /\ VariantOf(n, member) # {} THEN Constructor(VariantOf(n, member))
        ELSE IF heads # {} /\ found # {} /\ Env.methods[Lowest(found)].receiver = "None"
            THEN [kind |-> "AssocFunction", fn |-> Env.methods[Lowest(found)]]
        ELSE IF head \in {"Result", "Option"} /\ member \in BlessedName /\ BlessedInstances(member) # {}
            THEN BlessedCtor(member)
        ELSE Unresolved

\* resolve_value_path
ResolveValue(scopes, path) ==
    IF Len(path) = 1 THEN ResolveName(scopes, path[1]) ELSE ResolveMember(path[1], path[2])

\* A name of two variants is diagnosed, and then tried as something else.
Ambiguous(scopes, path) ==
    Len(path) = 1 /\ Cardinality(VariantsNamed(path[1])) > 1
        /\ LocalsNamed(scopes, path[1]) = {}
        /\ Named(Env.statics, path[1]) = {} /\ Named(Env.functions, path[1]) = {}

\* resolve_variant_path, for patterns: no locals, and a blessed constructor
\* whether or not there is an instance.
ResolveVariant(path) ==
    LET name == path[Len(path)]
        all  == IF Len(path) = 1 THEN VariantsNamed(name)
                ELSE UNION {VariantOf(n, name) : n \in Named(Env.nominals, path[1])}
    IN  IF Cardinality(all) = 1 THEN [Constructor(all) EXCEPT !.kind = "TupleVariant"]
        ELSE IF name \in BlessedName
                /\ (Len(path) = 2 => path[1] = IF OfResult(name) THEN "Result" ELSE "Option")
            THEN [kind |-> "BlessedCtor", name |-> name]
        ELSE Unresolved

\* variant_payloads of a blessed constructor, for the instance of enum_type.
BlessedPayload(name, enum_type) ==
    IF InstanceOf(enum_type) = {} THEN <<>>
    ELSE IF name \in {"Ok", "Some"} THEN <<Instance(enum_type).args[1]>>
    ELSE IF Instance(enum_type).is_result THEN <<Instance(enum_type).args[2]>>
    ELSE <<>>

StructsNamed(path) ==
    {n \in Named(Env.nominals, path[1]) : Len(path) = 1 /\ Env.nominals[n].kind = "Struct"}

\* The field of that name: its position, 0 if there is none.
FieldOf(n, name) ==
    LET at == {k \in DOMAIN Env.nominals[n].fields : Env.nominals[n].fields[k] = name}
    IN  IF at = {} THEN 0 ELSE Lowest(at)

\* contains_mut_ref: somewhere in a value of the type, or behind a reference.
ContainsMutRef(b, type) ==
    LET parts(i) == ValueParts(b, i) \cup (IF b.types[i].tag = "Ref" THEN {Pointee(b, i)} ELSE {})
        within[k \in Nat] ==
            IF k = 0 THEN {type}
            ELSE LET inner == within[k - 1] IN inner \cup UNION {parts(i) : i \in inner}
    IN  \E i \in within[Len(b.types)] : b.types[i].tag = "MutRef"

\* collect_pattern_idents
Idents[q \in Patterns] ==
    IF q.kind \in {"Ident", "MutIdent"} THEN <<q.name>>
    ELSE IF q.kind \in {"Wildcard", "Literal"} THEN <<>>
    ELSE FlattenSeq([k \in DOMAIN q.parts |-> Idents[q.parts[k]]])

-----------------------------------------------------------------------------
(***************************************************************************)
(* check_exhaustive.                                                       *)
(***************************************************************************)
PatternIsWildcard[q \in Patterns] ==
    \/ q.kind \in {"Wildcard", "Ident", "MutIdent"}
    \/ q.kind = "Or" /\ \E k \in DOMAIN q.parts : PatternIsWildcard[q.parts[k]]

BoolLiterals[q \in Patterns] ==
    CASE q.kind = "Literal" -> IF q.lit.kind = "Bool" THEN {q.lit.value} ELSE {}
      [] q.kind = "Or"      -> UNION {BoolLiterals[q.parts[k]] : k \in DOMAIN q.parts}
      [] OTHER              -> {}

\* Mutant: one of the two is enough.
BoolMissingBoth(pats) == UNION {BoolLiterals[q] : q \in pats} = {}
BoolMissing(pats) == UNION {BoolLiterals[q] : q \in pats} # {"true", "false"}

\* mark_variant_covered: by the last name of the path.
CoveredVariants[q \in Patterns, n \in DOMAIN Env.nominals] ==
    LET variants == Env.nominals[n].variants IN
    CASE q.kind = "Ident" -> {v \in Named(variants, q.name) : variants[v].payload = <<>>}
      [] q.kind = "Tuple" -> IF q.path = <<>> THEN {} ELSE Named(variants, q.path[Len(q.path)])
      [] q.kind = "Or"    -> UNION {CoveredVariants[q.parts[k], n] : k \in DOMAIN q.parts}
      [] OTHER            -> {}

\* Some arm is missing, so far as this looks: not into payloads, and not at
\* the elements of a tuple or struct pattern. An instance needs a wildcard,
\* and an enum that is neither is a copy in a slot and passes.
NonExhaustive(b, scrutinee, pats) ==
    LET tag == b.types[scrutinee].tag
        n   == Lowest(NominalOf(scrutinee))
        has(kind) == \E q \in pats : q.kind = kind /\ (kind = "Tuple" => q.path = <<>>)
    IN  /\ \A q \in pats : ~PatternIsWildcard[q]
        /\ CASE tag = "I1" -> BoolMissing(pats)
             [] tag = "Enum" /\ NominalOf(scrutinee) # {} ->
                    DOMAIN Env.nominals[n].variants # UNION {CoveredVariants[q, n] : q \in pats}
             [] tag = "Enum" /\ NominalOf(scrutinee) = {} -> InstanceOf(scrutinee) # {}
             [] tag = "Tuple" -> ~has("Tuple")
             [] tag = "Struct" -> ~has("Struct")
             [] OTHER -> TRUE

=============================================================================
