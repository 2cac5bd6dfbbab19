----------------------------- MODULE TypeTable -----------------------------
(***************************************************************************)
(* How analyzer/types.cc turns every type position of a package into an    *)
(* index of the type tables: register_nominals, process_module, the types  *)
(* that check_bodies resolves, and validate_cycles.                        *)
(*                                                                         *)
(* resolve_type and intern_nominal call each other. A call in progress is  *)
(* a frame of the stack: the type expressions it still has to resolve, and *)
(* the indexes it has so far. Every action resolves one expression or ends *)
(* one call; between them the tables hold nominals that are reserved and   *)
(* not yet filled.                                                         *)
(*                                                                         *)
(* The program p extends the module graph (count, parent, label):          *)
(*   p.width       pointer width                                           *)
(*   p.items[m]    the items of module m in source order                   *)
(*   p.imports[m]  its Type imports, as resolve_modules left them          *)
(* An item is uniform: a struct has one list of fields, an enum one for    *)
(* each variant; a function has one signature, an impl block one for each  *)
(* method, a static or constant one with its type as result. A signature   *)
(* without a written result has "Unit", which resolves to the same entry.  *)
(* The types a body names (ascriptions and casts) are the list `body`;     *)
(* the rest of body checking is not modelled.                              *)
(***************************************************************************)
EXTENDS ModuleGraph, StorageTypes

CONSTANTS
    TypeExpr,      \* the type expressions of the programs, closed under parts
    Families       \* sets of programs to check

\* A type expression: `tag` is the keyword of a primitive, `is_mut` is of a
\* reference, `path` of a path, `args` what it is built from.
ExprKind == {"Primitive", "Unit", "Never", "Tuple", "Ref", "Path"}
PrimitiveKind == {"I8", "I16", "I32", "I64", "U8", "U16", "U32", "U64", "F32", "F64",
                  "Isize", "Usize", "Bool", "Str", "I128", "U128"}

ASSUME TypeExprAssumption ==
    \A ty \in TypeExpr :
        /\ ty.kind \in ExprKind
        /\ ty.tag \in PrimitiveKind \cup {""}
        /\ ty.kind = "Primitive" => ty.tag # ""
        /\ ty.is_mut \in BOOLEAN
        /\ ty.path \in Seq(Segment \cup {"Result", "Option"})
        /\ ty.kind = "Path" => ty.path # <<>>
        /\ ty.args \in Seq(TypeExpr)
        /\ ty.kind = "Ref" => Len(ty.args) = 1

Signature == [params : Seq(TypeExpr), ret : TypeExpr, body : Seq(TypeExpr)]
ItemKind == {"Struct", "Enum", "Fn", "Impl", "Static", "Const"}
Item == [kind : ItemKind, name : Name \cup {"Result", "Option", "main"},
         variants : Seq(Seq(TypeExpr)), subject : TypeExpr, sigs : Seq(Signature)]

IsProgram(p) ==
    /\ p.count \in Nat \ {0}
    /\ p.parent \in [Modules(p) -> Modules(p) \cup {kNoModule}]
    /\ p.label \in [Modules(p) -> Name \cup {""}]
    /\ p.width \in {32, 64}
    /\ p.items \in [Modules(p) -> Seq(Item)]
    /\ p.imports \in
           [Modules(p) -> Seq([name : Name, module : Modules(p), member : Name])]
    /\ \A m \in Modules(p) : \A i \in 1 .. Len(p.items[m]) :
           /\ p.items[m][i].kind = "Struct" => Len(p.items[m][i].variants) = 1
           /\ p.items[m][i].kind \in {"Fn", "Static", "Const"} => Len(p.items[m][i].sigs) = 1

ASSUME FamiliesAssumption == \A F \in Families : \A p \in F : IsProgram(p)

-----------------------------------------------------------------------------
(***************************************************************************)
(* register_nominals. An item is its module and its position.              *)
(***************************************************************************)
Items(p) == UNION {{m} \X (1 .. Len(p.items[m])) : m \in Modules(p)}
ItemAt(p, n) == p.items[n[1]][n[2]]

IsNominal(item) == item.kind \in {"Struct", "Enum"}
Reserved(item) == IsNominal(item) /\ item.name \in {"Result", "Option"}
Duplicate(p, n) ==
    /\ IsNominal(ItemAt(p, n)) /\ ~Reserved(ItemAt(p, n))
    /\ \E i \in 1 .. n[2] - 1 :
           IsNominal(p.items[n[1]][i]) /\ p.items[n[1]][i].name = ItemAt(p, n).name

Registered(p) ==
    {n \in Items(p) : IsNominal(ItemAt(p, n)) /\ ~Reserved(ItemAt(p, n)) /\ ~Duplicate(p, n)}

NoNominal == <<kNoModule, 0>>

FindNominal(p, m, name) ==
    LET found == {n \in Registered(p) : n[1] = m /\ ItemAt(p, n).name = name}
    IN  IF found = {} THEN NoNominal ELSE CHOOSE n \in found : TRUE

-----------------------------------------------------------------------------
(***************************************************************************)
(* Paths. walk_module_prefix: the head names a module or a child of m, the *)
(* segments between head and last are children.                            *)
(***************************************************************************)
TypeHead(p, m, head) ==
    CASE head = "package" -> 0
      [] head = "self"    -> m
      [] head = "super"   -> p.parent[m]
      [] OTHER            -> FindChildModule(p, m, head)

PrefixModule(p, m, path) ==
    LET walk[k \in Nat] ==
            IF k = 0 THEN m
            ELSE IF k = 1 THEN TypeHead(p, m, path[1])
            ELSE IF walk[k - 1] = kNoModule THEN kNoModule
            ELSE FindChildModule(p, walk[k - 1], path[k])
    IN  walk[Len(path) - 1]

\* What a single name means by an import: the first Type import of that name
\* whose member is a nominal.
ImportedNominal(p, m, name) ==
    LET hits == {k \in 1 .. Len(p.imports[m]) :
                    /\ p.imports[m][k].name = name
                    /\ FindNominal(p, p.imports[m][k].module, p.imports[m][k].member) # NoNominal}
        first == p.imports[m][Lowest(hits)]
    IN  IF hits = {} THEN NoNominal ELSE FindNominal(p, first.module, first.member)

\* The nominal a path names without imports, as an impl block looks it up.
PathNominal(p, m, path) ==
    LET module == PrefixModule(p, m, path) IN
    IF module = kNoModule THEN NoNominal ELSE FindNominal(p, module, path[Len(path)])

TypeNominal(p, m, path) ==
    LET own == PathNominal(p, m, path) IN
    IF own = NoNominal /\ Len(path) = 1 THEN ImportedNominal(p, m, path[1]) ELSE own

\* The nominal an impl block is for; NoNominal leaves its methods without Self.
ImplNominal(p, n) ==
    LET subject == ItemAt(p, n).subject IN
    IF subject.kind = "Path" /\ subject.args = <<>> THEN PathNominal(p, n[1], subject.path)
    ELSE NoNominal

-----------------------------------------------------------------------------
(***************************************************************************)
(* The cases of resolve_type, for an expression in module m where Self is  *)
(* the nominal `self`.                                                     *)
(***************************************************************************)
IsBlessed(ty) == ty.kind = "Path" /\ ty.path \in {<<"Result">>, <<"Option">>}
Arity(ty) == IF ty.path = <<"Result">> THEN 2 ELSE 1
IsSelf(ty) == ty.kind = "Path" /\ ty.path = <<"Self">>

PrimitiveTagOf(p, ty) ==
    CASE ty.kind = "Unit"   -> "Void"
      [] ty.tag = "Isize"  -> IF p.width = 64 THEN "I64" ELSE "I32"
      [] ty.tag = "Usize"  -> IF p.width = 64 THEN "U64" ELSE "U32"
      [] ty.tag = "Bool"   -> "I1"
      [] OTHER              -> ty.tag

\* The diagnostic a failed resolution emits, "" if it does not fail.
Failure(p, m, self, ty) ==
    CASE ty.kind = "Primitive" /\ ty.tag \in {"I128", "U128"} -> "UnsupportedType"
      [] IsSelf(ty) /\ self = NoNominal                     -> "UnknownType"
      [] IsBlessed(ty) /\ Len(ty.args) # Arity(ty)          -> "ArityMismatch"
      [] ty.kind = "Path" /\ ~IsBlessed(ty) /\ ty.args # <<>> /\ (IsSelf(ty) => self # NoNominal)
                                                            -> "GenericArguments"
      [] ty.kind = "Path" /\ ~IsBlessed(ty) /\ ~IsSelf(ty) /\ ty.args = <<>>
            /\ TypeNominal(p, m, ty.path) = NoNominal       -> "UnknownType"
      [] OTHER                                              -> ""

-----------------------------------------------------------------------------
VARIABLES
    p,          \* the program
    at,         \* the pass, and the next module, item and signature in it
    b,          \* the type tables
    nominals,   \* NominalEntry of every registered nominal
    blessed,    \* the instances of Result and Option, in order of first use
    stack,      \* the calls in progress, innermost last
    sigs,       \* CheckedModule::functions, methods and statics
    diags       \* the diagnostics, each with the item it was emitted for

vars == <<p, at, b, nominals, blessed, stack, sigs, diags>>

Top == stack[Len(stack)]
Below == SubSeq(stack, 1, Len(stack) - 1)
Here == <<at.module, at.item>>

\* An expression to resolve, with what Self means in it.
Seeing(self, list) == [k \in 1 .. Len(list) |-> [ty |-> list[k], self |-> self]]

Frame(kind, item, parts) ==
    [kind |-> kind, item |-> item, parts |-> parts, done |-> <<>>,
     payloads |-> <<>>, head |-> 1, added |-> 0]

\* The call on top becomes f; it gets its next index; a call returns one to the
\* call below.
WithTop(f) == [stack EXCEPT ![Len(stack)] = f]
Answered(s, idx) == [s EXCEPT ![Len(s)].done = Append(@, idx)]
Returned(idx) == IF Below = <<>> THEN <<>> ELSE Answered(Below, idx)

Diag(code, item) == [code |-> code, item |-> item]

Init ==
    /\ \E F \in Families : p \in F
    /\ at = [pass |-> "Items", module |-> 0, item |-> 1, sig |-> 0]
    /\ b = InitBuilder
    /\ nominals = [n \in Registered(p) |-> [type |-> 1, started |-> FALSE, complete |-> FALSE]]
    /\ blessed = <<>>
    /\ stack = <<>>
    /\ sigs = <<>>
    /\ diags = {Diag("ReservedName", n) : n \in {k \in Items(p) : Reserved(ItemAt(p, k))}}
                  \cup {Diag("DuplicateDefinition", n) : n \in {k \in Items(p) : Duplicate(p, k)}}

-----------------------------------------------------------------------------
(***************************************************************************)
(* intern_nominal, up to its first resolve_type: the index is reserved     *)
(* before any field is looked at.                                          *)
(***************************************************************************)
NominalFrame(n) ==
    LET item == ItemAt(p, n) IN
    Frame(item.kind, n, IF item.variants = <<>> THEN <<>> ELSE Seeing(NoNominal, item.variants[1]))

\* Mutant: a nominal under construction is interned again.
ReserveIncomplete(n, base) ==
    LET made == IF ItemAt(p, n).kind = "Struct" THEN ReserveStruct(base) ELSE ReserveEnum(base) IN
    /\ ~nominals[n].complete
    /\ b' = made.builder
    /\ nominals' = [nominals EXCEPT ![n].type = made.idx, ![n].started = TRUE]
    /\ stack' = Append(stack, NominalFrame(n))

Reserve(n, base) ==
    LET made == IF ItemAt(p, n).kind = "Struct" THEN ReserveStruct(base) ELSE ReserveEnum(base) IN
    /\ ~nominals[n].started
    /\ b' = made.builder
    /\ nominals' = [nominals EXCEPT ![n].type = made.idx, ![n].started = TRUE]
    /\ stack' = Append(stack, NominalFrame(n))

-----------------------------------------------------------------------------
(***************************************************************************)
(* process_module and check_bodies: the loops over modules, items and      *)
(* methods.                                                                *)
(***************************************************************************)
Walking == stack = <<>> /\ at.pass \in {"Items", "Bodies"}
AtItem == Walking /\ at.item <= Len(p.items[at.module])
TheItem == p.items[at.module][at.item]

\* The nominal an item interns before its signatures: a struct or enum the
\* first of its name in the module, an impl block its subject.
ItemNominal ==
    CASE TheItem.kind = "Impl" -> ImplNominal(p, Here)
      [] IsNominal(TheItem) /\ at.pass = "Items" -> FindNominal(p, at.module, TheItem.name)
      [] OTHER -> NoNominal

\* An impl block asks for the error type before it looks at its subject.
ItemTables == IF TheItem.kind = "Impl" THEN SingleType(b, "Error").builder ELSE b

InternItem ==
    /\ AtItem /\ at.sig = 0
    /\ ItemNominal # NoNominal
    /\ Reserve(ItemNominal, ItemTables)
    /\ at' = [at EXCEPT !.sig = 1]
    /\ UNCHANGED <<p, blessed, sigs, diags>>

\* Nothing to intern, or interned before. The second pass walks the subject
\* again and repeats at most a diagnostic of the first.
PassItem ==
    LET failed == TheItem.kind = "Impl" /\ ItemNominal = NoNominal
        code == IF TheItem.subject.kind = "Path" /\ TheItem.subject.args # <<>>
                THEN "GenericArguments" ELSE "UnknownType"
    IN
    /\ AtItem /\ at.sig = 0
    /\ ItemNominal # NoNominal => nominals[ItemNominal].started
    /\ diags' = IF failed THEN diags \cup {Diag(code, Here)} ELSE diags
    /\ b' = ItemTables
    /\ at' = [at EXCEPT !.sig = 1]
    /\ UNCHANGED <<p, nominals, blessed, stack, sigs>>

\* What one signature resolves. check_bodies resolves it again, result first,
\* then the types the body names, without Self; check_main the result of the
\* root's main once more.
SignatureParts(sig) ==
    LET self == IF TheItem.kind = "Impl" THEN ImplNominal(p, Here) ELSE NoNominal
        main == TheItem.kind = "Fn" /\ TheItem.name = "main" /\ at.module = 0
    IN  IF at.pass = "Items" THEN Seeing(self, Append(sig.params, sig.ret))
        ELSE Seeing(self, <<sig.ret>> \o sig.params) \o Seeing(NoNominal, sig.body)
                 \o (IF main THEN Seeing(NoNominal, <<sig.ret>>) ELSE <<>>)

StartSignature ==
    /\ AtItem /\ at.sig \in 1 .. Len(TheItem.sigs)
    /\ stack' = <<Frame("Signature", Here, SignatureParts(TheItem.sigs[at.sig]))>>
    /\ UNCHANGED <<p, at, b, nominals, blessed, sigs, diags>>

NextItem ==
    /\ AtItem /\ at.sig > Len(TheItem.sigs)
    /\ at' = [at EXCEPT !.item = @ + 1, !.sig = 0]
    /\ UNCHANGED <<p, b, nominals, blessed, stack, sigs, diags>>

NextModule ==
    /\ Walking /\ at.item > Len(p.items[at.module])
    /\ at' = IF at.module + 1 < p.count
             THEN [at EXCEPT !.module = @ + 1, !.item = 1]
             ELSE [pass |-> IF at.pass = "Items" THEN "Bodies" ELSE "Cycles",
                   module |-> 0, item |-> 1, sig |-> 0]
    /\ UNCHANGED <<p, b, nominals, blessed, stack, sigs, diags>>

\* modules[].types and structs, which repeat the index of a registered
\* nominal, are not kept.

-----------------------------------------------------------------------------
(***************************************************************************)
(* resolve_type, one expression of the call on top at a time.              *)
(***************************************************************************)
Resolving == stack # <<>> /\ Len(Top.done) < Len(Top.parts)
Ready == stack # <<>> /\ Len(Top.done) = Len(Top.parts)

Pending == Top.parts[Len(Top.done) + 1]
Expr == Pending.ty
Self == Pending.self
InModule == Top.item[1]

Fails == Failure(p, InModule, Self, Expr) # ""
NamesNominal == Expr.kind = "Path" /\ ~IsSelf(Expr) /\ ~IsBlessed(Expr)
Named == TypeNominal(p, InModule, Expr.path)

ResolvePrimitive ==
    /\ Resolving /\ Expr.kind \in {"Primitive", "Unit"} /\ ~Fails
    /\ stack' = Answered(stack, Primitive(PrimitiveTagOf(p, Expr)))
    /\ UNCHANGED <<p, at, b, nominals, blessed, sigs, diags>>

ResolveNever ==
    LET made == SingleType(b, "Never") IN
    /\ Resolving /\ Expr.kind = "Never"
    /\ b' = made.builder
    /\ stack' = Answered(stack, made.idx)
    /\ UNCHANGED <<p, at, nominals, blessed, sigs, diags>>

ResolveFailed ==
    LET made == SingleType(b, "Error") IN
    /\ Resolving /\ Fails
    /\ diags' = diags \cup {Diag(Failure(p, InModule, Self, Expr), Top.item)}
    /\ b' = made.builder
    /\ stack' = Answered(stack, made.idx)
    /\ UNCHANGED <<p, at, nominals, blessed, sigs>>

ResolveSelf ==
    /\ Resolving /\ IsSelf(Expr) /\ ~Fails
    /\ stack' = Answered(stack, nominals[Self].type)
    /\ UNCHANGED <<p, at, b, nominals, blessed, sigs, diags>>

\* Mutant: only a nominal that is filled answers.
ResolveNominalComplete ==
    /\ Resolving /\ NamesNominal /\ ~Fails
    /\ nominals[Named].complete
    /\ stack' = Answered(stack, nominals[Named].type)
    /\ UNCHANGED <<p, at, b, nominals, blessed, sigs, diags>>

\* A nominal that is started answers with its index, filled or not.
ResolveNominal ==
    /\ Resolving /\ NamesNominal /\ ~Fails
    /\ nominals[Named].started
    /\ stack' = Answered(stack, nominals[Named].type)
    /\ UNCHANGED <<p, at, b, nominals, blessed, sigs, diags>>

EnterNominal ==
    /\ Resolving /\ NamesNominal /\ ~Fails
    /\ Reserve(Named, b)
    /\ UNCHANGED <<p, at, blessed, sigs, diags>>

PartsKind ==
    CASE Expr.kind = "Tuple" -> "Tuple"
      [] Expr.kind = "Ref"   -> IF Expr.is_mut THEN "MutRef" ELSE "Ref"
      [] OTHER               -> Expr.path[1]

EnterParts ==
    /\ Resolving /\ ~Fails
    /\ Expr.kind \in {"Tuple", "Ref"} \/ IsBlessed(Expr)
    /\ stack' = Append(stack, Frame(PartsKind, Top.item, Seeing(Self, Expr.args)))
    /\ UNCHANGED <<p, at, b, nominals, blessed, sigs, diags>>

FinishTuple ==
    LET made == TupleType(AppendCopies(b, Top.done), CopiesRange(b, Top.done)) IN
    /\ Ready /\ Top.kind = "Tuple"
    /\ b' = made.builder
    /\ stack' = Returned(made.idx)
    /\ UNCHANGED <<p, at, nominals, blessed, sigs, diags>>

FinishReference ==
    LET made == ReferenceType(b, Top.done[1], Top.kind = "MutRef") IN
    /\ Ready /\ Top.kind \in {"Ref", "MutRef"}
    /\ b' = made.builder
    /\ stack' = Returned(made.idx)
    /\ UNCHANGED <<p, at, nominals, blessed, sigs, diags>>

\* intern_blessed. The payload of a variant is the argument's own entry.
Instances(is_result, args) ==
    {k \in 1 .. Len(blessed) : blessed[k].is_result = is_result /\ blessed[k].args = args}

FinishBlessedFound ==
    LET same == Instances(Top.kind = "Result", Top.done) IN
    /\ Ready /\ Top.kind \in {"Result", "Option"}
    /\ same # {}
    /\ stack' = Returned(blessed[Lowest(same)].type)
    /\ UNCHANGED <<p, at, b, nominals, blessed, sigs, diags>>

FinishBlessedNew ==
    LET is_result == Top.kind = "Result"
        ok   == AppendVariant(b, IdxRange(Top.done[1], 1))
        both == AppendVariant(ok, IF is_result THEN IdxRange(Top.done[2], 1) ELSE NoSlots)
        made == EnumType(both, IdxRange(Len(b.variants) + 1, 2)) IN
    /\ Ready /\ Top.kind \in {"Result", "Option"}
    /\ Instances(is_result, Top.done) = {}
    /\ b' = made.builder
    /\ blessed' = Append(blessed, [is_result |-> is_result, args |-> Top.done, type |-> made.idx])
    /\ stack' = Returned(made.idx)
    /\ UNCHANGED <<p, at, nominals, sigs, diags>>

-----------------------------------------------------------------------------
(***************************************************************************)
(* intern_nominal, once fields are resolved. An enum resolves the payloads *)
(* of all variants before it appends the first of them.                    *)
(***************************************************************************)
Variants == ItemAt(p, Top.item).variants

FinishStruct ==
    /\ Ready /\ Top.kind = "Struct"
    /\ b' = FillStruct(AppendCopies(b, Top.done), nominals[Top.item].type, CopiesRange(b, Top.done))
    /\ nominals' = [nominals EXCEPT ![Top.item].complete = TRUE]
    /\ stack' = Returned(nominals[Top.item].type)
    /\ UNCHANGED <<p, at, blessed, sigs, diags>>

\* Mutant: a variant is appended as soon as its payload is resolved.
EndPayloadEager ==
    LET k == Len(Top.payloads) + 1 IN
    /\ Ready /\ Top.kind = "Enum" /\ k <= Len(Variants)
    /\ b' = AppendVariant(AppendCopies(b, Top.done), CopiesRange(b, Top.done))
    /\ stack' = WithTop([Top EXCEPT
                    !.payloads = Append(@, Top.done), !.done = <<>>, !.added = k,
                    !.head = IF k = 1 THEN Len(b.variants) + 1 ELSE @,
                    !.parts = IF k < Len(Variants) THEN Seeing(NoNominal, Variants[k + 1])
                              ELSE <<>>])
    /\ UNCHANGED <<p, at, nominals, blessed, sigs, diags>>

EndPayload ==
    LET k == Len(Top.payloads) + 1 IN
    /\ Ready /\ Top.kind = "Enum" /\ k <= Len(Variants)
    /\ stack' = WithTop([Top EXCEPT
                    !.payloads = Append(@, Top.done), !.done = <<>>,
                    !.parts = IF k < Len(Variants) THEN Seeing(NoNominal, Variants[k + 1])
                              ELSE <<>>])
    /\ UNCHANGED <<p, at, b, nominals, blessed, sigs, diags>>

PayloadsResolved == Ready /\ Top.kind = "Enum" /\ Len(Top.payloads) = Len(Variants)

AddVariant ==
    LET payload == Top.payloads[Top.added + 1] IN
    /\ PayloadsResolved /\ Top.added < Len(Variants)
    /\ b' = AppendVariant(AppendCopies(b, payload), CopiesRange(b, payload))
    /\ stack' = WithTop([Top EXCEPT
                    !.head = IF Top.added = 0 THEN Len(b.variants) + 1 ELSE @, !.added = @ + 1])
    /\ UNCHANGED <<p, at, nominals, blessed, sigs, diags>>

FinishEnum ==
    /\ PayloadsResolved /\ Top.added = Len(Variants)
    /\ b' = FillEnum(b, nominals[Top.item].type, IdxRange(Top.head, Top.added))
    /\ nominals' = [nominals EXCEPT ![Top.item].complete = TRUE]
    /\ stack' = Returned(nominals[Top.item].type)
    /\ UNCHANGED <<p, at, blessed, sigs, diags>>

-----------------------------------------------------------------------------
(***************************************************************************)
(* The end of a signature, and validate_cycles.                            *)
(***************************************************************************)
\* classify_receiver: by the index of the first parameter.
Receiver(first, self) ==
    CASE first = self -> "ByValue"
      [] first # self /\ IsReference(b, first) /\ Pointee(b, first) = self ->
             IF b.types[first].tag = "Ref" THEN "Shared" ELSE "Exclusive"
      [] OTHER -> "None"

SignatureReceiver ==
    LET self == ImplNominal(p, Here) IN
    IF TheItem.kind = "Impl" /\ self # NoNominal /\ Len(Top.done) > 1
    THEN Receiver(Top.done[1], nominals[self].type) ELSE "None"

ContainsMutRef(type) ==
    LET holds[i \in Nat, visited \in SUBSET Nat] ==
            /\ i \notin visited
            /\ \/ b.types[i].tag = "MutRef"
               \/ b.types[i].tag = "Ref" /\ holds[Pointee(b, i), visited \cup {i}]
               \/ \E q \in ValueParts(b, i) : holds[q, visited \cup {i}]
    IN  holds[type, {}]

FinishSignature ==
    LET static == TheItem.kind = "Static" /\ at.pass = "Bodies" IN
    /\ Ready /\ Top.kind = "Signature"
    /\ sigs' = IF at.pass = "Items"
               THEN Append(sigs, [item |-> Here, sig |-> at.sig, types |-> Top.done,
                                  receiver |-> SignatureReceiver])
               ELSE sigs
    /\ diags' = IF static /\ ContainsMutRef(Top.done[1])
                THEN diags \cup {Diag("InvalidOperation", Here)} ELSE diags
    /\ at' = [at EXCEPT !.sig = @ + 1]
    /\ stack' = <<>>
    /\ UNCHANGED <<p, b, nominals, blessed>>

HasValueCycle(type) ==
    LET cycle[i \in Nat, path \in SUBSET Nat] ==
            i \in path \/ \E q \in ValueParts(b, i) : cycle[q, path \cup {i}]
    IN  cycle[type, {}]

ValidateCycles ==
    /\ at.pass = "Cycles"
    /\ at' = [at EXCEPT !.pass = "Done"]
    /\ diags' = diags \cup {Diag("RecursiveType", n) :
                    n \in {k \in Registered(p) :
                              nominals[k].complete /\ HasValueCycle(nominals[k].type)}}
    /\ UNCHANGED <<p, b, nominals, blessed, stack, sigs>>

-----------------------------------------------------------------------------
Done == at.pass = "Done" /\ UNCHANGED vars

Next ==
    \/ InternItem \/ PassItem \/ StartSignature \/ NextItem \/ NextModule
    \/ ResolvePrimitive \/ ResolveNever \/ ResolveFailed \/ ResolveSelf
    \/ ResolveNominal \/ EnterNominal \/ EnterParts
    \/ FinishTuple \/ FinishReference \/ FinishBlessedFound \/ FinishBlessedNew
    \/ FinishStruct \/ EndPayload \/ AddVariant \/ FinishEnum
    \/ FinishSignature \/ ValidateCycles \/ Done

Spec == Init /\ [][Next]_vars /\ WF_vars(Next)

-----------------------------------------------------------------------------
(***************************************************************************)
(* What holds of the tables themselves; TypeTableChecks relates them to    *)
(* the source text.                                                        *)
(***************************************************************************)
IsPrefix(s, t) == Len(s) <= Len(t) /\ s = SubSeq(t, 1, Len(s))

IsIdx(i) == i \in 1 .. Len(b.types)
AreIdx(list) == \A k \in 1 .. Len(list) : IsIdx(list[k])

\* storage_builder.h:157-175: every index in the tables, and every index
\* that a nominal, an instance, a call in progress or a signature holds, is of
\* an entry, and every range a run of entries.
TypeOK ==
    /\ IsTables(b)
    /\ \A n \in Registered(p) : IsIdx(nominals[n].type)
    /\ \A k \in 1 .. Len(blessed) : IsIdx(blessed[k].type)
    /\ \A k \in 1 .. Len(stack) :
           AreIdx(stack[k].done) /\ \A v \in 1 .. Len(stack[k].payloads) : AreIdx(stack[k].payloads[v])
    /\ \A k \in 1 .. Len(sigs) : AreIdx(sigs[k].types)

SameNode(i, j) == b.types[i].tag = b.types[j].tag /\ b.types[i].data = b.types[j].data
NominalFrames == {k \in 1 .. Len(stack) : stack[k].kind \in {"Struct", "Enum"}}

\* storage_builder.h:157-161, types.cc:226-238: however its fields lead back to
\* it, a nominal is interned by one call at a time and reserved once, so that
\* nominals and instances can be told apart by the payload of their entries.
NominalsOnce ==
    /\ \A j, k \in NominalFrames : stack[j].item = stack[k].item => j = k
    /\ \A k \in NominalFrames :
           nominals[stack[k].item].started /\ ~nominals[stack[k].item].complete
    /\ \A n, k \in Registered(p) :
           /\ nominals[n].started /\ nominals[k].started
           /\ SameNode(nominals[n].type, nominals[k].type)
           => n = k
    /\ \A n \in Registered(p) : \A i \in 1 .. Len(blessed) :
           nominals[n].started => ~SameNode(nominals[n].type, blessed[i].type)
    /\ \A i, j \in 1 .. Len(blessed) : SameNode(blessed[i].type, blessed[j].type) => i = j

\* What the entry of n holds, once n is complete.
Contents(n) == IF ItemAt(p, n).kind = "Struct" THEN b.structs[b.types[nominals[n].type].data]
               ELSE b.enums[b.types[nominals[n].type].data]

\* storage_builder.h:162-175, types.cc:226-280: the tables only grow, and what a
\* complete nominal holds is never written again, by a nominal nested in it
\* or by one that it is nested in.
TablesGrow ==
    /\ IsPrefix(b.types, b'.types) /\ IsPrefix(b.variants, b'.variants)
    /\ IsPrefix(b.refs, b'.refs) /\ IsPrefix(b.tuples, b'.tuples)
CompleteStays ==
    \A n \in Registered(p) :
        /\ nominals[n].started => nominals'[n].started /\ nominals'[n].type = nominals[n].type
        /\ nominals[n].complete => nominals'[n].complete /\ Contents(n)' = Contents(n)
EntriesStay == [][TablesGrow /\ CompleteStays]_vars

=============================================================================
