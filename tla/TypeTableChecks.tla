-------------------------- MODULE TypeTableChecks --------------------------
(***************************************************************************)
(* What the type tables owe to the source text: what an expression means,  *)
(* what an entry of the tables means, and that the two agree.              *)
(***************************************************************************)
EXTENDS TypeTable

(***************************************************************************)
(* Meanings.                                                               *)
(***************************************************************************)
RECURSIVE Denote(_, _, _)
\* What ty means in module m, where Self means the nominal self.
Denote(m, self, ty) ==
    LET args == [k \in 1 .. Len(ty.args) |-> Denote(m, self, ty.args[k])]
        n    == IF IsSelf(ty) THEN self ELSE TypeNominal(p, m, ty.path)
    IN  CASE ty.kind = "Never" -> <<"never">>
          [] ty.kind \in {"Primitive", "Unit"} ->
                 IF ty.tag \in {"I128", "U128"} THEN <<"error">> ELSE <<"primitive", PrimitiveTagOf(p, ty)>>
          [] ty.kind = "Tuple" -> <<"tuple", args>>
          [] ty.kind = "Ref" -> <<IF ty.is_mut THEN "&mut" ELSE "&", args>>
          [] IsBlessed(ty) -> IF Len(args) = Arity(ty) THEN <<ty.path[1], args>> ELSE <<"error">>
          [] OTHER -> IF args = <<>> /\ n # NoNominal THEN <<"nominal", n>> ELSE <<"error">>

DenoteAll(m, list) == [k \in 1 .. Len(list) |-> Denote(m, list[k].self, list[k].ty)]

RECURSIVE Meaning(_)
\* What entry i of the tables means; a copy means what its original means.
Meaning(i) ==
    LET tag  == b.types[i].tag
        data == b.types[i].data
        inst == {k \in 1 .. Len(blessed) : SameNode(i, blessed[k].type)}
        noms == {n \in Registered(p) : nominals[n].started /\ SameNode(i, nominals[n].type)}
    IN  CASE tag = "Never" -> <<"never">>
          [] tag = "Error" -> <<"error">>
          [] tag = "Tuple" ->
                 <<"tuple", [k \in 1 .. b.tuples[data].size |-> Meaning(b.tuples[data].head + k - 1)]>>
          [] tag \in {"Ref", "MutRef"} ->
                 <<IF tag = "Ref" THEN "&" ELSE "&mut", <<Meaning(b.refs[data])>>>>
          [] tag \in {"Struct", "Enum"} /\ inst # {} ->
                 LET e == blessed[Lowest(inst)] IN
                 <<IF e.is_result THEN "Result" ELSE "Option",
                   [k \in 1 .. Len(e.args) |-> Meaning(e.args[k])]>>
          [] tag \in {"Struct", "Enum"} /\ inst = {} ->
                 IF noms = {} THEN <<"nothing">> ELSE <<"nominal", CHOOSE n \in noms : TRUE>>
          [] OTHER -> <<"primitive", tag>>

MeaningAll(list) == [k \in 1 .. Len(list) |-> Meaning(list[k])]
MeaningRun(r) == [k \in 1 .. r.size |-> Meaning(r.head + k - 1)]

\* The lists of a nominal or instance, one for each variant.
Lists(type) ==
    LET data == b.types[type].data IN
    IF b.types[type].tag = "Struct" THEN <<MeaningRun(b.structs[data])>>
    ELSE [k \in 1 .. b.enums[data].size |-> MeaningRun(b.variants[b.enums[data].head + k - 1])]

-----------------------------------------------------------------------------
DeclaredLists(n) ==
    LET lists == ItemAt(p, n).variants IN
    [k \in 1 .. Len(lists) |-> DenoteAll(n[1], Seeing(NoNominal, lists[k]))]

DeclaredReceiver(n, sig) ==
    LET self  == ImplNominal(p, n)
        first == Denote(n[1], self, sig.params[1])
    IN  IF ItemAt(p, n).kind # "Impl" \/ self = NoNominal \/ sig.params = <<>> THEN "None"
        ELSE CASE first = <<"nominal", self>> -> "ByValue"
               [] first = <<"&", <<<<"nominal", self>>>>>> -> "Shared"
               [] first = <<"&mut", <<<<"nominal", self>>>>>> -> "Exclusive"
               [] OTHER -> "None"

\* types.h:68-71, type.h:74-107: at every moment, whatever is half built, each
\* index that a call or a signature holds means what the source text denotes,
\* each filled nominal has the declared lists slot by slot, each instance has
\* its arguments as payloads, and a receiver is what its type says.
TypesAsDeclared ==
    /\ \A k \in 1 .. Len(stack) :
           LET f == stack[k] IN
           /\ MeaningAll(f.done) = DenoteAll(f.item[1], SubSeq(f.parts, 1, Len(f.done)))
           /\ \A v \in 1 .. Len(f.payloads) :
                  MeaningAll(f.payloads[v]) = DeclaredLists(f.item)[v]
    /\ \A n \in Registered(p) :
           nominals[n].complete => Lists(nominals[n].type) = DeclaredLists(n)
    /\ \A k \in 1 .. Len(blessed) :
           LET args == MeaningAll(blessed[k].args) IN
           Lists(blessed[k].type) =
               IF blessed[k].is_result THEN <<<<args[1]>>, <<args[2]>>>> ELSE <<args, <<>>>>
    /\ \A k \in 1 .. Len(sigs) :
           LET n    == sigs[k].item
               sig  == ItemAt(p, n).sigs[sigs[k].sig]
               self == IF ItemAt(p, n).kind = "Impl" THEN ImplNominal(p, n) ELSE NoNominal
           IN  /\ MeaningAll(sigs[k].types) =
                      DenoteAll(n[1], Seeing(self, Append(sig.params, sig.ret)))
               /\ sigs[k].receiver = DeclaredReceiver(n, sig)

-----------------------------------------------------------------------------
RECURSIVE HasIn(_, _)
\* Some part of a meaning, itself included, is of one of these kinds.
HasIn(mean, kinds) ==
    \/ mean[1] \in kinds
    \/ /\ mean[1] \in {"tuple", "&", "&mut", "Result", "Option"}
       /\ \E k \in 1 .. Len(mean[2]) : HasIn(mean[2][k], kinds)

RECURSIVE Exact(_)
\* No nominal or instance is an element of a tuple, and no tuple is an
\* argument of an instance.
Exact(mean) ==
    /\ mean[1] = "tuple" => ~HasIn(mean, {"nominal", "Result", "Option"})
    /\ mean[1] \in {"Result", "Option"} => ~HasIn(mean, {"tuple"})
    /\ mean[1] \in {"tuple", "&", "&mut", "Result", "Option"} =>
           \A k \in 1 .. Len(mean[2]) : Exact(mean[2][k])

SignatureTypes == UNION {{sigs[k].types[t] : t \in 1 .. Len(sigs[k].types)} : k \in 1 .. Len(sigs)}

\* types.cc:732-737: two entries are equal only if they mean the same type; and
\* two signatures that write the same type get equal entries, unless a
\* nominal is inside a tuple or a tuple inside a Result or Option. There the
\* entries differ, though types.cc:812-813 says of unify "Equality is
\* structural: field slots hold copies, so shared shapes with different indexes
\* still match".
EqualityExact ==
    at.pass = "Done" =>
        /\ \A i, j \in {1} \cup Interned(b) : TypesEqual(b, i, j) => Meaning(i) = Meaning(j)
        /\ \A i, j \in SignatureTypes :
               Meaning(i) = Meaning(j) /\ Exact(Meaning(i)) => TypesEqual(b, i, j)

-----------------------------------------------------------------------------
(***************************************************************************)
(* The diagnostics a package deserves.                                     *)
(***************************************************************************)
RECURSIVE Errors(_, _, _)
Errors(m, self, ty) ==
    LET inner == UNION {Errors(m, self, ty.args[k]) : k \in 1 .. Len(ty.args)} IN
    CASE ty.kind = "Primitive" -> IF ty.tag \in {"I128", "U128"} THEN {"UnsupportedType"} ELSE {}
      [] ty.kind \in {"Tuple", "Ref"} -> inner
      [] IsBlessed(ty) -> IF Len(ty.args) = Arity(ty) THEN inner ELSE {"ArityMismatch"}
      [] IsSelf(ty) -> IF self = NoNominal THEN {"UnknownType"}
                       ELSE IF ty.args # <<>> THEN {"GenericArguments"} ELSE {}
      [] ty.kind = "Path" /\ ~IsBlessed(ty) /\ ~IsSelf(ty) ->
             IF ty.args # <<>> THEN {"GenericArguments"}
             ELSE IF TypeNominal(p, m, ty.path) = NoNominal THEN {"UnknownType"} ELSE {}
      [] OTHER -> {}

ErrorsIn(m, self, list) == UNION {Errors(m, self, list[k]) : k \in 1 .. Len(list)}

\* The nominals a value of n holds in place, by its declaration.
RECURSIVE InPlace(_)
InPlace(mean) ==
    CASE mean[1] = "nominal" -> {mean[2]}
      [] mean[1] \in {"tuple", "Result", "Option"} ->
             UNION {InPlace(mean[2][k]) : k \in 1 .. Len(mean[2])}
      [] OTHER -> {}

Holds(n) ==
    LET lists == DeclaredLists(n) IN
    UNION {UNION {InPlace(lists[v][k]) : k \in 1 .. Len(lists[v])} : v \in 1 .. Len(lists)}

RECURSIVE Reach(_)
Reach(S) == LET more == S \cup UNION {Holds(n) : n \in S} IN IF more = S THEN S ELSE Reach(more)

\* A value of n would hold, at some depth, a value that holds itself.
Recursive(n) == \E k \in Reach({n}) : k \in Reach(Holds(k))

RECURSIVE NamesOf(_)
\* The nominals a meaning names, through references as well.
NamesOf(mean) ==
    CASE mean[1] = "nominal" -> {mean[2]}
      [] mean[1] \in {"tuple", "&", "&mut", "Result", "Option"} ->
             UNION {NamesOf(mean[2][k]) : k \in 1 .. Len(mean[2])}
      [] OTHER -> {}

NamedBy(n) ==
    LET lists == DeclaredLists(n) IN
    UNION {UNION {NamesOf(lists[v][k]) : k \in 1 .. Len(lists[v])} : v \in 1 .. Len(lists)}

RECURSIVE NamedFrom(_)
NamedFrom(S) ==
    LET more == S \cup UNION {NamedBy(n) : n \in S} IN IF more = S THEN S ELSE NamedFrom(more)

WritesMutRef(n) ==
    LET lists == DeclaredLists(n) IN
    \E v \in 1 .. Len(lists) : \E k \in 1 .. Len(lists[v]) : HasIn(lists[v][k], {"&mut"})

Exclusive(mean) == HasIn(mean, {"&mut"}) \/ \E n \in NamedFrom(NamesOf(mean)) : WritesMutRef(n)

\* The codes an item deserves; a nominal that is not registered only its own.
Deserved(n) ==
    LET item == ItemAt(p, n)
        self == IF item.kind = "Impl" THEN ImplNominal(p, n) ELSE NoNominal
        subject == IF self # NoNominal \/ item.kind # "Impl" THEN {}
                   ELSE IF item.subject.kind = "Path" /\ item.subject.args # <<>>
                        THEN {"GenericArguments"} ELSE {"UnknownType"}
    IN  IF IsNominal(item)
        THEN IF item.name \in {"Result", "Option"} THEN {"ReservedName"}
             ELSE IF n \notin Registered(p) THEN {"DuplicateDefinition"}
             ELSE UNION {ErrorsIn(n[1], NoNominal, item.variants[v]) : v \in 1 .. Len(item.variants)}
                      \cup IF Recursive(n) THEN {"RecursiveType"} ELSE {}
        ELSE subject
             \cup UNION {ErrorsIn(n[1], self, Append(item.sigs[k].params, item.sigs[k].ret))
                           \cup ErrorsIn(n[1], NoNominal, item.sigs[k].body) : k \in 1 .. Len(item.sigs)}
             \cup IF item.kind = "Static" /\ Exclusive(Denote(n[1], NoNominal, item.sigs[1].ret))
                  THEN {"InvalidOperation"} ELSE {}

\* types.h:68-71: "Reports unknown, duplicate, reserved, recursive, and malformed
\* types": exactly the items that deserve a diagnostic have it, recursion is
\* reported wherever a value would contain itself and nowhere else, and a
\* static is refused exactly if its type leads to an exclusive reference.
DiagnosedExactly ==
    at.pass = "Done" =>
        diags = UNION {{Diag(code, n) : code \in Deserved(n)} : n \in Items(p)}

\* Types that contain each other do not keep the checker from its end.
Termination == <>(at.pass = "Done")

=============================================================================
