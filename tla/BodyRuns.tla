------------------------------ MODULE BodyRuns ------------------------------
(***************************************************************************)
(* What body checking promises. The programs of Bodies are run by a        *)
(* reference evaluator, and what it meets is compared with what was        *)
(* diagnosed.                                                              *)
(*                                                                         *)
(* A value is [k, name, parts]: k is its kind; name the text of a number   *)
(* or bool, the name of a struct or variant; parts the elements, fields or *)
(* payloads. Numbers are "0" and "1", of no width, and arithmetic gives    *)
(* any of them; a function, a method and a static give any value of their  *)
(* type. A reference is the value it points to. A run ends as              *)
(*   ok, break, continue, return, panic, diverges (after Rounds rounds of  *)
(*   a loop), no_arm (of a match), unmatched (a declared pattern), excused *)
(*   (at a construct the checker is known to misjudge), leaves (`?` in an  *)
(*   initialiser), wrong.                                                  *)
(***************************************************************************)
EXTENDS Bodies

CONSTANT Rounds

Value(k, name, parts) == [k |-> k, name |-> name, parts |-> parts]
Unit == Value("Unit", "", <<>>)

KindOf(tag) ==
    CASE IsInteger(tag) -> "Int" [] IsFloat(tag) -> "Float" [] tag = "I1" -> "Bool"
      [] tag = "Void" -> "Unit" [] tag = "MutRef" -> "Ref" [] OTHER -> tag

Numbers == {"0", "1"}
RECURSIVE ValuesOf(_), ListsOf(_)
ListsOf(types) ==
    IF types = <<>> THEN {<<>>}
    ELSE {<<v>> \o rest : v \in ValuesOf(Head(types)), rest \in ListsOf(Tail(types))}

SlotList(range) == [k \in 1 .. range.size |-> range.head + k - 1]
\* The nominals or instances that an entry is, or is a copy of.
SameNominal(table, type) == {k \in DOMAIN table : Env.builder.types[table[k].type] = b.types[type]}

VariantNames(type) ==
    LET ns == SameNominal(Env.nominals, type) IN
    IF ns # {} THEN [k \in DOMAIN Env.nominals[Lowest(ns)].variants |-> Env.nominals[Lowest(ns)].variants[k].name]
    ELSE IF Env.blessed[Lowest(SameNominal(Env.blessed, type))].is_result THEN <<"Ok", "Err">>
    ELSE <<"Some", "None">>

\* The values of a type; none of `!` and of the error type.
ValuesOf(type) ==
    LET data == b.types[type].data
        kind == KindOf(b.types[type].tag)
    IN
    CASE kind \in {"Int", "Float"} -> {Value(kind, n, <<>>) : n \in Numbers}
      [] kind = "Bool"   -> {Value(kind, n, <<>>) : n \in {"true", "false"}}
      [] kind \in {"Unit", "Str"} -> {Value(kind, "", <<>>)}
      [] kind = "Ref"    -> {Value(kind, "", <<v>>) : v \in ValuesOf(Pointee(b, type))}
      [] kind = "Tuple"  -> {Value(kind, "", l) : l \in ListsOf(SlotList(b.tuples[data]))}
      [] kind = "Struct" -> {Value(kind, Env.nominals[Lowest(SameNominal(Env.nominals, type))].name, l) :
                                l \in ListsOf(SlotList(b.structs[data]))}
      [] kind = "Enum"   ->
             UNION {{Value(kind, VariantNames(type)[k], l) :
                         l \in ListsOf(SlotList(b.variants[b.enums[data].head + k - 1]))} :
                    k \in 1 .. b.enums[data].size}
      [] OTHER -> {}

\* The values of a written type.
Written(ty) ==
    IF ty.tuple THEN {Value("Tuple", "", l) : l \in ListsOf(ty.of)}
    ELSE ValuesOf(IF ty = NoType THEN Void ELSE ty.of[1])

-----------------------------------------------------------------------------
(***************************************************************************)
(* Patterns: what they bind, in a value that fits them.                    *)
(***************************************************************************)
Matched(binds) == [kind |-> "ok", binds |-> binds]
Unmatched == [kind |-> "unmatched", binds |-> <<>>]
NoFit == [kind |-> "wrong", binds |-> <<>>]

All(results) ==
    LET kinds == {results[k].kind : k \in DOMAIN results} IN
    IF "wrong" \in kinds THEN NoFit ELSE IF "unmatched" \in kinds THEN Unmatched
    ELSE Matched(FlattenSeq([k \in DOMAIN results |-> results[k].binds]))

Entered(name, val, is_mut) == [name |-> name, val |-> val, is_mut |-> is_mut]
IsUnitVariant(name) == \E m \in VariantsNamed(name) : Env.nominals[m[1]].variants[m[2]].payload = <<>>

\* An identifier that is a unit variant is the pattern of that variant.
RECURSIVE Bound(_, _)
Bound(q, v) ==
    CASE q.kind = "Wildcard" -> Matched(<<>>)
      [] q.kind = "Ident" /\ v.k = "Enum" /\ IsUnitVariant(q.name) ->
             IF v.name = q.name THEN Matched(<<>>) ELSE Unmatched
      [] q.kind \in {"Ident", "MutIdent"} /\ ~(v.k = "Enum" /\ IsUnitVariant(q.name)) ->
             Matched(<<Entered(q.name, v, q.kind = "MutIdent")>>)
      [] q.kind = "Literal" ->
             IF (q.lit.kind = "Bool") # (v.k = "Bool") THEN NoFit
             ELSE IF v.name = q.lit.value THEN Matched(<<>>) ELSE Unmatched
      [] q.kind = "Tuple" /\ q.path # <<>> ->
             IF v.k # "Enum" THEN NoFit
             ELSE IF v.name # Last(q.path) THEN Unmatched
             ELSE IF Len(v.parts) # Len(q.parts) THEN NoFit
             ELSE All([k \in DOMAIN q.parts |-> Bound(q.parts[k], v.parts[k])])
      [] q.kind = "Tuple" /\ q.path = <<>> ->
             IF v.k # "Tuple" \/ Len(v.parts) # Len(q.parts) THEN NoFit
             ELSE All([k \in DOMAIN q.parts |-> Bound(q.parts[k], v.parts[k])])
      [] q.kind = "Struct" ->
             IF v.k # "Struct" \/ v.name # q.path[1] THEN NoFit
             ELSE All([k \in DOMAIN q.parts |->
                          Bound(q.parts[k], v.parts[FieldOf(Lowest(StructsNamed(q.path)), q.names[k])])])
      [] q.kind = "Ref" -> IF v.k # "Ref" THEN NoFit ELSE Bound(q.parts[1], v.parts[1])
      [] q.kind = "Or" ->
             LET takes == {k \in DOMAIN q.parts : Bound(q.parts[k], v).kind # "unmatched"} IN
             IF takes = {} THEN Unmatched ELSE Bound(q.parts[Lowest(takes)], v)

-----------------------------------------------------------------------------
(***************************************************************************)
(* Expressions: the set of the ways they end.                              *)
(***************************************************************************)
Outcome(kind, val, env) == [kind |-> kind, val |-> val, env |-> env]
Ok(val, env) == Outcome("ok", val, env)
Wrong == {Outcome("wrong", Unit, <<>>)}
Excused == {Outcome("excused", Unit, <<>>)}
Panic == {Outcome("panic", Unit, <<>>)}

Then(outcomes, Go(_, _)) ==
    UNION {IF o.kind = "ok" THEN Go(o.val, o.env) ELSE {o} : o \in outcomes}
\* The locals of a block are gone after it, however it ends.
CloseTo(env, outcomes) ==
    {[o EXCEPT !.env = IF o.kind \in {"ok", "break", "continue"} THEN SubSeq(@, 1, Len(env)) ELSE <<>>] :
        o \in outcomes}
OneOf(vals_, env) == {Ok(v, env) : v \in vals_}
Either(env) == {Ok(Value("Bool", n, <<>>), env) : n \in {"true", "false"}}

Holding(env, name) == {k \in DOMAIN env : env[k].name = name}
Latest(env, name) == CHOOSE k \in Holding(env, name) : \A j \in Holding(env, name) : j <= k
IsLocal(env, path) == Len(path) = 1 /\ Holding(env, path[1]) # {}

\* A call that returns is one that does not panic.
Results(type, env) ==
    IF b.types[type].tag = "Never" THEN Panic ELSE OneOf(ValuesOf(type), env)
AllFit(args, params) ==
    Len(args) = Len(params) /\ \A k \in DOMAIN args : args[k] \in ValuesOf(params[k])

RECURSIVE Target(_)
Target(v) == IF v.k = "Ref" THEN Target(v.parts[1]) ELSE v

Part(v, name) ==
    CASE v.k = "Struct" -> FieldOf(Lowest(Named(Env.nominals, v.name)), name)
      [] v.k = "Tuple"  -> IF Position(name) <= Len(v.parts) THEN Position(name) ELSE 0
      [] OTHER          -> 0

PathRuns(path, env) ==
    LET r == ResolveValue(<<>>, path) IN
    CASE IsLocal(env, path)  -> {Ok(env[Latest(env, path[1])].val, env)}
      [] OTHER -> IF r.kind = "Static" THEN OneOf(ValuesOf(r.type), env)
                  ELSE IF r.kind = "UnitVariant" \/ (r.kind = "BlessedCtor" /\ r.name = "None")
                  THEN {Ok(Value("Enum", Last(path), <<>>), env)} ELSE Wrong

UnaryRuns(op, v, env) ==
    IF v.k \in (IF op = "Neg" THEN {"Int", "Float"} ELSE IF op = "BitNot" THEN {"Int"} ELSE {})
    THEN {Ok(Value(v.k, n, <<>>), env) : n \in Numbers}
    ELSE IF op = "Not" /\ v.k = "Bool" THEN Either(env) ELSE Wrong

BinaryRuns(op, v, w, env) ==
    IF v.k # w.k THEN Wrong
    ELSE IF op \in {"Eq", "NotEq"} THEN Either(env)
    ELSE IF v.k \notin {"Int", "Float"} THEN Wrong
    ELSE IF op \in {"Lt", "LtEq", "Gt", "GtEq"} THEN Either(env)
    ELSE {Ok(Value(v.k, n, <<>>), env) : n \in Numbers}

Scalars == {"Int", "Float", "Bool"}
CastRuns(v, ty, env) ==
    IF v.k \in Scalars /\ \A w \in Written(ty) : w.k \in Scalars THEN OneOf(Written(ty), env) ELSE Wrong

\* Calls, once the callee's arguments have values.
CallRuns(e, args, env) ==
    LET path == e.callee.path
        r    == ResolveValue(<<>>, path)
        made == Value("Enum", Last(path), args)
    IN
    IF e.callee.kind # "Path" \/ IsLocal(env, path) THEN Wrong
    ELSE IF path \in {<<"print">>, <<"panic">>} /\ r.kind = "None"
    THEN IF Len(args) # 1 \/ args[1].k # "Str" THEN Wrong
         ELSE IF path = <<"print">> THEN {Ok(Unit, env)} ELSE Panic
    ELSE CASE r.kind = "Function"      -> IF AllFit(args, r.fn.params) THEN Results(r.fn.ret, env) ELSE Wrong
           [] r.kind = "AssocFunction" -> Excused
           [] r.kind = "TupleVariant"  -> IF made \in ValuesOf(r.type) THEN {Ok(made, env)} ELSE Wrong
           [] r.kind = "BlessedCtor"   -> IF Len(args) = (IF r.name = "None" THEN 0 ELSE 1) THEN {Ok(made, env)} ELSE Wrong
           [] OTHER                    -> Wrong

IsGood(v) == v.name \in {"Ok", "Some"}
MethodRuns(e, v, args, env) ==
    LET target == Target(v)
        found  == {k \in Named(Env.methods, e.name) : target \in ValuesOf(Env.methods[k].self_type)}
        method == Env.methods[Lowest(found)]
    IN
    IF v.name \in BlessedName /\ v.k = "Enum" /\ e.name \in BlessedMethod
    THEN IF e.name \in {"is_ok", "is_err"} THEN Either(env)
         ELSE IF IsGood(v) THEN {Ok(v.parts[1], env)} ELSE Panic
    ELSE IF found = {} THEN Wrong
    ELSE IF method.receiver # "None" /\ AllFit(args, Tail(method.params)) THEN Results(method.ret, env)
    ELSE Wrong

\* The values of a struct's fields: as given, or those of the base.
StructRuns(e, vals_, env) ==
    LET n      == Lowest(StructsNamed(e.path))
        fields == Env.nominals[n].fields
        given  == SubSeq(vals_, 1, Len(e.names))
        part(k) == LET at_ == {j \in DOMAIN e.names : e.names[j] = fields[k]} IN
                   IF at_ # {} THEN given[Lowest(at_)] ELSE Last(vals_).parts[k]
    IN
    IF StructsNamed(e.path) = {} \/ ~(ToSet(e.names) \subseteq ToSet(fields)) THEN Wrong
    ELSE IF e.base = Nothing /\ ToSet(e.names) # ToSet(fields) THEN Wrong
    ELSE {Ok(Value("Struct", e.path[1], [k \in DOMAIN fields |-> part(k)]), env)}

\* Assignment. A place that is not in structs all the way is excused.
RECURSIVE PlaceName(_), PlaceFields(_), Put(_, _, _)
PlaceName(e) == IF e.kind = "Path" THEN e.path[1] ELSE PlaceName(e.inner)
PlaceFields(e) ==
    IF e.kind = "Path" THEN <<>>
    ELSE Append(PlaceFields(e.inner), IF e.kind = "Field" THEN e.name ELSE "[]")
Put(v, fields, new) ==
    IF fields = <<>> THEN IF v.k = new.k THEN {Ok(new, <<>>)} ELSE Wrong
    ELSE IF v.k # "Struct" THEN Excused
    ELSE IF Part(v, fields[1]) = 0 THEN Wrong
    ELSE Then(Put(v.parts[Part(v, fields[1])], Tail(fields), new),
              LAMBDA w, en : {Ok([v EXCEPT !.parts[Part(v, fields[1])] = w], en)})

\* A compound assignment computes a number of the kind of both sides.
AssignRuns(s, new, env) ==
    LET k == Latest(env, PlaceName(s.place))
        news == IF s.compound THEN {o.val : o \in BinaryRuns("Add", new, new, <<>>)} ELSE {new}
    IN
    IF Holding(env, PlaceName(s.place)) = {} \/ ~env[k].is_mut THEN Wrong
    ELSE IF s.compound /\ new.k \notin {"Int", "Float"} THEN Wrong
    ELSE Then(UNION {Put(env[k].val, PlaceFields(s.place), w) : w \in news},
              LAMBDA w, en : {Ok(Unit, [env EXCEPT ![k].val = w])})

PatternRuns(q, v, env) ==
    LET m == Bound(q, v) IN
    IF m.kind = "ok" THEN {Ok(v, env \o m.binds)} ELSE {Outcome(m.kind, Unit, <<>>)}

RECURSIVE Eval(_, _), EvalAll(_, _), BlockRuns(_, _), StmtRuns(_, _), StmtsRuns(_, _),
          CondRuns(_, _), LoopRuns(_, _, _), ArmRuns(_, _, _)

EvalAll(list, env) ==
    IF list = <<>> THEN {Ok(Value("List", "", <<>>), env)}
    ELSE Then(Eval(Head(list), env), LAMBDA v, en :
             Then(EvalAll(Tail(list), en), LAMBDA rest, en2 :
                 {Ok([rest EXCEPT !.parts = <<v>> \o @], en2)}))

StmtRuns(s, env) ==
    CASE s.kind = "Decl" ->
             Then(Eval(s.init, env), LAMBDA v, en :
                 IF s.type # NoType /\ v \notin Written(s.type) THEN Wrong ELSE PatternRuns(s.pattern, v, en))
      [] s.kind = "Reassign" -> Then(Eval(s.value, env), LAMBDA v, en : AssignRuns(s, v, en))
      [] s.kind = "Expr"     -> Eval(s.value, env)

StmtsRuns(stmts, env) ==
    IF stmts = <<>> THEN {Ok(Unit, env)}
    ELSE Then(StmtRuns(Head(stmts), env), LAMBDA v, en : StmtsRuns(Tail(stmts), en))

BlockRuns(block, env) ==
    CloseTo(env, Then(StmtsRuns(block.stmts, env), LAMBDA v, en :
                     IF block.value = Nothing THEN {Ok(Unit, en)} ELSE Eval(block.value, en)))

\* A condition holds with what its pattern binds, or does not hold.
CondRuns(cond, env) ==
    Then(Eval(cond.value, env), LAMBDA v, en :
        IF cond.is_pattern
        THEN {IF o.kind = "unmatched" THEN Ok(Value("Bool", "false", <<>>), en)
              ELSE [o EXCEPT !.val = Value("Bool", "true", <<>>)] : o \in PatternRuns(cond.pattern, v, en)}
        ELSE IF v.k = "Bool" THEN {Ok(v, en)} ELSE Wrong)

LoopRuns(rounds, e, env) ==
    LET again(o) == CASE o.kind \in {"ok", "continue"} -> LoopRuns(rounds - 1, e, o.env)
                      [] o.kind = "break"              -> {Ok(Unit, o.env)}
                      [] OTHER                         -> {o}
        body(en) == UNION {again(o) : o \in CloseTo(env, BlockRuns(e.body, en))}
    IN
    IF rounds = 0 THEN {Outcome("diverges", Unit, <<>>)}
    ELSE IF e.kind = "Loop" THEN body(env)
    ELSE Then(CondRuns(e.cond, env), LAMBDA v, en :
             IF v.name = "true" THEN body(en) ELSE CloseTo(env, {Ok(Unit, en)}))

\* The first arm that takes the value.
ArmRuns(arms, v, env) ==
    IF arms = <<>> THEN {Outcome("no_arm", Unit, <<>>)}
    ELSE IF Bound(Head(arms).pattern, v).kind = "unmatched" THEN ArmRuns(Tail(arms), v, env)
    ELSE CloseTo(env, Then(PatternRuns(Head(arms).pattern, v, env),
                           LAMBDA w, en : Eval(Head(arms).body, en)))

LiteralValue(lit) ==
    CASE lit.kind = "Integer" -> Value("Int", lit.value, <<>>)
      [] lit.kind = "Float"   -> Value("Float", lit.value, <<>>)
      [] lit.kind = "Bool"    -> Value("Bool", lit.value, <<>>)
      [] OTHER                -> Value("Str", "", <<>>)

\* `?` hands on an Err or None.
QuestionRuns(v, env) ==
    IF v.k # "Enum" \/ v.name \notin BlessedName THEN Wrong
    ELSE IF IsGood(v) THEN {Ok(v.parts[1], env)} ELSE {Outcome("return", v, <<>>)}

FieldRuns(v, name, env) ==
    LET target == Target(v) IN
    IF Part(target, name) = 0 THEN Wrong ELSE {Ok(target.parts[Part(target, name)], env)}

IfRuns(e, env) ==
    Then(CondRuns(e.cond, env), LAMBDA v, en :
        CloseTo(env, IF v.name = "true" THEN BlockRuns(e.then, en)
                     ELSE IF e.else = Nothing THEN {Ok(Unit, en)} ELSE BlockRuns(e.else, en)))

ReturnRuns(e, env) ==
    IF e.value = Nothing THEN {Outcome("return", Unit, <<>>)}
    ELSE Then(Eval(e.value, env), LAMBDA v, en : {Outcome("return", v, <<>>)})

Eval(e, env) ==
    CASE e.kind = "Literal"  -> {Ok(LiteralValue(e.lit), env)}
      [] e.kind = "Path"     -> PathRuns(e.path, env)
      [] e.kind = "Tuple"    -> Then(EvalAll(e.parts, env), LAMBDA l, en :
                                    {Ok(IF l.parts = <<>> THEN Unit ELSE [l EXCEPT !.k = "Tuple"], en)})
      [] e.kind = "Struct"   -> Then(EvalAll(e.values \o (IF e.base = Nothing THEN <<>> ELSE <<e.base>>), env),
                                     LAMBDA l, en : StructRuns(e, l.parts, en))
      [] e.kind = "Unary"    -> Then(Eval(e.inner, env), LAMBDA v, en : UnaryRuns(e.op, v, en))
      [] e.kind = "Borrow"   -> Then(Eval(e.inner, env), LAMBDA v, en : {Ok(Value("Ref", "", <<v>>), en)})
      [] e.kind = "Cast"     -> Then(Eval(e.inner, env), LAMBDA v, en : CastRuns(v, e.to, en))
      [] e.kind = "Binary"   -> Then(EvalAll(<<e.lhs, e.rhs>>, env), LAMBDA l, en :
                                    IF e.op \notin {"And", "Or"} THEN BinaryRuns(e.op, l.parts[1], l.parts[2], en)
                                    ELSE IF {l.parts[1].k, l.parts[2].k} = {"Bool"} THEN Either(en) ELSE Wrong)
      [] e.kind = "Call"     -> Then(EvalAll(e.args, env), LAMBDA l, en : CallRuns(e, l.parts, en))
      [] e.kind = "MethodCall" -> Then(EvalAll(<<e.inner>> \o e.args, env), LAMBDA l, en :
                                      MethodRuns(e, l.parts[1], Tail(l.parts), en))
      [] e.kind = "Field"    -> Then(Eval(e.inner, env), LAMBDA v, en : FieldRuns(v, e.name, en))
      [] e.kind = "Question" -> Then(Eval(e.inner, env), LAMBDA v, en : QuestionRuns(v, en))
      [] e.kind = "If"       -> IfRuns(e, env)
      [] e.kind = "Match"    -> Then(Eval(e.inner, env), LAMBDA v, en : ArmRuns(e.arms, v, en))
      [] e.kind \in {"Loop", "While"} -> LoopRuns(Rounds, e, env)
      [] e.kind = "Block"    -> BlockRuns(e.block, env)
      [] e.kind = "Return"   -> ReturnRuns(e, env)
      [] e.kind = "Break"    -> {Outcome("break", Unit, env)}
      [] e.kind = "Continue" -> {Outcome("continue", Unit, env)}
      [] OTHER               -> Wrong

-----------------------------------------------------------------------------
(***************************************************************************)
(* Runs of an item.                                                        *)
(***************************************************************************)
\* A function ends with a value of its result; one that should not end at all
\* is excused, for `!` takes any value.
Ended(o, ret) ==
    IF o.kind \in {"ok", "return"} /\ ret = [tuple |-> FALSE, of |-> <<NeverType>>] THEN Excused
    ELSE IF o.kind \in {"break", "continue"} THEN Wrong
    ELSE IF o.kind \in {"ok", "return"} /\ o.val \notin Written(ret) THEN Wrong
    ELSE {o}

RECURSIVE ParamRuns(_, _)
ParamRuns(params, env) ==
    IF params = <<>> THEN {Ok(Unit, env)}
    ELSE Then(UNION {PatternRuns(Head(params).pattern, v, env) : v \in Written(Head(params).type)},
              LAMBDA v, en : ParamRuns(Tail(params), en))

\* `?` in an initialiser leaves a function that is not there.
RunsOf(item) ==
    IF item.kind = "Fn"
    THEN IF item.body = Nothing THEN {}
         ELSE UNION {Ended(o, item.ret) :
                     o \in Then(ParamRuns(item.params, <<>>), LAMBDA v, en : BlockRuns(item.body, en))}
    ELSE UNION {IF o.kind = "return" THEN {Outcome("leaves", o.val, <<>>)} ELSE Ended(o, item.type) : o \in Eval(item.init, <<>>)}

Endings(item) == {o.kind : o \in RunsOf(item)}

-----------------------------------------------------------------------------
(***************************************************************************)
(* Properties.                                                             *)
(***************************************************************************)
Warnings == {"MustUse"}
Accepted(k) == \A d \in diags : d.item = k => d.code \in Warnings

\* What is accepted does not go wrong: no operator, call, field, condition,
\* assignment or result meets a value it is not for, nothing unknown is named,
\* and no break leaves a function (check_bodies).
AcceptedRuns == Done => \A k \in DOMAIN items : Accepted(k) => "wrong" \notin Endings(items[k])

\* `?` is accepted only where there is a function to leave.
QuestionsInFunctions ==
    Done => \A k \in DOMAIN items :
                items[k].kind # "Fn" /\ Accepted(k) => "leaves" \notin Endings(items[k])

\* A flat pattern decides by the variant or the literal alone.
RECURSIVE Flat(_)
Flat(q) ==
    CASE q.kind = "Wildcard" -> TRUE
      [] q.kind = "Ident" -> ~IsUnitVariant(q.name)
      [] q.kind = "Literal" -> q.lit.kind = "Bool"
      [] q.kind = "Tuple" -> /\ q.path # <<>>
                             /\ \A k \in DOMAIN q.parts : q.parts[k].kind = "Wildcard"
      [] q.kind = "Or" -> \A k \in DOMAIN q.parts : Flat(q.parts[k])
      [] OTHER -> FALSE

IsFlatMatch(item) ==
    /\ item.kind = "Fn" /\ Len(item.params) = 1 /\ item.body # Nothing /\ item.body.value.kind = "Match"
    /\ item.body.value.inner.kind = "Path"
    /\ item.body.value.inner.path = <<item.params[1].pattern.name>>
    /\ \A arm \in ToSet(item.body.value.arms) : Flat(arm.pattern)

\* check_exhaustive is exact on flat patterns over bool and declared enums: a
\* match is refused if and only if some value has no arm.
FlatMatchesExact ==
    Done => \A k \in DOMAIN items :
        LET item == items[k]
            type == item.params[1].type.of[1]
            missed(v) == \A arm \in ToSet(item.body.value.arms) : Bound(arm.pattern, v).kind = "unmatched"
        IN
        IsFlatMatch(item) /\ (type = Bool \/ (NominalOf(type) # {} /\ Tag(type) = "Enum"))
                /\ [item |-> k, code |-> "TypeMismatch"] \notin diags
        => ([item |-> k, code |-> "NonExhaustiveMatch"] \in diags <=> \E v \in ValuesOf(type) : missed(v))

=============================================================================
