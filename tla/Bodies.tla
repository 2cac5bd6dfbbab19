------------------------------- MODULE Bodies -------------------------------
(***************************************************************************)
(* check_bodies of analyzer/types.cc: every function body and initialiser  *)
(* of a module, statement by statement and expression by expression.       *)
(*                                                                         *)
(* The recursion of the checker is kept as data. `todo` is what the calls  *)
(* in progress have still to do, innermost first; `vals` are the types of  *)
(* the expressions checked and not yet used, `verdicts` the answers of     *)
(* bind_pattern. An action takes the first task and puts in its place what *)
(* the code does next. A type is an index of the tables, an expectation 0  *)
(* is the null pointer.                                                    *)
(***************************************************************************)
EXTENDS ValueNames

CONSTANT Families      \* sets of programs: the items of a module, in order

ASSUME FamiliesAssumption == \A family \in Families : \A program \in family : IsProgram(program)

VARIABLES
    items,       \* the program
    at,          \* the item being checked
    b,           \* the type tables
    in_fn, fn_ret,
    scopes,      \* the locals, innermost scope last
    loop_depth,
    todo, vals, verdicts,
    diags        \* what is reported, with its item

item_vars == <<items, at, in_fn, fn_ret>>
scope_vars == <<scopes, loop_depth>>
vars == <<item_vars, scope_vars, b, todo, vals, verdicts, diags>>

-----------------------------------------------------------------------------
\* Tasks.
Expr(e, exp)      == [do |-> "Expr", e |-> e, exp |-> exp]
Combine(e, exp)   == [do |-> "Combine", e |-> e, exp |-> exp]
Yield(exp, type)  == [do |-> "Yield", exp |-> exp, type |-> type]
Give(type)        == Yield(0, type)
Unify(type)       == [do |-> "Unify", type |-> type]
Join(exp)         == [do |-> "Join", exp |-> exp]
Drop              == [do |-> "Drop"]
Push              == [do |-> "Push"]
Pop               == [do |-> "Pop"]
Block(block, exp) == [do |-> "Block", block |-> block, exp |-> exp]
Stmt(s)           == [do |-> "Stmt", s |-> s]
Place(e)          == [do |-> "Place", e |-> e]
PlaceOf(e)        == [do |-> "PlaceOf", e |-> e]
Bind(q, type)     == [do |-> "Bind", q |-> q, type |-> type]
BindError(q)      == [do |-> "BindError", q |-> q]
Verdict(n, all)   == [do |-> "Verdict", n |-> n, all |-> all]
Irrefutable(must) == [do |-> "Irrefutable", must |-> must]
Meet              == [do |-> "Meet"]
EnterLoop         == [do |-> "EnterLoop"]
LeaveLoop         == [do |-> "LeaveLoop"]
EndItem           == [do |-> "EndItem"]
With(do, node, type) == [do |-> do, node |-> node, type |-> type]

\* Check and forget.
DropAll(args) == FlattenSeq([k \in DOMAIN args |-> <<Expr(args[k], 0), Drop>>])
\* The loop of check_call_args.
Against(args, params) ==
    FlattenSeq([k \in DOMAIN args |-> <<Expr(args[k], params[k]), Unify(params[k])>>])

Task == Head(todo)
E == Task.e
Exp == Task.exp
At(do) == todo # <<>> /\ Task.do = do
AtExpr(kind) == At("Expr") /\ E.kind = kind
AtCombine(kind) == At("Combine") /\ E.kind = kind

\* The k-th type from the top.
Val(k) == vals[Len(vals) - k]
Popped(n) == SubSeq(vals, 1, Len(vals) - n)
Tag(i) == b.types[i].tag

Do(tasks) == todo' = tasks \o Tail(todo)
Emit(codes) == diags' = diags \cup {[item |-> at, code |-> c] : c \in codes}
When(cond, code) == IF cond THEN {code} ELSE {}

\* What most steps are: go on to the parts, or take n types and go on.
Expand(tasks, codes) ==
    Do(tasks) /\ Emit(codes) /\ UNCHANGED <<item_vars, scope_vars, b, vals, verdicts>>
Reduce(n, tasks, codes) ==
    Do(tasks) /\ Emit(codes) /\ vals' = Popped(n)
    /\ UNCHANGED <<item_vars, scope_vars, b, verdicts>>

-----------------------------------------------------------------------------
(***************************************************************************)
(* unify.                                                                  *)
(***************************************************************************)
\* Mutant: any two structs, enums, tuples or references unify.
MismatchByTag(expected, actual) ==
    /\ Tag(expected) # Tag(actual)
    /\ {Tag(expected), Tag(actual)} \cap {"Error", "Never"} = {}

Mismatch(expected, actual) ==
    /\ ~TypesEqual(b, expected, actual)
    /\ {Tag(expected), Tag(actual)} \cap {"Error", "Never"} = {}

Unified(expected, actual) ==
    IF Tag(expected) = "Error" THEN actual
    ELSE IF Tag(actual) = "Error" THEN expected
    ELSE IF TypesEqual(b, expected, actual) \/ Tag(expected) = "Never" THEN actual
    ELSE IF Tag(actual) = "Never" THEN expected
    ELSE ErrorType

\* The end of a case of check_expr: against the expectation, if there is one.
StepYield ==
    /\ At("Yield")
    /\ vals' = Append(vals, IF Exp = 0 THEN Task.type ELSE Unified(Exp, Task.type))
    /\ Emit(When(Exp # 0 /\ Mismatch(Exp, Task.type), "TypeMismatch"))
    /\ Do(<<>>)
    /\ UNCHANGED <<item_vars, scope_vars, b, verdicts>>

StepUnify == At("Unify") /\ Reduce(1, <<>>, When(Mismatch(Task.type, Val(0)), "TypeMismatch"))
StepJoin == At("Join") /\ Reduce(1, <<Yield(Exp, Val(0))>>, {})
StepDrop == At("Drop") /\ Reduce(1, <<>>, {})

StepPush ==
    /\ At("Push") /\ scopes' = Append(scopes, <<>>) /\ Do(<<>>)
    /\ UNCHANGED <<item_vars, loop_depth, b, vals, verdicts, diags>>
StepPop ==
    /\ At("Pop") /\ scopes' = SubSeq(scopes, 1, Len(scopes) - 1) /\ Do(<<>>)
    /\ UNCHANGED <<item_vars, loop_depth, b, vals, verdicts, diags>>

Fail(code) == Expand(<<Give(ErrorType)>>, {code})
FailAfter(n, code) == Reduce(n, <<Give(ErrorType)>>, {code})

-----------------------------------------------------------------------------
(***************************************************************************)
(* Leaves: literals and paths.                                             *)
(***************************************************************************)
\* check_literal
LiteralFault(lit) ==
    CASE lit.kind = "Char" \/ lit.suffix = "bad"                -> "UnsupportedType"
      [] lit.kind = "Integer" /\ IsFloat(lit.suffix)            -> "TypeMismatch"
      [] lit.kind = "Float" /\ IsInteger(lit.suffix)            -> "TypeMismatch"
      [] OTHER                                                  -> ""

LiteralType(lit) ==
    CASE lit.kind = "Bool"    -> Bool
      [] lit.kind = "String"  -> Str
      [] lit.kind = "Integer" -> Primitive(IF lit.suffix = "" THEN "I32" ELSE lit.suffix)
      [] lit.kind = "Float"   -> Primitive(IF lit.suffix = "" THEN "F64" ELSE lit.suffix)

\* A number without suffix takes the expected type of its kind.
Adapts(lit, exp) ==
    /\ exp # 0 /\ lit.suffix = ""
    /\ \/ lit.kind = "Integer" /\ IsInteger(Tag(exp))
       \/ lit.kind = "Float" /\ IsFloat(Tag(exp))

LiteralTask(lit, exp) ==
    IF LiteralFault(lit) # "" THEN Give(ErrorType)
    ELSE IF Adapts(lit, exp) THEN Give(exp) ELSE Yield(exp, LiteralType(lit))

LiteralCodes(lit) == When(LiteralFault(lit) # "", LiteralFault(lit))

CheckLiteral == AtExpr("Literal") /\ Expand(<<LiteralTask(E.lit, Exp)>>, LiteralCodes(E.lit))

\* check_path_expr. Of the constructors only None stands alone, and only
\* where an Option is expected.
IsOption(type) == type # 0 /\ InstanceOf(type) # {} /\ ~Instance(type).is_result

CheckPath ==
    LET v     == ResolveValue(scopes, E.path)
        codes == When(Ambiguous(scopes, E.path), "UnknownValue")
        none  == v.kind = "BlessedCtor" /\ v.name = "None" /\ IsOption(Exp)
    IN
    /\ AtExpr("Path")
    /\ \/ v.kind \in {"Local", "Static", "UnitVariant"} /\ Expand(<<Yield(Exp, v.type)>>, codes)
       \/ none /\ Expand(<<Give(Exp)>>, codes)
       \/ /\ v.kind \notin {"Local", "Static", "UnitVariant"} /\ ~none
          /\ Expand(<<Give(ErrorType)>>,
                    codes \cup {IF v.kind = "None" THEN "UnknownValue" ELSE "InvalidOperation"})

CheckRange == AtExpr("Range") /\ Fail("UnsupportedExpr")

-----------------------------------------------------------------------------
(***************************************************************************)
(* Expressions with operands.                                              *)
(***************************************************************************)
EnterOperand ==
    /\ At("Expr") /\ E.kind \in {"Unary", "Borrow", "Cast", "MethodCall", "Field", "Question"}
    /\ Expand(<<Expr(E.inner, 0), Combine(E, Exp)>>, {})

Numeric(tag) == IsInteger(tag) \/ IsFloat(tag)
Castable == {tag \in TypeTag : Numeric(tag) \/ tag = "I1"}

CheckUnary ==
    LET tag == Tag(Val(0))
        fits == CASE E.op = "Neg"    -> Numeric(tag)
                  [] E.op = "Not"    -> tag = "I1"
                  [] E.op = "BitNot" -> IsInteger(tag)
    IN
    /\ AtCombine("Unary")
    /\ \/ tag = "Error" /\ Reduce(1, <<Give(ErrorType)>>, {})
       \/ fits /\ Reduce(1, <<Yield(Exp, Val(0))>>, {})
       \/ tag # "Error" /\ ~fits /\ FailAfter(1, "InvalidOperation")

CheckBorrow ==
    LET made == ReferenceType(b, Val(0), E.is_mut)
        failed == Tag(Val(0)) = "Error" IN
    /\ AtCombine("Borrow")
    /\ b' = IF failed THEN b ELSE made.builder
    /\ Do(<<IF failed THEN Give(ErrorType) ELSE Yield(Exp, made.idx)>>)
    /\ vals' = Popped(1)
    /\ UNCHANGED <<item_vars, scope_vars, verdicts, diags>>

CheckCast ==
    LET made == ResolveType(b, E.to)
        from == Tag(Val(0))
        to   == made.builder.types[made.idx].tag
        fits == from = "Never" \/ {from, to} \subseteq Castable
        failed == "Error" \in {from, to}
    IN
    /\ AtCombine("Cast")
    /\ b' = made.builder
    /\ vals' = Popped(1)
    /\ Do(<<IF fits /\ ~failed THEN Yield(Exp, made.idx) ELSE Give(ErrorType)>>)
    /\ Emit(When(~failed /\ ~fits, "InvalidOperation"))
    /\ UNCHANGED <<item_vars, scope_vars, verdicts>>

\* Elements are checked against the slots of an expected tuple of that length.
EnterTuple ==
    LET n == Len(E.parts)
        slots == IF Exp # 0 /\ Tag(Exp) = "Tuple" THEN b.tuples[b.types[Exp].data] ELSE NoSlots
    IN
    /\ AtExpr("Tuple")
    /\ Expand(IF n = 0 THEN <<Yield(Exp, Void)>>
              ELSE [k \in 1 .. n |-> Expr(E.parts[k], IF slots.size = n THEN slots.head + k - 1 ELSE 0)]
                       \o <<Combine(E, Exp)>>, {})

CheckTuple ==
    LET n    == Len(E.parts)
        list == SubSeq(vals, Len(vals) - n + 1, Len(vals))
        made == TupleType(AppendCopies(b, list), CopiesRange(b, list))
    IN
    /\ AtCombine("Tuple")
    /\ b' = made.builder
    /\ vals' = Popped(n)
    /\ Do(<<Yield(Exp, made.idx)>>)
    /\ UNCHANGED <<item_vars, scope_vars, verdicts, diags>>

CheckLogical ==
    /\ AtExpr("Binary") /\ E.op \in {"And", "Or"}
    /\ Expand(<<Expr(E.lhs, Bool), Expr(E.rhs, Bool), Unify(Bool), Unify(Bool), Yield(Exp, Bool)>>, {})

EnterBinary ==
    /\ AtExpr("Binary") /\ E.op \notin {"And", "Or"}
    /\ Expand(<<Expr(E.lhs, 0), Expr(E.rhs, 0), Combine(E, Exp)>>, {})

IsBareInteger(e) == e.kind = "Literal" /\ e.lit.kind = "Integer" /\ e.lit.suffix = ""

\* check_binary_operands: a bare integer (of digits only) takes the type of the other side.
Operands(left, right) ==
    LET differ == ~TypesEqual(b, left, right) /\ "Error" \notin {Tag(left), Tag(right)}
        adaptL == differ /\ IsInteger(Tag(right)) /\ IsBareInteger(E.lhs)
        adaptR == differ /\ ~adaptL /\ IsInteger(Tag(left)) /\ IsBareInteger(E.rhs)
    IN  IF Tag(left) = "Error" THEN right
        ELSE IF Tag(right) = "Error" THEN left
        ELSE IF adaptL THEN right
        ELSE IF adaptR \/ ~differ THEN left ELSE 0

CheckBinary ==
    LET operands == Operands(Val(1), Val(0))
        tag  == Tag(operands)
        fits == E.op \in {"Eq", "NotEq"} \/ Numeric(tag)
        result == IF E.op \in {"Eq", "NotEq", "Lt", "LtEq", "Gt", "GtEq"} THEN Bool ELSE operands
    IN
    /\ AtCombine("Binary")
    /\ \/ operands = 0 /\ FailAfter(2, "TypeMismatch")
       \/ operands # 0 /\ tag = "Error" /\ Reduce(2, <<Give(ErrorType)>>, {})
       \/ operands # 0 /\ tag # "Error" /\ fits /\ Reduce(2, <<Yield(Exp, result)>>, {})
       \/ operands # 0 /\ tag # "Error" /\ ~fits /\ FailAfter(2, "InvalidOperation")

EnterIndex ==
    /\ AtExpr("Index")
    /\ Expand(<<Expr(E.inner, 0), Expr(E.index, 0), Combine(E, Exp)>>, {})

\* No type expression spells an array, so that no receiver is one.
CheckIndex ==
    /\ AtCombine("Index")
    /\ IF "Error" \in {Tag(Val(1)), Tag(Val(0))} THEN Reduce(2, <<Give(ErrorType)>>, {})
       ELSE FailAfter(2, IF IsInteger(Tag(Val(0))) THEN "InvalidOperation" ELSE "TypeMismatch")

-----------------------------------------------------------------------------
(***************************************************************************)
(* check_call.                                                             *)
(***************************************************************************)
\* print and panic, where no local, static or function has the name.
IsIntrinsic(path) ==
    /\ Len(path) = 1 /\ path[1] \in {"print", "panic"}
    /\ ResolveValue(scopes, path).kind \notin {"Local", "Static", "Function"}

Callee ==
    IF E.callee.kind # "Path" THEN [kind |-> "NotPath"]
    ELSE IF IsIntrinsic(E.callee.path) THEN [kind |-> "Intrinsic", name |-> E.callee.path[1]]
    ELSE ResolveValue(scopes, E.callee.path)

\* A name that find_variant diagnoses on the way.
CalleeCodes ==
    When(E.callee.kind = "Path" /\ ~IsIntrinsic(E.callee.path) /\ Ambiguous(scopes, E.callee.path),
         "UnknownValue")

CallsOf(kinds) == AtExpr("Call") /\ Callee.kind \in kinds

\* What cannot be called; the arguments are checked for themselves.
CallOther ==
    /\ CallsOf({"NotPath", "None", "Local", "Static", "UnitVariant", "Type"})
    /\ Expand(DropAll(E.args) \o <<Give(ErrorType)>>,
              CalleeCodes \cup {IF Callee.kind = "None" THEN "UnknownValue" ELSE "InvalidOperation"})

CallIntrinsic ==
    /\ CallsOf({"Intrinsic"})
    /\ IF Len(E.args) # 1 THEN Fail("ArityError")
       ELSE Expand(Against(E.args, <<Str>>)
                       \o <<IF Callee.name = "print" THEN Yield(Exp, Void) ELSE Give(NeverType)>>, {})

\* skip_first, set for every associated function: none of them has a receiver,
\* so that it is a parameter that is skipped. With the wrong number of
\* arguments they are not looked at.
Skipped(v) == IF v.kind = "AssocFunction" THEN 1 ELSE 0

CallFunction ==
    LET v    == Callee
        fits == Len(E.args) + Skipped(v) = Len(v.fn.params)
    IN
    /\ CallsOf({"Function", "AssocFunction"})
    /\ Expand((IF fits THEN Against(E.args, SubSeq(v.fn.params, 1 + Skipped(v), Len(v.fn.params)))
               ELSE <<>>) \o <<Yield(Exp, v.fn.ret)>>,
              When(~fits, "ArityError"))

\* The end of a constructor call.
Construct(enum_type, payloads) ==
    IF Len(E.args) = Len(payloads) THEN Against(E.args, payloads) \o <<Yield(Exp, enum_type)>>
    ELSE DropAll(E.args) \o <<Give(ErrorType)>>

CallVariant ==
    LET made == ResolveTypes(b, Callee.payload) IN
    /\ CallsOf({"TupleVariant"})
    /\ b' = made.builder
    /\ Do(Construct(Callee.type, made.idx))
    /\ Emit(When(Len(E.args) # Len(made.idx), "ArityError"))
    /\ UNCHANGED <<item_vars, scope_vars, vals, verdicts>>

\* The expectation selects the instance; if it is none, the first of the kind.
CallBlessed ==
    LET v         == Callee
        enum_type == IF Exp # 0 /\ InstanceOf(Exp) # {} THEN Exp ELSE v.type
        payloads  == BlessedPayload(v.name, enum_type)
    IN
    /\ CallsOf({"BlessedCtor"})
    /\ IF Instance(enum_type).is_result # OfResult(v.name)
       THEN Expand(<<Give(ErrorType)>>, CalleeCodes \cup {"TypeMismatch"})
       ELSE Expand(Construct(enum_type, payloads),
                   CalleeCodes \cup When(Len(E.args) # Len(payloads), "ArityError"))

(***************************************************************************)
(* check_method_call, check_field, check_question, once the receiver is    *)
(* checked.                                                                *)
(***************************************************************************)
\* unwrap, expect, is_ok and is_err of an instance.
BlessedMethod == {"unwrap", "expect", "is_ok", "is_err"}
IsBlessedMethod == InstanceOf(Val(0)) # {} /\ E.name \in BlessedMethod

MethodOfError ==
    AtCombine("MethodCall") /\ Tag(Val(0)) = "Error"
        /\ Reduce(1, DropAll(E.args) \o <<Give(ErrorType)>>, {})

CallBlessedMethod ==
    LET params == IF E.name = "expect" THEN <<Str>> ELSE <<>>
        ret    == IF E.name \in {"unwrap", "expect"} THEN Instance(Val(0)).args[1] ELSE Bool
    IN
    /\ AtCombine("MethodCall") /\ IsBlessedMethod
    /\ IF Len(E.args) # Len(params) THEN FailAfter(1, "ArityError")
       ELSE Reduce(1, Against(E.args, params) \o <<Yield(Exp, ret)>>, {})

\* An owned receiver passes for a declared borrow of it; apart from that the
\* index has to be the declared one.
ReceiverFits(receiver, declared) ==
    \/ receiver = declared
    \/ /\ ~IsReference(b, receiver) /\ IsReference(b, declared)
       /\ Pointee(b, declared) = receiver

CallMethod ==
    LET receiver == Val(0)
        found    == MethodsOf(IF IsReference(b, receiver) THEN Pointee(b, receiver) ELSE receiver, E.name)
        method   == Env.methods[Lowest(found)]
        rest     == Tail(method.params)
    IN
    /\ AtCombine("MethodCall") /\ Tag(receiver) # "Error" /\ ~IsBlessedMethod
    /\ IF found = {} THEN Reduce(1, DropAll(E.args) \o <<Give(ErrorType)>>, {"UnknownValue"})
       ELSE IF method.receiver = "None" THEN FailAfter(1, "InvalidOperation")
       ELSE IF ~ReceiverFits(receiver, method.params[1]) THEN FailAfter(1, "TypeMismatch")
       ELSE IF Len(E.args) # Len(rest) THEN Reduce(1, <<Yield(Exp, method.ret)>>, {"ArityError"})
       ELSE Reduce(1, Against(E.args, rest) \o <<Yield(Exp, method.ret)>>, {})

\* Field access sees through references.
Behind(type) ==
    LET target[i \in Nat] == IF IsReference(b, i) THEN target[Pointee(b, i)] ELSE i IN target[type]

\* The slot of a field, by the nominal of that index: a copy of it has no fields.
FieldSlot(type, name) ==
    LET k == IF NominalOf(type) = {} THEN 0 ELSE FieldOf(Lowest(NominalOf(type)), name)
    IN  IF k = 0 THEN 0 ELSE b.structs[b.types[type].data].head + k - 1

\* The position of a tuple field, for tuples of at most three elements.
Digits == <<"0", "1", "2">>
Position(name) == Lowest({k \in 1 .. 4 : k = 4 \/ Digits[k] = name})

CheckField ==
    LET type     == Behind(Val(0))
        slot     == FieldSlot(type, E.name)
        elements == b.tuples[b.types[type].data]
    IN
    /\ AtCombine("Field")
    /\ CASE Tag(Val(0)) = "Error" -> Reduce(1, <<Give(ErrorType)>>, {})
         [] Tag(type) = "Struct"  -> IF slot = 0 THEN FailAfter(1, "UnknownValue")
                                     ELSE Reduce(1, <<Yield(Exp, slot)>>, {})
         [] Tag(type) = "Tuple"   -> IF Position(E.name) > elements.size THEN FailAfter(1, "UnknownValue")
                                     ELSE Reduce(1, <<Yield(Exp, elements.head + Position(E.name) - 1)>>, {})
         [] OTHER                 -> FailAfter(1, "InvalidOperation")

\* `?` compares with fn_ret, also in an initialiser, which has no function.
SamePropagation(inner, ret) ==
    /\ InstanceOf(inner) # {} /\ InstanceOf(ret) # {}
    /\ Instance(inner).is_result = Instance(ret).is_result
    /\ \A k \in DOMAIN Instance(inner).args :
           TypesEqual(b, Instance(inner).args[k], Instance(ret).args[k])

CheckQuestion ==
    /\ AtCombine("Question")
    /\ IF SamePropagation(Val(0), fn_ret) THEN Reduce(1, <<Yield(Exp, Instance(Val(0)).args[1])>>, {})
       ELSE FailAfter(1, "BadQuestion")

-----------------------------------------------------------------------------
(***************************************************************************)
(* check_struct_expr.                                                      *)
(***************************************************************************)
CheckStruct ==
    LET n       == Lowest(StructsNamed(E.path))
        type    == Env.nominals[n].type
        slot(k) == FieldSlot(type, E.names[k])
        missing == {f \in DOMAIN Env.nominals[n].fields : Env.nominals[n].fields[f] \notin ToSet(E.names)}
        fields  == FlattenSeq([k \in DOMAIN E.values |->
                       <<Expr(E.values[k], slot(k)), IF slot(k) = 0 THEN Drop ELSE Unify(slot(k))>>])
        base    == IF E.base = Nothing THEN <<>> ELSE <<Expr(E.base, 0), Unify(type)>>
    IN
    /\ AtExpr("Struct") /\ StructsNamed(E.path) # {}
    /\ Expand(fields \o base \o <<Yield(Exp, type)>>,
              When(\E k \in DOMAIN E.values : slot(k) = 0, "UnknownValue")
                  \cup When(E.base = Nothing /\ missing # {}, "ArityError"))

StructUnknown ==
    LET base == IF E.base = Nothing THEN <<>> ELSE <<Expr(E.base, 0), Drop>> IN
    /\ AtExpr("Struct") /\ StructsNamed(E.path) = {}
    /\ Expand(DropAll(E.values) \o base \o <<Give(ErrorType)>>, {"UnknownValue"})

-----------------------------------------------------------------------------
(***************************************************************************)
(* Control flow.                                                           *)
(***************************************************************************)
\* check_cond: the scope of a pattern stays open over the block.
CondTasks(cond) ==
    IF cond.is_pattern THEN <<Expr(cond.value, 0), With("CondPattern", cond.pattern, 0)>>
    ELSE <<Expr(cond.value, Bool), Unify(Bool)>>
CloseCond(cond) == IF cond.is_pattern THEN <<Pop>> ELSE <<>>

BindCond ==
    At("CondPattern")
        /\ Reduce(1, <<Push, Bind(Task.node, Val(0)), Irrefutable(FALSE)>>, {})

\* check_if. The branches are met with each other, and not once more with the
\* expectation.
CheckIf ==
    /\ AtExpr("If")
    /\ Expand(CondTasks(E.cond) \o <<Block(E.then, Exp)>> \o CloseCond(E.cond)
                  \o IF E.else = Nothing THEN <<With("NoElse", E, Exp)>> ELSE <<Block(E.else, Exp), Meet>>,
              {})

CheckNoElse ==
    /\ At("NoElse")
    /\ Reduce(1, <<Yield(Task.type, Void)>>,
              When(Tag(Val(0)) \notin {"Void", "Error", "Never"}, "TypeMismatch"))

StepMeet ==
    /\ At("Meet")
    /\ vals' = Append(Popped(2), Unified(Val(1), Val(0)))
    /\ Emit(When(Mismatch(Val(1), Val(0)), "TypeMismatch"))
    /\ Do(<<>>)
    /\ UNCHANGED <<item_vars, scope_vars, b, verdicts>>

\* check_match. The arms of a scrutinee in error bind nothing.
EnterMatch == AtExpr("Match") /\ Expand(<<Expr(E.inner, 0), Combine(E, Exp)>>, {})

CheckMatch ==
    LET scrutinee == Val(0)
        failed    == Tag(scrutinee) = "Error"
        arm(k)    == <<Push>>
                        \o (IF failed THEN <<>> ELSE <<Bind(E.arms[k].pattern, scrutinee), Irrefutable(FALSE)>>)
                        \o <<Expr(E.arms[k].body, Exp), Pop>>
                        \o (IF k = 1 THEN <<>> ELSE <<Meet>>)
    IN
    /\ AtCombine("Match")
    /\ Reduce(1, FlattenSeq([k \in DOMAIN E.arms |-> arm(k)])
                     \o (IF failed THEN <<>> ELSE <<With("Exhaustive", E.arms, scrutinee)>>)
                     \o (IF E.arms = <<>> THEN <<Give(ErrorType)>> ELSE <<Join(Exp)>>), {})

CheckExhaustive ==
    LET pats == {arm.pattern : arm \in ToSet(Task.node)} IN
    /\ At("Exhaustive")
    /\ Expand(<<>>, When(NonExhaustive(b, Task.type, pats), "NonExhaustiveMatch"))

LoopTasks(body) == <<EnterLoop, Block(body, Void), Drop, LeaveLoop>>

CheckLoop == AtExpr("Loop") /\ Expand(LoopTasks(E.body) \o <<Yield(Exp, Void)>>, {})

\* The condition is checked before the depth is counted.
CheckWhile ==
    /\ AtExpr("While")
    /\ Expand(CondTasks(E.cond) \o LoopTasks(E.body) \o CloseCond(E.cond) \o <<Yield(Exp, Void)>>, {})

StepEnterLoop ==
    /\ At("EnterLoop") /\ loop_depth' = loop_depth + 1 /\ Do(<<>>)
    /\ UNCHANGED <<item_vars, scopes, b, vals, verdicts, diags>>
StepLeaveLoop ==
    /\ At("LeaveLoop") /\ loop_depth' = loop_depth - 1 /\ Do(<<>>)
    /\ UNCHANGED <<item_vars, scopes, b, vals, verdicts, diags>>

CheckBreak ==
    /\ At("Expr") /\ E.kind \in {"Break", "Continue"}
    /\ IF loop_depth = 0 THEN Fail("BreakOutsideLoop") ELSE Expand(<<Give(NeverType)>>, {})

CheckReturn ==
    /\ AtExpr("Return")
    /\ IF ~in_fn THEN Fail("BadReturn")
       ELSE IF E.value = Nothing
       THEN Expand(<<Give(NeverType)>>, When(Mismatch(fn_ret, Void), "TypeMismatch"))
       ELSE Expand(<<Expr(E.value, fn_ret), Unify(fn_ret), Give(NeverType)>>, {})

CheckBlockExpr == AtExpr("Block") /\ Expand(<<Block(E.block, Exp)>>, {})

\* Mutant: the scope of a block stays open.
StepBlockOpen ==
    LET block == Task.block IN
    /\ At("Block")
    /\ Expand(<<Push>> \o [k \in DOMAIN block.stmts |-> Stmt(block.stmts[k])]
                  \o (IF block.value = Nothing THEN <<Yield(Exp, Void)>>
                      ELSE <<Expr(block.value, Exp), Join(Exp)>>), {})

\* check_block
StepBlock ==
    LET block == Task.block IN
    /\ At("Block")
    /\ Expand(<<Push>> \o [k \in DOMAIN block.stmts |-> Stmt(block.stmts[k])]
                  \o (IF block.value = Nothing THEN <<Yield(Exp, Void)>>
                      ELSE <<Expr(block.value, Exp), Join(Exp)>>)
                  \o <<Pop>>, {})

-----------------------------------------------------------------------------
(***************************************************************************)
(* Statements and places.                                                  *)
(***************************************************************************)
AtStmt(kind) == At("Stmt") /\ Task.s.kind = kind

\* The pattern is bound to the type of the initialiser, not to the written one.
CheckDecl ==
    LET s    == Task.s
        made == ResolveType(b, s.type)
        written == s.type # NoType
    IN
    /\ AtStmt("Decl")
    /\ b' = IF written THEN made.builder ELSE b
    /\ Do(IF written THEN <<Expr(s.init, made.idx), With("Declared", s, made.idx)>>
          ELSE <<Expr(s.init, 0), With("Declared", s, ErrorType)>>)
    /\ UNCHANGED <<item_vars, scope_vars, vals, verdicts, diags>>

StepDeclared ==
    /\ At("Declared")
    /\ Reduce(1, <<Bind(Task.node.pattern, Val(0)), Irrefutable(TRUE)>>,
              When(Mismatch(Task.type, Val(0)), "TypeMismatch"))

CheckReassign ==
    AtStmt("Reassign") /\ Expand(<<Place(Task.s.place), With("Value", Task.s, 0)>>, {})

\* The type of the place stays under that of the value.
StepValue == At("Value") /\ Expand(<<Expr(Task.node.value, Val(0)), With("Assign", Task.node, 0)>>, {})

StepAssign ==
    /\ At("Assign")
    /\ Reduce(2, <<>>,
              IF Task.node.compound /\ ~Numeric(Tag(Val(1))) THEN {"InvalidOperation"}
              ELSE When(Mismatch(Val(1), Val(0)), "TypeMismatch"))

CheckExprStmt == AtStmt("Expr") /\ Expand(<<Expr(Task.s.value, 0), With("Discard", Task.s, 0)>>, {})

StepDiscard ==
    /\ At("Discard")
    /\ Reduce(1, <<>>, When(Tag(Val(0)) \notin {"Void", "Error", "Never"}, "MustUse"))

\* check_place
AtPlace(kinds) == At("Place") /\ E.kind \in kinds

PlacePath ==
    LET v     == ResolveValue(scopes, E.path)
        codes == When(Ambiguous(scopes, E.path), "UnknownValue")
        local == LookupLocal(scopes, Last(E.path))
    IN
    /\ AtPlace({"Path"})
    /\ CASE v.kind = "None" -> Fail("UnknownValue")
         [] v.kind = "Local" /\ local.is_mut -> Expand(<<Give(local.type)>>, {})
         [] OTHER -> Expand(<<Give(ErrorType)>>, codes \cup {"BadAssignment"})

PlaceInner == AtPlace({"Field", "Index"}) /\ Expand(<<Place(E.inner), PlaceOf(E)>>, {})

\* A place in anything but a struct is an error that nobody reports.
PlaceOuter ==
    /\ At("PlaceOf")
    /\ IF Tag(Val(0)) = "Error" \/ (E.kind = "Field" /\ Tag(Val(0)) # "Struct")
       THEN Reduce(1, <<Give(ErrorType)>>, {})
       ELSE Reduce(1, <<Expr(E, 0)>>, {})

PlaceOther ==
    /\ At("Place") /\ E.kind \notin {"Path", "Field", "Index"}
    /\ Fail("BadAssignment")

-----------------------------------------------------------------------------
(***************************************************************************)
(* bind_pattern. It leaves a verdict, whether the pattern is refutable.    *)
(***************************************************************************)
Q == Task.q
AtBind(kinds) == At("Bind") /\ Q.kind \in kinds

Local(name, type, is_mut) == [name |-> name, type |-> type, is_mut |-> is_mut]
WithLocals(list) == [scopes EXCEPT ![Len(scopes)] = @ \o list]

Judge(refutable, tasks, codes) ==
    Do(tasks) /\ Emit(codes) /\ verdicts' = Append(verdicts, refutable)
    /\ UNCHANGED <<item_vars, scope_vars, b, vals>>
\* All the names of a pattern that does not fit are of the error type.
Misfit(refutable, codes) == Judge(refutable, <<BindError(Q)>>, codes)

\* The parts, then their verdicts taken together.
Parts(types) == [k \in DOMAIN Q.parts |-> Bind(Q.parts[k], types[k])]

BindWildcard == AtBind({"Wildcard"}) /\ Judge(FALSE, <<>>, {})

BindIdent ==
    /\ AtBind({"Ident", "MutIdent"})
    /\ scopes' = WithLocals(<<Local(Q.name, Task.type, Q.kind = "MutIdent")>>)
    /\ verdicts' = Append(verdicts, FALSE)
    /\ Do(<<>>)
    /\ UNCHANGED <<item_vars, loop_depth, b, vals, diags>>

BindLiteral ==
    AtBind({"Literal"})
        /\ Judge(TRUE, <<LiteralTask(Q.lit, Task.type), Drop>>, LiteralCodes(Q.lit))

\* variant_payloads. The refutability of a variant pattern is that of all its
\* parts together, TRUE for none.
BindVariant ==
    LET v      == ResolveVariant(Q.path)
        failed == Tag(Task.type) = "Error"
        made   == IF failed \/ v.kind # "TupleVariant" THEN Made(b, <<>>) ELSE ResolveTypes(b, v.payload)
        payloads == IF v.kind = "BlessedCtor" /\ ~failed THEN BlessedPayload(v.name, Task.type) ELSE made.idx
        fits   == Len(payloads) = Len(Q.parts)
    IN
    /\ AtBind({"Tuple"}) /\ Q.path # <<>> /\ v.kind # "None"
    /\ b' = made.builder
    /\ Do(IF fits THEN Parts(payloads) \o <<Verdict(Len(payloads), TRUE)>> ELSE <<BindError(Q)>>)
    /\ verdicts' = IF fits THEN verdicts ELSE Append(verdicts, TRUE)
    /\ Emit(When(v.kind = "TupleVariant" /\ Mismatch(Task.type, v.type), "TypeMismatch")
            \cup When(v.kind = "BlessedCtor" /\ ~failed /\ InstanceOf(Task.type) = {}, "TypeMismatch")
            \cup When(~fits, "ArityError"))
    /\ UNCHANGED <<item_vars, scope_vars, vals>>

\* An unknown variant is left for the caller to report, and is not.
BindUnknownVariant ==
    /\ AtBind({"Tuple"}) /\ Q.path # <<>> /\ ResolveVariant(Q.path).kind = "None"
    /\ Misfit(TRUE, When(Len(Q.path) = 1 /\ VariantsNamed(Q.path[1]) # {}, "UnknownValue"))

\* The code keeps a reference to the tuple while it binds the elements, and an
\* element may add a tuple to the tables; the ranges here are values.
BindTuple ==
    LET elements == b.tuples[b.types[Task.type].data] IN
    /\ AtBind({"Tuple"}) /\ Q.path = <<>> /\ Tag(Task.type) = "Tuple"
    /\ IF elements.size # Len(Q.parts) THEN Misfit(FALSE, {"ArityError"})
       ELSE Expand(Parts([k \in DOMAIN Q.parts |-> elements.head + k - 1])
                       \o <<Verdict(Len(Q.parts), FALSE)>>, {})

\* The tuple type of the message is interned.
BindNoTuple ==
    LET made == TupleType(b, NoSlots) IN
    /\ AtBind({"Tuple"}) /\ Q.path = <<>> /\ Tag(Task.type) # "Tuple"
    /\ b' = made.builder
    /\ Do(<<BindError(Q)>>)
    /\ verdicts' = Append(verdicts, FALSE)
    /\ Emit(When(Tag(Task.type) \notin {"Error", "Never"}, "TypeMismatch"))
    /\ UNCHANGED <<item_vars, scope_vars, vals>>

BindStruct ==
    LET type    == Env.nominals[Lowest(StructsNamed(Q.path))].type
        slot(k) == FieldSlot(type, Q.names[k])
        known   == {k \in DOMAIN Q.parts : slot(k) # 0}
    IN
    /\ AtBind({"Struct"})
    /\ IF StructsNamed(Q.path) = {} THEN Misfit(FALSE, {"UnknownValue"})
       ELSE Expand([k \in DOMAIN Q.parts |->
                       IF k \in known THEN Bind(Q.parts[k], slot(k)) ELSE BindError(Q.parts[k])]
                       \o <<Verdict(Cardinality(known), FALSE)>>,
                   When(Mismatch(Task.type, type), "TypeMismatch")
                       \cup When(known # DOMAIN Q.parts, "UnknownValue"))

BindRef ==
    /\ AtBind({"Ref"})
    /\ IF Tag(Task.type) = IF Q.is_mut THEN "MutRef" ELSE "Ref"
       THEN Expand(<<Bind(Q.parts[1], Pointee(b, Task.type))>>, {})
       ELSE Misfit(FALSE, {"TypeMismatch"})

\* The names of every alternative but the first are compared with those
\* between base and the alternative's own start. base is taken after the first
\* alternative, so that there are none, and then the names are dropped.
BindOr ==
    LET later(k) == <<With("Alternative", Q.parts[k], Task.type)>> IN
    /\ AtBind({"Or"})
    /\ Expand(<<Bind(Q.parts[1], Task.type)>>
                  \o FlattenSeq([k \in 1 .. Len(Q.parts) - 1 |-> later(k + 1)])
                  \o <<Verdict(Len(Q.parts), FALSE)>>, {})

StepAlternative ==
    /\ At("Alternative")
    /\ Expand(<<Bind(Task.node, Task.type), With("EndAlternative", Task.node, Len(Last(scopes)))>>, {})

StepEndAlternative ==
    LET mark == Task.type IN
    /\ At("EndAlternative")
    /\ scopes' = [scopes EXCEPT ![Len(scopes)] = SubSeq(@, 1, mark)]
    /\ Emit(When(Len(Last(scopes)) > mark, "InvalidOperation"))
    /\ Do(<<>>)
    /\ UNCHANGED <<item_vars, loop_depth, b, vals, verdicts>>

StepBindError ==
    /\ At("BindError")
    /\ scopes' = WithLocals([k \in DOMAIN Idents[Q] |-> Local(Idents[Q][k], ErrorType, FALSE)])
    /\ Do(<<>>)
    /\ UNCHANGED <<item_vars, loop_depth, b, vals, verdicts, diags>>

StepVerdict ==
    LET split == Len(verdicts) - Task.n
        parts == ToSet(SubSeq(verdicts, split + 1, Len(verdicts)))
    IN
    /\ At("Verdict")
    /\ verdicts' = Append(SubSeq(verdicts, 1, split), IF Task.all THEN FALSE \notin parts ELSE TRUE \in parts)
    /\ Do(<<>>)
    /\ UNCHANGED <<item_vars, scope_vars, b, vals, diags>>

StepIrrefutable ==
    /\ At("Irrefutable")
    /\ verdicts' = Front(verdicts)
    /\ Emit(When(Task.must /\ Last(verdicts), "RefutableLet"))
    /\ Do(<<>>)
    /\ UNCHANGED <<item_vars, scope_vars, b, vals>>

-----------------------------------------------------------------------------
(***************************************************************************)
(* check_bodies: the items in order.                                       *)
(*   Fn     is_main, params: of [pattern, type], ret, body; a method of an *)
(*          impl block is one, its types already without Self              *)
(*   Static, Const   type, init                                            *)
(***************************************************************************)
Init ==
    /\ \E family \in Families : items \in family
    /\ at = 0 /\ in_fn = FALSE /\ fn_ret = 1
    /\ b = Env.builder
    /\ scopes = <<>> /\ loop_depth = 0
    /\ todo = <<>> /\ vals = <<>> /\ verdicts = <<>> /\ diags = {}

NextItem == items[at + 1]
AtItem(kinds) == todo = <<>> /\ at < Len(items) /\ NextItem.kind \in kinds

\* check_fn
StartFunction ==
    LET item == NextItem
        made == IF item.ret = NoType THEN Made(b, Void) ELSE ResolveType(b, item.ret)
    IN
    /\ AtItem({"Fn"})
    /\ at' = at + 1 /\ in_fn' = TRUE /\ fn_ret' = made.idx /\ b' = made.builder
    /\ scopes' = Append(scopes, <<>>) /\ loop_depth' = 0
    /\ todo' = [k \in DOMAIN item.params |-> With("Param", item.params[k], 0)]
                   \o (IF item.body = Nothing THEN <<>> ELSE <<Block(item.body, made.idx), Drop>>)
                   \o <<Pop, EndItem>>
                   \o (IF item.is_main THEN <<With("Main", item, 0)>> ELSE <<>>)
    /\ UNCHANGED <<items, vals, verdicts, diags>>

StepParam ==
    LET made == ResolveType(b, Task.node.type) IN
    /\ At("Param")
    /\ b' = made.builder
    /\ Do(<<Bind(Task.node.pattern, made.idx), Irrefutable(TRUE)>>)
    /\ UNCHANGED <<item_vars, scope_vars, vals, verdicts, diags>>

\* check_main
FitsMain(b_, ret) ==
    \/ b_.types[ret].tag \in {"Error", "Void", "I32"}
    \/ /\ InstanceOf(ret) # {} /\ Instance(ret).is_result
       /\ b_.types[Instance(ret).args[1]].tag = "Void"

StepMain ==
    LET item == Task.node
        made == IF item.ret = NoType THEN Made(b, Void) ELSE ResolveType(b, item.ret)
    IN
    /\ At("Main")
    /\ b' = made.builder
    /\ Emit(When(item.params # <<>> \/ ~FitsMain(made.builder, made.idx), "BadReturn"))
    /\ Do(<<>>)
    /\ UNCHANGED <<item_vars, scope_vars, vals, verdicts>>

\* Static and Const: fn_ret stays that of the last function.
StartInitialiser ==
    LET item == NextItem
        made == ResolveType(b, item.type)
    IN
    /\ AtItem({"Static", "Const"})
    /\ at' = at + 1 /\ in_fn' = FALSE /\ b' = made.builder
    /\ scopes' = Append(scopes, <<>>)
    /\ todo' = <<Expr(item.init, made.idx), Unify(made.idx), Pop, EndItem>>
    /\ diags' = diags \cup {[item |-> at', code |-> c] : c \in
                    When(item.kind = "Const" /\ item.init.kind # "Literal", "InvalidOperation")
                    \cup When(item.kind = "Static" /\ ContainsMutRef(made.builder, made.idx), "InvalidOperation")}
    /\ UNCHANGED <<items, fn_ret, loop_depth, vals, verdicts>>

StepEndItem ==
    /\ At("EndItem") /\ in_fn' = FALSE /\ Do(<<>>)
    /\ UNCHANGED <<items, at, fn_ret, scope_vars, b, vals, verdicts, diags>>

Done == todo = <<>> /\ at = Len(items)
Terminated == Done /\ UNCHANGED vars

CheckExpr ==
    \/ CheckLiteral \/ CheckPath \/ CheckRange \/ EnterOperand \/ CheckUnary \/ CheckBorrow \/ CheckCast
    \/ EnterTuple \/ CheckTuple \/ CheckLogical \/ EnterBinary \/ CheckBinary \/ EnterIndex \/ CheckIndex
    \/ CallOther \/ CallIntrinsic \/ CallFunction \/ CallVariant \/ CallBlessed
    \/ MethodOfError \/ CallBlessedMethod \/ CallMethod \/ CheckField \/ CheckQuestion
    \/ CheckStruct \/ StructUnknown
CheckControl ==
    \/ BindCond \/ CheckIf \/ CheckNoElse \/ StepMeet \/ EnterMatch \/ CheckMatch \/ CheckExhaustive
    \/ CheckLoop \/ CheckWhile \/ StepEnterLoop \/ StepLeaveLoop \/ CheckBreak \/ CheckReturn
    \/ CheckBlockExpr \/ StepBlock \/ StepYield \/ StepUnify \/ StepJoin \/ StepDrop \/ StepPush \/ StepPop
CheckStmt ==
    \/ CheckDecl \/ StepDeclared \/ CheckReassign \/ StepValue \/ StepAssign \/ CheckExprStmt \/ StepDiscard
    \/ PlacePath \/ PlaceInner \/ PlaceOuter \/ PlaceOther
BindPattern ==
    \/ BindWildcard \/ BindIdent \/ BindLiteral \/ BindVariant \/ BindUnknownVariant \/ BindTuple
    \/ BindNoTuple \/ BindStruct \/ BindRef \/ BindOr \/ StepAlternative \/ StepEndAlternative
    \/ StepBindError \/ StepVerdict \/ StepIrrefutable
CheckItem == StartFunction \/ StepParam \/ StepMain \/ StartInitialiser \/ StepEndItem

Next == CheckExpr \/ CheckControl \/ CheckStmt \/ BindPattern \/ CheckItem \/ Terminated

Spec == Init /\ [][Next]_vars /\ WF_vars(Next)

-----------------------------------------------------------------------------
\* Between two items no scope, no loop and no function is open, and every type
\* and every verdict has been used, whatever was diagnosed on the way: the
\* check of an initialiser counts on it (check_bodies, check_block, check_cond).
ItemsStartClean ==
    todo = <<>> => /\ scopes = <<>> /\ loop_depth = 0 /\ ~in_fn
                   /\ vals = <<>> /\ verdicts = <<>>

=============================================================================
