---------------------------- MODULE SmallBodies ----------------------------
(***************************************************************************)
(* A small package for Bodies: types, functions, methods and statics, and  *)
(* families of items over them. Every value a function gives and a static  *)
(* holds is tried, so that a name stands for all values of its type.       *)
(***************************************************************************)
EXTENDS Trees, SequencesExt

\* The tables that register_nominals and process_module leave for
\*   struct P { x: i32, y: bool }   struct Q { p: P, n: i32 }
\*   enum C { Yes, No(i32) }        enum D { L(bool), M(i32, bool), N }
\* with Result<i32, bool>, Option<i32>, Result<(), bool>, some references, a
\* pair, `!` and the error type. The indexes of the entries:
I32 == Primitive("I32")
Boolean == Primitive("I1")
StructP == 18
StructQ == 21
EnumC == 24
EnumD == 26
Res == 30
Opt == 31
ResUnit == 32
RefP == 33
MutP == 34
RefI == 35
RefB == 36
Pair == 39
Stop == 40

Node(tag, data) == [tag |-> tag, data |-> data]
Scalar(tag) == Node(tag, 0)
Run(head, size) == IdxRange(head, size)
SmallTables ==
    [types    |-> InitBuilder.types \o
                  <<Node("Struct", 1), Scalar("I32"), Scalar("I1"),
                    Node("Struct", 2), Node("Struct", 1), Scalar("I32"),
                    Node("Enum", 1), Scalar("I32"),
                    Node("Enum", 2), Scalar("I1"), Scalar("I32"), Scalar("I1"),
                    Node("Enum", 3), Node("Enum", 4), Node("Enum", 5),
                    Node("Ref", 1), Node("MutRef", 2), Node("Ref", 3), Node("Ref", 4),
                    Scalar("I32"), Scalar("I1"), Node("Tuple", 1), Scalar("Never"), Scalar("Error")>>,
     structs  |-> <<Run(19, 2), Run(22, 2)>>,
     enums    |-> <<Run(1, 2), Run(3, 3), Run(6, 2), Run(8, 2), Run(10, 2)>>,
     variants |-> <<NoSlots, Run(25, 1), Run(27, 1), Run(28, 2), NoSlots,
                    Run(I32, 1), Run(Boolean, 1), Run(I32, 1), NoSlots,
                    Run(Primitive("Void"), 1), Run(Boolean, 1)>>,
     refs     |-> <<StructP, StructP, I32, Boolean>>,
     tuples   |-> <<Run(37, 2)>>,
     arrays   |-> <<>>]

Nominal(name, kind, type, fields, variants) ==
    [name |-> name, kind |-> kind, type |-> type, fields |-> fields, variants |-> variants]
Variant(name, list) == [name |-> name, payload |-> [k \in DOMAIN list |-> Entry(list[k])]]
Function(name, params, ret) == [name |-> name, params |-> params, ret |-> ret]
Static(name, type) == [name |-> name, type |-> type]
Method(name, receiver, params, ret) ==
    [self_type |-> StructP, name |-> name, receiver |-> receiver, params |-> params, ret |-> ret]

SmallEnv ==
    [builder   |-> SmallTables,
     nominals  |-> <<Nominal("P", "Struct", StructP, <<"x", "y">>, <<>>),
                     Nominal("Q", "Struct", StructQ, <<"p", "n">>, <<>>),
                     Nominal("C", "Enum", EnumC, <<>>, <<Variant("Yes", <<>>), Variant("No", <<I32>>)>>),
                     Nominal("D", "Enum", EnumD, <<>>,
                             <<Variant("L", <<Boolean>>), Variant("M", <<I32, Boolean>>), Variant("N", <<>>)>>)>>,
     blessed   |-> <<[is_result |-> TRUE, args |-> <<I32, Boolean>>, type |-> Res],
                     [is_result |-> FALSE, args |-> <<I32>>, type |-> Opt],
                     [is_result |-> TRUE, args |-> <<Primitive("Void"), Boolean>>, type |-> ResUnit]>>,
     functions |-> <<Function("get", <<>>, I32), Function("two", <<I32, Boolean>>, Res),
                     Function("look", <<RefP>>, I32), Function("stop", <<>>, Stop)>>,
     statics   |-> <<Static("n", I32), Static("d", Boolean), Static("f", Primitive("F64")),
                     Static("p0", StructP), Static("q0", StructQ), Static("c0", EnumC),
                     Static("t0", Pair), Static("o0", Opt), Static("r0", Res),
                     Static("x0", RefP), Static("i0", RefI)>>,
     methods   |-> <<Method("get", "Ref", <<RefP>>, I32), Method("same", "Owned", <<StructP, I32>>, Boolean),
                     Method("put", "RefMut", <<MutP, I32>>, Primitive("Void")),
                     Method("new", "None", <<I32>>, StructP)>>]

-----------------------------------------------------------------------------
\* Expressions, in a function of every kind of result.
ResultTypes == {NoType, Entry(I32), Entry(Boolean), Entry(StructP), Entry(Res), Entry(Opt),
             WrittenTuple(<<I32, Boolean>>), Entry(RefI)}

Returning(rets, exprs) == {<<Fn(<<>>, ret, BlockOf(<<>>, e))>> : ret \in rets, e \in exprs}

Atoms == {One, Lit("Integer", "1", "U8"), Lit("Integer", "1", "F32"), Lit("Float", "1", ""), Lit("Char", "", ""),
          True, Text, Name("n"), Name("f"), Name("p0"), Name("c0"), Name("t0"), Name("o0"), Name("r0"),
          Name("x0"), Name("i0"), Name("None"), Name("Yes"), Member("C", "Yes"), Name("L"), Name("get"),
          Name("P"), Name("gone"), Member("Option", "Some"), Tuple(<<>>), RangeExpr}
Few == {One, True, Text, Name("n"), Name("d"), Name("p0"), Name("t0"), Name("r0"), Name("x0"), Name("gone")}

Around(e) ==
    {Unary(op, e) : op \in {"Neg", "Not", "BitNot"}}
    \cup {Borrow(FALSE, e), Borrow(TRUE, e), Question(e), Tuple(<<e>>), Index(e, One), Index(Name("n"), e)}
    \cup {Cast(e, ty) : ty \in {Entry(I32), Entry(Boolean), Entry(StructP)}}
    \cup {Field(e, name) : name \in {"x", "p", "1", "2"}}
    \cup {MethodCall(e, name, <<>>) : name \in {"get", "unwrap", "is_ok", "new", "expect"}}
    \cup {MethodCall(e, "expect", <<Text>>), MethodCall(Name("p0"), "same", <<e>>), MethodCall(e, "put", <<One>>)}
    \cup {Call(callee, <<e>>) : callee \in {Name("get"), Name("look"), Name("Some"), Name("Err"), Name("No"),
                                            Name("L"), Name("print"), Name("panic"), Name("gone"), Name("d"),
                                            Member("P", "new"), Member("Result", "Ok"), Member("D", "M")}}
    \cup {Call(e, <<>>), BlockExpr(BlockOf(<<>>, e)), BlockExpr(BlockOf(<<ExprStmt(e)>>, Nothing))}
Between(x, y) ==
    {Binary(op, x, y) : op \in {"Add", "Eq", "Lt", "And"}}
    \cup {Tuple(<<x, y>>), Call(Name("two"), <<x, y>>), Call(Name("M"), <<x, y>>),
          Struct("P", <<"x", "y">>, <<x, y>>, Nothing), Struct("P", <<"x">>, <<x>>, y),
          If(Cond(x), BlockOf(<<>>, y), Nothing)}

Depth1 == Atoms \cup UNION {Around(e) : e \in Atoms}
              \cup UNION {Between(x, y) : x \in Few, y \in Few}
              \cup {Call(Name(name), <<>>) : name \in {"get", "stop", "two", "print", "panic", "No"}}
              \cup {Struct("P", <<"x">>, <<One>>, Nothing), Struct("P", <<"z">>, <<One>>, Nothing),
                    Struct("C", <<"x">>, <<One>>, Nothing), Struct("C", <<>>, <<>>, One)}

Deeper == UNION {Around(x) : x \in UNION {Around(e) : e \in {Name("p0"), Name("r0"), Name("x0")}}}

-----------------------------------------------------------------------------
\* Patterns, for each type those that fit it and some that do not. A name is
\* of one local, as desugaring leaves it.
SimplePatterns == {Wild, Id("a"), Id("k"), Mut("m"), Is(One), Is(True), Is(False), Is(Text), Is(Lit("Integer", "1", "bad"))}
UnitC == Of(<<"C", "Yes">>, <<>>)
UnitD == Of(<<"D", "N">>, <<>>)
AnyNo == Of(<<"No">>, <<Wild>>)
AnyL == Of(<<"L">>, <<Wild>>)
AnyM == Of(<<"M">>, <<Wild, Wild>>)
AnyOk == Of(<<"Ok">>, <<Wild>>)
BoolPatterns == {Wild, Id("a"), Is(True), Is(False), Or(<<Is(True), Is(False)>>)}
CPatterns == {Wild, Id("Yes"), UnitC, AnyNo, Of(<<"No">>, <<Id("a")>>), Of(<<"No">>, <<Is(One)>>), Of(<<"No">>, <<>>),
              Or(<<UnitC, AnyNo>>), Or(<<UnitC, Of(<<"No">>, <<Id("a")>>)>>), AnyL}
DPatterns == {Wild, UnitD, AnyL, AnyM, Of(<<"D", "L">>, <<Is(True)>>), Of(<<"M">>, <<Id("a"), Id("k")>>),
              Or(<<UnitD, AnyL>>), Or(<<AnyL, AnyM>>), Of(<<"gone">>, <<Id("a")>>)}
ResPatterns == {Wild, AnyOk, Of(<<"Err">>, <<Id("a")>>), Of(<<"Result", "Ok">>, <<Id("a")>>),
                Of(<<"Option", "Ok">>, <<Wild>>), Of(<<"Some">>, <<Id("a")>>), Of(<<"None">>, <<>>), AnyNo}
PairPatterns == {Of(<<>>, <<Id("a"), Wild>>), Of(<<>>, <<Id("a"), Id("k")>>), Of(<<>>, <<Is(One), Wild>>),
                 Of(<<>>, <<Id("a")>>), Of(<<>>, <<>>)}
StructPatterns == {FieldsOf("P", <<"x">>, <<Id("a")>>), FieldsOf("P", <<"x", "y">>, <<Is(One), Mut("m")>>),
                   FieldsOf("P", <<"z">>, <<Id("a")>>), FieldsOf("Q", <<"p">>, <<Id("a")>>),
                   FieldsOf("gone", <<"x">>, <<Id("a")>>)}
RefPatterns == {RefTo(FALSE, Id("a")), RefTo(TRUE, Id("a")), RefTo(FALSE, Is(One))}
OtherPatterns == BoolPatterns \cup CPatterns \cup DPatterns \cup ResPatterns
                     \cup PairPatterns \cup StructPatterns \cup RefPatterns
SmallPatterns == SimplePatterns \cup OtherPatterns \cup {Id("v"), Id("m"), Of(<<"Ok">>, <<Id("a")>>)}
                     \cup {Of(<<name>>, <<Id("v")>>) : name \in {"Ok", "Some"}}

\* A match on a parameter, and a pattern in a declaration and a parameter.
Choosing(type, lists) ==
    {<<Fn(<<Param("v", type)>>, Entry(I32), BlockOf(<<>>, Match(Name("v"), list)))>> : list \in lists}
Lists(pats, n) == [1 .. n -> {Arm(q, One) : q \in pats}]
Matches ==
    Choosing(Boolean, UNION {Lists(BoolPatterns, n) : n \in 0 .. 3})
        \cup Choosing(EnumC, UNION {Lists(CPatterns, n) : n \in 1 .. 3})
        \cup Choosing(EnumD, UNION {Lists(DPatterns, n) : n \in 1 .. 3})
        \cup Choosing(Res, UNION {Lists(ResPatterns, n) : n \in 1 .. 3})
        \cup UNION {Choosing(type, UNION {Lists(PairPatterns \cup StructPatterns \cup RefPatterns \cup SimplePatterns, n) :
                                          n \in 1 .. 2}) : type \in {I32, StructP, RefI, Pair}}
\* The arms of one match give different types, one of them what it has bound.
Arms ==
    {<<Fn(<<>>, ret, BlockOf(<<>>, Match(e, <<Arm(Of(<<"Ok">>, <<Id("a")>>), x), Arm(q, y)>>)))>> :
        ret \in {NoType, Entry(I32)}, e \in {Name("r0"), Name("n"), Name("gone"), Question(Name("r0"))},
        q \in {Wild, Id("k")}, x \in {Name("a"), True, Return(One), Call(Name("stop"), <<>>)},
        y \in {Name("k"), One, True, Break}}

Holders == {Name("n"), Name("d"), Name("p0"), Name("q0"), Name("c0"), Name("r0"), Name("t0"), Name("x0"),
            Name("i0"), Name("gone")}
Declared ==
    {<<Fn(<<>>, NoType, BlockOf(<<Let(q, NoType, e)>>, x))>> :
        q \in SmallPatterns, e \in Holders, x \in {Nothing, Name("a")}}
Taken ==
    {<<Fn(<<[pattern |-> q, type |-> ty]>>, Entry(I32), BlockOf(<<>>, Name("a")))>> :
        q \in SmallPatterns, ty \in {Entry(I32), Entry(StructP), Entry(RefI), Entry(Pair), Entry(EnumC),
                                     WrittenTuple(<<I32, Boolean>>)}}

-----------------------------------------------------------------------------
\* Control flow.
Conds == {Cond(True), Cond(Name("d")), Cond(One), CondLet(Of(<<"Ok">>, <<Id("v")>>), Name("r0")),
          CondLet(Id("v"), Name("n")), CondLet(Of(<<"Some">>, <<Id("v")>>), Name("r0"))}
Jumps == {Break, Continue, Return(Nothing), Return(One), Return(True), Name("v"), One, Tuple(<<>>),
          Call(Name("stop"), <<>>)}
BlocksOf(exprs) ==
    {BlockOf(<<>>, e) : e \in exprs} \cup {BlockOf(<<ExprStmt(e)>>, Nothing) : e \in exprs}
Branches == {If(c, x, y) : c \in Conds, x \in BlocksOf(Jumps), y \in {Nothing} \cup BlocksOf({One, Name("v"), Break, Tuple(<<>>)})}
Loops == {Loop(x) : x \in BlocksOf(Jumps \cup {If(c, BlockOf(<<ExprStmt(j)>>, Nothing), Nothing) : c \in Conds, j \in Jumps})}
             \cup {While(c, x) : c \in Conds, x \in BlocksOf(Jumps)}
             \cup {While(c, BlockOf(<<ExprStmt(Loop(x))>>, e)) : c \in {Cond(Name("d"))}, x \in BlocksOf(Jumps),
                                                               e \in {Break, Name("v")}}
Flow == {<<Fn(<<>>, ret, BlockOf(<<>>, e))>> : ret \in {NoType, Entry(I32), Entry(Stop)}, e \in Branches \cup Loops}
            \cup {<<Fn(<<>>, Entry(I32), BlockOf(<<ExprStmt(e)>>, One))>> : e \in Loops}

\* Declarations and assignments.
Places == {Name("m"), Name("n"), Name("gone"), Field(Name("m"), "x"), Field(Name("m"), "p"), Field(Name("m"), "0"),
           Field(Field(Name("m"), "p"), "x"), Index(Name("m"), One), Index(Field(Name("m"), "p"), One), One}
Assigned ==
    {<<Fn(<<>>, NoType, BlockOf(<<Let(q, ty, e), Set(place, compound, x)>>, Nothing))>> :
        q \in {Id("m"), Mut("m")}, ty \in {NoType, Entry(I32), Entry(Boolean)},
        e \in {One, True, Name("p0"), Name("q0"), Name("t0"), Name("x0"), Name("gone")},
        place \in Places, compound \in BOOLEAN, x \in {One, True, Name("p0"), Name("gone")}}

-----------------------------------------------------------------------------
\* Items: what one leaves for the next.
SomeBodies == {Nothing, BlockOf(<<>>, One), BlockOf(<<>>, Name("r0")), BlockOf(<<ExprStmt(Break)>>, Name("gone")),
            BlockOf(<<Let(Id("a"), NoType, Question(Name("r0")))>>, Name("r0"))}
Inits == {One, True, Text, Name("n"), Name("a"), Name("r0"), Question(Name("r0")), Return(One), Return(Nothing), Break,
          Loop(BlockOf(<<>>, Break)), Call(Name("get"), <<>>), Borrow(TRUE, Name("p0")), Unary("Neg", One),
          BlockExpr(BlockOf(<<Let(Id("a"), NoType, Name("r0"))>>, Question(Name("a"))))}
Sequences ==
    {<<Fn(<<>>, ret, body), Global(kind, Entry(type), e)>> :
        ret \in {NoType, Entry(I32), Entry(Res)}, body \in SomeBodies, kind \in {"Static", "Const"},
        type \in {I32, Boolean, MutP}, e \in Inits}
        \cup {<<Global("Static", Entry(I32), e), Fn(<<>>, Entry(I32), BlockOf(<<>>, x))>> :
                 e \in Inits, x \in {One, Return(One), Break, Name("a")}}
Mains ==
    {<<Main(params, ret, body)>> :
        params \in {<<>>, <<Param("a", I32)>>}, body \in SomeBodies,
        ret \in {NoType, Entry(I32), Entry(Res), Entry(ResUnit), Entry(Boolean), WrittenTuple(<<I32, I32>>)}}

SmallFamilies ==
    {Returning(ResultTypes, Depth1), Returning({Entry(I32), Entry(Boolean)}, Deeper), Matches, Arms, Declared, Taken,
     Flow, Assigned, Sequences, Mains}

-----------------------------------------------------------------------------
\* The expressions of a program, with their parts.
Present(nodes) == nodes \ {Nothing}
OfStmt(s) ==
    CASE s.kind = "Decl"     -> {s.init}
      [] s.kind = "Reassign" -> {s.place, s.value}
      [] s.kind = "Expr"     -> {s.value}
OfBlock(block) == Present({block.value}) \cup UNION {OfStmt(s) : s \in ToSet(block.stmts)}
OfExpr(e) ==
    CASE e.kind \in {"Unary", "Borrow", "Cast", "Field", "Question"} -> {e.inner}
      [] e.kind = "Index"  -> {e.inner, e.index}
      [] e.kind = "Binary" -> {e.lhs, e.rhs}
      [] e.kind = "Tuple"  -> ToSet(e.parts)
      [] e.kind = "Call"   -> {e.callee} \cup ToSet(e.args)
      [] e.kind = "MethodCall" -> {e.inner} \cup ToSet(e.args)
      [] e.kind = "Struct" -> ToSet(e.values) \cup Present({e.base})
      [] e.kind = "If"     -> {e.cond.value} \cup UNION {OfBlock(block) : block \in Present({e.then, e.else})}
      [] e.kind = "Match"  -> {e.inner} \cup {arm.body : arm \in ToSet(e.arms)}
      [] e.kind = "Loop"   -> OfBlock(e.body)
      [] e.kind = "While"  -> {e.cond.value} \cup OfBlock(e.body)
      [] e.kind = "Block"  -> OfBlock(e.block)
      [] e.kind = "Return" -> Present({e.value})
      [] OTHER -> {}

RECURSIVE Within(_)
Within(e) == {e} \cup UNION {Within(x) : x \in OfExpr(e)}
OfItem(item) == IF item.kind = "Fn" THEN UNION {OfBlock(block) : block \in Present({item.body})} ELSE {item.init}
SmallExprs(program) == UNION {UNION {Within(e) : e \in OfItem(item)} : item \in ToSet(program)}

=============================================================================
