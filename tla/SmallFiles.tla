----------------------------- MODULE SmallFiles -----------------------------
(***************************************************************************)
(* Trees of small files, and texts of a few units, for the front end.      *)
(***************************************************************************)
EXTENDS Integers, Sequences

Node(kind, words, parts) == [kind |-> kind, words |-> words, parts |-> parts]
Missing == Node("Missing", <<>>, <<>>)
File(items) == Node("File", <<>>, items)

-----------------------------------------------------------------------------
(* Types and patterns                                                      *)

Primitive(name) == Node("Primitive", <<name>>, <<>>)
PathType(words, args) == Node("PathType", words, args)
TupleOf(parts) == Node("Tuple", <<>>, parts)
I32 == Primitive("i32")

TypesOf(S) ==
    {Node("Ref", <<>>, <<t>>) : t \in S} \cup {Node("Ref", <<"mut">>, <<t>>) : t \in S}
    \cup {PathType(<<"A">>, <<t>>) : t \in S} \cup {PathType(<<"x", "B">>, <<I32, t>>) : t \in S}
    \cup {PathType(<<"A">>, <<t, I32>>) : t \in S}
    \cup {TupleOf(<<t>>) : t \in S} \cup {TupleOf(<<t, I32>>) : t \in S}
Types0 == {I32, Primitive("str"), Node("Unit", <<>>, <<>>), Node("Never", <<>>, <<>>), PathType(<<"Self">>, <<>>)}
Types2 == Types0 \cup TypesOf(Types0) \cup TypesOf(TypesOf({I32})) \cup TypesOf(TypesOf(TypesOf({I32})))

Binds(name) == Node("Ident", <<name>>, <<>>)
Lit(word) == Node("Literal", <<word>>, <<>>)
Variant(words, parts) == Node("Tuple", words, parts)
Either(parts) == Node("Or", <<>>, parts)
Member(name, part) == Node("Member", <<name>>, <<part>>)

PatternsOf(S) ==
    {Node("Ref", <<>>, <<p>>) : p \in S} \cup {Node("Ref", <<"mut">>, <<p>>) : p \in S}
    \cup {TupleOf(<<p>>) : p \in S} \cup {TupleOf(<<Binds("x"), p>>) : p \in S}
    \cup {Variant(<<"A">>, <<p, Binds("y")>>) : p \in S} \cup {Variant(<<"x", "B">>, <<p>>) : p \in S}
    \cup {Either(<<p, Variant(<<"A">>, <<>>), p>>) : p \in S}
    \cup {Node("Struct", <<"A">>, <<Member("x", p), Member("y", Binds("y"))>>) : p \in S}
Patterns0 ==
    {Node("Wildcard", <<>>, <<>>), Binds("x"), Binds("self"), Node("MutIdent", <<"y">>, <<>>), Lit("1"),
     Lit("true"), Variant(<<"Self">>, <<>>), Variant(<<"x", "y">>, <<>>)}
Patterns2 == Patterns0 \cup PatternsOf(Patterns0 \cup PatternsOf({Binds("x"), Variant(<<"A">>, <<>>)}))

-----------------------------------------------------------------------------
(* Expressions                                                             *)

Name(name) == Node("Path", <<name>>, <<>>)
X == Name("x")
Binary(op, a, b) == Node("Binary", <<op>>, <<a, b>>)
Call(callee, args) == Node("Call", <<>>, <<callee>> \o args)
MethodCall(inner, args) == Node("MethodCall", <<"y">>, <<inner>> \o args)
Range(op, a, b) == Node("Range", <<op>>, <<a, b>>)
Block(stmts, value) == Node("Block", <<>>, Append(stmts, value))
Value(e) == Block(<<>>, e)
Arm(pattern, body) == Node("Arm", <<>>, <<pattern, body>>)
Let(pattern, init) == Node("Let", <<>>, <<pattern, init>>)
Struct(members) == Node("Struct", <<"A">>, members)
Do(e) == Node("Expr", <<>>, <<e>>)
Decl(pattern, type, init) == Node("Decl", <<>>, <<pattern, type, init>>)

Ops == {"||", "&&", "==", "!=", ">", "<", ">=", "<=", "|", "^", "&", "<<", ">>", "+", "-", "*", "/", "%", "**"}
SomeOps == {"||", "&&", "<", "|", "^", "&", ">>", "-", "*", "**"}

\* e in every place an expression has, in heads and as statements apart.
Inside(e, ops) ==
    {Binary(op, e, X) : op \in ops} \cup {Binary(op, X, e) : op \in ops}
    \cup {Node("Unary", <<op>>, <<e>>) : op \in {"-", "!", "~"}}
    \cup {Node("Borrow", <<>>, <<e>>), Node("Borrow", <<"mut">>, <<e>>), Node("Cast", <<>>, <<e, I32>>),
          Range("..=", e, X), Range("..<", X, e), Range("..=", Missing, e), Range("..<", e, Missing),
          Call(e, <<>>), Call(X, <<e, X>>), MethodCall(e, <<X>>), MethodCall(X, <<e>>),
          Node("Field", <<"y">>, <<e>>), Node("Field", <<"0">>, <<e>>),
          Node("Index", <<>>, <<e, X>>), Node("Index", <<>>, <<X, e>>), Node("Question", <<>>, <<e>>),
          TupleOf(<<e>>), TupleOf(<<X, e>>), Node("Return", <<>>, <<e>>),
          Struct(<<Member("x", e), Member("y", X)>>), Struct(<<Member("x", X), Node("Base", <<>>, <<e>>)>>),
          Node("Match", <<>>, <<X, Arm(Variant(<<"A">>, <<>>), e), Arm(Binds("y"), X)>>)}

\* e where a block follows.
InHead(e) ==
    {Node("If", <<>>, <<e, Value(X)>>), Node("If", <<>>, <<e, Value(X), Value(X)>>),
     Node("While", <<>>, <<e, Value(Missing)>>), Node("Match", <<>>, <<e, Arm(Lit("1"), X)>>)}

Lets == {Node("If", <<>>, <<Let(Variant(<<"A">>, <<Binds("y")>>), Lit("1")), Value(X)>>),
         Node("While", <<>>, <<Let(Binds("y"), Call(X, <<>>)), Value(X)>>)}

\* e as a statement and as the value of a block.
InBlock(e) ==
    {Value(e), Node("Loop", <<>>, <<Block(<<Do(e)>>, Missing)>>), Node("If", <<>>, <<X, Value(e), Value(e)>>),
     Block(<<Do(e), Decl(Binds("y"), Missing, X)>>, e)}

Exprs1 == UNION {Inside(X, SomeOps) \cup InHead(X) \cup InBlock(X)}
          \cup {Lit("1"), Value(Missing), Node("Path", <<"package", "x", "y">>, <<>>)}
AllBinary == {Binary(op, X, X) : op \in Ops}
Exprs2 ==
    UNION {Inside(e, SomeOps) : e \in Exprs1 \cup Lets}
    \cup UNION {Inside(e, Ops) : e \in AllBinary}
    \cup UNION {InHead(e) : e \in {f \in Exprs1 : f.kind # "Struct"}} \cup UNION {InBlock(e) : e \in Exprs1}

-----------------------------------------------------------------------------
(* Statements and items                                                    *)

Params(parts) == Node("Params", <<>>, parts)
Param(pattern, type) == Node("Param", <<>>, <<pattern, type>>)
Fn(vis, params, type, body) == Node("Fn", vis \o <<"f">>, <<Params(params), type, body>>)
Body(stmts, value) == File(<<Fn(<<>>, <<>>, Missing, Block(stmts, value))>>)

Assigns == {"=", "+=", "-=", "*=", "/=", "%=", "**=", "&=", "|=", "^=", "<<=", ">>="}
Stmts ==
    {Decl(Binds("y"), t, e) : t \in {Missing, I32, PathType(<<"A">>, <<PathType(<<"A">>, <<I32>>)>>)}, e \in {X, Value(X)}}
    \cup {Node("Reassign", <<op>>, <<Node("Index", <<>>, <<X, Lit("1")>>), X>>) : op \in Assigns}
    \cup {Do(e) : e \in {X, Node("Return", <<>>, <<>>), Node("Break", <<>>, <<>>),
                         Node("If", <<>>, <<X, Value(X)>>), Struct(<<Member("x", X)>>)}}

Items ==
    {Fn(<<"pub">>, <<>>, Node("Never", <<>>, <<>>), Value(Missing)),
     Fn(<<>>, <<Param(Binds("x"), I32), Param(TupleOf(<<Binds("x"), Binds("y")>>), I32)>>, I32, Value(X)),
     Node("StructItem", <<"pub", "A">>, <<Member("x", I32), Member("y", I32)>>), Node("StructItem", <<"A">>, <<>>),
     Node("Enum", <<"A">>, <<Node("Variant", <<"B">>, <<I32, I32>>), Node("Variant", <<"A">>, <<>>)>>),
     Node("static", <<"x">>, <<I32, Lit("1")>>), Node("const", <<"pub", "x">>, <<I32, X>>),
     Node("Use", <<>>, <<Node("Path", <<"super", "x">>, <<>>)>>),
     Node("Use", <<"pub">>, <<Name("x"), Binds("y")>>), Node("Mod", <<"x">>, <<>>),
     Node("InlineMod", <<"x">>, <<>>)}
Around(item) ==
    {Node("InlineMod", <<"pub", "x">>, <<item, Node("Mod", <<"y">>, <<>>), item>>)}
    \cup (IF item.kind = "Fn" /\ Len(item.words) = 1
          THEN {Node("Impl", <<>>, <<PathType(<<"A">>, <<I32>>), item, item>>)} ELSE {})

TypeFiles ==
    UNION {{File(<<Fn(<<>>, <<Param(Binds("x"), t), Param(Binds("y"), I32)>>, t, Value(Missing))>>),
            File(<<Node("StructItem", <<"A">>, <<Member("x", t)>>),
                   Node("Enum", <<"B">>, <<Node("Variant", <<"A">>, <<t>>)>>)>>),
            File(<<Node("Impl", <<>>, <<t>>), Node("static", <<"x">>, <<t, X>>)>>),
            Body(<<>>, Node("Cast", <<>>, <<X, t>>))} : t \in Types2}
PatternFiles ==
    {Body(<<>>, Node("Match", <<>>, <<X, Arm(p, X)>>)) : p \in Patterns2}
    \cup {Body(<<Decl(p, Missing, X)>>, Missing) :
              p \in {q \in Patterns2 : q.kind = "Tuple" /\ q.words = <<>>}}
ExprFiles == {Body(<<Decl(Binds("x"), Missing, e)>>, Missing) : e \in Exprs2}
StmtFiles == {Body(<<s, t>>, X) : s \in Stmts, t \in Stmts}
             \cup {Body(<<Do(e)>>, e) : e \in Exprs1}
ItemFiles == {File(<<a, b>>) : a \in Items, b \in Items}
             \cup {File(<<a, b>>) : a \in UNION {Around(i) : i \in Items}, b \in Items}

=============================================================================
