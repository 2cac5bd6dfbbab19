------------------------------- MODULE Trees -------------------------------
(***************************************************************************)
(* The trees that body checking walks (ast.h), as records with a kind. A   *)
(* missing expression or block is Nothing, a missing path <<>>.            *)
(***************************************************************************)
EXTENDS StorageTypes

CONSTANTS
    Patterns,           \* the patterns of the programs, closed under parts
    Exprs(_)            \* the expressions of a program, closed under parts

\* A written type is the entry it resolves to, or a tuple of entries, which
\* resolve_type interns anew.
Entry(i) == [tuple |-> FALSE, of |-> <<i>>]
WrittenTuple(list) == [tuple |-> TRUE, of |-> list]
NoType == [tuple |-> FALSE, of |-> <<>>]

Nothing == [kind |-> "Nothing"]

-----------------------------------------------------------------------------
(***************************************************************************)
(* The nodes of each kind.                                                 *)
(***************************************************************************)
TypeNode == [tuple : BOOLEAN, of : Seq(Nat)]
LiteralNode ==
    [kind : {"Integer", "Float", "String", "Char", "Bool"}, value : STRING, suffix : STRING]
PathNode == Seq(STRING)
Maybe(nodes) == nodes \cup {Nothing}

\* What a reference points to is the one part of its pattern; an or-pattern
\* has an alternative.
PatternNode ==
    [kind : {"Wildcard"}]
        \cup [kind : {"Ident", "MutIdent"}, name : STRING]
        \cup [kind : {"Literal"}, lit : LiteralNode]
        \cup [kind : {"Tuple"}, path : PathNode, parts : Seq(Patterns)]
        \cup [kind : {"Struct"}, path : PathNode, names : Seq(STRING), parts : Seq(Patterns)]
        \cup [kind : {"Ref"}, is_mut : BOOLEAN, parts : Seq(Patterns) \ {<<>>}]
        \cup [kind : {"Or"}, parts : Seq(Patterns) \ {<<>>}]

\* Over a set of expressions.
StmtNode(exprs) ==
    [kind : {"Decl"}, pattern : Patterns, type : TypeNode, init : exprs]
        \cup [kind : {"Reassign"}, place : exprs, compound : BOOLEAN, value : exprs]
        \cup [kind : {"Expr"}, value : exprs]
BlockNode(exprs) == [stmts : Seq(StmtNode(exprs)), value : Maybe(exprs)]
CondNode(exprs) == [is_pattern : BOOLEAN, pattern : Patterns, value : exprs]
ArmNode(exprs) == [pattern : Patterns, body : exprs]

ExprNode(exprs) ==
    [kind : {"Literal"}, lit : LiteralNode]
        \cup [kind : {"Path"}, path : PathNode]
        \cup [kind : {"Struct"}, path : PathNode, names : Seq(STRING), values : Seq(exprs),
              base : Maybe(exprs)]
        \cup [kind : {"Tuple"}, parts : Seq(exprs)]
        \cup [kind : {"Unary"}, op : STRING, inner : exprs]
        \cup [kind : {"Borrow"}, is_mut : BOOLEAN, inner : exprs]
        \cup [kind : {"Binary"}, op : STRING, lhs : exprs, rhs : exprs]
        \cup [kind : {"Cast"}, inner : exprs, to : TypeNode]
        \cup [kind : {"Call"}, callee : exprs, args : Seq(exprs)]
        \cup [kind : {"MethodCall"}, inner : exprs, name : STRING, args : Seq(exprs)]
        \cup [kind : {"Field"}, inner : exprs, name : STRING]
        \cup [kind : {"Index"}, inner : exprs, index : exprs]
        \cup [kind : {"Question"}, inner : exprs]
        \cup [kind : {"If"}, cond : CondNode(exprs), then : BlockNode(exprs),
              else : Maybe(BlockNode(exprs))]
        \cup [kind : {"Match"}, inner : exprs, arms : Seq(ArmNode(exprs))]
        \cup [kind : {"Loop"}, body : BlockNode(exprs)]
        \cup [kind : {"While"}, cond : CondNode(exprs), body : BlockNode(exprs)]
        \cup [kind : {"Block"}, block : BlockNode(exprs)]
        \cup [kind : {"Return"}, value : Maybe(exprs)]
        \cup [kind : {"Break", "Continue", "Range"}]

ParamNode == [pattern : Patterns, type : TypeNode]
\* A method of an impl block is a function, its types already without Self.
ItemNode(exprs) ==
    [kind : {"Fn"}, is_main : BOOLEAN, params : Seq(ParamNode), ret : TypeNode,
     body : Maybe(BlockNode(exprs))]
        \cup [kind : {"Static", "Const"}, type : TypeNode, init : exprs]

IsProgram(program) ==
    /\ program \in Seq(ItemNode(Exprs(program)))
    /\ Exprs(program) \subseteq ExprNode(Exprs(program))

ASSUME PatternsAssumption == Patterns \subseteq PatternNode

-----------------------------------------------------------------------------
Lit(kind, value, suffix) == [kind |-> "Literal", lit |-> [kind |-> kind, value |-> value, suffix |-> suffix]]
One == Lit("Integer", "1", "")
True == Lit("Bool", "true", "")
False == Lit("Bool", "false", "")
Text == Lit("String", "", "")
Name(name) == [kind |-> "Path", path |-> <<name>>]
Member(head, name) == [kind |-> "Path", path |-> <<head, name>>]
Unary(op, e) == [kind |-> "Unary", op |-> op, inner |-> e]
Borrow(is_mut, e) == [kind |-> "Borrow", is_mut |-> is_mut, inner |-> e]
Cast(e, to) == [kind |-> "Cast", inner |-> e, to |-> to]
Binary(op, x, y) == [kind |-> "Binary", op |-> op, lhs |-> x, rhs |-> y]
Call(callee, args) == [kind |-> "Call", callee |-> callee, args |-> args]
MethodCall(e, name, args) == [kind |-> "MethodCall", inner |-> e, name |-> name, args |-> args]
Field(e, name) == [kind |-> "Field", inner |-> e, name |-> name]
Index(e, x) == [kind |-> "Index", inner |-> e, index |-> x]
Question(e) == [kind |-> "Question", inner |-> e]
Tuple(parts) == [kind |-> "Tuple", parts |-> parts]
Struct(name, names, values, base) ==
    [kind |-> "Struct", path |-> <<name>>, names |-> names, values |-> values, base |-> base]
BlockOf(stmts, value) == [stmts |-> stmts, value |-> value]
BlockExpr(block) == [kind |-> "Block", block |-> block]
Cond(e) == [is_pattern |-> FALSE, pattern |-> [kind |-> "Wildcard"], value |-> e]
CondLet(q, e) == [is_pattern |-> TRUE, pattern |-> q, value |-> e]
If(cond, then, else) == [kind |-> "If", cond |-> cond, then |-> then, else |-> else]
Match(e, arms) == [kind |-> "Match", inner |-> e, arms |-> arms]
Arm(q, e) == [pattern |-> q, body |-> e]
Loop(block) == [kind |-> "Loop", body |-> block]
While(cond, block) == [kind |-> "While", cond |-> cond, body |-> block]
Return(e) == [kind |-> "Return", value |-> e]
Break == [kind |-> "Break"]
Continue == [kind |-> "Continue"]
RangeExpr == [kind |-> "Range"]

Let(q, ty, e) == [kind |-> "Decl", pattern |-> q, type |-> ty, init |-> e]
Set(place, compound, e) == [kind |-> "Reassign", place |-> place, compound |-> compound, value |-> e]
ExprStmt(e) == [kind |-> "Expr", value |-> e]

Wild == [kind |-> "Wildcard"]
Id(name) == [kind |-> "Ident", name |-> name]
Mut(name) == [kind |-> "MutIdent", name |-> name]
Is(e) == [kind |-> "Literal", lit |-> e.lit]
Of(path, parts) == [kind |-> "Tuple", path |-> path, parts |-> parts]
FieldsOf(name, names, parts) == [kind |-> "Struct", path |-> <<name>>, names |-> names, parts |-> parts]
RefTo(is_mut, q) == [kind |-> "Ref", is_mut |-> is_mut, parts |-> <<q>>]
Or(parts) == [kind |-> "Or", parts |-> parts]

Param(name, type) == [pattern |-> Id(name), type |-> Entry(type)]
Fn(params, ret, body) ==
    [kind |-> "Fn", is_main |-> FALSE, params |-> params, ret |-> ret, body |-> body]
Main(params, ret, body) == [Fn(params, ret, body) EXCEPT !.is_main = TRUE]
Global(kind, type, e) == [kind |-> kind, type |-> type, init |-> e]

=============================================================================
