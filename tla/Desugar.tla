------------------------------ MODULE Desugar -------------------------------
(***************************************************************************)
(* parser/desugar.cc: alpha-renaming of shadowed bindings, a walk over the *)
(* tree of a file with a stack of scopes.  The C++ call stack is todo, the *)
(* nodes and scope ends still ahead, first first.                          *)
(*                                                                         *)
(* A node is [kind |-> ..., ...].  Kinds that only visit their children in *)
(* the order written share one: "Each", with the children in `parts`.  It  *)
(* stands for Reassign and Expr statements, for every expression but Path, *)
(* If, While, Match, Loop and Block, for Tuple, Struct and Ref patterns    *)
(* and for Impl and Mod items; with no parts, for what is not visited at   *)
(* all.  An absent else block or block value is <<>>, a present one <<n>>. *)
(***************************************************************************)
EXTENDS Integers, Sequences, FiniteSets

CONSTANTS
    Name,          \* identifiers of the program
    KeywordName,   \* is_keyword_name: self, super, package, Self
    Programs       \* sets of trees to walk

ASSUME NamesAssumption == Name \cap KeywordName = {}

VARIABLES
    program,    \* the tree; constant once chosen
    todo,       \* what is left of the walk
    scopes,     \* Desugar::scopes, innermost last
    counter,    \* Desugar::counter
    spelled,    \* each occurrence of a name visited, in order, as rewritten
    diags       \* diagnostics emitted, by code

vars == <<program, todo, scopes, counter, spelled, diags>>

\* A spelling: a name as written, or with a `$n` that no source can spell.
NoSuffix == -1
Spelling == [name : Name \cup KeywordName, suffix : Nat \cup {NoSuffix}]
AsWritten(x) == [name |-> x, suffix |-> NoSuffix]

Binding == [orig : Name, fresh : Spelling, preseeded : BOOLEAN, seen : BOOLEAN]

Occurrence == [name : Name \cup KeywordName, binds : BOOLEAN, fresh : Spelling]

Init ==
    /\ \E S \in Programs : program \in S
    /\ todo = <<program>>
    /\ scopes = << <<>> >>
    /\ counter = 0
    /\ spelled = <<>>
    /\ diags = {}

-----------------------------------------------------------------------------
Node == Head(todo)
At(kind) == todo # <<>> /\ Node.kind = kind

current == scopes[Len(scopes)]
Enclosing == SubSeq(scopes, 1, Len(scopes) - 1)
WithCurrent(scope) == Append(Enclosing, scope)

Leave == [kind |-> "Leave"]
Scope(parts) == [kind |-> "Scope", parts |-> parts]

\* visit_cond and what runs in its scope: the initializer is outside.
CondThen(cond, body) ==
    IF cond.is_pattern
    THEN <<cond.init, Scope(<<cond.pattern, body>>)>>
    ELSE <<cond.value, body>>

\* What visit_item, visit_block, visit_stmt, visit_pattern and visit_expr
\* visit below a node, in order; "Const" is Static too, "Block" is Loop too.
Parts(n) ==
    CASE n.kind = "Each"  -> n.parts
      [] n.kind = "Fn"    -> <<Scope(Append(n.params, n.body))>>
      [] n.kind = "Const" -> <<Scope(<<n.init>>)>>
      [] n.kind = "Block" -> <<Scope(n.statements \o n.value)>>
      [] n.kind = "Decl"  -> <<n.init, n.pattern>>
      [] n.kind = "If"    -> CondThen(n.cond, n.then) \o n.else
      [] n.kind = "While" -> CondThen(n.cond, n.body)
      [] n.kind = "Match" -> <<n.scrutinee>> \o n.arms
      [] n.kind = "Arm"   -> <<Scope(<<n.pattern, n.body>>)>>

Composite == {"Each", "Fn", "Const", "Block", "Decl", "If", "While", "Match", "Arm"}

Visit ==
    /\ todo # <<>> /\ Node.kind \in Composite
    /\ todo' = Parts(Node) \o Tail(todo)
    /\ UNCHANGED <<program, scopes, counter, spelled, diags>>

PushScope ==
    /\ At("Scope")
    /\ scopes' = Append(scopes, <<>>)
    /\ todo' = Node.parts \o <<Leave>> \o Tail(todo)
    /\ UNCHANGED <<program, counter, spelled, diags>>

PopScope ==
    /\ At("Leave")
    /\ scopes' = Enclosing
    /\ todo' = Tail(todo)
    /\ UNCHANGED <<program, counter, spelled, diags>>

-----------------------------------------------------------------------------
(***************************************************************************)
(* Names.                                                                  *)
(***************************************************************************)
\* Indexes of the bindings of x in one scope; there may be two, see OrMerge.
Positions(scope, x) == {i \in 1 .. Len(scope) : scope[i].orig = x}
First(S) == CHOOSE i \in S : \A j \in S : i <= j

Bound(S, x) == \E i \in 1 .. Len(S) : Positions(S[i], x) # {}

\* The innermost scope that has x, its first binding of x.
lookup(x) ==
    IF x \in KeywordName \/ ~Bound(scopes, x)
    THEN AsWritten(x)
    ELSE LET i == CHOOSE j \in 1 .. Len(scopes) :
                      /\ Positions(scopes[j], x) # {}
                      /\ \A k \in j + 1 .. Len(scopes) : Positions(scopes[k], x) = {}
         IN  scopes[i][First(Positions(scopes[i], x))].fresh

Spell(x, binds, fresh) ==
    spelled' = Append(spelled, [name |-> x, binds |-> binds, fresh |-> fresh])

UsePath ==
    /\ At("Path")
    /\ Spell(Node.name, FALSE, lookup(Node.name))
    /\ todo' = Tail(todo)
    /\ UNCHANGED <<program, scopes, counter, diags>>

DeclareKeyword ==
    /\ At("Ident") /\ Node.name \in KeywordName
    /\ Spell(Node.name, TRUE, AsWritten(Node.name))
    /\ todo' = Tail(todo)
    /\ UNCHANGED <<program, scopes, counter, diags>>

\* A name the innermost scope has: an error, unless it comes from a sibling
\* alternative of an or-pattern.
DeclareAgain ==
    /\ At("Ident") /\ Node.name \notin KeywordName
    /\ Positions(current, Node.name) # {}
    /\ LET x == Node.name
           i == First(Positions(current, x))
       IN  \/ /\ current[i].preseeded
              /\ scopes' = WithCurrent([current EXCEPT ![i].seen = TRUE])
              /\ Spell(x, TRUE, current[i].fresh)
              /\ UNCHANGED diags
           \/ /\ ~current[i].preseeded
              /\ diags' = diags \cup {"AlreadyBound"}
              /\ Spell(x, TRUE, AsWritten(x))
              /\ UNCHANGED scopes
    /\ todo' = Tail(todo)
    /\ UNCHANGED <<program, counter>>

NewBinding(x, fresh) == [orig |-> x, fresh |-> fresh, preseeded |-> FALSE, seen |-> FALSE]

\* Mutant: only the scope around the innermost one counts as shadowed.
shadowed_by_parent(x) == Len(scopes) > 1 /\ Positions(scopes[Len(scopes) - 1], x) # {}

shadowed(x) == Bound(Enclosing, x)

Declare ==
    /\ At("Ident") /\ Node.name \notin KeywordName
    /\ Positions(current, Node.name) = {}
    /\ LET x     == Node.name
           fresh == IF shadowed(x) THEN [name |-> x, suffix |-> counter] ELSE AsWritten(x)
       IN  /\ scopes' = WithCurrent(Append(current, NewBinding(x, fresh)))
           /\ Spell(x, TRUE, fresh)
           /\ \/ shadowed(x) /\ counter' = counter + 1
              \/ ~shadowed(x) /\ UNCHANGED counter
    /\ todo' = Tail(todo)
    /\ UNCHANGED <<program, diags>>

-----------------------------------------------------------------------------
(***************************************************************************)
(* visit_or.  "Or" has the alternatives; the two kinds below are the walk  *)
(* inside it, after the first alternative and after a later one.           *)
(***************************************************************************)
OrRest(first, alternatives) ==
    [kind |-> "OrRest", first |-> first, alternatives |-> alternatives]
OrCheck(first, alternatives) ==
    [kind |-> "OrCheck", first |-> first, alternatives |-> alternatives]
OrFirst(alternatives) == [kind |-> "OrFirst", alternatives |-> alternatives]

VisitOr ==
    /\ At("Or")
    /\ scopes' = Append(scopes, <<>>)
    /\ todo' = <<Node.alternatives[1], OrFirst(Tail(Node.alternatives))>> \o Tail(todo)
    /\ UNCHANGED <<program, counter, spelled, diags>>

FirstAlternative ==
    /\ At("OrFirst")
    /\ scopes' = Enclosing
    /\ todo' = <<OrRest(current, Node.alternatives)>> \o Tail(todo)
    /\ UNCHANGED <<program, counter, spelled, diags>>

\* Mutant: the marks of one alternative are left for the next.
PreseedMarked(first) ==
    [i \in 1 .. Len(first) |-> [first[i] EXCEPT !.preseeded = TRUE, !.seen = TRUE]]

Preseed(first) ==
    [i \in 1 .. Len(first) |-> [first[i] EXCEPT !.preseeded = TRUE, !.seen = FALSE]]

NextAlternative ==
    /\ At("OrRest") /\ Node.alternatives # <<>>
    /\ scopes' = Append(scopes, Preseed(Node.first))
    /\ todo' = <<Head(Node.alternatives), OrCheck(Node.first, Tail(Node.alternatives))>>
               \o Tail(todo)
    /\ UNCHANGED <<program, counter, spelled, diags>>

Mismatch(first) ==
    \/ Len(current) # Len(first)
    \/ \E i \in 1 .. Len(current) : current[i].preseeded /\ ~current[i].seen

CheckAlternative ==
    /\ At("OrCheck")
    /\ diags' = diags \cup (IF Mismatch(Node.first) THEN {"OrPatternMismatch"} ELSE {})
    /\ scopes' = Enclosing
    /\ todo' = <<OrRest(Node.first, Node.alternatives)>> \o Tail(todo)
    /\ UNCHANGED <<program, counter, spelled>>

\* The mapping merges into the scope around the or-pattern.  A preseeded
\* binding there is no clash: the scope may get the name twice.
Clash(b) == \E i \in Positions(current, b.orig) : ~current[i].preseeded

Merged(first) == current \o SelectSeq(first, LAMBDA b : ~Clash(b))

OrMerge ==
    /\ At("OrRest") /\ Node.alternatives = <<>>
    /\ scopes' = WithCurrent(Merged(Node.first))
    /\ diags' = diags \cup
          (IF \E i \in 1 .. Len(Node.first) : Clash(Node.first[i]) THEN {"AlreadyBound"} ELSE {})
    /\ todo' = Tail(todo)
    /\ UNCHANGED <<program, counter, spelled>>

-----------------------------------------------------------------------------
Done == todo = <<>>

Terminated == Done /\ UNCHANGED vars

Next ==
    \/ Visit \/ PushScope \/ PopScope
    \/ UsePath \/ DeclareKeyword \/ DeclareAgain \/ Declare
    \/ VisitOr \/ FirstAlternative \/ NextAlternative \/ CheckAlternative \/ OrMerge
    \/ Terminated

\* One thread walks the tree to its end.
Spec == Init /\ [][Next]_vars /\ WF_vars(Next)

=============================================================================
