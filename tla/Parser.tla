------------------------------- MODULE Parser -------------------------------
(***************************************************************************)
(* The recursive descent of parser/parser.cc over the tokens of a file     *)
(* that Lexer has read.                                                    *)
(*                                                                         *)
(* A cursor s is the parser's own state: at (pos_), lit                    *)
(* (allow_struct_lit_), gt (banked_gt_), bag (its diagnostics), and ok, that *)
(* no function since the last recovery has returned null. Every function   *)
(* takes a cursor and yields the cursor it leaves and a tree; a cursor     *)
(* that is not ok goes through all of them unchanged, as null does.        *)
(*                                                                         *)
(* A tree is a kind, the words it keeps of the text, and its parts. Spans  *)
(* are left out.                                                           *)
(***************************************************************************)
EXTENDS Lexer, SequencesExt

CONSTANT Capitals    \* the units with a capital first letter

Node(kind, words, parts) == [kind |-> kind, words |-> words, parts |-> parts]
Leaf(kind) == Node(kind, <<>>, <<>>)
Missing == Leaf("Missing")
Made(s, tree) == [s |-> s, tree |-> tree]

-----------------------------------------------------------------------------
\* The token cursor. It never rests on a token that is skipped.
IsSkipped(kind) == kind \in {"Error", "DocComment"} \cup Reserved

\* Mutant: a reserved word is skipped like a comment.
SkipInsignificantQuiet(s) ==
    [s EXCEPT !.at = CHOOSE k \in s.at .. Len(out) :
                         ~IsSkipped(out[k].kind) /\ \A j \in s.at .. k - 1 : IsSkipped(out[j].kind)]

SkipInsignificant(s) ==
    LET to == CHOOSE k \in s.at .. Len(out) :
                  ~IsSkipped(out[k].kind) /\ \A j \in s.at .. k - 1 : IsSkipped(out[j].kind)
        reserved == {k \in s.at .. to - 1 : out[k].kind \in Reserved}
    IN  [s EXCEPT !.at = to, !.bag = @ \cup {[code |-> "ReservedWord", at |-> k] : k \in reserved}]

Advance(s) == SkipInsignificant([s EXCEPT !.at = @ + 1])
StartOfFile == SkipInsignificant([at |-> 1, lit |-> TRUE, gt |-> 0, ok |-> TRUE, bag |-> {}])

Peek(s) == out[s.at].kind
Sees(s, kinds) == s.ok /\ Peek(s) \in kinds
Check(s, kind) == Sees(s, {kind})
Match(s, kind) == IF Check(s, kind) THEN Advance(s) ELSE s

Diagnose(s) == [s EXCEPT !.bag = @ \cup {[code |-> "UnexpectedToken", at |-> s.at]}]
Fail(s) == [Diagnose(s) EXCEPT !.ok = FALSE]
Expect(s, kind) == IF ~s.ok THEN s ELSE IF Check(s, kind) THEN Advance(s) ELSE Fail(s)

Word(s) == FoldLeft(LAMBDA word, unit : word \o unit, "", SubSeq(text, out[s.at].start, out[s.at].end - 1))

Openers == {"(", "[", "{"}
Closers == {")", "]", "}"}

RECURSIVE PastBoundary(_, _), PastBoundaryDeep(_, _)
\* Mutant: a bracket that closes leaves the depth as it is.
PastBoundaryDeep(s, depth) ==
    IF Peek(s) = "Eof" \/ (depth = 0 /\ Peek(s) \in Closers \cup {";", ","}) THEN s
    ELSE PastBoundaryDeep(Advance(s), IF Peek(s) \in Openers THEN depth + 1 ELSE depth)

\* The boundary token at the depth where the skip began, or the end.
PastBoundary(s, depth) ==
    IF Peek(s) = "Eof" \/ (depth = 0 /\ Peek(s) \in Closers \cup {";", ","}) THEN s
    ELSE PastBoundary(Advance(s), IF Peek(s) \in Openers THEN depth + 1
                                  ELSE IF Peek(s) \in Closers THEN depth - 1 ELSE depth)

\* Mutant: a boundary that the skip starts at is left, too.
SynchronizeLazy(s) ==
    LET live == [s EXCEPT !.ok = TRUE]
        stop == PastBoundary(live, 0)
    IN  IF stop.at > s.at /\ Peek(stop) \in {";", ","} THEN Advance(stop) ELSE stop

\* A separator is consumed; a closer is left, unless the skip starts there.
Synchronize(s) ==
    LET live == [s EXCEPT !.ok = TRUE]
        stop == PastBoundary(live, 0)
    IN  IF Peek(stop) # "Eof" /\ (stop.at = s.at \/ Peek(stop) \in {";", ","}) THEN Advance(stop)
        ELSE stop

CompoundAssign == {"+=", "-=", "*=", "/=", "%=", "**=", "&=", "|=", "^=", "<<=", ">>="}

\* What `:=` or `=` the tokens from the cursor on reach before a terminator or
\* a brace, outside brackets.
ScanLead(s) ==
    LET lead[k \in Nat, depth \in Nat] ==
            LET kind == out[k].kind IN
            CASE k > Len(out)                                  -> "None"
              [] IsSkipped(kind)                               -> lead[k + 1, depth]
              [] depth = 0 /\ kind = ":="                      -> "Decl"
              [] depth = 0 /\ kind \in CompoundAssign \cup {"="} -> "Reassign"
              [] depth = 0 /\ kind \in {";", "}", "{", "Eof"}  -> "None"
              [] kind \in Openers                              -> lead[k + 1, depth + 1]
              [] kind \in Closers /\ depth > 0                 -> lead[k + 1, depth - 1]
              [] OTHER                                         -> lead[k + 1, depth]
    IN  lead[s.at, 0]

-----------------------------------------------------------------------------
ParseIdent(s) == IF Check(s, "Ident") THEN Made(Advance(s), Node("Ident", <<Word(s)>>, <<>>))
                 ELSE Made(Expect(s, "Ident"), Missing)

Segment == {"Ident", "self", "super", "package", "Self"}

RECURSIVE Segments(_, _)
\* A `::` is consumed before a segment is seen to follow.
Segments(s, words) ==
    IF ~Sees(s, Segment) THEN Made(s, Node("Path", words, <<>>))
    ELSE LET next == Advance(s) IN
         IF ~Check(next, "::") THEN Made(next, Node("Path", Append(words, Word(s)), <<>>))
         ELSE LET past == Advance(next) IN
              IF Check(past, "Eof") THEN Made(Fail(past), Missing)
              ELSE Segments(past, Append(words, Word(s)))

ParsePath(s) == IF Sees(s, Segment) THEN Segments(s, <<>>) ELSE Made(Expect(s, "Ident"), Missing)

-----------------------------------------------------------------------------
\* The parse_ function of a rule. Rules that come back to themselves call each
\* other through it.
RECURSIVE Parse(_, _)

RECURSIVE Elements(_, _, _)
\* The loops over elements: commas between them, one may trail.
Elements(s, closers, what) ==
    IF ~s.ok \/ Sees(s, closers \cup {"Eof"}) THEN [s |-> s, parts |-> <<>>]
    ELSE LET first == Parse(what, s)
             rest  == Elements(Advance(first.s), closers, what)
         IN  IF Check(first.s, ",") THEN [s |-> rest.s, parts |-> <<first.tree>> \o rest.parts]
             ELSE [s |-> first.s, parts |-> <<first.tree>>]

\* Past an opening parenthesis: one element in parentheses, or a tuple.
Group(s, what) ==
    LET first == Parse(what, s)
        rest  == Elements(Advance(first.s), {")"}, what)
    IN  IF Check(first.s, ",")
        THEN Made(Expect(rest.s, ")"), Node("Tuple", <<>>, <<first.tree>> \o rest.parts))
        ELSE Made(Expect(first.s, ")"), first.tree)

\* parse_closed_type: there is no type when a half of a `>>` is left over, and
\* no diagnostic either when a `>` follows.
ParseClosedType(s) ==
    LET type == Parse("Type", s)
        past == Expect([type.s EXCEPT !.gt = 0], ">")
    IN  IF type.s.ok /\ type.s.gt > 0 THEN Made([past EXCEPT !.ok = FALSE], Missing) ELSE type

ParseParam(s) ==
    LET pattern == Parse("Pattern", s)
        type    == ParseClosedType(Expect(pattern.s, ":"))
    IN  Made(type.s, Node("Param", <<>>, <<pattern.tree, type.tree>>))

ParseField(s) ==
    LET name == ParseIdent(s)
        type == ParseClosedType(Expect(name.s, ":"))
    IN  Made(type.s, Node("Member", name.tree.words, <<type.tree>>))

ParseVariant(s) ==
    LET name   == ParseIdent(s)
        fields == Elements(Advance(name.s), {")"}, "Type")
    IN  IF Check(name.s, "(")
        THEN Made(Expect(fields.s, ")"), Node("Variant", name.tree.words, fields.parts))
        ELSE Made(name.s, Node("Variant", name.tree.words, <<>>))

\* `x` alone binds the field to a variable of its name.
ParseFieldPattern(s) ==
    LET name == ParseIdent(s)
        sub  == Parse("Pattern", Advance(name.s))
    IN  IF Check(name.s, ":") THEN Made(sub.s, Node("Member", name.tree.words, <<sub.tree>>))
        ELSE Made(name.s, Node("Member", name.tree.words, <<name.tree>>))

ParseFieldInit(s) ==
    LET name  == ParseIdent(s)
        value == Parse("Expr", Expect(name.s, ":"))
    IN  Made(value.s, Node("Member", name.tree.words, <<value.tree>>))

-----------------------------------------------------------------------------
ConsumeGt(s) ==
    IF s.ok /\ s.gt > 0 THEN [s EXCEPT !.gt = @ - 1]
    ELSE IF Check(s, ">>") THEN [Advance(s) EXCEPT !.gt = 1]
    ELSE Expect(s, ">")

ParsePathType(s) ==
    LET path == Parse("Path", s)
        args == Elements(Advance(path.s), {">", ">>"}, "Type")
    IN  IF Check(path.s, "<") THEN Made(ConsumeGt(args.s), Node("PathType", path.tree.words, args.parts))
        ELSE Made(path.s, Node("PathType", path.tree.words, <<>>))

ParseRefType(s) ==
    LET inner == Parse("Type", Match(s, "mut"))
    IN  Made(inner.s, Node("Ref", IF Check(s, "mut") THEN <<"mut">> ELSE <<>>, <<inner.tree>>))

ParseType(s) ==
    IF ~s.ok THEN Made(s, Missing)
    ELSE LET next == Advance(s) IN
         CASE Peek(s) = "("              -> IF Check(next, ")") THEN Made(Advance(next), Leaf("Unit"))
                                            ELSE Group(next, "Type")
           [] Peek(s) = "!"              -> Made(next, Leaf("Never"))
           [] Peek(s) = "&"              -> ParseRefType(next)
           [] Peek(s) \in PrimitiveTypes -> Made(next, Node("Primitive", <<Peek(s)>>, <<>>))
           [] OTHER                      -> ParsePathType(s)

-----------------------------------------------------------------------------
LiteralTokens == Literals \cup {"true", "false"}
Literal(s) == Node("Literal", <<Word(s)>>, <<>>)

RECURSIVE Alternatives(_)
Alternatives(s) ==
    LET first == Parse("PrimaryPattern", s)
        rest  == Alternatives(Advance(first.s))
    IN  IF Check(first.s, "|") THEN [s |-> rest.s, parts |-> <<first.tree>> \o rest.parts]
        ELSE [s |-> first.s, parts |-> <<first.tree>>]

ParsePattern(s) ==
    LET list == Alternatives(s) IN
    Made(list.s, IF Len(list.parts) = 1 THEN list.parts[1] ELSE Node("Or", <<>>, list.parts))

\* One name that begins with a small letter binds; any other path names a variant.
ParsePathPattern(s) ==
    LET path   == Parse("Path", s)
        words  == path.tree.words
        next   == Advance(path.s)
        parts  == Elements(next, {")"}, "Pattern")
        fields == Elements(next, {"}"}, "FieldPattern")
    IN  IF Len(words) = 1 /\ text[out[s.at].start] \notin Capitals \cup {"Self"}
        THEN Made(path.s, Node("Ident", words, <<>>))
        ELSE IF Check(path.s, "(") THEN Made(Expect(parts.s, ")"), Node("Tuple", words, parts.parts))
        ELSE IF Check(path.s, "{") THEN Made(Expect(fields.s, "}"), Node("Struct", words, fields.parts))
        ELSE Made(path.s, Node("Tuple", words, <<>>))

ParsePrimaryPattern(s) ==
    IF ~s.ok THEN Made(s, Missing)
    ELSE LET next  == Advance(s)
             name  == ParseIdent(next)
             inner == Parse("PrimaryPattern", Match(next, "mut"))
         IN  CASE Peek(s) = "_"   -> Made(next, Leaf("Wildcard"))
               [] Peek(s) = "mut" -> Made(name.s, Node("MutIdent", name.tree.words, <<>>))
               [] Peek(s) \in LiteralTokens -> Made(next, Literal(s))
               [] Peek(s) = "-"   ->
                      IF Sees(next, {"Integer", "Float"})
                      THEN Made(Advance(next), Literal(next))
                      ELSE Made(Expect(next, "Integer"), Missing)
               [] Peek(s) = "&"   ->
                      Made(inner.s, Node("Ref", IF Check(next, "mut") THEN <<"mut">> ELSE <<>>, <<inner.tree>>))
               [] Peek(s) = "("   -> Group(next, "Pattern")
               [] OTHER           -> ParsePathPattern(s)

-----------------------------------------------------------------------------
\* The operators of the binary levels, loosest first. The comparisons, on the
\* third, do not chain.
Levels == << {"||"}, {"&&"}, {"==", "!=", ">", "<", ">=", "<="}, {"|"}, {"^"}, {"&"},
             {"<<", ">>"}, {"+", "-"}, {"*", "/", "%"} >>
Comparisons == 3

ParseArgs(s) ==
    LET args == Elements(s, {")"}, "Expr") IN [s |-> Expect(args.s, ")"), parts |-> args.parts]

RECURSIVE Postfix(_)
Postfix(base) ==
    LET next == Advance(base.s)
        call == ParseArgs(next)
        name == ParseIdent(next)
        args == ParseArgs(Advance(name.s))
        index == Parse("Expr", next)
    IN  CASE Check(base.s, "(") -> Postfix(Made(call.s, Node("Call", <<>>, <<base.tree>> \o call.parts)))
          [] Check(base.s, ".") /\ Check(next, "Integer") ->
                 Postfix(Made(Advance(next), Node("Field", <<Word(next)>>, <<base.tree>>)))
          [] Check(base.s, ".") /\ ~Check(next, "Integer") /\ Check(name.s, "(") ->
                 Postfix(Made(args.s, Node("MethodCall", name.tree.words, <<base.tree>> \o args.parts)))
          [] Check(base.s, ".") /\ ~Check(next, "Integer") /\ ~Check(name.s, "(") ->
                 Postfix(Made(name.s, Node("Field", name.tree.words, <<base.tree>>)))
          [] Check(base.s, "[") ->
                 Postfix(Made(Expect(index.s, "]"), Node("Index", <<>>, <<base.tree, index.tree>>)))
          [] Check(base.s, "?") -> Postfix(Made(next, Node("Question", <<>>, <<base.tree>>)))
          [] OTHER -> base

\* A path, and where a condition's body cannot follow, a struct expression. The
\* call that parse_primary reads after a path is the one Postfix reads.
ParsePathExpr(s) ==
    LET path   == Parse("Path", s)
        fields == Elements(Advance(path.s), {"}", ".."}, "FieldInit")
        base   == Parse("Expr", Advance(fields.s))
        based  == Check(fields.s, "..")
    IN  IF ~(path.s.lit /\ Check(path.s, "{")) THEN path
        ELSE Made(Expect(IF based THEN base.s ELSE fields.s, "}"),
                  Node("Struct", path.tree.words,
                       fields.parts \o (IF based THEN <<Node("Base", <<>>, <<base.tree>>)>> ELSE <<>>)))

\* An expression that a body follows: a struct literal is not read there.
ParseHead(s) ==
    LET value == Parse("Expr", [s EXCEPT !.lit = FALSE])
    IN  Made([value.s EXCEPT !.lit = s.lit], value.tree)

ParseCond(s) ==
    LET pattern == Parse("Pattern", s)
        init    == Parse("Expr", Expect(pattern.s, ":="))
    IN  IF ~s.ok \/ ScanLead(s) # "Decl" THEN ParseHead(s)
        ELSE Made(init.s, Node("Let", <<>>, <<pattern.tree, init.tree>>))

ParseIf(s) ==
    LET cond == ParseCond(Expect(s, "if"))
        then == Parse("Block", cond.s)
        else == Parse("Block", Advance(then.s))
    IN  IF Check(then.s, "else") THEN Made(else.s, Node("If", <<>>, <<cond.tree, then.tree, else.tree>>))
        ELSE Made(then.s, Node("If", <<>>, <<cond.tree, then.tree>>))

ParseWhile(s) ==
    LET cond == ParseCond(Expect(s, "while"))
        body == Parse("Block", cond.s)
    IN  Made(body.s, Node("While", <<>>, <<cond.tree, body.tree>>))

ParseLoop(s) ==
    LET body == Parse("Block", Expect(s, "loop")) IN Made(body.s, Node("Loop", <<>>, <<body.tree>>))

RECURSIVE Arms(_, _)
\* Separators between arms are skipped wherever they stand, and need not.
Arms(s, arms) ==
    LET pattern == Parse("Pattern", s)
        body    == Parse("Expr", Expect(pattern.s, "=>"))
    IN  IF ~s.ok \/ Sees(s, {"}", "Eof"}) THEN [s |-> s, parts |-> arms]
        ELSE IF Sees(s, {",", ";"}) THEN Arms(Advance(s), arms)
        ELSE IF ~body.s.ok THEN Arms(Synchronize(body.s), arms)
        ELSE Arms(body.s, Append(arms, Node("Arm", <<>>, <<pattern.tree, body.tree>>)))

ParseMatch(s) ==
    LET scrutinee == ParseHead(Expect(s, "match"))
        arms      == Arms(Expect(scrutinee.s, "{"), <<>>)
    IN  Made(Expect(arms.s, "}"), Node("Match", <<>>, <<scrutinee.tree>> \o arms.parts))

ParseReturn(s) ==
    LET value == Parse("Expr", s) IN
    IF Sees(s, {";", "}", "Eof"}) THEN Made(s, Leaf("Return"))
    ELSE Made(value.s, Node("Return", <<>>, <<value.tree>>))

ParsePrimary(s) ==
    IF ~s.ok THEN Made(s, Missing)
    ELSE LET next == Advance(s) IN
         CASE Peek(s) \in LiteralTokens -> Made(next, Literal(s))
           [] Peek(s) = "("        -> Group(next, "Expr")
           [] Peek(s) = "{"        -> Parse("Block", s)
           [] Peek(s) = "if"       -> ParseIf(s)
           [] Peek(s) = "match"    -> ParseMatch(s)
           [] Peek(s) = "loop"     -> ParseLoop(s)
           [] Peek(s) = "while"    -> ParseWhile(s)
           [] Peek(s) = "ret"      -> ParseReturn(next)
           [] Peek(s) = "break"    -> Made(next, Leaf("Break"))
           [] Peek(s) = "continue" -> Made(next, Leaf("Continue"))
           [] OTHER                -> ParsePathExpr(s)

RECURSIVE ParsePow(_), Chain(_, _), ParseBinary(_, _)
ParseUnary(s) ==
    LET borrows == Check(s, "&")
        is_mut  == borrows /\ Check(Advance(s), "mut")
        inner   == Parse("Unary", Match(Advance(s), IF borrows THEN "mut" ELSE "None"))
    IN  CASE ~s.ok                      -> Made(s, Missing)
          [] borrows                    ->
                 Made(inner.s, Node("Borrow", IF is_mut THEN <<"mut">> ELSE <<>>, <<inner.tree>>))
          [] Sees(s, {"-", "!", "~"})   -> Made(inner.s, Node("Unary", <<Peek(s)>>, <<inner.tree>>))
          [] OTHER                      -> Postfix(ParsePrimary(s))

ParseCast(s) ==
    LET inner == Parse("Unary", s)
        type  == ParseClosedType(Advance(inner.s))
    IN  IF Check(inner.s, "as") THEN Made(type.s, Node("Cast", <<>>, <<inner.tree, type.tree>>)) ELSE inner

ParsePow(s) ==
    LET lhs == ParseCast(s)
        rhs == ParsePow(Advance(lhs.s))
    IN  IF Check(lhs.s, "**") THEN Made(rhs.s, Node("Binary", <<"**">>, <<lhs.tree, rhs.tree>>)) ELSE lhs

\* Mutant: the operand on the right takes the operators of its level along.
ChainRight(lhs, level) ==
    LET rhs == ParseBinary(Advance(lhs.s), level)
    IN  IF ~Sees(lhs.s, Levels[level]) THEN lhs
        ELSE Made(rhs.s, Node("Binary", <<Peek(lhs.s)>>, <<lhs.tree, rhs.tree>>))

\* The operators of a level are read to the left.
Chain(lhs, level) ==
    LET rhs  == ParseBinary(Advance(lhs.s), level + 1)
        both == Made(rhs.s, Node("Binary", <<Peek(lhs.s)>>, <<lhs.tree, rhs.tree>>))
    IN  IF ~Sees(lhs.s, Levels[level]) THEN lhs
        ELSE IF level = Comparisons THEN both ELSE Chain(both, level)

ParseBinary(s, level) ==
    IF level > Len(Levels) THEN ParsePow(s) ELSE Chain(ParseBinary(s, level + 1), level)

Ranges == {"..", "..=", "..<"}
\* Past a range operator; only `..=` and `..<` take an endpoint.
ParseEnd(s, op, start) ==
    LET end  == ParseBinary(s, 1)
        kind == IF op = "..=" THEN <<"..=">> ELSE <<"..<">>
        open == op = ".." \/ Sees(s, {"Eof", "}", "]", ")", ",", ";"})
    IN  IF open THEN Made(s, Node("Range", kind, <<start, Missing>>))
        ELSE Made(end.s, Node("Range", kind, <<start, end.tree>>))

ParseExpr(s) ==
    LET lhs == ParseBinary(s, 1) IN
    IF ~s.ok THEN Made(s, Missing)
    ELSE IF Sees(s, Ranges) THEN ParseEnd(Advance(s), Peek(s), Missing)
    ELSE IF Sees(lhs.s, Ranges) THEN ParseEnd(Advance(lhs.s), Peek(lhs.s), lhs.tree)
    ELSE lhs

-----------------------------------------------------------------------------
ParseDecl(s) ==
    LET pattern == Parse("Pattern", s)
        type    == ParseClosedType(Advance(pattern.s))
        typed   == Check(pattern.s, ":")
        init    == Parse("Expr", Expect(IF typed THEN type.s ELSE pattern.s, ":="))
    IN  Made(init.s, Node("Decl", <<>>,
                          <<pattern.tree, IF typed THEN type.tree ELSE Missing, init.tree>>))

ParseReassign(s) ==
    LET place   == Parse("Expr", s)
        assigns == CompoundAssign \cup {"="}
        value   == Parse("Expr", IF Sees(place.s, assigns) THEN Advance(place.s) ELSE Expect(place.s, "="))
    IN  Made(value.s, Node("Reassign", <<Peek(place.s)>>, <<place.tree, value.tree>>))

ParseStmt(s) ==
    LET lead  == ScanLead(s)
        value == Parse("Expr", s)
    IN  CASE lead = "Decl"     -> ParseDecl(s)
          [] lead = "Reassign" -> ParseReassign(s)
          [] lead = "None"     -> Made(value.s, Node("Expr", <<>>, <<value.tree>>))

RECURSIVE Statements(_, _)
\* The statements of a block, and the last expression as its value.
Statements(s, stmts) ==
    LET stmt == Parse("Stmt", s)
        done == Sees(stmt.s, {"}", "Eof"})
        list == Append(stmts, stmt.tree)
    IN  IF ~s.ok \/ Sees(s, {"}", "Eof"}) THEN [s |-> s, parts |-> stmts, value |-> Missing]
        ELSE IF Check(s, ";") THEN Statements(Advance(s), stmts)
        ELSE IF ~stmt.s.ok THEN Statements(Synchronize(stmt.s), stmts)
        ELSE IF done /\ stmt.tree.kind = "Expr"
             THEN [s |-> stmt.s, parts |-> stmts, value |-> stmt.tree.parts[1]]
        ELSE IF done \/ Check(stmt.s, ";") THEN Statements(Match(stmt.s, ";"), list)
        ELSE Statements(Synchronize(Diagnose(stmt.s)), list)

ParseBlock(s) ==
    LET body == Statements(Expect(s, "{"), <<>>)
    IN  Made(Expect(body.s, "}"), Node("Block", <<>>, Append(body.parts, body.value)))

-----------------------------------------------------------------------------
Named(s, keyword) == ParseIdent(Expect(s, keyword))

ParseFn(s, vis) ==
    LET name   == Named(s, "fn")
        params == Elements(Expect(name.s, "("), {")"}, "Param")
        past   == Expect(params.s, ")")
        type   == ParseClosedType(Advance(past))
        typed  == Check(past, "->")
        body   == Parse("Block", IF typed THEN type.s ELSE past)
    IN  Made(body.s, Node("Fn", vis \o name.tree.words,
                          <<Node("Params", <<>>, params.parts),
                            IF typed THEN type.tree ELSE Missing, body.tree>>))

ParseStruct(s, vis) ==
    LET name   == Named(s, "struct")
        fields == Elements(Expect(name.s, "{"), {"}"}, "Field")
    IN  Made(Expect(fields.s, "}"), Node("StructItem", vis \o name.tree.words, fields.parts))

ParseEnum(s, vis) ==
    LET name     == Named(s, "enum")
        variants == Elements(Expect(name.s, "{"), {"}"}, "Variant")
    IN  Made(Expect(variants.s, "}"), Node("Enum", vis \o name.tree.words, variants.parts))

\* static and const: a name, a type and an expression.
ParseValue(s, vis, keyword) ==
    LET name == Named(s, keyword)
        type == ParseClosedType(Expect(name.s, ":"))
        init == Parse("Expr", Expect(type.s, "="))
    IN  Made(init.s, Node(keyword, vis \o name.tree.words, <<type.tree, init.tree>>))

ParseUse(s, vis) ==
    LET path  == Parse("Path", Expect(s, "use"))
        alias == ParseIdent(Advance(path.s))
    IN  IF Check(path.s, "as")
        THEN Made(Expect(alias.s, ";"), Node("Use", vis, <<path.tree, alias.tree>>))
        ELSE Made(Expect(path.s, ";"), Node("Use", vis, <<path.tree>>))

RECURSIVE Members(_, _, _)
\* The functions of an impl block, or the items of an inline module.
Members(s, what, members) ==
    LET member == Parse(what, s)
    IN  IF ~s.ok \/ Sees(s, {"}", "Eof"}) THEN [s |-> s, parts |-> members]
        ELSE IF Check(s, ";") THEN Members(Advance(s), what, members)
        ELSE IF ~member.s.ok THEN Members(Synchronize(member.s), what, members)
        ELSE Members(member.s, what, Append(members, member.tree))

ParseImpl(s, vis) ==
    LET type    == ParseClosedType(Expect(s, "impl"))
        methods == Members(Expect(type.s, "{"), "Method", <<>>)
    IN  Made(Expect(methods.s, "}"), Node("Impl", vis, <<type.tree>> \o methods.parts))

ParseMod(s, vis) ==
    LET name  == Named(s, "mod")
        items == Members(Expect(name.s, "{"), "Item", <<>>)
    IN  IF Check(name.s, ";") THEN Made(Advance(name.s), Node("Mod", vis \o name.tree.words, <<>>))
        ELSE Made(Expect(items.s, "}"), Node("InlineMod", vis \o name.tree.words, items.parts))

ParseItem(s) ==
    LET past == Match(s, "pub")
        vis  == IF Check(s, "pub") THEN <<"pub">> ELSE <<>>
    IN  CASE Check(past, "fn")     -> ParseFn(past, vis)
          [] Check(past, "struct") -> ParseStruct(past, vis)
          [] Check(past, "enum")   -> ParseEnum(past, vis)
          [] Check(past, "impl")   -> ParseImpl(past, vis)
          [] Check(past, "mod")    -> ParseMod(past, vis)
          [] Check(past, "static") -> ParseValue(past, vis, "static")
          [] Check(past, "const")  -> ParseValue(past, vis, "const")
          [] Check(past, "use")    -> ParseUse(past, vis)
          [] OTHER                 -> Made(Fail(past), Missing)

Parse(rule, s) ==
    CASE rule = "Path"           -> ParsePath(s)
      [] rule = "Type"           -> ParseType(s)
      [] rule = "Pattern"        -> ParsePattern(s)
      [] rule = "PrimaryPattern" -> ParsePrimaryPattern(s)
      [] rule = "Expr"           -> ParseExpr(s)
      [] rule = "Unary"          -> ParseUnary(s)
      [] rule = "Stmt"           -> ParseStmt(s)
      [] rule = "Block"          -> ParseBlock(s)
      [] rule = "Param"          -> ParseParam(s)
      [] rule = "Field"          -> ParseField(s)
      [] rule = "Variant"        -> ParseVariant(s)
      [] rule = "FieldPattern"   -> ParseFieldPattern(s)
      [] rule = "FieldInit"      -> ParseFieldInit(s)
      [] rule = "Method"         -> ParseFn(s, <<>>)
      [] rule = "Item"           -> ParseItem(s)

=============================================================================
