------------------------------ MODULE Grammar ------------------------------
(***************************************************************************)
(* How docs/spec/grammar.md writes a tree of Parser: its tokens, with the  *)
(* parentheses that its levels ask for and no others. "end" stands for the *)
(* end of a line.                                                          *)
(***************************************************************************)
EXTENDS Integers, Sequences, SequencesExt

Tight == 13
BinaryLevel(op) ==
    CASE op = "||" -> 1
      [] op = "&&" -> 2
      [] op \in {"==", "!=", ">", "<", ">=", "<="} -> 3
      [] op = "|" -> 4
      [] op = "^" -> 5
      [] op = "&" -> 6
      [] op \in {"<<", ">>"} -> 7
      [] op \in {"+", "-"} -> 8
      [] op \in {"*", "/", "%"} -> 9
      [] op = "**" -> 10

Level(tree) ==
    CASE tree.kind \in {"Range", "Return"}   -> 0
      [] tree.kind = "Binary"                -> BinaryLevel(tree.words[1])
      [] tree.kind = "Cast"                  -> 11
      [] tree.kind \in {"Unary", "Borrow"}   -> 12
      [] tree.kind = "Or"                    -> 12
      [] OTHER                               -> Tight

RECURSIVE Show(_)

\* The tree where an expression of at least this level stands.
ShowAt(tree, level) ==
    IF Level(tree) < level THEN <<"(">> \o Show(tree) \o <<")">> ELSE Show(tree)

Each(trees) == [k \in DOMAIN trees |-> Show(trees[k])]
Commas(lists) ==
    FlattenSeq([k \in DOMAIN lists |-> IF k = 1 THEN lists[k] ELSE <<",">> \o lists[k]])
Path(words) == FlattenSeq([k \in DOMAIN words |-> IF k = 1 THEN <<words[k]>> ELSE <<"::", words[k]>>])
Lines(trees) == FlattenSeq([k \in DOMAIN trees |-> Show(trees[k]) \o <<"end">>])
In(open, tokens, close) == <<open>> \o tokens \o <<close>>
Pub(tree) == IF Len(tree.words) > 0 /\ tree.words[1] = "pub" THEN <<"pub">> ELSE <<>>
NameOf(tree) == <<Last(tree.words)>>

\* An expression on a line of its own: a range operator continues the line
\* before and the line after.
ShowAlone(tree) ==
    IF tree.kind = "Range" /\ \E part \in ToSet(tree.parts) : part.kind = "Missing"
    THEN In("(", Show(tree), ")") ELSE Show(tree)

ShowBinary(tree) ==
    LET op == tree.words[1]
        at == BinaryLevel(op)
    IN  ShowAt(tree.parts[1], IF op = "**" \/ at = 3 THEN at + 1 ELSE at)
            \o <<op>> \o ShowAt(tree.parts[2], IF op = "**" THEN at ELSE at + 1)

ShowFn(tree) ==
    Pub(tree) \o <<"fn">> \o NameOf(tree)
        \o In("(", Commas(Each(tree.parts[1].parts)), ")")
        \o (IF tree.parts[2].kind = "Missing" THEN <<>> ELSE <<"->">> \o Show(tree.parts[2]))
        \o Show(tree.parts[3])

\* Statements on lines of their own, the value last. A line end is no separator
\* before the brace, so that an expression there that is no value has its `;`.
ShowBlock(tree) ==
    LET stmts == Front(tree.parts)
        value == Last(tree.parts)
        ends  == value.kind = "Missing" /\ stmts # <<>> /\ Last(stmts).kind = "Expr"
    IN  In("{", Lines(stmts) \o (IF ends THEN <<";">> ELSE ShowAlone(value)), "}")

Show(tree) ==
    LET kind  == tree.kind
        words == tree.words
        parts == tree.parts
        first == Show(parts[1])
        past  == Commas(Each(Tail(parts)))
    IN
    CASE kind = "Missing"    -> <<>>
      [] kind = "Unit"       -> <<"(", ")">>
      [] kind = "Never"      -> <<"!">>
      [] kind = "Wildcard"   -> <<"_">>
      [] kind \in {"Literal", "Ident", "Primitive"} -> words
      [] kind = "MutIdent"   -> <<"mut">> \o words
      [] kind = "Ref"        -> <<"&">> \o words \o
                                (IF parts[1].kind = "MutIdent" THEN In("(", first, ")") ELSE ShowAt(parts[1], Tight))
      [] kind = "Or"         -> FlattenSeq([k \in DOMAIN parts |->
                                    (IF k = 1 THEN <<>> ELSE <<"|">>) \o ShowAt(parts[k], Tight)])
      [] kind = "PathType"   -> Path(words) \o
                                (IF parts = <<>> THEN <<>> ELSE In("<", Commas(Each(parts)), ">"))
      [] kind = "Path"       -> Path(words)
      [] kind = "Tuple"      -> IF words # <<>> /\ parts = <<>> THEN Path(words)
                                ELSE Path(words) \o In("(", Commas(Each(parts)) \o
                                         (IF words = <<>> /\ Len(parts) = 1 THEN <<",">> ELSE <<>>), ")")
      [] kind = "Struct"     -> Path(words) \o In("{", Commas(Each(parts)), "}")
      [] kind = "Base"       -> <<"..">> \o first
      [] kind = "Param"      -> first \o <<":">> \o Show(parts[2])
      [] kind = "Member"     -> words \o <<":">> \o first
      [] kind = "Variant"    -> words \o (IF parts = <<>> THEN <<>> ELSE In("(", Commas(Each(parts)), ")"))
      [] kind = "Range"      -> ShowAt(parts[1], 1) \o
                                (IF parts[2].kind = "Missing" /\ words = <<"..<">> THEN <<"..">> ELSE words)
                                \o ShowAt(parts[2], 1)
      [] kind = "Binary"     -> ShowBinary(tree)
      [] kind = "Cast"       -> ShowAt(parts[1], 12) \o <<"as">> \o Show(parts[2])
      [] kind = "Unary"      -> words \o ShowAt(parts[1], 12)
      [] kind = "Borrow"     -> <<"&">> \o words \o ShowAt(parts[1], 12)
      [] kind = "Call"       -> (IF parts[1].kind = "Field" THEN In("(", first, ")") ELSE ShowAt(parts[1], Tight))
                                \o In("(", past, ")")
      [] kind = "Field"      -> ShowAt(parts[1], Tight) \o <<".">> \o words
      [] kind = "MethodCall" -> ShowAt(parts[1], Tight) \o <<".">> \o words \o In("(", past, ")")
      [] kind = "Index"      -> ShowAt(parts[1], Tight) \o In("[", Show(parts[2]), "]")
      [] kind = "Question"   -> ShowAt(parts[1], Tight) \o <<"?">>
      [] kind = "Return"     -> <<"ret">> \o (IF parts = <<>> THEN <<>> ELSE first)
      [] kind = "Break"      -> <<"break">>
      [] kind = "Continue"   -> <<"continue">>
      [] kind = "Let"        -> first \o <<":=">> \o Show(parts[2])
      [] kind = "If"         -> <<"if">> \o first \o Show(parts[2]) \o
                                (IF Len(parts) = 3 THEN <<"else">> \o Show(parts[3]) ELSE <<>>)
      [] kind = "While"      -> <<"while">> \o first \o Show(parts[2])
      [] kind = "Loop"       -> <<"loop">> \o first
      [] kind = "Arm"        -> first \o <<"=>">> \o Show(parts[2])
      [] kind = "Match"      -> <<"match">> \o first \o In("{", past, "}")
      [] kind = "Block"      -> ShowBlock(tree)
      [] kind = "Decl"       -> first \o (IF parts[2].kind = "Missing" THEN <<>> ELSE <<":">> \o Show(parts[2]))
                                \o <<":=">> \o Show(parts[3])
      [] kind = "Reassign"   -> first \o words \o Show(parts[2])
      [] kind = "Expr"       -> ShowAlone(parts[1])
      [] kind = "Fn"         -> ShowFn(tree)
      [] kind \in {"StructItem", "Enum"} ->
             Pub(tree) \o <<IF kind = "Enum" THEN "enum" ELSE "struct">> \o NameOf(tree)
                 \o In("{", Commas(Each(parts)), "}")
      [] kind \in {"static", "const"} ->
             Pub(tree) \o <<kind>> \o NameOf(tree) \o <<":">> \o first \o <<"=">> \o Show(parts[2])
      [] kind = "Use"        -> Pub(tree) \o <<"use">> \o first \o
                                (IF Len(parts) = 2 THEN <<"as">> \o Show(parts[2]) ELSE <<>>) \o <<";">>
      [] kind = "Impl"       -> Pub(tree) \o <<"impl">> \o first \o In("{", Lines(Tail(parts)), "}")
      [] kind = "Mod"        -> Pub(tree) \o <<"mod">> \o NameOf(tree) \o <<";">>
      [] kind = "InlineMod"  -> Pub(tree) \o <<"mod">> \o NameOf(tree) \o In("{", Lines(parts), "}")
      [] kind = "File"       -> Lines(parts)

\* The units of a token of more than one, and whether a blank keeps it from the next.
Units(token) ==
    CASE token = "::"  -> <<":", ":">>
      [] token = ":="  -> <<":", "=">>
      [] token = "=>"  -> <<"=", ">">>
      [] token = "->"  -> <<"-", ">">>
      [] token = "..=" -> <<".", ".", "=">>
      [] token = "..<" -> <<".", ".", "<">>
      [] token \in {"**", "<<", ">>", "||", "&&", ".."} ->
             LET c == CHOOSE c \in {"*", "<", ">", "|", "&", "."} : c \o c = token IN <<c, c>>
      [] token \in {"+=", "-=", "*=", "/=", "%=", "&=", "|=", "^=", "==", "!=", "<=", ">="} ->
             <<CHOOSE c \in {"+", "-", "*", "/", "%", "&", "|", "^", "=", "!", "<", ">"} :
                   c \o "=" = token, "=">>
      [] token = "**=" -> <<"*", "*", "=">>
      [] token = "<<=" -> <<"<", "<", "=">>
      [] token = ">>=" -> <<">", ">", "=">>
      [] OTHER -> <<token>>

Marks == {"(", ")", "{", "}", "[", "]", ",", ";", "end"}
\* Blanks around everything but marks and the halves that close argument lists.
Blank(token, next) ==
    IF token \in Marks \/ next \in Marks \/ (token = ">" /\ next = ">") THEN <<>> ELSE <<" ">>

\* The text of a list of tokens, line_end between lines.
Written(tokens, line_end) ==
    FlattenSeq([k \in DOMAIN tokens |->
        (IF tokens[k] = "end" THEN <<line_end>> ELSE Units(tokens[k]))
            \o (IF k = Len(tokens) THEN <<>> ELSE Blank(tokens[k], tokens[k + 1]))])

=============================================================================
