------------------------------ MODULE Frontend ------------------------------
(***************************************************************************)
(* From the text of a file to its items: the lexer, then Parser::parse     *)
(* (parser/parser.cc) over its tokens, one item or recovery a step.        *)
(***************************************************************************)
EXTENDS Parser, Grammar

\* Families of files: the text, and the tree it was written from. A tree of
\* kind "Rest" is the item that the text ends with; "Missing" is none.
CONSTANT Files

VARIABLES
    written,    \* the tree the text was written from
    cur,        \* the parser's cursor; at is 0 before the parser is made
    items       \* items

vars == <<lexer, written, cur, items>>

Init ==
    \E family \in Files : \E file \in family :
        /\ Start(file.text)
        /\ written = file.tree
        /\ cur = [at |-> 0, lit |-> TRUE, gt |-> 0, ok |-> TRUE, bag |-> {}]
        /\ items = <<>>

Tokenize == Lex /\ UNCHANGED <<written, cur, items>>

MakeParser ==
    /\ Done /\ cur.at = 0
    /\ cur' = StartOfFile
    /\ UNCHANGED <<lexer, written, items>>

Parsing == cur.at > 0 /\ Peek(cur) # "Eof"
Parsed == cur.at > 0 /\ Peek(cur) = "Eof"

SkipSeparator ==
    /\ Parsing /\ Peek(cur) = ";"
    /\ cur' = Advance(cur)
    /\ UNCHANGED <<lexer, written, items>>

AddItem(item) ==
    /\ item.s.ok
    /\ cur' = item.s
    /\ items' = Append(items, item.tree)
    /\ UNCHANGED <<lexer, written>>

Recover(item) ==
    /\ ~item.s.ok
    /\ cur' = Synchronize(item.s)
    /\ UNCHANGED <<lexer, written, items>>

TakeItem ==
    /\ Parsing /\ Peek(cur) # ";"
    /\ LET item == Parse("Item", cur) IN AddItem(item) \/ Recover(item)

Finished == Parsed /\ UNCHANGED vars

Next == Tokenize \/ MakeParser \/ SkipSeparator \/ TakeItem \/ Finished
Spec == Init /\ [][Next]_vars

-----------------------------------------------------------------------------
NoDiagnostics == bag = <<>> /\ cur.bag = {}

\* A `>>` that closes argument lists, with a comma after it.
HalvesBeforeComma == \E k \in 1 .. Len(out) - 1 : out[k].kind = ">>" /\ out[k + 1].kind = ","
NoArguments == \E k \in 1 .. Len(out) - 1 : out[k].kind = "<" /\ out[k + 1].kind \in {">", ">>"}
\* More halves than `<`.
LeftOver ==
    LET count(kind) == Cardinality({k \in DOMAIN out : out[k].kind = kind})
    IN  count(">") + 2 * count(">>") > count("<")

\* grammar.md: a file written from a tree, with only the parentheses that the
\* levels ask for and with line ends for separators, is read back as that
\* tree, without a diagnostic: operators, casts, unary operators, ranges,
\* postfix chains and block-like expressions inside each other in every way,
\* patterns, types, statements and items. Left out are `if` and `while` with
\* `:=` as a statement, struct literals in heads, patterns with a minus sign,
\* which only the pattern's span shows, and a `>>` before a comma.
ReadAsWritten ==
    Parsed /\ written.kind = "File" /\ ~HalvesBeforeComma => NoDiagnostics /\ items = written.parts

\* grammar.md:64-65, "Closing `>>` splits into two `>`", and 57-58, the
\* parameters: the second half closes the outer list.
ArgumentListsClose ==
    Parsed /\ written.kind = "File" => items = written.parts

Layout == {"(", ")", ",", ";"}
\* The tokens of the text that a tree must show; the two range operators without
\* an endpoint are one, and a `::` that no segment follows is passed over.
Significant ==
    {k \in DOMAIN out :
        /\ out[k].kind \notin Layout \cup {"DocComment", "Eof"}
        /\ out[k].kind = "::" => out[k + 1].kind \in Segment}
AsOne(token) == IF token = "..<" THEN ".." ELSE token
Halves(token) == IF token = ">>" THEN <<">", ">">> ELSE <<AsOne(token)>>
TextTokens ==
    FlattenSeq([k \in DOMAIN out |-> IF k \in Significant THEN Halves(Word([at |-> k])) ELSE <<>>])
TreeTokens ==
    FlattenSeq([k \in DOMAIN items |->
        LET shown == SelectSeq(Show(items[k]), LAMBDA token : token \notin Layout \cup {"end"})
        IN  FlattenSeq([j \in DOMAIN shown |-> Halves(shown[j])])])

\* What is accepted is all in the tree: when neither lexer nor parser has a
\* diagnostic, the tokens of the text other than parentheses and separators
\* are those the items are written with, in their order. No token is skipped
\* by a recovery that goes unreported, or read twice. Excused are a `::` that
\* ends a path, an empty `<>`, leftover halves of `>>`, and a `>>` before a comma.
NothingDropped ==
    Parsed /\ NoDiagnostics /\ ~NoArguments /\ ~LeftOver /\ ~HalvesBeforeComma =>
        TextTokens = TreeTokens

\* parser.h:21-24, "one bad construct never hides the rest of the file": an
\* item after a bad construct and its `;` is parsed.
RestIsParsed ==
    Parsed /\ written.kind = "Rest" => items # <<>> /\ Last(items) = written.parts[1]

\* It holds unless an error was met at a closing bracket or at the end.
RestIsParsedPast ==
    (\A d \in cur.bag : out[d.at].kind \notin Closers \cup {"Eof"}) => RestIsParsed

\* parser.h:52-54, "always consumes at least one token, so recovery loops
\* terminate": no step of parse() leaves the cursor where it was.
StepsConsume == [][cur.at > 0 => cur'.at > cur.at]_cur

=============================================================================
