----------------------------- MODULE MCFrontend -----------------------------
(***************************************************************************)
(* The front end on three kinds of files: every text of a few units, in    *)
(* families that bring together the units of one part of the lexer; what   *)
(* the grammar writes for small trees; and small heaps of tokens, inside a *)
(* body or before an item.                                                 *)
(***************************************************************************)
EXTENDS Frontend, LexerChecks

Small == INSTANCE SmallFiles

MCLetters ==
    {"a", "b", "e", "o", "x", "y", "n", "u", "f", "A", "B", "F", "O", "X", "self"} \cup Keywords
MCCapitals == {"A", "B", "F"}

UpTo(S, n) == UNION {[1 .. k -> S] : k \in 0 .. n}
Text(units) == [text |-> units, tree |-> Missing]
Texts(S) == {Text(t) : t \in S}

-----------------------------------------------------------------------------
\* A line ends between a token and the next, with blanks and comments there.
Gap == {<<"\n">>, <<" ">>, <<"/", "/">>, <<"/", "/", "/">>, <<"/", "*", "*", "/">>,
        <<"/", "*", "\n", "/", "*", "*", "/", "*", "/">>}
LineTexts ==
    {<<a>> \o FlattenSeq(gap) \o b :
        a \in {"a", "ret", ")", "fn"}, gap \in UpTo(Gap, 3),
        b \in {<<>>, <<"else">>, <<"else", "a">>, <<".">>, <<"}">>, <<"x">>}}
Wide == {"_", "i32", "1", "\"", "?", "await", ",", "]", "\n", "\r", ".", "=", "@"}
Bytes == {"NUL", "lead2", "lead3", "lead4", "tail", "a", "\n", "="}
Symbols == {".", ":", "=", "!", ">", "<", "+", "-", "*", "/", "%", "&", "|", "^", "~", "#", "(", "@"}

LexerFiles ==
    {Texts(LineTexts), Texts(UpTo(Wide, 3)), Texts(UpTo(Bytes, 3)), Texts(UpTo(Symbols, 3)),
     Texts(UpTo({"/", "*", "\n", "a", "}"}, 5)),
     Texts(UpTo({"0", "1", "9", "_", "b", "x", "e", ".", "+"}, 4)),
     Texts(UpTo({"0", "7", "8", "_", "o", "x", "F", "i32"}, 4)),
     Texts({<<"\"">> \o t : t \in UpTo({"\"", "\\", "n", "a", "'", "\n"}, 4)}),
     Texts({<<"'">> \o t : t \in UpTo({"\\", "u", "{", "F", "}", "'"}, 3)}),
     Texts({<<"'", "\\", "u">> \o t : t \in UpTo({"{", "F", "}", "'", "\\"}, 4)})}

Written2(trees, line_end) == {[text |-> Written(Show(tree), line_end), tree |-> tree] : tree \in trees}

WrittenFiles ==
    {Written2(S, "\n") : S \in {Small!TypeFiles, Small!PatternFiles, Small!ExprFiles,
                                Small!StmtFiles, Small!ItemFiles}}
    \cup {Written2(Small!StmtFiles, ";")}

-----------------------------------------------------------------------------
Heap(tokens) == Text(Written(tokens, "\n"))
InBody(tokens) == <<"fn", "f", "(", ")", "{">> \o tokens \o <<"}">>

HeapFiles ==
    {{Heap(h) : h \in UpTo({"pub", "fn", "use", "mod", "x", "::", "{", "}", ";"}, 4)},
     {Heap(InBody(h)) : h \in UpTo({"x", "(", ")", "+", ":=", "{", "}", ";", "if"}, 4)},
     {Heap(InBody(h)) : h \in UpTo({"A", "{", "}", ":", ",", "=", "..", "async"}, 4)},
     {Heap(InBody(<<"match", "x", "{">> \o h \o <<"}">>)) :
          h \in UpTo({"x", "=>", ",", ";", "..", "|", "A", "1"}, 4)},
     {Heap(<<"static", "x", ":">> \o h \o <<"=", "1">>) :
          h \in UpTo({"A", "<", ">", ">>", ",", "(", ")", "&"}, 4)}}

\* A bad construct, its `;`, and a good item.
Good == Node("Fn", <<"f">>, <<Leaf("Params"), Missing, Node("Block", <<>>, <<Missing>>)>>)
WithRest(tokens) ==
    [text |-> Written(tokens \o <<";">> \o Show(Good), "\n"), tree |-> Node("Rest", <<>>, <<Good>>)]

Headers ==
    {<<>>, <<"x">>, <<"fn", "f">>, <<"fn", "f", "(", ")">>, <<"fn", "f", "(", "x", ")">>, <<"struct", "A">>,
     <<"enum", "A">>, <<"mod", "x">>, <<"impl", "A">>, <<"static", "x", ":", "i32", "=">>,
     <<"static", "x", ":", "i32", "=", "match", "x">>, <<"fn", "f", "(", ")", "{", "}", "const">>}
Junk == {"x", "fn", ":=", "=>", ",", ";", "(", ")", "1"}
IsBalanced(tokens) ==
    LET count(n, token) == Cardinality({k \in 1 .. n : tokens[k] = token}) IN
    /\ \A n \in 0 .. Len(tokens) : count(n, ")") <= count(n, "(")
    /\ count(Len(tokens), ")") = count(Len(tokens), "(")
BalancedJunk(n) == {h \in UpTo(Junk, n) : IsBalanced(h)}

RestFiles ==
    {{WithRest(h \o In("{", j, "}")) : h \in Headers, j \in BalancedJunk(3)},
     {WithRest(h \o In("{", j, "}") \o <<t>>) : h \in Headers, j \in BalancedJunk(2), t \in {"x", ","}},
     {WithRest(h \o j) : h \in Headers, j \in BalancedJunk(3)}}

-----------------------------------------------------------------------------
MCFiles == LexerFiles \cup WrittenFiles \cup HeapFiles \cup RestFiles
MCTypes == {Written2(Small!TypeFiles, "\n")}
MCRests == RestFiles

=============================================================================
