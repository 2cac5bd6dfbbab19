---------------------------- MODULE LexerChecks ----------------------------
(***************************************************************************)
(* What the tokens of a text are, said of the finished list and the text,  *)
(* without the order in which the lexer finds them.                        *)
(***************************************************************************)
EXTENDS Lexer, SequencesExt

\* A block comment is a pair of marks around comments and units that begin no
\* mark; CommentEnds are the last positions of the comments that start at i.
CommentEnds(t, i) ==
    LET body[p \in Nat] == [q \in 0 .. Len(t) |->
            \/ p > q
            \/ ~IsBlockComment(t, p) /\ ~IsCommentEnd(t, p) /\ body[p + 1][q]
            \/ /\ IsBlockComment(t, p)
               /\ \E r \in p + 3 .. q :
                      IsCommentEnd(t, r - 1) /\ body[p + 2][r - 2] /\ body[r + 1][q]]
    IN  {j \in i + 3 .. Len(t) :
            IsBlockComment(t, i) /\ IsCommentEnd(t, j - 1) /\ body[i + 2][j - 2]}

\* The units from i up to, not including, j are blanks, line ends and comments.
IsTrivia(t, i, j) ==
    LET rest[p \in Nat] ==
            \/ p = j
            \/ p < j /\ t[p] \in Blanks \cup {"\n"} /\ rest[p + 1]
            \/ p < j /\ IsLineComment(t, p) /\ ~IsDocComment(t, p) /\ rest[PastLine(t, p)]
            \/ p < j /\ \E q \in CommentEnds(t, p) : rest[q + 1]
    IN  rest[i]

IsLineEnd(token) == token.kind = ";" /\ text[token.start] = "\n"
\* Token k is the next after j that the text spells; it is the first when j is 0.
Follows(k, j) ==
    /\ k \in DOMAIN out /\ ~IsLineEnd(out[k])
    /\ j < k /\ (j = 0 \/ ~IsLineEnd(out[j]))
    /\ \A m \in j + 1 .. k - 1 : IsLineEnd(out[m])
EndOf(j) == IF j = 0 THEN 1 ELSE out[j].end

\* lexer.h:19 "lexing never fails hard": every unit of the text is in one
\* token, or between two as part of a blank, a line end or a closed comment.
\* Nothing is skipped and nothing is read twice, whatever is wrong in the
\* text. The one token that reaches past the text is a literal that ends in
\* a backslash.
TokensTile ==
    Done =>
        /\ \A k \in 1 .. Len(out) - 1 :
               out[k].start < out[k].end /\ out[k].end <= out[k + 1].start
        /\ \A j \in 0 .. Len(out), k \in 1 .. Len(out) :
               Follows(k, j) =>
                   \/ IsTrivia(text, EndOf(j), out[k].start)
                   \/ EndOf(j) = Len(text) + 2 /\ text[Len(text)] = "\\"
        /\ \A d \in ToSet(bag) : \E token \in ToSet(out) :
               token.kind = "Error" /\ token.start = d.start /\ token.end = d.end
        /\ Len(bag) = Cardinality({k \in DOMAIN out : out[k].kind = "Error"})

\* A line ends between positions i and j, outside block comments.
LineEnds(i, j) == \E k \in i .. j - 1 : text[k] = "\n" /\ IsTrivia(text, i, k)

\* Token n is the first after j that the text spells and that is no doc comment.
Leads(n, j) ==
    /\ ~IsLineEnd(out[n]) /\ out[n].kind # "DocComment"
    /\ \A m \in j + 1 .. n - 1 : IsLineEnd(out[m]) \/ out[m].kind = "DocComment"

\* A line ends between tokens j and k, the first ends a statement, and what
\* leads the next line does not continue it.
EndsStatement(j, k) ==
    /\ LineEnds(out[j].end, out[k].start) /\ InsertsSemi(out[j].kind)
    /\ \E n \in k .. Len(out) : Leads(n, j) /\ ~SuppressSemi(out[n].kind)

\* A bracket before the end of token j is still open there.
InBrackets(j) ==
    \E m \in 1 .. j : \A n \in m .. j :
        Cardinality({i \in m .. n : out[i].kind \in {"(", "["}})
            > Cardinality({i \in m .. n : out[i].kind \in {")", "]"}})

RangeLeads(j, k) == \E n \in k .. Len(out) : Leads(n, j) /\ out[n].kind \in {"..", "..=", "..<"}

\* grammar.md:14-19, "outside brackets, a newline is lexed as `;` when the
\* preceding token ends a statement [...] unless the next token continues the
\* construct": in a text without errors a `;` made of a line end stands only
\* where a line ends a statement, and there is one only; outside brackets it
\* is never left out. The lexer decides it with a scanner of its own, before
\* it has read the next token. The tokens that end a statement are those of
\* lexer.cc:50-89, type names, `self` and `?` with the others. Two cases are
\* left open, because the lexer is not as the text says: inside brackets it
\* may write one, and before a range that leads a line it writes none.
LinesSeparate ==
    Done /\ bag = <<>> =>
        \A j, k \in 1 .. Len(out) :
            Follows(k, j) =>
                /\ k = j + 1 \/ (k = j + 2 /\ EndsStatement(j, k))
                /\ EndsStatement(j, k) /\ ~InBrackets(j) /\ ~RangeLeads(j, k) => k = j + 2

\* Backslashes right before position i.
Backslashes(t, i, from) ==
    Cardinality({k \in from .. i - 1 : \A m \in k .. i - 1 : t[m] = "\\"})

WordEnds(t, token) ==
    token.kind \in Keywords \cup {"Ident", "Integer", "Float", "_"} => At(t, token.end) \notin Alnum
SymbolEnds(t, token) ==
    token.kind \in Operators =>
        /\ TwosAt(t, token.start) # {} => token.end >= token.start + 2
        /\ ThreesAt(t, token.start) # {} => token.end = token.start + 3
DotTaken(t, token) ==
    /\ /\ token.kind = "Integer" /\ At(t, token.end) = "."
       /\ \A k \in token.start .. token.end - 1 : t[k] \notin Letters
       => At(t, token.end + 1) = "."
    /\ token.kind = "Float" /\ t[token.end - 1] = "." => At(t, token.end) # "."
QuoteEnds(t, token) ==
    token.kind \in {"String", "Char"} =>
        \A k \in token.start + 1 .. token.end - 1 :
            t[k] = t[token.start] =>
                ((k = token.end - 1) <=> (Backslashes(t, k, token.start + 1) % 2 = 0))

\* grammar.md:5-13, "Longest-match lexing applies throughout": no word or
\* symbol could have been longer; a number is followed by no unit of a word
\* and takes a dot as its fraction unless another follows; a literal ends at
\* the first quote that no backslash escapes.
LongestMatch ==
    Done =>
        \A token \in ToSet(out) :
            /\ WordEnds(text, token) /\ SymbolEnds(text, token)
            /\ DotTaken(text, token) /\ QuoteEnds(text, token)

=============================================================================
