------------------------------- MODULE Lexer -------------------------------
(***************************************************************************)
(* Lexer::tokenize (lexer/lexer.cc) on one text: skip_trivia and the lex_  *)
(* functions, one action for every branch of their loops.                  *)
(*                                                                         *)
(* A text is a sequence of units. A unit is one byte, written as a string  *)
(* of one character, or a longer word of letters, which saves spelling     *)
(* keywords: the texts hold no units that spell a keyword together. Bytes  *)
(* that have no character are "NUL", the leads of a UTF-8 sequence, named  *)
(* for its length, and "tail".                                             *)
(***************************************************************************)
EXTENDS Integers, Sequences, Tokens

CONSTANT Letters    \* the units made of letters

VARIABLES
    text,              \* bytes_
    pos,               \* pos_ + 1
    last_significant,  \* last_significant_
    out,               \* the tokens: kind, start, and end, the position past the last unit
    bag                \* the diagnostics: code, start, end

lexer == <<text, pos, last_significant, out, bag>>

Digits == {"0", "1", "2", "3", "4", "5", "6", "7", "8", "9"}
Alnum == Letters \cup Digits \cup {"_"}
Blanks == {" ", "\t", "\r"}

\* is_alpha: no unit of letters is another byte or a symbol, and the marks of
\* the bases are letters.
ASSUME LettersAssumption ==
    /\ Letters \cap (Digits \cup Blanks \cup Operators \cup Delimiters \cup {"_", "\n", "\"", "'", "NUL"}) = {}
    /\ {"b", "B", "o", "O", "x", "X"} \subseteq Letters

At(t, i) == IF i <= Len(t) THEN t[i] ELSE "NUL"

\* The first position from i on that holds no unit of S.
PastRun(t, i, S) ==
    CHOOSE j \in i .. (IF i > Len(t) THEN i ELSE Len(t) + 1) :
        (\A k \in i .. j - 1 : t[k] \in S) /\ (j > Len(t) \/ t[j] \notin S)

PastLine(t, i) ==
    CHOOSE j \in i .. (IF i > Len(t) THEN i ELSE Len(t) + 1) :
        (\A k \in i .. j - 1 : t[k] # "\n") /\ (j > Len(t) \/ t[j] = "\n")

IsLineComment(t, i) == At(t, i) = "/" /\ At(t, i + 1) = "/"
IsDocComment(t, i) == IsLineComment(t, i) /\ At(t, i + 2) = "/" /\ At(t, i + 3) # "/"
IsBlockComment(t, i) == At(t, i) = "/" /\ At(t, i + 1) = "*"
IsCommentEnd(t, i) == At(t, i) = "*" /\ At(t, i + 1) = "/"

\* Mutant: the first `*/` closes the comment, however many are open.
PastCommentFlat(t, i) ==
    LET past[k \in Nat] ==
            IF k > Len(t) THEN [next |-> k, depth |-> 1]
            ELSE IF IsCommentEnd(t, k) THEN [next |-> k + 2, depth |-> 0]
            ELSE past[k + 1]
    IN  past[i + 2]

\* The position past the block comment at i, and how many are still open there.
PastComment(t, i) ==
    LET past[k \in Nat] == [depth \in Nat |->
            IF k > Len(t) \/ depth = 0 THEN [next |-> k, depth |-> depth]
            ELSE IF IsBlockComment(t, k) THEN past[k + 2][depth + 1]
            ELSE IF IsCommentEnd(t, k) THEN past[k + 2][depth - 1]
            ELSE past[k + 1][depth]]
    IN  past[i + 2][1]

\* Mutant: comments are not looked past.
PeekNextKindNear(t, i) ==
    LET past[k \in Nat] == IF At(t, k) \in Blanks \cup {"\n"} THEN past[k + 1] ELSE k
        at == past[i]
    IN  IF at > Len(t) THEN "Eof"
        ELSE IF t[at] = "else" /\ PastRun(t, at, Alnum) = at + 1 THEN "else"
        ELSE IF t[at] \in {",", ")", "]", "}", "."} THEN t[at]
        ELSE "Ident"

\* What the first unit past blanks, line ends and comments stands for. `else`
\* and the units that begin a suppressing token are told apart, the rest is Ident.
PeekNextKind(t, i) ==
    LET past[k \in Nat] ==
            IF At(t, k) \in Blanks \cup {"\n"} THEN past[k + 1]
            ELSE IF IsLineComment(t, k) THEN past[PastLine(t, k)]
            ELSE IF IsBlockComment(t, k) THEN past[PastComment(t, k).next]
            ELSE k
        at == past[i]
    IN  IF at > Len(t) THEN "Eof"
        ELSE IF t[at] = "else" /\ PastRun(t, at, Alnum) = at + 1 THEN "else"
        ELSE IF t[at] \in {",", ")", "]", "}", "."} THEN t[at]
        ELSE "Ident"

-----------------------------------------------------------------------------
\* What a lex_ function leaves: a token of a kind up to next, or an error.
Lexeme(kind, next) == [kind |-> kind, next |-> next, code |-> "None"]
Bad(code, next) == [kind |-> "Error", next |-> next, code |-> code]

Identifier(t, i) ==
    LET next == PastRun(t, i, Alnum) IN
    Lexeme(IF next = i + 1 /\ t[i] \in Keywords \cup {"_"} THEN t[i] ELSE "Ident", next)

HexDigits == Digits \cup {"a", "b", "c", "d", "e", "f", "A", "B", "C", "D", "E", "F"}
BaseDigits(base) ==
    CASE base \in {"b", "B"} -> {"0", "1"}
      [] base \in {"o", "O"} -> Digits \ {"8", "9"}
      [] base \in {"x", "X"} -> HexDigits

IsBased(t, i) == t[i] = "0" /\ At(t, i + 1) \in {"b", "B", "o", "O", "x", "X"}

BasedNumber(t, i) ==
    LET digits == PastRun(t, i + 2, BaseDigits(t[i + 1]) \cup {"_"})
        tail   == PastRun(t, digits, Alnum)
    IN  IF \A k \in i + 2 .. digits - 1 : t[k] = "_" THEN Bad("InvalidNumber", tail)
        ELSE IF t[digits - 1] = "_" /\ At(t, digits) \notin Letters THEN Bad("InvalidNumber", digits)
        ELSE IF At(t, digits) \in Digits THEN Bad("InvalidNumber", tail)
        ELSE Lexeme("Integer", tail)

\* Mutant: the dot of a range starts a fraction.
PastFractionAny(t, i) ==
    IF At(t, i) = "." THEN PastRun(t, i + 1, Digits \cup {"_"}) ELSE i

PastFraction(t, i) ==
    IF At(t, i) = "." /\ At(t, i + 1) # "." THEN PastRun(t, i + 1, Digits \cup {"_"}) ELSE i

PastExponent(t, i) ==
    IF /\ At(t, i) \in {"e", "E"}
       /\ \/ At(t, i + 1) \in Digits
          \/ At(t, i + 1) \in {"+", "-"} /\ At(t, i + 2) \in Digits
    THEN PastRun(t, i + 2, Digits \cup {"_"}) ELSE i

DecimalNumber(t, i) ==
    LET whole  == PastRun(t, i, Digits \cup {"_"})
        digits == PastExponent(t, PastFraction(t, whole))
    IN  IF t[digits - 1] = "_" /\ At(t, digits) \notin Letters THEN Bad("InvalidNumber", digits)
        ELSE Lexeme(IF digits = whole THEN "Integer" ELSE "Float", PastRun(t, digits, Alnum))

Number(t, i) == IF IsBased(t, i) THEN BasedNumber(t, i) ELSE DecimalNumber(t, i)

ValidEscapes == {"n", "t", "r", "\\", "\"", "'", "0"}

\* A whole \u{HEX} at i.
IsUnicodeEscape(t, i) ==
    LET brace == PastRun(t, i + 3, HexDigits) IN
    /\ At(t, i + 1) = "u" /\ At(t, i + 2) = "{"
    /\ brace > i + 3 /\ At(t, brace) = "}"

\* The position past the quoted literal at i, whether its quote was found, and
\* whether it has an invalid escape. A backslash takes the next unit along,
\* the end of the text included.
PastLiteral(t, i) ==
    LET past[k \in Nat] ==
            IF k > Len(t) \/ At(t, k) = "\n" THEN [next |-> k, closed |-> FALSE, bad |-> FALSE]
            ELSE IF t[k] = t[i] THEN [next |-> k + 1, closed |-> TRUE, bad |-> FALSE]
            ELSE IF t[k] # "\\" THEN past[k + 1]
            ELSE IF At(t, k + 1) = "\n" THEN [next |-> k, closed |-> FALSE, bad |-> FALSE]
            ELSE IF IsUnicodeEscape(t, k) THEN past[PastRun(t, k + 3, HexDigits) + 1]
            ELSE IF At(t, k + 1) \in ValidEscapes THEN past[k + 2]
            ELSE [past[k + 2] EXCEPT !.bad = TRUE]
    IN  past[i + 1]

StringLiteral(t, i) ==
    LET body == PastLiteral(t, i) IN
    IF ~body.closed THEN Bad("UnterminatedString", body.next)
    ELSE IF body.bad THEN Bad("InvalidEscape", body.next)
    ELSE Lexeme("String", body.next)

CharLiteral(t, i) ==
    LET body == PastLiteral(t, i) IN
    IF ~body.closed THEN Bad("UnterminatedChar", body.next)
    ELSE IF body.next = i + 2 THEN Bad("InvalidChar", body.next)
    ELSE IF body.bad THEN Bad("InvalidEscape", body.next)
    ELSE Lexeme("Char", body.next)

ScalarWidth(unit) ==
    CASE unit = "lead2" -> 2 [] unit = "lead3" -> 3 [] unit = "lead4" -> 4 [] OTHER -> 1

\* The symbols of one unit, and the operators of two and of three: their units and kind.
Singles == {"+", "-", "*", "/", "%", "&", "|", "^", "~", "=", "!", ">", "<", ":", "."} \cup Delimiters
Twos ==
    {<<"*", "*", "**">>, <<"<", "<", "<<">>, <<">", ">", ">>">>, <<"+", "=", "+=">>, <<"-", "=", "-=">>,
     <<"*", "=", "*=">>, <<"/", "=", "/=">>, <<"%", "=", "%=">>, <<"&", "=", "&=">>, <<"|", "=", "|=">>,
     <<"^", "=", "^=">>, <<":", "=", ":=">>, <<"=", "=", "==">>, <<"&", "&", "&&">>, <<"|", "|", "||">>,
     <<"!", "=", "!=">>, <<">", "=", ">=">>, <<"<", "=", "<=">>, <<"-", ">", "->">>, <<"=", ">", "=>">>,
     <<":", ":", "::">>, <<".", ".", "..">>}
Threes ==
    {<<"*", "*", "=", "**=">>, <<"<", "<", "=", "<<=">>, <<">", ">", "=", ">>=">>,
     <<".", ".", "=", "..=">>, <<".", ".", "<", "..<">>}
TwosAt(t, i) == {kind \in Operators : <<At(t, i), At(t, i + 1), kind>> \in Twos}
ThreesAt(t, i) == {kind \in Operators : <<At(t, i), At(t, i + 1), At(t, i + 2), kind>> \in Threes}

\* Longest first; a unit that starts no symbol is an error as wide as its scalar.
Symbol(t, i) ==
    LET past == i + ScalarWidth(t[i]) IN
    IF ThreesAt(t, i) # {} THEN Lexeme(CHOOSE kind \in ThreesAt(t, i) : TRUE, i + 3)
    ELSE IF TwosAt(t, i) # {} THEN Lexeme(CHOOSE kind \in TwosAt(t, i) : TRUE, i + 2)
    ELSE IF t[i] \in Singles THEN Lexeme(t[i], i + 1)
    ELSE Bad("InvalidChar", IF past > Len(t) + 1 THEN Len(t) + 1 ELSE past)

-----------------------------------------------------------------------------
\* The lexer before a text.
Start(t) ==
    /\ text = t
    /\ pos = 1 /\ last_significant = "Eof"
    /\ out = <<>> /\ bag = <<>>

More == pos <= Len(text)
Token(kind, next) == [kind |-> kind, start |-> pos, end |-> next]

\* An error token leaves last_significant_ as it is.
EmitError(code, next) ==
    /\ out' = Append(out, Token("Error", next))
    /\ bag' = Append(bag, [code |-> code, start |-> pos, end |-> next])
    /\ UNCHANGED last_significant

Emit(kind, next) ==
    /\ out' = Append(out, Token(kind, next))
    /\ last_significant' = kind
    /\ UNCHANGED bag

Take(lexeme) ==
    /\ pos' = lexeme.next
    /\ IF lexeme.kind = "Error" THEN EmitError(lexeme.code, lexeme.next)
                                ELSE Emit(lexeme.kind, lexeme.next)
    /\ UNCHANGED text

SkipBlank ==
    /\ More /\ text[pos] \in Blanks
    /\ pos' = pos + 1
    /\ UNCHANGED <<text, last_significant, out, bag>>

EndLine ==
    /\ More /\ text[pos] = "\n"
    /\ pos' = pos + 1
    /\ IF InsertsSemi(last_significant) /\ ~SuppressSemi(PeekNextKind(text, pos + 1))
       THEN Emit(";", pos + 1)
       ELSE UNCHANGED <<last_significant, out, bag>>
    /\ UNCHANGED text

SkipLineComment ==
    /\ More /\ IsLineComment(text, pos) /\ ~IsDocComment(text, pos)
    /\ pos' = PastLine(text, pos)
    /\ UNCHANGED <<text, last_significant, out, bag>>

LexDocComment == More /\ IsDocComment(text, pos) /\ Take(Lexeme("DocComment", PastLine(text, pos)))

SkipBlockComment ==
    /\ More /\ IsBlockComment(text, pos)
    /\ LET past == PastComment(text, pos) IN
       /\ pos' = past.next
       /\ IF past.depth > 0 THEN EmitError("UnterminatedBlockComment", past.next)
          ELSE UNCHANGED <<last_significant, out, bag>>
    /\ UNCHANGED text

LexNul == More /\ text[pos] = "NUL" /\ Take(Bad("InvalidChar", pos + 1))
LexIdentifier == More /\ text[pos] \in Letters \cup {"_"} /\ Take(Identifier(text, pos))
LexNumber == More /\ text[pos] \in Digits /\ Take(Number(text, pos))
LexString == More /\ text[pos] = "\"" /\ Take(StringLiteral(text, pos))
LexChar == More /\ text[pos] = "'" /\ Take(CharLiteral(text, pos))

LexSymbol ==
    /\ More
    /\ text[pos] \notin Blanks \cup Alnum \cup {"\n", "NUL", "\"", "'"}
    /\ ~IsLineComment(text, pos) /\ ~IsBlockComment(text, pos)
    /\ Take(Symbol(text, pos))

Done == out # <<>> /\ out[Len(out)].kind = "Eof"
Finish == ~More /\ ~Done /\ Emit("Eof", pos) /\ UNCHANGED <<text, pos>>

Lex ==
    \/ SkipBlank \/ EndLine \/ SkipLineComment \/ LexDocComment \/ SkipBlockComment
    \/ LexNul \/ LexIdentifier \/ LexNumber \/ LexString \/ LexChar \/ LexSymbol
    \/ Finish

=============================================================================
