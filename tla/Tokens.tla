------------------------------- MODULE Tokens -------------------------------
(***************************************************************************)
(* Token kinds (lexer/token.h). A keyword, an operator and a delimiter is  *)
(* its spelling; the other kinds are in Classes. The separator that a line *)
(* end becomes is the kind of a written `;`.                               *)
(***************************************************************************)

PrimitiveTypes ==
    {"i8", "i16", "i32", "i64", "i128", "isize", "u8", "u16", "u32", "u64", "u128", "usize",
     "f32", "f64", "bool", "str"}

Reserved ==
    {"async", "await", "union", "register", "comp", "extern", "unsafe", "for", "in", "where", "dyn"}

Keywords ==
    {"fn", "struct", "enum", "mod", "impl", "static", "pub", "const", "mut", "use",
     "if", "else", "loop", "while", "break", "continue", "ret", "match",
     "package", "self", "super", "Self", "as", "true", "false"}
    \cup PrimitiveTypes \cup Reserved

Delimiters == {"(", ")", "{", "}", "[", "]", "?", ";", ",", "#"}

Operators ==
    {"+", "-", "*", "/", "%", "**", "&", "|", "^", "~", "<<", ">>",
     "+=", "-=", "*=", "/=", "%=", "**=", "&=", "|=", "^=", "<<=", ">>=",
     ":=", "=", "==", "!", "&&", "||", "!=", ">", "<", ">=", "<=",
     "->", "=>", ":", "::", ".", "..", "..=", "..<"}

Literals == {"Integer", "Float", "String", "Char"}
Classes == Literals \cup {"Ident", "DocComment", "Error", "Eof"}

Kind == Keywords \cup Delimiters \cup Operators \cup Classes \cup {"_"}

\* A line that ends with such a token ends its statement ...
InsertsSemi(kind) ==
    \/ kind \in Literals \cup PrimitiveTypes
    \/ kind \in {"Ident", "_", "true", "false", ")", "]", "}", "break", "continue", "ret",
                 "?", "self", "Self"}

\* ... unless the next one starts with something that continues it.
SuppressSemi(kind) == kind \in {"else", ",", ")", "]", "}", ".", "Eof"}

=============================================================================
