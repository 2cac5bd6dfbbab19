----------------------------- MODULE MCDesugar ------------------------------
(***************************************************************************)
(* Small files for Desugar, in two families: every pattern of two levels   *)
(* over two names, in a match between a parameter and a use of both; and   *)
(* nested statements that shadow one name.                                 *)
(***************************************************************************)
EXTENDS DesugarScoping

Use(x) == [kind |-> "Path", name |-> x]
Bind(x) == [kind |-> "Ident", name |-> x]
All(parts) == [kind |-> "Each", parts |-> parts]
Either(alternatives) == [kind |-> "Or", alternatives |-> alternatives]
Nothing == All(<<>>)
Block(statements, value) == [kind |-> "Block", statements |-> statements, value |-> value]
Decl(x, init) == [kind |-> "Decl", init |-> init, pattern |-> Bind(x)]
Fn(params, body) == [kind |-> "Fn", params |-> params, body |-> body]
Plain(value) == [is_pattern |-> FALSE, value |-> value]
Binds(x, init) == [is_pattern |-> TRUE, pattern |-> Bind(x), init |-> init]
If(cond, then, else) == [kind |-> "If", cond |-> cond, then |-> then, else |-> else]
While(cond, body) == [kind |-> "While", cond |-> cond, body |-> body]

-----------------------------------------------------------------------------
Leaf == {Bind("x"), Bind("y"), Nothing}
Pairs(S) == {<<p, q>> : p \in S, q \in S}

Level1 ==
    Leaf \cup {All(s) : s \in Pairs(Leaf)} \cup {Either(s) : s \in Pairs(Leaf)}
    \cup {Either(<<Bind("x"), p, Bind("x")>>) : p \in Leaf}

Level2 == {All(s) : s \in Pairs(Level1)} \cup {Either(s) : s \in Pairs(Level1)}

MatchOn(params, pattern) ==
    Fn(params,
       Block(<<[kind |-> "Match", scrutinee |-> Use("x"),
                arms |-> <<[kind |-> "Arm", pattern |-> pattern, body |-> All(<<Use("x"), Use("y")>>)],
                           [kind |-> "Arm", pattern |-> Bind("x"), body |-> Use("x")]>>]>>,
             <<Use("x")>>))

Patterns(params, S) == {MatchOn(params, p) : p \in S}

-----------------------------------------------------------------------------
Simple == {Use("x"), Decl("x", Use("x")), Decl("y", Use("x")), Decl("x", Nothing)}
Body(S) == {Block(<<s>>, <<Use("x")>>) : s \in S}

Nested ==
    Simple \cup Body(Simple)
    \cup {If(c, b, e) : c \in {Plain(Use("x")), Binds("x", Use("x")), Binds("y", Use("y"))},
                        b \in Body(Simple), e \in {<<>>, <<Block(<<>>, <<Use("x")>>)>>}}
    \cup {While(c, b) : c \in {Plain(Use("y")), Binds("x", Use("x"))}, b \in Body(Simple)}

\* A file of two functions and a constant: nothing leaks between items.
File(params, s, t) ==
    All(<<Fn(params, Block(<<s, t>>, <<Use("x")>>)),
          [kind |-> "Const", init |-> Use("x")],
          Fn(<<Bind("x")>>, Block(<<Decl("x", Use("x"))>>, <<Use("x")>>))>>)

Files(params, S, T) == {File(params, s, t) : s \in S, t \in T}

MCPrograms ==
    {Patterns(<<>>, Level1), Patterns(<<>>, Level2), Patterns(<<Bind("self"), Bind("x")>>, Level2),
     Patterns(<<Bind("x"), Bind("x")>>, Level1),
     Files(<<>>, Nested, Nested), Files(<<Bind("x")>>, Body(Nested), Simple),
     Files(<<>>, Body(Nested), Simple)}

=============================================================================
