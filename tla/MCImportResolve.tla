-------------------------- MODULE MCImportResolve ---------------------------
(***************************************************************************)
(* Small module graphs for ImportResolve.  Three families, so that each    *)
(* question gets the inputs it needs without one huge product:             *)
(*   Mutual   two sibling modules that import from each other, up to two   *)
(*            uses each (cycles, false cycles, chains, renames)            *)
(*   Paths    chain and star of three modules, every kind of path (heads,  *)
(*            middle segments, the package's own name, errors)             *)
(*   Spaces   one name in several namespaces, re-exported and re-imported  *)
(***************************************************************************)
EXTENDS ImportResolve, TLC

U(path, alias, pub) == [path |-> path, alias |-> alias, pub |-> pub]
D(kind, name, pub) == [kind |-> kind, name |-> name, pub |-> pub]

UpTo2(S) == {<<>>} \cup {<<x>> : x \in S} \cup {<<x, y>> : x \in S, y \in S}
UpTo3(S) == UpTo2(S) \cup {<<x, y, z>> : x \in S, y \in S, z \in S}

\* A function on 0 .. Len(s)-1 from a sequence.
At(s) == IF Len(s) = 3
         THEN 0 :> s[1] @@ 1 :> s[2] @@ 2 :> s[3]
         ELSE 0 :> s[1] @@ 1 :> s[2] @@ 2 :> s[3] @@ 3 :> s[4]

Graph(parent, label, decls, uses) ==
    [count |-> Len(parent), parent |-> At(parent), label |-> At(label),
     decls |-> At(decls), uses |-> At(uses)]

Star3(decls, uses) == Graph(<<kNoModule, 0, 0>>, <<"", "p", "q">>, decls, uses)

-----------------------------------------------------------------------------
FromSibling(m) ==
    {U(<<"package", m, x>>, NoAlias, pub) : x \in {"a", "b"}, pub \in BOOLEAN}
    \cup {U(<<"super", m, "a">>, "b", pub) : pub \in BOOLEAN}

Mutual ==
    {Star3(<<{}, dp, dq>>, <<u0, up, uq>>) :
        dp \in {{}, {D("Fn", "a", TRUE)}},
        dq \in {{}, {D("Fn", "b", TRUE)}, {D("Struct", "a", TRUE)}},
        u0 \in {<<>>, <<U(<<"p", "b">>, NoAlias, TRUE)>>},
        up \in UpTo2(FromSibling("q")),
        uq \in UpTo2(FromSibling("p"))}

-----------------------------------------------------------------------------
Heads == {"package", "pkg", "self", "super", "p", "q"}

AnyPath ==
    {<<"a">>}
    \cup {<<h, x>> : h \in Heads, x \in {"a", "b", "q"}}
    \cup {<<h, s, x>> : h \in Heads, s \in {"p", "q"}, x \in {"a", "b"}}
    \cup {<<h, "p", "q", x>> : h \in {"package", "pkg", "super"}, x \in {"a", "b"}}

Paths ==
    {Graph(parent, <<"", "p", "q">>,
           <<{D("Const", "b", TRUE)}, {D("Fn", "a", FALSE)}, {D("Enum", "a", TRUE)}>>,
           <<u0, <<U(path, alias, TRUE)>>, u2>>) :
        parent \in {<<kNoModule, 0, 0>>, <<kNoModule, 0, 1>>},
        path \in AnyPath, alias \in {NoAlias, "c"},
        u0 \in {<<>>, <<U(<<"p", "c">>, NoAlias, FALSE)>>, <<U(<<"super", "b">>, NoAlias, FALSE)>>},
        u2 \in {<<>>} \cup {<<U(<<h, x>>, "b", TRUE)>> : h \in {"self", "super"}, x \in {"a", "b"}}}

-----------------------------------------------------------------------------
SpaceUse ==
    {U(<<"package", "a">>, NoAlias, TRUE), U(<<"package", "q", "a">>, NoAlias, TRUE),
     U(<<"package", "q", "a">>, "c", FALSE), U(<<"self", "a">>, "c", TRUE),
     U(<<"self", "c">>, "a", FALSE), U(<<"package", "h", "c">>, "b", TRUE)}

Spaces ==
    {Graph(<<kNoModule, 0, 0, 0>>, <<"", "a", "q", "h">>,
           <<{}, {}, {D("Fn", "a", TRUE)}, {}>>, <<u0, <<>>, <<>>, uh>>) :
        u0 \in {<<>>} \cup {<<U(<<"h", x>>, y, FALSE)>> : x \in {"a", "b", "c"}, y \in {NoAlias, "c"}},
        uh \in UpTo3(SpaceUse)}

-----------------------------------------------------------------------------
MCName == {"a", "b", "c", "p", "q", "h", "pkg"}
MCFamilies == {Mutual, Paths, Spaces}

=============================================================================
