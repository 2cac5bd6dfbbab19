---------------------------- MODULE MCModuleTree ----------------------------
(***************************************************************************)
(* Small packages for ModuleTree: a root main.al beside any of the files   *)
(* a.al, a/mod.al, a/a.al, a/b.al, b.al; up to two `mod` items in the root *)
(* (files, the root's own name, inline bodies), up to one in each other    *)
(* block, and inline bodies nested twice.                                  *)
(***************************************************************************)
EXTENDS ModuleTree, TLC

F(dir, stem) == [dir |-> dir, stem |-> stem]

Others == <<F(<<>>, "a"), F(<<"a">>, "mod"), F(<<"a">>, "a"), F(<<"a">>, "b"), F(<<>>, "b")>>

ModFile(name) == [name |-> name, body |-> NoFile]
ModInline(name, body) == [name |-> name, body |-> body]

UpTo1(S) == {<<>>} \cup {<<x>> : x \in S}
UpTo2(S) == UpTo1(S) \cup {<<x, y>> : x \in S, y \in S}

\* Blocks n+1 and n+2 are inline bodies, the first in the root, the second in
\* the first; every file but the root has the same items.
Package(files, root, each, outer, inner) ==
    LET n == Len(files) IN
    [files |-> files, root |-> 1,
     mods  |-> <<root>> \o [i \in 1 .. n - 1 |-> each] \o <<outer, inner>>,
     decls |-> [b \in 1 .. n + 2 |-> {}],
     uses  |-> [b \in 1 .. n + 2 |-> <<>>]]

PackagesWith(files) ==
    LET n == Len(files) IN
    {Package(files, root, each, outer, inner) :
        root  \in UpTo2({ModFile("a"), ModFile("b"), ModFile("main"), ModInline("a", n + 1),
                         ModInline("b", n + 1)}),
        each  \in UpTo1({ModFile("a"), ModFile("b")}),
        outer \in UpTo2({ModFile("a"), ModInline("b", n + 2)}),
        inner \in UpTo1({ModFile("a"), ModFile("b")})}

MCName == {"a", "b", "main"}
MCPackageFamilies ==
    {PackagesWith(<<F(<<>>, "main")>> \o SelectSeq(Others, LAMBDA f : f \in S)) :
        S \in SUBSET {Others[i] : i \in 1 .. Len(Others)}}

=============================================================================
