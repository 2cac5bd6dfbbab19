------------------------------ MODULE MCDriver ------------------------------
(***************************************************************************)
(* Workspaces for Driver: trees of three packages, a and b side by side    *)
(* and n nested in a, seen from a under two spellings and from a file.     *)
(***************************************************************************)
EXTENDS DriverChecks

MCPart == {"", ".", "..", "w", "a", "b", "n", "src", "m.al", "notes"}

A == <<"w", "a">>
B == <<"w", "b">>
N == <<"w", "a", "n">>

\* Ways from each package to the others, and itself.
Ways == (A :> {<<"..", "b">>, <<"n">>, <<".">>})
     @@ (B :> {<<"..", "a">>, <<".", "..", "a", "n", "">>})
     @@ (N :> {<<"..">>, <<"..", "..", "b">>, <<"..", "n">>})

UpToTwo(S) == {<<>>} \cup {<<x>> : x \in S} \cup {<<x, y>> : x \in S, y \in S}

Package(deps, bins) == [kind |-> "good", deps |-> deps, bins |-> bins]
Bad == [kind |-> "bad", deps |-> <<>>, bins |-> <<>>]

Manifests(place) == {Package(d, <<>>) : d \in UpToTwo(Ways[place])} \cup {NoManifest, Bad}

Present(m) == [d \in {p \in DOMAIN m : m[p].kind # "missing"} |-> m[d]]

AllFiles == {A \o <<"src", "m.al">>, B \o <<"m.al">>, B \o <<"notes">>, N \o <<"m.al">>}

FileTree(m, present, unreadable) ==
    [manifests |-> Present(m), files |-> present, unreadable |-> unreadable]

\* Every graph of dependencies.
Graphs == {FileTree((A :> a) @@ (B :> b) @@ (N :> n), AllFiles, {}) :
             a \in Manifests(A), b \in Manifests(B), n \in Manifests(N)}

\* Every set of files, readable or not, of a that depends on b.
Bins == {<<>>, << <<"src", "m.al">> >>, << <<".", "n", "..", "src", "m.al">> >>,
         << <<"n", "m.al">> >>, << <<"m.al">>, <<"src", "m.al">> >>}
Disks == {FileTree((A :> Package(d, bins)) @@ (B :> Package(<<>>, <<>>)) @@ (N :> n), present, bad) :
            d \in {<<>>, << <<"..", "b">> >>}, bins \in Bins,
            n \in {NoManifest, Package(<<>>, <<>>)},
            present \in SUBSET AllFiles, bad \in {{}, {A \o <<"src", "m.al">>}, {B \o <<"m.al">>}}}
Bare == {FileTree((A :> NoManifest), present, bad) :
            present \in SUBSET AllFiles, bad \in {{}, {A \o <<"src", "m.al">>}}}

Raw(absolute, parts) == [absolute |-> absolute, parts |-> parts]
FromHere == Raw(FALSE, <<>>)
FromTop == Raw(TRUE, <<"w", "b", "..", "a", "">>)
OneFile == Raw(FALSE, <<"src", "m.al">>)

MCWorkspaces ==
    {View(t, raw) : t \in Graphs, raw \in {FromHere, FromTop}}
    \cup {View(t, raw) : t \in Disks \cup Bare, raw \in {FromHere, OneFile}}

=============================================================================
