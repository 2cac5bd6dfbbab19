---------------------------- MODULE DriverChecks ----------------------------
(***************************************************************************)
(* What a run of Driver owes to the file tree itself, whatever spellings   *)
(* its paths have.                                                         *)
(***************************************************************************)
EXTENDS Driver, Workspace

\* Parts that are names, none of them a step.
Names(s) == s \in Seq(Part) /\ \A i \in 1 .. Len(s) : s[i] \notin {"", ".", ".."}

\* A workspace of Driver shows what a tree has at its directories: the manifest at
\* their place, its dependencies as join spells them, the files of a walk.
Shows(w, tree) ==
    /\ \A d \in w.dirs :
          /\ d \in [absolute : BOOLEAN, ups : Nat, names : Seq(Part)]
          /\ w.manifests[d].kind = ManifestAtPlace(tree, PlaceOf(d)).kind
          /\ w.manifests[d].deps = JoinedDeps(tree, d)
          /\ w.sources[d] = walk_sources(tree, d)
    /\ \A place \in DOMAIN tree.manifests : tree.manifests[place].deps \in Seq(Seq(Part))
    /\ \A f \in tree.files : Names(f)

ASSUME WorkspacesShowTrees == \A w \in Workspaces : Shows(w, w.tree)

-----------------------------------------------------------------------------
Tree == workspace.tree
Start == PlaceOf(Target)

\* The places a package depends on, following its paths as the system does.
DependsOn(place) ==
    LET deps == ManifestAtPlace(Tree, place).deps
    IN  {Follow(place, deps[i]) : i \in 1 .. Len(deps)}

Places == DOMAIN Tree.manifests \cup UNION {DependsOn(p) : p \in DOMAIN Tree.manifests}

\* The least set that holds the places and, with each, all it depends on.
Needed(places) ==
    LET all == places \cup Places
    IN  {p \in all : \A P \in SUBSET all :
            places \subseteq P /\ (\A q \in P : DependsOn(q) \subseteq P) => p \in P}

OnCycle(place) == place \in Needed(DependsOn(place))

Resolvable ==
    \A p \in Needed({Start}) : ManifestAtPlace(Tree, p).kind = "good" /\ ~OnCycle(p)

-----------------------------------------------------------------------------
\* The dependencies of the resolved packages, each by who needs it and as which.
Uses == UNION {{i} \X (1 .. Len(Deps(resolved[i]))) : i \in 1 .. Len(resolved)}

\* pkg/resolve.h:27-31: a build gets past resolve_package exactly if every package
\* that the target needs has a manifest that parses and none needs itself, in
\* whatever spelling; the result is then those packages, once for each way
\* from the target.
ResolvesExactly ==
    command = "build" /\ LoadsManifest(Target) =>
        /\ stage \in {"discover", "load"} =>
              /\ Resolvable
              /\ {PlaceOf(resolved[i]) : i \in 1 .. Len(resolved)} = Needed({Start})
              /\ \A p \in Needed({Start}) \ {Start} :
                    Cardinality({i \in 1 .. Len(resolved) : PlaceOf(resolved[i]) = p}) =
                    Cardinality({u \in Uses : PlaceOf(Deps(resolved[u[1]])[u[2]]) = p})
        /\ stage = "exited" /\ diags \cap {"Cycle", "ManifestIo", "ManifestInvalid"} # {} =>
              ~Resolvable

\* pipeline.h:20-23: two packages of one build share no source file; a file of
\* a nested package is its alone.
PackagesShareNoFile ==
    stage \in {"discover", "load"} =>
        \A i, j \in 1 .. Len(resolved) :
            PlaceOf(resolved[i]) # PlaceOf(resolved[j]) =>
                {PlaceOf(f) : f \in workspace.sources[resolved[i]]} \cap
                {PlaceOf(f) : f \in workspace.sources[resolved[j]]} = {}

\* Every command ends: cyclic, shared and nested dependencies in any spelling.
Termination == <>(stage = "exited")

=============================================================================
