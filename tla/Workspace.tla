------------------------------ MODULE Workspace -----------------------------
(***************************************************************************)
(* A file tree as the driver sees it from one target: path/path.cc, which  *)
(* spells paths, and walk_sources of pipeline.cc, which collects files.    *)
(*                                                                         *)
(* A tree is [manifests, files, unreadable]: manifests by directory, with  *)
(* dependency and bin paths as written, the regular files, those of them   *)
(* that do not open.  A place in the tree is the sequence of names from    *)
(* its top.  There are no symbolic links.                                  *)
(***************************************************************************)
EXTENDS Integers, Sequences, FiniteSets, SequencesExt

CONSTANTS
    Part,          \* what paths are made of: names, and "", "." and ".."
    Cwd,           \* the place the program runs in
    SourceName,    \* file names that end in .al
    Steps          \* dependencies are followed this many times from a target

ASSUME PartAssumption == {"", ".", ".."} \subseteq Part
ASSUME CwdAssumption == Cwd \in Seq(Part)

\* A canonical path: up some directories, from the current one or the top,
\* then down by names.
Path(absolute, ups, names) == [absolute |-> absolute, ups |-> ups, names |-> names]

\* Mutant: a `..` with no name before it is dropped from relative paths too.
UpAsFromTop(p) ==
    [p EXCEPT !.names = IF p.names = <<>> THEN <<>> ELSE Front(p.names)]

Up(p) ==
    IF p.names # <<>> THEN [p EXCEPT !.names = Front(@)]
    ELSE IF p.absolute THEN p ELSE [p EXCEPT !.ups = @ + 1]

Added(p, part) ==
    CASE part \in {"", "."} -> p
      [] part = ".."        -> Up(p)
      [] OTHER              -> [p EXCEPT !.names = Append(@, part)]

normalize_canonical(absolute, parts) ==
    LET at[n \in 0 .. Len(parts)] ==
            IF n = 0 THEN Path(absolute, 0, <<>>) ELSE Added(at[n - 1], parts[n])
    IN  at[Len(parts)]

from_native(raw) == normalize_canonical(raw.absolute, raw.parts)

Ups(n) == [i \in 1 .. n |-> ".."]

\* An absolute-looking child is appended like any other.
join(p, child) ==
    normalize_canonical(p.absolute, Ups(p.ups) \o p.names \o child)

\* What the operating system finds at a path; the top is its own parent.
Parent(place) == IF place = <<>> THEN <<>> ELSE Front(place)

Moved(place, part) ==
    CASE part \in {"", "."} -> place
      [] part = ".."        -> Parent(place)
      [] OTHER              -> Append(place, part)

Follow(place, parts) ==
    LET at[n \in 0 .. Len(parts)] == IF n = 0 THEN place ELSE Moved(at[n - 1], parts[n])
    IN  at[Len(parts)]

Base(p) == IF p.absolute THEN <<>> ELSE Cwd

PlaceOf(p) ==
    Follow(Base(p), Ups(p.ups) \o p.names)

-----------------------------------------------------------------------------
NoManifest == [kind |-> "missing", deps |-> <<>>, bins |-> <<>>]

ManifestAtPlace(tree, place) ==
    IF place \in DOMAIN tree.manifests THEN tree.manifests[place] ELSE NoManifest

Contents(tree) == tree.files \cup {Append(d, "alcy.toml") : d \in DOMAIN tree.manifests}

is_directory(tree, place) == \E f \in Contents(tree) : IsStrictPrefix(place, f)

\* Mutant: a package nested in another is walked as part of it.
never_nested(tree, place) == FALSE

is_nested_package(tree, place) == ManifestAtPlace(tree, place).kind # "missing"

\* Directories between the one walked and the file are entered unless they
\* are packages; the first is not tested.
walk_sources(tree, dir) ==
    LET top == PlaceOf(dir)
    IN  {[dir EXCEPT !.names = @ \o SubSeq(f, Len(top) + 1, Len(f))] :
            f \in {g \in tree.files :
                     /\ IsStrictPrefix(top, g) /\ Last(g) \in SourceName
                     /\ \A k \in Len(top) + 1 .. Len(g) - 1 :
                           ~is_nested_package(tree, SubSeq(g, 1, k))}}

-----------------------------------------------------------------------------
(***************************************************************************)
(* The workspace of module Driver: the tree through the paths that the     *)
(* target and its dependencies are spelled with.                           *)
(***************************************************************************)
JoinedDeps(tree, dir) ==
    LET deps == ManifestAtPlace(tree, PlaceOf(dir)).deps
    IN  [i \in 1 .. Len(deps) |-> join(dir, deps[i])]

Reached(tree, dirs) ==
    FoldLeft(LAMBDA ds, step : ds \cup UNION {ToSet(JoinedDeps(tree, d)) : d \in ds},
             dirs, [i \in 1 .. Steps |-> i])

View(tree, raw) ==
    LET target == from_native(raw)
        dirs   == Reached(tree, {target})
        here   == [d \in dirs |-> ManifestAtPlace(tree, PlaceOf(d))]
        bins   == [d \in dirs |-> [i \in 1 .. Len(here[d].bins) |-> join(d, here[d].bins[i])]]
        walked == [d \in dirs |-> walk_sources(tree, d)]
        files  == UNION {walked[d] \cup ToSet(bins[d]) : d \in dirs} \cup {target}
    IN  [dirs |-> dirs, files |-> files, target |-> target,
         is_source_name |-> raw.parts # <<>> /\ Last(raw.parts) \in SourceName,
         manifests |-> [d \in dirs |-> [kind |-> here[d].kind, deps |-> JoinedDeps(tree, d),
                                        bins |-> bins[d]]],
         accessible |-> {d \in dirs : is_directory(tree, PlaceOf(d))},
         sources |-> walked,
         readable |-> {f \in files : PlaceOf(f) \in tree.files \ tree.unreadable},
         tree |-> tree]

=============================================================================
