---------------------------- MODULE ModuleGraph ----------------------------
(***************************************************************************)
(* The module graph that analyzer/resolve.cc resolves imports over: what   *)
(* build_tree and collect_locals leave behind, as one value p.             *)
(*                                                                         *)
(*   p.count      number of modules; a module is its index of creation, so *)
(*                0 is the package root and a parent precedes its children *)
(*   p.parent[m]  Resolver::parents, kNoModule for the root                *)
(*   p.label[m]   the last segment of ModuleNode::path ("" for the root)   *)
(*   p.decls[m]   the named items of m, without its `mod`s and `use`s      *)
(*   p.uses[m]    the `use` items of m in source order                     *)
(*                                                                         *)
(* Spans, files and item bodies are left out: no lookup reads them.        *)
(***************************************************************************)
EXTENDS Integers, Sequences, FiniteSets

CONSTANTS
    Name,          \* identifiers a program may spell
    PackageName    \* Resolver::package_name, a head that means the root

ASSUME PackageNameAssumption == PackageName \in Name

kNoModule == -1

\* The keywords a path may contain: no item can be called by one.
Keyword == {"package", "self", "super", "Self"}
Segment == Name \cup Keyword

Namespace == {"Module", "Type", "Value"}

DeclKind == {"Struct", "Enum", "Fn", "Static", "Const"}
Decl == [kind : DeclKind, name : Name, pub : BOOLEAN]

\* ast::UseItem; the alias "" stands for has_alias = false.
NoAlias == ""
Use == [path : Seq(Segment), alias : Name \cup {NoAlias}, pub : BOOLEAN]

Member(u) == u.path[Len(u.path)]
BoundName(u) == IF u.alias = NoAlias THEN Member(u) ELSE u.alias

-----------------------------------------------------------------------------
(***************************************************************************)
(* The tree.                                                               *)
(***************************************************************************)
Modules(p) == 0 .. p.count - 1

Children(p, m) == {c \in Modules(p) : p.parent[c] = m}

IsModuleGraph(p) ==
    /\ p.count \in Nat \ {0}
    /\ p.parent \in [Modules(p) -> Modules(p) \cup {kNoModule}]
    /\ p.label \in [Modules(p) -> Name \cup {""}]
    /\ p.decls \in [Modules(p) -> SUBSET Decl]
    /\ p.uses \in [Modules(p) -> Seq(Use)]
    \* parse_path never returns a path without segments.
    /\ \A m \in Modules(p) : \A i \in 1 .. Len(p.uses[m]) :
           Len(p.uses[m][i].path) > 0
    \* add_module: the root first, then every child after its parent.
    /\ p.parent[0] = kNoModule
    /\ \A m \in Modules(p) \ {0} : p.parent[m] \in 0 .. m - 1
    \* build_children skips a second `mod` of the same name.
    /\ \A c, d \in Modules(p) \ {0} :
           p.parent[c] = p.parent[d] /\ p.label[c] = p.label[d] => c = d

-----------------------------------------------------------------------------
(***************************************************************************)
(* Lookups.                                                                *)
(***************************************************************************)
FindChildModule(p, m, name) ==
    IF \E c \in Children(p, m) : p.label[c] = name
    THEN CHOOSE c \in Children(p, m) : p.label[c] = name
    ELSE kNoModule

\* collect_locals: a struct or enum names a type and its constructor; a
\* function, static or constant names a value; a child names a module.
LocalNames(p, m, ns) ==
    CASE ns = "Type"   -> {d.name : d \in {e \in p.decls[m] : e.kind \in {"Struct", "Enum"}}}
      [] ns = "Value"  -> {d.name : d \in p.decls[m]}
      [] ns = "Module" -> {p.label[c] : c \in Children(p, m)}

HasLocal(p, m, name) == \E ns \in Namespace : name \in LocalNames(p, m, ns)

\* The module a path's first segment names, seen from m; kNoModule when it
\* names none. The package's own name wins over a child of that name.
HeadModule(p, m, head) ==
    CASE head \in {"package", PackageName} -> 0
      [] head = "self"  -> m
      [] head = "super" -> p.parent[m]
      [] OTHER          -> FindChildModule(p, m, head)

=============================================================================
