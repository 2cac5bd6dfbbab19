----------------------------- MODULE ModuleTree -----------------------------
(***************************************************************************)
(* analyzer/resolve.cc, the tree half of Resolver::run: build_tree and     *)
(* build_children turn the loaded files of a package into its modules.     *)
(* collect_locals only reads the result: it is LocalNames of ModuleGraph.  *)
(*                                                                         *)
(* A package p, as lexed and parsed:                                       *)
(*   p.files    the files, each by its directory below the package's and   *)
(*              its stem: <dir>/<stem>.al; p.root is the root file         *)
(*   p.mods[b]  the `mod` items of block b in source order.  Block f is    *)
(*              file f's top level, later blocks are inline bodies; an     *)
(*              item has the block of its body, 0 for `mod name;`          *)
(*   p.decls[b], p.uses[b]  the block's other items, see ModuleGraph       *)
(***************************************************************************)
EXTENDS ModuleGraph

CONSTANT PackageFamilies     \* sets of packages the tree is built for

\* `mod` is a keyword, so no `mod` item is called mod, but mod.al is a file.
Stem == Name \cup {"mod"}
File == [dir : Seq(Name), stem : Stem]
Mod == [name : Name, body : Nat]

NoFile == 0     \* kUnknownFile, and `mod name;` has no block of its own

IsPackage(p) ==
    /\ p.files \in Seq(File) /\ p.root \in 1 .. Len(p.files)
    /\ \A f, g \in 1 .. Len(p.files) : p.files[f] = p.files[g] => f = g
    /\ p.mods \in Seq(Seq(Mod)) /\ Len(p.mods) >= Len(p.files)
    /\ \A b \in 1 .. Len(p.mods) : \A i \in 1 .. Len(p.mods[b]) :
           \/ p.mods[b][i].body = NoFile
           \/ p.mods[b][i].body \in Len(p.files) + 1 .. Len(p.mods) /\ p.mods[b][i].body > b
    /\ p.decls \in [1 .. Len(p.mods) -> SUBSET Decl]
    /\ p.uses \in [1 .. Len(p.mods) -> Seq(Use)]
    /\ \A b \in 1 .. Len(p.mods) : \A i \in 1 .. Len(p.uses[b]) :
           Len(p.uses[b][i].path) > 0

\* lexer.cc: `mod` is a keyword.
ASSUME NameAssumption == "mod" \notin Name

ASSUME PackagesAssumption == \A F \in PackageFamilies : \A p \in F : IsPackage(p)

VARIABLES
    pkg,            \* the package; constant once chosen
    nodes,          \* modules, parents, mod_dirs: module m is nodes[m + 1]
    worklist,       \* modules whose children are not built yet, popped last first
    module,         \* the module build_children works on, or kNoModule
    at,             \* how many of its `mod` items are behind it
    declared,       \* build_children's names seen so far
    file_module,    \* FileData::module
    diags,          \* diagnostics emitted
    finished        \* build_tree has returned

vars == <<pkg, nodes, worklist, module, at, declared, file_module, diags, finished>>

Node == [label : Name \cup {""}, block : Nat, file : Nat, parent : Nat \cup {kNoModule},
         dir : Seq(Name)]

Diag == [code : {"DuplicateModule", "MissingModuleFile", "UnreachableFile"},
         module : Nat \cup {kNoModule}, item : Nat]

FileIds == 1 .. Len(pkg.files)

Init ==
    /\ \E F \in PackageFamilies : pkg \in F
    /\ nodes = <<[label |-> "", block |-> pkg.root, file |-> pkg.root,
                  parent |-> kNoModule, dir |-> pkg.files[pkg.root].dir]>>
    /\ worklist = <<0>>
    /\ module = kNoModule
    /\ at = 0
    /\ declared = {}
    /\ file_module = [f \in FileIds |-> IF f = pkg.root THEN 0 ELSE kNoModule]
    /\ diags = {}
    /\ finished = FALSE

-----------------------------------------------------------------------------
(***************************************************************************)
(* build_children.                                                         *)
(***************************************************************************)
This == nodes[module + 1]
Items == pkg.mods[This.block]
Item == Items[at + 1]

\* Mutant: worklist.back() without pop_back().
BuildChildrenNoPop ==
    /\ module = kNoModule /\ worklist # <<>>
    /\ module' = worklist[Len(worklist)]
    /\ at' = 0 /\ declared' = {}
    /\ UNCHANGED <<pkg, nodes, worklist, file_module, diags, finished>>

BuildChildren ==
    /\ module = kNoModule /\ worklist # <<>>
    /\ module' = worklist[Len(worklist)]
    /\ worklist' = SubSeq(worklist, 1, Len(worklist) - 1)
    /\ at' = 0 /\ declared' = {}
    /\ UNCHANGED <<pkg, nodes, file_module, diags, finished>>

AtItem == module # kNoModule /\ at < Len(Items)

Report(code) ==
    diags' = diags \cup {[code |-> code, module |-> module, item |-> at + 1]}

DuplicateMod ==
    /\ AtItem /\ Item.name \in declared
    /\ Report("DuplicateModule")
    /\ at' = at + 1
    /\ UNCHANGED <<pkg, nodes, worklist, module, declared, file_module, finished>>

\* add_module and the bookkeeping of a new child.
AddChild(block, file, dir) ==
    /\ nodes' = Append(nodes, [label |-> Item.name, block |-> block, file |-> file,
                               parent |-> module, dir |-> dir])
    /\ worklist' = Append(worklist, Len(nodes))

\* Mutant: inline bodies are not entered in the list of names seen.
InlineModUndeclared ==
    /\ AtItem /\ Item.name \notin declared
    /\ Item.body # NoFile
    /\ AddChild(Item.body, NoFile, This.dir)
    /\ at' = at + 1
    /\ UNCHANGED <<pkg, module, declared, file_module, diags, finished>>

\* An inline module's files live in its parent's directory.
InlineMod ==
    /\ AtItem /\ Item.name \notin declared
    /\ Item.body # NoFile
    /\ AddChild(Item.body, NoFile, This.dir)
    /\ declared' = declared \cup {Item.name}
    /\ at' = at + 1
    /\ UNCHANGED <<pkg, module, file_module, diags, finished>>

\* The files that <dir>/<name>.al and, failing it, <dir>/<name>/mod.al find.
Candidates(dir, name) ==
    LET flat   == {f \in FileIds : pkg.files[f] = [dir |-> dir, stem |-> name]}
        nested == {f \in FileIds : pkg.files[f] = [dir |-> Append(dir, name), stem |-> "mod"]}
    IN  IF flat # {} THEN flat ELSE nested

\* Mutant: the missing file is skipped without a diagnostic.
MissingModSilent ==
    /\ AtItem /\ Item.name \notin declared
    /\ Item.body = NoFile
    /\ Candidates(This.dir, Item.name) = {}
    /\ declared' = declared \cup {Item.name}
    /\ at' = at + 1
    /\ UNCHANGED <<pkg, nodes, worklist, module, file_module, diags, finished>>

MissingMod ==
    /\ AtItem /\ Item.name \notin declared
    /\ Item.body = NoFile
    /\ Candidates(This.dir, Item.name) = {}
    /\ Report("MissingModuleFile")
    /\ declared' = declared \cup {Item.name}
    /\ at' = at + 1
    /\ UNCHANGED <<pkg, nodes, worklist, module, file_module, finished>>

\* Mutant: a child's files are looked for next to its own file.
FileModSameDir ==
    /\ AtItem /\ Item.name \notin declared
    /\ Item.body = NoFile
    /\ \E f \in Candidates(This.dir, Item.name) :
          /\ AddChild(f, f, This.dir)
          /\ file_module' = [file_module EXCEPT ![f] = Len(nodes)]
    /\ declared' = declared \cup {Item.name}
    /\ at' = at + 1
    /\ UNCHANGED <<pkg, module, diags, finished>>

\* Mutant: the file is not marked as reached.
FileModUnmarked ==
    /\ AtItem /\ Item.name \notin declared
    /\ Item.body = NoFile
    /\ \E f \in Candidates(This.dir, Item.name) :
          AddChild(f, f, Append(This.dir, Item.name))
    /\ declared' = declared \cup {Item.name}
    /\ at' = at + 1
    /\ UNCHANGED <<pkg, module, file_module, diags, finished>>

\* A file may back a second module: file_module keeps the last.
FileMod ==
    /\ AtItem /\ Item.name \notin declared
    /\ Item.body = NoFile
    /\ \E f \in Candidates(This.dir, Item.name) :
          /\ AddChild(f, f, Append(This.dir, Item.name))
          /\ file_module' = [file_module EXCEPT ![f] = Len(nodes)]
    /\ declared' = declared \cup {Item.name}
    /\ at' = at + 1
    /\ UNCHANGED <<pkg, module, diags, finished>>

ChildrenBuilt ==
    /\ module # kNoModule /\ at = Len(Items)
    /\ module' = kNoModule
    /\ UNCHANGED <<pkg, nodes, worklist, at, declared, file_module, diags, finished>>

-----------------------------------------------------------------------------
\* The end of build_tree.
WarnUnreachable ==
    /\ module = kNoModule /\ worklist = <<>> /\ ~finished
    /\ diags' = diags \cup
          {[code |-> "UnreachableFile", module |-> kNoModule, item |-> f] :
               f \in {g \in FileIds : file_module[g] = kNoModule}}
    /\ finished' = TRUE
    /\ UNCHANGED <<pkg, nodes, worklist, module, at, declared, file_module>>

Terminated == finished /\ UNCHANGED vars

Next ==
    \/ BuildChildren \/ DuplicateMod \/ InlineMod \/ MissingMod \/ FileMod
    \/ ChildrenBuilt \/ WarnUnreachable
    \/ Terminated

\* One thread builds the tree to its end: it never stops by itself.
Spec == Init /\ [][Next]_vars /\ WF_vars(Next)

\* The module graph the tree leaves for import resolution.
Graph ==
    [count  |-> Len(nodes),
     parent |-> [m \in 0 .. Len(nodes) - 1 |-> nodes[m + 1].parent],
     label  |-> [m \in 0 .. Len(nodes) - 1 |-> nodes[m + 1].label],
     decls  |-> [m \in 0 .. Len(nodes) - 1 |-> pkg.decls[nodes[m + 1].block]],
     uses   |-> [m \in 0 .. Len(nodes) - 1 |-> pkg.uses[nodes[m + 1].block]]]

-----------------------------------------------------------------------------
(***************************************************************************)
(* Properties.                                                             *)
(***************************************************************************)
Nodes == 0 .. Len(nodes) - 1

NodeOK(p, n, m) ==
    /\ n \in Node
    /\ n.block \in 1 .. Len(p.mods)
    /\ n.file \in 0 .. Len(p.files)
    /\ n.parent \in {kNoModule} \cup (0 .. m - 1)

\* Every variable has its type: blocks, files and parents exist.
TypeOK ==
    /\ IsPackage(pkg)
    /\ nodes \in Seq(Node) /\ nodes # <<>>
    /\ \A m \in Nodes : NodeOK(pkg, nodes[m + 1], m)
    /\ worklist \in Seq(Nodes)
    /\ module \in Nodes \cup {kNoModule}
    /\ at \in Nat
    /\ module # kNoModule => at <= Len(Items)
    /\ declared \subseteq Name
    /\ file_module \in [FileIds -> Nodes \cup {kNoModule}]
    /\ diags \subseteq Diag
    /\ finished \in BOOLEAN

\* At any moment the tree built so far is a module graph in the sense import
\* resolution assumes (FamiliesAssumption of ImportResolve): one root, parents
\* before children, and no two children of a module share a name, so that
\* find_child_module and the paths in ModuleNode::path mean one module.
YieldsModuleGraph == IsModuleGraph(Graph)

\* Every `mod` item of every module ends as a child module or a diagnostic.
EveryModAccounted ==
    finished =>
        \A m \in Nodes : \A i \in 1 .. Len(pkg.mods[nodes[m + 1].block]) :
            \/ \E c \in Nodes : nodes[c + 1].parent = m /\
                  nodes[c + 1].label = pkg.mods[nodes[m + 1].block][i].name
            \/ \E d \in diags : d.module = m /\ d.item = i

\* docs/spec/modules.md:9-10, a file that no `mod` declaration reaches is
\* warned about; and only such a file is, even when two modules share one.
UnreachableWarned ==
    finished =>
        \A f \in FileIds :
            (\E d \in diags : d.code = "UnreachableFile" /\ d.item = f)
                <=> \A m \in Nodes : nodes[m + 1].file # f

\* Proper ancestors of each module.
Ancestors[m \in Nodes] ==
    IF m = 0 THEN {} ELSE {nodes[m + 1].parent} \cup Ancestors[nodes[m + 1].parent]

\* A file never comes back below itself, so a package of finitely many files
\* has finitely many modules. The exception is the root file, whose directory
\* is not extended by a name: `mod main;` in main.al is main.al once more.
NoFileRecursion ==
    \A m \in Nodes : \A a \in Ancestors[m] :
        nodes[m + 1].file # NoFile /\ a # 0 => nodes[a + 1].file # nodes[m + 1].file

\* The worklist runs dry and build_tree returns.
Termination == <>finished

=============================================================================
