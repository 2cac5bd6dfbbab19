------------------------- MODULE ModuleTree_proofs --------------------------
(***************************************************************************)
(* Proofs about ModuleTree, for every set of packages.  The tree it builds *)
(* satisfies the assumption import resolution makes of its input, which    *)
(* is how ModuleTree and ImportResolve compose.                            *)
(***************************************************************************)
EXTENDS ModuleTree, NatInduction, SequenceTheorems, TLAPS

-----------------------------------------------------------------------------
\* Popping the last element of a sequence.
LEMMA PopLast ==
    ASSUME NEW S, NEW s \in Seq(S), s # <<>>
    PROVE  /\ SubSeq(s, 1, Len(s) - 1) \in Seq(S)
           /\ Len(SubSeq(s, 1, Len(s) - 1)) = Len(s) - 1
           /\ \A k \in 1 .. Len(s) - 1 : SubSeq(s, 1, Len(s) - 1)[k] = s[k]
<1> DEFINE n == Len(s) - 1
<1>1. n \in Nat
  OBVIOUS
<1>2. \A i \in 1 .. n : s[i] \in S
  BY <1>1
<1> HIDE DEF n
<1>3. /\ SubSeq(s, 1, n) \in Seq(S)
      /\ Len(SubSeq(s, 1, n)) = IF 1 <= n THEN n - 1 + 1 ELSE 0
      /\ \A i \in 1 .. n - 1 + 1 : SubSeq(s, 1, n)[i] = s[1 + i - 1]
  BY <1>1, <1>2, SubSeqProperties
<1>4. /\ SubSeq(s, 1, n) \in Seq(S)
      /\ Len(SubSeq(s, 1, n)) = n
      /\ \A k \in 1 .. n : SubSeq(s, 1, n)[k] = s[k]
  BY <1>1, <1>3
<1> QED BY <1>4 DEF n

-----------------------------------------------------------------------------
(***************************************************************************)
(* Type correctness.                                                       *)
(***************************************************************************)
\* The types of what a `mod` item holds.
LEMMA ItemType ==
    ASSUME TypeOK, AtItem
    PROVE  /\ module \in Nodes /\ This \in Node /\ NodeOK(pkg, This, module)
           /\ Len(Items) \in Nat /\ at + 1 \in 1 .. Len(Items)
           /\ Item.name \in Name
           /\ Item.body \in Nat
           /\ Item.body # NoFile => Item.body \in 1 .. Len(pkg.mods)
<1>1. module \in Nodes /\ NodeOK(pkg, This, module)
  BY DEF TypeOK, AtItem, This
<1>2. This.block \in 1 .. Len(pkg.mods) /\ pkg.mods \in Seq(Seq(Mod))
  BY <1>1 DEF NodeOK, TypeOK, IsPackage
<1>3. Items \in Seq(Mod)
  BY <1>2 DEF Items
<1>4. Len(Items) \in Nat /\ at + 1 \in 1 .. Len(Items)
  BY <1>3 DEF TypeOK, AtItem
<1>5. Item \in Mod
  BY <1>3, <1>4 DEF Item
<1>6. Item.body # NoFile => Item.body \in 1 .. Len(pkg.mods)
  <2>1. Len(pkg.files) \in Nat
    BY DEF TypeOK, IsPackage
  <2>2. Item.body = NoFile \/ Item.body \in Len(pkg.files) + 1 .. Len(pkg.mods)
    BY <1>2, <1>4 DEF Item, Items, TypeOK, IsPackage
  <2>3. Len(pkg.mods) \in Nat
    BY <1>2
  <2> QED BY <2>1, <2>2, <2>3
<1> QED BY <1>1, <1>4, <1>5, <1>6 DEF NodeOK, Mod

\* A new child keeps the types of nodes and worklist.
LEMMA AddChildType ==
    ASSUME TypeOK, AtItem, NEW block \in 1 .. Len(pkg.mods), NEW file \in 0 .. Len(pkg.files),
           NEW dir \in Seq(Name), AddChild(block, file, dir), pkg' = pkg
    PROVE  /\ nodes' \in Seq(Node) /\ nodes' # <<>>
           /\ Len(nodes') = Len(nodes) + 1
           /\ \A m \in Nodes : nodes'[m + 1] = nodes[m + 1]
           /\ nodes'[Len(nodes) + 1] = [label |-> Item.name, block |-> block, file |-> file,
                                        parent |-> module, dir |-> dir]
           /\ Nodes' = Nodes \cup {Len(nodes)}
           /\ Len(nodes) \in Nat \ {0}
           /\ \A m \in Nodes' : NodeOK(pkg, nodes'[m + 1], m)
           /\ worklist' \in Seq(Nodes')
<1> DEFINE n == [label |-> Item.name, block |-> block, file |-> file,
                 parent |-> module, dir |-> dir]
<1>1. /\ nodes \in Seq(Node) /\ nodes # <<>> /\ worklist \in Seq(Nodes)
      /\ \A m \in Nodes : NodeOK(pkg, nodes[m + 1], m)
  BY DEF TypeOK
<1>2. Len(nodes) \in Nat \ {0}
  BY <1>1
<1>3. module \in Nodes /\ Item.name \in Name
  BY ItemType
<1>4. module \in 0 .. Len(nodes) - 1 /\ module \in Nat
  BY <1>2, <1>3 DEF Nodes
<1>5. n \in Node
  <2>1. block \in Nat
    <3>1. Len(pkg.mods) \in Nat
      BY DEF TypeOK, IsPackage
    <3> QED BY <3>1
  <2>2. file \in Nat
    <3>1. Len(pkg.files) \in Nat
      BY DEF TypeOK, IsPackage
    <3> QED BY <3>1
  <2> QED BY <1>3, <1>4, <2>1, <2>2 DEF Node
<1>6. NodeOK(pkg, n, Len(nodes))
  BY <1>4, <1>5 DEF NodeOK
<1>7. nodes' = Append(nodes, n) /\ worklist' = Append(worklist, Len(nodes))
  BY DEF AddChild
<1> HIDE DEF n
<1>8. /\ nodes' \in Seq(Node) /\ Len(nodes') = Len(nodes) + 1
      /\ nodes'[Len(nodes) + 1] = n
      /\ \A k \in 1 .. Len(nodes) : nodes'[k] = nodes[k]
  BY <1>1, <1>5, <1>7
<1>9. Nodes' = Nodes \cup {Len(nodes)}
  BY <1>2, <1>8 DEF Nodes
<1>10. \A m \in Nodes : nodes'[m + 1] = nodes[m + 1]
  BY <1>2, <1>8 DEF Nodes
<1>11. \A m \in Nodes' : NodeOK(pkg, nodes'[m + 1], m)
  BY <1>1, <1>6, <1>8, <1>9, <1>10
<1>12. worklist' \in Seq(Nodes')
  <2>1. worklist \in Seq(Nodes') /\ Len(nodes) \in Nodes'
    BY <1>1, <1>9
  <2> QED BY <1>7, <2>1
<1> QED BY <1>2, <1>8, <1>9, <1>10, <1>11, <1>12 DEF n

\* A diagnostic at the current item.
LEMMA ReportType ==
    ASSUME TypeOK, AtItem, NEW code \in {"DuplicateModule", "MissingModuleFile"}, Report(code)
    PROVE  diags' \subseteq Diag
<1>1. module \in Nat /\ at + 1 \in Nat
  BY ItemType DEF TypeOK, Nodes
<1> QED BY <1>1 DEF Report, Diag, TypeOK

\* A file found for a `mod` item is one of the package, and a block.
LEMMA CandidateFile ==
    ASSUME TypeOK, NEW dir, NEW name, NEW f \in Candidates(dir, name)
    PROVE  f \in FileIds /\ f \in 1 .. Len(pkg.mods) /\ f \in 0 .. Len(pkg.files)
<1>1. Len(pkg.files) \in Nat /\ Len(pkg.mods) \in Nat /\ Len(pkg.mods) >= Len(pkg.files)
  BY DEF TypeOK, IsPackage
<1>2. f \in FileIds
  BY DEF Candidates
<1> QED BY <1>1, <1>2 DEF FileIds

\* Blocks, files, directories and parents of every module exist, whatever the
\* `mod` items spell.
THEOREM TreeTypeCorrect == Spec => []TypeOK
<1>1. Init => TypeOK
  <2> SUFFICES ASSUME Init PROVE TypeOK
    OBVIOUS
  <2>1. IsPackage(pkg)
    BY PackagesAssumption DEF Init
  <2>2. /\ pkg.root \in 1 .. Len(pkg.files) /\ pkg.files \in Seq(File)
        /\ Len(pkg.files) \in Nat /\ Len(pkg.mods) \in Nat /\ Len(pkg.mods) >= Len(pkg.files)
    BY <2>1 DEF IsPackage
  <2>3. pkg.files[pkg.root].dir \in Seq(Name)
    <3>1. pkg.files[pkg.root] \in File
      BY <2>2
    <3> QED BY <3>1 DEF File
  <2> DEFINE n == [label |-> "", block |-> pkg.root, file |-> pkg.root,
                   parent |-> kNoModule, dir |-> pkg.files[pkg.root].dir]
  <2>4. /\ n \in Node /\ n.block \in 1 .. Len(pkg.mods) /\ n.file \in 0 .. Len(pkg.files)
        /\ n.parent = kNoModule
    BY <2>2, <2>3 DEF Node
  <2>5. nodes = <<n>>
    BY DEF Init
  <2> HIDE DEF n
  <2>6. nodes \in Seq(Node) /\ nodes # <<>> /\ Nodes = {0} /\ nodes[1] = n
    BY <2>4, <2>5 DEF Nodes
  <2>7. \A m \in Nodes : NodeOK(pkg, nodes[m + 1], m)
    BY <2>4, <2>6 DEF NodeOK
  <2>8. worklist \in Seq(Nodes)
    <3>1. 0 \in Nodes /\ worklist = <<0>>
      BY <2>6 DEF Init
    <3> HIDE DEF Nodes
    <3> QED BY <3>1
  <2>9. file_module \in [FileIds -> Nodes \cup {kNoModule}]
    BY <2>6 DEF Init
  <2>10. module = kNoModule
    BY DEF Init
  <2> QED BY <2>1, <2>6, <2>7, <2>8, <2>9, <2>10 DEF Init, TypeOK
<1>2. TypeOK /\ [Next]_vars => TypeOK'
  <2> SUFFICES ASSUME TypeOK, [Next]_vars PROVE TypeOK'
    OBVIOUS
  <2> USE DEF TypeOK
  <2>1. CASE BuildChildren
    <3>1. worklist \in Seq(Nodes) /\ worklist # <<>> /\ Nodes' = Nodes
      BY <2>1 DEF BuildChildren, Nodes
    <3>2. Len(worklist) \in 1 .. Len(worklist) /\ worklist[Len(worklist)] \in Nodes
      BY <3>1
    <3>3. worklist' \in Seq(Nodes)
      BY <2>1, <3>1, PopLast DEF BuildChildren
    <3>4. Len(Items)' \in Nat
      <4>1. NodeOK(pkg, nodes[worklist[Len(worklist)] + 1], worklist[Len(worklist)])
        BY <3>2
      <4>2. pkg.mods[nodes[worklist[Len(worklist)] + 1].block] \in Seq(Mod)
        <5>1. pkg.mods \in Seq(Seq(Mod))
          BY DEF IsPackage
        <5>2. nodes[worklist[Len(worklist)] + 1].block \in 1 .. Len(pkg.mods)
          BY <4>1 DEF NodeOK
        <5> QED BY <5>1, <5>2
      <4>3. Items' = pkg.mods[nodes[worklist[Len(worklist)] + 1].block]
        BY <2>1 DEF BuildChildren, Items, This
      <4> QED BY <4>2, <4>3
    <3> QED BY <2>1, <3>1, <3>2, <3>3, <3>4 DEF BuildChildren, FileIds
  <2>2. CASE DuplicateMod
    <3>1. at' \in Nat /\ at' <= Len(Items) /\ Items' = Items /\ Nodes' = Nodes
      BY <2>2, ItemType DEF DuplicateMod, Items, This, Nodes
    <3>2. diags' \subseteq Diag
      BY <2>2, ReportType DEF DuplicateMod
    <3> QED BY <2>2, <3>1, <3>2 DEF DuplicateMod, FileIds
  <2>3. ASSUME AtItem, Item.name \notin declared, NEW block \in 1 .. Len(pkg.mods),
               NEW file \in 0 .. Len(pkg.files), NEW dir \in Seq(Name),
               AddChild(block, file, dir),
               declared' = declared \cup {Item.name}, at' = at + 1,
               UNCHANGED <<pkg, module, diags, finished>>,
               \/ file_module' = file_module
               \/ file_module' = [file_module EXCEPT ![file] = Len(nodes)]
        PROVE  TypeOK'
    <3>1. /\ nodes' \in Seq(Node) /\ nodes' # <<>> /\ Nodes' = Nodes \cup {Len(nodes)}
          /\ \A m \in Nodes' : NodeOK(pkg, nodes'[m + 1], m)
          /\ worklist' \in Seq(Nodes') /\ module \in Nodes
          /\ nodes'[module + 1] = nodes[module + 1]
      BY <2>3, AddChildType, ItemType
    <3>2. at' \in Nat /\ Items' = Items /\ at' <= Len(Items)
      BY <2>3, <3>1, ItemType DEF Items, This
    <3>3. declared' \subseteq Name
      BY <2>3, ItemType
    <3>4. file_module' \in [FileIds -> Nodes' \cup {kNoModule}]
      BY <2>3, <3>1
    <3> QED BY <2>3, <3>1, <3>2, <3>3, <3>4 DEF FileIds
  <2>4. This \in Node => This.dir \in Seq(Name)
    BY DEF Node
  <2>5. CASE InlineMod
    <3>1. /\ AtItem /\ Item.body \in 1 .. Len(pkg.mods) /\ This.dir \in Seq(Name)
          /\ NoFile \in 0 .. Len(pkg.files)
      <4>1. Len(pkg.files) \in Nat
        BY DEF IsPackage
      <4> QED BY <2>4, <2>5, <4>1, ItemType DEF InlineMod, NoFile
    <3> QED BY <2>3, <2>5, <3>1 DEF InlineMod
  <2>6. CASE MissingMod
    <3>1. at' \in Nat /\ at' <= Len(Items) /\ Items' = Items /\ Nodes' = Nodes
          /\ Item.name \in Name
      BY <2>6, ItemType DEF MissingMod, Items, This, Nodes
    <3>2. diags' \subseteq Diag
      BY <2>6, ReportType DEF MissingMod
    <3> QED BY <2>6, <3>1, <3>2 DEF MissingMod, FileIds
  <2>7. CASE FileMod
    <3>1. PICK f \in Candidates(This.dir, Item.name) :
             /\ AddChild(f, f, Append(This.dir, Item.name))
             /\ file_module' = [file_module EXCEPT ![f] = Len(nodes)]
      BY <2>7 DEF FileMod
    <3>2. f \in FileIds
      BY DEF Candidates
    <3>3. f \in 1 .. Len(pkg.mods) /\ f \in 0 .. Len(pkg.files)
      <4>1. Len(pkg.files) \in Nat /\ Len(pkg.mods) \in Nat /\ Len(pkg.mods) >= Len(pkg.files)
        BY DEF IsPackage
      <4> QED BY <3>2, <4>1 DEF FileIds
    <3>4. AtItem /\ Append(This.dir, Item.name) \in Seq(Name)
      BY <2>4, <2>7, ItemType DEF FileMod
    <3> QED BY <2>3, <2>7, <3>1, <3>3, <3>4 DEF FileMod
  <2>8. CASE ChildrenBuilt
    BY <2>8 DEF ChildrenBuilt, Nodes, FileIds
  <2>9. CASE WarnUnreachable
    <3>1. diags' \subseteq Diag
      <4>1. FileIds \subseteq Nat
        BY DEF FileIds
      <4> QED BY <2>9, <4>1 DEF WarnUnreachable, Diag
    <3> QED BY <2>9, <3>1 DEF WarnUnreachable, Nodes, FileIds
  <2>10. CASE UNCHANGED vars
    BY <2>10 DEF vars, Nodes, FileIds, Items, This
  <2> QED BY <2>1, <2>2, <2>5, <2>6, <2>7, <2>8, <2>9, <2>10 DEF Next, Terminated
<1> QED BY <1>1, <1>2, PTL DEF Spec

-----------------------------------------------------------------------------
(***************************************************************************)
(* The tree is a module graph.  Sibling names stay distinct because each   *)
(* module's items are gone through once: a module on the worklist is there *)
(* once, has no child yet, and is not the one being built, and the names   *)
(* of that one's children are all in `declared`.                           *)
(***************************************************************************)
Parents == {nodes[c + 1].parent : c \in Nodes}

BuiltOnce ==
    /\ \A j, k \in 1 .. Len(worklist) : worklist[j] = worklist[k] => j = k
    /\ \A k \in 1 .. Len(worklist) : worklist[k] # module /\ worklist[k] \notin Parents
    /\ module # kNoModule =>
          \A c \in Nodes : nodes[c + 1].parent = module => nodes[c + 1].label \in declared

TreeShape ==
    /\ nodes[1].parent = kNoModule
    /\ \A m \in Nodes \ {0} : nodes[m + 1].parent \in 0 .. m - 1
    /\ \A c, d \in Nodes \ {0} :
          nodes[c + 1].parent = nodes[d + 1].parent /\ nodes[c + 1].label = nodes[d + 1].label
             => c = d

\* A step that adds a child under a name not declared yet keeps both.
LEMMA AddChildShape ==
    ASSUME TypeOK, BuiltOnce, TreeShape, AtItem, Item.name \notin declared,
           NEW block \in 1 .. Len(pkg.mods), NEW file \in 0 .. Len(pkg.files),
           NEW dir \in Seq(Name), AddChild(block, file, dir),
           declared' = declared \cup {Item.name}, UNCHANGED <<pkg, module>>
    PROVE  BuiltOnce' /\ TreeShape'
<1>0. /\ Nodes' = Nodes \cup {Len(nodes)} /\ Len(nodes) \in Nat \ {0}
      /\ \A m \in Nodes : nodes'[m + 1] = nodes[m + 1]
      /\ nodes'[Len(nodes) + 1] = [label |-> Item.name, block |-> block, file |-> file,
                                   parent |-> module, dir |-> dir]
  BY AddChildType
<1> DEFINE n == Len(nodes)
<1>1. /\ Nodes' = Nodes \cup {n} /\ n \in Nat \ {0}
      /\ \A m \in Nodes : nodes'[m + 1] = nodes[m + 1]
      /\ nodes'[n + 1].parent = module /\ nodes'[n + 1].label = Item.name
      /\ module \in Nodes
  BY <1>0, ItemType
<1>2. Nodes \subseteq Nat /\ n \notin Nodes /\ 0 \in Nodes /\ \A m \in Nodes : m < n
  BY <1>1 DEF Nodes
<1>3. /\ worklist \in Seq(Nodes) /\ Len(worklist) \in Nat
      /\ worklist' = Append(worklist, n)
  BY DEF TypeOK, AddChild
<1> HIDE DEF n, Nodes
<1>4. /\ Len(worklist') = Len(worklist) + 1
      /\ worklist'[Len(worklist) + 1] = n
      /\ \A k \in 1 .. Len(worklist) : worklist'[k] = worklist[k] /\ worklist[k] \in Nodes
      /\ \A k \in 1 .. Len(worklist') : k \in 1 .. Len(worklist) \/ k = Len(worklist) + 1
  BY <1>3
<1>5. Parents' = Parents \cup {module}
  BY <1>1 DEF Parents
<1>6. n \notin Parents
  <2> SUFFICES ASSUME NEW c \in Nodes, nodes[c + 1].parent = n PROVE FALSE
    BY DEF Parents
  <2>1. nodes[c + 1].parent \in {kNoModule} \cup (0 .. c - 1)
    BY DEF TypeOK, NodeOK
  <2>2. c < n /\ c \in Nat
    BY <1>2
  <2> QED BY <1>1, <2>1, <2>2 DEF kNoModule
<1>7. \A j, k \in 1 .. Len(worklist') : worklist'[j] = worklist'[k] => j = k
  BY <1>2, <1>4 DEF BuiltOnce
<1>8. \A k \in 1 .. Len(worklist') : worklist'[k] # module /\ worklist'[k] \notin Parents'
  BY <1>1, <1>2, <1>4, <1>5, <1>6 DEF BuiltOnce
<1>9. \A c \in Nodes' : nodes'[c + 1].parent = module => nodes'[c + 1].label \in declared'
  BY <1>1 DEF BuiltOnce, AtItem
<1>10. BuiltOnce'
  BY <1>7, <1>8, <1>9 DEF BuiltOnce
<1>11. TreeShape'
  <2>1. nodes'[1].parent = kNoModule
    <3>1. nodes'[0 + 1] = nodes[0 + 1]
      BY <1>1, <1>2
    <3> QED BY <3>1 DEF TreeShape
  <2>2. module \in 0 .. n - 1
    BY <1>1, <1>2
  <2>3. \A m \in Nodes' \ {0} : nodes'[m + 1].parent \in 0 .. m - 1
    BY <1>1, <2>2 DEF TreeShape
  <2>4. ASSUME NEW c \in Nodes \ {0}
        PROVE  ~(nodes'[c + 1].parent = module /\ nodes'[c + 1].label = Item.name)
    BY <1>1, <2>4 DEF BuiltOnce, AtItem
  <2>5. \A c, d \in Nodes' \ {0} :
           nodes'[c + 1].parent = nodes'[d + 1].parent
              /\ nodes'[c + 1].label = nodes'[d + 1].label => c = d
    BY <1>1, <2>4 DEF TreeShape
  <2> QED BY <2>1, <2>3, <2>5 DEF TreeShape
<1> QED BY <1>10, <1>11

\* Every step keeps both.
LEMMA ShapeStep ==
    ASSUME TypeOK, BuiltOnce, TreeShape, [Next]_vars
    PROVE  BuiltOnce' /\ TreeShape'
<1>1. CASE BuildChildren
  <2>1. /\ worklist \in Seq(Nodes) /\ worklist # <<>> /\ Len(worklist) \in Nat \ {0}
        /\ module' = worklist[Len(worklist)] /\ UNCHANGED nodes
        /\ worklist' = SubSeq(worklist, 1, Len(worklist) - 1)
    BY <1>1 DEF BuildChildren, TypeOK
  <2>2. /\ Len(worklist') = Len(worklist) - 1
        /\ \A k \in 1 .. Len(worklist) - 1 : worklist'[k] = worklist[k]
    BY <2>1, PopLast
  <2>3. \A k \in 1 .. Len(worklist') :
           /\ k \in 1 .. Len(worklist) /\ k # Len(worklist)
           /\ worklist'[k] = worklist[k]
    BY <2>1, <2>2
  <2>4. Nodes' = Nodes /\ Parents' = Parents /\ TreeShape'
    BY <2>1 DEF Nodes, Parents, TreeShape
  <2>5. Len(worklist) \in 1 .. Len(worklist)
    BY <2>1
  <2>6. module' \notin Parents
    BY <2>1, <2>5 DEF BuiltOnce
  <2>7. \A k \in 1 .. Len(worklist') : worklist'[k] # module' /\ worklist[k] \notin Parents
    BY <2>1, <2>3, <2>5 DEF BuiltOnce
  <2>8. \A j, k \in 1 .. Len(worklist') : worklist'[j] = worklist'[k] => j = k
    BY <2>3 DEF BuiltOnce
  <2> QED BY <2>1, <2>3, <2>4, <2>6, <2>7, <2>8 DEF BuiltOnce, Parents
<1>2. CASE DuplicateMod
  BY <1>2 DEF DuplicateMod, BuiltOnce, TreeShape, Parents, Nodes
<1>3. CASE InlineMod
  <2>1. AtItem /\ This.dir \in Seq(Name) /\ Item.body \in 1 .. Len(pkg.mods)
    BY <1>3, ItemType DEF InlineMod, Node
  <2>2. NoFile \in 0 .. Len(pkg.files)
    <3>1. Len(pkg.files) \in Nat
      BY DEF TypeOK, IsPackage
    <3> QED BY <3>1 DEF NoFile
  <2> QED BY <1>3, <2>1, <2>2, AddChildShape DEF InlineMod
<1>4. CASE MissingMod
  BY <1>4 DEF MissingMod, BuiltOnce, TreeShape, Parents, Nodes
<1>5. CASE FileMod
  <2>1. PICK f \in Candidates(This.dir, Item.name) :
           AddChild(f, f, Append(This.dir, Item.name))
    BY <1>5 DEF FileMod
  <2>2. f \in 1 .. Len(pkg.mods) /\ f \in 0 .. Len(pkg.files)
    <3>1. Len(pkg.files) \in Nat /\ Len(pkg.mods) \in Nat /\ Len(pkg.mods) >= Len(pkg.files)
      BY DEF TypeOK, IsPackage
    <3>2. f \in 1 .. Len(pkg.files)
      BY DEF Candidates, FileIds
    <3> QED BY <3>1, <3>2
  <2>3. AtItem /\ This.dir \in Seq(Name) /\ Item.name \in Name
    BY <1>5, ItemType DEF FileMod, Node
  <2>4. Append(This.dir, Item.name) \in Seq(Name)
    BY <2>3
  <2> QED BY <1>5, <2>1, <2>2, <2>3, <2>4, AddChildShape DEF FileMod
<1>6. CASE ChildrenBuilt
  <2>1. worklist \in Seq(Nodes) /\ Nodes' = Nodes /\ UNCHANGED <<nodes, worklist>>
        /\ module' = kNoModule
    BY <1>6 DEF ChildrenBuilt, TypeOK, Nodes
  <2>2. \A k \in 1 .. Len(worklist) : worklist[k] \in Nodes
    BY <2>1
  <2>3. kNoModule \notin Nodes
    <3>1. Len(nodes) \in Nat
      BY DEF TypeOK
    <3> QED BY <3>1 DEF Nodes, kNoModule
  <2> QED BY <2>1, <2>2, <2>3 DEF BuiltOnce, TreeShape, Parents
<1>7. CASE WarnUnreachable
  BY <1>7 DEF WarnUnreachable, BuiltOnce, TreeShape, Parents, Nodes
<1>8. CASE UNCHANGED vars
  BY <1>8 DEF vars, BuiltOnce, TreeShape, Parents, Nodes
<1> QED BY <1>1, <1>2, <1>3, <1>4, <1>5, <1>6, <1>7, <1>8 DEF Next, Terminated

\* The root module is alone, and on the worklist.
LEMMA ShapeInit == Init => BuiltOnce /\ TreeShape
<1> SUFFICES ASSUME Init PROVE BuiltOnce /\ TreeShape
  OBVIOUS
<1>1. /\ Len(nodes) = 1 /\ nodes[1].parent = kNoModule
      /\ worklist = <<0>> /\ module = kNoModule
  BY DEF Init
<1>2. Nodes = {0}
  BY <1>1 DEF Nodes
<1>3. Len(worklist) = 1 /\ worklist[1] = 0
  BY <1>1
<1> QED BY <1>1, <1>2, <1>3 DEF BuiltOnce, TreeShape, Parents, kNoModule

\* What build_tree hands to import resolution is a module graph: for every
\* package, at every moment, so in particular when it is finished.
THEOREM YieldsModuleGraphCorrect == Spec => []YieldsModuleGraph
<1>1. Init => BuiltOnce /\ TreeShape
  BY ShapeInit
<1>2. TypeOK /\ BuiltOnce /\ TreeShape /\ [Next]_vars => BuiltOnce' /\ TreeShape'
  BY ShapeStep
<1>3. TypeOK /\ TreeShape => YieldsModuleGraph
  <2> SUFFICES ASSUME TypeOK, TreeShape PROVE IsModuleGraph(Graph)
    BY DEF YieldsModuleGraph
  <2> DEFINE g == Graph
  <2>1. Len(nodes) \in Nat \ {0}
    BY DEF TypeOK
  <2>2. /\ g.count = Len(nodes) /\ Modules(g) = Nodes /\ 0 \in Nodes
    BY <2>1 DEF Graph, Modules, Nodes
  <2>3. /\ g.parent = [m \in Nodes |-> nodes[m + 1].parent]
        /\ g.label  = [m \in Nodes |-> nodes[m + 1].label]
        /\ g.decls  = [m \in Nodes |-> pkg.decls[nodes[m + 1].block]]
        /\ g.uses   = [m \in Nodes |-> pkg.uses[nodes[m + 1].block]]
    BY DEF Graph, Nodes
  <2>4. \A m \in Nodes :
           /\ nodes[m + 1].label \in Name \cup {""}
           /\ nodes[m + 1].block \in 1 .. Len(pkg.mods)
    BY DEF TypeOK, NodeOK, Node
  <2>5. /\ pkg.decls \in [1 .. Len(pkg.mods) -> SUBSET Decl]
        /\ pkg.uses \in [1 .. Len(pkg.mods) -> Seq(Use)]
        /\ \A b \in 1 .. Len(pkg.mods) : \A i \in 1 .. Len(pkg.uses[b]) :
              Len(pkg.uses[b][i].path) > 0
    BY DEF TypeOK, IsPackage
  <2>6. \A m \in Nodes : nodes[m + 1].parent \in Nodes \cup {kNoModule}
    <3>1. \A m \in Nodes : m \in Nat /\ m < Len(nodes)
      BY <2>1 DEF Nodes
    <3>2. \A m \in Nodes : 0 .. m - 1 \subseteq Nodes
      BY <2>1, <3>1 DEF Nodes
    <3> QED BY <3>2 DEF TypeOK, NodeOK
  <2> HIDE DEF g, Nodes
  <2>7. /\ g.parent \in [Modules(g) -> Modules(g) \cup {kNoModule}]
        /\ g.label \in [Modules(g) -> Name \cup {""}]
        /\ g.decls \in [Modules(g) -> SUBSET Decl]
        /\ g.uses \in [Modules(g) -> Seq(Use)]
    <3>1. \A m \in Nodes :
             /\ pkg.decls[nodes[m + 1].block] \in SUBSET Decl
             /\ pkg.uses[nodes[m + 1].block] \in Seq(Use)
      BY <2>4, <2>5
    <3> QED BY <2>2, <2>3, <2>4, <2>6, <3>1
  <2>8. \A m \in Modules(g) : \A i \in 1 .. Len(g.uses[m]) : Len(g.uses[m][i].path) > 0
    BY <2>2, <2>3, <2>4, <2>5
  <2>9. /\ g.parent[0] = kNoModule
        /\ \A m \in Modules(g) \ {0} : g.parent[m] \in 0 .. m - 1
        /\ \A c, d \in Modules(g) \ {0} :
              g.parent[c] = g.parent[d] /\ g.label[c] = g.label[d] => c = d
    BY <2>2, <2>3 DEF TreeShape
  <2>10. IsModuleGraph(g)
    BY <2>1, <2>2, <2>7, <2>8, <2>9 DEF IsModuleGraph
  <2> QED BY <2>10 DEF g
<1> QED BY <1>1, <1>2, <1>3, TreeTypeCorrect, PTL DEF Spec

-----------------------------------------------------------------------------
(***************************************************************************)
(* Every `mod` item is accounted for.  A module waits on the worklist, is  *)
(* the one being built with the items so far behind it, or is through.     *)
(***************************************************************************)
ItemsOf(m) == pkg.mods[nodes[m + 1].block]

Accounted(m, i) ==
    \/ \E c \in Nodes : nodes[c + 1].parent = m /\ nodes[c + 1].label = ItemsOf(m)[i].name
    \/ \E d \in diags : d.module = m /\ d.item = i

Waiting(m) == \E k \in 1 .. Len(worklist) : worklist[k] = m

AllAccounted ==
    \A m \in Nodes :
        \/ Waiting(m)
        \/ m = module /\ \A i \in 1 .. at : Accounted(m, i)
        \/ \A i \in 1 .. Len(ItemsOf(m)) : Accounted(m, i)

\* build_tree returns when the worklist is empty.
ReturnedLast == finished => worklist = <<>> /\ module = kNoModule

\* What is behind the cursor stays accounted for: modules and diagnostics are
\* only added.
LEMMA AccountedStays ==
    ASSUME TypeOK, Nodes \subseteq Nodes', pkg' = pkg, diags \subseteq diags',
           \A m \in Nodes : nodes'[m + 1] = nodes[m + 1],
           NEW m \in Nodes, NEW i, Accounted(m, i)
    PROVE  Accounted(m, i)'
<1>1. ItemsOf(m)' = ItemsOf(m)
  BY DEF ItemsOf
<1> QED BY <1>1 DEF Accounted

\* A step past one item of the module being built, which leaves it accounted for.
LEMMA PastItem ==
    ASSUME TypeOK, AllAccounted, AtItem, at' = at + 1, module' = module, pkg' = pkg,
           Nodes \subseteq Nodes', diags \subseteq diags',
           \A m \in Nodes : nodes'[m + 1] = nodes[m + 1],
           \A m \in Nodes : Waiting(m) => Waiting(m)',
           \A m \in Nodes' \ Nodes : Waiting(m)',
           NEW a, a = module, NEW j, j = at + 1, Accounted(a, j)'
    PROVE  AllAccounted'
<1>1. module \in Nodes /\ at \in Nat
  BY DEF TypeOK, AtItem
<1> SUFFICES ASSUME NEW m \in Nodes'
             PROVE  \/ Waiting(m)'
                    \/ m = module' /\ \A i \in 1 .. at' : Accounted(m, i)'
                    \/ \A i \in 1 .. Len(ItemsOf(m)') : Accounted(m, i)'
  BY DEF AllAccounted
<1>2. CASE m \notin Nodes
  BY <1>2
<1>3. CASE m \in Nodes /\ Waiting(m)
  BY <1>3
<1>4. CASE m \in Nodes /\ m = module /\ \A i \in 1 .. at : Accounted(m, i)
  <2>1. \A i \in 1 .. at : Accounted(m, i)'
    BY <1>4, AccountedStays
  <2>2. \A i \in 1 .. at' : i \in 1 .. at \/ i = j
    BY <1>1
  <2>3. \A i \in 1 .. at' : Accounted(m, i)'
    BY <1>4, <2>1, <2>2
  <2> QED BY <1>4, <2>3
<1>5. CASE m \in Nodes /\ \A i \in 1 .. Len(ItemsOf(m)) : Accounted(m, i)
  <2>1. ItemsOf(m)' = ItemsOf(m)
    BY <1>5 DEF ItemsOf
  <2>2. \A i \in 1 .. Len(ItemsOf(m)) : Accounted(m, i)'
    BY <1>5, AccountedStays
  <2> QED BY <2>1, <2>2
<1> QED BY <1>2, <1>3, <1>4, <1>5 DEF AllAccounted

\* A child is created for the item: it waits, and its name accounts for the item.
LEMMA AddChildAccounts ==
    ASSUME TypeOK, AllAccounted, AtItem,
           NEW block \in 1 .. Len(pkg.mods), NEW file \in 0 .. Len(pkg.files),
           NEW dir \in Seq(Name), AddChild(block, file, dir),
           at' = at + 1, UNCHANGED <<pkg, module, diags>>
    PROVE  AllAccounted'
<1>1. PICK n, a, j : n = Len(nodes) /\ a = module /\ j = at + 1
  OBVIOUS
<1>2. /\ Nodes' = Nodes \cup {n} /\ n \in Nat /\ a \in Nodes
      /\ \A m \in Nodes : nodes'[m + 1] = nodes[m + 1]
      /\ nodes'[n + 1].label = Item.name /\ nodes'[n + 1].parent = a
  <2>1. /\ Nodes' = Nodes \cup {Len(nodes)} /\ Len(nodes) \in Nat
        /\ \A m \in Nodes : nodes'[m + 1] = nodes[m + 1]
        /\ nodes'[Len(nodes) + 1] = [label |-> Item.name, block |-> block, file |-> file,
                                     parent |-> module, dir |-> dir]
    BY AddChildType
  <2> QED BY <1>1, <2>1, ItemType
<1>3. /\ worklist \in Seq(Nodes) /\ Len(worklist) \in Nat
      /\ worklist' = Append(worklist, n)
  BY <1>1 DEF TypeOK, AddChild
<1>4. /\ Len(worklist') = Len(worklist) + 1
      /\ worklist'[Len(worklist) + 1] = n
      /\ \A k \in 1 .. Len(worklist) : worklist'[k] = worklist[k]
  BY <1>2, <1>3
<1>5. Waiting(n)'
  BY <1>3, <1>4 DEF Waiting
<1>6. \A m \in Nodes : Waiting(m) => Waiting(m)'
  BY <1>3, <1>4 DEF Waiting
<1>7. Accounted(a, j)'
  <2>1. ItemsOf(a)'[j] = Item
    BY <1>1, <1>2 DEF ItemsOf, Item, Items, This
  <2>2. n \in Nodes' /\ nodes'[n + 1].parent = a /\ nodes'[n + 1].label = ItemsOf(a)'[j].name
    BY <1>2, <2>1
  <2> QED BY <2>2 DEF Accounted
<1>8. Nodes \subseteq Nodes' /\ diags \subseteq diags' /\ \A m \in Nodes' \ Nodes : Waiting(m)'
  BY <1>2, <1>5
<1> QED BY <1>1, <1>2, <1>6, <1>7, <1>8, PastItem

\* A diagnostic at the item accounts for it.
LEMMA ReportAccounts ==
    ASSUME TypeOK, AllAccounted, AtItem, NEW code, Report(code),
           at' = at + 1, UNCHANGED <<pkg, nodes, worklist, module>>
    PROVE  AllAccounted'
<1>1. Nodes' = Nodes /\ module \in Nodes
  BY DEF Nodes, TypeOK, AtItem
<1>2. \A m \in Nodes : Waiting(m)' = Waiting(m)
  BY DEF Waiting
<1>3. PICK a, j : a = module /\ j = at + 1
  OBVIOUS
<1>4. diags \subseteq diags' /\ Accounted(a, j)'
  <2> DEFINE d == [code |-> code, module |-> module, item |-> at + 1]
  <2>1. d \in diags' /\ d.module = a /\ d.item = j
    BY <1>3 DEF Report
  <2> HIDE DEF d
  <2> QED BY <2>1 DEF Report, Accounted
<1> QED BY <1>1, <1>2, <1>3, <1>4, PastItem

\* Every step keeps it: build_children passes an item only by a child or a report.
LEMMA AccountStep ==
    ASSUME TypeOK, AllAccounted, ReturnedLast, [Next]_vars
    PROVE  AllAccounted' /\ ReturnedLast'
<1>1. CASE BuildChildren
  <2>1. /\ worklist \in Seq(Nodes) /\ worklist # <<>> /\ Len(worklist) \in Nat \ {0}
        /\ module' = worklist[Len(worklist)] /\ at' = 0 /\ UNCHANGED <<pkg, nodes, diags, finished>>
        /\ worklist' = SubSeq(worklist, 1, Len(worklist) - 1) /\ module = kNoModule
    BY <1>1 DEF BuildChildren, TypeOK
  <2>2. /\ Len(worklist') = Len(worklist) - 1
        /\ \A k \in 1 .. Len(worklist) - 1 : worklist'[k] = worklist[k]
    BY <2>1, PopLast
  <2>3. ASSUME NEW m \in Nodes, Waiting(m) PROVE Waiting(m)' \/ m = module'
    <3>1. PICK k \in 1 .. Len(worklist) : worklist[k] = m
      BY <2>3 DEF Waiting
    <3>2. k = Len(worklist) \/ k \in 1 .. Len(worklist) - 1
      BY <2>1
    <3> QED BY <2>1, <2>2, <3>1, <3>2 DEF Waiting
  <2>4. Nodes' = Nodes /\ kNoModule \notin Nodes
    BY <2>1 DEF Nodes, kNoModule
  <2>5. \A m \in Nodes : ItemsOf(m)' = ItemsOf(m) /\ \A i : Accounted(m, i)' = Accounted(m, i)
    BY <2>1, <2>4 DEF Accounted, ItemsOf
  <2>6. AllAccounted'
    BY <2>1, <2>3, <2>4, <2>5 DEF AllAccounted
  <2> QED BY <2>1, <2>6 DEF ReturnedLast
<1>2. CASE DuplicateMod
  BY <1>2, ReportAccounts DEF DuplicateMod, ReturnedLast, AtItem
<1>3. CASE InlineMod
  <2>1. AtItem /\ This.dir \in Seq(Name) /\ Item.body \in 1 .. Len(pkg.mods)
    BY <1>3, ItemType DEF InlineMod, Node
  <2>2. NoFile \in 0 .. Len(pkg.files)
    <3>1. Len(pkg.files) \in Nat
      BY DEF TypeOK, IsPackage
    <3> QED BY <3>1 DEF NoFile
  <2>3. AllAccounted'
    BY <1>3, <2>1, <2>2, AddChildAccounts DEF InlineMod
  <2> QED BY <1>3, <2>3 DEF InlineMod, ReturnedLast, AtItem
<1>4. CASE MissingMod
  BY <1>4, ReportAccounts DEF MissingMod, ReturnedLast, AtItem
<1>5. CASE FileMod
  <2>1. PICK f \in Candidates(This.dir, Item.name) :
           AddChild(f, f, Append(This.dir, Item.name))
    BY <1>5 DEF FileMod
  <2>2. f \in 1 .. Len(pkg.mods) /\ f \in 0 .. Len(pkg.files)
    BY CandidateFile
  <2>3. Append(This.dir, Item.name) \in Seq(Name)
    <3>1. This.dir \in Seq(Name) /\ Item.name \in Name
      BY <1>5, ItemType DEF FileMod, Node
    <3> QED BY <3>1
  <2>4. AllAccounted'
    BY <1>5, <2>1, <2>2, <2>3, AddChildAccounts DEF FileMod
  <2> QED BY <1>5, <2>4 DEF FileMod, ReturnedLast, AtItem
<1>6. CASE ChildrenBuilt
  <2>1. /\ Nodes' = Nodes /\ UNCHANGED <<pkg, nodes, worklist, diags, finished>>
        /\ module' = kNoModule /\ at = Len(ItemsOf(module))
    BY <1>6 DEF ChildrenBuilt, Nodes, ItemsOf, Items, This
  <2>2. \A m \in Nodes : /\ ItemsOf(m)' = ItemsOf(m) /\ Waiting(m)' = Waiting(m)
                         /\ \A i : Accounted(m, i)' = Accounted(m, i)
    BY <2>1 DEF Accounted, ItemsOf, Waiting
  <2>3. AllAccounted'
    BY <2>1, <2>2 DEF AllAccounted
  <2> QED BY <2>1, <2>3 DEF ReturnedLast
<1>7. CASE WarnUnreachable
  <2>1. /\ Nodes' = Nodes /\ UNCHANGED <<pkg, nodes, worklist, module, at>>
        /\ diags \subseteq diags'
        /\ worklist = <<>> /\ module = kNoModule
    BY <1>7 DEF WarnUnreachable, Nodes
  <2>2. \A m \in Nodes : /\ ItemsOf(m)' = ItemsOf(m) /\ Waiting(m)' = Waiting(m)
                         /\ \A i : Accounted(m, i) => Accounted(m, i)'
    BY <2>1 DEF Accounted, ItemsOf, Waiting
  <2>3. AllAccounted'
    BY <2>1, <2>2 DEF AllAccounted
  <2> QED BY <2>1, <2>3 DEF ReturnedLast
<1>8. CASE UNCHANGED vars
  BY <1>8 DEF vars, AllAccounted, ReturnedLast, Accounted, ItemsOf, Waiting, Nodes
<1> QED BY <1>1, <1>2, <1>3, <1>4, <1>5, <1>6, <1>7, <1>8 DEF Next, Terminated

\* The root module waits with all its items before it.
LEMMA AccountInit == Init => AllAccounted /\ ReturnedLast
<1> SUFFICES ASSUME Init PROVE AllAccounted /\ ReturnedLast
  OBVIOUS
<1>1. Len(nodes) = 1 /\ worklist = <<0>> /\ ~finished
  BY DEF Init
<1>2. Nodes = {0} /\ Waiting(0)
  BY <1>1 DEF Nodes, Waiting
<1> QED BY <1>1, <1>2 DEF AllAccounted, ReturnedLast

\* When build_tree returns, each `mod` item of each module has become a child or
\* a diagnostic: build_children leaves no item out, and the worklist no module.
THEOREM EveryModAccountedCorrect == Spec => []EveryModAccounted
<1>1. TypeOK /\ AllAccounted /\ ReturnedLast /\ [Next]_vars => AllAccounted' /\ ReturnedLast'
  BY AccountStep
<1>2. TypeOK /\ AllAccounted /\ ReturnedLast => EveryModAccounted
  <2> SUFFICES ASSUME TypeOK, AllAccounted, ReturnedLast, finished,
                      NEW m \in Nodes, NEW i \in 1 .. Len(ItemsOf(m))
               PROVE  Accounted(m, i)
    BY DEF EveryModAccounted, Accounted, ItemsOf
  <2>1. ~Waiting(m)
    BY DEF Waiting, ReturnedLast
  <2>2. m # module
    <3>1. Len(nodes) \in Nat
      BY DEF TypeOK
    <3> QED BY <3>1 DEF ReturnedLast, kNoModule, Nodes
  <2> QED BY <2>1, <2>2 DEF AllAccounted
<1> QED BY <1>1, <1>2, AccountInit, TreeTypeCorrect, PTL DEF Spec

-----------------------------------------------------------------------------
(***************************************************************************)
(* file_module marks the files that back a module, so what build_tree's    *)
(* last loop warns about is what no module is built from.                  *)
(***************************************************************************)
MarkedReached ==
    \A f \in FileIds : file_module[f] = kNoModule <=> \A m \in Nodes : nodes[m + 1].file # f

WarnedAtEnd ==
    /\ \A d \in diags :
          d.code = "UnreachableFile" =>
              finished /\ d.item \in FileIds /\ file_module[d.item] = kNoModule
    /\ finished =>
          \A f \in FileIds : file_module[f] = kNoModule =>
              \E d \in diags : d.code = "UnreachableFile" /\ d.item = f

\* Nothing but the last loop reports an unreached file.
LEMMA OtherReport ==
    ASSUME WarnedAtEnd, NEW code \in {"DuplicateModule", "MissingModuleFile"}, Report(code),
           UNCHANGED <<pkg, file_module, finished>>, ~finished
    PROVE  WarnedAtEnd'
<1>1. \A d \in diags' : d \in diags \/ d.code # "UnreachableFile"
  BY DEF Report
<1>2. FileIds' = FileIds
  BY DEF FileIds
<1> QED BY <1>1, <1>2 DEF WarnedAtEnd

\* While build_children runs, build_tree has not returned.
LEMMA NotReturned ==
    ASSUME TypeOK, ReturnedLast, module # kNoModule \/ worklist # <<>>
    PROVE  ~finished
BY DEF ReturnedLast, TypeOK

\* Every step keeps both: a child marks its file, and the warning comes last.
LEMMA ReachStep ==
    ASSUME TypeOK, ReturnedLast, MarkedReached, WarnedAtEnd, [Next]_vars
    PROVE  MarkedReached' /\ WarnedAtEnd'
<1>1. CASE BuildChildren
  BY <1>1, NotReturned DEF BuildChildren, MarkedReached, WarnedAtEnd, FileIds, Nodes
<1>2. CASE DuplicateMod
  <2>1. WarnedAtEnd'
    BY <1>2, OtherReport, NotReturned DEF DuplicateMod, AtItem
  <2> QED BY <1>2, <2>1 DEF DuplicateMod, MarkedReached, FileIds, Nodes
<1>3. CASE InlineMod
  <2>1. AtItem /\ This.dir \in Seq(Name) /\ Item.body \in 1 .. Len(pkg.mods)
    BY <1>3, ItemType DEF InlineMod, Node
  <2>2. NoFile \in 0 .. Len(pkg.files)
    <3>1. Len(pkg.files) \in Nat
      BY DEF TypeOK, IsPackage
    <3> QED BY <3>1 DEF NoFile
  <2>3. /\ Nodes' = Nodes \cup {Len(nodes)}
        /\ \A m \in Nodes : nodes'[m + 1] = nodes[m + 1]
        /\ nodes'[Len(nodes) + 1].file = NoFile
    <3>1. AddChild(Item.body, NoFile, This.dir) /\ pkg' = pkg
      BY <1>3 DEF InlineMod
    <3>2. nodes'[Len(nodes) + 1] = [label |-> Item.name, block |-> Item.body, file |-> NoFile,
                                    parent |-> module, dir |-> This.dir]
      BY <2>1, <2>2, <3>1, AddChildType
    <3> QED BY <2>1, <2>2, <3>1, <3>2, AddChildType
  <2>4. FileIds' = FileIds /\ NoFile \notin FileIds
    BY <1>3 DEF InlineMod, FileIds, NoFile
  <2>5. UNCHANGED <<file_module, diags, finished>> /\ ~finished
    BY <1>3, NotReturned DEF InlineMod, AtItem
  <2>6. MarkedReached'
    BY <2>3, <2>4, <2>5 DEF MarkedReached
  <2> QED BY <2>4, <2>5, <2>6 DEF WarnedAtEnd
<1>4. CASE MissingMod
  <2>1. WarnedAtEnd'
    BY <1>4, OtherReport, NotReturned DEF MissingMod, AtItem
  <2> QED BY <1>4, <2>1 DEF MissingMod, MarkedReached, FileIds, Nodes
<1>5. CASE FileMod
  <2>1. PICK f \in Candidates(This.dir, Item.name) :
           /\ AddChild(f, f, Append(This.dir, Item.name))
           /\ file_module' = [file_module EXCEPT ![f] = Len(nodes)]
    BY <1>5 DEF FileMod
  <2>2. AtItem /\ This.dir \in Seq(Name) /\ Item.name \in Name
    BY <1>5, ItemType DEF FileMod, Node
  <2>3. f \in FileIds /\ f \in 1 .. Len(pkg.mods) /\ f \in 0 .. Len(pkg.files)
    BY CandidateFile
  <2>4. Append(This.dir, Item.name) \in Seq(Name)
    BY <2>2
  <2>5. /\ Nodes' = Nodes \cup {Len(nodes)} /\ Len(nodes) \in Nat \ {0}
        /\ \A m \in Nodes : nodes'[m + 1] = nodes[m + 1]
        /\ nodes'[Len(nodes) + 1].file = f
    <3>1. pkg' = pkg
      BY <1>5 DEF FileMod
    <3>2. nodes'[Len(nodes) + 1] = [label |-> Item.name, block |-> f, file |-> f,
                                    parent |-> module, dir |-> Append(This.dir, Item.name)]
      BY <2>1, <2>2, <2>3, <2>4, <3>1, AddChildType
    <3>3. nodes'[Len(nodes) + 1].file = f
      BY <3>2
    <3>4. /\ Nodes' = Nodes \cup {Len(nodes)} /\ Len(nodes) \in Nat \ {0}
          /\ \A m \in Nodes : nodes'[m + 1] = nodes[m + 1]
      BY <2>1, <2>2, <2>3, <2>4, <3>1, AddChildType
    <3> QED BY <3>3, <3>4
  <2>6. FileIds' = FileIds
    BY <1>5 DEF FileMod, FileIds
  <2>7. file_module \in [FileIds -> Nodes \cup {kNoModule}] /\ Len(nodes) # kNoModule
    BY <2>5 DEF TypeOK, kNoModule
  <2>8. UNCHANGED <<diags, finished>> /\ ~finished
    BY <1>5, <2>2, NotReturned DEF FileMod, AtItem
  <2>9. MarkedReached'
    BY <2>1, <2>3, <2>5, <2>6, <2>7 DEF MarkedReached
  <2>10. WarnedAtEnd'
    BY <2>8 DEF WarnedAtEnd
  <2> QED BY <2>9, <2>10
<1>6. CASE ChildrenBuilt
  BY <1>6, NotReturned DEF ChildrenBuilt, MarkedReached, WarnedAtEnd, FileIds, Nodes
<1>7. CASE WarnUnreachable
  <2>1. UNCHANGED <<pkg, nodes, file_module>> /\ finished' /\ ~finished
        /\ diags' = diags \cup
              {[code |-> "UnreachableFile", module |-> kNoModule, item |-> f] :
                   f \in {g \in FileIds : file_module[g] = kNoModule}}
    BY <1>7 DEF WarnUnreachable
  <2>2. FileIds' = FileIds /\ Nodes' = Nodes
    BY <2>1 DEF FileIds, Nodes
  <2>3. MarkedReached'
    BY <2>1, <2>2 DEF MarkedReached
  <2>4. ASSUME NEW d \in diags', d.code = "UnreachableFile"
        PROVE  d.item \in FileIds /\ file_module[d.item] = kNoModule
    BY <2>1, <2>4 DEF WarnedAtEnd
  <2>5. ASSUME NEW f \in FileIds, file_module[f] = kNoModule
        PROVE  \E d \in diags' : d.code = "UnreachableFile" /\ d.item = f
    <3> DEFINE d == [code |-> "UnreachableFile", module |-> kNoModule, item |-> f]
    <3>1. d \in diags'
      BY <2>1, <2>5
    <3> QED BY <3>1
  <2> QED BY <2>1, <2>2, <2>3, <2>4, <2>5 DEF WarnedAtEnd
<1>8. CASE UNCHANGED vars
  BY <1>8 DEF vars, MarkedReached, WarnedAtEnd, FileIds, Nodes
<1> QED BY <1>1, <1>2, <1>3, <1>4, <1>5, <1>6, <1>7, <1>8 DEF Next, Terminated

\* The files warned about are exactly those no module is built from, even when
\* two modules share a file and file_module remembers only the second.
THEOREM UnreachableWarnedCorrect == Spec => []UnreachableWarned
<1>1. Init => MarkedReached /\ WarnedAtEnd
  <2> SUFFICES ASSUME Init PROVE MarkedReached /\ WarnedAtEnd
    OBVIOUS
  <2>1. Len(nodes) = 1 /\ nodes[1].file = pkg.root /\ diags = {} /\ ~finished
    BY DEF Init
  <2>2. Nodes = {0}
    BY <2>1 DEF Nodes
  <2>3. file_module = [f \in FileIds |-> IF f = pkg.root THEN 0 ELSE kNoModule]
    BY DEF Init
  <2> QED BY <2>1, <2>2, <2>3 DEF MarkedReached, WarnedAtEnd, kNoModule
<1>2. TypeOK /\ ReturnedLast /\ MarkedReached /\ WarnedAtEnd /\ [Next]_vars
         => MarkedReached' /\ WarnedAtEnd'
  BY ReachStep
<1>3. TypeOK /\ AllAccounted /\ ReturnedLast /\ [Next]_vars => AllAccounted' /\ ReturnedLast'
  BY AccountStep
<1>4. MarkedReached /\ WarnedAtEnd => UnreachableWarned
  BY DEF MarkedReached, WarnedAtEnd, UnreachableWarned
<1> QED BY <1>1, <1>2, <1>3, <1>4, AccountInit, TreeTypeCorrect, PTL DEF Spec

-----------------------------------------------------------------------------
(***************************************************************************)
(* A module's directory is what its file spells, and it is one name longer *)
(* than its parent's: a file below itself would have a directory longer    *)
(* than itself.  An inline module has its parent's directory and no file.  *)
(***************************************************************************)
\* <dir>/<stem>.al and <dir>/<stem>/mod.al both look for children in <dir>/<stem>.
FileDir(f) ==
    IF pkg.files[f].stem = "mod" THEN pkg.files[f].dir
                                 ELSE Append(pkg.files[f].dir, pkg.files[f].stem)

Depth(m) == Len(nodes[m + 1].dir)

\* The directory of module m, whose parent is p.
DirFits(m, p) ==
    \/ nodes[m + 1].file = NoFile /\ Depth(m) = Depth(p)
    \/ /\ nodes[m + 1].file \in FileIds /\ nodes[m + 1].dir = FileDir(nodes[m + 1].file)
       /\ Depth(m) = Depth(p) + 1

DirsNested == \A m \in Nodes \ {0} : DirFits(m, nodes[m + 1].parent)

\* Whichever of the two candidates a `mod` item finds, its children are looked
\* for in the directory the item names.
LEMMA CandidateDir ==
    ASSUME TypeOK, NEW dir \in Seq(Name), NEW name \in Name, NEW f \in Candidates(dir, name)
    PROVE  FileDir(f) = Append(dir, name)
<1>1. \/ pkg.files[f] = [dir |-> dir, stem |-> name]
      \/ pkg.files[f] = [dir |-> Append(dir, name), stem |-> "mod"]
  BY DEF Candidates
<1>2. name # "mod"
  BY NameAssumption
<1> QED BY <1>1, <1>2 DEF FileDir

\* A new child keeps the older modules' directories.
LEMMA AddChildDirs ==
    ASSUME TypeOK, TreeShape, DirsNested, AtItem,
           NEW block \in 1 .. Len(pkg.mods), NEW file \in 0 .. Len(pkg.files),
           NEW dir \in Seq(Name), AddChild(block, file, dir), pkg' = pkg,
           \/ file = NoFile /\ Len(dir) = Len(This.dir)
           \/ file \in FileIds /\ dir = FileDir(file) /\ Len(dir) = Len(This.dir) + 1
    PROVE  DirsNested'
<1>1. /\ Nodes' = Nodes \cup {Len(nodes)} /\ Len(nodes) \in Nat \ {0}
      /\ \A m \in Nodes : nodes'[m + 1] = nodes[m + 1]
      /\ nodes'[Len(nodes) + 1] = [label |-> Item.name, block |-> block, file |-> file,
                                   parent |-> module, dir |-> dir]
  BY AddChildType
<1>2. PICK n, a : n = Len(nodes) /\ a = module
  OBVIOUS
<1>3. /\ Nodes' = Nodes \cup {n} /\ n \in Nat \ {0} /\ a \in Nodes
      /\ nodes'[n + 1].file = file /\ nodes'[n + 1].dir = dir /\ nodes'[n + 1].parent = a
  BY <1>1, <1>2, ItemType
<1>4. FileIds' = FileIds /\ \A f : FileDir(f)' = FileDir(f)
  BY DEF FileIds, FileDir
<1>5. DirFits(n, a)'
  <2>1. Depth(n)' = Len(dir) /\ Depth(a)' = Len(This.dir)
    BY <1>1, <1>2, <1>3 DEF Depth, This
  <2> QED BY <1>3, <1>4, <2>1 DEF DirFits
<1>6. ASSUME NEW m \in Nodes \ {0} PROVE DirFits(m, nodes[m + 1].parent)'
  <2>1. PICK p : p = nodes[m + 1].parent
    OBVIOUS
  <2>2. p \in Nodes
    <3>1. p \in 0 .. m - 1
      BY <2>1 DEF TreeShape
    <3> QED BY <1>1, <3>1 DEF Nodes
  <2>3. DirFits(m, p)
    BY <2>1 DEF DirsNested
  <2>4. Depth(m)' = Depth(m) /\ Depth(p)' = Depth(p) /\ nodes'[m + 1] = nodes[m + 1]
    BY <1>1, <2>2 DEF Depth
  <2>5. DirFits(m, p)'
    BY <1>4, <2>3, <2>4 DEF DirFits
  <2>6. nodes'[m + 1].parent = p
    BY <2>1, <2>4
  <2> QED BY <2>5, <2>6 DEF DirFits, Depth
<1>7. DirFits(n, nodes[n + 1].parent)'
  BY <1>3, <1>5 DEF DirFits, Depth
<1> QED BY <1>3, <1>6, <1>7 DEF DirsNested

\* Every step keeps the directories nested: an inline body takes its parent's,
\* a file the one its `mod` item names.
LEMMA DirsStep ==
    ASSUME TypeOK, TreeShape, DirsNested, [Next]_vars
    PROVE  DirsNested'
<1>1. CASE InlineMod
  <2>1. AtItem /\ This.dir \in Seq(Name) /\ Item.body \in 1 .. Len(pkg.mods)
    BY <1>1, ItemType DEF InlineMod, Node
  <2>2. NoFile \in 0 .. Len(pkg.files)
    <3>1. Len(pkg.files) \in Nat
      BY DEF TypeOK, IsPackage
    <3> QED BY <3>1 DEF NoFile
  <2> QED BY <1>1, <2>1, <2>2, AddChildDirs DEF InlineMod
<1>2. CASE FileMod
  <2>1. PICK f \in Candidates(This.dir, Item.name) :
           AddChild(f, f, Append(This.dir, Item.name))
    BY <1>2 DEF FileMod
  <2>2. AtItem /\ This.dir \in Seq(Name) /\ Item.name \in Name
    BY <1>2, ItemType DEF FileMod, Node
  <2>3. f \in FileIds /\ f \in 1 .. Len(pkg.mods) /\ f \in 0 .. Len(pkg.files)
    BY CandidateFile
  <2>4. /\ Append(This.dir, Item.name) \in Seq(Name)
        /\ Len(Append(This.dir, Item.name)) = Len(This.dir) + 1
    BY <2>2
  <2>5. FileDir(f) = Append(This.dir, Item.name)
    BY <2>2, CandidateDir
  <2>6. pkg' = pkg
    BY <1>2 DEF FileMod
  <2> QED BY <2>1, <2>2, <2>3, <2>4, <2>5, <2>6, AddChildDirs
<1>3. CASE UNCHANGED <<pkg, nodes>>
  BY <1>3 DEF DirsNested, DirFits, Depth, FileDir, FileIds, Nodes
<1>4. CASE BuildChildren \/ DuplicateMod \/ MissingMod \/ ChildrenBuilt \/ WarnUnreachable
           \/ UNCHANGED vars
  BY <1>3, <1>4 DEF BuildChildren, DuplicateMod, MissingMod, ChildrenBuilt, WarnUnreachable, vars
<1> QED BY <1>1, <1>2, <1>4 DEF Next, Terminated

\* The ancestors are defined: the recursion goes up the tree, to smaller modules.
LEMMA AncestorsUnfold ==
    ASSUME TypeOK, TreeShape
    PROVE  Ancestors = [m \in Nodes |-> IF m = 0 THEN {}
                            ELSE {nodes[m + 1].parent} \cup Ancestors[nodes[m + 1].parent]]
<1> DEFINE Body(g, m) == IF m = 0 THEN {}
                         ELSE {nodes[m + 1].parent} \cup g[nodes[m + 1].parent]
           S == {n \in Nat : n <= Len(nodes) =>
                     \E g : g = [m \in 0 .. n - 1 |-> Body(g, m)]}
<1>1. Len(nodes) \in Nat \ {0} /\ Nodes = 0 .. Len(nodes) - 1
  BY DEF TypeOK, Nodes
<1>2. ASSUME NEW n \in Nat, \A k \in 0 .. n - 1 : k \in S
      PROVE  n \in S
  <2> SUFFICES ASSUME n <= Len(nodes) PROVE \E g : g = [m \in 0 .. n - 1 |-> Body(g, m)]
    OBVIOUS
  <2>1. CASE n = 0
    <3> DEFINE e == [m \in 0 .. n - 1 |-> {}]
    <3>1. e = [m \in 0 .. n - 1 |-> Body(e, m)]
      BY <2>1
    <3> QED BY <3>1
  <2>2. CASE n # 0
    <3>1. n - 1 \in Nat /\ n - 1 \in 0 .. n - 1 /\ n - 1 <= Len(nodes)
      BY <1>1, <2>2
    <3>2. PICK g : g = [m \in 0 .. (n - 1) - 1 |-> Body(g, m)]
      BY <1>2, <3>1
    <3> DEFINE h == [m \in 0 .. n - 1 |-> Body(g, m)]
    <3>3. ASSUME NEW m \in 0 .. n - 1 PROVE Body(h, m) = Body(g, m)
      <4>1. CASE m = 0
        BY <4>1
      <4>2. CASE m # 0
        <5>1. nodes[m + 1].parent \in 0 .. m - 1
          BY <1>1, <4>2 DEF TreeShape
        <5>2. PICK p : p = nodes[m + 1].parent
          OBVIOUS
        <5>3. p \in 0 .. (n - 1) - 1 /\ p \in 0 .. n - 1
          BY <5>1, <5>2, <3>1
        <5>4. g[p] = Body(g, p) /\ h[p] = Body(g, p)
          <6> HIDE DEF Body
          <6>1. g[p] = Body(g, p)
            BY <3>2, <5>3
          <6> QED BY <5>3, <6>1
        <5> QED BY <4>2, <5>2, <5>4
      <4> QED BY <4>1, <4>2
    <3>4. h = [m \in 0 .. n - 1 |-> Body(h, m)]
      <4> HIDE DEF Body
      <4>1. h = [m \in 0 .. n - 1 |-> Body(g, m)]
        OBVIOUS
      <4> HIDE DEF h
      <4> QED BY <3>3, <4>1
    <3> QED BY <3>4
  <2> QED BY <2>1, <2>2
<1>3. S = Nat
  <2> HIDE DEF S
  <2>1. S \in SUBSET Nat
    BY DEF S
  <2> QED BY <1>2, <2>1, NatBySmaller
<1>4. \E g : g = [m \in Nodes |-> Body(g, m)]
  <2>1. Len(nodes) \in S /\ Len(nodes) <= Len(nodes)
    <3> HIDE DEF S
    <3> QED BY <1>1, <1>3
  <2>2. \E g : g = [m \in 0 .. Len(nodes) - 1 |-> Body(g, m)]
    BY <2>1
  <2> QED BY <1>1, <2>2
<1> QED BY <1>4 DEF Ancestors

\* Above a module, directories only get shorter.
LEMMA AncestorsShallower ==
    ASSUME TypeOK, TreeShape, DirsNested
    PROVE  \A m \in Nodes : \A a \in Ancestors[m] : a \in Nodes /\ Depth(a) <= Depth(m)
<1> DEFINE S == {m \in Nat : m \in Nodes =>
                     \A a \in Ancestors[m] : a \in Nodes /\ Depth(a) <= Depth(m)}
<1>1. Len(nodes) \in Nat \ {0} /\ Nodes = 0 .. Len(nodes) - 1
  BY DEF TypeOK, Nodes
<1>2. \A m \in Nodes : Depth(m) \in Nat
  <2> SUFFICES ASSUME NEW m \in Nodes PROVE Depth(m) \in Nat
    OBVIOUS
  <2>1. nodes[m + 1].dir \in Seq(Name)
    BY DEF TypeOK, NodeOK, Node
  <2> QED BY <2>1 DEF Depth
<1>3. ASSUME NEW m \in Nat, \A k \in 0 .. m - 1 : k \in S
      PROVE  m \in S
  <2> SUFFICES ASSUME m \in Nodes, NEW a \in Ancestors[m]
               PROVE  a \in Nodes /\ Depth(a) <= Depth(m)
    OBVIOUS
  <2>1. PICK p : p = nodes[m + 1].parent
    OBVIOUS
  <2>2. m # 0 /\ a \in {p} \cup Ancestors[p]
    BY <2>1, AncestorsUnfold
  <2>3. p \in 0 .. m - 1
    BY <2>1, <2>2 DEF TreeShape
  <2>4. p \in Nodes /\ p \in S
    BY <1>1, <1>3, <2>3
  <2>5. Depth(p) <= Depth(m) /\ Depth(p) \in Nat /\ Depth(m) \in Nat
    <3>1. DirFits(m, p)
      BY <2>1, <2>2 DEF DirsNested
    <3> QED BY <1>2, <2>4, <3>1 DEF DirFits
  <2>6. CASE a = p
    BY <2>4, <2>5, <2>6
  <2>7. CASE a \in Ancestors[p]
    <3>1. a \in Nodes /\ Depth(a) <= Depth(p)
      BY <2>4, <2>7
    <3>2. Depth(a) \in Nat
      BY <1>2, <3>1
    <3> HIDE DEF Depth, Nodes
    <3> QED BY <2>5, <3>1, <3>2
  <2> QED BY <2>2, <2>6, <2>7
<1>4. S = Nat
  <2> HIDE DEF S
  <2>1. S \in SUBSET Nat
    BY DEF S
  <2> QED BY <1>3, <2>1, NatBySmaller
<1>5. Nodes \subseteq Nat
  BY <1>1
<1> QED BY <1>4, <1>5

\* A file that a `mod` item finds is not one its own module descends from, so
\* build_tree's worklist cannot grow through a chain of files without end.
THEOREM NoFileRecursionCorrect == Spec => []NoFileRecursion
<1>1. TypeOK /\ BuiltOnce /\ TreeShape /\ [Next]_vars => BuiltOnce' /\ TreeShape'
  BY ShapeStep
<1>2. TypeOK /\ TreeShape /\ DirsNested /\ [Next]_vars => DirsNested'
  BY DirsStep
<1>3. TypeOK /\ TreeShape /\ DirsNested => NoFileRecursion
  <2> SUFFICES ASSUME TypeOK, TreeShape, DirsNested,
                      NEW m \in Nodes, NEW a \in Ancestors[m],
                      nodes[m + 1].file # NoFile, a # 0
               PROVE  nodes[a + 1].file # nodes[m + 1].file
    BY DEF NoFileRecursion
  <2>1. PICK p : p = nodes[m + 1].parent
    OBVIOUS
  <2>2. m # 0 /\ a \in {p} \cup Ancestors[p]
    BY <2>1, AncestorsUnfold
  <2>3. p \in Nodes
    <3>1. p \in 0 .. m - 1 /\ Len(nodes) \in Nat
      BY <2>1, <2>2 DEF TreeShape, TypeOK
    <3> QED BY <3>1 DEF Nodes
  <2>4. \A k \in Nodes : Depth(k) \in Nat
    <3> SUFFICES ASSUME NEW k \in Nodes PROVE Depth(k) \in Nat
      OBVIOUS
    <3>1. nodes[k + 1].dir \in Seq(Name)
      BY DEF TypeOK, NodeOK, Node
    <3> QED BY <3>1 DEF Depth
  <2>5. a \in Nodes /\ Depth(a) <= Depth(p)
    <3>1. CASE a = p
      BY <2>3, <2>4, <3>1
    <3>2. CASE a \in Ancestors[p]
      BY <2>3, <3>2, AncestorsShallower
    <3> QED BY <2>2, <3>1, <3>2
  <2>6. nodes[m + 1].dir = FileDir(nodes[m + 1].file) /\ Depth(m) = Depth(p) + 1
    BY <2>1, <2>2 DEF DirsNested, DirFits
  <2>7. nodes[a + 1].file = NoFile \/ nodes[a + 1].dir = FileDir(nodes[a + 1].file)
    BY <2>5 DEF DirsNested, DirFits
  <2>8. Depth(a) # Depth(m)
    BY <2>3, <2>4, <2>5, <2>6
  <2> QED BY <2>6, <2>7, <2>8 DEF Depth
<1>4. Init => BuiltOnce /\ TreeShape /\ DirsNested
  <2> SUFFICES ASSUME Init PROVE BuiltOnce /\ TreeShape /\ DirsNested
    OBVIOUS
  <2>1. Len(nodes) = 1
    BY DEF Init
  <2>2. Nodes = {0}
    BY <2>1 DEF Nodes
  <2> QED BY <2>2, ShapeInit DEF DirsNested
<1> QED BY <1>1, <1>2, <1>3, <1>4, TreeTypeCorrect, PTL DEF Spec

=============================================================================
