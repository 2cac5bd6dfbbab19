------------------------ MODULE ImportResolve_proofs ------------------------
(***************************************************************************)
(* ImportResolve's type invariant and safety properties, for every set of  *)
(* module graphs, and that it implements ImportFixpoint: every step of the *)
(* resolver is a Bind of one module or leaves the imports alone, so        *)
(* whatever order the recursion takes, imports stay inside the least       *)
(* fixpoint of the re-export relation; and no use is lost, so a run        *)
(* without diagnostics reaches it.  Only AddImports changes imports and    *)
(* only ResolveExports and Return change exports_state; a section says so  *)
(* once.                                                                   *)
(***************************************************************************)
EXTENDS ImportResolve, NatInduction, SequenceTheorems, TLAPS

-----------------------------------------------------------------------------
(***************************************************************************)
(* The lookups of ModuleGraph stay inside the graph.                       *)
(***************************************************************************)
\* find_child_module yields a module or kNoModule.
LEMMA FindChildType ==
    ASSUME NEW p, NEW m, NEW name
    PROVE  FindChildModule(p, m, name) \in Modules(p) \cup {kNoModule}
BY DEF FindChildModule, Children

\* The indices of a graph's modules: naturals, the root among them.
LEMMA ModuleIndices ==
    ASSUME NEW p, IsModuleGraph(p)
    PROVE  /\ p.count \in Nat \ {0}
           /\ 0 \in Modules(p)
           /\ Modules(p) \subseteq Nat
           /\ kNoModule \notin Modules(p)
<1>1. p.count \in Nat \ {0}
  BY DEF IsModuleGraph
<1> QED BY <1>1 DEF Modules, kNoModule

\* The head of a path is resolved to a module or to kNoModule.
LEMMA HeadModuleType ==
    ASSUME NEW p, IsModuleGraph(p), NEW m \in Modules(p), NEW head
    PROVE  HeadModule(p, m, head) \in Modules(p) \cup {kNoModule}
<1>1. 0 \in Modules(p)
  BY ModuleIndices
<1>2. p.parent[m] \in Modules(p) \cup {kNoModule}
  BY DEF IsModuleGraph
<1>3. FindChildModule(p, m, head) \in Modules(p) \cup {kNoModule}
  BY FindChildType
<1> QED BY <1>1, <1>2, <1>3 DEF HeadModule

\* The member and the bound name of a use are segments.
LEMMA UseNames ==
    ASSUME NEW p, IsModuleGraph(p), NEW m \in Modules(p), NEW i \in 1 .. Len(p.uses[m])
    PROVE  /\ p.uses[m][i] \in Use
           /\ Len(p.uses[m][i].path) \in Nat \ {0}
           /\ Member(p.uses[m][i]) \in Segment
           /\ BoundName(p.uses[m][i]) \in Segment
<1> DEFINE u == p.uses[m][i]
<1>1. p.uses[m] \in Seq(Use)
  BY DEF IsModuleGraph
<1>2. u \in Use
  BY <1>1
<1>3. u.path \in Seq(Segment) /\ Len(u.path) > 0
  BY <1>2 DEF Use, IsModuleGraph
<1>4. Member(u) \in Segment
  BY <1>3 DEF Member
<1>5. BoundName(u) \in Segment
  BY <1>2, <1>4 DEF BoundName, Use, Segment
<1> QED BY <1>2, <1>3, <1>4, <1>5

-----------------------------------------------------------------------------
(***************************************************************************)
(* The stack.                                                              *)
(***************************************************************************)
\* Replacing the top frame keeps the depth and the frames below.
LEMMA WithTopFrames ==
    ASSUME stack \in Seq(Frame), stack # <<>>, NEW f \in Frame
    PROVE  /\ WithTop(f) \in Seq(Frame)
           /\ Len(WithTop(f)) = Len(stack)
           /\ Len(stack) \in 1 .. Len(stack)
           /\ WithTop(f)[Len(stack)] = f
           /\ \A k \in 1 .. Len(stack) - 1 : WithTop(f)[k] = stack[k]
<1>1. Len(stack) \in Nat /\ Len(stack) > 0
  OBVIOUS
<1> QED BY <1>1 DEF WithTop

\* The top frame is a frame.
LEMMA TopIsFrame ==
    ASSUME stack \in Seq(Frame), stack # <<>>
    PROVE  Top \in Frame /\ Len(stack) \in 1 .. Len(stack) /\ Top = stack[Len(stack)]
BY DEF Top

\* Pushing a frame.
LEMMA PushFrames ==
    ASSUME NEW s \in Seq(Frame), NEW f \in Frame
    PROVE  /\ Append(s, f) \in Seq(Frame)
           /\ Len(Append(s, f)) = Len(s) + 1
           /\ Append(s, f)[Len(s) + 1] = f
           /\ \A k \in 1 .. Len(s) : Append(s, f)[k] = s[k]
OBVIOUS

\* Popping the top frame.
LEMMA PopFrames ==
    ASSUME stack \in Seq(Frame), stack # <<>>
    PROVE  /\ Popped \in Seq(Frame)
           /\ Len(Popped) = Len(stack) - 1
           /\ \A k \in 1 .. Len(stack) - 1 : Popped[k] = stack[k]
<1> DEFINE n == Len(stack) - 1
<1>1. n \in Nat
  OBVIOUS
<1>2. \A i \in 1 .. n : stack[i] \in Frame
  BY <1>1
<1> HIDE DEF n
<1>3. /\ SubSeq(stack, 1, n) \in Seq(Frame)
      /\ Len(SubSeq(stack, 1, n)) = IF 1 <= n THEN n - 1 + 1 ELSE 0
      /\ \A i \in 1 .. n - 1 + 1 : SubSeq(stack, 1, n)[i] = stack[1 + i - 1]
  BY <1>1, <1>2, SubSeqProperties
<1>4. /\ SubSeq(stack, 1, n) \in Seq(Frame)
      /\ Len(SubSeq(stack, 1, n)) = n
      /\ \A k \in 1 .. n : SubSeq(stack, 1, n)[k] = stack[k]
  BY <1>1, <1>3
<1> QED BY <1>4 DEF n, Popped

-----------------------------------------------------------------------------
(***************************************************************************)
(* Type correctness.                                                       *)
(***************************************************************************)
StackOK(p, s) == s \in Seq(Frame) /\ \A k \in 1 .. Len(s) : FrameOK(p, s[k])

\* The graph under resolution satisfies the assumption on Families.
LEMMA ProgIsGraph == TypeOK => IsModuleGraph(prog)
BY FamiliesAssumption DEF TypeOK

\* Replacing the top by a good frame gives a good stack.
LEMMA WithTopOK ==
    ASSUME StackOK(prog, stack), stack # <<>>, NEW f, FrameOK(prog, f)
    PROVE  StackOK(prog, WithTop(f))
<1>1. f \in Frame /\ stack \in Seq(Frame)
  BY DEF FrameOK, StackOK
<1>2. \A k \in 1 .. Len(stack) : k \in 1 .. Len(stack) - 1 \/ k = Len(stack)
  BY <1>1
<1> QED BY <1>1, <1>2, WithTopFrames DEF StackOK

\* A frame as resolve_exports creates it is good.
LEMMA NewFrameOK ==
    ASSUME NEW p, IsModuleGraph(p), NEW m \in Modules(p)
    PROVE  FrameOK(p, NewFrame(m))
<1>1. 0 \in Modules(p) /\ m \in Nat
  BY ModuleIndices
<1>2. p.uses[m] \in Seq(Use)
  BY DEF IsModuleGraph
<1> QED BY <1>1, <1>2 DEF FrameOK, NewFrame, Frame

\* The moves of a frame: to the private pass, onto a path, along it.
LEMMA FrameMoves ==
    ASSUME NEW p, IsModuleGraph(p), NEW f, FrameOK(p, f), NEW c \in Modules(p)
    PROVE  /\ f.step = "scan" => FrameOK(p, [f EXCEPT !.pub = FALSE, !.item = 0])
           /\ f.item > 0 /\ Len(p.uses[f.module][f.item].path) >= 2 =>
                 FrameOK(p, [f EXCEPT !.step = "walk", !.cur = c, !.seg = 1])
           /\ f.step = "walk" /\ f.seg + 1 < Len(p.uses[f.module][f.item].path) =>
                 FrameOK(p, [f EXCEPT !.cur = c, !.seg = @ + 1])
<1>1. f \in Frame /\ c \in Nat /\ f.module \in Modules(p)
  BY ModuleIndices DEF FrameOK
<1>2. Len(p.uses[f.module]) \in Nat
  <2>1. p.uses[f.module] \in Seq(Use)
    BY <1>1 DEF IsModuleGraph
  <2> QED BY <2>1
<1> DEFINE again == [f EXCEPT !.pub = FALSE, !.item = 0]
<1>3. ASSUME f.step = "scan" PROVE FrameOK(p, again)
  <2>1. /\ again \in Frame /\ again.module = f.module /\ again.item = 0
        /\ again.cur = f.cur /\ again.step = "scan"
    BY <1>1, <1>3 DEF Frame
  <2>2. 0 \in 0 .. Len(p.uses[f.module])
    BY <1>2
  <2> HIDE DEF again
  <2> QED BY <2>1, <2>2 DEF FrameOK
<1> DEFINE len == Len(p.uses[f.module][f.item].path)
<1>4. ASSUME f.item > 0 PROVE len \in Nat
  <2>1. f.item \in 1 .. Len(p.uses[f.module])
    BY <1>4, <1>2 DEF FrameOK
  <2> QED BY <1>1, <2>1, UseNames
<1> DEFINE onPath == [f EXCEPT !.step = "walk", !.cur = c, !.seg = 1]
           along  == [f EXCEPT !.cur = c, !.seg = @ + 1]
<1>5. ASSUME f.item > 0, len >= 2 PROVE FrameOK(p, onPath)
  <2>1. /\ onPath \in Frame /\ onPath.module = f.module /\ onPath.item = f.item
        /\ onPath.cur = c /\ onPath.seg = 1
    BY <1>1 DEF Frame
  <2>2. 1 \in 1 .. len - 1
    BY <1>4, <1>5
  <2> HIDE DEF onPath
  <2> QED BY <1>5, <2>1, <2>2 DEF FrameOK
<1>6. ASSUME f.step = "walk", f.seg + 1 < len PROVE FrameOK(p, along)
  <2>1. f.seg \in Nat /\ f.item > 0 /\ f.seg \in 1 .. len - 1
    BY <1>6 DEF FrameOK, Frame
  <2>2. len \in Nat
    BY <1>4, <2>1
  <2>3. /\ along \in Frame /\ along.module = f.module /\ along.item = f.item
        /\ along.cur = c /\ along.seg = f.seg + 1
    <3>1. \A n \in Nat : [f EXCEPT !.cur = c, !.seg = n] \in Frame
      BY <1>1 DEF Frame
    <3>2. f.seg + 1 \in Nat
      BY <2>1
    <3> QED BY <1>1, <3>1, <3>2 DEF Frame
  <2> HIDE DEF len
  <2>4. f.seg + 1 \in 1 .. len - 1
    BY <1>6, <2>1, <2>2
  <2> HIDE DEF along
  <2> QED BY <2>1, <2>3, <2>4 DEF FrameOK, len
<1> QED BY <1>3, <1>5, <1>6

\* A call of resolve_exports keeps the types.
LEMMA ResolveExportsType ==
    ASSUME TypeOK, NEW m \in Modules(prog), NEW resume, StackOK(prog, resume),
           ResolveExports(m, resume)
    PROVE  /\ StackOK(prog, stack')
           /\ exports_state' \in [Modules(prog) -> {"fresh", "progress", "done"}]
           /\ diags' \subseteq Diag
<1> USE DEF TypeOK
<1>0. IsModuleGraph(prog) /\ m \in Nat
  BY ProgIsGraph, ModuleIndices
<1>1. CASE EnterDone(m, resume)
  BY <1>1 DEF EnterDone
<1>2. CASE EnterCycle(m, resume)
  BY <1>0, <1>2 DEF EnterCycle, Diag
<1>3. CASE EnterFresh(m, resume)
  <2>1. FrameOK(prog, NewFrame(m)) /\ NewFrame(m) \in Frame
    BY <1>0, NewFrameOK DEF FrameOK
  <2>2. resume \in Seq(Frame)
    BY DEF StackOK
  <2>3. \A k \in 1 .. Len(resume) + 1 : k \in 1 .. Len(resume) \/ k = Len(resume) + 1
    BY <2>2
  <2>4. StackOK(prog, Append(resume, NewFrame(m)))
    BY <2>1, <2>2, <2>3, PushFrames DEF StackOK
  <2> QED BY <1>3, <2>4 DEF EnterFresh
<1> QED BY <1>1, <1>2, <1>3 DEF ResolveExports

\* An error return of resolve_use keeps the types.
LEMMA FailUseType ==
    ASSUME TypeOK, stack # <<>>, NEW f, FrameOK(prog, f), FailUse(f)
    PROVE  StackOK(prog, stack') /\ diags' \subseteq Diag
<1>1. FrameOK(prog, [f EXCEPT !.step = "scan"])
  BY DEF FrameOK, Frame
<1>2. StackOK(prog, stack')
  BY <1>1, WithTopOK DEF FailUse, StackOK, TypeOK
<1>3. UnresolvedAt(f) \in Diag
  BY DEF FrameOK, Frame, UnresolvedAt, Diag
<1> QED BY <1>2, <1>3 DEF FailUse, TypeOK

\* The use a frame is inside of.
LEMMA CurrentUseType ==
    ASSUME TypeOK, stack # <<>>, Top.step # "scan"
    PROVE  /\ FrameOK(prog, Top)
           /\ Top.item \in 1 .. Len(prog.uses[Top.module])
           /\ CurrentUse \in Use
           /\ Len(CurrentUse.path) \in Nat \ {0}
           /\ Top.seg \in 1 .. Len(CurrentUse.path) - 1
           /\ Member(CurrentUse) \in Segment
           /\ BoundName(CurrentUse) \in Segment
<1>1. FrameOK(prog, Top) /\ IsModuleGraph(prog)
  BY ProgIsGraph, TopIsFrame DEF TypeOK
<1>2. Top.item \in 1 .. Len(prog.uses[Top.module])
  BY <1>1 DEF FrameOK
<1> QED BY <1>1, <1>2, UseNames DEF FrameOK, CurrentUse

\* Adding imports of the current use keeps the types.
LEMMA AddImportsType ==
    ASSUME TypeOK, stack # <<>>, Top.step # "scan",
           NEW S \in SUBSET ImportInto(prog), AddImports(S)
    PROVE  /\ StackOK(prog, stack')
           /\ imports' \in [Modules(prog) -> SUBSET ImportInto(prog)]
           /\ diags' \subseteq Diag
           /\ UNCHANGED exports_state
<1>1. FrameOK(prog, Top)
  BY CurrentUseType
<1>2. FrameOK(prog, UseDone)
  BY <1>1 DEF FrameOK, Frame, UseDone
<1>3. StackOK(prog, stack')
  BY <1>2, WithTopOK DEF AddImports, StackOK, TypeOK
<1>4. imports' \in [Modules(prog) -> SUBSET ImportInto(prog)]
  BY <1>1 DEF AddImports, TypeOK, FrameOK
<1>5. diags' \subseteq Diag
  BY <1>1 DEF AddImports, TypeOK, FrameOK, Frame, Diag
<1> QED BY <1>3, <1>4, <1>5 DEF AddImports

\* The imports made of a target's items, or of its re-exports.
LEMMA LocalImportsType ==
    ASSUME TypeOK, stack # <<>>, Top.step # "scan"
    PROVE  LocalImports(CurrentUse, Top.cur) \subseteq ImportInto(prog)
BY CurrentUseType DEF LocalImports, ImportInto, Use, FrameOK

LEMMA ReexportsType ==
    ASSUME TypeOK, stack # <<>>, Top.step # "scan"
    PROVE  Reexports(CurrentUse, Top.cur) \subseteq ImportInto(prog)
<1>1. imports[Top.cur] \subseteq ImportInto(prog)
  BY CurrentUseType DEF TypeOK, FrameOK
<1> QED BY <1>1, CurrentUseType DEF Reexports, ImportInto, Use

\* Whatever the module graph, no step of the resolver leaves the graph: no
\* lookup yields kNoModule where a module is expected.
THEOREM TypeCorrect == Spec => []TypeOK
<1>1. Init => TypeOK
  <2> SUFFICES ASSUME Init PROVE TypeOK
    OBVIOUS
  <2>1. IsModuleGraph(prog)
    BY FamiliesAssumption DEF Init
  <2>2. prog.count \in Nat /\ <<>> \in Seq(Frame) /\ Len(<<>>) = 0
    BY <2>1, ModuleIndices
  <2> QED BY <2>2 DEF Init, TypeOK
<1>2. TypeOK /\ [Next]_vars => TypeOK'
  <2> SUFFICES ASSUME TypeOK, [Next]_vars PROVE TypeOK'
    OBVIOUS
  <2>0. /\ IsModuleGraph(prog) /\ prog.count \in Nat \ {0} /\ StackOK(prog, stack)
        /\ next \in Nat
    BY ProgIsGraph, ModuleIndices DEF TypeOK, StackOK
  <2>1. CASE StartModule
    <3>1. next \in Modules(prog) /\ next' \in 0 .. prog.count
      BY <2>0, <2>1 DEF StartModule, Modules
    <3>2. StackOK(prog, <<>>)
      BY DEF StackOK
    <3> QED BY <2>1, <3>1, <3>2, ResolveExportsType DEF StartModule, TypeOK, StackOK
  <2>2. CASE PrivatePass
    <3>1. FrameOK(prog, Top)
      BY <2>2, TopIsFrame DEF PrivatePass, TypeOK
    <3>2. FrameOK(prog, [Top EXCEPT !.pub = FALSE, !.item = 0])
      BY <2>0, <2>2, <3>1, FrameMoves, ModuleIndices DEF PrivatePass
    <3> QED BY <2>0, <2>2, <3>2, WithTopOK DEF PrivatePass, TypeOK, StackOK
  <2>3. CASE Return
    <3>1. StackOK(prog, Popped)
      BY <2>3, PopFrames DEF Return, TypeOK, StackOK
    <3>2. Top.module \in Modules(prog)
      BY <2>3, TopIsFrame DEF Return, TypeOK, FrameOK
    <3> QED BY <2>3, <3>1, <3>2 DEF Return, TypeOK, StackOK
  <2>4. CASE BeginUse
    <3>1. FrameOK(prog, Top) /\ Top.step = "scan"
      BY <2>4, TopIsFrame DEF BeginUse, TypeOK
    <3> PICK i \in PendingUses(Top) :
          LET f    == [Top EXCEPT !.item = i]
              path == prog.uses[f.module][i].path
              head == HeadModule(prog, f.module, path[1])
          IN  \/ FailUse(f)
              \/ /\ Len(path) >= 2 /\ head # kNoModule
                 /\ stack' = WithTop([f EXCEPT !.step = "walk", !.cur = head, !.seg = 1])
                 /\ UNCHANGED <<exports_state, imports, diags>>
      BY <2>4 DEF BeginUse
    <3> DEFINE f == [Top EXCEPT !.item = i]
               path == prog.uses[f.module][i].path
               head == HeadModule(prog, f.module, path[1])
    <3>2. i \in 1 .. Len(prog.uses[Top.module]) /\ f.module = Top.module /\ f.item = i
      BY <3>1 DEF PendingUses, FrameOK, Frame
    <3>3. FrameOK(prog, f)
      BY <3>1, <3>2 DEF FrameOK, Frame
    <3>4. CASE FailUse(f)
      BY <2>0, <2>4, <3>3, <3>4, FailUseType DEF FailUse, BeginUse, TypeOK, StackOK
    <3>5. CASE /\ Len(path) >= 2 /\ head # kNoModule
               /\ stack' = WithTop([f EXCEPT !.step = "walk", !.cur = head, !.seg = 1])
               /\ UNCHANGED <<exports_state, imports, diags>>
      <4>1. head \in Modules(prog)
        BY <2>0, <3>3, <3>5, HeadModuleType DEF FrameOK
      <4>2. f.item > 0 /\ Len(prog.uses[f.module][f.item].path) >= 2
        BY <3>2, <3>5
      <4>3. \A g : FrameOK(prog, g) /\ g.item > 0 /\ Len(prog.uses[g.module][g.item].path) >= 2 =>
                      FrameOK(prog, [g EXCEPT !.step = "walk", !.cur = head, !.seg = 1])
        BY <2>0, <4>1, FrameMoves
      <4>4. FrameOK(prog, [f EXCEPT !.step = "walk", !.cur = head, !.seg = 1])
        BY <3>3, <4>2, <4>3
      <4> QED BY <2>0, <2>4, <3>5, <4>4, WithTopOK DEF BeginUse, TypeOK, StackOK
    <3> QED BY <3>4, <3>5
  <2>5. CASE WalkSegment
    <3>1. FrameOK(prog, Top)
      BY <2>5, CurrentUseType DEF WalkSegment
    <3> DEFINE child == FindChildModule(prog, Top.cur, CurrentUse.path[Top.seg + 1])
    <3>2. CASE FailUse(Top)
      BY <2>0, <2>5, <3>1, <3>2, FailUseType DEF FailUse, WalkSegment, TypeOK, StackOK
    <3>3. CASE /\ child # kNoModule
               /\ stack' = WithTop([Top EXCEPT !.cur = child, !.seg = @ + 1])
               /\ UNCHANGED <<exports_state, imports, diags>>
      <4>1. child \in Modules(prog) /\ child \in Nat
        BY <2>0, <3>3, FindChildType, ModuleIndices
      <4>2. FrameOK(prog, [Top EXCEPT !.cur = child, !.seg = @ + 1])
        BY <2>0, <2>5, <3>1, <4>1, FrameMoves DEF WalkSegment, CurrentUse
      <4> QED BY <2>0, <2>5, <3>3, <4>2, WithTopOK DEF WalkSegment, TypeOK, StackOK
    <3> QED BY <2>5, <3>2, <3>3 DEF WalkSegment
  <2>6. CASE UseLocal
    <3>1. stack # <<>> /\ Top.step # "scan"
      BY <2>6 DEF UseLocal, WalkDone
    <3> QED BY <2>6, <3>1, LocalImportsType, AddImportsType DEF UseLocal, TypeOK, StackOK
  <2>7. CASE Descend
    <3> DEFINE resume == WithTop([Top EXCEPT !.step = "reexport"])
    <3>1. stack # <<>> /\ Top.step = "walk"
      BY <2>7 DEF Descend, WalkDone
    <3>2. FrameOK(prog, Top)
      BY <3>1, CurrentUseType
    <3>3. FrameOK(prog, [Top EXCEPT !.step = "reexport"])
      BY <3>1, <3>2 DEF FrameOK, Frame
    <3>4. StackOK(prog, resume)
      BY <2>0, <3>1, <3>3, WithTopOK
    <3>5. Top.cur \in Modules(prog)
      BY <3>2 DEF FrameOK
    <3>6. CASE stack' = resume /\ UNCHANGED <<exports_state, diags>>
      BY <2>7, <3>4, <3>6 DEF Descend, TypeOK, StackOK
    <3>7. CASE ResolveExports(Top.cur, resume)
      <4> HIDE DEF resume
      <4> QED BY <2>7, <3>4, <3>5, <3>7, ResolveExportsType DEF Descend, TypeOK, StackOK
    <3> QED BY <2>7, <3>6, <3>7 DEF Descend
  <2>8. CASE UseReexport
    <3>1. stack # <<>> /\ Top.step # "scan"
      BY <2>8 DEF UseReexport
    <3>2. FrameOK(prog, Top)
      BY <3>1, CurrentUseType
    <3>3. CASE FailUse(Top)
      BY <2>0, <2>8, <3>1, <3>2, <3>3, FailUseType DEF FailUse, UseReexport, TypeOK, StackOK
    <3>4. CASE AddImports(Reexports(CurrentUse, Top.cur))
      BY <2>8, <3>1, <3>4, ReexportsType, AddImportsType DEF UseReexport, TypeOK, StackOK
    <3> QED BY <2>8, <3>3, <3>4 DEF UseReexport
  <2>9. CASE UNCHANGED vars
    BY <2>9 DEF vars, TypeOK
  <2> QED BY <2>1, <2>2, <2>3, <2>4, <2>5, <2>6, <2>7, <2>8, <2>9 DEF Next, Terminated
<1> QED BY <1>1, <1>2, PTL DEF Spec

-----------------------------------------------------------------------------
(***************************************************************************)
(* What a step may change.                                                 *)
(***************************************************************************)
\* The two sets of candidates resolve_use hands to add_import.
Candidates(S) ==
    \/ S = LocalImports(CurrentUse, Top.cur)
    \/ S = Reexports(CurrentUse, Top.cur)

\* Imports change only by add_import, for the use on top of the stack.
LEMMA ImportsChange ==
    ASSUME TypeOK, [Next]_vars
    PROVE  /\ prog' = prog
           /\ \/ imports' = imports
              \/ /\ UseLocal \/ UseReexport
                 /\ stack # <<>> /\ Top.step # "scan"
                 /\ \E S : Candidates(S) /\ AddImports(S)
<1>1. CASE StartModule
  BY <1>1 DEF StartModule
<1>2. CASE PrivatePass \/ Return
  BY <1>2 DEF PrivatePass, Return
<1>3. CASE BeginUse
  BY <1>3 DEF BeginUse, FailUse
<1>4. CASE WalkSegment
  BY <1>4 DEF WalkSegment, FailUse
<1>5. CASE UseLocal
  BY <1>5 DEF UseLocal, WalkDone, Candidates
<1>6. CASE Descend
  BY <1>6 DEF Descend
<1>7. CASE UseReexport
  BY <1>7 DEF UseReexport, FailUse, Candidates
<1>8. CASE UNCHANGED vars
  BY <1>8 DEF vars
<1> QED BY <1>1, <1>2, <1>3, <1>4, <1>5, <1>6, <1>7, <1>8 DEF Next, Terminated

\* What add_import leaves in the module on top, and elsewhere.
LEMMA AddedImports ==
    ASSUME TypeOK, stack # <<>>, Top.step # "scan", NEW S, AddImports(S)
    PROVE  /\ Top.module \in Modules(prog)
           /\ Top.cur \in Modules(prog)
           /\ imports'[Top.module] =
                 imports[Top.module] \cup {i \in S : ~Conflicts(Top.module, i)}
           /\ \A m \in Modules(prog) : m # Top.module => imports'[m] = imports[m]
<1>1. FrameOK(prog, Top)
  BY CurrentUseType
<1>2. Top.module \in Modules(prog) /\ Top.cur \in Modules(prog)
  BY <1>1 DEF FrameOK
<1>3. imports \in [Modules(prog) -> SUBSET ImportInto(prog)]
  BY DEF TypeOK
<1> QED BY <1>2, <1>3 DEF AddImports

-----------------------------------------------------------------------------
(***************************************************************************)
(* Imports point at items.                                                 *)
(***************************************************************************)
\* resolve.h:25-27, re-export chains are chased to their final target: in any
\* order of modules and uses an import names an item of its target module.
THEOREM GroundedCorrect == Spec => []ImportsGrounded
<1>1. Init => ImportsGrounded
  BY DEF Init, ImportsGrounded
<1>2. TypeOK /\ ImportsGrounded /\ [Next]_vars => ImportsGrounded'
  <2> SUFFICES ASSUME TypeOK, ImportsGrounded, [Next]_vars,
                      imports' # imports,
                      NEW m \in Modules(prog), NEW i \in imports'[m]
               PROVE  i.member \in LocalNames(prog, i.target, i.ns)
    BY ImportsChange DEF ImportsGrounded
  <2>1. PICK S : Candidates(S) /\ AddImports(S) /\ stack # <<>> /\ Top.step # "scan"
    BY ImportsChange
  <2>2. CASE i \in imports[m]
    BY <2>2 DEF ImportsGrounded
  <2>3. CASE i \in S
    <3>1. CASE S = LocalImports(CurrentUse, Top.cur)
      BY <2>3, <3>1 DEF LocalImports
    <3>2. CASE S = Reexports(CurrentUse, Top.cur)
      <4>1. Top.cur \in Modules(prog)
        BY <2>1, AddedImports
      <4>2. PICK e \in imports[Top.cur] : i.ns = e.ns /\ i.target = e.target /\ i.member = e.member
        BY <2>3, <3>2 DEF Reexports
      <4> QED BY <4>1, <4>2 DEF ImportsGrounded
    <3> QED BY <2>1, <3>1, <3>2 DEF Candidates
  <2> QED BY <2>1, <2>2, <2>3, AddedImports
<1> QED BY <1>1, <1>2, TypeCorrect, PTL DEF Spec

-----------------------------------------------------------------------------
(***************************************************************************)
(* A name means one thing.                                                 *)
(***************************************************************************)
\* Two candidates of one use have different namespaces.
LEMMA CandidatesDiffer ==
    ASSUME TypeOK, ImportsUnambiguous, stack # <<>>, Top.step # "scan",
           NEW S, Candidates(S), NEW i \in S, NEW j \in S, i.ns = j.ns
    PROVE  i = j
<1>1. CASE S = LocalImports(CurrentUse, Top.cur)
  BY <1>1 DEF LocalImports
<1>2. CASE S = Reexports(CurrentUse, Top.cur)
  <2>1. Top.cur \in Modules(prog)
    BY CurrentUseType DEF FrameOK
  <2>2. PICK d \in imports[Top.cur] :
           /\ d.name = Member(CurrentUse)
           /\ i = [name |-> BoundName(CurrentUse), ns |-> d.ns, target |-> d.target,
                   member |-> d.member, pub |-> CurrentUse.pub]
    BY <1>2 DEF Reexports
  <2>3. PICK e \in imports[Top.cur] :
           /\ e.name = Member(CurrentUse)
           /\ j = [name |-> BoundName(CurrentUse), ns |-> e.ns, target |-> e.target,
                   member |-> e.member, pub |-> CurrentUse.pub]
    BY <1>2 DEF Reexports
  <2>4. d.ns = e.ns
    BY <2>2, <2>3
  <2>5. d = e
    BY <2>1, <2>2, <2>3, <2>4 DEF ImportsUnambiguous, Abs!Unambiguous, Abs!SameKey
  <2> QED BY <2>2, <2>3, <2>5
<1> QED BY <1>1, <1>2 DEF Candidates

\* The candidates of one use all have the name it binds.
LEMMA CandidatesName ==
    ASSUME NEW S, Candidates(S), NEW i \in S
    PROVE  i.name = BoundName(CurrentUse)
BY DEF Candidates, LocalImports, Reexports

\* What add_import lets through keeps the module's names unambiguous.
LEMMA AddedUnambiguous ==
    ASSUME TypeOK, ImportsUnambiguous, stack # <<>>, Top.step # "scan",
           NEW S, Candidates(S),
           NEW T, T = {i \in S : ~Conflicts(Top.module, i)}
    PROVE  Abs!Unambiguous(prog, Top.module, imports[Top.module] \cup T)
<1>0. Top.module \in Modules(prog)
  BY CurrentUseType DEF FrameOK
<1>1. \A i \in imports[Top.module] :
         /\ i.name \notin Abs!LocalNames(prog, Top.module, i.ns)
         /\ \A j \in imports[Top.module] : Abs!SameKey(i, j) => i = j
  BY <1>0 DEF ImportsUnambiguous, Abs!Unambiguous
<1>2. \A i \in T :
         /\ i.name \notin Abs!LocalNames(prog, Top.module, i.ns)
         /\ \A j \in imports[Top.module] : ~Abs!SameKey(i, j) /\ ~Abs!SameKey(j, i)
  BY DEF Conflicts, Abs!SameKey, LocalNames, Children, Modules,
         Abs!LocalNames, Abs!Children, Abs!Modules
<1>3. \A i, j \in T : Abs!SameKey(i, j) => i = j
  BY CandidatesDiffer DEF Abs!SameKey
<1> QED BY <1>1, <1>2, <1>3 DEF Abs!Unambiguous

\* add_import's two checks: in each namespace a name of a module means one
\* item of its own or one import, whatever is re-exported to it.
THEOREM UnambiguousCorrect == Spec => []ImportsUnambiguous
<1>1. Init => ImportsUnambiguous
  BY DEF Init, ImportsUnambiguous, Abs!Unambiguous
<1>2. TypeOK /\ ImportsUnambiguous /\ [Next]_vars => ImportsUnambiguous'
  <2> SUFFICES ASSUME TypeOK, ImportsUnambiguous, [Next]_vars,
                      imports' # imports, NEW m \in Modules(prog)
               PROVE  Abs!Unambiguous(prog, m, imports'[m])
    BY ImportsChange DEF ImportsUnambiguous
  <2>1. PICK S : Candidates(S) /\ AddImports(S) /\ stack # <<>> /\ Top.step # "scan"
    BY ImportsChange
  <2>2. CASE m = Top.module
    <3> DEFINE T == {i \in S : ~Conflicts(Top.module, i)}
    <3>1. imports'[m] = imports[m] \cup T
      BY <2>1, <2>2, AddedImports
    <3>2. Abs!Unambiguous(prog, Top.module, imports[Top.module] \cup T)
      BY <2>1, AddedUnambiguous
    <3> QED BY <2>2, <3>1, <3>2
  <2>3. CASE m # Top.module
    BY <2>1, <2>3, AddedImports DEF ImportsUnambiguous
  <2> QED BY <2>2, <2>3
<1> QED BY <1>1, <1>2, TypeCorrect, PTL DEF Spec

-----------------------------------------------------------------------------
(***************************************************************************)
(* The recursion.  A step replaces the frame on top (Replaces), calls      *)
(* resolve_exports (Calls) or returns from it (Return).                    *)
(***************************************************************************)
\* The top frame goes on in its module; it waits for no other module.
Replaces ==
    /\ stack # <<>>
    /\ \E g \in Frame :
          /\ stack' = WithTop(g)
          /\ g.module = Top.module
          /\ g.step = "reexport" => g.cur = g.module
    /\ UNCHANGED exports_state
    /\ diags \subseteq diags'

\* resume is the stack, its top now waiting for module m.
Waiting(m, resume) ==
    /\ resume \in Seq(Frame)
    /\ Len(resume) = Len(stack)
    /\ \A k \in 1 .. Len(stack) : resume[k].module = stack[k].module
    /\ \A k \in 1 .. Len(stack) - 1 : resume[k] = stack[k]
    /\ stack # <<>> =>
          /\ resume[Len(stack)].step = "reexport"
          /\ resume[Len(stack)].cur = m
          /\ m # Top.module

Calls ==
    \E m \in Modules(prog) : \E resume :
        ResolveExports(m, resume) /\ Waiting(m, resume)

\* Replacing the top by a frame that waits for another module.
LEMMA DescendWaits ==
    ASSUME TypeOK, stack # <<>>, Top.cur # Top.module
    PROVE  Waiting(Top.cur, WithTop([Top EXCEPT !.step = "reexport"]))
<1> DEFINE g == [Top EXCEPT !.step = "reexport"]
<1>1. stack \in Seq(Frame) /\ Top \in Frame /\ Top = stack[Len(stack)]
  BY TopIsFrame DEF TypeOK
<1>2. /\ g \in Frame /\ g.module = Top.module
      /\ g.step = "reexport" /\ g.cur = Top.cur
  BY <1>1 DEF Frame
<1> HIDE DEF g
<1>3. \A k \in 1 .. Len(stack) : k \in 1 .. Len(stack) - 1 \/ k = Len(stack)
  BY <1>1
<1>4. /\ WithTop(g) \in Seq(Frame)
      /\ Len(WithTop(g)) = Len(stack)
      /\ WithTop(g)[Len(stack)] = g
      /\ \A k \in 1 .. Len(stack) - 1 : WithTop(g)[k] = stack[k]
  BY <1>1, <1>2, WithTopFrames
<1>5. Waiting(Top.cur, WithTop(g))
  BY <1>1, <1>2, <1>3, <1>4 DEF Waiting
<1> QED BY <1>5 DEF g

\* Every step of the resolver is one of the three, or changes neither the
\* stack nor a mark.
LEMMA StepShape ==
    ASSUME TypeOK, [Next]_vars
    PROVE  Replaces \/ Calls \/ Return \/ UNCHANGED <<stack, exports_state, diags>>
<1>0. stack # <<>> => Top \in Frame
  BY TopIsFrame DEF TypeOK
<1>1. CASE StartModule
  <2>1. IsModuleGraph(prog) /\ prog.count \in Nat
    BY ProgIsGraph, ModuleIndices
  <2>2. next \in Modules(prog) /\ ResolveExports(next, <<>>)
    BY <1>1, <2>1 DEF StartModule, TypeOK, Modules
  <2>3. Waiting(next, <<>>)
    BY <1>1 DEF StartModule, Waiting
  <2> QED BY <2>2, <2>3 DEF Calls
<1>2. CASE PrivatePass
  <2>1. stack # <<>> /\ Top.step = "scan"
    BY <1>2 DEF PrivatePass
  <2> DEFINE g == [Top EXCEPT !.pub = FALSE, !.item = 0]
  <2>2. g \in Frame /\ g.module = Top.module /\ g.step = "scan"
    BY <1>0, <2>1 DEF Frame
  <2> QED BY <1>2, <2>2 DEF PrivatePass, Replaces
<1>3. CASE BeginUse
  <2>1. stack # <<>>
    BY <1>3 DEF BeginUse
  <2> PICK i \in PendingUses(Top) :
        LET f    == [Top EXCEPT !.item = i]
            path == prog.uses[f.module][i].path
            head == HeadModule(prog, f.module, path[1])
        IN  \/ FailUse(f)
            \/ /\ head # kNoModule
               /\ stack' = WithTop([f EXCEPT !.step = "walk", !.cur = head, !.seg = 1])
               /\ UNCHANGED <<exports_state, imports, diags>>
    BY <1>3 DEF BeginUse
  <2> DEFINE f == [Top EXCEPT !.item = i]
             head == HeadModule(prog, f.module, prog.uses[f.module][i].path[1])
  <2>2. FrameOK(prog, Top) /\ IsModuleGraph(prog) /\ i \in Nat
    <3>1. FrameOK(prog, Top) /\ IsModuleGraph(prog)
      BY <2>1, TopIsFrame, ProgIsGraph DEF TypeOK
    <3>2. Top.item \in Nat
      BY <1>0, <2>1 DEF Frame
    <3> QED BY <3>1, <3>2 DEF PendingUses
  <2>3. f \in Frame /\ f.module = Top.module
    BY <1>0, <2>1, <2>2 DEF Frame
  <2>4. CASE FailUse(f)
    <3>1. [f EXCEPT !.step = "scan"] \in Frame
      BY <2>3 DEF Frame
    <3> QED BY <2>1, <2>3, <2>4, <3>1 DEF FailUse, Replaces, Frame
  <2>5. CASE /\ head # kNoModule
             /\ stack' = WithTop([f EXCEPT !.step = "walk", !.cur = head, !.seg = 1])
             /\ UNCHANGED <<exports_state, imports, diags>>
    <3>1. head \in Nat
      BY <2>2, <2>3, <2>5, HeadModuleType, ModuleIndices DEF FrameOK
    <3> DEFINE g == [f EXCEPT !.step = "walk", !.cur = head, !.seg = 1]
    <3>2. g \in Frame /\ g.module = f.module /\ g.step = "walk"
      BY <2>3, <3>1 DEF Frame
    <3> QED BY <2>1, <2>3, <2>5, <3>2 DEF Replaces
  <2> QED BY <2>4, <2>5
<1>4. CASE WalkSegment
  <2>1. stack # <<>> /\ Top.step = "walk"
    BY <1>4 DEF WalkSegment
  <2> DEFINE child == FindChildModule(prog, Top.cur, CurrentUse.path[Top.seg + 1])
  <2>2. CASE FailUse(Top)
    <3>1. [Top EXCEPT !.step = "scan"] \in Frame
      BY <1>0, <2>1 DEF Frame
    <3> QED BY <1>0, <2>1, <2>2, <3>1 DEF FailUse, Replaces, Frame
  <2>3. CASE /\ child # kNoModule
             /\ stack' = WithTop([Top EXCEPT !.cur = child, !.seg = @ + 1])
             /\ UNCHANGED <<exports_state, imports, diags>>
    <3>1. child \in Nat
      BY <2>3, FindChildType, ProgIsGraph, ModuleIndices
    <3> DEFINE g == [Top EXCEPT !.cur = child, !.seg = @ + 1]
    <3>2. g \in Frame /\ g.module = Top.module /\ g.step = "walk"
      <4>1. \A n \in Nat : [Top EXCEPT !.cur = child, !.seg = n] \in Frame
        BY <1>0, <2>1, <3>1 DEF Frame
      <4>2. Top.seg + 1 \in Nat
        BY <1>0, <2>1 DEF Frame
      <4> QED BY <1>0, <2>1, <4>1, <4>2 DEF Frame
    <3> QED BY <2>1, <2>3, <3>2 DEF Replaces
  <2> QED BY <1>4, <2>2, <2>3 DEF WalkSegment
<1>5. CASE UseLocal \/ UseReexport
  <2>1. stack # <<>> /\ UseDone \in Frame /\ UseDone.module = Top.module
        /\ UseDone.step = "scan"
    BY <1>0, <1>5 DEF UseLocal, WalkDone, UseReexport, UseDone, Frame
  <2>2. FailUse(Top) \/ \E S : AddImports(S)
    BY <1>5 DEF UseLocal, UseReexport
  <2>3. FailUse(Top) => stack' = WithTop(UseDone)
    BY DEF FailUse, UseDone
  <2>4. stack' = WithTop(UseDone) /\ UNCHANGED exports_state /\ diags \subseteq diags'
    BY <2>2, <2>3 DEF FailUse, AddImports
  <2> QED BY <2>1, <2>4 DEF Replaces
<1>6. CASE Descend
  <2>1. stack # <<>>
    BY <1>6 DEF Descend, WalkDone
  <2> DEFINE g == [Top EXCEPT !.step = "reexport"]
  <2>2. CASE /\ Top.cur = Top.module /\ stack' = WithTop(g)
             /\ UNCHANGED <<exports_state, diags>>
    <3>1. g \in Frame /\ g.module = Top.module /\ g.cur = Top.cur
      BY <1>0, <2>1 DEF Frame
    <3> QED BY <2>1, <2>2, <3>1 DEF Replaces
  <2>3. CASE Top.cur # Top.module /\ ResolveExports(Top.cur, WithTop(g))
    <3>1. Top.cur \in Modules(prog)
      BY <2>1, TopIsFrame DEF TypeOK, FrameOK
    <3>2. Waiting(Top.cur, WithTop(g))
      BY <2>1, <2>3, DescendWaits
    <3> QED BY <2>3, <3>1, <3>2 DEF Calls
  <2> QED BY <1>6, <2>2, <2>3 DEF Descend
<1>7. CASE UNCHANGED vars
  BY <1>7 DEF vars
<1> QED BY <1>1, <1>2, <1>3, <1>4, <1>5, <1>6, <1>7 DEF Next, Terminated

\* The modules a cycle has been reported at.
Reported == {d.module : d \in {e \in diags : e.code = "ReexportCycle"}}

LEMMA ReportedMeans == \A m : CycleReported(m) <=> m \in Reported
BY DEF Reported, CycleReported

\* What a call of resolve_exports does, mark by mark.
LEMMA CallShape ==
    ASSUME TypeOK, NEW m \in Modules(prog), NEW resume, Waiting(m, resume),
           ResolveExports(m, resume)
    PROVE  \/ /\ stack' = resume
              /\ exports_state[m] = "done"
              /\ UNCHANGED <<exports_state, diags>>
           \/ /\ stack' = resume
              /\ exports_state[m] = "progress"
              /\ exports_state' = [exports_state EXCEPT ![m] = "done"]
              /\ m \in Reported' /\ diags \subseteq diags'
           \/ /\ exports_state[m] = "fresh"
              /\ exports_state' = [exports_state EXCEPT ![m] = "progress"]
              /\ UNCHANGED diags
              /\ stack' \in Seq(Frame)
              /\ Len(stack') = Len(stack) + 1
              /\ stack'[Len(stack) + 1].module = m
              /\ stack'[Len(stack) + 1].step = "scan"
              /\ \A k \in 1 .. Len(stack) : stack'[k] = resume[k]
<1>1. CASE EnterDone(m, resume)
  BY <1>1 DEF EnterDone
<1>2. CASE EnterCycle(m, resume)
  <2> DEFINE d == [code |-> "ReexportCycle", module |-> m, item |-> 0]
  <2>1. d \in diags' /\ d.code = "ReexportCycle" /\ d.module = m
    BY <1>2 DEF EnterCycle
  <2>2. m \in Reported'
    BY <2>1 DEF Reported
  <2> QED BY <1>2, <2>2 DEF EnterCycle
<1>3. CASE EnterFresh(m, resume)
  <2>1. NewFrame(m) \in Frame /\ NewFrame(m).module = m /\ NewFrame(m).step = "scan"
    BY ProgIsGraph, NewFrameOK DEF FrameOK, NewFrame
  <2>2. resume \in Seq(Frame) /\ Len(resume) = Len(stack)
    BY DEF Waiting
  <2> QED BY <1>3, <2>1, <2>2, PushFrames DEF EnterFresh
<1> QED BY <1>1, <1>2, <1>3 DEF ResolveExports

\* The parts of TypeOK the recursion rests on.
LEMMA StackFacts ==
    ASSUME TypeOK, [Next]_vars
    PROVE  /\ prog' = prog
           /\ stack \in Seq(Frame)
           /\ Len(stack) \in Nat
           /\ exports_state \in [Modules(prog) -> {"fresh", "progress", "done"}]
           /\ \A k \in 1 .. Len(stack) : stack[k].module \in Modules(prog)
<1>1. prog' = prog
  BY ImportsChange
<1>2. stack \in Seq(Frame)
  BY DEF TypeOK
<1>3. Len(stack) \in Nat
  BY <1>2
<1>4. \A k \in 1 .. Len(stack) : stack[k].module \in Modules(prog)
  BY DEF TypeOK, FrameOK
<1> QED BY <1>1, <1>2, <1>3, <1>4 DEF TypeOK

\* The three-state mark makes the recursion of resolve_exports a simple path:
\* no module is entered twice, for every graph and however it is cyclic.
THEOREM ActiveOnceCorrect == Spec => []ActiveOnce
<1>1. Init => ActiveOnce
  BY DEF Init, ActiveOnce
<1>2. TypeOK /\ ActiveOnce /\ [Next]_vars => ActiveOnce'
  <2> SUFFICES ASSUME TypeOK, ActiveOnce, [Next]_vars PROVE ActiveOnce'
    OBVIOUS
  <2>0. /\ prog' = prog /\ stack \in Seq(Frame) /\ Len(stack) \in Nat
        /\ exports_state \in [Modules(prog) -> {"fresh", "progress", "done"}]
        /\ \A k \in 1 .. Len(stack) : stack[k].module \in Modules(prog)
    BY StackFacts
  <2>1. CASE Replaces
    <3>1. PICK g \in Frame : stack' = WithTop(g) /\ g.module = Top.module
      BY <2>1 DEF Replaces
    <3>a. stack \in Seq(Frame) /\ stack # <<>>
      BY <2>0, <2>1 DEF Replaces
    <3>b. /\ Len(WithTop(g)) = Len(stack)
          /\ WithTop(g)[Len(stack)] = g
          /\ \A k \in 1 .. Len(stack) - 1 : WithTop(g)[k] = stack[k]
      BY <3>a, WithTopFrames
    <3>2. /\ Len(stack') = Len(stack)
          /\ \A k \in 1 .. Len(stack) : k \in 1 .. Len(stack) - 1 \/ k = Len(stack)
          /\ stack'[Len(stack)] = g
          /\ \A k \in 1 .. Len(stack) - 1 : stack'[k] = stack[k]
      BY <2>0, <3>1, <3>b
    <3>3. \A k \in 1 .. Len(stack) : stack'[k].module = stack[k].module
      BY <3>1, <3>2 DEF Top
    <3> QED BY <2>0, <2>1, <3>2, <3>3 DEF Replaces, ActiveOnce
  <2>2. CASE Calls
    <3>0. PICK m \in Modules(prog) : \E r : ResolveExports(m, r) /\ Waiting(m, r)
      BY <2>2 DEF Calls
    <3>1. PICK resume : ResolveExports(m, resume) /\ Waiting(m, resume)
      BY <3>0
    <3>2. /\ Len(resume) = Len(stack)
          /\ \A k \in 1 .. Len(stack) : resume[k].module = stack[k].module
      BY <3>1 DEF Waiting
    <3>3. CASE stack' = resume /\ UNCHANGED exports_state
      BY <2>0, <3>2, <3>3 DEF ActiveOnce
    <3>4. CASE stack' = resume /\ exports_state' = [exports_state EXCEPT ![m] = "done"]
      BY <2>0, <3>2, <3>4 DEF ActiveOnce
    <3>5. CASE /\ exports_state[m] = "fresh"
               /\ exports_state' = [exports_state EXCEPT ![m] = "progress"]
               /\ Len(stack') = Len(stack) + 1
               /\ stack'[Len(stack) + 1].module = m
               /\ \A k \in 1 .. Len(stack) : stack'[k] = resume[k]
      <4>1. \A k \in 1 .. Len(stack) : stack'[k].module = stack[k].module
        BY <3>2, <3>5
      <4>2. \A k \in 1 .. Len(stack) : stack[k].module # m
        BY <3>5 DEF ActiveOnce
      <4>3. \A k \in 1 .. Len(stack') : k \in 1 .. Len(stack) \/ k = Len(stack) + 1
        BY <2>0, <3>5
      <4>4. \A j, k \in 1 .. Len(stack') : stack'[j].module = stack'[k].module => j = k
        BY <3>5, <4>1, <4>2, <4>3 DEF ActiveOnce
      <4>5. \A k \in 1 .. Len(stack') : exports_state'[stack'[k].module] # "fresh"
        BY <2>0, <3>5, <4>1, <4>2, <4>3 DEF ActiveOnce
      <4>6. \A n \in Modules(prog) : exports_state'[n] = "progress" =>
               \E k \in 1 .. Len(stack') : stack'[k].module = n
        <5> SUFFICES ASSUME NEW n \in Modules(prog), exports_state'[n] = "progress"
                     PROVE  \E k \in 1 .. Len(stack') : stack'[k].module = n
          OBVIOUS
        <5>1. CASE n = m
          BY <2>0, <3>5, <5>1
        <5>2. CASE n # m
          <6>1. PICK k \in 1 .. Len(stack) : stack[k].module = n
            BY <2>0, <3>5, <5>2 DEF ActiveOnce
          <6>2. k \in 1 .. Len(stack') /\ stack'[k].module = n
            BY <2>0, <3>5, <4>1, <6>1
          <6> QED BY <6>2
        <5> QED BY <5>1, <5>2
      <4> QED BY <2>0, <4>4, <4>5, <4>6 DEF ActiveOnce
    <3> QED BY <3>1, <3>3, <3>4, <3>5, CallShape
  <2>3. CASE Return
    <3>1. /\ stack # <<>>
          /\ stack' = Popped
          /\ exports_state' = [exports_state EXCEPT ![Top.module] = "done"]
      BY <2>3 DEF Return
    <3>2. /\ Len(stack') = Len(stack) - 1
          /\ \A k \in 1 .. Len(stack) - 1 : stack'[k] = stack[k]
          /\ Len(stack) \in 1 .. Len(stack)
      BY <2>0, <3>1, PopFrames, TopIsFrame
    <3>3. \A k \in 1 .. Len(stack) - 1 : stack[k].module # Top.module
      BY <2>0, <3>2 DEF ActiveOnce, Top
    <3>4. \A n \in Modules(prog) : exports_state'[n] = "progress" =>
             \E k \in 1 .. Len(stack') : stack'[k].module = n
      <4> SUFFICES ASSUME NEW n \in Modules(prog), exports_state'[n] = "progress"
                   PROVE  \E k \in 1 .. Len(stack') : stack'[k].module = n
        OBVIOUS
      <4>1. n # Top.module /\ exports_state[n] = "progress"
        BY <2>0, <3>1
      <4>2. PICK k \in 1 .. Len(stack) : stack[k].module = n
        BY <4>1 DEF ActiveOnce
      <4>3. k \in 1 .. Len(stack) - 1
        BY <2>0, <4>1, <4>2 DEF Top
      <4> QED BY <3>2, <4>2, <4>3
    <3>5. \A k \in 1 .. Len(stack') : exports_state'[stack'[k].module] # "fresh"
      BY <2>0, <3>1, <3>2, <3>3 DEF ActiveOnce
    <3> QED BY <2>0, <3>2, <3>4, <3>5 DEF ActiveOnce
  <2>4. CASE UNCHANGED <<stack, exports_state, diags>>
    BY <2>0, <2>4 DEF ActiveOnce
  <2> QED BY <2>1, <2>2, <2>3, <2>4, StepShape
<1> QED BY <1>1, <1>2, TypeCorrect, PTL DEF Spec

-----------------------------------------------------------------------------
(***************************************************************************)
(* What a reader of exports sees.  CallChain is what ReadsCompleteExports  *)
(* and DoneIsFinal need to be inductive: a frame below the top waits for   *)
(* the one above it, and an active module is done only by a cycle.         *)
(***************************************************************************)
CallChain ==
    /\ \A k \in 1 .. Len(stack) - 1 :
          stack[k].step = "reexport" /\ stack[k].cur = stack[k + 1].module
    /\ \A k \in 1 .. Len(stack) :
          exports_state[stack[k].module] = "done" => stack[k].module \in Reported

\* The first half of ReadsCompleteExports; the second follows from CallChain.
TargetDone ==
    stack # <<>> /\ Top.step = "reexport" /\ Top.cur # Top.module =>
        exports_state[Top.cur] = "done"

\* A reported cycle stays reported.
LEMMA ReportsStay == diags \subseteq diags' => Reported \subseteq Reported'
BY DEF Reported

\* CallChain and TargetDone are kept by every step, next to ActiveOnce.
LEMMA CallChainStep ==
    ASSUME TypeOK, ActiveOnce, CallChain, TargetDone, [Next]_vars
    PROVE  CallChain' /\ TargetDone'
<1>0. /\ stack \in Seq(Frame) /\ Len(stack) \in Nat
      /\ exports_state \in [Modules(prog) -> {"fresh", "progress", "done"}]
      /\ \A k \in 1 .. Len(stack) : stack[k].module \in Modules(prog)
  BY StackFacts
<1>1. CASE Replaces
  <2>1. PICK g \in Frame :
           /\ stack' = WithTop(g) /\ g.module = Top.module
           /\ g.step = "reexport" => g.cur = g.module
    BY <1>1 DEF Replaces
  <2>a. stack \in Seq(Frame) /\ stack # <<>>
    BY <1>0, <1>1 DEF Replaces
  <2>b. /\ Len(WithTop(g)) = Len(stack)
        /\ WithTop(g)[Len(stack)] = g
        /\ \A k \in 1 .. Len(stack) - 1 : WithTop(g)[k] = stack[k]
    BY <2>a, <2>1, WithTopFrames
  <2>2. /\ Len(stack') = Len(stack)
        /\ \A k \in 1 .. Len(stack) : k \in 1 .. Len(stack) - 1 \/ k = Len(stack)
        /\ stack'[Len(stack)] = g
        /\ \A k \in 1 .. Len(stack) - 1 : stack'[k] = stack[k]
    BY <1>0, <2>1, <2>b
  <2>3. \A k \in 1 .. Len(stack) : stack'[k].module = stack[k].module
    BY <2>1, <2>2 DEF Top
  <2>4. \A k \in 1 .. Len(stack) - 1 : k \in 1 .. Len(stack) /\ k + 1 \in 1 .. Len(stack)
    BY <1>0
  <2>5. \A k \in 1 .. Len(stack') - 1 :
           stack'[k].step = "reexport" /\ stack'[k].cur = stack'[k + 1].module
    BY <2>2, <2>3, <2>4 DEF CallChain
  <2>6. \A k \in 1 .. Len(stack') :
           exports_state'[stack'[k].module] = "done" => stack'[k].module \in Reported'
    BY <1>1, <2>2, <2>3, ReportsStay DEF CallChain, Replaces
  <2>7. TargetDone'
    BY <2>1, <2>2 DEF TargetDone, Top
  <2> QED BY <2>5, <2>6, <2>7 DEF CallChain
<1>2. CASE Calls
  <2>0. PICK m \in Modules(prog) : \E r : ResolveExports(m, r) /\ Waiting(m, r)
    BY <1>2 DEF Calls
  <2>1. PICK resume : ResolveExports(m, resume) /\ Waiting(m, resume)
    BY <2>0
  <2>2. /\ Len(resume) = Len(stack)
        /\ \A k \in 1 .. Len(stack) : resume[k].module = stack[k].module
        /\ \A k \in 1 .. Len(stack) - 1 : resume[k] = stack[k]
        /\ stack # <<>> => resume[Len(stack)].step = "reexport" /\ resume[Len(stack)].cur = m
    BY <2>1 DEF Waiting
  <2>3. \A k \in 1 .. Len(stack) - 1 : k \in 1 .. Len(stack) /\ k + 1 \in 1 .. Len(stack)
    BY <1>0
  <2>4. \A k \in 1 .. Len(resume) - 1 :
           resume[k].step = "reexport" /\ resume[k].cur = resume[k + 1].module
    BY <2>2, <2>3 DEF CallChain
  <2>5. ASSUME stack' = resume, exports_state'[m] = "done" PROVE TargetDone'
    <3>1. SUFFICES ASSUME stack' # <<>> PROVE stack'[Len(stack')].cur = m
      BY <2>5 DEF TargetDone, Top
    <3>2. stack # <<>>
      BY <1>0, <2>1, <2>2, <2>5, <3>1 DEF Waiting
    <3> QED BY <2>2, <2>5, <3>2
  <2>6. CASE stack' = resume /\ exports_state[m] = "done" /\ UNCHANGED <<exports_state, diags>>
    <3>1. \A k \in 1 .. Len(stack') :
             exports_state'[stack'[k].module] = "done" => stack'[k].module \in Reported'
      BY <2>2, <2>6, ReportsStay DEF CallChain
    <3> QED BY <2>4, <2>5, <2>6, <3>1 DEF CallChain
  <2>7. CASE /\ stack' = resume /\ exports_state' = [exports_state EXCEPT ![m] = "done"]
             /\ m \in Reported' /\ diags \subseteq diags'
    <3>1. \A k \in 1 .. Len(stack') :
             exports_state'[stack'[k].module] = "done" => stack'[k].module \in Reported'
      BY <1>0, <2>2, <2>7, ReportsStay DEF CallChain
    <3>2. exports_state'[m] = "done"
      BY <1>0, <2>7
    <3> QED BY <2>4, <2>5, <2>7, <3>1, <3>2 DEF CallChain
  <2>8. CASE /\ exports_state[m] = "fresh"
             /\ exports_state' = [exports_state EXCEPT ![m] = "progress"]
             /\ UNCHANGED diags
             /\ Len(stack') = Len(stack) + 1
             /\ stack'[Len(stack) + 1].module = m
             /\ stack'[Len(stack) + 1].step = "scan"
             /\ \A k \in 1 .. Len(stack) : stack'[k] = resume[k]
    <3>1. \A k \in 1 .. Len(stack') : k \in 1 .. Len(stack) \/ k = Len(stack) + 1
      BY <1>0, <2>8
    <3>2. \A k \in 1 .. Len(stack) : stack[k].module # m
      BY <2>8 DEF ActiveOnce
    <3>3. \A k \in 1 .. Len(stack') :
             exports_state'[stack'[k].module] = "done" => stack'[k].module \in Reported'
      <4>1. ASSUME NEW k \in 1 .. Len(stack), exports_state'[stack'[k].module] = "done"
            PROVE  stack'[k].module \in Reported'
        <5>1. stack'[k].module = stack[k].module
          BY <2>2, <2>8
        <5>2. exports_state[stack[k].module] = "done"
          BY <1>0, <2>8, <3>2, <4>1, <5>1
        <5>3. stack[k].module \in Reported
          BY <5>2 DEF CallChain
        <5> QED BY <2>8, <5>1, <5>3 DEF Reported
      <4>2. exports_state'[stack'[Len(stack) + 1].module] = "progress"
        BY <1>0, <2>8
      <4> QED BY <3>1, <4>1, <4>2
    <3>4. \A k \in 1 .. Len(stack') - 1 :
             stack'[k].step = "reexport" /\ stack'[k].cur = stack'[k + 1].module
      <4>1. ASSUME NEW k \in 1 .. Len(stack)
            PROVE  stack'[k].step = "reexport" /\ stack'[k].cur = stack'[k + 1].module
        <5>1. CASE k = Len(stack)
          BY <1>0, <2>2, <2>8, <4>1, <5>1
        <5>2. CASE k \in 1 .. Len(stack) - 1
          BY <2>2, <2>3, <2>4, <2>8, <5>2
        <5> QED BY <1>0, <5>1, <5>2
      <4> QED BY <1>0, <2>8, <4>1
    <3>5. TargetDone'
      BY <2>8 DEF TargetDone, Top
    <3> QED BY <3>3, <3>4, <3>5 DEF CallChain
  <2> QED BY <2>1, <2>6, <2>7, <2>8, CallShape
<1>3. CASE Return
  <2>1. /\ stack # <<>> /\ stack' = Popped /\ UNCHANGED diags
        /\ exports_state' = [exports_state EXCEPT ![Top.module] = "done"]
    BY <1>3 DEF Return
  <2>2. /\ Len(stack') = Len(stack) - 1
        /\ \A k \in 1 .. Len(stack) - 1 : stack'[k] = stack[k]
        /\ Len(stack) \in 1 .. Len(stack)
    BY <1>0, <2>1, PopFrames, TopIsFrame
  <2>3. \A k \in 1 .. Len(stack) - 1 : stack[k].module # Top.module
    BY <1>0, <2>2 DEF ActiveOnce, Top
  <2>4. \A k \in 1 .. Len(stack') :
           exports_state'[stack'[k].module] = "done" => stack'[k].module \in Reported'
    <3> SUFFICES ASSUME NEW k \in 1 .. Len(stack) - 1,
                        exports_state'[stack[k].module] = "done"
                 PROVE  stack[k].module \in Reported'
      BY <2>2
    <3>1. k \in 1 .. Len(stack) /\ stack[k].module # Top.module
      BY <1>0, <2>3
    <3>2. exports_state[stack[k].module] = "done"
      BY <1>0, <2>1, <3>1
    <3> QED BY <2>1, <3>1, <3>2, ReportsStay DEF CallChain
  <2>5. \A k \in 1 .. Len(stack') - 1 :
           stack'[k].step = "reexport" /\ stack'[k].cur = stack'[k + 1].module
    <3> SUFFICES ASSUME NEW k \in 1 .. Len(stack) - 2
                 PROVE  stack'[k].step = "reexport" /\ stack'[k].cur = stack'[k + 1].module
      BY <1>0, <2>2
    <3>1. k \in 1 .. Len(stack) - 1 /\ k + 1 \in 1 .. Len(stack) - 1
      BY <1>0
    <3> QED BY <2>2, <3>1 DEF CallChain
  <2>6. TargetDone'
    <3>1. CASE Len(stack) = 1
      <4>1. stack' = <<>>
        BY <1>0, <2>1, <2>2, <3>1, PopFrames
      <4> QED BY <4>1 DEF TargetDone
    <3>2. CASE Len(stack) > 1
      <4> DEFINE n == Len(stack) - 1
      <4>1. n \in 1 .. Len(stack) - 1 /\ n + 1 = Len(stack)
        BY <1>0, <3>2
      <4>2. stack[n].cur = stack[Len(stack)].module
        BY <4>1 DEF CallChain
      <4>3. stack'[Len(stack')].cur = Top.module
        BY <2>2, <4>1, <4>2 DEF Top
      <4>4. Top.module \in Modules(prog)
        BY <1>0, <2>2 DEF Top
      <4>5. exports_state'[Top.module] = "done"
        BY <1>0, <2>1, <4>4
      <4> QED BY <4>3, <4>5 DEF TargetDone, Top
    <3> QED BY <1>0, <2>2, <3>1, <3>2
  <2> QED BY <2>4, <2>5, <2>6 DEF CallChain
<1>4. CASE UNCHANGED <<stack, exports_state, diags>>
  BY <1>4 DEF CallChain, TargetDone, Reported, Top
<1> QED BY <1>1, <1>2, <1>3, <1>4, StepShape

\* What is looked up in another module's imports is looked up when that
\* module's activation has ended, or when a cycle has been reported at it.
THEOREM ReadsCompleteCorrect == Spec => []ReadsCompleteExports
<1>1. Init => CallChain /\ TargetDone
  BY DEF Init, CallChain, TargetDone
<1>2. TypeOK /\ ActiveOnce /\ CallChain /\ TargetDone /\ [Next]_vars
         => CallChain' /\ TargetDone'
  BY CallChainStep
<1>3. CallChain /\ TargetDone => ReadsCompleteExports
  BY ReportedMeans DEF CallChain, TargetDone, ReadsCompleteExports, Active
<1> QED BY <1>1, <1>2, <1>3, TypeCorrect, ActiveOnceCorrect, PTL DEF Spec

\* What a step does to the imports and the mark of one module: bindings are
\* added only, and not to a done module unless a cycle was reported at it.
LEMMA DoneKept ==
    ASSUME TypeOK, CallChain, [Next]_vars, NEW m \in Modules(prog)
    PROVE  /\ imports[m] \subseteq imports'[m]
           /\ exports_state[m] = "done" =>
                 /\ exports_state'[m] = "done"
                 /\ imports'[m] = imports[m] \/ CycleReported(m)
<1>1. exports_state[m] = "done" => exports_state'[m] = "done"
  <2>0. exports_state \in [Modules(prog) -> {"fresh", "progress", "done"}]
    BY DEF TypeOK
  <2>1. CASE Calls
    BY <2>0, <2>1 DEF Calls, ResolveExports, EnterDone, EnterCycle, EnterFresh
  <2>2. CASE Return
    BY <2>0, <2>2 DEF Return
  <2> QED BY <2>1, <2>2, StepShape DEF Replaces
<1>2. CASE imports' = imports
  BY <1>1, <1>2
<1>3. CASE /\ stack # <<>> /\ Top.step # "scan"
           /\ \E S : AddImports(S)
  <2>1. /\ imports[m] \subseteq imports'[m]
        /\ m # Top.module => imports'[m] = imports[m]
    BY <1>3, AddedImports
  <2>2. exports_state[Top.module] = "done" => CycleReported(Top.module)
    <3>1. Len(stack) \in 1 .. Len(stack) /\ Top = stack[Len(stack)]
      BY <1>3, TopIsFrame DEF TypeOK
    <3> QED BY <3>1, ReportedMeans DEF CallChain
  <2> QED BY <1>1, <2>1, <2>2
<1> QED BY <1>2, <1>3, ImportsChange

\* Bindings are never taken back, and a module marked done keeps the imports
\* it has unless the mark came from a reported cycle.
THEOREM DoneIsFinalCorrect == Spec => DoneIsFinal
<1> DEFINE Kept ==
      \A m \in Modules(prog) :
          /\ imports[m] \subseteq imports'[m]
          /\ exports_state[m] = "done" =>
                /\ exports_state'[m] = "done"
                /\ imports'[m] = imports[m] \/ CycleReported(m)
<1>1. Init => CallChain /\ TargetDone
  BY DEF Init, CallChain, TargetDone
<1>2. TypeOK /\ ActiveOnce /\ CallChain /\ TargetDone /\ [Next]_vars
         => CallChain' /\ TargetDone'
  BY CallChainStep
<1>3. TypeOK /\ CallChain /\ [Next]_vars => [Kept]_vars
  BY DoneKept
<1> QED BY <1>1, <1>2, <1>3, TypeCorrect, ActiveOnceCorrect, PTL DEF Spec, DoneIsFinal

-----------------------------------------------------------------------------
(***************************************************************************)
(* The frame's place on its path.                                          *)
(***************************************************************************)
\* w leads from module m along the first n segments of path.
Leads(p, m, path, n, w) ==
    /\ w \in [1 .. n -> Modules(p)]
    /\ w[1] = HeadModule(p, m, path[1])
    /\ \A i \in 2 .. n : w[i] = FindChildModule(p, w[i-1], path[i])

\* cur is what the first seg segments name; a frame waits for re-exports only
\* at the end of the path and when the member is no item of cur.
OnPath(p, f) ==
    f.step # "scan" =>
        /\ \E w : Leads(p, f.module, p.uses[f.module][f.item].path, f.seg, w) /\ f.cur = w[f.seg]
        /\ f.step = "reexport" =>
              /\ f.seg = Len(p.uses[f.module][f.item].path) - 1
              /\ ~HasLocal(p, f.cur, Member(p.uses[f.module][f.item]))

FramesOnPath == \A k \in 1 .. Len(stack) : OnPath(prog, stack[k])

\* The head segment alone leads to the head's module.
LEMMA LeadsHead ==
    ASSUME NEW p, NEW m, NEW path, NEW c \in Modules(p), c = HeadModule(p, m, path[1])
    PROVE  \E w : Leads(p, m, path, 1, w) /\ c = w[1]
<1> DEFINE w == [i \in 1 .. 1 |-> c]
<1>1. w \in [1 .. 1 -> Modules(p)] /\ w[1] = c
  OBVIOUS
<1>2. \A i \in 2 .. 1 : FALSE
  OBVIOUS
<1> HIDE DEF w
<1>3. Leads(p, m, path, 1, w) /\ c = w[1]
  BY <1>1, <1>2 DEF Leads
<1> QED BY <1>3

\* One more segment leads to the child it names.
LEMMA LeadsChild ==
    ASSUME NEW p, NEW m, NEW path, NEW n \in Nat \ {0}, NEW w, Leads(p, m, path, n, w),
           NEW c \in Modules(p), c = FindChildModule(p, w[n], path[n + 1])
    PROVE  \E v : Leads(p, m, path, n + 1, v) /\ c = v[n + 1]
<1> DEFINE v == [i \in 1 .. n + 1 |-> IF i = n + 1 THEN c ELSE w[i]]
<1>1. v \in [1 .. n + 1 -> Modules(p)]
  BY DEF Leads
<1>2. v[n + 1] = c /\ \A i \in 1 .. n : v[i] = w[i]
  OBVIOUS
<1> HIDE DEF v
<1>3. v[1] = HeadModule(p, m, path[1])
  BY <1>2 DEF Leads
<1>4. ASSUME NEW i \in 2 .. n + 1 PROVE v[i] = FindChildModule(p, v[i-1], path[i])
  <2>1. CASE i = n + 1
    BY <1>2, <2>1
  <2>2. CASE i \in 2 .. n
    <3>1. i \in 1 .. n /\ i - 1 \in 1 .. n
      BY <2>2
    <3> QED BY <1>2, <2>2, <3>1 DEF Leads
  <2> QED BY <2>1, <2>2
<1>5. Leads(p, m, path, n + 1, v)
  BY <1>1, <1>3, <1>4 DEF Leads
<1> QED BY <1>2, <1>5

\* A new top frame on its path keeps every frame on its path.
LEMMA WithTopOnPath ==
    ASSUME TypeOK, FramesOnPath, stack # <<>>, NEW f \in Frame, OnPath(prog, f),
           stack' = WithTop(f), prog' = prog
    PROVE  FramesOnPath'
<1>1. stack \in Seq(Frame)
  BY DEF TypeOK
<1>2. \A k \in 1 .. Len(stack) : k \in 1 .. Len(stack) - 1 \/ k = Len(stack)
  BY <1>1
<1>3. \A k \in 1 .. Len(stack') : OnPath(prog, stack'[k])
  BY <1>1, <1>2, WithTopFrames DEF FramesOnPath
<1> QED BY <1>3 DEF FramesOnPath

\* A call of resolve_exports from a stack of frames on their paths.
LEMMA CallOnPath ==
    ASSUME NEW m, NEW resume \in Seq(Frame), \A k \in 1 .. Len(resume) : OnPath(prog, resume[k]),
           m \in Nat, ResolveExports(m, resume), prog' = prog
    PROVE  FramesOnPath'
<1>1. CASE stack' = resume
  BY <1>1 DEF FramesOnPath
<1>2. CASE stack' = Append(resume, NewFrame(m))
  <2>1. NewFrame(m) \in Frame /\ OnPath(prog, NewFrame(m))
    BY DEF NewFrame, Frame, OnPath
  <2>2. \A k \in 1 .. Len(stack') : k \in 1 .. Len(resume) \/ k = Len(resume) + 1
    BY <1>2
  <2>3. \A k \in 1 .. Len(stack') : OnPath(prog, stack'[k])
    BY <1>2, <2>1, <2>2, PushFrames
  <2> QED BY <2>3 DEF FramesOnPath
<1> QED BY <1>1, <1>2 DEF ResolveExports, EnterDone, EnterCycle, EnterFresh

\* Every step keeps the frames on their paths.
LEMMA OnPathStep ==
    ASSUME TypeOK, FramesOnPath, [Next]_vars
    PROVE  FramesOnPath'
<1>0. /\ prog' = prog /\ IsModuleGraph(prog) /\ stack \in Seq(Frame)
      /\ stack # <<>> => Top \in Frame /\ FrameOK(prog, Top) /\ OnPath(prog, Top)
  <2>1. stack # <<>> => Top = stack[Len(stack)] /\ Len(stack) \in 1 .. Len(stack) /\ Top \in Frame
    BY TopIsFrame DEF TypeOK
  <2> QED BY <2>1, ImportsChange, ProgIsGraph DEF TypeOK, FramesOnPath
<1>1. CASE StartModule
  <2>1. next \in Nat /\ <<>> \in Seq(Frame) /\ Len(<<>>) = 0 /\ ResolveExports(next, <<>>)
    BY <1>0, <1>1, ModuleIndices DEF StartModule, TypeOK
  <2>2. \A k \in 1 .. Len(<<>>) : OnPath(prog, <<>>[k])
    BY <2>1
  <2> QED BY <1>0, <2>1, <2>2, CallOnPath
<1>2. CASE PrivatePass
  <2> DEFINE g == [Top EXCEPT !.pub = FALSE, !.item = 0]
  <2>1. g \in Frame /\ g.step = "scan" /\ stack # <<>> /\ stack' = WithTop(g)
    BY <1>0, <1>2 DEF PrivatePass, Frame
  <2> QED BY <1>0, <2>1, WithTopOnPath DEF OnPath
<1>3. CASE Return
  <2>1. stack # <<>> /\ stack' = Popped
    BY <1>3 DEF Return
  <2>2. /\ Len(stack') = Len(stack) - 1
        /\ \A k \in 1 .. Len(stack) - 1 : stack'[k] = stack[k]
    BY <1>0, <2>1, PopFrames
  <2>3. \A k \in 1 .. Len(stack') : k \in 1 .. Len(stack) /\ stack'[k] = stack[k]
    BY <1>0, <2>2
  <2> QED BY <1>0, <2>3 DEF FramesOnPath
<1>4. CASE BeginUse
  <2>1. stack # <<>> /\ Top.step = "scan"
    BY <1>4 DEF BeginUse
  <2> PICK i \in PendingUses(Top) :
        LET f    == [Top EXCEPT !.item = i]
            path == prog.uses[f.module][i].path
            head == HeadModule(prog, f.module, path[1])
        IN  \/ FailUse(f)
            \/ /\ head # kNoModule
               /\ stack' = WithTop([f EXCEPT !.step = "walk", !.cur = head, !.seg = 1])
    BY <1>4 DEF BeginUse
  <2> DEFINE f == [Top EXCEPT !.item = i]
             path == prog.uses[f.module][i].path
             head == HeadModule(prog, f.module, path[1])
  <2>2. i \in Nat
    <3>1. Top.item \in Nat
      BY <1>0, <2>1 DEF Frame
    <3> QED BY <3>1 DEF PendingUses
  <2>3. f \in Frame /\ f.module = Top.module /\ f.item = i
    BY <1>0, <2>1, <2>2 DEF Frame
  <2>4. CASE FailUse(f)
    <3>1. [f EXCEPT !.step = "scan"] \in Frame /\ [f EXCEPT !.step = "scan"].step = "scan"
      BY <2>3 DEF Frame
    <3> QED BY <1>0, <2>1, <2>4, <3>1, WithTopOnPath DEF FailUse, OnPath
  <2>5. CASE /\ head # kNoModule
             /\ stack' = WithTop([f EXCEPT !.step = "walk", !.cur = head, !.seg = 1])
    <3> DEFINE g == [f EXCEPT !.step = "walk", !.cur = head, !.seg = 1]
    <3>1. head \in Modules(prog) /\ head \in Nat
      BY <1>0, <2>1, <2>3, <2>5, HeadModuleType, ModuleIndices DEF FrameOK
    <3>2. /\ g \in Frame /\ g.module = Top.module /\ g.item = i
          /\ g.step = "walk" /\ g.seg = 1 /\ g.cur = head
      BY <2>3, <3>1 DEF Frame
    <3>3. \E w : Leads(prog, f.module, path, 1, w) /\ head = w[1]
      <4>1. head = HeadModule(prog, f.module, path[1])
        OBVIOUS
      <4> HIDE DEF head, path, f
      <4> QED BY <3>1, <4>1, LeadsHead
    <3> HIDE DEF g
    <3>4. OnPath(prog, g)
      BY <2>3, <3>2, <3>3 DEF OnPath
    <3> QED BY <1>0, <2>1, <2>5, <3>2, <3>4, WithTopOnPath DEF g
  <2> QED BY <2>4, <2>5
<1>5. CASE WalkSegment
  <2>1. stack # <<>> /\ Top.step = "walk"
    BY <1>5 DEF WalkSegment
  <2> DEFINE child == FindChildModule(prog, Top.cur, CurrentUse.path[Top.seg + 1])
  <2>2. CASE FailUse(Top)
    <3>1. [Top EXCEPT !.step = "scan"] \in Frame /\ [Top EXCEPT !.step = "scan"].step = "scan"
      BY <1>0, <2>1 DEF Frame
    <3> QED BY <1>0, <2>1, <2>2, <3>1, WithTopOnPath DEF FailUse, OnPath
  <2>3. CASE /\ child # kNoModule
             /\ stack' = WithTop([Top EXCEPT !.cur = child, !.seg = @ + 1])
    <3> DEFINE g == [Top EXCEPT !.cur = child, !.seg = @ + 1]
    <3>1. child \in Modules(prog) /\ child \in Nat
      BY <1>0, <2>3, FindChildType, ModuleIndices
    <3>2. Top.seg \in Nat \ {0}
      BY <1>0, <2>1 DEF FrameOK, Frame
    <3>3. /\ g \in Frame /\ g.module = Top.module /\ g.item = Top.item
          /\ g.step = "walk" /\ g.seg = Top.seg + 1 /\ g.cur = child
      <4>1. \A n \in Nat : [Top EXCEPT !.cur = child, !.seg = n] \in Frame
        BY <1>0, <2>1, <3>1 DEF Frame
      <4>2. Top.seg + 1 \in Nat
        BY <3>2
      <4> QED BY <1>0, <2>1, <4>1, <4>2 DEF Frame
    <3>4. PICK w : Leads(prog, Top.module, CurrentUse.path, Top.seg, w) /\ Top.cur = w[Top.seg]
      BY <1>0, <2>1 DEF OnPath, CurrentUse
    <3>5. \E v : Leads(prog, Top.module, CurrentUse.path, Top.seg + 1, v) /\ child = v[Top.seg + 1]
      <4> HIDE DEF child
      <4> QED BY <3>1, <3>2, <3>4, LeadsChild DEF child
    <3> HIDE DEF g, child
    <3>6. OnPath(prog, g)
      BY <3>3, <3>5 DEF OnPath, CurrentUse
    <3> QED BY <1>0, <2>1, <2>3, <3>3, <3>6, WithTopOnPath DEF g
  <2> QED BY <1>5, <2>2, <2>3 DEF WalkSegment
<1>6. CASE UseLocal \/ UseReexport
  <2>1. /\ stack # <<>> /\ UseDone \in Frame /\ UseDone.step = "scan"
    BY <1>0, <1>6 DEF UseLocal, WalkDone, UseReexport, UseDone, Frame
  <2>2. stack' = WithTop(UseDone)
    BY <1>6 DEF UseLocal, UseReexport, FailUse, AddImports, UseDone
  <2> QED BY <1>0, <2>1, <2>2, WithTopOnPath DEF OnPath
<1>7. CASE Descend
  <2>1. /\ stack # <<>> /\ Top.step = "walk" /\ Top.seg + 1 = Len(CurrentUse.path)
        /\ ~HasLocal(prog, Top.cur, Member(CurrentUse))
    BY <1>7 DEF Descend, WalkDone
  <2> DEFINE g == [Top EXCEPT !.step = "reexport"]
  <2>2. /\ g \in Frame /\ g.module = Top.module /\ g.item = Top.item
        /\ g.step = "reexport" /\ g.seg = Top.seg /\ g.cur = Top.cur
    BY <1>0, <2>1 DEF Frame
  <2>3. Top.seg \in Nat /\ Top.cur \in Nat
    BY <1>0, <2>1 DEF Frame
  <2>4. g.seg = Len(CurrentUse.path) - 1
    BY <2>1, <2>2, <2>3
  <2> HIDE DEF g
  <2>5. OnPath(prog, g)
    BY <1>0, <2>1, <2>2, <2>4 DEF OnPath, CurrentUse
  <2>6. CASE stack' = WithTop(g)
    BY <1>0, <2>1, <2>2, <2>5, <2>6, WithTopOnPath
  <2>7. CASE ResolveExports(Top.cur, WithTop(g))
    <3>1. WithTop(g) \in Seq(Frame)
      BY <1>0, <2>1, <2>2, WithTopFrames
    <3>2. \A k \in 1 .. Len(stack) : k \in 1 .. Len(stack) - 1 \/ k = Len(stack)
      BY <1>0
    <3>3. \A k \in 1 .. Len(WithTop(g)) : OnPath(prog, WithTop(g)[k])
      BY <1>0, <2>1, <2>2, <2>5, <3>2, WithTopFrames DEF FramesOnPath
    <3> QED BY <1>0, <2>3, <2>7, <3>1, <3>3, CallOnPath
  <2> QED BY <1>7, <2>6, <2>7 DEF Descend, g
<1>8. CASE UNCHANGED vars
  BY <1>8 DEF vars, FramesOnPath
<1> QED BY <1>1, <1>2, <1>3, <1>4, <1>5, <1>6, <1>7, <1>8 DEF Next, Terminated

-----------------------------------------------------------------------------
(***************************************************************************)
(* The refinement.                                                         *)
(***************************************************************************)
\* ImportFixpoint's lookups are those of ImportResolve.
LEMMA SameLookups ==
    /\ \A p : Abs!Modules(p) = Modules(p)
    /\ \A p, m, head : Abs!HeadModule(p, m, head) = HeadModule(p, m, head)
    /\ \A p, m, name : Abs!FindChildModule(p, m, name) = FindChildModule(p, m, name)
    /\ \A p, m, name : Abs!HasLocal(p, m, name) = HasLocal(p, m, name)
    /\ \A u, c : Abs!LocalImports(prog, u, c) = LocalImports(u, c)
    /\ \A u, c : Abs!ReexportImports(imports, u, c) = Reexports(u, c)
    /\ \A u : Abs!Member(u) = Member(u)
<1> USE DEF Abs!Modules, Modules, Abs!Children, Children, Abs!FindChildModule, FindChildModule,
            Abs!kNoModule, kNoModule, Abs!Namespace, Namespace, Abs!Member, Member
<1>1. \A p : Abs!Modules(p) = Modules(p)
  OBVIOUS
<1>2. \A p, m, name : Abs!FindChildModule(p, m, name) = FindChildModule(p, m, name)
  OBVIOUS
<1>3. \A p, m, head : Abs!HeadModule(p, m, head) = HeadModule(p, m, head)
  BY DEF Abs!HeadModule, HeadModule
<1>4. \A p, m, ns : Abs!LocalNames(p, m, ns) = LocalNames(p, m, ns)
  BY DEF Abs!LocalNames, LocalNames
<1>5. \A p, m, name : Abs!HasLocal(p, m, name) = HasLocal(p, m, name)
  BY <1>4 DEF Abs!HasLocal, HasLocal
<1>6. \A u, c : Abs!LocalImports(prog, u, c) = LocalImports(u, c)
  BY <1>4 DEF Abs!LocalImports, LocalImports, Abs!BoundName, BoundName, Abs!NoAlias, NoAlias
<1>7. \A u, c : Abs!ReexportImports(imports, u, c) = Reexports(u, c)
  BY DEF Abs!ReexportImports, Reexports, Abs!BoundName, BoundName, Abs!NoAlias, NoAlias
<1> QED BY <1>1, <1>2, <1>3, <1>5, <1>6, <1>7

\* A frame at the end of its path has reached the module the path names, and
\* its candidates are what the use denotes there.
LEMMA CandidatesDenoted ==
    ASSUME TypeOK, FramesOnPath, UseLocal \/ UseReexport
    PROVE  /\ Abs!NamesModule(prog, Top.module, CurrentUse.path, Top.cur)
           /\ UseLocal =>
                 LocalImports(CurrentUse, Top.cur) = Abs!Denotes(prog, imports, CurrentUse, Top.cur)
           /\ UseReexport =>
                 Reexports(CurrentUse, Top.cur) = Abs!Denotes(prog, imports, CurrentUse, Top.cur)
<1> DEFINE path == CurrentUse.path
<1>1. stack # <<>> /\ Top.step # "scan" /\ OnPath(prog, Top)
  <2>1. stack # <<>> /\ Top.step # "scan"
    BY DEF UseLocal, WalkDone, UseReexport
  <2>2. Top = stack[Len(stack)] /\ Len(stack) \in 1 .. Len(stack)
    BY <2>1, TopIsFrame DEF TypeOK
  <2> QED BY <2>1, <2>2 DEF FramesOnPath
<1>2. Len(path) \in Nat /\ Top.seg \in 1 .. Len(path) - 1
  BY <1>1, CurrentUseType
<1>3. Top.seg = Len(path) - 1
  <2>1. UseReexport => Top.seg = Len(path) - 1
    BY <1>1 DEF UseReexport, OnPath, CurrentUse
  <2>2. UseLocal => Top.seg + 1 = Len(path)
    BY DEF UseLocal, WalkDone
  <2> HIDE DEF path
  <2>3. UseLocal => Top.seg = Len(path) - 1
    BY <1>2, <2>2
  <2> QED BY <2>1, <2>3
<1>4. PICK w : Leads(prog, Top.module, path, Len(path) - 1, w) /\ Top.cur = w[Len(path) - 1]
  BY <1>1, <1>3 DEF OnPath, CurrentUse
<1>5. Len(path) >= 2
  BY <1>2
<1> HIDE DEF path
<1>6. Abs!NamesModule(prog, Top.module, path, Top.cur)
  BY <1>4, <1>5, SameLookups DEF Leads, Abs!NamesModule
<1>7. UseLocal => HasLocal(prog, Top.cur, Member(CurrentUse))
  BY DEF UseLocal
<1>8. UseReexport => ~HasLocal(prog, Top.cur, Member(CurrentUse))
  BY <1>1 DEF UseReexport, OnPath, CurrentUse
<1> QED BY <1>6, <1>7, <1>8, SameLookups DEF Abs!Denotes, path

\* A step of the resolver is a Bind, or leaves graph and imports alone.
LEMMA StepBinds ==
    ASSUME TypeOK, FramesOnPath, ImportsUnambiguous, [Next]_vars
    PROVE  [Abs!Next]_(Abs!vars)
<1>0. prog' = prog
  BY ImportsChange
<1>1. CASE imports' = imports
  BY <1>0, <1>1 DEF Abs!vars
<1>2. CASE imports' # imports
  <2> DEFINE S == Abs!Denotes(prog, imports, CurrentUse, Top.cur)
             T == {i \in S : ~Conflicts(Top.module, i)}
  <2>1. /\ UseLocal \/ UseReexport
        /\ stack # <<>> /\ Top.step # "scan"
    BY <1>2, ImportsChange
  <2>2. S = LocalImports(CurrentUse, Top.cur) \/ S = Reexports(CurrentUse, Top.cur)
    BY <2>1, CandidatesDenoted
  <2>3. AddImports(S)
    <3>1. UseLocal => AddImports(LocalImports(CurrentUse, Top.cur))
      BY DEF UseLocal
    <3>2. UseReexport => AddImports(Reexports(CurrentUse, Top.cur))
      BY <1>2 DEF UseReexport, FailUse
    <3> QED BY <2>1, <3>1, <3>2, CandidatesDenoted
  <2>4. Candidates(S)
    BY <2>2 DEF Candidates
  <2> HIDE DEF S
  <2>5. Abs!Unambiguous(prog, Top.module, imports[Top.module] \cup T)
    BY <2>1, <2>4, AddedUnambiguous
  <2>6. imports' = [imports EXCEPT ![Top.module] = @ \cup T]
    BY <2>3 DEF AddImports
  <2>7. /\ Top.module \in Modules(prog) /\ Top.cur \in Modules(prog)
        /\ Top.item \in 1 .. Len(prog.uses[Top.module])
    BY <2>1, CurrentUseType DEF FrameOK
  <2>8. T \in SUBSET S
    OBVIOUS
  <2> HIDE DEF T
  <2>9. Abs!NamesModule(prog, Top.module, prog.uses[Top.module][Top.item].path, Top.cur)
    BY <2>1, CandidatesDenoted DEF CurrentUse
  <2>10. Abs!Bind(Top.module)
    BY <1>0, <2>5, <2>6, <2>7, <2>8, <2>9, SameLookups DEF Abs!Bind, S, CurrentUse
  <2> QED BY <2>7, <2>10, SameLookups DEF Abs!Next
<1> QED BY <1>1, <1>2

\* The resolver implements ImportFixpoint for every set of module graphs.
THEOREM RefinementCorrect == Spec => RefinesFixpoint
<1>1. Init => Abs!Init
  BY DEF Init, Abs!Init, Modules, Abs!Modules
<1>2. Init => FramesOnPath
  BY DEF Init, FramesOnPath
<1>3. TypeOK /\ FramesOnPath /\ [Next]_vars => FramesOnPath'
  BY OnPathStep
<1>4. TypeOK /\ FramesOnPath /\ ImportsUnambiguous /\ [Next]_vars => [Abs!Next]_(Abs!vars)
  BY StepBinds
<1> QED BY <1>1, <1>2, <1>3, <1>4, TypeCorrect, UnambiguousCorrect, PTL
        DEF Spec, RefinesFixpoint, Abs!Spec

-----------------------------------------------------------------------------
(***************************************************************************)
(* No use is lost.  Each use that the resolver has left behind is settled: *)
(* it has bound its name or has a diagnostic, and in a run without any it  *)
(* has bound all that it denotes, which for a re-export is what a finished *)
(* module exports and so will not change.                                  *)
(***************************************************************************)
\* The uses frame f has behind it: of this pass, and of the pass before.
Behind(p, f) ==
    {i \in 1 .. Len(p.uses[f.module]) :
        \/ p.uses[f.module][i].pub = f.pub /\ i <= f.item /\ (i = f.item => f.step = "scan")
        \/ ~f.pub /\ p.uses[f.module][i].pub}

Accounted(m, i) ==
    \/ \E j \in imports[m] : j.name = BoundName(prog.uses[m][i])
    \/ \E d \in diags : d.module = m /\ d.item = i

\* What use u of m denotes in module c is bound, once and for all.
Finds(m, u, c) ==
    /\ Abs!Denotes(prog, imports, u, c) \subseteq imports[m]
    /\ HasLocal(prog, c, Member(u)) \/ (c # m /\ exports_state[c] = "done")

Complete(m, i) ==
    diags = {} /\ ~SelfReexport(m, prog.uses[m][i]) =>
        \A c \in Modules(prog) :
            Abs!NamesModule(prog, m, prog.uses[m][i].path, c) => Finds(m, prog.uses[m][i], c)

Settled(m, i) == Accounted(m, i) /\ Complete(m, i)

FramesSettled ==
    \A k \in 1 .. Len(stack), m \in Modules(prog) :
        stack[k].module = m => \A i \in Behind(prog, stack[k]) : Settled(m, i)

UsesSettled ==
    /\ FramesSettled
    /\ \A m \in Modules(prog) :
          exports_state[m] = "done" =>
              Active(m) \/ \A i \in 1 .. Len(prog.uses[m]) : Settled(m, i)
    /\ \A m \in 0 .. next - 1 : exports_state[m] # "fresh"

\* A path names at most one module: each segment is followed to one child.
LEMMA NamesOne ==
    ASSUME NEW p, NEW m, NEW path, Len(path) \in Nat, NEW c, NEW d,
           Abs!NamesModule(p, m, path, c), Abs!NamesModule(p, m, path, d)
    PROVE  c = d
<1> DEFINE n == Len(path) - 1
<1>1. PICK v : /\ v[1] = Abs!HeadModule(p, m, path[1]) /\ c = v[n]
               /\ \A i \in 2 .. n : v[i] = Abs!FindChildModule(p, v[i-1], path[i])
  BY DEF Abs!NamesModule
<1>2. PICK w : /\ w[1] = Abs!HeadModule(p, m, path[1]) /\ d = w[n]
               /\ \A i \in 2 .. n : w[i] = Abs!FindChildModule(p, w[i-1], path[i])
  BY DEF Abs!NamesModule
<1>3. n \in Nat \ {0}
  <2>1. PICK len \in Nat : len = Len(path)
    OBVIOUS
  <2>2. len >= 2
    BY <2>1 DEF Abs!NamesModule
  <2>3. len - 1 \in Nat \ {0}
    BY <2>2
  <2> QED BY <2>1, <2>3
<1> HIDE DEF n
<1> DEFINE S == {k \in Nat : k + 1 <= n => v[k + 1] = w[k + 1]}
<1>4. 0 \in S
  BY <1>1, <1>2
<1>5. ASSUME NEW k \in Nat, k \in S PROVE k + 1 \in S
  <2> SUFFICES ASSUME k + 2 <= n PROVE v[k + 2] = w[k + 2]
    BY <1>3
  <2>1. k + 2 \in 2 .. n /\ k + 2 - 1 = k + 1 /\ k + 1 <= n
    BY <1>3
  <2>2. v[k + 1] = w[k + 1]
    BY <1>5, <2>1
  <2>3. /\ v[k + 2] = Abs!FindChildModule(p, v[k + 1], path[k + 2])
        /\ w[k + 2] = Abs!FindChildModule(p, w[k + 1], path[k + 2])
    BY <1>1, <1>2, <2>1
  <2> QED BY <2>2, <2>3
<1>6. S = Nat
  <2> HIDE DEF S
  <2>1. S \in SUBSET Nat
    BY DEF S
  <2> QED BY <1>4, <1>5, <2>1, NatByNext
<1>7. n - 1 \in S /\ n - 1 + 1 = n
  <2> HIDE DEF S
  <2> QED BY <1>3, <1>6
<1>8. v[n] = w[n]
  BY <1>3, <1>7
<1> QED BY <1>1, <1>2, <1>8

\* Diagnostics are never taken back.
LEMMA DiagsStay == ASSUME TypeOK, [Next]_vars PROVE diags \subseteq diags'
<1>1. CASE Calls
  BY <1>1 DEF Calls, ResolveExports, EnterDone, EnterCycle, EnterFresh
<1>2. CASE Return
  BY <1>2 DEF Return
<1> QED BY <1>1, <1>2, StepShape DEF Replaces

\* A settled use stays settled: a re-export it took came from a module that is
\* done, and without a cycle no import is added to that one any more.
LEMMA SettledStays ==
    ASSUME TypeOK, CallChain, [Next]_vars, NEW m \in Modules(prog), NEW i, Settled(m, i)
    PROVE  Settled(m, i)'
<1>1. prog' = prog /\ diags \subseteq diags' /\ imports[m] \subseteq imports'[m]
  BY ImportsChange, DiagsStay, DoneKept
<1>2. Accounted(m, i)'
  BY <1>1 DEF Settled, Accounted
<1>3. Complete(m, i)'
  <2>0. PICK u : u = prog.uses[m][i]
    OBVIOUS
  <2> SUFFICES ASSUME diags' = {}, ~SelfReexport(m, u)', NEW c \in Modules(prog),
                      Abs!NamesModule(prog, m, u.path, c)
               PROVE  Finds(m, u, c)'
    BY <1>1, <2>0 DEF Complete, Finds, SelfReexport
  <2>1. diags = {} /\ ~SelfReexport(m, u)
    BY <1>1 DEF SelfReexport
  <2>2. Finds(m, u, c)
    BY <2>0, <2>1 DEF Settled, Complete
  <2>3. ~CycleReported(c)
    BY <2>1 DEF CycleReported
  <2>4. CASE HasLocal(prog, c, Member(u))
    <3>1. Abs!Denotes(prog, imports, u, c) = Abs!Denotes(prog, imports', u, c)
      BY <2>4, SameLookups DEF Abs!Denotes
    <3> QED BY <1>1, <2>2, <2>4, <3>1 DEF Finds
  <2>5. CASE c # m /\ exports_state[c] = "done"
    <3>1. imports'[c] = imports[c] /\ exports_state'[c] = "done"
      BY <2>3, <2>5, DoneKept
    <3>2. Abs!Denotes(prog, imports, u, c) = Abs!Denotes(prog, imports', u, c)
      BY <3>1 DEF Abs!Denotes, Abs!ReexportImports
    <3> QED BY <1>1, <2>2, <2>5, <3>1, <3>2 DEF Finds
  <2> QED BY <2>2, <2>4, <2>5 DEF Finds
<1> QED BY <1>2, <1>3 DEF Settled

\* A use that fails has its diagnostic.
LEMMA UseFailed ==
    ASSUME NEW f, FailUse(f), NEW m, m = f.module, NEW i, i = f.item
    PROVE  Settled(m, i)'
<1>1. UnresolvedAt(f) \in diags' /\ UnresolvedAt(f).module = m /\ UnresolvedAt(f).item = i
  BY DEF FailUse, UnresolvedAt
<1> QED BY <1>1 DEF Settled, Accounted, Complete

\* A use that is found has bound its name, or add_import has refused it; what
\* it denotes is complete when the module it was found in was.
LEMMA UseBound ==
    ASSUME TypeOK, FramesOnPath, TargetDone, UseLocal \/ UseReexport, prog' = prog,
           NEW m, m = Top.module, NEW i, i = Top.item
    PROVE  Settled(m, i)'
<1>0. stack # <<>> /\ Top.step # "scan"
  BY DEF UseLocal, WalkDone, UseReexport
<1>1. PICK u : u = prog.uses[m][i] /\ u = CurrentUse
  BY DEF CurrentUse
<1>2. PICK c : c = Top.cur
  OBVIOUS
<1>3. /\ Abs!NamesModule(prog, m, u.path, c) /\ Len(u.path) \in Nat
      /\ m \in Modules(prog) /\ c \in Modules(prog)
  BY <1>0, <1>1, <1>2, CandidatesDenoted, CurrentUseType DEF FrameOK
<1>4. CASE FailUse(Top)
  BY <1>4, UseFailed
<1>5. CASE ~FailUse(Top)
  <2>1. PICK S : /\ S = Abs!Denotes(prog, imports, u, c) /\ S # {} /\ Candidates(S)
                 /\ AddImports(S)
    <3>1. CASE UseLocal
      <4>1. LocalImports(u, c) # {}
        BY <1>1, <1>2, <3>1 DEF UseLocal, HasLocal, LocalImports
      <4>2. LocalImports(u, c) = Abs!Denotes(prog, imports, u, c) /\ AddImports(LocalImports(u, c))
        BY <1>1, <1>2, <3>1, CandidatesDenoted DEF UseLocal
      <4> QED BY <1>1, <1>2, <4>1, <4>2 DEF Candidates
    <3>2. CASE UseReexport
      <4>1. Reexports(u, c) # {} /\ AddImports(Reexports(u, c))
        BY <1>1, <1>2, <1>5, <3>2 DEF UseReexport
      <4>2. Reexports(u, c) = Abs!Denotes(prog, imports, u, c)
        BY <1>1, <1>2, <3>2, CandidatesDenoted
      <4> QED BY <1>1, <1>2, <4>1, <4>2 DEF Candidates
    <3> QED BY <3>1, <3>2
  <2>2. imports'[m] = imports[m] \cup {j \in S : ~Conflicts(m, j)}
    BY <1>0, <2>1, AddedImports
  <2>3. \A n \in Modules(prog) : n # m => imports'[n] = imports[n]
    BY <1>0, <2>1, AddedImports
  <2>4. \A j \in S : Conflicts(m, j) =>
           [code |-> "AmbiguousImport", module |-> m, item |-> i] \in diags'
    BY <2>1 DEF AddImports
  <2>5. Accounted(m, i)'
    <3>1. PICK j \in S : TRUE
      BY <2>1
    <3>2. j.name = BoundName(u)
      BY <1>1, <2>1, CandidatesName
    <3>3. CASE Conflicts(m, j)
      <4> DEFINE d == [code |-> "AmbiguousImport", module |-> m, item |-> i]
      <4>1. d \in diags' /\ d.module = m /\ d.item = i
        BY <2>4, <3>3
      <4> HIDE DEF d
      <4> QED BY <4>1 DEF Accounted
    <3>4. CASE ~Conflicts(m, j)
      BY <1>1, <2>2, <3>2, <3>4 DEF Accounted
    <3> QED BY <3>3, <3>4
  <2>6. Complete(m, i)'
    <3> SUFFICES ASSUME diags' = {}, ~SelfReexport(m, u)', NEW d \in Modules(prog),
                        Abs!NamesModule(prog, m, u.path, d)
                 PROVE  Finds(m, u, d)'
      BY <1>1 DEF Complete, Finds, SelfReexport
    <3>1. d = c
      BY <1>3, NamesOne
    <3>2. S \subseteq imports'[m]
      BY <2>2, <2>4
    <3>3. CASE HasLocal(prog, c, Member(u))
      <4>1. Abs!Denotes(prog, imports', u, c) = S
        BY <2>1, <3>3, SameLookups DEF Abs!Denotes
      <4> QED BY <3>1, <3>2, <3>3, <4>1 DEF Finds
    <3>4. CASE ~HasLocal(prog, c, Member(u))
      <4>1. c # m
        BY <1>3, <3>4 DEF SelfReexport
      <4>2. UseReexport
        BY <1>1, <1>2, <3>4 DEF UseLocal
      <4>3. exports_state[c] = "done" /\ exports_state' = exports_state
        BY <1>2, <2>1, <4>1, <4>2 DEF UseReexport, TargetDone, AddImports
      <4>4. imports'[c] = imports[c]
        BY <1>3, <2>3, <4>1
      <4>5. Abs!Denotes(prog, imports', u, c) = S
        BY <2>1, <4>4 DEF Abs!Denotes, Abs!ReexportImports
      <4> QED BY <3>1, <3>2, <4>1, <4>3, <4>5 DEF Finds
    <3> QED BY <3>3, <3>4
  <2> QED BY <2>5, <2>6 DEF Settled
<1> QED BY <1>4, <1>5

\* The frame on top moves on, and what it newly leaves behind is settled.
LEMMA TopMoves ==
    ASSUME TypeOK, CallChain, UsesSettled, [Next]_vars, stack # <<>>,
           NEW g \in Frame, g.module = Top.module, stack' = WithTop(g),
           UNCHANGED <<exports_state, next>>,
           NEW m, m = Top.module,
           \A i \in Behind(prog, g) : i \in Behind(prog, Top) \/ Settled(m, i)'
    PROVE  UsesSettled'
<1>0. /\ prog' = prog /\ stack \in Seq(Frame) /\ Len(stack) \in Nat
      /\ \A k \in 1 .. Len(stack) : stack[k].module \in Modules(prog)
  BY StackFacts
<1>1. /\ Len(stack') = Len(stack) /\ Len(stack) \in 1 .. Len(stack)
      /\ stack'[Len(stack)] = g /\ Top = stack[Len(stack)]
      /\ \A k \in 1 .. Len(stack) - 1 : stack'[k] = stack[k]
  BY <1>0, WithTopFrames, TopIsFrame
<1>2. \A k \in 1 .. Len(stack) : k \in 1 .. Len(stack) - 1 \/ k = Len(stack)
  BY <1>0
<1>3. \A k \in 1 .. Len(stack) : stack'[k].module = stack[k].module
  BY <1>1, <1>2
<1>4. \A n \in Modules(prog) : \A i \in 1 .. Len(prog.uses[n]) : Settled(n, i) => Settled(n, i)'
  BY SettledStays
<1>5. FramesSettled'
  <2> SUFFICES ASSUME NEW k \in 1 .. Len(stack), NEW n \in Modules(prog), stack'[k].module = n,
                      NEW i \in Behind(prog, stack'[k])
               PROVE  Settled(n, i)'
    BY <1>0, <1>1 DEF FramesSettled
  <2>1. i \in 1 .. Len(prog.uses[n])
    BY DEF Behind
  <2>2. CASE i \in Behind(prog, stack[k])
    BY <1>3, <1>4, <2>1, <2>2 DEF UsesSettled, FramesSettled
  <2>3. CASE i \notin Behind(prog, stack[k])
    <3>1. k = Len(stack) /\ n = m
      BY <1>1, <1>2, <2>3
    <3> QED BY <1>1, <2>3, <3>1
  <2> QED BY <2>2, <2>3
<1>6. \A n \in Modules(prog) : Active(n) => Active(n)'
  BY <1>1, <1>3 DEF Active
<1>7. \A n \in Modules(prog) : exports_state[n] = "done" =>
         Active(n)' \/ \A i \in 1 .. Len(prog.uses[n]) : Settled(n, i)'
  BY <1>4, <1>6 DEF UsesSettled
<1> QED BY <1>0, <1>5, <1>7 DEF UsesSettled

\* resolve_exports is called: the caller is still inside its use, and the
\* frame of the called module, if it gets one, has nothing behind it.
LEMMA CallKeeps ==
    ASSUME TypeOK, ActiveOnce, CallChain, UsesSettled, [Next]_vars,
           NEW m \in Modules(prog), NEW resume, ResolveExports(m, resume), Waiting(m, resume),
           stack # <<>> => Behind(prog, resume[Len(stack)]) \subseteq Behind(prog, Top),
           next' = next \/ (next = m /\ next' = next + 1)
    PROVE  UsesSettled'
<1>0. /\ prog' = prog /\ stack \in Seq(Frame) /\ Len(stack) \in Nat
      /\ exports_state \in [Modules(prog) -> {"fresh", "progress", "done"}]
      /\ \A k \in 1 .. Len(stack) : stack[k].module \in Modules(prog)
  BY StackFacts
<1>1. /\ resume \in Seq(Frame) /\ Len(resume) = Len(stack)
      /\ \A k \in 1 .. Len(stack) : resume[k].module = stack[k].module
      /\ \A k \in 1 .. Len(stack) - 1 : resume[k] = stack[k]
  BY DEF Waiting
<1>2. \A k \in 1 .. Len(stack) : Behind(prog, resume[k]) \subseteq Behind(prog, stack[k])
  <2> SUFFICES ASSUME NEW k \in 1 .. Len(stack)
               PROVE  Behind(prog, resume[k]) \subseteq Behind(prog, stack[k])
    OBVIOUS
  <2>1. CASE k = Len(stack)
    BY <1>0, <2>1 DEF Top
  <2>2. CASE k \in 1 .. Len(stack) - 1
    BY <1>1, <2>2
  <2> QED BY <1>0, <2>1, <2>2
<1>3. \A n \in Modules(prog) : \A i \in 1 .. Len(prog.uses[n]) : Settled(n, i) => Settled(n, i)'
  BY SettledStays
<1>4. \A k \in 1 .. Len(stack), n \in Modules(prog) :
         resume[k].module = n => \A i \in Behind(prog, resume[k]) : Settled(n, i)'
  <2> SUFFICES ASSUME NEW k \in 1 .. Len(stack), NEW n \in Modules(prog), resume[k].module = n,
                      NEW i \in Behind(prog, resume[k])
               PROVE  Settled(n, i)'
    OBVIOUS
  <2>1. i \in 1 .. Len(prog.uses[n])
    BY DEF Behind
  <2>2. Settled(n, i)
    BY <1>1, <1>2 DEF UsesSettled, FramesSettled
  <2> QED BY <1>3, <2>1, <2>2
<1>5. CASE EnterDone(m, resume) \/ EnterCycle(m, resume)
  <2>1. stack' = resume
    BY <1>5 DEF EnterDone, EnterCycle
  <2>2. FramesSettled'
    BY <1>0, <1>1, <1>4, <2>1 DEF FramesSettled
  <2>3. \A n \in Modules(prog) : Active(n) => Active(n)'
    BY <1>1, <2>1 DEF Active
  <2>4. ASSUME NEW n \in Modules(prog), exports_state'[n] = "done"
        PROVE  Active(n)' \/ \A i \in 1 .. Len(prog.uses[n]) : Settled(n, i)'
    <3>1. exports_state[n] = "done" \/ exports_state[n] = "progress"
      BY <1>0, <1>5, <2>4 DEF EnterDone, EnterCycle
    <3>2. exports_state[n] = "progress" => Active(n)
      BY DEF ActiveOnce, Active
    <3> QED BY <1>3, <2>3, <3>1, <3>2 DEF UsesSettled
  <2>5. \A n \in 0 .. next' - 1 : exports_state'[n] # "fresh"
    <3> SUFFICES ASSUME NEW n \in 0 .. next' - 1 PROVE exports_state'[n] # "fresh"
      OBVIOUS
    <3>1. next \in Nat
      BY ProgIsGraph, ModuleIndices DEF TypeOK
    <3>2. n \in 0 .. next - 1 \/ n = m
      BY <3>1
    <3>3. exports_state[n] # "fresh"
      BY <1>5, <3>2 DEF UsesSettled, EnterDone, EnterCycle
    <3>4. CASE EnterDone(m, resume)
      BY <3>3, <3>4 DEF EnterDone
    <3>5. CASE EnterCycle(m, resume)
      BY <1>0, <3>3, <3>5 DEF EnterCycle
    <3> QED BY <1>5, <3>4, <3>5
  <2> QED BY <1>0, <2>2, <2>4, <2>5 DEF UsesSettled
<1>6. CASE EnterFresh(m, resume)
  <2>1. /\ exports_state' = [exports_state EXCEPT ![m] = "progress"]
        /\ stack' = Append(resume, NewFrame(m))
    BY <1>6 DEF EnterFresh
  <2>2. NewFrame(m) \in Frame
    BY ProgIsGraph, NewFrameOK DEF FrameOK
  <2>3. /\ Len(stack') = Len(stack) + 1
        /\ stack'[Len(stack) + 1] = NewFrame(m)
        /\ \A k \in 1 .. Len(stack) : stack'[k] = resume[k]
    BY <1>1, <2>1, <2>2, PushFrames
  <2>4. Behind(prog, NewFrame(m)) = {}
    <3>1. prog.uses[m] \in Seq(Use)
      BY ProgIsGraph DEF IsModuleGraph
    <3>2. Len(prog.uses[m]) \in Nat
      BY <3>1
    <3>3. \A i \in 1 .. Len(prog.uses[m]) : ~(i <= 0)
      BY <3>2
    <3> QED BY <3>3 DEF Behind, NewFrame
  <2>5. \A k \in 1 .. Len(stack') : k \in 1 .. Len(stack) \/ k = Len(stack) + 1
    BY <1>0, <2>3
  <2>6. FramesSettled'
    <3>1. \A k \in 1 .. Len(stack'), n \in Modules(prog) :
             stack'[k].module = n => \A i \in Behind(prog, stack'[k]) : Settled(n, i)'
      BY <1>4, <2>3, <2>4, <2>5
    <3> QED BY <1>0, <3>1 DEF FramesSettled
  <2>7. \A n \in Modules(prog) : Active(n) => Active(n)'
    <3> SUFFICES ASSUME NEW n \in Modules(prog), Active(n) PROVE Active(n)'
      OBVIOUS
    <3>1. PICK k \in 1 .. Len(stack) : stack[k].module = n
      BY DEF Active
    <3>2. k \in 1 .. Len(stack') /\ stack'[k].module = n
      BY <1>0, <1>1, <2>3, <3>1
    <3> QED BY <3>2 DEF Active
  <2>8. \A n \in Modules(prog) : exports_state'[n] = "done" =>
           Active(n)' \/ \A i \in 1 .. Len(prog.uses[n]) : Settled(n, i)'
    BY <1>0, <1>3, <2>1, <2>7 DEF UsesSettled
  <2>9. \A n \in 0 .. next' - 1 : exports_state'[n] # "fresh"
    <3> SUFFICES ASSUME NEW n \in 0 .. next' - 1 PROVE exports_state'[n] # "fresh"
      OBVIOUS
    <3>1. next \in Nat /\ next <= prog.count /\ prog.count \in Nat
      BY ProgIsGraph, ModuleIndices DEF TypeOK
    <3>2. n \in 0 .. next - 1 \/ n = m
      BY <3>1
    <3>3. n \in Modules(prog)
      BY <3>1, <3>2 DEF Modules
    <3> QED BY <1>0, <2>1, <3>2, <3>3 DEF UsesSettled
  <2> QED BY <1>0, <2>6, <2>8, <2>9 DEF UsesSettled
<1> QED BY <1>5, <1>6 DEF ResolveExports

\* resolve_exports returns: both passes are behind it, so all its uses are.
LEMMA ReturnKeeps ==
    ASSUME TypeOK, CallChain, UsesSettled, [Next]_vars, Return
    PROVE  UsesSettled'
<1>0. /\ prog' = prog /\ stack \in Seq(Frame) /\ Len(stack) \in Nat
      /\ exports_state \in [Modules(prog) -> {"fresh", "progress", "done"}]
      /\ \A k \in 1 .. Len(stack) : stack[k].module \in Modules(prog)
  BY StackFacts
<1>1. /\ stack # <<>> /\ stack' = Popped /\ next' = next
      /\ exports_state' = [exports_state EXCEPT ![Top.module] = "done"]
      /\ Top.step = "scan" /\ ~Top.pub /\ PendingUses(Top) = {}
  BY DEF Return
<1>2. /\ Len(stack') = Len(stack) - 1
      /\ \A k \in 1 .. Len(stack) - 1 : stack'[k] = stack[k]
      /\ Len(stack) \in 1 .. Len(stack) /\ Top = stack[Len(stack)] /\ Top \in Frame
  BY <1>0, <1>1, PopFrames, TopIsFrame
<1>3. PICK m \in Modules(prog) : m = Top.module
  BY <1>0, <1>2
<1>4. \A n \in Modules(prog) : \A i \in 1 .. Len(prog.uses[n]) : Settled(n, i) => Settled(n, i)'
  BY SettledStays
<1>5. \A i \in 1 .. Len(prog.uses[m]) : Settled(m, i)'
  <2> SUFFICES ASSUME NEW i \in 1 .. Len(prog.uses[m]) PROVE Settled(m, i)'
    OBVIOUS
  <2>1. i \in Behind(prog, Top)
    <3>1. Top.item \in Nat /\ Top.pub \in BOOLEAN
      BY <1>2 DEF Frame
    <3>2. prog.uses[m][i].pub # Top.pub \/ i <= Top.item
      BY <1>1, <1>3, <3>1 DEF PendingUses
    <3>3. prog.uses[m][i].pub \in BOOLEAN
      <4>1. prog.uses[m] \in Seq(Use)
        BY ProgIsGraph DEF IsModuleGraph
      <4>2. prog.uses[m][i] \in Use
        BY <4>1
      <4> QED BY <4>2 DEF Use
    <3> QED BY <1>1, <1>3, <3>1, <3>2, <3>3 DEF Behind
  <2>2. Settled(m, i)
    BY <1>2, <1>3, <2>1 DEF UsesSettled, FramesSettled
  <2> QED BY <1>4, <2>2
<1>6. \A k \in 1 .. Len(stack') : k \in 1 .. Len(stack) /\ stack'[k] = stack[k]
  BY <1>0, <1>2
<1>7. FramesSettled'
  <2> SUFFICES ASSUME NEW k \in 1 .. Len(stack'), NEW n \in Modules(prog), stack[k].module = n,
                      NEW i \in Behind(prog, stack[k])
               PROVE  Settled(n, i)'
    BY <1>0, <1>6 DEF FramesSettled
  <2>1. i \in 1 .. Len(prog.uses[n])
    BY DEF Behind
  <2> QED BY <1>4, <1>6, <2>1 DEF UsesSettled, FramesSettled
<1>8. ASSUME NEW n \in Modules(prog), n # m, Active(n) PROVE Active(n)'
  <2>1. PICK k \in 1 .. Len(stack) : stack[k].module = n
    BY <1>8 DEF Active
  <2>2. k # Len(stack)
    BY <1>2, <1>3, <1>8, <2>1
  <2>3. k \in 1 .. Len(stack')
    BY <1>0, <1>2, <2>2
  <2> QED BY <1>6, <2>1, <2>3 DEF Active
<1>9. \A n \in Modules(prog) : exports_state'[n] = "done" =>
         Active(n)' \/ \A i \in 1 .. Len(prog.uses[n]) : Settled(n, i)'
  <2> SUFFICES ASSUME NEW n \in Modules(prog), n # m, exports_state'[n] = "done"
               PROVE  Active(n)' \/ \A i \in 1 .. Len(prog.uses[n]) : Settled(n, i)'
    BY <1>5
  <2>1. exports_state[n] = "done"
    BY <1>0, <1>1, <1>3
  <2> QED BY <1>4, <1>8, <2>1 DEF UsesSettled
<1>10. \A n \in 0 .. next - 1 : exports_state'[n] # "fresh"
  BY <1>0, <1>1 DEF UsesSettled
<1> QED BY <1>0, <1>1, <1>7, <1>9, <1>10 DEF UsesSettled

\* Every step of the resolver settles the uses it leaves behind.
LEMMA SettledStep ==
    ASSUME TypeOK, ActiveOnce, CallChain, TargetDone, FramesOnPath, UsesSettled, [Next]_vars
    PROVE  UsesSettled'
<1>0. /\ prog' = prog /\ IsModuleGraph(prog) /\ stack \in Seq(Frame)
      /\ stack # <<>> => Top \in Frame /\ Top.module \in Modules(prog)
                         /\ Len(stack) \in 1 .. Len(stack)
  BY StackFacts, ProgIsGraph, TopIsFrame DEF Top
<1>a. PICK m : m = Top.module
  OBVIOUS
<1>b. stack # <<>> => /\ Top.item \in Nat /\ Top.pub \in BOOLEAN
                      /\ \A i \in 1 .. Len(prog.uses[Top.module]) :
                            prog.uses[Top.module][i].pub \in BOOLEAN
  <2> SUFFICES ASSUME stack # <<>>, NEW i \in 1 .. Len(prog.uses[Top.module])
               PROVE  prog.uses[Top.module][i].pub \in BOOLEAN
    BY <1>0 DEF Frame
  <2>1. prog.uses[Top.module] \in Seq(Use)
    BY <1>0 DEF IsModuleGraph
  <2>2. prog.uses[Top.module][i] \in Use
    BY <2>1
  <2> QED BY <2>2 DEF Use
<1>1. CASE StartModule
  <2>1. prog.count \in Nat
    BY <1>0, ModuleIndices
  <2>2. next \in Modules(prog) /\ ResolveExports(next, <<>>) /\ stack = <<>> /\ next' = next + 1
    BY <1>1, <2>1 DEF StartModule, TypeOK, Modules
  <2>3. Waiting(next, <<>>)
    BY <1>1 DEF StartModule, Waiting
  <2> QED BY <2>2, <2>3, CallKeeps
<1>2. CASE PrivatePass
  <2> DEFINE g == [Top EXCEPT !.pub = FALSE, !.item = 0]
  <2>1. /\ g \in Frame /\ g.module = Top.module /\ g.item = 0 /\ ~g.pub
        /\ stack # <<>> /\ stack' = WithTop(g)
        /\ Top.step = "scan" /\ Top.pub /\ PendingUses(Top) = {}
        /\ UNCHANGED <<exports_state, next>>
    BY <1>0, <1>2 DEF PrivatePass, Frame
  <2> HIDE DEF g
  <2>2. ASSUME NEW i \in Behind(prog, g) PROVE i \in Behind(prog, Top)
    <3>1. i \in 1 .. Len(prog.uses[Top.module]) /\ i \in Nat /\ i > 0
      <4>1. i \in 1 .. Len(prog.uses[Top.module])
        BY <2>1 DEF Behind
      <4>2. Len(prog.uses[Top.module]) \in Nat
        <5>1. prog.uses[Top.module] \in Seq(Use)
          BY <1>0, <2>1 DEF IsModuleGraph
        <5> QED BY <5>1
      <4> QED BY <4>1, <4>2
    <3>2. prog.uses[Top.module][i].pub /\ prog.uses[Top.module][i].pub = Top.pub
      <4>1. prog.uses[Top.module][i].pub
        <5>1. ~(i <= g.item)
          BY <2>1, <3>1
        <5> QED BY <2>1, <5>1 DEF Behind
      <4>2. Top.pub = TRUE /\ prog.uses[Top.module][i].pub = TRUE
        BY <1>b, <2>1, <3>1, <4>1
      <4> QED BY <4>2
    <3>3. i <= Top.item
      <4>1. i \notin PendingUses(Top) /\ Top.item \in Nat
        BY <1>b, <2>1
      <4>2. i \notin Top.item + 1 .. Len(prog.uses[Top.module])
        BY <3>2, <4>1 DEF PendingUses
      <4>3. PICK n : n = Len(prog.uses[Top.module]) /\ i \in 1 .. n
        BY <3>1
      <4> QED BY <3>1, <4>1, <4>2, <4>3
    <3> QED BY <2>1, <3>1, <3>2, <3>3 DEF Behind
  <2> QED BY <1>a, <2>1, <2>2, TopMoves
<1>3. CASE Return
  BY <1>3, ReturnKeeps
<1>4. CASE BeginUse
  <2>1. stack # <<>> /\ Top.step = "scan" /\ UNCHANGED next
    BY <1>4 DEF BeginUse
  <2>2. PICK i \in PendingUses(Top) :
        LET f    == [Top EXCEPT !.item = i]
            path == prog.uses[f.module][i].path
            head == HeadModule(prog, f.module, path[1])
        IN  /\ \A j \in PendingUses(Top) : i <= j
            /\ \/ FailUse(f)
               \/ /\ head # kNoModule
                  /\ stack' = WithTop([f EXCEPT !.step = "walk", !.cur = head, !.seg = 1])
                  /\ UNCHANGED <<exports_state, imports, diags>>
    BY <1>4 DEF BeginUse
  <2> DEFINE f == [Top EXCEPT !.item = i]
             head == HeadModule(prog, f.module, prog.uses[f.module][i].path[1])
  <2>3. /\ i \in Nat /\ i \in 1 .. Len(prog.uses[Top.module]) /\ i > Top.item
        /\ prog.uses[Top.module][i].pub = Top.pub
    <3>1. i \in Top.item + 1 .. Len(prog.uses[Top.module])
      BY DEF PendingUses
    <3>2. prog.uses[Top.module] \in Seq(Use)
      BY <1>0, <2>1 DEF IsModuleGraph
    <3>3. Len(prog.uses[Top.module]) \in Nat
      BY <3>2
    <3> QED BY <1>b, <2>1, <3>1, <3>3 DEF PendingUses
  <2>4. f \in Frame /\ f.module = Top.module /\ f.item = i /\ f.pub = Top.pub /\ f.step = "scan"
    BY <1>0, <2>1, <2>3 DEF Frame
  <2>5. ASSUME NEW g \in Frame, g.module = Top.module, g.item = i, g.pub = Top.pub,
               NEW j \in Behind(prog, g), j # i \/ g.step # "scan"
        PROVE  j \in Behind(prog, Top)
    <3>1. j \in 1 .. Len(prog.uses[Top.module])
      BY <2>5 DEF Behind
    <3>2. CASE ~g.pub /\ prog.uses[Top.module][j].pub
      BY <2>5, <3>1, <3>2 DEF Behind
    <3>3. CASE prog.uses[Top.module][j].pub = Top.pub /\ j <= i /\ j # i
      <4>1. j \in Nat
        BY <2>3, <3>1
      <4>2. j \notin PendingUses(Top)
        BY <2>2, <2>3, <3>3, <4>1
      <4>3. j <= Top.item
        BY <1>b, <2>1, <3>1, <3>3, <4>1, <4>2 DEF PendingUses
      <4> QED BY <2>1, <3>1, <3>3, <4>3 DEF Behind
    <3> QED BY <2>5, <3>2, <3>3 DEF Behind
  <2>6. CASE FailUse(f)
    <3> DEFINE g == [f EXCEPT !.step = "scan"]
    <3>1. g \in Frame /\ g.module = Top.module /\ g.item = i /\ g.pub = Top.pub
      BY <2>4 DEF Frame
    <3>2. stack' = WithTop(g) /\ UNCHANGED exports_state
      BY <2>6 DEF FailUse
    <3>3. Settled(m, i)'
      BY <1>a, <2>4, <2>6, UseFailed
    <3> HIDE DEF g, f
    <3>4. \A j \in Behind(prog, g) : j \in Behind(prog, Top) \/ Settled(m, j)'
      BY <2>5, <3>1, <3>3
    <3> QED BY <1>a, <2>1, <3>1, <3>2, <3>4, TopMoves
  <2>7. CASE /\ head # kNoModule
             /\ stack' = WithTop([f EXCEPT !.step = "walk", !.cur = head, !.seg = 1])
             /\ UNCHANGED <<exports_state, imports, diags>>
    <3> DEFINE g == [f EXCEPT !.step = "walk", !.cur = head, !.seg = 1]
    <3>1. head \in Nat
      BY <1>0, <2>1, <2>4, <2>7, HeadModuleType, ModuleIndices
    <3>2. g \in Frame /\ g.module = Top.module /\ g.item = i /\ g.pub = Top.pub /\ g.step = "walk"
      BY <2>4, <3>1 DEF Frame
    <3>3. stack' = WithTop(g) /\ UNCHANGED exports_state
      BY <2>7
    <3> HIDE DEF g, f
    <3>4. \A j \in Behind(prog, g) : j \in Behind(prog, Top)
      BY <2>5, <3>2
    <3> QED BY <1>a, <2>1, <3>2, <3>3, <3>4, TopMoves
  <2> QED BY <2>2, <2>6, <2>7
<1>5. ASSUME stack # <<>>, Top.step # "scan", UNCHANGED <<exports_state, next>>,
             NEW g \in Frame, stack' = WithTop(g), g.module = Top.module,
             g.item = Top.item, g.pub = Top.pub,
             g.step # "scan" \/ (\A i : i = Top.item => Settled(m, i)')
      PROVE  UsesSettled'
  <2>1. \A i \in Behind(prog, g) : i \in Behind(prog, Top) \/ Settled(m, i)'
    BY <1>5 DEF Behind
  <2> QED BY <1>a, <1>5, <2>1, TopMoves
<1>6. CASE WalkSegment
  <2>1. stack # <<>> /\ Top.step = "walk" /\ UNCHANGED next
    BY <1>6 DEF WalkSegment
  <2> DEFINE child == FindChildModule(prog, Top.cur, CurrentUse.path[Top.seg + 1])
  <2>2. CASE FailUse(Top)
    <3> DEFINE g == [Top EXCEPT !.step = "scan"]
    <3>1. g \in Frame /\ g.module = Top.module /\ g.item = Top.item /\ g.pub = Top.pub
      BY <1>0, <2>1 DEF Frame
    <3>2. stack' = WithTop(g) /\ UNCHANGED exports_state
      BY <2>2 DEF FailUse
    <3>3. \A i : i = Top.item => Settled(m, i)'
      BY <1>a, <2>2, UseFailed
    <3> HIDE DEF g
    <3> QED BY <1>5, <2>1, <3>1, <3>2, <3>3
  <2>3. CASE /\ child # kNoModule
             /\ stack' = WithTop([Top EXCEPT !.cur = child, !.seg = @ + 1])
             /\ UNCHANGED <<exports_state, imports, diags>>
    <3> DEFINE g == [Top EXCEPT !.cur = child, !.seg = @ + 1]
    <3>1. child \in Nat
      BY <1>0, <2>3, FindChildType, ModuleIndices
    <3>2. /\ g \in Frame /\ g.module = Top.module /\ g.step = "walk"
          /\ g.item = Top.item /\ g.pub = Top.pub
      <4>1. \A n \in Nat : [Top EXCEPT !.cur = child, !.seg = n] \in Frame
        BY <1>0, <2>1, <3>1 DEF Frame
      <4>2. Top.seg + 1 \in Nat
        BY <1>0, <2>1 DEF Frame
      <4> QED BY <1>0, <2>1, <4>1, <4>2 DEF Frame
    <3>3. stack' = WithTop(g) /\ UNCHANGED exports_state
      BY <2>3
    <3> HIDE DEF g, child
    <3> QED BY <1>5, <2>1, <3>2, <3>3
  <2> QED BY <1>6, <2>2, <2>3 DEF WalkSegment
<1>7. CASE UseLocal \/ UseReexport
  <2>1. /\ stack # <<>> /\ Top.step # "scan" /\ UNCHANGED next
        /\ UseDone \in Frame /\ UseDone.module = Top.module
        /\ UseDone.item = Top.item /\ UseDone.pub = Top.pub
    BY <1>0, <1>7 DEF UseLocal, WalkDone, UseReexport, UseDone, Frame
  <2>2. stack' = WithTop(UseDone) /\ UNCHANGED exports_state
    BY <1>7 DEF UseLocal, UseReexport, FailUse, AddImports, UseDone
  <2>3. \A i : i = Top.item => Settled(m, i)'
    BY <1>0, <1>7, <1>a, UseBound
  <2> QED BY <1>5, <2>1, <2>2, <2>3
<1>8. CASE Descend
  <2>1. stack # <<>> /\ Top.step = "walk" /\ UNCHANGED next
    BY <1>8 DEF Descend, WalkDone
  <2> DEFINE g == [Top EXCEPT !.step = "reexport"]
  <2>2. /\ g \in Frame /\ g.module = Top.module /\ g.item = Top.item
        /\ g.pub = Top.pub /\ g.step = "reexport"
    BY <1>0, <2>1 DEF Frame
  <2>3. CASE stack' = WithTop(g) /\ UNCHANGED <<exports_state, diags>>
    <3> HIDE DEF g
    <3> QED BY <1>5, <2>1, <2>2, <2>3
  <2>4. CASE Top.cur # Top.module /\ ResolveExports(Top.cur, WithTop(g))
    <3>1. Top.cur \in Modules(prog)
      BY <2>1, TopIsFrame DEF TypeOK, FrameOK
    <3>2. Waiting(Top.cur, WithTop(g))
      BY <2>1, <2>4, DescendWaits
    <3>3. WithTop(g)[Len(stack)] = g
      <4> HIDE DEF g
      <4> QED BY <1>0, <2>1, <2>2, WithTopFrames
    <3> HIDE DEF g
    <3>4. Behind(prog, WithTop(g)[Len(stack)]) \subseteq Behind(prog, Top)
      BY <2>1, <2>2, <3>3 DEF Behind
    <3> QED BY <2>1, <2>4, <3>1, <3>2, <3>4, CallKeeps
  <2> QED BY <1>8, <2>3, <2>4 DEF Descend
<1>9. CASE UNCHANGED vars
  <2>1. \A n \in Modules(prog) : \A i : Settled(n, i)' = Settled(n, i)
    BY <1>9 DEF vars, Settled, Accounted, Complete, Finds, SelfReexport
  <2> QED BY <1>9, <2>1 DEF vars, UsesSettled, FramesSettled, Active
<1> QED BY <1>1, <1>2, <1>3, <1>4, <1>6, <1>7, <1>8, <1>9 DEF Next, Terminated

\* At first there is nothing behind the resolver.
LEMMA SettledInit == Init => CallChain /\ TargetDone /\ FramesOnPath /\ UsesSettled
BY DEF Init, CallChain, TargetDone, FramesOnPath, UsesSettled, FramesSettled

\* When the resolver has ended, every module has been through both passes.
LEMMA DoneSettled ==
    ASSUME TypeOK, ActiveOnce, UsesSettled, Done, NEW m \in Modules(prog),
           NEW i \in 1 .. Len(prog.uses[m])
    PROVE  Settled(m, i)
<1>1. stack = <<>> /\ m \in 0 .. next - 1
  BY DEF Done, Modules
<1>2. ~Active(m)
  BY <1>1 DEF Active
<1>3. exports_state[m] \in {"fresh", "progress", "done"}
  BY DEF TypeOK
<1>4. exports_state[m] = "done"
  BY <1>1, <1>2, <1>3 DEF UsesSettled, ActiveOnce, Active
<1> QED BY <1>2, <1>4 DEF UsesSettled

\* No use is lost, in whatever order modules and uses are taken and wherever a
\* cycle is cut: each has bound its name or has a diagnostic.
THEOREM EveryUseAccountedCorrect == Spec => []EveryUseAccounted
<1>1. TypeOK /\ ActiveOnce /\ CallChain /\ TargetDone /\ [Next]_vars => CallChain' /\ TargetDone'
  BY CallChainStep
<1>2. TypeOK /\ FramesOnPath /\ [Next]_vars => FramesOnPath'
  BY OnPathStep
<1>3. TypeOK /\ ActiveOnce /\ CallChain /\ TargetDone /\ FramesOnPath /\ UsesSettled /\ [Next]_vars
         => UsesSettled'
  BY SettledStep
<1>4. TypeOK /\ ActiveOnce /\ UsesSettled => EveryUseAccounted
  BY DoneSettled DEF EveryUseAccounted, Settled, Accounted
<1> QED BY <1>1, <1>2, <1>3, <1>4, SettledInit, TypeCorrect, ActiveOnceCorrect, PTL DEF Spec

\* A run without diagnostics, and without a re-export of a module by itself,
\* ends at a fixpoint of the re-export relation; RefinementCorrect says that it
\* never leaves the least one.
THEOREM ErrorFreeCompleteCorrect == Spec => []ErrorFreeComplete
<1>1. TypeOK /\ ActiveOnce /\ CallChain /\ TargetDone /\ [Next]_vars => CallChain' /\ TargetDone'
  BY CallChainStep
<1>2. TypeOK /\ FramesOnPath /\ [Next]_vars => FramesOnPath'
  BY OnPathStep
<1>3. TypeOK /\ ActiveOnce /\ CallChain /\ TargetDone /\ FramesOnPath /\ UsesSettled /\ [Next]_vars
         => UsesSettled'
  BY SettledStep
<1>4. TypeOK /\ ActiveOnce /\ UsesSettled => ErrorFreeComplete
  BY DoneSettled DEF ErrorFreeComplete, UsesComplete, Settled, Complete, Finds
<1> QED BY <1>1, <1>2, <1>3, <1>4, SettledInit, TypeCorrect, ActiveOnceCorrect, PTL DEF Spec

=============================================================================
