--------------------------- MODULE ImportResolve ----------------------------
(***************************************************************************)
(* analyzer/resolve.cc, the import half of Resolver::run: resolve_exports  *)
(* for every module in order, a depth-first recursion through resolve_use  *)
(* with the three-state exports_state mark.  The C++ call stack is the     *)
(* variable stack, top last; one frame is one activation of                *)
(* resolve_exports, with the resolve_use it is inside.                     *)
(***************************************************************************)
EXTENDS ModuleGraph

CONSTANT Families      \* sets of module graphs the resolver is run on
ASSUME FamiliesAssumption == \A F \in Families : \A p \in F : IsModuleGraph(p)

VARIABLES
    prog,            \* the module graph; constant once chosen
    next,            \* run's loop: the next module to call resolve_exports on
    stack,           \* activations of resolve_exports, innermost last
    exports_state,   \* per module: "fresh" 0, "progress" 1, "done" 2
    imports,         \* per module: module_imports (a set: see Unambiguous)
    diags            \* diagnostics emitted

vars == <<prog, next, stack, exports_state, imports, diags>>

Abs == INSTANCE ImportFixpoint WITH bound <- imports

(***************************************************************************)
(* A frame.  pub: the pass over public uses (first) or private ones; item: *)
(* the last use taken in this pass; step: "scan" between uses, "walk"      *)
(* while the path's middle segments are followed (seg of them done, cur    *)
(* the module reached), "reexport" once resolve_exports(cur) is behind it. *)
(***************************************************************************)
Frame == [module : Nat, pub : BOOLEAN, item : Nat,
          step : {"scan", "walk", "reexport"}, cur : Nat, seg : Nat]

NewFrame(m) ==
    [module |-> m, pub |-> TRUE, item |-> 0, step |-> "scan", cur |-> 0, seg |-> 0]

Diag == [code : {"UnresolvedImport", "AmbiguousImport", "ReexportCycle"},
         module : Nat, item : Nat]

Top == stack[Len(stack)]
WithTop(f) == [stack EXCEPT ![Len(stack)] = f]
CurrentUse == prog.uses[Top.module][Top.item]
Popped == SubSeq(stack, 1, Len(stack) - 1)

\* Mutant: the use loop starts over after each use.
UseDoneRestarts == [Top EXCEPT !.step = "scan", !.item = 0]

UseDone == [Top EXCEPT !.step = "scan"]

Init ==
    /\ \E F \in Families : prog \in F
    /\ next = 0
    /\ stack = <<>>
    /\ exports_state = [m \in Modules(prog) |-> "fresh"]
    /\ imports = [m \in Modules(prog) |-> {}]
    /\ diags = {}

-----------------------------------------------------------------------------
(***************************************************************************)
(* resolve_exports(m) called with `resume` as the stack to return to.      *)
(***************************************************************************)
EnterDone(m, resume) ==
    /\ exports_state[m] = "done"
    /\ stack' = resume
    /\ UNCHANGED <<exports_state, diags>>

\* Mutant: a cycle is cut without a diagnostic.
EnterCycleSilent(m, resume) ==
    /\ exports_state[m] = "progress"
    /\ stack' = resume
    /\ exports_state' = [exports_state EXCEPT ![m] = "done"]
    /\ UNCHANGED diags

EnterCycle(m, resume) ==
    /\ exports_state[m] = "progress"
    /\ stack' = resume
    /\ exports_state' = [exports_state EXCEPT ![m] = "done"]
    /\ diags' = diags \cup {[code |-> "ReexportCycle", module |-> m, item |-> 0]}

\* Mutant: one visited mark instead of three states, set on entry.
EnterFreshVisited(m, resume) ==
    /\ exports_state[m] = "fresh"
    /\ stack' = Append(resume, NewFrame(m))
    /\ exports_state' = [exports_state EXCEPT ![m] = "done"]
    /\ UNCHANGED diags

EnterFresh(m, resume) ==
    /\ exports_state[m] = "fresh"
    /\ stack' = Append(resume, NewFrame(m))
    /\ exports_state' = [exports_state EXCEPT ![m] = "progress"]
    /\ UNCHANGED diags

ResolveExports(m, resume) ==
    EnterDone(m, resume) \/ EnterCycle(m, resume) \/ EnterFresh(m, resume)

\* The loop of Resolver::run.
StartModule ==
    /\ stack = <<>>
    /\ next < prog.count
    /\ next' = next + 1
    /\ ResolveExports(next, <<>>)
    /\ UNCHANGED <<prog, imports>>

\* The uses of frame f's pass that are still ahead of it.
PendingUses(f) ==
    {i \in f.item + 1 .. Len(prog.uses[f.module]) : prog.uses[f.module][i].pub = f.pub}

\* The first loop of resolve_exports ends, the second begins.
PrivatePass ==
    /\ stack # <<>> /\ Top.step = "scan" /\ Top.pub
    /\ PendingUses(Top) = {}
    /\ stack' = WithTop([Top EXCEPT !.pub = FALSE, !.item = 0])
    /\ UNCHANGED <<prog, next, exports_state, imports, diags>>

Return ==
    /\ stack # <<>> /\ Top.step = "scan" /\ ~Top.pub
    /\ PendingUses(Top) = {}
    /\ exports_state' = [exports_state EXCEPT ![Top.module] = "done"]
    /\ stack' = Popped
    /\ UNCHANGED <<prog, next, imports, diags>>

-----------------------------------------------------------------------------
(***************************************************************************)
(* resolve_use.                                                            *)
(***************************************************************************)
UnresolvedAt(f) == [code |-> "UnresolvedImport", module |-> f.module, item |-> f.item]

\* Mutant: an error return without its diagnostic.
FailUseSilent(f) ==
    /\ stack' = WithTop([f EXCEPT !.step = "scan"])
    /\ UNCHANGED <<exports_state, imports, diags>>

\* An error return of resolve_use: the loop goes on with the next use.
FailUse(f) ==
    /\ diags' = diags \cup {UnresolvedAt(f)}
    /\ stack' = WithTop([f EXCEPT !.step = "scan"])
    /\ UNCHANGED <<exports_state, imports>>

BeginUse ==
    /\ stack # <<>> /\ Top.step = "scan"
    /\ \E i \in PendingUses(Top) :
          LET f    == [Top EXCEPT !.item = i]
              path == prog.uses[f.module][i].path
              head == HeadModule(prog, f.module, path[1])
          IN  /\ \A j \in PendingUses(Top) : i <= j
              /\ \/ /\ Len(path) < 2 \/ head = kNoModule
                    /\ FailUse(f)
                 \/ /\ Len(path) >= 2 /\ head # kNoModule
                    /\ stack' = WithTop([f EXCEPT !.step = "walk", !.cur = head, !.seg = 1])
                    /\ UNCHANGED <<exports_state, imports, diags>>
    /\ UNCHANGED <<prog, next>>

\* Mutant: a missing middle segment is not checked for kNoModule.
WalkSegmentUnchecked ==
    /\ stack # <<>> /\ Top.step = "walk"
    /\ Top.seg + 1 < Len(CurrentUse.path)
    /\ LET child == FindChildModule(prog, Top.cur, CurrentUse.path[Top.seg + 1])
       IN  stack' = WithTop([Top EXCEPT !.cur = child, !.seg = @ + 1])
    /\ UNCHANGED <<prog, next, exports_state, imports, diags>>

WalkSegment ==
    /\ stack # <<>> /\ Top.step = "walk"
    /\ Top.seg + 1 < Len(CurrentUse.path)
    /\ LET child == FindChildModule(prog, Top.cur, CurrentUse.path[Top.seg + 1])
       IN  \/ /\ child = kNoModule
              /\ FailUse(Top)
           \/ /\ child # kNoModule
              /\ stack' = WithTop([Top EXCEPT !.cur = child, !.seg = @ + 1])
              /\ UNCHANGED <<exports_state, imports, diags>>
    /\ UNCHANGED <<prog, next>>

\* Mutant: only local items are looked at, not earlier imports.
ConflictsLocalOnly(m, i) == i.name \in LocalNames(prog, m, i.ns)

\* add_import refuses a name that a local item or an earlier import has.
Conflicts(m, i) ==
    \/ i.name \in LocalNames(prog, m, i.ns)
    \/ \E j \in imports[m] : j.ns = i.ns /\ j.name = i.name

\* add_import for each of the namespaces in S, at most one import each.
AddImports(S) ==
    LET m        == Top.module
        refused  == {i \in S : Conflicts(m, i)}
    IN  /\ imports' = [imports EXCEPT ![m] = @ \cup (S \ refused)]
        /\ diags' = diags \cup
              {[code |-> "AmbiguousImport", module |-> m, item |-> Top.item] : i \in refused}
        /\ stack' = WithTop(UseDone)
        /\ UNCHANGED exports_state

WalkDone ==
    /\ stack # <<>> /\ Top.step = "walk"
    /\ Top.seg + 1 = Len(CurrentUse.path)

\* Mutant: the namespace loop stops at the first hit.
LocalImportsFirstOnly(u, c) ==
    LET first == CHOOSE n \in Namespace : Member(u) \in LocalNames(prog, c, n)
    IN  {[name |-> BoundName(u), ns |-> first, target |-> c, member |-> Member(u), pub |-> u.pub]}

\* lookup_local in each namespace: the imports of the items u names in c.
LocalImports(u, c) ==
    {[name |-> BoundName(u), ns |-> ns, target |-> c, member |-> Member(u), pub |-> u.pub]
        : ns \in {n \in Namespace : Member(u) \in LocalNames(prog, c, n)}}

\* The member is an item of the target module: no recursion.
UseLocal ==
    /\ WalkDone
    /\ HasLocal(prog, Top.cur, Member(CurrentUse))
    /\ AddImports(LocalImports(CurrentUse, Top.cur))
    /\ UNCHANGED <<prog, next>>

\* It is not: the target's own imports are resolved first, unless the
\* target is the module itself.
Descend ==
    LET resume == WithTop([Top EXCEPT !.step = "reexport"])
    IN  /\ WalkDone
        /\ ~HasLocal(prog, Top.cur, Member(CurrentUse))
        /\ \/ /\ Top.cur = Top.module
              /\ stack' = resume
              /\ UNCHANGED <<exports_state, diags>>
           \/ /\ Top.cur # Top.module
              /\ ResolveExports(Top.cur, resume)
        /\ UNCHANGED <<prog, next, imports>>

\* Mutant: the import points at the module it was found in.
ReexportsUnchased(u, c) ==
    {[name |-> BoundName(u), ns |-> e.ns, target |-> c, member |-> Member(u), pub |-> u.pub]
        : e \in {i \in imports[c] : i.pub /\ i.name = Member(u)}}

\* Mutant: private imports of the target are visible too.
ReexportsPrivate(u, c) ==
    {[name |-> BoundName(u), ns |-> e.ns, target |-> e.target, member |-> e.member, pub |-> u.pub]
        : e \in {i \in imports[c] : i.name = Member(u)}}

\* lookup_reexport, and the import keeps the re-export's own target.
Reexports(u, c) ==
    {[name |-> BoundName(u), ns |-> e.ns, target |-> e.target, member |-> e.member, pub |-> u.pub]
        : e \in {i \in imports[c] : i.pub /\ i.name = Member(u)}}

UseReexport ==
    /\ stack # <<>> /\ Top.step = "reexport"
    /\ LET found == Reexports(CurrentUse, Top.cur)
       IN  \/ /\ found # {}
              /\ AddImports(found)
           \/ /\ found = {}
              /\ FailUse(Top)
    /\ UNCHANGED <<prog, next>>

-----------------------------------------------------------------------------
Done == next = prog.count /\ stack = <<>>

Terminated == Done /\ UNCHANGED vars

Next ==
    \/ StartModule \/ PrivatePass \/ Return
    \/ BeginUse \/ WalkSegment \/ UseLocal \/ Descend \/ UseReexport
    \/ Terminated

\* One thread runs the resolver to its end: it never stops by itself.
Spec == Init /\ [][Next]_vars /\ WF_vars(Next)

-----------------------------------------------------------------------------
(***************************************************************************)
(* Properties.                                                             *)
(***************************************************************************)
\* What a frame of a run on p holds: an activation of a module of p, and
\* between "scan"s a use of it whose path is followed at segment seg.
FrameOK(p, f) ==
    /\ f \in Frame
    /\ f.module \in Modules(p) /\ f.cur \in Modules(p)
    /\ f.item \in 0 .. Len(p.uses[f.module])
    /\ f.step # "scan" =>
          f.item > 0 /\ f.seg \in 1 .. Len(p.uses[f.module][f.item].path) - 1

ImportInto(p) ==
    [name : Segment, ns : Namespace, target : Modules(p), member : Segment, pub : BOOLEAN]

\* Every variable has its type; an import's target is a module and a frame
\* never points outside the graph, whatever the uses spell.
TypeOK ==
    /\ \E F \in Families : prog \in F
    /\ next \in 0 .. prog.count
    /\ stack \in Seq(Frame)
    /\ \A k \in 1 .. Len(stack) : FrameOK(prog, stack[k])
    /\ exports_state \in [Modules(prog) -> {"fresh", "progress", "done"}]
    /\ imports \in [Modules(prog) -> SUBSET ImportInto(prog)]
    /\ diags \subseteq Diag

\* resolve.h:25-27: "Re-export chains are already chased to their final
\* target": an import never points at another import, however long the chain
\* and in whatever order the modules were entered.
ImportsGrounded ==
    \A m \in Modules(prog) : \A i \in imports[m] :
        i.member \in LocalNames(prog, i.target, i.ns)

\* add_import: in each namespace a name of a module means one thing, an item
\* of its own or one import.  Phase B looks names up by the first match.
ImportsUnambiguous ==
    \A m \in Modules(prog) : Abs!Unambiguous(prog, m, imports[m])

\* The exports_state mark keeps the recursion a simple path: no module has
\* two activations, so the C++ stack holds at most one frame per module, and
\* a module is marked in progress only while it has one.
ActiveOnce ==
    /\ \A j, k \in 1 .. Len(stack) : stack[j].module = stack[k].module => j = k
    /\ \A k \in 1 .. Len(stack) : exports_state[stack[k].module] # "fresh"
    /\ \A m \in Modules(prog) :
          exports_state[m] = "progress" => \E k \in 1 .. Len(stack) : stack[k].module = m

CycleReported(m) == \E d \in diags : d.code = "ReexportCycle" /\ d.module = m

Active(m) == \E k \in 1 .. Len(stack) : stack[k].module = m

\* resolve_use looks a member up among another module's imports only when
\* that module has finished, public and private uses alike; if it has not,
\* "dependency cycle in re-exports" has been reported at it.
ReadsCompleteExports ==
    stack # <<>> /\ Top.step = "reexport" /\ Top.cur # Top.module =>
        /\ exports_state[Top.cur] = "done"
        /\ Active(Top.cur) => CycleReported(Top.cur)

\* A module marked done keeps the imports it has, and an import once added
\* stays: what a reader took from it cannot be contradicted later. Only a
\* reported cycle marks a module done before it is.
DoneIsFinal ==
    [][\A m \in Modules(prog) :
          /\ imports[m] \subseteq imports'[m]
          /\ exports_state[m] = "done" =>
                /\ exports_state'[m] = "done"
                /\ imports'[m] = imports[m] \/ CycleReported(m)]_vars

\* When the resolver ends, each use has bound its name or has a diagnostic:
\* a failed or abandoned lookup is never silent.
EveryUseAccounted ==
    Done =>
        \A m \in Modules(prog) : \A i \in 1 .. Len(prog.uses[m]) :
            \/ \E j \in imports[m] : j.name = BoundName(prog.uses[m][i])
            \/ \E d \in diags : d.module = m /\ d.item = i

\* A use whose member its own module does not declare and whose path names
\* that very module: it reads the imports being built, in the order of the uses.
SelfReexport(m, u) ==
    /\ Abs!NamesModule(prog, m, u.path, m)
    /\ ~HasLocal(prog, m, Member(u))

UsesComplete(m) ==
    \A i \in 1 .. Len(prog.uses[m]), c \in Modules(prog) :
        Abs!NamesModule(prog, m, prog.uses[m][i].path, c) =>
            Abs!Denotes(prog, imports, prog.uses[m][i], c) \subseteq imports[m]

\* A run without diagnostics has bound everything its uses denote: together
\* with RefinesFixpoint, the imports are the least fixpoint of the re-export
\* relation, whatever the order of modules and uses.  `self::` re-exports are
\* the exception: one sees only the uses above it.
ErrorFreeComplete ==
    (/\ Done /\ diags = {}
     /\ \A m \in Modules(prog) : \A i \in 1 .. Len(prog.uses[m]) :
           ~SelfReexport(m, prog.uses[m][i]))
    => \A m \in Modules(prog) : UsesComplete(m)

\* Every step of the resolver binds only what one use denotes at that moment.
RefinesFixpoint == Abs!Spec

\* Cyclic or not, the recursion and the loop over the modules come to an end.
Termination == <>Done

=============================================================================
