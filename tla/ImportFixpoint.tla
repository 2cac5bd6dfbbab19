--------------------------- MODULE ImportFixpoint ---------------------------
(***************************************************************************)
(* What import resolution promises, with no order of evaluation: a module  *)
(* may bind whatever one of its uses denotes given what the modules have   *)
(* bound so far.  The reachable sets are the stages of the least fixpoint  *)
(* of the re-export relation, so everything bound is reached by a finite   *)
(* chain of public uses that ends at a declared item, and no name of a     *)
(* module means two things in one namespace.                               *)
(***************************************************************************)
EXTENDS ModuleGraph

CONSTANT Families     \* sets of module graphs to resolve

VARIABLES
    prog,     \* the module graph, chosen once
    bound     \* bound[m]: the bindings of module m

\* analyzer::Import.
Import == [name : Segment, ns : Namespace, target : Nat, member : Segment, pub : BOOLEAN]

\* Module c is what the path of a use in m names, its last segment apart.
NamesModule(p, m, path, c) ==
    \E w \in [1 .. Len(path) - 1 -> Modules(p)] :
        /\ Len(path) >= 2
        /\ w[1] = HeadModule(p, m, path[1])
        /\ \A i \in 2 .. Len(path) - 1 : w[i] = FindChildModule(p, w[i-1], path[i])
        /\ c = w[Len(path) - 1]

LocalImports(p, u, c) ==
    {[name |-> BoundName(u), ns |-> ns, target |-> c, member |-> Member(u), pub |-> u.pub]
        : ns \in {n \in Namespace : Member(u) \in LocalNames(p, c, n)}}

ReexportImports(b, u, c) ==
    {[name |-> BoundName(u), ns |-> e.ns, target |-> e.target, member |-> e.member, pub |-> u.pub]
        : e \in {i \in b[c] : i.pub /\ i.name = Member(u)}}

\* A use denotes the items its target module declares under the member's
\* name; only when there is none, what that module re-exports under it.
Denotes(p, b, u, c) ==
    IF HasLocal(p, c, Member(u)) THEN LocalImports(p, u, c) ELSE ReexportImports(b, u, c)

SameKey(i, j) == i.ns = j.ns /\ i.name = j.name

Unambiguous(p, m, S) ==
    \A i \in S : /\ i.name \notin LocalNames(p, m, i.ns)
                 /\ \A j \in S : SameKey(i, j) => i = j

Init ==
    /\ \E F \in Families : prog \in F
    /\ bound = [m \in Modules(prog) |-> {}]

Bind(m) ==
    \E i \in 1 .. Len(prog.uses[m]), c \in Modules(prog) :
        /\ NamesModule(prog, m, prog.uses[m][i].path, c)
        /\ \E T \in SUBSET Denotes(prog, bound, prog.uses[m][i], c) :
              /\ Unambiguous(prog, m, bound[m] \cup T)
              /\ bound' = [bound EXCEPT ![m] = @ \cup T]
        /\ UNCHANGED prog

Next == \E m \in Modules(prog) : Bind(m)

vars == <<prog, bound>>

Spec == Init /\ [][Next]_vars

=============================================================================
