--------------------------- MODULE DesugarScoping ---------------------------
(***************************************************************************)
(* Lexical scoping as docs/spec/values.md and desugar.h state it, defined  *)
(* on the tree with environments instead of a scope stack and marks, and   *)
(* what the renaming of Desugar owes to it.                                *)
(***************************************************************************)
EXTENDS Desugar

Names(s) == {s[i] : i \in 1 .. Len(s)}
NoDuplicates(s) == Cardinality(Names(s)) = Len(s)

(***************************************************************************)
(* The parts that open a scope of their own, as sequences of parts; the    *)
(* rest of a node's parts belong to the scope around it.                   *)
(***************************************************************************)
CondParts(cond, body) ==
    IF cond.is_pattern
    THEN <<cond.init, [kind |-> "Arm", pattern |-> cond.pattern, body |-> body]>>
    ELSE <<cond.value, body>>

Opens(n) == n.kind \in {"Fn", "Const", "Block", "Arm"}

Inner(n) ==
    CASE n.kind = "Each"  -> n.parts
      [] n.kind = "Fn"    -> Append(n.params, n.body)
      [] n.kind = "Const" -> <<n.init>>
      [] n.kind = "Block" -> n.statements \o n.value
      [] n.kind = "Decl"  -> <<n.init, n.pattern>>
      [] n.kind = "If"    -> CondParts(n.cond, n.then) \o n.else
      [] n.kind = "While" -> CondParts(n.cond, n.body)
      [] n.kind = "Match" -> <<n.scrutinee>> \o n.arms
      [] n.kind = "Arm"   -> <<n.pattern, n.body>>
      [] n.kind = "Or"    -> n.alternatives
      [] OTHER            -> <<>>

\* The names a node binds in the scope around it, each time it does.
RECURSIVE Declared(_), DeclaredAll(_)
DeclaredAll(parts) ==
    IF parts = <<>> THEN <<>> ELSE Declared(Head(parts)) \o DeclaredAll(Tail(parts))
Declared(n) ==
    CASE n.kind = "Ident" -> IF n.name \in KeywordName THEN <<>> ELSE <<n.name>>
      [] n.kind = "Or"    -> Declared(n.alternatives[1])
      [] Opens(n)         -> <<>>
      [] OTHER            -> DeclaredAll(Inner(n))

\* "declaring a name already present in the innermost scope is an error" and
\* "`or`-pattern alternatives ... must bind identical name sets".
RECURSIVE WellScoped(_)
WellScoped(n) ==
    /\ \A i \in 1 .. Len(Inner(n)) : WellScoped(Inner(n)[i])
    /\ Opens(n) => NoDuplicates(DeclaredAll(Inner(n)))
    /\ n.kind = "Or" =>
          \A i \in 1 .. Len(n.alternatives) :
              /\ NoDuplicates(Declared(n.alternatives[i]))
              /\ Names(Declared(n.alternatives[i])) = Names(Declared(n.alternatives[1]))

(***************************************************************************)
(* Every occurrence of a name in the order written, with the variable it   *)
(* means (the index of the occurrence that introduces it, 0 for a name of  *)
(* no variable) and the variables in scope there.  env is a sequence of    *)
(* <<name, variable>>, innermost last.                                     *)
(***************************************************************************)
Variable(env, x) ==
    LET at == {i \in 1 .. Len(env) : env[i][1] = x}
    IN  IF x \in KeywordName \/ at = {} THEN 0
        ELSE env[CHOOSE i \in at : \A j \in at : j <= i][2]

InScope(env) == {env[i][2] : i \in 1 .. Len(env)}

RECURSIVE Resolve(_, _, _), ResolveAll(_, _, _)
ResolveAll(parts, env, k) ==
    IF parts = <<>> THEN [occurs |-> <<>>, binds |-> <<>>]
    ELSE LET h == Resolve(Head(parts), env, k)
             t == ResolveAll(Tail(parts), env \o h.binds, k + Len(h.occurs))
         IN  [occurs |-> h.occurs \o t.occurs, binds |-> h.binds \o t.binds]
Resolve(n, env, k) ==
    CASE n.kind = "Path" ->
            [occurs |-> <<[var |-> Variable(env, n.name), scope |-> InScope(env)]>>,
             binds |-> <<>>]
      [] n.kind = "Ident" ->
            IF n.name \in KeywordName
            THEN [occurs |-> <<[var |-> 0, scope |-> InScope(env)]>>, binds |-> <<>>]
            ELSE [occurs |-> <<[var |-> k + 1, scope |-> InScope(env)]>>,
                  binds |-> << <<n.name, k + 1>> >>]
      [] n.kind = "Or" ->
            LET first == Resolve(n.alternatives[1], env, k)
                again == DeclaredAll(Tail(n.alternatives))
            IN  [occurs |-> first.occurs \o
                    [i \in 1 .. Len(again) |->
                        [var |-> Variable(first.binds, again[i]), scope |-> InScope(env)]],
                 binds |-> first.binds]
      [] OTHER ->
            LET r == ResolveAll(Inner(n), env, k)
            IN  [r EXCEPT !.binds = IF Opens(n) THEN <<>> ELSE @]

-----------------------------------------------------------------------------
(***************************************************************************)
(* Properties.                                                             *)
(***************************************************************************)
\* desugar.h:14-16, "every use refers to a lexically unique spelling": in a
\* file without errors two occurrences that see each other's variable are
\* spelled the same exactly when they are the same variable, through
\* initializers, conditions, else blocks, match arms and or-patterns, so an
\* analysis that looks names up by spelling alone finds the right one.
RenamingKeepsMeaning ==
    Done /\ diags = {} /\ WellScoped(program) =>
        LET occurs == Resolve(program, <<>>, 0).occurs
        IN  /\ Len(occurs) = Len(spelled)
            /\ \A i \in 1 .. Len(occurs) :
                  /\ occurs[i].var = 0 => spelled[i].fresh = AsWritten(spelled[i].name)
                  /\ \A v \in occurs[i].scope \cup {occurs[i].var} :
                        v # 0 => (spelled[v].fresh = spelled[i].fresh <=> v = occurs[i].var)

RECURSIVE HasOr(_)
HasOr(n) == n.kind = "Or" \/ \E i \in 1 .. Len(Inner(n)) : HasOr(Inner(n)[i])

\* No or-pattern below an alternative after the first, and no name twice in
\* one: what the marks of a preseeded scope can tell.
RECURSIVE PlainAlternatives(_)
PlainAlternatives(n) ==
    /\ \A i \in 1 .. Len(Inner(n)) : PlainAlternatives(Inner(n)[i])
    /\ n.kind = "Or" => \A i \in 2 .. Len(n.alternatives) :
          ~HasOr(n.alternatives[i]) /\ NoDuplicates(Declared(n.alternatives[i]))

\* Within those limits an error is reported exactly for an ill-scoped file:
\* redeclarations in one scope, duplicate parameters and pattern names,
\* clashes of an or-pattern's names with its surroundings, name sets that
\* differ between alternatives.
ReportsIllScoped ==
    Done /\ PlainAlternatives(program) => (diags # {} <=> ~WellScoped(program))

=============================================================================
