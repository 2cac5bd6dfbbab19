---------------------------- MODULE Bodies_proofs ----------------------------
(***************************************************************************)
(* For every package, every set of tables and every program: the check of  *)
(* an item leaves nothing behind for the next.                             *)
(*                                                                         *)
(* The argument is a count. A level says how many scopes and loops are     *)
(* open, how many types and verdicts wait to be used, and whether a        *)
(* function is open. A task changes the level by a fixed amount and has to *)
(* find what it takes. The invariant is that the tasks to do lead from the *)
(* level of the state down to zero; every action replaces a task by tasks  *)
(* that lead from the new level to where the old one led.                  *)
(***************************************************************************)
EXTENDS Bodies, NatInduction, SequenceTheorems, FiniteSetTheorems

Level == [s : Nat, l : Nat, v : Nat, w : Nat, f : Nat]
Zero == [s |-> 0, l |-> 0, v |-> 0, w |-> 0, f |-> 0]

Arity(e) ==
    IF e.kind = "Tuple" THEN Len(e.parts) ELSE IF e.kind \in {"Binary", "Index"} THEN 2 ELSE 1

Opens(t) == IF t.do \in {"Push", "CondPattern"} THEN 1 ELSE IF t.do = "Pop" THEN -1 ELSE 0
Enters(t) == IF t.do = "EnterLoop" THEN 1 ELSE IF t.do = "LeaveLoop" THEN -1 ELSE 0
Takes(t) ==
    IF t.do = "Combine" THEN Arity(t.e)
    ELSE IF t.do \in {"Meet", "Assign"} THEN 2
    ELSE IF t.do \in {"Unify", "Join", "Drop", "Declared", "Value", "Discard", "CondPattern", "NoElse",
                      "PlaceOf"} THEN 1
    ELSE 0
Gives(t) ==
    IF t.do \in {"Expr", "Combine", "Yield", "Block", "Place", "Join", "NoElse", "PlaceOf", "Meet"} THEN 1
    ELSE 0
Asks(t) == IF t.do = "Verdict" THEN t.n ELSE IF t.do = "Irrefutable" THEN 1 ELSE 0
Answers(t) == IF t.do \in {"Bind", "Verdict", "Alternative"} THEN 1 ELSE 0

\* The nodes a task holds are of the program, X being its expressions.
TaskFits(X, t) ==
    /\ t.do \in {"Expr", "Combine", "Place", "PlaceOf"} => t.e \in X
    /\ t.do = "Block" => t.block \in BlockNode(X)
    /\ t.do = "Stmt" => t.s \in StmtNode(X)
    /\ t.do = "Declared" => t.node \in StmtNode(X) /\ t.node.kind = "Decl"
    /\ t.do = "Value" => t.node \in StmtNode(X) /\ t.node.kind = "Reassign"
    /\ t.do \in {"Bind", "BindError"} => t.q \in Patterns
    /\ t.do \in {"Alternative", "CondPattern"} => t.node \in Patterns
    /\ t.do = "Param" => t.node \in ParamNode
    /\ t.do = "Verdict" => t.n \in Nat

Step(X, t, x, y) ==
    /\ TaskFits(X, t)
    /\ x \in Level /\ y \in Level
    /\ y.s = x.s + Opens(t)
    /\ y.l = x.l + Enters(t)
    /\ Takes(t) <= x.v /\ y.v = x.v - Takes(t) + Gives(t)
    /\ Asks(t) <= x.w /\ y.w = x.w - Asks(t) + Answers(t)
    /\ y.f = IF t.do = "EndItem" THEN 0 ELSE x.f

IsSeq(s) == \E S : s \in Seq(S)

\* The tasks ts lead from level x to level y.
Runs(X, ts, x, y) ==
    /\ IsSeq(ts) /\ x \in Level /\ y \in Level
    /\ \E h \in [1 .. Len(ts) + 1 -> Level] :
           /\ h[1] = x /\ h[Len(ts) + 1] = y
           /\ \A k \in 1 .. Len(ts) : Step(X, ts[k], h[k], h[k + 1])

Here == [s |-> Len(scopes), l |-> loop_depth, v |-> Len(vals), w |-> Len(verdicts),
         f |-> IF in_fn THEN 1 ELSE 0]

Counts ==
    /\ IsProgram(items) /\ at \in Nat
    /\ IsSeq(scopes) /\ loop_depth \in Nat /\ IsSeq(vals) /\ IsSeq(verdicts)
    /\ Runs(Exprs(items), todo, Here, Zero)

-----------------------------------------------------------------------------
(***************************************************************************)
(* Sequences of anything.                                                  *)
(***************************************************************************)
LEMMA SeqFacts ==
    ASSUME NEW s, IsSeq(s)
    PROVE  /\ Len(s) \in Nat /\ DOMAIN s = 1 .. Len(s)
           /\ s = [k \in 1 .. Len(s) |-> s[k]]
           /\ Len(s) = 0 => s = <<>>
<1>1. PICK S : s \in Seq(S)
  BY DEF IsSeq
<1> QED BY <1>1

\* A function on 1 .. n is a sequence of length n.
LEMMA SeqMade ==
    ASSUME NEW n \in Nat, NEW S, NEW s \in [1 .. n -> S]
    PROVE  IsSeq(s) /\ Len(s) = n
<1>1. s \in Seq(S) /\ Len(s) = n
  OBVIOUS
<1> QED BY <1>1 DEF IsSeq

\* The empty sequence.
LEMMA SeqNil == IsSeq(<<>>) /\ Len(<<>>) = 0
<1>1. <<>> \in Seq({})
  OBVIOUS
<1> QED BY <1>1 DEF IsSeq

\* Append adds one.
LEMMA SeqAppend ==
    ASSUME NEW s, IsSeq(s), NEW a
    PROVE  IsSeq(Append(s, a)) /\ Len(Append(s, a)) = Len(s) + 1
<1>1. PICK S : s \in Seq(S)
  BY DEF IsSeq
<1>2. s \in Seq(S \cup {a}) /\ a \in S \cup {a}
  BY <1>1
<1>3. Append(s, a) \in Seq(S \cup {a}) /\ Len(Append(s, a)) = Len(s) + 1
  <2> DEFINE T == S \cup {a}
  <2>1. s \in Seq(T) /\ a \in T
    BY <1>2
  <2> HIDE DEF T
  <2>2. Append(s, a) \in Seq(T) /\ Len(Append(s, a)) = Len(s) + 1
    BY <2>1
  <2> QED BY <2>2 DEF T
<1> QED BY <1>3 DEF IsSeq

\* What a concatenation is, entry by entry.
LEMMA SeqCat ==
    ASSUME NEW s, IsSeq(s), NEW t, IsSeq(t)
    PROVE  /\ IsSeq(s \o t) /\ Len(s \o t) = Len(s) + Len(t)
           /\ \A k \in 1 .. Len(s) : (s \o t)[k] = s[k]
           /\ \A k \in 1 .. Len(t) : (s \o t)[Len(s) + k] = t[k]
           /\ \A k \in Len(s) + 1 .. Len(s) + Len(t) : (s \o t)[k] = t[k - Len(s)]
<1>1. PICK S : s \in Seq(S)
  BY DEF IsSeq
<1>2. PICK T : t \in Seq(T)
  BY DEF IsSeq
<1> DEFINE U == S \cup T
<1>3. s \in Seq(U) /\ t \in Seq(U)
  BY <1>1, <1>2
<1> HIDE DEF U
<1>4. s \o t \in Seq(U) /\ Len(s \o t) = Len(s) + Len(t)
  BY <1>3
<1>5. /\ \A k \in 1 .. Len(s) : (s \o t)[k] = s[k]
      /\ \A k \in Len(s) + 1 .. Len(s) + Len(t) : (s \o t)[k] = t[k - Len(s)]
  BY <1>3
<1>6. \A k \in 1 .. Len(t) : (s \o t)[Len(s) + k] = t[k]
  BY <1>3
<1> QED BY <1>4, <1>5, <1>6 DEF IsSeq

\* A prefix, as Popped and StepVerdict take it.
LEMMA SeqPopped ==
    ASSUME NEW s, IsSeq(s), NEW n \in Nat, n <= Len(s)
    PROVE  IsSeq(SubSeq(s, 1, Len(s) - n)) /\ Len(SubSeq(s, 1, Len(s) - n)) = Len(s) - n
<1>1. PICK S : s \in Seq(S)
  BY DEF IsSeq
<1>2. SubSeq(s, 1, Len(s) - n) \in Seq(S) /\ Len(SubSeq(s, 1, Len(s) - n)) = Len(s) - n
  BY <1>1
<1> QED BY <1>2 DEF IsSeq

\* The first entry and the rest.
LEMMA SeqTail ==
    ASSUME NEW s, IsSeq(s), s # <<>>
    PROVE  /\ IsSeq(Tail(s)) /\ Len(Tail(s)) = Len(s) - 1 /\ Len(s) >= 1
           /\ Head(s) = s[1] /\ \A k \in 1 .. Len(s) - 1 : Tail(s)[k] = s[k + 1]
<1>1. PICK S : s \in Seq(S)
  BY DEF IsSeq
<1>2. Tail(s) \in Seq(S) /\ Len(Tail(s)) = Len(s) - 1
  BY <1>1
<1>3. Len(s) >= 1 /\ Head(s) = s[1] /\ \A k \in 1 .. Len(s) - 1 : Tail(s)[k] = s[k + 1]
  BY <1>1
<1> QED BY <1>2, <1>3 DEF IsSeq

\* Changing an entry, if it is there, keeps the length.
LEMMA SeqExcept ==
    ASSUME NEW s, IsSeq(s), NEW i, NEW a
    PROVE  IsSeq([s EXCEPT ![i] = a]) /\ Len([s EXCEPT ![i] = a]) = Len(s)
<1> DEFINE r == [s EXCEPT ![i] = a]
<1>1. Len(s) \in Nat /\ DOMAIN s = 1 .. Len(s)
  BY SeqFacts
<1>2. r \in [1 .. Len(s) -> {s[k] : k \in 1 .. Len(s)} \cup {a}]
  BY <1>1
<1> HIDE DEF r
<1>3. IsSeq(r) /\ Len(r) = Len(s)
  BY <1>1, <1>2, SeqMade
<1> QED BY <1>3 DEF r

\* A function on the positions of a sequence is a sequence.
LEMMA SeqOver ==
    ASSUME NEW s, IsSeq(s), NEW r, r = [k \in DOMAIN s |-> r[k]]
    PROVE  IsSeq(r) /\ Len(r) = Len(s)
<1>1. Len(s) \in Nat /\ DOMAIN s = 1 .. Len(s)
  BY SeqFacts
<1>2. r \in [1 .. Len(s) -> {r[k] : k \in 1 .. Len(s)}]
  BY <1>1
<1> QED BY <1>1, <1>2, SeqMade

\* The entries of a sequence over a set.
LEMMA SeqOfSeq ==
    ASSUME NEW S, NEW s \in Seq(S)
    PROVE  IsSeq(s) /\ Len(s) \in Nat /\ \A k \in 1 .. Len(s) : s[k] \in S
BY DEF IsSeq

\* Concatenation is associative.
LEMMA SeqAssoc ==
    ASSUME NEW s, IsSeq(s), NEW t, IsSeq(t), NEW u, IsSeq(u)
    PROVE  (s \o t) \o u = s \o (t \o u)
<1>1. PICK S : s \in Seq(S)
  BY DEF IsSeq
<1>2. PICK T : t \in Seq(T)
  BY DEF IsSeq
<1>3. PICK U : u \in Seq(U)
  BY DEF IsSeq
<1> DEFINE V == S \cup T \cup U
<1>4. s \in Seq(V) /\ t \in Seq(V) /\ u \in Seq(V)
  BY <1>1, <1>2, <1>3
<1> HIDE DEF V
<1> QED BY <1>4, ConcatAssociative

\* Two tasks in a row.
LEMMA SeqPair ==
    ASSUME NEW a, NEW t
    PROVE  /\ <<a>> \o <<t>> = <<a, t>>
           /\ IsSeq(<<a>>) /\ IsSeq(<<t>>) /\ IsSeq(<<a, t>>)
<1>1. <<a>> \in Seq({a, t}) /\ <<t>> \in Seq({a, t}) /\ <<a, t>> \in Seq({a, t})
  OBVIOUS
<1>2. Len(<<a>>) = 1 /\ Len(<<t>>) = 1
  OBVIOUS
<1> DEFINE list == <<a>> \o <<t>>
<1>3. list \in Seq({a, t}) /\ Len(list) = 2
  BY <1>1
<1>4. list[1] = a /\ list[2] = t
  BY <1>1
<1>5. Len(<<a, t>>) = 2 /\ <<a, t>>[1] = a /\ <<a, t>>[2] = t
  OBVIOUS
<1> HIDE DEF list
<1>6. \A i \in 1 .. Len(list) : list[i] = <<a, t>>[i]
  BY <1>3, <1>4
<1>7. list = <<a, t>>
  BY <1>1, <1>3, <1>5, <1>6, SeqEqual
<1> QED BY <1>1, <1>7 DEF list, IsSeq

-----------------------------------------------------------------------------
(***************************************************************************)
(* Task lists that lead from one level to another.                         *)
(***************************************************************************)
LEMMA RunsNil ==
    ASSUME NEW X, NEW x \in Level, NEW y \in Level
    PROVE  Runs(X, <<>>, x, y) <=> x = y
<1>1. IsSeq(<<>>) /\ Len(<<>>) = 0
  BY SeqNil
<1>2. ASSUME Runs(X, <<>>, x, y) PROVE x = y
  <2>1. PICK h \in [1 .. 0 + 1 -> Level] : h[1] = x /\ h[0 + 1] = y
    BY <1>1, <1>2 DEF Runs
  <2> QED BY <2>1
<1>3. ASSUME x = y PROVE Runs(X, <<>>, x, y)
  <2> DEFINE h == [k \in 1 .. 0 + 1 |-> x]
  <2>1. h \in [1 .. 0 + 1 -> Level] /\ h[1] = x /\ h[0 + 1] = y
    BY <1>3
  <2>2. \A k \in 1 .. 0 : Step(X, <<>>[k], h[k], h[k + 1])
    OBVIOUS
  <2> HIDE DEF h
  <2> QED BY <1>1, <2>1, <2>2 DEF Runs
<1> QED BY <1>2, <1>3

\* A list of n tasks with the levels between them.
LEMMA RunsAlong ==
    ASSUME NEW X, NEW ts, IsSeq(ts), NEW n \in Nat, Len(ts) = n,
           NEW h \in [1 .. n + 1 -> Level], \A k \in 1 .. n : Step(X, ts[k], h[k], h[k + 1])
    PROVE  Runs(X, ts, h[1], h[n + 1])
<1>1. h[1] \in Level /\ h[n + 1] \in Level
  OBVIOUS
<1> QED BY <1>1 DEF Runs

\* A list of one task.
LEMMA RunsOne ==
    ASSUME NEW X, NEW t, NEW x, NEW y, Step(X, t, x, y)
    PROVE  Runs(X, <<t>>, x, y)
<1>1. x \in Level /\ y \in Level
  BY DEF Step
<1>2. IsSeq(<<t>>) /\ Len(<<t>>) = 1
  BY SeqPair
<1> DEFINE h == [k \in 1 .. 1 + 1 |-> IF k = 1 THEN x ELSE y]
<1>3. h \in [1 .. 1 + 1 -> Level] /\ h[1] = x /\ h[1 + 1] = y
  BY <1>1
<1>4. \A k \in 1 .. 1 : Step(X, <<t>>[k], h[k], h[k + 1])
  OBVIOUS
<1> HIDE DEF h
<1> QED BY <1>1, <1>2, <1>3, <1>4 DEF Runs

\* Lists one after the other.
LEMMA RunsCat ==
    ASSUME NEW X, NEW ts, NEW us, NEW x, NEW y, NEW z, Runs(X, ts, x, y), Runs(X, us, y, z)
    PROVE  Runs(X, ts \o us, x, z)
<1> DEFINE m == Len(ts)
           n == Len(us)
<1>1. IsSeq(ts) /\ IsSeq(us) /\ x \in Level /\ y \in Level /\ z \in Level
  BY DEF Runs
<1>2. m \in Nat /\ n \in Nat
  BY <1>1, SeqFacts
<1>3. PICK g \in [1 .. m + 1 -> Level] :
          /\ g[1] = x /\ g[m + 1] = y
          /\ \A k \in 1 .. m : Step(X, ts[k], g[k], g[k + 1])
  BY DEF Runs
<1>4. PICK h \in [1 .. n + 1 -> Level] :
          /\ h[1] = y /\ h[n + 1] = z
          /\ \A k \in 1 .. n : Step(X, us[k], h[k], h[k + 1])
  BY DEF Runs
<1>5. /\ IsSeq(ts \o us) /\ Len(ts \o us) = m + n
      /\ \A k \in 1 .. m : (ts \o us)[k] = ts[k]
      /\ \A k \in m + 1 .. m + n : (ts \o us)[k] = us[k - m]
  BY <1>1, SeqCat
<1> HIDE DEF m, n
<1> DEFINE j == [k \in 1 .. m + n + 1 |-> IF k <= m THEN g[k] ELSE h[k - m]]
<1>6. j \in [1 .. m + n + 1 -> Level] /\ j[1] = x /\ j[m + n + 1] = z
  BY <1>2, <1>3, <1>4
<1>7. ASSUME NEW k \in 1 .. m + n PROVE Step(X, (ts \o us)[k], j[k], j[k + 1])
  <2>1. CASE k < m
    <3>1. j[k] = g[k] /\ j[k + 1] = g[k + 1] /\ k \in 1 .. m
      BY <1>2, <2>1
    <3> HIDE DEF j
    <3> QED BY <1>3, <1>5, <3>1
  <2>2. CASE k = m
    <3>1. j[k] = g[k] /\ j[k + 1] = h[1] /\ k \in 1 .. m /\ g[k + 1] = h[1]
      BY <1>2, <1>3, <1>4, <2>2
    <3> HIDE DEF j
    <3> QED BY <1>3, <1>5, <3>1
  <2>3. CASE k > m
    <3>1. j[k] = h[k - m] /\ j[k + 1] = h[(k - m) + 1] /\ k - m \in 1 .. n /\ k \in m + 1 .. m + n
      BY <1>2, <2>3
    <3> HIDE DEF j
    <3> QED BY <1>4, <1>5, <3>1
  <2>4. k < m \/ k = m \/ k > m
    BY <1>2
  <2> HIDE DEF j
  <2> QED BY <2>1, <2>2, <2>3, <2>4
<1> HIDE DEF j
<1> QED BY <1>1, <1>2, <1>5, <1>6, <1>7 DEF Runs

\* The first task and what it leaves to the rest.
LEMMA RunsFirst ==
    ASSUME NEW X, NEW ts, NEW x, NEW z, Runs(X, ts, x, z), ts # <<>>
    PROVE  \E y \in Level : Step(X, Head(ts), x, y) /\ Runs(X, Tail(ts), y, z)
<1> DEFINE n == Len(ts) - 1
<1>1. IsSeq(ts) /\ x \in Level /\ z \in Level
  BY DEF Runs
<1>2. /\ n \in Nat /\ Len(ts) = n + 1
      /\ IsSeq(Tail(ts)) /\ Len(Tail(ts)) = n
      /\ Head(ts) = ts[1] /\ \A k \in 1 .. n : Tail(ts)[k] = ts[k + 1]
  BY <1>1, SeqTail, SeqFacts
<1> HIDE DEF n
<1>3. PICK h \in [1 .. (n + 1) + 1 -> Level] :
          /\ h[1] = x /\ h[(n + 1) + 1] = z
          /\ \A k \in 1 .. n + 1 : Step(X, ts[k], h[k], h[k + 1])
  BY <1>2 DEF Runs
<1> DEFINE j == [k \in 1 .. n + 1 |-> h[k + 1]]
<1>4. j \in [1 .. n + 1 -> Level] /\ j[1] = h[2] /\ j[n + 1] = z /\ h[2] \in Level
  BY <1>2, <1>3
<1>5. ASSUME NEW k \in 1 .. n PROVE Step(X, Tail(ts)[k], j[k], j[k + 1])
  <2>1. j[k] = h[k + 1] /\ j[k + 1] = h[(k + 1) + 1] /\ k + 1 \in 1 .. n + 1
    BY <1>2
  <2> HIDE DEF j
  <2> QED BY <1>2, <1>3, <2>1
<1>6. Step(X, Head(ts), x, h[2])
  <2>1. 1 \in 1 .. n + 1 /\ 1 + 1 = 2
    BY <1>2
  <2> QED BY <1>2, <1>3, <2>1
<1> HIDE DEF j
<1>7. Runs(X, Tail(ts), h[2], z)
  BY <1>1, <1>2, <1>4, <1>5 DEF Runs
<1> QED BY <1>4, <1>6, <1>7

\* What every action does to the tasks.
LEMMA RunsReplace ==
    ASSUME NEW X, NEW ts, NEW x, NEW z, Runs(X, ts, x, z), ts # <<>>,
           NEW us, NEW u, \A y \in Level : Step(X, Head(ts), x, y) => Runs(X, us, u, y)
    PROVE  Runs(X, us \o Tail(ts), u, z)
<1>1. PICK y \in Level : Step(X, Head(ts), x, y) /\ Runs(X, Tail(ts), y, z)
  BY RunsFirst
<1>2. Runs(X, us, u, y)
  BY <1>1
<1> QED BY <1>1, <1>2, RunsCat

\* Lists joined together: FlattenSeq adds one at a time.
LEMMA FlattenUnfold ==
    ASSUME NEW ls, IsSeq(ls), Len(ls) # 0
    PROVE  \E g : /\ g = [i \in 1 .. Len(ls) |-> IF i = 1 THEN ls[i] ELSE g[i - 1] \o ls[i]]
                  /\ FlattenSeq(ls) = g[Len(ls)]
<1> DEFINE N == Len(ls)
           Joins(g) == g = [i \in 1 .. N |-> IF i = 1 THEN ls[i] ELSE g[i - 1] \o ls[i]]
           f == CHOOSE g : Joins(g)
<1>1. N \in Nat \ {0}
  BY SeqFacts
<1>2. \E g : Joins(g)
  BY <1>1, JoinsExist
<1>3. Joins(f)
  <2> HIDE DEF Joins
  <2> QED BY <1>2
<1>4. FlattenSeq(ls) = f[N]
  BY <1>1 DEF FlattenSeq
<1> HIDE DEF f
<1> QED BY <1>3, <1>4

\* A list of lists with the levels between them.
LEMMA RunsFlatten ==
    ASSUME NEW X, NEW ls, IsSeq(ls), NEW n \in Nat, Len(ls) = n,
           NEW h \in [1 .. n + 1 -> Level], \A k \in 1 .. n : Runs(X, ls[k], h[k], h[k + 1])
    PROVE  Runs(X, FlattenSeq(ls), h[1], h[n + 1])
<1>1. CASE n = 0
  <2>1. ls = <<>>
    BY <1>1, SeqFacts
  <2>2. FlattenSeq(ls) = <<>>
    BY <1>1, <2>1 DEF FlattenSeq
  <2>3. h[1] \in Level /\ h[n + 1] = h[1]
    BY <1>1
  <2> QED BY <2>2, <2>3, RunsNil
<1>2. CASE n # 0
  <2>1. PICK g : /\ g = [i \in 1 .. n |-> IF i = 1 THEN ls[i] ELSE g[i - 1] \o ls[i]]
                 /\ FlattenSeq(ls) = g[n]
    BY <1>2, FlattenUnfold
  <2> DEFINE S == {i \in Nat : i + 1 <= n => Runs(X, g[i + 1], h[1], h[(i + 1) + 1])}
  <2>2. 0 \in S
    <3>1. g[1] = ls[1] /\ 1 \in 1 .. n
      BY <1>2, <2>1
    <3> QED BY <3>1
  <2>3. ASSUME NEW i \in Nat, i \in S PROVE i + 1 \in S
    <3> SUFFICES ASSUME (i + 1) + 1 <= n
                 PROVE  Runs(X, g[(i + 1) + 1], h[1], h[((i + 1) + 1) + 1])
      OBVIOUS
    <3> DEFINE j == i + 1
    <3>1. j + 1 \in 1 .. n /\ j + 1 # 1 /\ (j + 1) - 1 = j /\ j <= n
      OBVIOUS
    <3>2. Runs(X, g[j], h[1], h[j + 1])
      BY <2>3, <3>1
    <3>3. g[j + 1] = g[j] \o ls[j + 1]
      <4> HIDE DEF j
      <4>1. g[j + 1] = g[(j + 1) - 1] \o ls[j + 1]
        BY <2>1, <3>1
      <4> QED BY <3>1, <4>1
    <3>4. Runs(X, ls[j + 1], h[j + 1], h[(j + 1) + 1])
      BY <3>1
    <3> HIDE DEF j
    <3>5. Runs(X, g[j + 1], h[1], h[(j + 1) + 1])
      BY <3>2, <3>3, <3>4, RunsCat
    <3> QED BY <3>5 DEF j
  <2>4. S = Nat
    <3> HIDE DEF S
    <3>1. S \in SUBSET Nat
      BY DEF S
    <3> QED BY <2>2, <2>3, <3>1, NatByNext
  <2>5. n - 1 \in S /\ (n - 1) + 1 = n
    BY <1>2, <2>4
  <2> QED BY <2>1, <2>5
<1> QED BY <1>1, <1>2

-----------------------------------------------------------------------------
(***************************************************************************)
(* Lists that lead from every level to one with some types and verdicts    *)
(* more, and tasks that do.                                                *)
(***************************************************************************)
Moved(x, v, w) == [s |-> x.s, l |-> x.l, v |-> x.v + v, w |-> x.w + w, f |-> x.f]
Net(X, ts, v, w) == IsSeq(ts) /\ \A x \in Level : Runs(X, ts, x, Moved(x, v, w))
\* The task t takes, gives, asks and answers that many.
Uses(X, t, takes, gives, asks, answers) ==
    /\ TaskFits(X, t) /\ Opens(t) = 0 /\ Enters(t) = 0 /\ t.do # "EndItem"
    /\ Takes(t) = takes /\ Gives(t) = gives /\ Asks(t) = asks /\ Answers(t) = answers

Above(x, y, v, w) ==
    /\ x \in Level /\ y \in Level
    /\ y.s = x.s /\ y.l = x.l /\ y.f = x.f
    /\ y.v = x.v + v /\ y.w = x.w + w

\* The counts of a level are natural numbers.
LEMMA LevelNat ==
    ASSUME NEW x \in Level
    PROVE  x.s \in Nat /\ x.l \in Nat /\ x.v \in Nat /\ x.w \in Nat /\ x.f \in Nat
BY DEF Level

\* A level moved is above the first.
LEMMA MovedAbove ==
    ASSUME NEW x \in Level, NEW v \in Nat, NEW w \in Nat
    PROVE  Above(x, Moved(x, v, w), v, w) /\ Moved(x, v, w) \in Level
BY DEF Above, Moved, Level

\* What is above a level is the level moved.
LEMMA AboveMoved ==
    ASSUME NEW x, NEW y, NEW v \in Nat, NEW w \in Nat, Above(x, y, v, w)
    PROVE  y = Moved(x, v, w)
BY DEF Above, Moved, Level

\* Of two levels above one, the second is above the first by the rest.
LEMMA AboveBoth ==
    ASSUME NEW x, NEW y, NEW z, NEW p \in Nat, NEW q \in Nat, NEW v \in Nat, NEW w \in Nat,
           Above(x, y, p, q), Above(x, z, p + v, q + w)
    PROVE  Above(y, z, v, w)
<1>1. x \in Level
  BY DEF Above
<1>2. x.v \in Nat /\ x.w \in Nat
  BY <1>1, LevelNat
<1> QED BY <1>2 DEF Above

\* Moved by nothing.
LEMMA MovedNone ==
    ASSUME NEW x \in Level
    PROVE  Moved(x, 0, 0) = x
<1>1. Above(x, x, 0, 0)
  BY LevelNat DEF Above
<1> QED BY <1>1, AboveMoved

\* Moved twice is moved by the sums.
LEMMA MovedTwice ==
    ASSUME NEW x \in Level, NEW v \in Nat, NEW w \in Nat, NEW g \in Nat, NEW r \in Nat
    PROVE  Moved(Moved(x, v, w), g, r) = Moved(x, v + g, w + r)
<1> DEFINE m == Moved(x, v, w)
           y == Moved(m, g, r)
<1>1. Above(x, m, v, w) /\ m \in Level
  BY MovedAbove
<1> HIDE DEF m
<1>2. Above(m, y, g, r)
  BY <1>1, MovedAbove
<1> HIDE DEF y
<1>3. Above(x, y, v + g, w + r)
  BY <1>1, <1>2, LevelNat DEF Above
<1>4. v + g \in Nat /\ w + r \in Nat
  OBVIOUS
<1>5. y = Moved(x, v + g, w + r)
  BY <1>3, <1>4, AboveMoved
<1> QED BY <1>5 DEF m, y

\* No tasks add nothing.
LEMMA NetNil ==
    ASSUME NEW X
    PROVE  Net(X, <<>>, 0, 0)
<1>1. \A x \in Level : Runs(X, <<>>, x, Moved(x, 0, 0))
  BY MovedNone, RunsNil
<1> QED BY <1>1, SeqNil DEF Net

\* What two lists add together.
LEMMA NetCat ==
    ASSUME NEW X, NEW ts, NEW us, NEW v \in Nat, NEW w \in Nat, NEW g \in Nat, NEW r \in Nat,
           Net(X, ts, v, w), Net(X, us, g, r)
    PROVE  Net(X, ts \o us, v + g, w + r)
<1>1. IsSeq(ts \o us)
  BY SeqCat DEF Net
<1>2. ASSUME NEW x \in Level PROVE Runs(X, ts \o us, x, Moved(x, v + g, w + r))
  <2>1. Moved(x, v, w) \in Level
    BY MovedAbove
  <2>2. Runs(X, ts, x, Moved(x, v, w))
    BY DEF Net
  <2>3. Runs(X, us, Moved(x, v, w), Moved(Moved(x, v, w), g, r))
    BY <2>1 DEF Net
  <2> QED BY <2>2, <2>3, MovedTwice, RunsCat
<1> QED BY <1>1, <1>2 DEF Net

\* A task leads from a level that has what it takes to the level without it.
LEMMA UsesSteps ==
    ASSUME NEW X, NEW t, NEW takes \in Nat, NEW gives \in Nat, NEW asks \in Nat, NEW answers \in Nat,
           Uses(X, t, takes, gives, asks, answers),
           NEW x \in Level, NEW y \in Level, y.s = x.s, y.l = x.l, y.f = x.f,
           takes <= x.v, asks <= x.w, y.v = x.v - takes + gives, y.w = x.w - asks + answers
    PROVE  Step(X, t, x, y)
<1>1. x.s \in Nat /\ x.l \in Nat
  BY LevelNat
<1>2. y.s = x.s + Opens(t) /\ y.l = x.l + Enters(t) /\ t.do # "EndItem"
  BY <1>1 DEF Uses
<1>3. TaskFits(X, t) /\ Takes(t) = takes /\ Gives(t) = gives /\ Asks(t) = asks /\ Answers(t) = answers
  BY DEF Uses
<1> QED BY <1>2, <1>3 DEF Step

\* After a list, a task that takes what the list leaves.
LEMMA NetThen ==
    ASSUME NEW X, NEW ts, NEW v \in Nat, NEW w \in Nat, Net(X, ts, v, w),
           NEW t, NEW takes \in Nat, NEW gives \in Nat, NEW asks \in Nat, NEW answers \in Nat,
           Uses(X, t, takes, gives, asks, answers), takes <= v, asks <= w,
           NEW g \in Nat, g = v - takes + gives, NEW r \in Nat, r = w - asks + answers
    PROVE  Net(X, ts \o <<t>>, g, r)
<1>1. IsSeq(<<t>>)
  BY SeqPair
<1>2. IsSeq(ts \o <<t>>)
  BY <1>1, SeqCat DEF Net
<1>3. ASSUME NEW x \in Level PROVE Runs(X, ts \o <<t>>, x, Moved(x, g, r))
  <2> DEFINE m == Moved(x, v, w)
             y == Moved(x, g, r)
  <2>1. Above(x, m, v, w) /\ Above(x, y, g, r)
    BY MovedAbove
  <2>2. Runs(X, ts, x, m)
    BY DEF Net
  <2> HIDE DEF m, y
  <2>3. x.v \in Nat /\ x.w \in Nat
    BY LevelNat
  <2>4. /\ m \in Level /\ y \in Level /\ y.s = m.s /\ y.l = m.l /\ y.f = m.f
        /\ takes <= m.v /\ asks <= m.w
        /\ y.v = m.v - takes + gives /\ y.w = m.w - asks + answers
    BY <2>1, <2>3 DEF Above
  <2>5. Step(X, t, m, y)
    BY <2>4, UsesSteps
  <2>6. Runs(X, <<t>>, m, y)
    BY <2>5, RunsOne
  <2>7. Runs(X, ts \o <<t>>, x, y)
    BY <2>2, <2>6, RunsCat
  <2> QED BY <2>7 DEF y
<1> QED BY <1>2, <1>3 DEF Net

\* One task that takes nothing.
LEMMA Net1 ==
    ASSUME NEW X, NEW t, NEW v \in Nat, NEW w \in Nat, Uses(X, t, 0, v, 0, w)
    PROVE  Net(X, <<t>>, v, w)
<1>1. Net(X, <<>>, 0, 0) /\ v = 0 - 0 + v /\ w = 0 - 0 + w /\ 0 <= 0
  BY NetNil
<1>2. Net(X, <<>> \o <<t>>, v, w)
  BY <1>1, NetThen
<1>3. <<>> \o <<t>> = <<t>>
  OBVIOUS
<1> QED BY <1>2, <1>3

\* A task after one other.
LEMMA Net2 ==
    ASSUME NEW X, NEW a, NEW v \in Nat, NEW w \in Nat, Net(X, <<a>>, v, w),
           NEW t, NEW takes \in Nat, NEW gives \in Nat, NEW asks \in Nat, NEW answers \in Nat,
           Uses(X, t, takes, gives, asks, answers), takes <= v, asks <= w,
           NEW g \in Nat, g = v - takes + gives, NEW r \in Nat, r = w - asks + answers
    PROVE  Net(X, <<a, t>>, g, r)
<1>1. Net(X, <<a>> \o <<t>>, g, r)
  BY NetThen
<1>2. <<a>> \o <<t>> = <<a, t>>
  BY SeqPair
<1> QED BY <1>1, <1>2

\* A task after two others.
LEMMA Net3 ==
    ASSUME NEW X, NEW a, NEW b_, NEW v \in Nat, NEW w \in Nat, Net(X, <<a, b_>>, v, w),
           NEW t, NEW takes \in Nat, NEW gives \in Nat, NEW asks \in Nat, NEW answers \in Nat,
           Uses(X, t, takes, gives, asks, answers), takes <= v, asks <= w,
           NEW g \in Nat, g = v - takes + gives, NEW r \in Nat, r = w - asks + answers
    PROVE  Net(X, <<a, b_, t>>, g, r)
<1>1. Net(X, <<a, b_>> \o <<t>>, g, r)
  BY NetThen
<1>2. <<a, b_>> \o <<t>> = <<a, b_, t>>
  <2> DEFINE S == {a, b_, t}
  <2>1. <<a, b_>> \in Seq(S) /\ <<t>> \in Seq(S) /\ Len(<<a, b_>>) = 2 /\ Len(<<t>>) = 1
    OBVIOUS
  <2> DEFINE list == <<a, b_>> \o <<t>>
  <2>2. list \in Seq(S) /\ Len(list) = 3
    BY <2>1
  <2>3. list[1] = a /\ list[2] = b_ /\ list[3] = t
    BY <2>1
  <2>4. /\ <<a, b_, t>> \in Seq(S) /\ Len(<<a, b_, t>>) = 3
        /\ <<a, b_, t>>[1] = a /\ <<a, b_, t>>[2] = b_ /\ <<a, b_, t>>[3] = t
    OBVIOUS
  <2> HIDE DEF list
  <2>5. \A i \in 1 .. Len(list) : list[i] = <<a, b_, t>>[i]
    BY <2>2, <2>3
  <2>6. list = <<a, b_, t>>
    <3> HIDE DEF S
    <3> QED BY <2>2, <2>4, <2>5, SeqEqual
  <2> QED BY <2>6 DEF list
<1> QED BY <1>1, <1>2

\* A task that takes nothing leads to a level above.
LEMMA UsesAbove ==
    ASSUME NEW X, NEW t, NEW v \in Nat, NEW w \in Nat, Uses(X, t, 0, v, 0, w),
           NEW x, NEW y, Above(x, y, v, w)
    PROVE  Step(X, t, x, y)
<1>1. x \in Level /\ y \in Level
  BY DEF Above
<1>2. x.v \in Nat /\ x.w \in Nat
  BY <1>1, LevelNat
<1>3. /\ y.s = x.s /\ y.l = x.l /\ y.f = x.f
      /\ 0 <= x.v /\ 0 <= x.w /\ y.v = x.v - 0 + v /\ y.w = x.w - 0 + w
  BY <1>2 DEF Above
<1> QED BY <1>1, <1>3, UsesSteps

\* How many types c and verdicts d there are before each task of a list.
Tally(n, c) == c \in [1 .. n + 1 -> Nat] /\ c[1] = 0
AddsUp(X, ts, n, c, d) ==
    \A k \in 1 .. n : \E p, q \in Nat :
        Uses(X, ts[k], 0, p, 0, q) /\ c[k + 1] = c[k] + p /\ d[k + 1] = d[k] + q
AllAddUp(X, ls, n, c, d) ==
    \A k \in 1 .. n : \E p, q \in Nat :
        Net(X, ls[k], p, q) /\ c[k + 1] = c[k] + p /\ d[k + 1] = d[k] + q

\* A list of tasks that take nothing adds the sums.
LEMMA NetAlong ==
    ASSUME NEW X, NEW ts, IsSeq(ts), NEW n \in Nat, Len(ts) = n,
           NEW c, Tally(n, c), NEW d, Tally(n, d), AddsUp(X, ts, n, c, d)
    PROVE  Net(X, ts, c[n + 1], d[n + 1])
<1> SUFFICES ASSUME NEW x \in Level PROVE Runs(X, ts, x, Moved(x, c[n + 1], d[n + 1]))
  BY DEF Net
<1> DEFINE h == [k \in 1 .. n + 1 |-> Moved(x, c[k], d[k])]
<1>0. /\ \A k \in 1 .. n + 1 : c[k] \in Nat /\ d[k] \in Nat
      /\ c[1] = 0 /\ d[1] = 0 /\ 1 \in 1 .. n + 1
  BY DEF Tally
<1>1. h \in [1 .. n + 1 -> Level]
  BY <1>0, MovedAbove
<1>2. h[1] = x
  BY <1>0, MovedNone
<1>3. ASSUME NEW k \in 1 .. n PROVE Step(X, ts[k], h[k], h[k + 1])
  <2>1. PICK v \in Nat, w \in Nat :
            Uses(X, ts[k], 0, v, 0, w) /\ c[k + 1] = c[k] + v /\ d[k + 1] = d[k] + w
    BY DEF AddsUp
  <2>2. k \in 1 .. n + 1 /\ k + 1 \in 1 .. n + 1
    OBVIOUS
  <2>3. c[k] \in Nat /\ d[k] \in Nat /\ c[k + 1] \in Nat /\ d[k + 1] \in Nat
    BY <1>0, <2>2
  <2> DEFINE y == h[k]
             z == h[k + 1]
  <2>4. Above(x, y, c[k], d[k]) /\ Above(x, z, c[k + 1], d[k + 1])
    BY <2>2, <2>3, MovedAbove
  <2> HIDE DEF y, z, h
  <2>5. Above(x, y, c[k], d[k]) /\ Above(x, z, c[k] + v, d[k] + w)
    BY <2>1, <2>4
  <2>6. Above(y, z, v, w)
    BY <2>1, <2>3, <2>5, AboveBoth, Zenon
  <2>7. Step(X, ts[k], y, z)
    BY <2>1, <2>6, UsesAbove, Zenon
  <2> QED BY <2>7 DEF y, z, h
<1>4. n + 1 \in 1 .. n + 1
  OBVIOUS
<1>5. h[n + 1] = Moved(x, c[n + 1], d[n + 1])
  BY <1>4
<1> HIDE DEF h
<1>6. Runs(X, ts, h[1], h[n + 1])
  BY <1>1, <1>3, RunsAlong
<1> QED BY <1>2, <1>5, <1>6

\* The same for lists joined together.
LEMMA NetFlatten ==
    ASSUME NEW X, NEW ls, IsSeq(ls), NEW n \in Nat, Len(ls) = n,
           NEW c, Tally(n, c), NEW d, Tally(n, d), AllAddUp(X, ls, n, c, d)
    PROVE  Net(X, FlattenSeq(ls), c[n + 1], d[n + 1])
<1> SUFFICES ASSUME NEW x \in Level PROVE Runs(X, FlattenSeq(ls), x, Moved(x, c[n + 1], d[n + 1]))
  <2>1. Zero \in Level
    BY DEF Zero, Level
  <2> QED BY <2>1 DEF Net, Runs
<1> DEFINE h == [k \in 1 .. n + 1 |-> Moved(x, c[k], d[k])]
<1>0. /\ \A k \in 1 .. n + 1 : c[k] \in Nat /\ d[k] \in Nat
      /\ c[1] = 0 /\ d[1] = 0 /\ 1 \in 1 .. n + 1
  BY DEF Tally
<1>1. h \in [1 .. n + 1 -> Level]
  BY <1>0, MovedAbove
<1>2. h[1] = x
  BY <1>0, MovedNone
<1>3. ASSUME NEW k \in 1 .. n PROVE Runs(X, ls[k], h[k], h[k + 1])
  <2>1. PICK v \in Nat, w \in Nat :
            Net(X, ls[k], v, w) /\ c[k + 1] = c[k] + v /\ d[k + 1] = d[k] + w
    BY DEF AllAddUp
  <2>2. k \in 1 .. n + 1 /\ k + 1 \in 1 .. n + 1
    OBVIOUS
  <2>3. c[k] \in Nat /\ d[k] \in Nat
    BY <1>0, <2>2
  <2>4. h[k] = Moved(x, c[k], d[k]) /\ h[k] \in Level
    BY <1>1, <2>2
  <2>5. h[k + 1] = Moved(h[k], v, w)
    <3>1. h[k + 1] = Moved(x, c[k] + v, d[k] + w)
      BY <2>1, <2>2
    <3> HIDE DEF h
    <3>2. Moved(Moved(x, c[k], d[k]), v, w) = Moved(x, c[k] + v, d[k] + w)
      <4> DEFINE p == c[k]
                 q == d[k]
      <4>1. p \in Nat /\ q \in Nat /\ v \in Nat /\ w \in Nat
        BY <2>1, <2>3
      <4> HIDE DEF p, q
      <4>2. Moved(Moved(x, p, q), v, w) = Moved(x, p + v, q + w)
        <5>1. x \in Level
          OBVIOUS
        <5> QED BY <4>1, <5>1, MovedTwice
      <4> QED BY <4>2 DEF p, q
    <3> QED BY <2>4, <3>1, <3>2
  <2> HIDE DEF h
  <2> QED BY <2>1, <2>4, <2>5 DEF Net
<1>4. n + 1 \in 1 .. n + 1
  OBVIOUS
<1>5. h[n + 1] = Moved(x, c[n + 1], d[n + 1])
  BY <1>4
<1> HIDE DEF h
<1>6. Runs(X, FlattenSeq(ls), h[1], h[n + 1])
  BY <1>1, <1>3, RunsFlatten
<1> QED BY <1>2, <1>5, <1>6

-----------------------------------------------------------------------------
(***************************************************************************)
(* What each task does to the level: how many types it takes and gives,    *)
(* and how many verdicts.                                                  *)
(***************************************************************************)
\* An expression gives its type.
LEMMA ExprUses ==
    ASSUME NEW X, NEW e \in X, NEW exp
    PROVE  Uses(X, Expr(e, exp), 0, 1, 0, 0)
BY DEF Uses, TaskFits, Opens, Enters, Takes, Gives, Asks, Answers, Expr

\* Its operands are taken for it.
LEMMA CombineUses ==
    ASSUME NEW X, NEW e \in X, NEW exp, NEW n, Arity(e) = n
    PROVE  Uses(X, Combine(e, exp), n, 1, 0, 0)
BY DEF Uses, TaskFits, Opens, Enters, Takes, Gives, Asks, Answers, Combine

\* A type against the expectation.
LEMMA YieldUses ==
    ASSUME NEW X, NEW exp, NEW type
    PROVE  Uses(X, Yield(exp, type), 0, 1, 0, 0)
BY DEF Uses, TaskFits, Opens, Enters, Takes, Gives, Asks, Answers, Yield

\* A type.
LEMMA GiveUses ==
    ASSUME NEW X, NEW type
    PROVE  Uses(X, Give(type), 0, 1, 0, 0)
BY DEF Uses, TaskFits, Opens, Enters, Takes, Gives, Asks, Answers, Give, Yield

\* Unify compares and forgets.
LEMMA UnifyUses ==
    ASSUME NEW X, NEW type
    PROVE  Uses(X, Unify(type), 1, 0, 0, 0)
BY DEF Uses, TaskFits, Opens, Enters, Takes, Gives, Asks, Answers, Unify

\* Drop forgets.
LEMMA DropUses ==
    ASSUME NEW X
    PROVE  Uses(X, Drop, 1, 0, 0, 0)
BY DEF Uses, TaskFits, Opens, Enters, Takes, Gives, Asks, Answers, Drop

\* Join puts the type of a block against the expectation.
LEMMA JoinUses ==
    ASSUME NEW X, NEW exp
    PROVE  Uses(X, Join(exp), 1, 1, 0, 0)
BY DEF Uses, TaskFits, Opens, Enters, Takes, Gives, Asks, Answers, Join

\* Meet takes the types of two branches together.
LEMMA MeetUses ==
    ASSUME NEW X
    PROVE  Uses(X, Meet, 2, 1, 0, 0)
BY DEF Uses, TaskFits, Opens, Enters, Takes, Gives, Asks, Answers, Meet

\* A block gives its type.
LEMMA BlockUses ==
    ASSUME NEW X, NEW block \in BlockNode(X), NEW exp
    PROVE  Uses(X, Block(block, exp), 0, 1, 0, 0)
BY DEF Uses, TaskFits, Opens, Enters, Takes, Gives, Asks, Answers, Block

\* A statement leaves nothing.
LEMMA StmtUses ==
    ASSUME NEW X, NEW s \in StmtNode(X)
    PROVE  Uses(X, Stmt(s), 0, 0, 0, 0)
BY DEF Uses, TaskFits, Opens, Enters, Takes, Gives, Asks, Answers, Stmt

\* A place gives its type.
LEMMA PlaceUses ==
    ASSUME NEW X, NEW e \in X
    PROVE  Uses(X, Place(e), 0, 1, 0, 0)
BY DEF Uses, TaskFits, Opens, Enters, Takes, Gives, Asks, Answers, Place

\* The outer place takes that of the inner one.
LEMMA PlaceOfUses ==
    ASSUME NEW X, NEW e \in X
    PROVE  Uses(X, PlaceOf(e), 1, 1, 0, 0)
BY DEF Uses, TaskFits, Opens, Enters, Takes, Gives, Asks, Answers, PlaceOf

\* A pattern leaves a verdict.
LEMMA BindUses ==
    ASSUME NEW X, NEW q \in Patterns, NEW type
    PROVE  Uses(X, Bind(q, type), 0, 0, 0, 1)
BY DEF Uses, TaskFits, Opens, Enters, Takes, Gives, Asks, Answers, Bind

\* A pattern in error leaves none.
LEMMA BindErrorUses ==
    ASSUME NEW X, NEW q \in Patterns
    PROVE  Uses(X, BindError(q), 0, 0, 0, 0)
BY DEF Uses, TaskFits, Opens, Enters, Takes, Gives, Asks, Answers, BindError

\* The verdicts of n parts become one.
LEMMA VerdictUses ==
    ASSUME NEW X, NEW n \in Nat, NEW all
    PROVE  Uses(X, Verdict(n, all), 0, 0, n, 1)
BY DEF Uses, TaskFits, Opens, Enters, Takes, Gives, Asks, Answers, Verdict

\* The verdict of a whole pattern is used.
LEMMA IrrefutableUses ==
    ASSUME NEW X, NEW must
    PROVE  Uses(X, Irrefutable(must), 0, 0, 1, 0)
BY DEF Uses, TaskFits, Opens, Enters, Takes, Gives, Asks, Answers, Irrefutable

\* A branch without else gives its type for that of the if.
LEMMA NoElseUses ==
    ASSUME NEW X, NEW e, NEW exp
    PROVE  Uses(X, With("NoElse", e, exp), 1, 1, 0, 0)
BY DEF Uses, TaskFits, Opens, Enters, Takes, Gives, Asks, Answers, With

\* A declaration takes the type of its initialiser.
LEMMA DeclaredUses ==
    ASSUME NEW X, NEW s \in StmtNode(X), s.kind = "Decl", NEW type
    PROVE  Uses(X, With("Declared", s, type), 1, 0, 0, 0)
BY DEF Uses, TaskFits, Opens, Enters, Takes, Gives, Asks, Answers, With

\* The value of an assignment waits on the type of the place.
LEMMA ValueUses ==
    ASSUME NEW X, NEW s \in StmtNode(X), s.kind = "Reassign", NEW type
    PROVE  Uses(X, With("Value", s, type), 1, 0, 0, 0)
BY DEF Uses, TaskFits, Opens, Enters, Takes, Gives, Asks, Answers, With

\* An assignment takes both.
LEMMA AssignUses ==
    ASSUME NEW X, NEW s, NEW type
    PROVE  Uses(X, With("Assign", s, type), 2, 0, 0, 0)
BY DEF Uses, TaskFits, Opens, Enters, Takes, Gives, Asks, Answers, With

\* An expression statement forgets its type.
LEMMA DiscardUses ==
    ASSUME NEW X, NEW s, NEW type
    PROVE  Uses(X, With("Discard", s, type), 1, 0, 0, 0)
BY DEF Uses, TaskFits, Opens, Enters, Takes, Gives, Asks, Answers, With

\* A parameter leaves nothing.
LEMMA ParamUses ==
    ASSUME NEW X, NEW q \in ParamNode, NEW type
    PROVE  Uses(X, With("Param", q, type), 0, 0, 0, 0)
BY DEF Uses, TaskFits, Opens, Enters, Takes, Gives, Asks, Answers, With

\* An alternative leaves a verdict.
LEMMA AlternativeUses ==
    ASSUME NEW X, NEW q \in Patterns, NEW type
    PROVE  Uses(X, With("Alternative", q, type), 0, 0, 0, 1)
BY DEF Uses, TaskFits, Opens, Enters, Takes, Gives, Asks, Answers, With

\* Some only look.
LEMMA NothingUses ==
    ASSUME NEW X, NEW do \in {"EndAlternative", "Exhaustive", "Main"}, NEW node, NEW type
    PROVE  Uses(X, With(do, node, type), 0, 0, 0, 0)
BY DEF Uses, TaskFits, Opens, Enters, Takes, Gives, Asks, Answers, With


-----------------------------------------------------------------------------
(***************************************************************************)
(* Lists of tasks, one for each part of a node.                            *)
(***************************************************************************)
\* n tasks that each add v types and w verdicts.
LEMMA NetEach ==
    ASSUME NEW X, NEW ts, IsSeq(ts), NEW n \in Nat, Len(ts) = n,
           NEW v \in {0, 1}, NEW w \in {0, 1}, \A k \in 1 .. n : Uses(X, ts[k], 0, v, 0, w)
    PROVE  Net(X, ts, n * v, n * w)
<1> DEFINE c == [k \in 1 .. n + 1 |-> (k - 1) * v]
           d == [k \in 1 .. n + 1 |-> (k - 1) * w]
<1>1. Tally(n, c) /\ Tally(n, d)
  BY DEF Tally
<1>2. \A k \in 1 .. n : c[k + 1] = c[k] + v /\ d[k + 1] = d[k] + w
  OBVIOUS
<1>3. c[n + 1] = n * v /\ d[n + 1] = n * w
  OBVIOUS
<1>4. v \in Nat /\ w \in Nat
  OBVIOUS
<1> HIDE DEF c, d
<1>5. AddsUp(X, ts, n, c, d)
  BY <1>2, <1>4 DEF AddsUp
<1>6. Net(X, ts, c[n + 1], d[n + 1])
  BY <1>1, <1>5, NetAlong
<1> QED BY <1>3, <1>6

\* The same for lists joined together that each add nothing.
LEMMA NetFlattenNone ==
    ASSUME NEW X, NEW ls, IsSeq(ls), NEW n \in Nat, Len(ls) = n,
           \A k \in 1 .. n : Net(X, ls[k], 0, 0)
    PROVE  Net(X, FlattenSeq(ls), 0, 0)
<1> DEFINE c == [k \in 1 .. n + 1 |-> 0]
<1>1. Tally(n, c)
  BY DEF Tally
<1>2. c[n + 1] = 0 /\ \A k \in 1 .. n : c[k + 1] = c[k] + 0
  OBVIOUS
<1> HIDE DEF c
<1>3. AllAddUp(X, ls, n, c, c)
  BY <1>2 DEF AllAddUp
<1>4. Net(X, FlattenSeq(ls), c[n + 1], c[n + 1])
  BY <1>1, <1>3, NetFlatten
<1> QED BY <1>2, <1>4

\* Check an expression and forget its type.
LEMMA CheckedNet ==
    ASSUME NEW X, NEW e \in X, NEW exp, NEW t, Uses(X, t, 1, 0, 0, 0)
    PROVE  Net(X, <<Expr(e, exp), t>>, 0, 0)
<1>1. Net(X, <<Expr(e, exp)>>, 1, 0)
  BY ExprUses, Net1
<1>2. 1 <= 1 /\ 0 <= 0 /\ 0 = 1 - 1 + 0 /\ 0 = 0 - 0 + 0
  OBVIOUS
<1> QED BY <1>1, <1>2, Net2

\* Arguments checked and forgotten leave nothing (check_call).
LEMMA DropAllNet ==
    ASSUME NEW X, NEW args \in Seq(X)
    PROVE  Net(X, DropAll(args), 0, 0)
<1> DEFINE F(k) == <<Expr(args[k], 0), Drop>>
           ls == [k \in DOMAIN args |-> F(k)]
<1>1. IsSeq(args) /\ Len(args) \in Nat /\ \A k \in 1 .. Len(args) : args[k] \in X
  BY SeqOfSeq
<1>2. \A k \in 1 .. Len(args) : Net(X, F(k), 0, 0)
  BY <1>1, CheckedNet, DropUses
<1> HIDE DEF F
<1>3. ls = [k \in DOMAIN args |-> ls[k]] /\ \A k \in 1 .. Len(args) : ls[k] = F(k)
  BY <1>1, SeqFacts
<1> HIDE DEF ls
<1>4. IsSeq(ls) /\ Len(ls) = Len(args)
  BY <1>1, <1>3, SeqOver
<1>5. Net(X, FlattenSeq(ls), 0, 0)
  BY <1>1, <1>2, <1>3, <1>4, NetFlattenNone
<1> QED BY <1>5 DEF DropAll, ls, F

\* Nor do arguments checked against parameters (check_call_args).
LEMMA AgainstNet ==
    ASSUME NEW X, NEW args \in Seq(X), NEW params
    PROVE  Net(X, Against(args, params), 0, 0)
<1> DEFINE F(k) == <<Expr(args[k], params[k]), Unify(params[k])>>
           ls == [k \in DOMAIN args |-> F(k)]
<1>1. IsSeq(args) /\ Len(args) \in Nat /\ \A k \in 1 .. Len(args) : args[k] \in X
  BY SeqOfSeq
<1>2. \A k \in 1 .. Len(args) : Net(X, F(k), 0, 0)
  BY <1>1, CheckedNet, UnifyUses
<1> HIDE DEF F
<1>3. ls = [k \in DOMAIN args |-> ls[k]] /\ \A k \in 1 .. Len(args) : ls[k] = F(k)
  BY <1>1, SeqFacts
<1> HIDE DEF ls
<1>4. IsSeq(ls) /\ Len(ls) = Len(args)
  BY <1>1, <1>3, SeqOver
<1>5. Net(X, FlattenSeq(ls), 0, 0)
  BY <1>1, <1>2, <1>3, <1>4, NetFlattenNone
<1> QED BY <1>5 DEF Against, ls, F

\* Then a task that adds one type: how most expressions end.
LEMMA NetThenOne ==
    ASSUME NEW X, NEW ts, Net(X, ts, 0, 0), NEW t, NEW v \in Nat, Uses(X, t, 0, v, 0, 0)
    PROVE  Net(X, ts \o <<t>>, v, 0)
<1>1. 0 <= 0 /\ v = 0 - 0 + v /\ 0 = 0 - 0 + 0
  OBVIOUS
<1> QED BY <1>1, NetThen

-----------------------------------------------------------------------------
(***************************************************************************)
(* The parts of a node of the program.                                     *)
(***************************************************************************)
\* The parts of an expression, by its kind.
LEMMA ExprParts ==
    ASSUME NEW X, X \subseteq ExprNode(X), NEW e \in X
    PROVE  /\ e.kind = "Struct" => e.values \in Seq(X) /\ e.base \in Maybe(X)
           /\ e.kind = "Tuple" => e.parts \in Seq(X)
           /\ e.kind \in {"Unary", "Borrow", "Cast", "MethodCall", "Field", "Index", "Question", "Match"}
                  => e.inner \in X
           /\ e.kind = "Binary" => e.lhs \in X /\ e.rhs \in X
           /\ e.kind = "Call" => e.callee \in X
           /\ e.kind \in {"Call", "MethodCall"} => e.args \in Seq(X)
           /\ e.kind = "Index" => e.index \in X
           /\ e.kind \in {"If", "While"} => e.cond \in CondNode(X)
           /\ e.kind = "If" => e.then \in BlockNode(X) /\ e.else \in Maybe(BlockNode(X))
           /\ e.kind = "Match" => e.arms \in Seq(ArmNode(X))
           /\ e.kind \in {"Loop", "While"} => e.body \in BlockNode(X)
           /\ e.kind = "Block" => e.block \in BlockNode(X)
           /\ e.kind = "Return" => e.value \in Maybe(X)
<1>1. e \in ExprNode(X)
  OBVIOUS
<1> QED BY <1>1, SMTT(60) DEF ExprNode

\* The parts of a pattern; a reference and an or-pattern have one.
LEMMA PatternParts ==
    ASSUME NEW q \in Patterns
    PROVE  /\ q.kind \in {"Tuple", "Struct", "Ref", "Or"} => q.parts \in Seq(Patterns)
           /\ q.kind \in {"Ref", "Or"} => q.parts # <<>>
<1>1. q \in PatternNode
  BY PatternsAssumption
<1> QED BY <1>1, SMTT(60) DEF PatternNode
\* The parts of a statement.
LEMMA StmtParts ==
    ASSUME NEW X, NEW s \in StmtNode(X)
    PROVE  /\ s.kind = "Decl" => s.pattern \in Patterns /\ s.init \in X
           /\ s.kind = "Reassign" => s.place \in X /\ s.value \in X
           /\ s.kind = "Expr" => s.value \in X
BY DEF StmtNode
\* The parts of a block.
LEMMA BlockParts ==
    ASSUME NEW X, NEW block \in BlockNode(X)
    PROVE  block.stmts \in Seq(StmtNode(X)) /\ block.value \in Maybe(X)
BY DEF BlockNode
\* The parts of a condition.
LEMMA CondParts ==
    ASSUME NEW X, NEW cond \in CondNode(X)
    PROVE  cond.value \in X /\ cond.pattern \in Patterns
BY DEF CondNode
\* The parts of an arm.
LEMMA ArmParts ==
    ASSUME NEW X, NEW arm \in ArmNode(X)
    PROVE  arm.body \in X /\ arm.pattern \in Patterns
BY DEF ArmNode
\* The parts of an item.
LEMMA ItemParts ==
    ASSUME NEW X, NEW item \in ItemNode(X)
    PROVE  /\ item.kind = "Fn" => item.params \in Seq(ParamNode) /\ item.body \in Maybe(BlockNode(X))
           /\ item.kind \in {"Static", "Const"} => item.init \in X
BY DEF ItemNode

-----------------------------------------------------------------------------
(***************************************************************************)
(* What a step of the checker does: it replaces the first task.            *)
(***************************************************************************)
LEMMA HereLevel ==
    ASSUME Counts
    PROVE  Here \in Level
BY SeqFacts DEF Counts, Here, Level

\* The first task fits, and finds what it takes.
LEMMA TaskReady ==
    ASSUME Counts, todo # <<>>
    PROVE  /\ TaskFits(Exprs(items), Task)
           /\ Takes(Task) <= Len(vals) /\ Asks(Task) <= Len(verdicts)
           /\ Task.do = "Pop" => 1 <= Len(scopes)
           /\ Task.do = "LeaveLoop" => 1 <= loop_depth
<1>1. PICK y \in Level : Step(Exprs(items), Task, Here, y)
  BY RunsFirst DEF Counts, Task
<1>2. Here.s = Len(scopes) /\ Here.l = loop_depth /\ Here.v = Len(vals) /\ Here.w = Len(verdicts)
  BY DEF Here
<1>3. /\ TaskFits(Exprs(items), Task)
      /\ Takes(Task) <= Len(vals) /\ Asks(Task) <= Len(verdicts)
  BY <1>1, <1>2 DEF Step
<1>4. /\ y.s \in Nat /\ y.l \in Nat /\ Len(scopes) \in Nat /\ loop_depth \in Nat
      /\ y.s = Len(scopes) + Opens(Task) /\ y.l = loop_depth + Enters(Task)
  BY <1>1, <1>2, LevelNat, SeqFacts DEF Step, Counts
<1>5. ASSUME Task.do = "Pop" PROVE 1 <= Len(scopes)
  BY <1>4, <1>5 DEF Opens
<1>6. ASSUME Task.do = "LeaveLoop" PROVE 1 <= loop_depth
  BY <1>4, <1>6 DEF Enters
<1> QED BY <1>3, <1>5, <1>6

\* It does so with tasks that lead from the new level to where the task led.
LEMMA StepRuns ==
    ASSUME Counts, todo # <<>>, NEW tasks, Do(tasks), items' = items, at' = at,
           IsSeq(scopes'), loop_depth' \in Nat, IsSeq(vals'), IsSeq(verdicts'),
           \A y \in Level : Step(Exprs(items), Task, Here, y) => Runs(Exprs(items), tasks, Here', y)
    PROVE  Counts'
<1>1. Runs(Exprs(items), tasks \o Tail(todo), Here', Zero)
  BY RunsReplace DEF Counts, Task
<1>2. Runs(Exprs(items'), todo', Here', Zero)
  BY <1>1 DEF Do
<1> QED BY <1>2 DEF Counts

\* What the task and the new tasks add is the same.
LEMMA StepNet ==
    ASSUME Counts, todo # <<>>, NEW tasks, Do(tasks), items' = items, at' = at,
           IsSeq(scopes'), Len(scopes') = Len(scopes), loop_depth' = loop_depth, in_fn' = in_fn,
           IsSeq(vals'), IsSeq(verdicts'),
           NEW takes \in Nat, NEW gives \in Nat, NEW asks \in Nat, NEW answers \in Nat,
           Uses(Exprs(items), Task, takes, gives, asks, answers),
           NEW g \in Nat, NEW r \in Nat, Net(Exprs(items), tasks, g, r),
           Len(vals') + g = Len(vals) - takes + gives,
           Len(verdicts') + r = Len(verdicts) - asks + answers
    PROVE  Counts'
<1> DEFINE X == Exprs(items)
           t == Task
           x == Here
           u == Here'
<1>1. x \in Level
  BY HereLevel
<1>2. loop_depth' \in Nat
  BY DEF Counts
<1>3. u \in Level
  BY <1>2, SeqFacts DEF Here, Level
<1>4. /\ x.s = u.s /\ x.l = u.l /\ x.f = u.f
      /\ u.v + g = x.v - takes + gives /\ u.w + r = x.w - asks + answers
  BY DEF Here
<1>5. ASSUME NEW y \in Level, Step(X, t, x, y) PROVE Runs(X, tasks, u, y)
  <2>1. x.s \in Nat /\ x.l \in Nat
    BY <1>1, LevelNat
  <2> HIDE DEF u, x, t, X
  <2>2. y.s = x.s /\ y.l = x.l /\ y.f = x.f
    BY <1>5, <2>1 DEF Step, Uses, t, X
  <2>3. y.v = x.v - takes + gives /\ y.w = x.w - asks + answers
    BY <1>5 DEF Step, Uses, t, X
  <2>4. Above(u, y, g, r)
    BY <1>3, <1>4, <2>2, <2>3 DEF Above
  <2>5. y = Moved(u, g, r)
    BY <2>4, AboveMoved
  <2>6. Runs(X, tasks, u, Moved(u, g, r))
    BY <1>3 DEF Net, X
  <2> QED BY <2>5, <2>6
<1> QED BY <1>2, <1>5, StepRuns

\* The tasks there are, and what each does.
LEMMA TaskUses ==
    ASSUME Counts, todo # <<>>
    PROVE  /\ Task.do \in {"Expr", "Yield", "Block", "Place"} => Uses(Exprs(items), Task, 0, 1, 0, 0)
           /\ Task.do = "Combine" => Uses(Exprs(items), Task, Arity(Task.e), 1, 0, 0)
           /\ Task.do \in {"Join", "NoElse", "PlaceOf"} => Uses(Exprs(items), Task, 1, 1, 0, 0)
           /\ Task.do = "Meet" => Uses(Exprs(items), Task, 2, 1, 0, 0)
           /\ Task.do \in {"Unify", "Drop", "Declared", "Value", "Discard"}
                  => Uses(Exprs(items), Task, 1, 0, 0, 0)
           /\ Task.do = "Assign" => Uses(Exprs(items), Task, 2, 0, 0, 0)
           /\ Task.do \in {"Stmt", "Param", "BindError", "EndAlternative", "Exhaustive", "Main"}
                  => Uses(Exprs(items), Task, 0, 0, 0, 0)
           /\ Task.do \in {"Bind", "Alternative"} => Uses(Exprs(items), Task, 0, 0, 0, 1)
           /\ Task.do = "Verdict" => Uses(Exprs(items), Task, 0, 0, Task.n, 1)
           /\ Task.do = "Irrefutable" => Uses(Exprs(items), Task, 0, 0, 1, 0)
<1>1. TaskFits(Exprs(items), Task)
  BY TaskReady
<1> DEFINE t == Task
           X == Exprs(items)
<1>2. TaskFits(X, t)
  BY <1>1
<1> HIDE DEF t, X
<1>3. /\ t.do \in {"Expr", "Yield", "Block", "Place"} => Uses(X, t, 0, 1, 0, 0)
      /\ t.do = "Combine" => Uses(X, t, Arity(t.e), 1, 0, 0)
      /\ t.do \in {"Join", "NoElse", "PlaceOf"} => Uses(X, t, 1, 1, 0, 0)
      /\ t.do = "Meet" => Uses(X, t, 2, 1, 0, 0)
      /\ t.do \in {"Unify", "Drop", "Declared", "Value", "Discard"} => Uses(X, t, 1, 0, 0, 0)
  BY <1>2 DEF Uses, Opens, Enters, Takes, Gives, Asks, Answers
<1>4. /\ t.do = "Assign" => Uses(X, t, 2, 0, 0, 0)
      /\ t.do \in {"Stmt", "Param", "BindError", "EndAlternative", "Exhaustive", "Main"}
             => Uses(X, t, 0, 0, 0, 0)
      /\ t.do \in {"Bind", "Alternative"} => Uses(X, t, 0, 0, 0, 1)
      /\ t.do = "Verdict" => Uses(X, t, 0, 0, t.n, 1)
      /\ t.do = "Irrefutable" => Uses(X, t, 0, 0, 1, 0)
  BY <1>2 DEF Uses, Opens, Enters, Takes, Gives, Asks, Answers
<1> QED BY <1>3, <1>4 DEF t, X

\* The expressions of the program.
Nodes == Exprs(items)

\* A step that leaves scopes, loops, types and verdicts alone.
LEMMA StepSame ==
    ASSUME Counts, todo # <<>>, NEW tasks, Do(tasks),
           UNCHANGED <<item_vars, scope_vars, vals, verdicts>>,
           NEW g \in Nat, NEW r \in Nat, Uses(Nodes, Task, 0, g, 0, r), Net(Nodes, tasks, g, r)
    PROVE  Counts'
<1>1. IsSeq(scopes) /\ IsSeq(vals) /\ IsSeq(verdicts) /\ Len(vals) \in Nat /\ Len(verdicts) \in Nat
  BY SeqFacts DEF Counts
<1>2. /\ items' = items /\ at' = at /\ in_fn' = in_fn
      /\ scopes' = scopes /\ loop_depth' = loop_depth /\ vals' = vals /\ verdicts' = verdicts
  BY DEF item_vars, scope_vars
<1>3. IsSeq(scopes') /\ Len(scopes') = Len(scopes) /\ IsSeq(vals') /\ IsSeq(verdicts')
  BY <1>1, <1>2
<1>4. /\ Len(vals') + g = Len(vals) - 0 + g /\ Len(verdicts') + r = Len(verdicts) - 0 + r
  BY <1>1, <1>2
<1>5. 0 \in Nat
  OBVIOUS
<1> QED BY <1>2, <1>3, <1>4, <1>5, StepNet DEF Nodes

\* A step that takes n types.
LEMMA StepTakes ==
    ASSUME Counts, todo # <<>>, NEW tasks, Do(tasks), NEW n \in Nat, vals' = Popped(n),
           UNCHANGED <<item_vars, scope_vars, verdicts>>,
           NEW g \in Nat, Uses(Nodes, Task, n, g, 0, 0), Net(Nodes, tasks, g, 0)
    PROVE  Counts'
<1>1. IsSeq(scopes) /\ IsSeq(vals) /\ IsSeq(verdicts) /\ Len(vals) \in Nat /\ Len(verdicts) \in Nat
  BY SeqFacts DEF Counts
<1>2. /\ items' = items /\ at' = at /\ in_fn' = in_fn
      /\ scopes' = scopes /\ loop_depth' = loop_depth /\ verdicts' = verdicts
  BY DEF item_vars, scope_vars
<1>3. n <= Len(vals)
  BY TaskReady DEF Uses
<1>4. IsSeq(vals') /\ Len(vals') = Len(vals) - n
  BY <1>1, <1>3, SeqPopped DEF Popped
<1>5. IsSeq(scopes') /\ Len(scopes') = Len(scopes) /\ IsSeq(verdicts')
  BY <1>1, <1>2
<1>6. /\ Len(vals') + g = Len(vals) - n + g /\ Len(verdicts') + 0 = Len(verdicts) - 0 + 0
  BY <1>1, <1>2, <1>4
<1>7. 0 \in Nat
  OBVIOUS
<1> QED BY <1>2, <1>4, <1>5, <1>6, <1>7, StepNet DEF Nodes

\* A step to the parts of a node.
LEMMA ExpandStep ==
    ASSUME Counts, todo # <<>>, NEW tasks, NEW codes, Expand(tasks, codes),
           NEW g \in Nat, NEW r \in Nat, Uses(Nodes, Task, 0, g, 0, r), Net(Nodes, tasks, g, r)
    PROVE  Counts'
<1>1. Do(tasks) /\ UNCHANGED <<item_vars, scope_vars, vals, verdicts>>
  BY DEF Expand
<1> QED BY <1>1, StepSame

\* A step that takes n types.
LEMMA ReduceStep ==
    ASSUME Counts, todo # <<>>, NEW tasks, NEW codes, NEW n \in Nat, Reduce(n, tasks, codes),
           NEW g \in Nat, Uses(Nodes, Task, n, g, 0, 0), Net(Nodes, tasks, g, 0)
    PROVE  Counts'
<1>1. Do(tasks) /\ vals' = Popped(n) /\ UNCHANGED <<item_vars, scope_vars, verdicts>>
  BY DEF Reduce
<1> QED BY <1>1, StepTakes

\* The node of a task is of the program, and so are its parts.
LEMMA NodeReady ==
    ASSUME Counts, todo # <<>>
    PROVE  /\ Nodes \subseteq ExprNode(Nodes)
           /\ TaskFits(Nodes, Task)
           /\ Task.do \in {"Expr", "Combine", "Place", "PlaceOf"} => E \in Nodes
BY TaskReady DEF Counts, IsProgram, Nodes, TaskFits, E

\* A type of its own.
LEMMA GiveNet ==
    ASSUME NEW X, NEW type
    PROVE  Net(X, <<Give(type)>>, 1, 0)
BY GiveUses, Net1

\* A type against the expectation.
LEMMA YieldNet ==
    ASSUME NEW X, NEW exp, NEW type
    PROVE  Net(X, <<Yield(exp, type)>>, 1, 0)
BY YieldUses, Net1

\* An expression leaves its type.
LEMMA ExprNet ==
    ASSUME NEW X, NEW e \in X, NEW exp
    PROVE  Net(X, <<Expr(e, exp)>>, 1, 0)
BY ExprUses, Net1

\* Check an expression, then a task that takes its type and gives one.
LEMMA ExprThenNet ==
    ASSUME NEW X, NEW e \in X, NEW exp, NEW t, Uses(X, t, 1, 1, 0, 0)
    PROVE  Net(X, <<Expr(e, exp), t>>, 1, 0)
<1>1. Net(X, <<Expr(e, exp)>>, 1, 0)
  BY ExprNet
<1>2. 1 <= 1 /\ 0 <= 0 /\ 1 = 1 - 1 + 1 /\ 0 = 0 - 0 + 0
  OBVIOUS
<1> QED BY <1>1, <1>2, Net2

\* Two expressions, then a task that takes both types.
LEMMA BothThenNet ==
    ASSUME NEW X, NEW e \in X, NEW d \in X, NEW exp, NEW other, NEW t, Uses(X, t, 2, 1, 0, 0)
    PROVE  Net(X, <<Expr(e, exp), Expr(d, other), t>>, 1, 0)
<1>1. Net(X, <<Expr(e, exp)>>, 1, 0)
  BY ExprNet
<1>2. 0 <= 1 /\ 0 <= 0 /\ 2 = 1 - 0 + 1 /\ 0 = 0 - 0 + 0
  OBVIOUS
<1>3. Net(X, <<Expr(e, exp), Expr(d, other)>>, 2, 0)
  BY <1>1, <1>2, ExprUses, Net2
<1>4. 2 <= 2 /\ 0 <= 0 /\ 1 = 2 - 2 + 1 /\ 0 = 0 - 0 + 0
  OBVIOUS
<1> QED BY <1>3, <1>4, Net3

\* An expression, block or place goes on to tasks that leave one type.
LEMMA ExprDone ==
    ASSUME Counts, todo # <<>>, Task.do \in {"Expr", "Block", "Place"},
           NEW tasks, NEW codes, Expand(tasks, codes), Net(Nodes, tasks, 1, 0)
    PROVE  Counts'
<1>1. Uses(Nodes, Task, 0, 1, 0, 0) /\ 0 \in Nat /\ 1 \in Nat
  BY TaskUses DEF Nodes
<1> QED BY <1>1, ExpandStep

\* So does an expression whose operands are checked.
LEMMA CombineDone ==
    ASSUME Counts, todo # <<>>, Task.do = "Combine", NEW n \in Nat, Arity(E) = n,
           NEW tasks, NEW codes, Reduce(n, tasks, codes), Net(Nodes, tasks, 1, 0)
    PROVE  Counts'
<1>1. Uses(Nodes, Task, n, 1, 0, 0) /\ 1 \in Nat
  BY TaskUses DEF Nodes, E
<1> QED BY <1>1, ReduceStep

\* An expression in error leaves the error type.
LEMMA FailDone ==
    ASSUME Counts, todo # <<>>, Task.do \in {"Expr", "Block", "Place"}, NEW code, Fail(code)
    PROVE  Counts'
BY ExprDone, GiveNet DEF Fail

\* Also after its operands.
LEMMA FailAfterDone ==
    ASSUME Counts, todo # <<>>, Task.do = "Combine", NEW n \in Nat, Arity(E) = n,
           NEW code, FailAfter(n, code)
    PROVE  Counts'
BY CombineDone, GiveNet DEF FailAfter

-----------------------------------------------------------------------------
(***************************************************************************)
(* The expressions.                                                        *)
(***************************************************************************)
\* An expression that is done at once.
LEMMA LeafCounts ==
    ASSUME Counts, CheckLiteral \/ CheckPath \/ CheckRange \/ CheckBreak
    PROVE  Counts'
<1>1. CASE CheckLiteral
  <2>1. /\ todo # <<>> /\ Task.do = "Expr"
        /\ Expand(<<LiteralTask(E.lit, Exp)>>, LiteralCodes(E.lit))
    BY <1>1 DEF CheckLiteral, AtExpr, At
  <2>2. Net(Nodes, <<LiteralTask(E.lit, Exp)>>, 1, 0)
    BY GiveNet, YieldNet DEF LiteralTask
  <2> QED BY <2>1, <2>2, ExprDone
<1>2. CASE CheckPath
  <2>1. /\ todo # <<>> /\ Task.do = "Expr"
        /\ \/ \E type, codes : Expand(<<Yield(Exp, type)>>, codes)
           \/ \E type, codes : Expand(<<Give(type)>>, codes)
    BY <1>2 DEF CheckPath, AtExpr, At
  <2> QED BY <2>1, GiveNet, YieldNet, ExprDone
<1>3. CASE CheckRange
  BY <1>3, FailDone DEF CheckRange, AtExpr, At
<1>4. CASE CheckBreak
  <2>1. /\ todo # <<>> /\ Task.do = "Expr"
        /\ \/ Fail("BreakOutsideLoop")
           \/ Expand(<<Give(NeverType)>>, {})
    BY <1>4 DEF CheckBreak, At
  <2> QED BY <2>1, FailDone, GiveNet, ExprDone
<1> QED BY <1>1, <1>2, <1>3, <1>4

\* An expression that goes on to its operands.
LEMMA EnterCounts ==
    ASSUME Counts, EnterOperand \/ EnterTuple \/ EnterBinary \/ EnterIndex \/ EnterMatch
    PROVE  Counts'
<1>0. ASSUME todo # <<>>, Task.do = "Expr" PROVE E \in Nodes /\ Nodes \subseteq ExprNode(Nodes)
  BY <1>0, NodeReady
<1>1. CASE EnterOperand
  <2>1. /\ todo # <<>> /\ Task.do = "Expr"
        /\ E.kind \in {"Unary", "Borrow", "Cast", "MethodCall", "Field", "Question"}
        /\ Expand(<<Expr(E.inner, 0), Combine(E, Exp)>>, {})
    BY <1>1 DEF EnterOperand, At
  <2>2. E \in Nodes /\ E.inner \in Nodes /\ Arity(E) = 1
    BY <1>0, <2>1, ExprParts DEF Arity
  <2>3. Net(Nodes, <<Expr(E.inner, 0), Combine(E, Exp)>>, 1, 0)
    BY <2>2, CombineUses, ExprThenNet
  <2> QED BY <2>1, <2>3, ExprDone
<1>2. CASE EnterTuple
  <2> DEFINE n == Len(E.parts)
             slots == IF Exp # 0 /\ Tag(Exp) = "Tuple" THEN b.tuples[b.types[Exp].data] ELSE NoSlots
             ts == [k \in 1 .. n |-> Expr(E.parts[k], IF slots.size = n THEN slots.head + k - 1 ELSE 0)]
  <2>1. /\ todo # <<>> /\ Task.do = "Expr" /\ E.kind = "Tuple"
        /\ Expand(IF n = 0 THEN <<Yield(Exp, Void)>> ELSE ts \o <<Combine(E, Exp)>>, {})
    BY <1>2 DEF EnterTuple, AtExpr, At
  <2>2. E \in Nodes /\ E.parts \in Seq(Nodes) /\ Arity(E) = n
    BY <1>0, <2>1, ExprParts DEF Arity
  <2>3. n \in Nat /\ \A k \in 1 .. n : E.parts[k] \in Nodes
    BY <2>2
  <2>4. \A k \in 1 .. n : Uses(Nodes, ts[k], 0, 1, 0, 0)
    BY <2>3, ExprUses
  <2>5. ts = [k \in 1 .. n |-> ts[k]]
    OBVIOUS
  <2> HIDE DEF ts, slots, n
  <2>6. ts \in [1 .. n -> {ts[k] : k \in 1 .. n}]
    BY <2>5
  <2>7. IsSeq(ts) /\ Len(ts) = n
    BY <2>3, <2>6, SeqMade
  <2>8. Net(Nodes, ts, n * 1, n * 0)
    BY <2>3, <2>4, <2>7, NetEach
  <2>9. n * 1 = n /\ n * 0 = 0 /\ n <= n /\ 0 <= 0 /\ 1 = n - n + 1 /\ 0 = 0 - 0 + 0
    BY <2>3
  <2>10. Uses(Nodes, Combine(E, Exp), n, 1, 0, 0)
    BY <2>2, CombineUses
  <2>11. Net(Nodes, ts \o <<Combine(E, Exp)>>, 1, 0)
    BY <2>3, <2>8, <2>9, <2>10, NetThen
  <2>12. Net(Nodes, IF n = 0 THEN <<Yield(Exp, Void)>> ELSE ts \o <<Combine(E, Exp)>>, 1, 0)
    BY <2>11, YieldNet
  <2> QED BY <2>1, <2>12, ExprDone
<1>3. CASE EnterBinary
  <2>1. /\ todo # <<>> /\ Task.do = "Expr" /\ E.kind = "Binary"
        /\ Expand(<<Expr(E.lhs, 0), Expr(E.rhs, 0), Combine(E, Exp)>>, {})
    BY <1>3 DEF EnterBinary, AtExpr, At
  <2>2. E \in Nodes /\ E.lhs \in Nodes /\ E.rhs \in Nodes /\ Arity(E) = 2
    BY <1>0, <2>1, ExprParts DEF Arity
  <2>3. Net(Nodes, <<Expr(E.lhs, 0), Expr(E.rhs, 0), Combine(E, Exp)>>, 1, 0)
    BY <2>2, CombineUses, BothThenNet
  <2> QED BY <2>1, <2>3, ExprDone
<1>4. CASE EnterIndex
  <2>1. /\ todo # <<>> /\ Task.do = "Expr" /\ E.kind = "Index"
        /\ Expand(<<Expr(E.inner, 0), Expr(E.index, 0), Combine(E, Exp)>>, {})
    BY <1>4 DEF EnterIndex, AtExpr, At
  <2>2. E \in Nodes /\ E.inner \in Nodes /\ E.index \in Nodes /\ Arity(E) = 2
    BY <1>0, <2>1, ExprParts DEF Arity
  <2>3. Net(Nodes, <<Expr(E.inner, 0), Expr(E.index, 0), Combine(E, Exp)>>, 1, 0)
    BY <2>2, CombineUses, BothThenNet
  <2> QED BY <2>1, <2>3, ExprDone
<1>5. CASE EnterMatch
  <2>1. /\ todo # <<>> /\ Task.do = "Expr" /\ E.kind = "Match"
        /\ Expand(<<Expr(E.inner, 0), Combine(E, Exp)>>, {})
    BY <1>5 DEF EnterMatch, AtExpr, At
  <2>2. E \in Nodes /\ E.inner \in Nodes /\ Arity(E) = 1
    BY <1>0, <2>1, ExprParts DEF Arity
  <2>3. Net(Nodes, <<Expr(E.inner, 0), Combine(E, Exp)>>, 1, 0)
    BY <2>2, CombineUses, ExprThenNet
  <2> QED BY <2>1, <2>3, ExprDone
<1> QED BY <1>1, <1>2, <1>3, <1>4, <1>5

\* Arguments checked, then a task that gives a type.
LEMMA DropAllThen ==
    ASSUME NEW X, NEW args \in Seq(X), NEW type
    PROVE  Net(X, DropAll(args) \o <<Give(type)>>, 1, 0)
<1>1. Net(X, DropAll(args), 0, 0) /\ 1 \in Nat
  BY DropAllNet
<1> QED BY <1>1, NetThenOne, GiveUses

\* The same for arguments that are checked against parameters.
LEMMA AgainstThen ==
    ASSUME NEW X, NEW args \in Seq(X), NEW params, NEW t, Uses(X, t, 0, 1, 0, 0)
    PROVE  Net(X, Against(args, params) \o <<t>>, 1, 0)
<1>1. Net(X, Against(args, params), 0, 0) /\ 1 \in Nat
  BY AgainstNet
<1> QED BY <1>1, NetThenOne

\* What is left of an expression once its operands are checked.
LEMMA OperandCounts ==
    ASSUME Counts, \/ CheckUnary \/ CheckBorrow \/ CheckCast \/ CheckTuple \/ CheckBinary \/ CheckIndex
                   \/ CheckField \/ CheckQuestion
    PROVE  Counts'
<1>0. ASSUME todo # <<>>, Task.do = "Combine" PROVE E \in Nodes /\ Nodes \subseteq ExprNode(Nodes)
  BY <1>0, NodeReady
<1>1. CASE CheckUnary
  <2>1. /\ todo # <<>> /\ Task.do = "Combine" /\ Arity(E) = 1
        /\ \/ \E type, codes : Reduce(1, <<Give(type)>>, codes)
           \/ \E type, codes : Reduce(1, <<Yield(Exp, type)>>, codes)
           \/ \E code : FailAfter(1, code)
    BY <1>1 DEF CheckUnary, AtCombine, At, Arity
  <2> QED BY <2>1, GiveNet, YieldNet, CombineDone, FailAfterDone
<1>2. CASE CheckBorrow
  <2> DEFINE made == ReferenceType(b, Val(0), E.is_mut)
             t == IF Tag(Val(0)) = "Error" THEN Give(ErrorType) ELSE Yield(Exp, made.idx)
  <2>1. /\ todo # <<>> /\ Task.do = "Combine" /\ Arity(E) = 1
        /\ Do(<<t>>) /\ vals' = Popped(1) /\ UNCHANGED <<item_vars, scope_vars, verdicts>>
    BY <1>2 DEF CheckBorrow, AtCombine, At, Arity
  <2>2. Net(Nodes, <<t>>, 1, 0)
    BY GiveNet, YieldNet
  <2>3. Uses(Nodes, Task, 1, 1, 0, 0)
    BY <2>1, TaskUses DEF Nodes, E
  <2> HIDE DEF t
  <2> QED BY <2>1, <2>2, <2>3, StepTakes
<1>3. CASE CheckCast
  <2>1. /\ todo # <<>> /\ Task.do = "Combine" /\ Arity(E) = 1
        /\ vals' = Popped(1) /\ UNCHANGED <<item_vars, scope_vars, verdicts>>
        /\ \/ \E type : Do(<<Yield(Exp, type)>>)
           \/ Do(<<Give(ErrorType)>>)
    BY <1>3 DEF CheckCast, AtCombine, At, Arity
  <2>2. PICK t : Do(<<t>>) /\ Net(Nodes, <<t>>, 1, 0)
    BY <2>1, GiveNet, YieldNet
  <2>3. Uses(Nodes, Task, 1, 1, 0, 0)
    BY <2>1, TaskUses DEF Nodes, E
  <2> QED BY <2>1, <2>2, <2>3, StepTakes
<1>4. CASE CheckTuple
  <2>1. /\ todo # <<>> /\ Task.do = "Combine" /\ E.kind = "Tuple"
        /\ vals' = Popped(Len(E.parts)) /\ UNCHANGED <<item_vars, scope_vars, verdicts>>
        /\ \E type : Do(<<Yield(Exp, type)>>)
    BY <1>4 DEF CheckTuple, AtCombine, At
  <2>2. E.parts \in Seq(Nodes) /\ Arity(E) = Len(E.parts)
    BY <1>0, <2>1, ExprParts DEF Arity
  <2>3. Len(E.parts) \in Nat
    BY <2>2
  <2>4. Uses(Nodes, Task, Len(E.parts), 1, 0, 0)
    BY <2>1, <2>2, TaskUses DEF Nodes, E
  <2> QED BY <2>1, <2>3, <2>4, YieldNet, StepTakes
<1>5. CASE CheckBinary
  <2>1. /\ todo # <<>> /\ Task.do = "Combine" /\ Arity(E) = 2
        /\ \/ \E type, codes : Reduce(2, <<Give(type)>>, codes)
           \/ \E type, codes : Reduce(2, <<Yield(Exp, type)>>, codes)
           \/ \E code : FailAfter(2, code)
    BY <1>5 DEF CheckBinary, AtCombine, At, Arity
  <2> QED BY <2>1, GiveNet, YieldNet, CombineDone, FailAfterDone
<1>6. CASE CheckIndex
  <2>1. /\ todo # <<>> /\ Task.do = "Combine" /\ Arity(E) = 2
        /\ \/ \E type, codes : Reduce(2, <<Give(type)>>, codes)
           \/ \E code : FailAfter(2, code)
    BY <1>6 DEF CheckIndex, AtCombine, At, Arity
  <2> QED BY <2>1, GiveNet, CombineDone, FailAfterDone
<1>7. CASE CheckField
  <2>1. /\ todo # <<>> /\ Task.do = "Combine" /\ Arity(E) = 1
        /\ \/ \E type, codes : Reduce(1, <<Give(type)>>, codes)
           \/ \E type, codes : Reduce(1, <<Yield(Exp, type)>>, codes)
           \/ \E code : FailAfter(1, code)
    BY <1>7 DEF CheckField, AtCombine, At, Arity
  <2> QED BY <2>1, GiveNet, YieldNet, CombineDone, FailAfterDone
<1>8. CASE CheckQuestion
  <2>1. /\ todo # <<>> /\ Task.do = "Combine" /\ Arity(E) = 1
        /\ \/ \E type, codes : Reduce(1, <<Yield(Exp, type)>>, codes)
           \/ \E code : FailAfter(1, code)
    BY <1>8 DEF CheckQuestion, AtCombine, At, Arity
  <2> QED BY <2>1, YieldNet, CombineDone, FailAfterDone
<1> QED BY <1>1, <1>2, <1>3, <1>4, <1>5, <1>6, <1>7, <1>8

\* Calls of functions and constructors.
LEMMA CallCounts ==
    ASSUME Counts, CallOther \/ CallIntrinsic \/ CallFunction \/ CallVariant \/ CallBlessed
    PROVE  Counts'
<1>1. todo # <<>> /\ Task.do = "Expr" /\ E.kind = "Call"
  BY DEF CallOther, CallIntrinsic, CallFunction, CallVariant, CallBlessed, CallsOf, AtExpr, At
<1>2. E.args \in Seq(Nodes)
  BY <1>1, NodeReady, ExprParts
<1>3. Net(Nodes, DropAll(E.args) \o <<Give(ErrorType)>>, 1, 0)
  BY <1>2, DropAllThen
<1>4. \A params, exp, type : Net(Nodes, Against(E.args, params) \o <<Yield(exp, type)>>, 1, 0)
  BY <1>2, AgainstThen, YieldUses
<1>5. \A params, type : Net(Nodes, Against(E.args, params) \o <<Give(type)>>, 1, 0)
  BY <1>2, AgainstThen, GiveUses
<1>6. \A type, payloads : Net(Nodes, Construct(type, payloads), 1, 0)
  BY <1>3, <1>4 DEF Construct
<1>7. CASE CallOther
  <2>1. \E codes : Expand(DropAll(E.args) \o <<Give(ErrorType)>>, codes)
    BY <1>7 DEF CallOther
  <2> QED BY <1>1, <1>3, <2>1, ExprDone
<1>8. CASE CallIntrinsic
  <2>1. \/ Fail("ArityError")
        \/ Expand(Against(E.args, <<Str>>) \o <<Yield(Exp, Void)>>, {})
        \/ Expand(Against(E.args, <<Str>>) \o <<Give(NeverType)>>, {})
    BY <1>8 DEF CallIntrinsic
  <2> QED BY <1>1, <1>4, <1>5, <2>1, ExprDone, FailDone
<1>9. CASE CallFunction
  <2> DEFINE v == Callee
             params == SubSeq(v.fn.params, 1 + Skipped(v), Len(v.fn.params))
             fits == Len(E.args) + Skipped(v) = Len(v.fn.params)
  <2>1. \E codes : Expand((IF fits THEN Against(E.args, params) ELSE <<>>) \o <<Yield(Exp, v.fn.ret)>>,
                          codes)
    BY <1>9 DEF CallFunction
  <2>2. Net(Nodes, <<>> \o <<Yield(Exp, v.fn.ret)>>, 1, 0)
    <3>1. Net(Nodes, <<>>, 0, 0) /\ 1 \in Nat
      BY NetNil
    <3> QED BY <3>1, NetThenOne, YieldUses
  <2>3. Net(Nodes, (IF fits THEN Against(E.args, params) ELSE <<>>) \o <<Yield(Exp, v.fn.ret)>>, 1, 0)
    <3> HIDE DEF params, fits, v
    <3> QED BY <1>4, <2>2
  <2> HIDE DEF params, fits, v
  <2> QED BY <1>1, <2>1, <2>3, ExprDone
<1>10. CASE CallVariant
  <2>1. /\ \E type, payloads : Do(Construct(type, payloads))
        /\ UNCHANGED <<item_vars, scope_vars, vals, verdicts>>
    BY <1>10 DEF CallVariant
  <2>2. Uses(Nodes, Task, 0, 1, 0, 0) /\ 0 \in Nat /\ 1 \in Nat
    BY <1>1, TaskUses DEF Nodes
  <2> QED BY <1>1, <1>6, <2>1, <2>2, StepSame
<1>11. CASE CallBlessed
  <2>1. \/ \E codes : Expand(<<Give(ErrorType)>>, codes)
        \/ \E type, payloads, codes : Expand(Construct(type, payloads), codes)
    BY <1>11 DEF CallBlessed
  <2> QED BY <1>1, <1>6, <2>1, GiveNet, ExprDone
<1> QED BY <1>7, <1>8, <1>9, <1>10, <1>11

\* Calls of methods, once the receiver is checked.
LEMMA MethodCounts ==
    ASSUME Counts, MethodOfError \/ CallBlessedMethod \/ CallMethod
    PROVE  Counts'
<1>1. todo # <<>> /\ Task.do = "Combine" /\ E.kind = "MethodCall" /\ Arity(E) = 1
  BY DEF MethodOfError, CallBlessedMethod, CallMethod, AtCombine, At, Arity
<1>2. E.args \in Seq(Nodes)
  BY <1>1, NodeReady, ExprParts
<1>3. Net(Nodes, DropAll(E.args) \o <<Give(ErrorType)>>, 1, 0)
  BY <1>2, DropAllThen
<1>4. \A params, exp, type : Net(Nodes, Against(E.args, params) \o <<Yield(exp, type)>>, 1, 0)
  BY <1>2, AgainstThen, YieldUses
<1>5. \/ \E codes : Reduce(1, DropAll(E.args) \o <<Give(ErrorType)>>, codes)
      \/ \E params, type : Reduce(1, Against(E.args, params) \o <<Yield(Exp, type)>>, {})
      \/ \E type, codes : Reduce(1, <<Yield(Exp, type)>>, codes)
      \/ \E code : FailAfter(1, code)
  <2>1. CASE MethodOfError
    BY <2>1 DEF MethodOfError
  <2>2. CASE CallBlessedMethod
    BY <2>2 DEF CallBlessedMethod
  <2>3. CASE CallMethod
    BY <2>3 DEF CallMethod
  <2> QED BY <2>1, <2>2, <2>3
<1>6. 1 \in Nat
  OBVIOUS
<1> QED BY <1>1, <1>3, <1>4, <1>5, <1>6, YieldNet, CombineDone, FailAfterDone

\* An expression checked and used, then a type of its own.
LEMMA PairChecked ==
    ASSUME NEW X, NEW e \in X, NEW exp, NEW t, Uses(X, t, 1, 0, 0, 0), NEW u, Uses(X, u, 0, 1, 0, 0)
    PROVE  Net(X, <<Expr(e, exp), t, u>>, 1, 0)
<1>1. Net(X, <<Expr(e, exp), t>>, 0, 0)
  BY CheckedNet
<1>2. 0 <= 0 /\ 1 = 0 - 0 + 1 /\ 0 = 0 - 0 + 0
  OBVIOUS
<1> QED BY <1>1, <1>2, Net3

\* The operands of && and || are unified with bool, the second first.
LEMMA LogicalNet ==
    ASSUME NEW X, NEW lhs \in X, NEW rhs \in X, NEW exp
    PROVE  Net(X, <<Expr(lhs, Bool), Expr(rhs, Bool), Unify(Bool), Unify(Bool), Yield(exp, Bool)>>, 1, 0)
<1> DEFINE p == Expr(lhs, Bool)
           q == Expr(rhs, Bool)
           u == Unify(Bool)
           y == Yield(exp, Bool)
<1>1. /\ Uses(X, p, 0, 1, 0, 0) /\ Uses(X, q, 0, 1, 0, 0)
      /\ Uses(X, u, 1, 0, 0, 0) /\ Uses(X, y, 0, 1, 0, 0)
  BY ExprUses, UnifyUses, YieldUses
<1> HIDE DEF p, q, u, y
<1>2. /\ 0 <= 1 /\ 0 <= 0 /\ 1 <= 1 /\ 1 <= 2
      /\ 2 = 1 - 0 + 1 /\ 1 = 2 - 1 + 0 /\ 0 = 1 - 1 + 0 /\ 1 = 0 - 0 + 1 /\ 0 = 0 - 0 + 0
  OBVIOUS
<1>3. Net(X, <<p>>, 1, 0)
  BY <1>1, Net1
<1>4. Net(X, <<p, q>>, 2, 0)
  BY <1>1, <1>2, <1>3, Net2
<1>5. Net(X, <<p, q, u>>, 1, 0)
  BY <1>1, <1>2, <1>4, Net3
<1>6. Net(X, <<p, q, u>> \o <<u>>, 0, 0)
  BY <1>1, <1>2, <1>5, NetThen
<1>7. Net(X, (<<p, q, u>> \o <<u>>) \o <<y>>, 1, 0)
  BY <1>1, <1>6, NetThenOne
<1>8. (<<p, q, u>> \o <<u>>) \o <<y>> = <<p, q, u, u, y>>
  <2> DEFINE S == {p, q, u, y}
             r == <<p, q, u>>
             f == <<u>>
             g == <<y>>
             s == <<p, q, u, u, y>>
  <2>1. /\ r \in Seq(S) /\ Len(r) = 3 /\ r[1] = p /\ r[2] = q /\ r[3] = u
        /\ f \in Seq(S) /\ Len(f) = 1 /\ f[1] = u
        /\ g \in Seq(S) /\ Len(g) = 1 /\ g[1] = y
    OBVIOUS
  <2>2. s \in Seq(S) /\ Len(s) = 5 /\ s[1] = p /\ s[2] = q /\ s[3] = u /\ s[4] = u /\ s[5] = y
    OBVIOUS
  <2> HIDE DEF S, r, s, f, g
  <2> DEFINE l == r \o f
             m == l \o g
  <2>3. l \in Seq(S) /\ Len(l) = 4 /\ l[1] = p /\ l[2] = q /\ l[3] = u /\ l[4] = u
    <3>1. l \in Seq(S) /\ Len(l) = Len(r) + Len(f)
      BY <2>1, ConcatProperties
    <3>2. \A k \in 1 .. Len(r) + Len(f) : l[k] = IF k <= Len(r) THEN r[k] ELSE f[k - Len(r)]
      BY <2>1, ConcatProperties
    <3> HIDE DEF l
    <3> QED BY <2>1, <3>1, <3>2
  <2> HIDE DEF l
  <2>4. m \in Seq(S) /\ Len(m) = 5 /\ m[1] = p /\ m[2] = q /\ m[3] = u /\ m[4] = u /\ m[5] = y
    <3>1. m \in Seq(S) /\ Len(m) = Len(l) + Len(g)
      BY <2>1, <2>3, ConcatProperties
    <3>2. \A k \in 1 .. Len(l) + Len(g) : m[k] = IF k <= Len(l) THEN l[k] ELSE g[k - Len(l)]
      BY <2>1, <2>3, ConcatProperties
    <3> HIDE DEF m
    <3> QED BY <2>1, <2>3, <3>1, <3>2
  <2> HIDE DEF m
  <2>5. \A i \in 1 .. Len(m) : m[i] = s[i]
    BY <2>2, <2>4
  <2>6. m = s
    BY <2>2, <2>4, <2>5, SeqEqual
  <2> QED BY <2>6 DEF m, l, r, s, f, g
<1> QED BY <1>7, <1>8 DEF p, q, u, y

\* Struct literals.
LEMMA StructCounts ==
    ASSUME Counts, CheckStruct \/ StructUnknown
    PROVE  Counts'
<1>1. todo # <<>> /\ Task.do = "Expr" /\ E.kind = "Struct"
  BY DEF CheckStruct, StructUnknown, AtExpr, At
<1>2. E.values \in Seq(Nodes) /\ (E.base # Nothing => E.base \in Nodes)
  BY <1>1, NodeReady, ExprParts DEF Maybe
<1>3. Net(Nodes, <<>>, 0, 0)
  BY NetNil
<1>4. CASE CheckStruct
  <2> DEFINE type    == Env.nominals[Lowest(StructsNamed(E.path))].type
             slot(k) == FieldSlot(type, E.names[k])
             F(k)    == <<Expr(E.values[k], slot(k)), IF slot(k) = 0 THEN Drop ELSE Unify(slot(k))>>
             ls      == [k \in DOMAIN E.values |-> F(k)]
             base    == IF E.base = Nothing THEN <<>> ELSE <<Expr(E.base, 0), Unify(type)>>
  <2>1. \E codes : Expand(FlattenSeq(ls) \o base \o <<Yield(Exp, type)>>, codes)
    BY <1>4 DEF CheckStruct
  <2>2. IsSeq(E.values) /\ Len(E.values) \in Nat /\ \A k \in 1 .. Len(E.values) : E.values[k] \in Nodes
    BY <1>2, SeqOfSeq
  <2>3. ASSUME NEW k \in 1 .. Len(E.values) PROVE Net(Nodes, F(k), 0, 0)
    <3>1. Uses(Nodes, IF slot(k) = 0 THEN Drop ELSE Unify(slot(k)), 1, 0, 0, 0)
      BY DropUses, UnifyUses
    <3>2. E.values[k] \in Nodes
      BY <2>2
    <3> QED BY <3>1, <3>2, CheckedNet
  <2>4. Net(Nodes, base, 0, 0)
    BY <1>2, <1>3, CheckedNet, UnifyUses
  <2> HIDE DEF F, base, type
  <2>5. ls = [k \in DOMAIN E.values |-> ls[k]] /\ \A k \in 1 .. Len(E.values) : ls[k] = F(k)
    BY <2>2, SeqFacts
  <2> HIDE DEF ls
  <2>6. IsSeq(ls) /\ Len(ls) = Len(E.values)
    BY <2>2, <2>5, SeqOver
  <2>7. Net(Nodes, FlattenSeq(ls), 0, 0)
    BY <2>2, <2>3, <2>5, <2>6, NetFlattenNone
  <2>8. Net(Nodes, FlattenSeq(ls) \o base, 0, 0)
    <3>1. 0 + 0 = 0 /\ 0 \in Nat
      OBVIOUS
    <3>2. Net(Nodes, FlattenSeq(ls) \o base, 0 + 0, 0 + 0)
      BY <2>4, <2>7, <3>1, NetCat
    <3> QED BY <3>1, <3>2
  <2>9. Net(Nodes, FlattenSeq(ls) \o base \o <<Yield(Exp, type)>>, 1, 0)
    <3>1. 1 \in Nat
      OBVIOUS
    <3> QED BY <2>8, <3>1, NetThenOne, YieldUses
  <2> QED BY <1>1, <2>1, <2>9, ExprDone
<1>5. CASE StructUnknown
  <2> DEFINE base == IF E.base = Nothing THEN <<>> ELSE <<Expr(E.base, 0), Drop>>
  <2>1. Expand(DropAll(E.values) \o base \o <<Give(ErrorType)>>, {"UnknownValue"})
    BY <1>5 DEF StructUnknown
  <2>2. Net(Nodes, DropAll(E.values), 0, 0)
    BY <1>2, DropAllNet
  <2>3. Net(Nodes, base, 0, 0)
    BY <1>2, <1>3, CheckedNet, DropUses
  <2> HIDE DEF base
  <2>4. Net(Nodes, DropAll(E.values) \o base, 0, 0)
    <3>1. 0 + 0 = 0 /\ 0 \in Nat
      OBVIOUS
    <3>2. Net(Nodes, DropAll(E.values) \o base, 0 + 0, 0 + 0)
      BY <2>2, <2>3, <3>1, NetCat
    <3> QED BY <3>1, <3>2
  <2>5. Net(Nodes, DropAll(E.values) \o base \o <<Give(ErrorType)>>, 1, 0)
    <3>1. 1 \in Nat
      OBVIOUS
    <3> QED BY <2>4, <3>1, NetThenOne, GiveUses
  <2> QED BY <1>1, <2>1, <2>5, ExprDone
<1> QED BY <1>4, <1>5

\* Expressions made of others without a scope of their own.
LEMMA FlowCounts ==
    ASSUME Counts, CheckLogical \/ CheckReturn \/ CheckBlockExpr
    PROVE  Counts'
<1>1. todo # <<>> /\ Task.do = "Expr"
  BY DEF CheckLogical, CheckReturn, CheckBlockExpr, AtExpr, At
<1>2. E \in Nodes /\ Nodes \subseteq ExprNode(Nodes)
  BY <1>1, NodeReady
<1>3. CASE CheckLogical
  <2>1. /\ E.kind = "Binary"
        /\ Expand(<<Expr(E.lhs, Bool), Expr(E.rhs, Bool), Unify(Bool), Unify(Bool), Yield(Exp, Bool)>>, {})
    BY <1>3 DEF CheckLogical, AtExpr
  <2>2. E.lhs \in Nodes /\ E.rhs \in Nodes
    BY <1>2, <2>1, ExprParts
  <2> QED BY <1>1, <2>1, <2>2, LogicalNet, ExprDone
<1>4. CASE CheckReturn
  <2>1. /\ E.kind = "Return"
        /\ \/ Fail("BadReturn")
           \/ \E codes : Expand(<<Give(NeverType)>>, codes)
           \/ /\ E.value # Nothing
              /\ Expand(<<Expr(E.value, fn_ret), Unify(fn_ret), Give(NeverType)>>, {})
    BY <1>4 DEF CheckReturn, AtExpr
  <2>2. E.value # Nothing => E.value \in Nodes
    BY <1>2, <2>1, ExprParts DEF Maybe
  <2>3. E.value # Nothing => Net(Nodes, <<Expr(E.value, fn_ret), Unify(fn_ret), Give(NeverType)>>, 1, 0)
    BY <2>2, PairChecked, UnifyUses, GiveUses
  <2> QED BY <1>1, <2>1, <2>3, GiveNet, FailDone, ExprDone
<1>5. CASE CheckBlockExpr
  <2>1. E.kind = "Block" /\ Expand(<<Block(E.block, Exp)>>, {})
    BY <1>5 DEF CheckBlockExpr, AtExpr
  <2>2. E.block \in BlockNode(Nodes)
    BY <1>2, <2>1, ExprParts
  <2>3. Net(Nodes, <<Block(E.block, Exp)>>, 1, 0)
    BY <2>2, BlockUses, Net1
  <2> QED BY <1>1, <2>1, <2>3, ExprDone
<1> QED BY <1>3, <1>4, <1>5

\* Steps that use types.
LEMMA TypeCounts ==
    ASSUME Counts, \/ StepYield \/ StepUnify \/ StepJoin \/ StepDrop \/ StepMeet \/ CheckNoElse
                   \/ CheckExhaustive \/ StepDiscard \/ StepAssign
    PROVE  Counts'
<1>0. /\ 0 \in Nat /\ 1 \in Nat /\ 2 \in Nat
      /\ \A X : Net(X, <<>>, 0, 0)
  BY NetNil
<1>1. CASE StepYield \/ StepMeet
  <2>1. /\ todo # <<>> /\ Task.do \in {"Yield", "Meet"}
        /\ Do(<<>>) /\ UNCHANGED <<item_vars, scope_vars, verdicts>>
        /\ \/ Task.do = "Yield" /\ \E type : vals' = Append(vals, type)
           \/ Task.do = "Meet" /\ \E type : vals' = Append(Popped(2), type)
    BY <1>1 DEF StepYield, StepMeet, At
  <2>2. /\ IsSeq(scopes) /\ IsSeq(vals) /\ IsSeq(verdicts)
        /\ Len(vals) \in Nat /\ Len(verdicts) \in Nat
    BY SeqFacts DEF Counts
  <2>3. /\ items' = items /\ at' = at /\ in_fn' = in_fn /\ scopes' = scopes
        /\ loop_depth' = loop_depth /\ verdicts' = verdicts
    BY <2>1 DEF item_vars, scope_vars
  <2>4. PICK takes \in {0, 2} :
            /\ Uses(Nodes, Task, takes, 1, 0, 0)
            /\ IsSeq(vals') /\ Len(vals') + 0 = Len(vals) - takes + 1
    <3>1. CASE Task.do = "Yield"
      <4>1. Uses(Nodes, Task, 0, 1, 0, 0)
        BY <2>1, <3>1, TaskUses DEF Nodes
      <4>2. PICK type : vals' = Append(vals, type)
        BY <2>1, <3>1
      <4>3. IsSeq(vals') /\ Len(vals') + 0 = Len(vals) - 0 + 1
        BY <2>2, <4>2, SeqAppend
      <4> QED BY <4>1, <4>3
    <3>2. CASE Task.do = "Meet"
      <4>1. Uses(Nodes, Task, 2, 1, 0, 0)
        BY <2>1, <3>2, TaskUses DEF Nodes
      <4>2. PICK type : vals' = Append(Popped(2), type)
        BY <2>1, <3>2
      <4>3. 2 <= Len(vals)
        BY <2>1, <4>1, TaskReady DEF Uses
      <4>4. IsSeq(Popped(2)) /\ Len(Popped(2)) = Len(vals) - 2
        BY <1>0, <2>2, <4>3, SeqPopped DEF Popped
      <4>5. IsSeq(vals') /\ Len(vals') + 0 = Len(vals) - 2 + 1
        BY <2>2, <4>2, <4>4, SeqAppend
      <4> QED BY <4>1, <4>5
    <3> QED BY <2>1, <3>1, <3>2
  <2>5. takes \in Nat /\ Len(verdicts') + 0 = Len(verdicts) - 0 + 0
    BY <2>2, <2>3, <2>4
  <2> QED BY <1>0, <2>1, <2>2, <2>3, <2>4, <2>5, StepNet DEF Nodes
<1>2. CASE StepUnify \/ StepDrop \/ StepDiscard
  <2>1. /\ todo # <<>> /\ Task.do \in {"Unify", "Drop", "Discard"}
        /\ \E codes : Reduce(1, <<>>, codes)
    BY <1>2 DEF StepUnify, StepDrop, StepDiscard, At
  <2>2. Uses(Nodes, Task, 1, 0, 0, 0)
    BY <2>1, TaskUses DEF Nodes
  <2> QED BY <1>0, <2>1, <2>2, ReduceStep
<1>3. CASE StepAssign
  <2>1. todo # <<>> /\ Task.do = "Assign" /\ \E codes : Reduce(2, <<>>, codes)
    BY <1>3 DEF StepAssign, At
  <2>2. Uses(Nodes, Task, 2, 0, 0, 0)
    BY <2>1, TaskUses DEF Nodes
  <2> QED BY <1>0, <2>1, <2>2, ReduceStep
<1>4. CASE StepJoin \/ CheckNoElse
  <2>1. /\ todo # <<>> /\ Task.do \in {"Join", "NoElse"}
        /\ \E exp, type, codes : Reduce(1, <<Yield(exp, type)>>, codes)
    BY <1>4 DEF StepJoin, CheckNoElse, At
  <2>2. Uses(Nodes, Task, 1, 1, 0, 0)
    BY <2>1, TaskUses DEF Nodes
  <2> QED BY <1>0, <2>1, <2>2, YieldNet, ReduceStep
<1>5. CASE CheckExhaustive
  <2>1. todo # <<>> /\ Task.do = "Exhaustive" /\ \E codes : Expand(<<>>, codes)
    BY <1>5 DEF CheckExhaustive, At
  <2>2. Uses(Nodes, Task, 0, 0, 0, 0)
    BY <2>1, TaskUses DEF Nodes
  <2> QED BY <1>0, <2>1, <2>2, ExpandStep
<1> QED BY <1>1, <1>2, <1>3, <1>4, <1>5

\* A pattern bound, and its verdict used.
LEMMA BoundNet ==
    ASSUME NEW X, NEW q \in Patterns, NEW type, NEW must
    PROVE  Net(X, <<Bind(q, type), Irrefutable(must)>>, 0, 0)
<1>1. Net(X, <<Bind(q, type)>>, 0, 1)
  BY BindUses, Net1
<1>2. 0 <= 0 /\ 1 <= 1 /\ 0 = 0 - 0 + 0 /\ 0 = 1 - 1 + 0
  OBVIOUS
<1> QED BY <1>1, <1>2, IrrefutableUses, Net2

\* Two tasks with a level between them.
LEMMA RunsTwo ==
    ASSUME NEW X, NEW a, NEW t, NEW x, NEW m, NEW y, Step(X, a, x, m), Step(X, t, m, y)
    PROVE  Runs(X, <<a, t>>, x, y)
<1>1. Runs(X, <<a>>, x, m) /\ Runs(X, <<t>>, m, y)
  BY RunsOne
<1>2. Runs(X, <<a>> \o <<t>>, x, y)
  BY <1>1, RunsCat
<1> QED BY <1>2, SeqPair

-----------------------------------------------------------------------------
(***************************************************************************)
(* Statements and places.                                                  *)
(***************************************************************************)
\* The type of the place waits under that of the value.
LEMMA ValueCounts ==
    ASSUME Counts, StepValue
    PROVE  Counts'
<1> DEFINE X == Nodes
           e == Expr(Task.node.value, Val(0))
           t == With("Assign", Task.node, 0)
<1>1. /\ todo # <<>> /\ Task.do = "Value" /\ Expand(<<e, t>>, {})
  BY DEF StepValue, At
<1>2. Task.node \in StmtNode(Nodes) /\ Task.node.kind = "Reassign"
  BY <1>1, NodeReady DEF TaskFits
<1>3. Uses(X, e, 0, 1, 0, 0) /\ Uses(X, t, 2, 0, 0, 0)
  BY <1>2, StmtParts, ExprUses, AssignUses
<1>4. Uses(X, Task, 1, 0, 0, 0)
  BY <1>1, TaskUses DEF Nodes
<1> HIDE DEF e, t
<1>5. Here \in Level
  BY HereLevel
<1>6. /\ Do(<<e, t>>) /\ items' = items /\ at' = at /\ scopes' = scopes /\ loop_depth' = loop_depth
      /\ vals' = vals /\ verdicts' = verdicts /\ in_fn' = in_fn
  BY <1>1 DEF Expand, item_vars, scope_vars
<1>7. Here' = Here
  BY <1>6 DEF Here
<1>8. IsSeq(scopes') /\ loop_depth' \in Nat /\ IsSeq(vals') /\ IsSeq(verdicts')
  BY <1>6 DEF Counts
<1>9. ASSUME NEW y \in Level, Step(X, Task, Here, y) PROVE Runs(X, <<e, t>>, Here, y)
  <2> DEFINE x == Here
             m == Moved(x, 1, 0)
  <2>1. x \in Level /\ x.s \in Nat /\ x.l \in Nat /\ x.v \in Nat /\ x.w \in Nat
    BY <1>5, LevelNat
  <2> HIDE DEF x
  <2>2. Above(x, m, 1, 0) /\ m \in Level
    BY <2>1, MovedAbove
  <2> HIDE DEF m
  <2>3. y.s = x.s /\ y.l = x.l /\ y.f = x.f /\ 1 <= x.v /\ y.v = x.v - 1 + 0 /\ y.w = x.w - 0 + 0
    BY <1>4, <1>9, <2>1 DEF Step, Uses, x
  <2>4. Step(X, e, x, m)
    BY <1>3, <2>2, UsesAbove
  <2>5. /\ y.s = m.s /\ y.l = m.l /\ y.f = m.f /\ 2 <= m.v /\ 0 <= m.w
        /\ y.v = m.v - 2 + 0 /\ y.w = m.w - 0 + 0
    BY <2>1, <2>2, <2>3 DEF Above
  <2>6. Step(X, t, m, y)
    BY <1>3, <2>2, <2>5, UsesSteps
  <2> QED BY <2>4, <2>6, RunsTwo DEF x
<1> QED BY <1>1, <1>6, <1>7, <1>8, <1>9, StepRuns DEF Nodes

\* Statements and places.
LEMMA StmtCounts ==
    ASSUME Counts, CheckDecl \/ StepDeclared \/ CheckReassign \/ CheckExprStmt
    PROVE  Counts'
<1>0. 0 \in Nat /\ 1 \in Nat
  OBVIOUS
<1>1. ASSUME todo # <<>>, Task.do = "Stmt"
      PROVE  Task.s \in StmtNode(Nodes) /\ Uses(Nodes, Task, 0, 0, 0, 0)
  BY <1>1, NodeReady, TaskUses DEF TaskFits, Nodes
<1>2. CASE CheckDecl
  <2>1. /\ todo # <<>> /\ Task.do = "Stmt" /\ Task.s.kind = "Decl"
        /\ UNCHANGED <<item_vars, scope_vars, vals, verdicts>>
        /\ \E exp, type : Do(<<Expr(Task.s.init, exp), With("Declared", Task.s, type)>>)
    BY <1>2 DEF CheckDecl, AtStmt, At
  <2>2. Task.s \in StmtNode(Nodes) /\ Task.s.init \in Nodes
    BY <1>1, <2>1, StmtParts
  <2>3. \A exp, type : Net(Nodes, <<Expr(Task.s.init, exp), With("Declared", Task.s, type)>>, 0, 0)
    BY <2>1, <2>2, CheckedNet, DeclaredUses
  <2> QED BY <1>0, <1>1, <2>1, <2>3, StepSame
<1>3. CASE StepDeclared
  <2>1. /\ todo # <<>> /\ Task.do = "Declared"
        /\ \E type, codes : Reduce(1, <<Bind(Task.node.pattern, type), Irrefutable(TRUE)>>, codes)
    BY <1>3 DEF StepDeclared, At
  <2>2. Task.node \in StmtNode(Nodes) /\ Task.node.kind = "Decl"
    BY <2>1, NodeReady DEF TaskFits
  <2>3. Task.node.pattern \in Patterns
    BY <2>2, StmtParts
  <2>4. Uses(Nodes, Task, 1, 0, 0, 0)
    BY <2>1, TaskUses DEF Nodes
  <2> QED BY <1>0, <2>1, <2>3, <2>4, BoundNet, ReduceStep
<1>4. CASE CheckReassign
  <2>1. /\ todo # <<>> /\ Task.do = "Stmt" /\ Task.s.kind = "Reassign"
        /\ Expand(<<Place(Task.s.place), With("Value", Task.s, 0)>>, {})
    BY <1>4 DEF CheckReassign, AtStmt, At
  <2>2. Task.s \in StmtNode(Nodes) /\ Task.s.place \in Nodes
    BY <1>1, <2>1, StmtParts
  <2>3. Net(Nodes, <<Place(Task.s.place)>>, 1, 0)
    BY <2>2, PlaceUses, Net1
  <2>4. 1 <= 1 /\ 0 <= 0 /\ 0 = 1 - 1 + 0 /\ 0 = 0 - 0 + 0
    OBVIOUS
  <2>5. Net(Nodes, <<Place(Task.s.place), With("Value", Task.s, 0)>>, 0, 0)
    BY <2>1, <2>2, <2>3, <2>4, ValueUses, Net2
  <2> QED BY <1>0, <1>1, <2>1, <2>5, ExpandStep
<1>5. CASE CheckExprStmt
  <2>1. /\ todo # <<>> /\ Task.do = "Stmt" /\ Task.s.kind = "Expr"
        /\ Expand(<<Expr(Task.s.value, 0), With("Discard", Task.s, 0)>>, {})
    BY <1>5 DEF CheckExprStmt, AtStmt, At
  <2>2. Task.s.value \in Nodes
    BY <1>1, <2>1, StmtParts
  <2>3. Net(Nodes, <<Expr(Task.s.value, 0), With("Discard", Task.s, 0)>>, 0, 0)
    BY <2>2, CheckedNet, DiscardUses
  <2> QED BY <1>0, <1>1, <2>1, <2>3, ExpandStep
<1> QED BY <1>2, <1>3, <1>4, <1>5

\* check_place: a place is checked like an expression.
LEMMA PlaceCounts ==
    ASSUME Counts, PlacePath \/ PlaceInner \/ PlaceOuter \/ PlaceOther
    PROVE  Counts'
<1>0. 0 \in Nat /\ 1 \in Nat
  OBVIOUS
<1>1. CASE PlacePath
  <2>1. /\ todo # <<>> /\ Task.do = "Place"
        /\ \/ Fail("UnknownValue")
           \/ \E type, codes : Expand(<<Give(type)>>, codes)
    BY <1>1 DEF PlacePath, AtPlace, At
  <2> QED BY <2>1, FailDone, GiveNet, ExprDone
<1>2. CASE PlaceInner
  <2>1. /\ todo # <<>> /\ Task.do = "Place" /\ E.kind \in {"Field", "Index"}
        /\ Expand(<<Place(E.inner), PlaceOf(E)>>, {})
    BY <1>2 DEF PlaceInner, AtPlace, At
  <2>2. E \in Nodes /\ E.inner \in Nodes
    BY <2>1, NodeReady, ExprParts
  <2>3. Net(Nodes, <<Place(E.inner)>>, 1, 0)
    BY <2>2, PlaceUses, Net1
  <2>4. 1 <= 1 /\ 0 <= 0 /\ 1 = 1 - 1 + 1 /\ 0 = 0 - 0 + 0
    OBVIOUS
  <2>5. Net(Nodes, <<Place(E.inner), PlaceOf(E)>>, 1, 0)
    BY <2>2, <2>3, <2>4, PlaceOfUses, Net2
  <2> QED BY <2>1, <2>5, ExprDone
<1>3. CASE PlaceOuter
  <2>1. /\ todo # <<>> /\ Task.do = "PlaceOf"
        /\ \/ Reduce(1, <<Give(ErrorType)>>, {})
           \/ Reduce(1, <<Expr(E, 0)>>, {})
    BY <1>3 DEF PlaceOuter, At
  <2>2. E \in Nodes
    BY <2>1, NodeReady
  <2>3. Uses(Nodes, Task, 1, 1, 0, 0)
    BY <2>1, TaskUses DEF Nodes
  <2> QED BY <1>0, <2>1, <2>2, <2>3, GiveNet, ExprNet, ReduceStep
<1>4. CASE PlaceOther
  BY <1>4, FailDone DEF PlaceOther, At
<1> QED BY <1>1, <1>2, <1>3, <1>4

\* A pattern to bind is of the program, and leaves a verdict.
LEMMA BindReady ==
    ASSUME Counts, todo # <<>>, Task.do = "Bind"
    PROVE  Uses(Nodes, Task, 0, 0, 0, 1) /\ Q \in Patterns
BY NodeReady, TaskUses DEF TaskFits, Nodes, Q

\* A step that leaves a verdict of its own.
LEMMA StepJudges ==
    ASSUME Counts, todo # <<>>, NEW tasks, Do(tasks), items' = items, at' = at, in_fn' = in_fn,
           loop_depth' = loop_depth, vals' = vals, IsSeq(scopes'), Len(scopes') = Len(scopes),
           NEW refutable, verdicts' = Append(verdicts, refutable),
           Uses(Nodes, Task, 0, 0, 0, 1), Net(Nodes, tasks, 0, 0)
    PROVE  Counts'
<1>1. /\ IsSeq(vals) /\ IsSeq(verdicts) /\ Len(vals) \in Nat /\ Len(verdicts) \in Nat
  BY SeqFacts DEF Counts
<1>2. IsSeq(vals') /\ IsSeq(verdicts') /\ Len(verdicts') = Len(verdicts) + 1
  BY <1>1, SeqAppend
<1>3. /\ Len(vals') + 0 = Len(vals) - 0 + 0 /\ Len(verdicts') + 0 = Len(verdicts) - 0 + 1
  BY <1>1, <1>2
<1>4. 0 \in Nat /\ 1 \in Nat
  OBVIOUS
<1> QED BY <1>2, <1>3, <1>4, StepNet DEF Nodes

\* A pattern judged at once.
LEMMA JudgeStep ==
    ASSUME Counts, todo # <<>>, Task.do = "Bind", NEW refutable, NEW tasks, NEW codes,
           Judge(refutable, tasks, codes), Net(Nodes, tasks, 0, 0)
    PROVE  Counts'
<1>1. /\ Do(tasks) /\ items' = items /\ at' = at /\ in_fn' = in_fn /\ scopes' = scopes
      /\ loop_depth' = loop_depth /\ vals' = vals /\ verdicts' = Append(verdicts, refutable)
  BY DEF Judge, item_vars, scope_vars
<1>2. IsSeq(scopes') /\ Len(scopes') = Len(scopes)
  BY <1>1 DEF Counts
<1> QED BY <1>1, <1>2, BindReady, StepJudges

\* A pattern that does not fit: its names are of the error type.
LEMMA MisfitStep ==
    ASSUME Counts, todo # <<>>, Task.do = "Bind", NEW refutable, NEW codes, Misfit(refutable, codes)
    PROVE  Counts'
<1>1. Net(Nodes, <<BindError(Q)>>, 0, 0)
  <2>1. Uses(Nodes, BindError(Q), 0, 0, 0, 0) /\ 0 \in Nat
    BY BindReady, BindErrorUses
  <2> QED BY <2>1, Net1
<1> QED BY <1>1, JudgeStep DEF Misfit

\* A pattern bound by its parts, whose verdicts are taken together.
LEMMA BindDone ==
    ASSUME Counts, todo # <<>>, Task.do = "Bind", NEW tasks, NEW codes, Expand(tasks, codes),
           Net(Nodes, tasks, 0, 1)
    PROVE  Counts'
<1>1. 0 \in Nat /\ 1 \in Nat
  OBVIOUS
<1> QED BY <1>1, BindReady, ExpandStep

-----------------------------------------------------------------------------
(***************************************************************************)
(* Patterns.                                                               *)
(***************************************************************************)
\* The parts of a pattern leave a verdict each, which the last task takes together.
LEMMA PartsNet ==
    ASSUME Q \in Patterns, Q.kind \in {"Tuple", "Struct", "Ref", "Or"}, NEW types, NEW all
    PROVE  Net(Nodes, Parts(types) \o <<Verdict(Len(Q.parts), all)>>, 0, 1)
<1> DEFINE n == Len(Q.parts)
           ts == Parts(types)
<1>1. IsSeq(Q.parts) /\ n \in Nat /\ \A k \in 1 .. n : Q.parts[k] \in Patterns
  BY PatternParts, SeqOfSeq
<1>2. /\ ts = [k \in DOMAIN Q.parts |-> ts[k]]
      /\ \A k \in 1 .. n : ts[k] = Bind(Q.parts[k], types[k])
  BY <1>1, SeqFacts DEF Parts
<1> HIDE DEF ts
<1>3. IsSeq(ts) /\ Len(ts) = n
  BY <1>1, <1>2, SeqOver
<1>4. \A k \in 1 .. n : Uses(Nodes, ts[k], 0, 0, 0, 1)
  BY <1>1, <1>2, BindUses
<1> HIDE DEF n
<1>5. Net(Nodes, ts, n * 0, n * 1)
  BY <1>1, <1>3, <1>4, NetEach
<1>6. n * 0 = 0 /\ n * 1 = n /\ 0 <= 0 /\ n <= n /\ 0 = 0 - 0 + 0 /\ 1 = n - n + 1
  BY <1>1
<1>7. Uses(Nodes, Verdict(n, all), 0, 0, n, 1)
  BY <1>1, VerdictUses
<1>8. Net(Nodes, ts \o <<Verdict(n, all)>>, 0, 1)
  BY <1>1, <1>5, <1>6, <1>7, NetThen
<1> QED BY <1>8 DEF n, ts

\* Of a struct pattern only the known fields leave a verdict.
LEMMA FieldsNet ==
    ASSUME Q \in Patterns, Q.kind = "Struct", NEW known, known \subseteq DOMAIN Q.parts, NEW ts,
           ts = [k \in DOMAIN Q.parts |-> ts[k]],
           \A k \in DOMAIN Q.parts : \/ k \in known /\ \E type : ts[k] = Bind(Q.parts[k], type)
                                     \/ k \notin known /\ ts[k] = BindError(Q.parts[k])
    PROVE  Net(Nodes, ts \o <<Verdict(Cardinality(known), FALSE)>>, 0, 1)
<1> DEFINE n == Len(Q.parts)
           c == [k \in 1 .. n + 1 |-> 0]
           below(k) == known \cap (1 .. k - 1)
           d == [k \in 1 .. n + 1 |-> Cardinality(below(k))]
<1>1. /\ IsSeq(Q.parts) /\ n \in Nat /\ DOMAIN Q.parts = 1 .. n
      /\ \A k \in 1 .. n : Q.parts[k] \in Patterns
  BY PatternParts, SeqOfSeq, SeqFacts
<1>2. IsSeq(ts) /\ Len(ts) = n
  BY <1>1, SeqOver
<1> HIDE DEF n
<1>3. ASSUME NEW k \in 1 .. n + 1
      PROVE  IsFiniteSet(below(k)) /\ Cardinality(below(k)) \in Nat
  <2>1. IsFiniteSet(1 .. k - 1)
    <3>1. 1 \in Int /\ k - 1 \in Int
      BY <1>1
    <3> QED BY <3>1, FS_Interval
  <2>2. IsFiniteSet(below(k))
    BY <2>1, FS_Subset
  <2> QED BY <2>2, FS_CardinalityType
<1>4. ASSUME NEW k \in 1 .. n
      PROVE  Cardinality(below(k + 1)) = Cardinality(below(k)) + IF k \in known THEN 1 ELSE 0
  <2>1. CASE k \in known
    <3>1. below(k + 1) = below(k) \cup {k} /\ k \notin below(k)
      BY <1>1, <2>1
    <3> HIDE DEF below
    <3>2. k \in 1 .. n + 1
      BY <1>1
    <3>3. IsFiniteSet(below(k))
      BY <1>3, <3>2
    <3> QED BY <2>1, <3>1, <3>3, FS_AddElement
  <2>2. CASE k \notin known
    <3>1. below(k + 1) = below(k)
      BY <1>1, <2>2
    <3> HIDE DEF below
    <3>2. k \in 1 .. n + 1
      BY <1>1
    <3>3. Cardinality(below(k)) \in Nat
      BY <1>3, <3>2
    <3> QED BY <2>2, <3>1, <3>3
  <2> QED BY <2>1, <2>2
<1>5. Tally(n, c) /\ c[n + 1] = 0 /\ \A k \in 1 .. n : c[k + 1] = c[k] + 0
  BY <1>1 DEF Tally
<1>6. Tally(n, d)
  <2>1. below(1) = {} /\ 1 \in 1 .. n + 1
    BY <1>1
  <2> HIDE DEF below
  <2>2. d \in [1 .. n + 1 -> Nat] /\ d[1] = 0
    BY <1>3, <2>1, FS_EmptySet
  <2> QED BY <2>2 DEF Tally
<1>7. d[n + 1] = Cardinality(known) /\ Cardinality(known) \in Nat
  <2>1. below(n + 1) = known /\ n + 1 \in 1 .. n + 1
    BY <1>1
  <2> HIDE DEF below
  <2> QED BY <1>3, <2>1
<1>8. \A k \in 1 .. n : d[k + 1] = d[k] + IF k \in known THEN 1 ELSE 0
  <2> HIDE DEF below
  <2> QED BY <1>1, <1>4
<1> HIDE DEF c, d, below
<1>9. AddsUp(Nodes, ts, n, c, d)
  <2> SUFFICES ASSUME NEW k \in 1 .. n
               PROVE  \E p, q \in Nat : /\ Uses(Nodes, ts[k], 0, p, 0, q)
                                        /\ c[k + 1] = c[k] + p /\ d[k + 1] = d[k] + q
    BY DEF AddsUp
  <2>1. Q.parts[k] \in Patterns
    BY <1>1
  <2>2. CASE k \in known
    <3>1. Uses(Nodes, ts[k], 0, 0, 0, 1)
      BY <1>1, <2>1, <2>2, BindUses
    <3>2. c[k + 1] = c[k] + 0 /\ d[k + 1] = d[k] + 1 /\ 0 \in Nat /\ 1 \in Nat
      BY <1>5, <1>8, <2>2
    <3> QED BY <3>1, <3>2
  <2>3. CASE k \notin known
    <3>1. Uses(Nodes, ts[k], 0, 0, 0, 0)
      BY <1>1, <2>1, <2>3, BindErrorUses
    <3>2. c[k + 1] = c[k] + 0 /\ d[k + 1] = d[k] + 0 /\ 0 \in Nat
      BY <1>5, <1>8, <2>3
    <3> QED BY <3>1, <3>2
  <2> QED BY <2>2, <2>3
<1> DEFINE m == Cardinality(known)
<1>10. Net(Nodes, ts, 0, m)
  <2>1. Net(Nodes, ts, c[n + 1], d[n + 1])
    BY <1>1, <1>2, <1>5, <1>6, <1>9, NetAlong
  <2> QED BY <1>5, <1>7, <2>1
<1>11. m \in Nat
  BY <1>7
<1> HIDE DEF m
<1>12. 0 <= 0 /\ m <= m /\ 0 = 0 - 0 + 0 /\ 1 = m - m + 1 /\ 0 \in Nat /\ 1 \in Nat
  BY <1>11
<1>13. Uses(Nodes, Verdict(m, FALSE), 0, 0, m, 1)
  BY <1>11, VerdictUses
<1>14. Net(Nodes, ts \o <<Verdict(m, FALSE)>>, 0, 1)
  BY <1>10, <1>11, <1>12, <1>13, NetThen
<1> QED BY <1>14 DEF m

\* So do the alternatives of an or-pattern.
LEMMA OrNet ==
    ASSUME Q \in Patterns, Q.kind = "Or", NEW type, NEW ls,
           ls = [k \in 1 .. Len(Q.parts) - 1 |-> <<With("Alternative", Q.parts[k + 1], type)>>]
    PROVE  Net(Nodes, <<Bind(Q.parts[1], type)>> \o FlattenSeq(ls) \o <<Verdict(Len(Q.parts), FALSE)>>,
               0, 1)
<1> DEFINE n == Len(Q.parts) - 1
           F(k) == <<With("Alternative", Q.parts[k + 1], type)>>
           c == [k \in 1 .. n + 1 |-> 0]
           d == [k \in 1 .. n + 1 |-> k - 1]
<1>1. /\ n \in Nat /\ Len(Q.parts) = n + 1
      /\ \A k \in 1 .. n + 1 : Q.parts[k] \in Patterns
  <2>1. Q.parts \in Seq(Patterns) /\ Q.parts # <<>>
    BY PatternParts
  <2>2. Len(Q.parts) \in Nat /\ Len(Q.parts) # 0 /\ \A k \in 1 .. Len(Q.parts) : Q.parts[k] \in Patterns
    BY <2>1
  <2> QED BY <2>2
<1>2. \A k \in 1 .. n : Net(Nodes, F(k), 0, 1)
  <2> SUFFICES ASSUME NEW k \in 1 .. n PROVE Net(Nodes, F(k), 0, 1)
    OBVIOUS
  <2>1. Q.parts[k + 1] \in Patterns /\ 0 \in Nat /\ 1 \in Nat
    BY <1>1
  <2> QED BY <2>1, AlternativeUses, Net1
<1>3. ls = [k \in 1 .. n |-> ls[k]] /\ \A k \in 1 .. n : ls[k] = F(k)
  OBVIOUS
<1> HIDE DEF n, F
<1>4. IsSeq(ls) /\ Len(ls) = n
  <2>1. ls \in [1 .. n -> {ls[k] : k \in 1 .. n}]
    BY <1>3
  <2> QED BY <1>1, <2>1, SeqMade
<1>5. /\ Tally(n, c) /\ Tally(n, d) /\ c[n + 1] = 0 /\ d[n + 1] = n
      /\ \A k \in 1 .. n : c[k + 1] = c[k] + 0 /\ d[k + 1] = d[k] + 1
  BY <1>1 DEF Tally
<1> HIDE DEF c, d
<1>6. AllAddUp(Nodes, ls, n, c, d)
  <2>1. 0 \in Nat /\ 1 \in Nat
    OBVIOUS
  <2> QED BY <1>2, <1>3, <1>5, <2>1 DEF AllAddUp
<1>7. Net(Nodes, FlattenSeq(ls), 0, n)
  <2>1. Net(Nodes, FlattenSeq(ls), c[n + 1], d[n + 1])
    BY <1>1, <1>4, <1>5, <1>6, NetFlatten
  <2> QED BY <1>5, <2>1
<1>8. Net(Nodes, <<Bind(Q.parts[1], type)>>, 0, 1)
  <2>1. Q.parts[1] \in Patterns /\ 0 \in Nat /\ 1 \in Nat
    BY <1>1
  <2> QED BY <2>1, BindUses, Net1
<1> DEFINE m == n + 1
<1>9. Net(Nodes, <<Bind(Q.parts[1], type)>> \o FlattenSeq(ls), 0, m)
  <2>1. 0 + 0 = 0 /\ 1 + n = m /\ 0 \in Nat /\ 1 \in Nat
    BY <1>1
  <2> HIDE DEF m
  <2>2. Net(Nodes, <<Bind(Q.parts[1], type)>> \o FlattenSeq(ls), 0 + 0, 1 + n)
    BY <1>1, <1>7, <1>8, <2>1, NetCat
  <2> QED BY <2>1, <2>2
<1>10. m \in Nat /\ Len(Q.parts) = m
  BY <1>1
<1> HIDE DEF m
<1>11. 0 <= 0 /\ m <= m /\ 0 = 0 - 0 + 0 /\ 1 = m - m + 1 /\ 0 \in Nat /\ 1 \in Nat
  BY <1>10
<1>12. Uses(Nodes, Verdict(m, FALSE), 0, 0, m, 1)
  BY <1>10, VerdictUses
<1>13. Net(Nodes, <<Bind(Q.parts[1], type)>> \o FlattenSeq(ls) \o <<Verdict(m, FALSE)>>, 0, 1)
  BY <1>9, <1>10, <1>11, <1>12, NetThen
<1> QED BY <1>10, <1>13

\* Patterns that are bound at once, or not at all.
LEMMA BindLeafCounts ==
    ASSUME Counts, \/ BindWildcard \/ BindIdent \/ BindLiteral \/ BindUnknownVariant \/ BindNoTuple
    PROVE  Counts'
<1>1. todo # <<>> /\ Task.do = "Bind"
  BY DEF BindWildcard, BindIdent, BindLiteral, BindUnknownVariant, BindNoTuple, AtBind, At
<1>2. Net(Nodes, <<>>, 0, 0)
  BY NetNil
<1>3. CASE BindWildcard
  BY <1>1, <1>2, <1>3, JudgeStep DEF BindWildcard
<1>4. CASE BindIdent
  <2>1. /\ Do(<<>>) /\ items' = items /\ at' = at /\ in_fn' = in_fn /\ loop_depth' = loop_depth
        /\ vals' = vals /\ \E list : scopes' = WithLocals(list)
        /\ \E refutable : verdicts' = Append(verdicts, refutable)
    BY <1>4 DEF BindIdent, item_vars
  <2>2. IsSeq(scopes') /\ Len(scopes') = Len(scopes)
    <3>1. PICK list : scopes' = WithLocals(list)
      BY <2>1
    <3>2. IsSeq(scopes)
      BY DEF Counts
    <3> QED BY <3>1, <3>2, SeqExcept DEF WithLocals
  <2> QED BY <1>1, <1>2, <2>1, <2>2, BindReady, StepJudges
<1>5. CASE BindLiteral
  <2>1. \E codes : Judge(TRUE, <<LiteralTask(Q.lit, Task.type), Drop>>, codes)
    BY <1>5 DEF BindLiteral
  <2>2. Uses(Nodes, LiteralTask(Q.lit, Task.type), 0, 1, 0, 0)
    BY GiveUses, YieldUses DEF LiteralTask
  <2>3. 0 \in Nat /\ 1 \in Nat /\ 1 <= 1 /\ 0 <= 0 /\ 0 = 1 - 1 + 0 /\ 0 = 0 - 0 + 0
    OBVIOUS
  <2>4. Net(Nodes, <<LiteralTask(Q.lit, Task.type)>>, 1, 0)
    BY <2>2, <2>3, Net1
  <2>5. Net(Nodes, <<LiteralTask(Q.lit, Task.type), Drop>>, 0, 0)
    BY <2>3, <2>4, DropUses, Net2
  <2> QED BY <1>1, <2>1, <2>5, JudgeStep
<1>6. CASE BindUnknownVariant
  BY <1>1, <1>6, MisfitStep DEF BindUnknownVariant
<1>7. CASE BindNoTuple
  <2>1. /\ Do(<<BindError(Q)>>) /\ items' = items /\ at' = at /\ in_fn' = in_fn /\ loop_depth' = loop_depth
        /\ vals' = vals /\ scopes' = scopes /\ verdicts' = Append(verdicts, FALSE)
    BY <1>7 DEF BindNoTuple, item_vars, scope_vars
  <2>2. IsSeq(scopes') /\ Len(scopes') = Len(scopes)
    BY <2>1 DEF Counts
  <2>3. Net(Nodes, <<BindError(Q)>>, 0, 0)
    <3>1. 0 \in Nat
      OBVIOUS
    <3> QED BY <1>1, <3>1, BindReady, BindErrorUses, Net1
  <2> QED BY <1>1, <2>1, <2>2, <2>3, BindReady, StepJudges
<1> QED BY <1>3, <1>4, <1>5, <1>6, <1>7

\* Patterns bound by their parts.
LEMMA BindPartsCounts ==
    ASSUME Counts, BindVariant \/ BindTuple \/ BindStruct \/ BindRef \/ BindOr
    PROVE  Counts'
<1>1. todo # <<>> /\ Task.do = "Bind"
  BY DEF BindVariant, BindTuple, BindStruct, BindRef, BindOr, AtBind, At
<1>2. Q \in Patterns /\ Uses(Nodes, Task, 0, 0, 0, 1)
  BY <1>1, BindReady
<1>3. 0 \in Nat /\ 1 \in Nat
  OBVIOUS
<1>4. CASE BindVariant
  <2>1. /\ Q.kind = "Tuple" /\ items' = items /\ at' = at /\ in_fn' = in_fn /\ loop_depth' = loop_depth
        /\ vals' = vals /\ scopes' = scopes
        /\ \/ /\ \E types : Do(Parts(types) \o <<Verdict(Len(Q.parts), TRUE)>>)
              /\ verdicts' = verdicts
           \/ Do(<<BindError(Q)>>) /\ verdicts' = Append(verdicts, TRUE)
    BY <1>4 DEF BindVariant, AtBind, item_vars, scope_vars
  <2>2. CASE Do(<<BindError(Q)>>) /\ verdicts' = Append(verdicts, TRUE)
    <3>1. Net(Nodes, <<BindError(Q)>>, 0, 0)
      BY <1>2, <1>3, BindErrorUses, Net1
    <3>2. IsSeq(scopes') /\ Len(scopes') = Len(scopes)
      BY <2>1 DEF Counts
    <3> QED BY <1>1, <1>2, <2>1, <2>2, <3>1, <3>2, StepJudges
  <2>3. CASE /\ \E types : Do(Parts(types) \o <<Verdict(Len(Q.parts), TRUE)>>)
             /\ verdicts' = verdicts
    <3>1. PICK types : Do(Parts(types) \o <<Verdict(Len(Q.parts), TRUE)>>)
      BY <2>3
    <3>2. Net(Nodes, Parts(types) \o <<Verdict(Len(Q.parts), TRUE)>>, 0, 1)
      BY <1>2, <2>1, PartsNet
    <3>3. IsSeq(scopes) /\ IsSeq(vals) /\ IsSeq(verdicts) /\ Len(vals) \in Nat /\ Len(verdicts) \in Nat
      BY SeqFacts DEF Counts
    <3>4. /\ IsSeq(scopes') /\ Len(scopes') = Len(scopes) /\ IsSeq(vals') /\ IsSeq(verdicts')
          /\ Len(vals') + 0 = Len(vals) - 0 + 0 /\ Len(verdicts') + 1 = Len(verdicts) - 0 + 1
      BY <2>1, <2>3, <3>3
    <3> QED BY <1>1, <1>2, <1>3, <2>1, <3>1, <3>2, <3>4, StepNet DEF Nodes
  <2> QED BY <2>1, <2>2, <2>3
<1>5. CASE BindTuple
  <2>1. /\ Q.kind = "Tuple"
        /\ \/ Misfit(FALSE, {"ArityError"})
           \/ \E types : Expand(Parts(types) \o <<Verdict(Len(Q.parts), FALSE)>>, {})
    BY <1>5 DEF BindTuple, AtBind
  <2>2. \A types : Net(Nodes, Parts(types) \o <<Verdict(Len(Q.parts), FALSE)>>, 0, 1)
    BY <1>2, <2>1, PartsNet
  <2> QED BY <1>1, <2>1, <2>2, MisfitStep, BindDone
<1>6. CASE BindStruct
  <2> DEFINE type    == Env.nominals[Lowest(StructsNamed(Q.path))].type
             slot(k) == FieldSlot(type, Q.names[k])
             known   == {k \in DOMAIN Q.parts : slot(k) # 0}
             ts == [k \in DOMAIN Q.parts |->
                       IF k \in known THEN Bind(Q.parts[k], slot(k)) ELSE BindError(Q.parts[k])]
  <2>1. /\ Q.kind = "Struct"
        /\ \/ Misfit(FALSE, {"UnknownValue"})
           \/ \E codes : Expand(ts \o <<Verdict(Cardinality(known), FALSE)>>, codes)
    BY <1>6 DEF BindStruct, AtBind
  <2>2. known \subseteq DOMAIN Q.parts
    OBVIOUS
  <2> HIDE DEF known
  <2>3. \A k \in DOMAIN Q.parts : \/ k \in known /\ \E ty : ts[k] = Bind(Q.parts[k], ty)
                                  \/ k \notin known /\ ts[k] = BindError(Q.parts[k])
    OBVIOUS
  <2>4. ts = [k \in DOMAIN Q.parts |-> ts[k]]
    OBVIOUS
  <2> HIDE DEF ts
  <2>5. Net(Nodes, ts \o <<Verdict(Cardinality(known), FALSE)>>, 0, 1)
    BY <1>2, <2>1, <2>2, <2>3, <2>4, FieldsNet
  <2> QED BY <1>1, <2>1, <2>5, MisfitStep, BindDone
<1>7. CASE BindRef
  <2>1. /\ Q.kind = "Ref"
        /\ \/ Misfit(FALSE, {"TypeMismatch"})
           \/ \E type : Expand(<<Bind(Q.parts[1], type)>>, {})
    BY <1>7 DEF BindRef, AtBind
  <2>2. Q.parts[1] \in Patterns
    <3>1. Q.parts \in Seq(Patterns) /\ Q.parts # <<>>
      BY <1>2, <2>1, PatternParts
    <3> QED BY <3>1
  <2>3. \A type : Net(Nodes, <<Bind(Q.parts[1], type)>>, 0, 1)
    BY <1>3, <2>2, BindUses, Net1
  <2> QED BY <1>1, <2>1, <2>3, MisfitStep, BindDone
<1>8. CASE BindOr
  <2> DEFINE ls == [k \in 1 .. Len(Q.parts) - 1 |-> <<With("Alternative", Q.parts[k + 1], Task.type)>>]
             ts == <<Bind(Q.parts[1], Task.type)>> \o FlattenSeq(ls) \o <<Verdict(Len(Q.parts), FALSE)>>
  <2>1. Q.kind = "Or" /\ Expand(ts, {})
    BY <1>8 DEF BindOr, AtBind
  <2>2. Net(Nodes, ts, 0, 1)
    BY <1>2, <2>1, OrNet
  <2> HIDE DEF ts
  <2> QED BY <1>1, <2>1, <2>2, BindDone
<1> QED BY <1>4, <1>5, <1>6, <1>7, <1>8

\* The names and the verdicts that the parts of a pattern leave.
LEMMA VerdictCounts ==
    ASSUME Counts, \/ StepAlternative \/ StepEndAlternative \/ StepBindError \/ StepVerdict
                   \/ StepIrrefutable
    PROVE  Counts'
<1>0. 0 \in Nat /\ 1 \in Nat /\ Net(Nodes, <<>>, 0, 0)
  BY NetNil
<1>1. /\ IsSeq(scopes) /\ IsSeq(vals) /\ IsSeq(verdicts)
      /\ Len(vals) \in Nat /\ Len(verdicts) \in Nat
  BY SeqFacts DEF Counts
<1>2. CASE StepAlternative
  <2> DEFINE t == With("EndAlternative", Task.node, Len(Last(scopes)))
  <2>1. todo # <<>> /\ Task.do = "Alternative" /\ Expand(<<Bind(Task.node, Task.type), t>>, {})
    BY <1>2 DEF StepAlternative, At
  <2>2. Task.node \in Patterns
    BY <2>1, NodeReady DEF TaskFits
  <2>3. Net(Nodes, <<Bind(Task.node, Task.type)>>, 0, 1)
    BY <1>0, <2>2, BindUses, Net1
  <2>4. Uses(Nodes, t, 0, 0, 0, 0)
    BY NothingUses
  <2>5. 0 <= 0 /\ 0 <= 1 /\ 0 = 0 - 0 + 0 /\ 1 = 1 - 0 + 0
    OBVIOUS
  <2> HIDE DEF t
  <2>6. Net(Nodes, <<Bind(Task.node, Task.type), t>>, 0, 1)
    BY <1>0, <2>3, <2>4, <2>5, Net2
  <2>7. Uses(Nodes, Task, 0, 0, 0, 1)
    BY <2>1, TaskUses DEF Nodes
  <2> QED BY <1>0, <2>1, <2>6, <2>7, ExpandStep
<1>3. CASE StepEndAlternative \/ StepBindError
  <2>1. /\ todo # <<>> /\ Task.do \in {"EndAlternative", "BindError"}
        /\ Do(<<>>) /\ items' = items /\ at' = at /\ in_fn' = in_fn /\ loop_depth' = loop_depth
        /\ vals' = vals /\ verdicts' = verdicts
        /\ \E list : scopes' = [scopes EXCEPT ![Len(scopes)] = list]
    BY <1>3 DEF StepEndAlternative, StepBindError, WithLocals, At, item_vars
  <2>2. IsSeq(scopes') /\ Len(scopes') = Len(scopes)
    <3>1. PICK list : scopes' = [scopes EXCEPT ![Len(scopes)] = list]
      BY <2>1
    <3> QED BY <1>1, <3>1, SeqExcept
  <2>3. Uses(Nodes, Task, 0, 0, 0, 0)
    BY <2>1, TaskUses DEF Nodes
  <2>4. /\ IsSeq(vals') /\ IsSeq(verdicts')
        /\ Len(vals') + 0 = Len(vals) - 0 + 0 /\ Len(verdicts') + 0 = Len(verdicts) - 0 + 0
    BY <1>1, <2>1
  <2> QED BY <1>0, <2>1, <2>2, <2>3, <2>4, StepNet DEF Nodes
<1>4. CASE StepVerdict
  <2> DEFINE n == Task.n
  <2>1. /\ todo # <<>> /\ Task.do = "Verdict"
        /\ Do(<<>>) /\ items' = items /\ at' = at /\ in_fn' = in_fn /\ scopes' = scopes
        /\ loop_depth' = loop_depth /\ vals' = vals
        /\ \E v : verdicts' = Append(SubSeq(verdicts, 1, Len(verdicts) - n), v)
    BY <1>4 DEF StepVerdict, At, item_vars, scope_vars
  <2>2. n \in Nat /\ Uses(Nodes, Task, 0, 0, n, 1)
    BY <2>1, NodeReady, TaskUses DEF TaskFits, Nodes
  <2>3. n <= Len(verdicts)
    BY <2>1, <2>2, TaskReady DEF Uses
  <2> HIDE DEF n
  <2>4. /\ IsSeq(SubSeq(verdicts, 1, Len(verdicts) - n))
        /\ Len(SubSeq(verdicts, 1, Len(verdicts) - n)) = Len(verdicts) - n
    BY <1>1, <2>2, <2>3, SeqPopped
  <2>5. IsSeq(verdicts') /\ Len(verdicts') = Len(verdicts) - n + 1
    BY <2>1, <2>4, SeqAppend
  <2>6. /\ IsSeq(scopes') /\ Len(scopes') = Len(scopes) /\ IsSeq(vals')
        /\ Len(vals') + 0 = Len(vals) - 0 + 0 /\ Len(verdicts') + 0 = Len(verdicts) - n + 1
    BY <1>1, <2>1, <2>2, <2>5
  <2> QED BY <1>0, <2>1, <2>2, <2>5, <2>6, StepNet DEF Nodes
<1>5. CASE StepIrrefutable
  <2>1. /\ todo # <<>> /\ Task.do = "Irrefutable"
        /\ Do(<<>>) /\ items' = items /\ at' = at /\ in_fn' = in_fn /\ scopes' = scopes
        /\ loop_depth' = loop_depth /\ vals' = vals
        /\ verdicts' = SubSeq(verdicts, 1, Len(verdicts) - 1)
    BY <1>5 DEF StepIrrefutable, Front, At, item_vars, scope_vars
  <2>2. Uses(Nodes, Task, 0, 0, 1, 0)
    BY <2>1, TaskUses DEF Nodes
  <2>3. 1 <= Len(verdicts)
    BY <2>1, <2>2, TaskReady DEF Uses
  <2>4. IsSeq(verdicts') /\ Len(verdicts') = Len(verdicts) - 1
    BY <1>0, <1>1, <2>1, <2>3, SeqPopped
  <2>5. /\ IsSeq(scopes') /\ Len(scopes') = Len(scopes) /\ IsSeq(vals')
        /\ Len(vals') + 0 = Len(vals) - 0 + 0 /\ Len(verdicts') + 0 = Len(verdicts) - 1 + 0
    BY <1>1, <2>1, <2>4
  <2> QED BY <1>0, <2>1, <2>2, <2>4, <2>5, StepNet DEF Nodes
<1> QED BY <1>2, <1>3, <1>4, <1>5

\* The parameters of a function, and the signature of main.
LEMMA SignatureCounts ==
    ASSUME Counts, StepParam \/ StepMain
    PROVE  Counts'
<1>0. 0 \in Nat
  OBVIOUS
<1>1. /\ todo # <<>> /\ Task.do \in {"Param", "Main"}
      /\ UNCHANGED <<item_vars, scope_vars, vals, verdicts>>
      /\ \/ /\ Task.do = "Param"
            /\ \E type : Do(<<Bind(Task.node.pattern, type), Irrefutable(TRUE)>>)
         \/ Do(<<>>)
  BY DEF StepParam, StepMain, At
<1>2. Uses(Nodes, Task, 0, 0, 0, 0)
  BY <1>1, TaskUses DEF Nodes
<1>3. Task.do = "Param" => Task.node.pattern \in Patterns
  BY <1>1, NodeReady DEF TaskFits, ParamNode
<1> QED BY <1>0, <1>1, <1>2, <1>3, NetNil, BoundNet, StepSame

-----------------------------------------------------------------------------
(***************************************************************************)
(* Tasks between the opening and the closing of a scope or a loop.         *)
(***************************************************************************)
\* A scope more.
Up(x) == [s |-> x.s + 1, l |-> x.l, v |-> x.v, w |-> x.w, f |-> x.f]
\* The tasks ts open a scope, and add v types and w verdicts.
Opened(X, ts, v, w) == IsSeq(ts) /\ \A x \in Level : Runs(X, ts, x, Moved(Up(x), v, w))

\* A scope more changes nothing else.
LEMMA UpFacts ==
    ASSUME NEW x \in Level
    PROVE  /\ Up(x) \in Level /\ Up(x).s = x.s + 1 /\ Up(x).l = x.l /\ Up(x).v = x.v
           /\ Up(x).w = x.w /\ Up(x).f = x.f
BY DEF Up, Level

\* Push opens a scope.
LEMMA OpenedPush ==
    ASSUME NEW X
    PROVE  Opened(X, <<Push>>, 0, 0)
<1>1. IsSeq(<<Push>>)
  BY SeqPair
<1>2. ASSUME NEW x \in Level PROVE Runs(X, <<Push>>, x, Moved(Up(x), 0, 0))
  <2> DEFINE y == Up(x)
  <2>1. y \in Level /\ y.s = x.s + 1 /\ y.l = x.l /\ y.v = x.v /\ y.w = x.w /\ y.f = x.f
    BY UpFacts
  <2>2. x.l \in Nat /\ x.v \in Nat /\ x.w \in Nat
    BY LevelNat
  <2> HIDE DEF y
  <2>3. Step(X, Push, x, y)
    BY <2>1, <2>2 DEF Step, TaskFits, Opens, Enters, Takes, Gives, Asks, Answers, Push
  <2>4. Moved(y, 0, 0) = y
    BY <2>1, MovedNone
  <2>5. Runs(X, <<Push>>, x, y)
    BY <2>3, RunsOne
  <2> QED BY <2>4, <2>5 DEF y
<1> QED BY <1>1, <1>2 DEF Opened

\* What a list adds inside a scope.
LEMMA OpenedCat ==
    ASSUME NEW X, NEW ts, NEW us, NEW v \in Nat, NEW w \in Nat, NEW g \in Nat, NEW r \in Nat,
           Opened(X, ts, v, w), Net(X, us, g, r)
    PROVE  Opened(X, ts \o us, v + g, w + r)
<1>1. IsSeq(ts \o us)
  BY SeqCat DEF Net, Opened
<1>2. ASSUME NEW x \in Level PROVE Runs(X, ts \o us, x, Moved(Up(x), v + g, w + r))
  <2>1. Up(x) \in Level
    BY UpFacts
  <2>2. Moved(Up(x), v, w) \in Level
    BY <2>1, MovedAbove
  <2>3. Runs(X, ts, x, Moved(Up(x), v, w))
    BY DEF Opened
  <2>4. Runs(X, us, Moved(Up(x), v, w), Moved(Moved(Up(x), v, w), g, r))
    BY <2>2 DEF Net
  <2> QED BY <2>1, <2>3, <2>4, MovedTwice, RunsCat
<1> QED BY <1>1, <1>2 DEF Opened

\* Pop closes the scope.
LEMMA OpenedPop ==
    ASSUME NEW X, NEW ts, NEW v \in Nat, NEW w \in Nat, Opened(X, ts, v, w)
    PROVE  Net(X, ts \o <<Pop>>, v, w)
<1>1. IsSeq(ts \o <<Pop>>)
  BY SeqCat, SeqPair DEF Opened
<1>2. ASSUME NEW x \in Level PROVE Runs(X, ts \o <<Pop>>, x, Moved(x, v, w))
  <2> DEFINE u == Up(x)
             m == Moved(u, v, w)
             y == Moved(x, v, w)
  <2>1. u \in Level /\ u.s = x.s + 1 /\ u.l = x.l /\ u.v = x.v /\ u.w = x.w /\ u.f = x.f
    BY UpFacts
  <2>2. Runs(X, ts, x, m)
    BY DEF Opened
  <2> HIDE DEF u
  <2>3. Above(u, m, v, w) /\ Above(x, y, v, w)
    BY <2>1, MovedAbove
  <2> HIDE DEF m, y
  <2>4. x.s \in Nat /\ x.l \in Nat /\ x.v \in Nat /\ x.w \in Nat
    BY LevelNat
  <2>5. /\ m \in Level /\ y \in Level /\ y.s = m.s - 1 /\ y.l = m.l /\ y.v = m.v /\ y.w = m.w /\ y.f = m.f
    BY <2>1, <2>3, <2>4 DEF Above
  <2>6. m.s \in Nat /\ m.l \in Nat /\ m.v \in Nat /\ m.w \in Nat
    BY <2>5, LevelNat
  <2>7. Step(X, Pop, m, y)
    BY <2>5, <2>6 DEF Step, TaskFits, Opens, Enters, Takes, Gives, Asks, Answers, Pop
  <2>8. Runs(X, <<Pop>>, m, y)
    BY <2>7, RunsOne
  <2> QED BY <2>2, <2>8, RunsCat DEF y
<1> QED BY <1>1, <1>2 DEF Net

\* The scope of a condition, around what it decides.
LEMMA OpenedCond ==
    ASSUME NEW X, NEW e \in X, NEW exp, NEW q \in Patterns
    PROVE  Opened(X, <<Expr(e, exp), With("CondPattern", q, 0)>>, 0, 0)
<1> DEFINE a == Expr(e, exp)
           t == With("CondPattern", q, 0)
<1>1. IsSeq(<<a, t>>)
  BY SeqPair
<1>2. Uses(X, a, 0, 1, 0, 0)
  BY ExprUses
<1>3. TaskFits(X, t) /\ t.do = "CondPattern"
  BY DEF TaskFits, With
<1> HIDE DEF a, t
<1>4. ASSUME NEW x \in Level PROVE Runs(X, <<a, t>>, x, Moved(Up(x), 0, 0))
  <2> DEFINE y == Up(x)
             m == Moved(x, 1, 0)
  <2>1. y \in Level /\ y.s = x.s + 1 /\ y.l = x.l /\ y.v = x.v /\ y.w = x.w /\ y.f = x.f
    BY UpFacts
  <2>2. x.s \in Nat /\ x.l \in Nat /\ x.v \in Nat /\ x.w \in Nat
    BY LevelNat
  <2>3. Above(x, m, 1, 0)
    BY MovedAbove
  <2> HIDE DEF y, m
  <2>4. Step(X, a, x, m)
    BY <1>2, <2>3, UsesAbove
  <2>5. m \in Level /\ m.s = x.s /\ m.l = x.l /\ m.v = x.v + 1 /\ m.w = x.w /\ m.f = x.f
    BY <2>2, <2>3 DEF Above
  <2>6. Opens(t) = 1 /\ Enters(t) = 0 /\ Takes(t) = 1 /\ Gives(t) = 0 /\ Asks(t) = 0 /\ Answers(t) = 0
    BY <1>3 DEF Opens, Enters, Takes, Gives, Asks, Answers
  <2>7. Step(X, t, m, y)
    <3>1. y.s = m.s + 1 /\ y.l = m.l + 0 /\ 1 <= m.v /\ y.v = m.v - 1 + 0 /\ 0 <= m.w /\ y.w = m.w - 0 + 0
      BY <2>1, <2>2, <2>5
    <3>2. y.f = m.f /\ t.do # "EndItem" /\ m \in Level /\ y \in Level
      BY <1>3, <2>1, <2>5
    <3> QED BY <1>3, <2>6, <3>1, <3>2 DEF Step
  <2>8. Runs(X, <<a, t>>, x, y)
    BY <2>4, <2>7, RunsTwo
  <2>9. Moved(y, 0, 0) = y
    BY <2>1, MovedNone
  <2> QED BY <2>8, <2>9 DEF y
<1> QED BY <1>1, <1>4 DEF Opened, a, t

\* A condition that binds a pattern keeps its scope open over the block, and closes it.
LEMMA CondNet ==
    ASSUME NEW X, NEW cond \in CondNode(X), NEW ts, NEW v \in Nat, NEW w \in Nat, Net(X, ts, v, w)
    PROVE  Net(X, CondTasks(cond) \o ts \o CloseCond(cond), v, w)
<1>1. cond.value \in X /\ cond.pattern \in Patterns
  BY CondParts
<1>2. 0 \in Nat /\ 0 + v = v /\ 0 + w = w /\ v + 0 = v /\ w + 0 = w
  OBVIOUS
<1>3. CASE cond.is_pattern
  <2>1. Opened(X, CondTasks(cond), 0, 0) /\ CloseCond(cond) = <<Pop>>
    BY <1>1, <1>3, OpenedCond DEF CondTasks, CloseCond
  <2>2. Opened(X, CondTasks(cond) \o ts, 0 + v, 0 + w)
    BY <1>2, <2>1, OpenedCat
  <2> QED BY <1>2, <2>1, <2>2, OpenedPop
<1>4. CASE ~cond.is_pattern
  <2>1. Net(X, CondTasks(cond), 0, 0) /\ CloseCond(cond) = <<>>
    BY <1>1, <1>4, CheckedNet, UnifyUses DEF CondTasks, CloseCond
  <2>2. Net(X, CondTasks(cond) \o ts, 0 + v, 0 + w)
    BY <1>2, <2>1, NetCat
  <2>3. Net(X, (CondTasks(cond) \o ts) \o <<>>, v + 0, w + 0)
    BY <1>2, <2>2, NetNil, NetCat
  <2> QED BY <1>2, <2>1, <2>3
<1> QED BY <1>3, <1>4

\* Four tasks with levels between them.
LEMMA RunsFour ==
    ASSUME NEW X, NEW a, NEW c, NEW d, NEW e, NEW x, NEW x2, NEW x3, NEW x4, NEW y,
           Step(X, a, x, x2), Step(X, c, x2, x3), Step(X, d, x3, x4), Step(X, e, x4, y)
    PROVE  Runs(X, <<a, c, d, e>>, x, y)
<1> DEFINE ts == <<a, c, d, e>>
           h == [k \in 1 .. 4 + 1 |-> IF k = 1 THEN x ELSE IF k = 2 THEN x2 ELSE IF k = 3 THEN x3
                                      ELSE IF k = 4 THEN x4 ELSE y]
<1>1. x \in Level /\ x2 \in Level /\ x3 \in Level /\ x4 \in Level /\ y \in Level
  BY DEF Step
<1>2. h \in [1 .. 4 + 1 -> Level]
  BY <1>1
<1>3. h[1] = x /\ h[2] = x2 /\ h[3] = x3 /\ h[4] = x4 /\ h[5] = y /\ h[4 + 1] = y
  OBVIOUS
<1>4. ts[1] = a /\ ts[2] = c /\ ts[3] = d /\ ts[4] = e /\ Len(ts) = 4 /\ ts \in Seq({a, c, d, e})
  OBVIOUS
<1> HIDE DEF ts, h
<1>5. ASSUME NEW k \in 1 .. 4 PROVE Step(X, ts[k], h[k], h[k + 1])
  <2>1. k = 1 \/ k = 2 \/ k = 3 \/ k = 4
    OBVIOUS
  <2>2. 1 + 1 = 2 /\ 2 + 1 = 3 /\ 3 + 1 = 4 /\ 4 + 1 = 5
    OBVIOUS
  <2> QED BY <1>3, <1>4, <2>1, <2>2
<1>6. IsSeq(ts) /\ 4 \in Nat
  BY <1>4 DEF IsSeq
<1>7. Runs(X, ts, h[1], h[4 + 1])
  BY <1>2, <1>4, <1>5, <1>6, RunsAlong
<1> QED BY <1>3, <1>7 DEF ts

\* A loop is left as often as it is entered, and forgets the type of its body.
LEMMA LoopNet ==
    ASSUME NEW X, NEW body \in BlockNode(X)
    PROVE  Net(X, LoopTasks(body), 0, 0)
<1> DEFINE t == Block(body, Void)
           In(x) == [s |-> x.s, l |-> x.l + 1, v |-> x.v, w |-> x.w, f |-> x.f]
<1>1. Uses(X, t, 0, 1, 0, 0) /\ Uses(X, Drop, 1, 0, 0, 0)
  BY BlockUses, DropUses
<1> HIDE DEF t
<1>2. IsSeq(<<EnterLoop, t, Drop, LeaveLoop>>)
  <2>1. <<EnterLoop, t, Drop, LeaveLoop>> \in Seq({EnterLoop, t, Drop, LeaveLoop})
    OBVIOUS
  <2> QED BY <2>1 DEF IsSeq
<1>3. ASSUME NEW x \in Level
      PROVE  Runs(X, <<EnterLoop, t, Drop, LeaveLoop>>, x, Moved(x, 0, 0))
  <2> DEFINE y == In(x)
             m == Moved(y, 1, 0)
  <2>1. x.s \in Nat /\ x.l \in Nat /\ x.v \in Nat /\ x.w \in Nat
    BY LevelNat
  <2>2. y \in Level /\ y.s = x.s /\ y.l = x.l + 1 /\ y.v = x.v /\ y.w = x.w /\ y.f = x.f
    BY DEF Level
  <2> HIDE DEF y
  <2>3. Above(y, m, 1, 0)
    BY <2>2, MovedAbove
  <2> HIDE DEF m
  <2>4. Step(X, EnterLoop, x, y)
    BY <2>1, <2>2 DEF Step, TaskFits, Opens, Enters, Takes, Gives, Asks, Answers, EnterLoop
  <2>5. Step(X, t, y, m)
    BY <1>1, <2>3, UsesAbove
  <2>6. /\ m \in Level /\ y.s = m.s /\ y.l = m.l /\ y.f = m.f
        /\ 1 <= m.v /\ 0 <= m.w /\ y.v = m.v - 1 + 0 /\ y.w = m.w - 0 + 0
    BY <2>1, <2>2, <2>3 DEF Above
  <2>7. Step(X, Drop, m, y)
    BY <1>1, <2>2, <2>6, UsesSteps
  <2>8. Step(X, LeaveLoop, y, x)
    BY <2>1, <2>2 DEF Step, TaskFits, Opens, Enters, Takes, Gives, Asks, Answers, LeaveLoop
  <2>9. Runs(X, <<EnterLoop, t, Drop, LeaveLoop>>, x, x)
    BY <2>4, <2>5, <2>7, <2>8, RunsFour
  <2> QED BY <2>9, MovedNone
<1> QED BY <1>2, <1>3 DEF Net, LoopTasks, t

\* Levels with the same counts are the same.
LEMMA SameLevel ==
    ASSUME NEW x \in Level, NEW y \in Level,
           x.s = y.s, x.l = y.l, x.v = y.v, x.w = y.w, x.f = y.f
    PROVE  x = y
BY DEF Level

\* Scopes and loops opened and closed, and the end of an item.
LEMMA ScopeCounts ==
    ASSUME Counts, StepPush \/ StepPop \/ StepEnterLoop \/ StepLeaveLoop \/ StepEndItem
    PROVE  Counts'
<1>1. /\ todo # <<>> /\ Do(<<>>) /\ items' = items /\ at' = at /\ vals' = vals /\ verdicts' = verdicts
      /\ Task.do \in {"Push", "Pop", "EnterLoop", "LeaveLoop", "EndItem"}
      /\ scopes' = IF Task.do = "Push" THEN Append(scopes, <<>>)
                   ELSE IF Task.do = "Pop" THEN SubSeq(scopes, 1, Len(scopes) - 1) ELSE scopes
      /\ loop_depth' = IF Task.do = "EnterLoop" THEN loop_depth + 1
                       ELSE IF Task.do = "LeaveLoop" THEN loop_depth - 1 ELSE loop_depth
      /\ in_fn' = IF Task.do = "EndItem" THEN FALSE ELSE in_fn
  BY DEF StepPush, StepPop, StepEnterLoop, StepLeaveLoop, StepEndItem, At, item_vars, scope_vars
<1>2. /\ IsSeq(scopes) /\ IsSeq(vals) /\ IsSeq(verdicts) /\ loop_depth \in Nat
      /\ Len(scopes) \in Nat /\ Len(vals) \in Nat /\ Len(verdicts) \in Nat
  BY SeqFacts DEF Counts
<1>3. IsSeq(scopes') /\ Len(scopes') = Len(scopes) + Opens(Task)
  <2>1. CASE Task.do = "Push"
    BY <1>1, <1>2, <2>1, SeqAppend DEF Opens
  <2>2. CASE Task.do = "Pop"
    <3>1. 1 <= Len(scopes) /\ 1 \in Nat
      BY <1>1, <2>2, TaskReady
    <3>2. IsSeq(scopes') /\ Len(scopes') = Len(scopes) - 1
      BY <1>1, <1>2, <2>2, <3>1, SeqPopped
    <3> QED BY <1>2, <2>2, <3>2 DEF Opens
  <2>3. CASE Task.do \in {"EnterLoop", "LeaveLoop", "EndItem"}
    BY <1>1, <1>2, <2>3 DEF Opens
  <2> QED BY <1>1, <2>1, <2>2, <2>3
<1>4. loop_depth' \in Nat /\ loop_depth' = loop_depth + Enters(Task)
  <2>1. CASE Task.do = "LeaveLoop"
    <3>1. 1 <= loop_depth
      BY <1>1, <2>1, TaskReady
    <3> QED BY <1>1, <1>2, <2>1, <3>1 DEF Enters
  <2>2. CASE Task.do # "LeaveLoop"
    BY <1>1, <1>2, <2>2 DEF Enters
  <2> QED BY <2>1, <2>2
<1>5. Takes(Task) = 0 /\ Gives(Task) = 0 /\ Asks(Task) = 0 /\ Answers(Task) = 0
  BY <1>1 DEF Takes, Gives, Asks, Answers
<1>6. /\ Here'.s = Len(scopes) + Opens(Task) /\ Here'.l = loop_depth + Enters(Task)
      /\ Here'.v = Len(vals) /\ Here'.w = Len(verdicts)
      /\ Here'.f = IF Task.do = "EndItem" THEN 0 ELSE Here.f
  BY <1>1, <1>3, <1>4 DEF Here
<1>7. Here' \in Level
  <2>1. Len(scopes') \in Nat /\ Len(vals') \in Nat /\ Len(verdicts') \in Nat
    BY <1>1, <1>2, <1>3, SeqFacts
  <2> QED BY <1>4, <2>1 DEF Here, Level
<1>8. ASSUME NEW y \in Level, Step(Exprs(items), Task, Here, y)
      PROVE  Runs(Exprs(items), <<>>, Here', y)
  <2>1. /\ Here.s = Len(scopes) /\ Here.l = loop_depth /\ Here.v = Len(vals) /\ Here.w = Len(verdicts)
    BY DEF Here
  <2>2. /\ y.s = Len(scopes) + Opens(Task) /\ y.l = loop_depth + Enters(Task)
        /\ y.v = Len(vals) - 0 + 0 /\ y.w = Len(verdicts) - 0 + 0
        /\ y.f = IF Task.do = "EndItem" THEN 0 ELSE Here.f
    BY <1>5, <1>8, <2>1 DEF Step
  <2>3. y.v = Len(vals) /\ y.w = Len(verdicts)
    BY <1>2, <2>2
  <2>4. Here' = y
    BY <1>6, <1>7, <2>2, <2>3, SameLevel
  <2> QED BY <1>7, <2>4, RunsNil
<1>9. IsSeq(vals') /\ IsSeq(verdicts')
  BY <1>1, <1>2
<1> QED BY <1>1, <1>3, <1>4, <1>8, <1>9, StepRuns

\* The scope of a condition that binds a pattern.
LEMMA BindCondCounts ==
    ASSUME Counts, BindCond
    PROVE  Counts'
<1> DEFINE X == Nodes
           bound(type) == <<Bind(Task.node, type), Irrefutable(FALSE)>>
           u == Here'
<1>1. /\ todo # <<>> /\ Task.do = "CondPattern" /\ vals' = Popped(1)
      /\ items' = items /\ at' = at /\ in_fn' = in_fn /\ scopes' = scopes /\ loop_depth' = loop_depth
      /\ verdicts' = verdicts
      /\ \E type : Do(<<Push, Bind(Task.node, type), Irrefutable(FALSE)>>)
  BY DEF BindCond, At, Reduce, item_vars, scope_vars
<1>2. PICK type : Do(<<Push, Bind(Task.node, type), Irrefutable(FALSE)>>)
  BY <1>1
<1>3. <<Push, Bind(Task.node, type), Irrefutable(FALSE)>> = <<Push>> \o bound(type)
  <2> DEFINE p == Push
             q == Bind(Task.node, type)
             r == Irrefutable(FALSE)
             S == {p, q, r}
             l == <<p>>
             m == <<q, r>>
             t == <<p, q, r>>
  <2>1. l \in Seq(S) /\ m \in Seq(S) /\ Len(l) = 1 /\ Len(m) = 2 /\ l[1] = p /\ m[1] = q /\ m[2] = r
    OBVIOUS
  <2>2. t \in Seq(S) /\ Len(t) = 3 /\ t[1] = p /\ t[2] = q /\ t[3] = r
    OBVIOUS
  <2> HIDE DEF S, l, m, t
  <2> DEFINE k == l \o m
  <2>3. k \in Seq(S) /\ Len(k) = Len(l) + Len(m)
    BY <2>1, ConcatProperties
  <2>4. \A i \in 1 .. Len(l) + Len(m) : k[i] = IF i <= Len(l) THEN l[i] ELSE m[i - Len(l)]
    BY <2>1, ConcatProperties
  <2> HIDE DEF k
  <2>5. \A i \in 1 .. Len(t) : k[i] = t[i]
    <3>1. k[1] = p /\ k[2] = q /\ k[3] = r
      <4>1. Len(l) = 1 /\ Len(m) = 2 /\ l[1] = p /\ m[1] = q /\ m[2] = r
        BY <2>1
      <4> HIDE DEF p, q, r
      <4> QED BY <4>1, <2>4
    <3>2. \A i \in 1 .. Len(t) : i = 1 \/ i = 2 \/ i = 3
      BY <2>2
    <3> HIDE DEF p, q, r
    <3> QED BY <2>2, <3>1, <3>2
  <2>6. k = t
    BY <2>1, <2>2, <2>3, <2>5, SeqEqual
  <2> QED BY <2>6 DEF k, l, m, t
<1>4. Task.node \in Patterns
  BY <1>1, NodeReady DEF TaskFits
<1>5. Net(X, bound(type), 0, 0)
  BY <1>4, BoundNet
<1>6. Opened(X, <<Push>> \o bound(type), 0, 0)
  <2>1. 0 \in Nat /\ 0 + 0 = 0
    OBVIOUS
  <2> HIDE DEF bound
  <2>2. Opened(X, <<Push>> \o bound(type), 0 + 0, 0 + 0)
    BY <1>5, <2>1, OpenedPush, OpenedCat
  <2> QED BY <2>1, <2>2
<1> HIDE DEF bound
<1>7. /\ IsSeq(scopes) /\ IsSeq(vals) /\ IsSeq(verdicts) /\ loop_depth \in Nat
      /\ Len(scopes) \in Nat /\ Len(vals) \in Nat /\ Len(verdicts) \in Nat
  BY SeqFacts DEF Counts
<1>8. /\ Opens(Task) = 1 /\ Enters(Task) = 0 /\ Takes(Task) = 1 /\ Gives(Task) = 0
      /\ Asks(Task) = 0 /\ Answers(Task) = 0
  BY <1>1 DEF Opens, Enters, Takes, Gives, Asks, Answers
<1>9. IsSeq(vals') /\ Len(vals') = Len(vals) - 1
  <2>1. 1 <= Len(vals) /\ 1 \in Nat
    BY <1>1, <1>8, TaskReady
  <2> QED BY <1>1, <1>7, <2>1, SeqPopped DEF Popped
<1>10. /\ u.s = Len(scopes) /\ u.l = loop_depth /\ u.v = Len(vals) - 1 /\ u.w = Len(verdicts)
       /\ u.f = Here.f
  BY <1>1, <1>9 DEF Here
<1>11. u \in Level
  <2>1. Len(scopes') \in Nat /\ loop_depth' \in Nat /\ Len(vals') \in Nat /\ Len(verdicts') \in Nat
    BY <1>1, <1>7, <1>9, SeqFacts
  <2> QED BY <2>1 DEF Here, Level
<1>12. ASSUME NEW y \in Level, Step(X, Task, Here, y)
       PROVE  Runs(X, <<Push>> \o bound(type), Here', y)
  <2>1. /\ Here.s = Len(scopes) /\ Here.l = loop_depth /\ Here.v = Len(vals) /\ Here.w = Len(verdicts)
    BY DEF Here
  <2>2. /\ y.s = Len(scopes) + 1 /\ y.l = loop_depth + 0
        /\ y.v = Len(vals) - 1 + 0 /\ y.w = Len(verdicts) - 0 + 0 /\ y.f = Here.f
    BY <1>1, <1>8, <1>12, <2>1 DEF Step
  <2> HIDE DEF u
  <2> DEFINE z == Up(u)
  <2>3. /\ z \in Level /\ z.s = u.s + 1 /\ z.l = u.l /\ z.v = u.v /\ z.w = u.w /\ z.f = u.f
    BY <1>11, UpFacts
  <2> HIDE DEF z
  <2>4. y.s = z.s /\ y.l = z.l /\ y.v = z.v /\ y.w = z.w /\ y.f = z.f
    BY <1>7, <1>10, <2>2, <2>3
  <2>5. y = z
    BY <2>3, <2>4, SameLevel
  <2>6. Moved(z, 0, 0) = z
    BY <2>3, MovedNone
  <2>7. Runs(X, <<Push>> \o bound(type), u, Moved(Up(u), 0, 0))
    BY <1>6, <1>11 DEF Opened
  <2> QED BY <2>5, <2>6, <2>7 DEF z, u
<1>13. IsSeq(scopes') /\ loop_depth' \in Nat /\ IsSeq(verdicts')
  BY <1>1, <1>7
<1> QED BY <1>1, <1>2, <1>3, <1>9, <1>12, <1>13, StepRuns DEF Nodes

\* Conditions, loops and blocks.
LEMMA BranchCounts ==
    ASSUME Counts, CheckIf \/ CheckLoop \/ CheckWhile
    PROVE  Counts'
<1>1. todo # <<>> /\ Task.do = "Expr"
  BY DEF CheckIf, CheckLoop, CheckWhile, AtExpr, At
<1>2. E \in Nodes /\ Nodes \subseteq ExprNode(Nodes)
  BY <1>1, NodeReady
<1>3. 0 \in Nat /\ 1 \in Nat
  OBVIOUS
<1>4. CASE CheckIf
  <2> DEFINE head == CondTasks(E.cond) \o <<Block(E.then, Exp)>> \o CloseCond(E.cond)
             tail == IF E.else = Nothing THEN <<With("NoElse", E, Exp)>> ELSE <<Block(E.else, Exp), Meet>>
  <2>1. E.kind = "If" /\ Expand(head \o tail, {})
    BY <1>4 DEF CheckIf, AtExpr
  <2>2. /\ E.cond \in CondNode(Nodes) /\ E.then \in BlockNode(Nodes)
        /\ E.else # Nothing => E.else \in BlockNode(Nodes)
    BY <1>2, <2>1, ExprParts DEF Maybe
  <2>3. Net(Nodes, <<Block(E.then, Exp)>>, 1, 0)
    BY <1>3, <2>2, BlockUses, Net1
  <2>4. Net(Nodes, head, 1, 0)
    BY <1>3, <2>2, <2>3, CondNet
  <2> HIDE DEF head
  <2>5. CASE E.else = Nothing
    <3>1. 1 <= 1 /\ 0 <= 0 /\ 1 = 1 - 1 + 1 /\ 0 = 0 - 0 + 0
      OBVIOUS
    <3>2. Net(Nodes, head \o <<With("NoElse", E, Exp)>>, 1, 0)
      BY <1>3, <2>4, <3>1, NoElseUses, NetThen
    <3> QED BY <1>1, <2>1, <2>5, <3>2, ExprDone
  <2>6. CASE E.else # Nothing
    <3> DEFINE t == Block(E.else, Exp)
    <3>1. Uses(Nodes, t, 0, 1, 0, 0) /\ Uses(Nodes, Meet, 2, 1, 0, 0)
      BY <2>2, <2>6, BlockUses, MeetUses
    <3>2. Expand(head \o <<t, Meet>>, {})
      BY <2>1, <2>6
    <3> HIDE DEF t
    <3>3. 0 <= 1 /\ 0 <= 0 /\ 2 = 1 - 0 + 1 /\ 0 = 0 - 0 + 0 /\ 2 <= 2 /\ 1 = 2 - 2 + 1 /\ 2 \in Nat
      OBVIOUS
    <3>4. Net(Nodes, head \o <<t>>, 2, 0)
      BY <1>3, <2>4, <3>1, <3>3, NetThen
    <3>5. Net(Nodes, (head \o <<t>>) \o <<Meet>>, 1, 0)
      BY <1>3, <3>1, <3>3, <3>4, NetThen
    <3>6. (head \o <<t>>) \o <<Meet>> = head \o <<t, Meet>>
      <4>1. IsSeq(head)
        BY <2>4 DEF Net
      <4> QED BY <4>1, SeqAssoc, SeqPair
    <3>7. Net(Nodes, head \o <<t, Meet>>, 1, 0)
      BY <3>5, <3>6
    <3> QED BY <1>1, <3>2, <3>7, ExprDone
  <2> QED BY <2>5, <2>6
<1>5. CASE CheckLoop
  <2>1. E.kind = "Loop" /\ Expand(LoopTasks(E.body) \o <<Yield(Exp, Void)>>, {})
    BY <1>5 DEF CheckLoop, AtExpr
  <2>2. Net(Nodes, LoopTasks(E.body), 0, 0)
    BY <1>2, <2>1, ExprParts, LoopNet
  <2>3. Net(Nodes, LoopTasks(E.body) \o <<Yield(Exp, Void)>>, 1, 0)
    BY <1>3, <2>2, NetThenOne, YieldUses
  <2> QED BY <1>1, <2>1, <2>3, ExprDone
<1>6. CASE CheckWhile
  <2> DEFINE head == CondTasks(E.cond) \o LoopTasks(E.body) \o CloseCond(E.cond)
  <2>1. E.kind = "While" /\ Expand(head \o <<Yield(Exp, Void)>>, {})
    BY <1>6 DEF CheckWhile, AtExpr
  <2>2. E.cond \in CondNode(Nodes) /\ Net(Nodes, LoopTasks(E.body), 0, 0)
    BY <1>2, <2>1, ExprParts, LoopNet
  <2>3. Net(Nodes, head, 0, 0)
    BY <1>3, <2>2, CondNet
  <2> HIDE DEF head
  <2>4. Net(Nodes, head \o <<Yield(Exp, Void)>>, 1, 0)
    BY <1>3, <2>3, NetThenOne, YieldUses
  <2> QED BY <1>1, <2>1, <2>4, ExprDone
<1> QED BY <1>4, <1>5, <1>6

\* check_block: the scope is closed after the last statement.
LEMMA BlockCounts ==
    ASSUME Counts, StepBlock
    PROVE  Counts'
<1> DEFINE block == Task.block
           stmts == [k \in DOMAIN block.stmts |-> Stmt(block.stmts[k])]
           value == IF block.value = Nothing THEN <<Yield(Exp, Void)>>
                    ELSE <<Expr(block.value, Exp), Join(Exp)>>
<1>1. todo # <<>> /\ Task.do = "Block" /\ Expand(<<Push>> \o stmts \o value \o <<Pop>>, {})
  BY DEF StepBlock, At
<1>2. /\ block.stmts \in Seq(StmtNode(Nodes))
      /\ block.value # Nothing => block.value \in Nodes
  <2>1. block \in BlockNode(Nodes)
    BY <1>1, NodeReady DEF TaskFits
  <2> QED BY <2>1, BlockParts DEF Maybe
<1> DEFINE n == Len(block.stmts)
<1>3. IsSeq(block.stmts) /\ n \in Nat /\ \A k \in 1 .. n : block.stmts[k] \in StmtNode(Nodes)
  BY <1>2, SeqOfSeq
<1>4. stmts = [k \in DOMAIN block.stmts |-> stmts[k]] /\ \A k \in 1 .. n : stmts[k] = Stmt(block.stmts[k])
  BY <1>3, SeqFacts
<1>5. Net(Nodes, value, 1, 0)
  BY <1>2, YieldNet, ExprThenNet, JoinUses
<1> HIDE DEF stmts, value
<1>6. IsSeq(stmts) /\ Len(stmts) = n
  BY <1>3, <1>4, SeqOver
<1>7. \A k \in 1 .. n : Uses(Nodes, stmts[k], 0, 0, 0, 0)
  BY <1>3, <1>4, StmtUses
<1> HIDE DEF n
<1>8. 0 \in {0, 1} /\ 0 \in Nat /\ 1 \in Nat /\ n * 0 = 0 /\ 0 + 0 = 0 /\ 0 + 1 = 1
  BY <1>3
<1>9. Net(Nodes, stmts, 0, 0)
  <2>1. Net(Nodes, stmts, n * 0, n * 0)
    BY <1>3, <1>6, <1>7, <1>8, NetEach
  <2> QED BY <1>8, <2>1
<1>10. Opened(Nodes, <<Push>> \o stmts, 0, 0)
  <2>1. Opened(Nodes, <<Push>> \o stmts, 0 + 0, 0 + 0)
    BY <1>8, <1>9, OpenedPush, OpenedCat
  <2> QED BY <1>8, <2>1
<1>11. Opened(Nodes, <<Push>> \o stmts \o value, 1, 0)
  <2>1. Opened(Nodes, <<Push>> \o stmts \o value, 0 + 1, 0 + 0)
    BY <1>5, <1>8, <1>10, OpenedCat
  <2> QED BY <1>8, <2>1
<1>12. Net(Nodes, <<Push>> \o stmts \o value \o <<Pop>>, 1, 0)
  BY <1>8, <1>11, OpenedPop
<1> QED BY <1>1, <1>12, ExprDone

-----------------------------------------------------------------------------
(***************************************************************************)
(* The arms of a match.                                                    *)
(***************************************************************************)
\* An arm adds a type in its own scope.
LEMMA ArmNet ==
    ASSUME NEW X, NEW bound, Net(X, bound, 0, 0), NEW e \in X, NEW exp
    PROVE  Net(X, <<Push>> \o bound \o <<Expr(e, exp), Pop>>, 1, 0)
<1> DEFINE a == Expr(e, exp)
           head == <<Push>> \o bound
<1>1. 0 \in Nat /\ 1 \in Nat /\ 0 + 0 = 0 /\ 0 + 1 = 1
  OBVIOUS
<1>2. Net(X, <<a>>, 1, 0)
  BY ExprNet
<1> HIDE DEF a
<1>3. Opened(X, head, 0, 0)
  <2>1. Opened(X, <<Push>> \o bound, 0 + 0, 0 + 0)
    BY <1>1, OpenedPush, OpenedCat
  <2> QED BY <1>1, <2>1
<1> HIDE DEF head
<1>4. Opened(X, head \o <<a>>, 1, 0)
  <2>1. Opened(X, head \o <<a>>, 0 + 1, 0 + 0)
    BY <1>1, <1>2, <1>3, OpenedCat
  <2> QED BY <1>1, <2>1
<1>5. Net(X, (head \o <<a>>) \o <<Pop>>, 1, 0)
  BY <1>1, <1>4, OpenedPop
<1>6. (head \o <<a>>) \o <<Pop>> = head \o <<a, Pop>>
  <2>1. IsSeq(head)
    BY <1>3 DEF Opened
  <2>2. IsSeq(<<a>>) /\ IsSeq(<<Pop>>) /\ <<a>> \o <<Pop>> = <<a, Pop>>
    BY SeqPair
  <2>3. (head \o <<a>>) \o <<Pop>> = head \o (<<a>> \o <<Pop>>)
    BY <2>1, <2>2, SeqAssoc
  <2> QED BY <2>2, <2>3
<1>7. Net(X, head \o <<a, Pop>>, 1, 0)
  BY <1>5, <1>6
<1> QED BY <1>7 DEF head, a

\* Every arm but the first meets the one before it.
LEMMA MeetRuns ==
    ASSUME NEW X, NEW ts, Net(X, ts, 1, 0), NEW x \in Level
    PROVE  Runs(X, ts \o <<Meet>>, Moved(x, 1, 0), Moved(x, 1, 0))
<1> DEFINE y == Moved(x, 1, 0)
           m == Moved(y, 1, 0)
<1>1. Above(x, y, 1, 0) /\ y \in Level
  BY MovedAbove
<1> HIDE DEF y
<1>2. Above(y, m, 1, 0)
  BY <1>1, MovedAbove
<1>3. Runs(X, ts, y, m)
  BY <1>1 DEF Net
<1> HIDE DEF m
<1>4. x.v \in Nat /\ x.w \in Nat
  BY LevelNat
<1>5. /\ m \in Level /\ y.s = m.s /\ y.l = m.l /\ y.f = m.f
      /\ 2 <= m.v /\ 0 <= m.w /\ y.v = m.v - 2 + 1 /\ y.w = m.w - 0 + 0
  BY <1>1, <1>2, <1>4 DEF Above
<1>6. Step(X, Meet, m, y)
  BY <1>1, <1>5, MeetUses, UsesSteps
<1>7. Runs(X, <<Meet>>, m, y)
  BY <1>6, RunsOne
<1>8. Runs(X, ts \o <<Meet>>, y, y)
  BY <1>3, <1>7, RunsCat
<1> QED BY <1>8 DEF y

\* All the arms together leave one type, and none if there is no arm.
LEMMA ArmsNet ==
    ASSUME NEW X, NEW ls, IsSeq(ls), NEW n \in Nat, Len(ls) = n, NEW own, IsSeq(own), Len(own) = n,
           \A k \in 1 .. n : Net(X, own[k], 1, 0),
           \A k \in 1 .. n : ls[k] = own[k] \o (IF k = 1 THEN <<>> ELSE <<Meet>>)
    PROVE  Net(X, FlattenSeq(ls), IF n = 0 THEN 0 ELSE 1, 0)
<1> SUFFICES ASSUME NEW x \in Level
             PROVE  Runs(X, FlattenSeq(ls), x, Moved(x, IF n = 0 THEN 0 ELSE 1, 0))
  <2>1. Zero \in Level
    BY DEF Zero, Level
  <2> QED BY <2>1 DEF Net, Runs
<1> DEFINE y == Moved(x, 1, 0)
           h == [k \in 1 .. n + 1 |-> IF k = 1 THEN x ELSE y]
<1>1. y \in Level
  BY MovedAbove
<1>2. h \in [1 .. n + 1 -> Level] /\ h[1] = x
  BY <1>1
<1>3. h[n + 1] = Moved(x, IF n = 0 THEN 0 ELSE 1, 0)
  BY MovedNone
<1>4. ASSUME NEW k \in 1 .. n PROVE Runs(X, ls[k], h[k], h[k + 1])
  <2>1. CASE k = 1
    <3>1. h[k] = x /\ h[k + 1] = y
      BY <2>1
    <3>2. Net(X, own[k], 1, 0) /\ 0 \in Nat /\ 1 \in Nat /\ 1 + 0 = 1 /\ 0 + 0 = 0
      OBVIOUS
    <3> HIDE DEF h
    <3>3. Net(X, own[k] \o <<>>, 1 + 0, 0 + 0)
      BY <3>2, NetNil, NetCat
    <3>4. Net(X, ls[k], 1, 0)
      BY <2>1, <3>2, <3>3
    <3> QED BY <3>1, <3>4 DEF Net
  <2>2. CASE k # 1
    <3>1. h[k] = y /\ h[k + 1] = y
      BY <2>2
    <3>2. ls[k] = own[k] \o <<Meet>> /\ Net(X, own[k], 1, 0)
      BY <2>2
    <3> HIDE DEF h
    <3> QED BY <3>1, <3>2, MeetRuns
  <2> QED BY <2>1, <2>2
<1> HIDE DEF h
<1>5. Runs(X, FlattenSeq(ls), h[1], h[n + 1])
  BY <1>2, <1>4, RunsFlatten
<1> QED BY <1>2, <1>3, <1>5

\* check_match: the arms, the exhaustiveness, and one type for all.
LEMMA MatchCounts ==
    ASSUME Counts, CheckMatch
    PROVE  Counts'
<1> DEFINE scrutinee == Val(0)
           failed   == Tag(scrutinee) = "Error"
           bound(k) == IF failed THEN <<>>
                       ELSE <<Bind(E.arms[k].pattern, scrutinee), Irrefutable(FALSE)>>
           O(k)     == <<Push>> \o bound(k) \o <<Expr(E.arms[k].body, Exp), Pop>>
           own      == [k \in DOMAIN E.arms |-> O(k)]
           ls       == [k \in DOMAIN E.arms |-> O(k) \o (IF k = 1 THEN <<>> ELSE <<Meet>>)]
           exhaustive == IF failed THEN <<>> ELSE <<With("Exhaustive", E.arms, scrutinee)>>
           last     == IF E.arms = <<>> THEN <<Give(ErrorType)>> ELSE <<Join(Exp)>>
           n        == Len(E.arms)
<1>1. /\ todo # <<>> /\ Task.do = "Combine" /\ E.kind = "Match" /\ Arity(E) = 1
      /\ Reduce(1, FlattenSeq(ls) \o exhaustive \o last, {})
  BY DEF CheckMatch, AtCombine, At, Arity
<1>2. E.arms \in Seq(ArmNode(Nodes))
  BY <1>1, NodeReady, ExprParts
<1>3. /\ IsSeq(E.arms) /\ n \in Nat /\ DOMAIN E.arms = 1 .. n
      /\ \A k \in 1 .. n : E.arms[k].body \in Nodes /\ E.arms[k].pattern \in Patterns
  <2>1. IsSeq(E.arms) /\ n \in Nat /\ DOMAIN E.arms = 1 .. n /\ \A k \in 1 .. n : E.arms[k] \in ArmNode(Nodes)
    BY <1>2, SeqOfSeq, SeqFacts
  <2> QED BY <2>1, ArmParts
<1>4. n = 0 <=> E.arms = <<>>
  BY <1>2
<1>5. ASSUME NEW k \in 1 .. n PROVE Net(Nodes, O(k), 1, 0)
  <2>1. E.arms[k].body \in Nodes /\ E.arms[k].pattern \in Patterns
    BY <1>3
  <2>2. Net(Nodes, bound(k), 0, 0)
    BY <2>1, NetNil, BoundNet
  <2> HIDE DEF bound
  <2> QED BY <2>1, <2>2, ArmNet
<1>6. Net(Nodes, exhaustive, 0, 0)
  <2>1. 0 \in Nat
    OBVIOUS
  <2> QED BY <2>1, NetNil, NothingUses, Net1
<1> HIDE DEF O, exhaustive, n
<1>7. /\ own = [k \in DOMAIN E.arms |-> own[k]] /\ ls = [k \in DOMAIN E.arms |-> ls[k]]
      /\ \A k \in 1 .. n : own[k] = O(k)
      /\ \A k \in 1 .. n : ls[k] = own[k] \o (IF k = 1 THEN <<>> ELSE <<Meet>>)
  BY <1>3
<1> HIDE DEF own, ls
<1>8. IsSeq(own) /\ Len(own) = n /\ IsSeq(ls) /\ Len(ls) = n
  BY <1>3, <1>7, SeqOver DEF n
<1> DEFINE v == IF n = 0 THEN 0 ELSE 1
<1>9. Net(Nodes, FlattenSeq(ls), v, 0)
  <2>1. \A k \in 1 .. n : Net(Nodes, own[k], 1, 0)
    BY <1>5, <1>7
  <2> QED BY <1>3, <1>7, <1>8, <2>1, ArmsNet
<1>10. v \in Nat /\ 0 \in Nat /\ 1 \in Nat /\ v + 0 = v /\ 0 + 0 = 0
  OBVIOUS
<1>11. Net(Nodes, FlattenSeq(ls) \o exhaustive, v, 0)
  <2> HIDE DEF v
  <2>1. Net(Nodes, FlattenSeq(ls) \o exhaustive, v + 0, 0 + 0)
    BY <1>6, <1>9, <1>10, NetCat
  <2> QED BY <1>10, <2>1
<1>12. Net(Nodes, FlattenSeq(ls) \o exhaustive \o last, 1, 0)
  <2>1. CASE n = 0
    <3>1. v = 0 /\ last = <<Give(ErrorType)>>
      BY <1>4, <2>1 DEF n
    <3> HIDE DEF v, last
    <3> QED BY <1>10, <1>11, <3>1, NetThenOne, GiveUses
  <2>2. CASE n # 0
    <3>1. v = 1 /\ last = <<Join(Exp)>>
      BY <1>4, <2>2 DEF n
    <3>2. 1 <= 1 /\ 0 <= 0 /\ 1 = 1 - 1 + 1 /\ 0 = 0 - 0 + 0
      OBVIOUS
    <3> HIDE DEF v, last
    <3> QED BY <1>10, <1>11, <3>1, <3>2, NetThen, JoinUses
  <2> QED BY <2>1, <2>2
<1> HIDE DEF last
<1> QED BY <1>1, <1>10, <1>12, CombineDone

-----------------------------------------------------------------------------
(***************************************************************************)
(* The items.                                                              *)
(***************************************************************************)
LEMMA BetweenItems ==
    ASSUME Counts, todo = <<>>
    PROVE  /\ Here = Zero
           /\ scopes = <<>> /\ loop_depth = 0 /\ ~in_fn /\ vals = <<>> /\ verdicts = <<>>
<1>1. Zero \in Level /\ Here \in Level
  BY HereLevel DEF Zero, Level
<1>2. Here = Zero
  BY <1>1, RunsNil DEF Counts
<1>3. Len(scopes) = 0 /\ loop_depth = 0 /\ Len(vals) = 0 /\ Len(verdicts) = 0
      /\ (IF in_fn THEN 1 ELSE 0) = 0
  BY <1>2 DEF Here, Zero
<1>4. IsSeq(scopes) /\ IsSeq(vals) /\ IsSeq(verdicts)
  BY DEF Counts
<1> QED BY <1>2, <1>3, <1>4, SeqFacts

\* The next item is of the program.
LEMMA NextItemFits ==
    ASSUME Counts, at < Len(items)
    PROVE  /\ NextItem \in ItemNode(Nodes) /\ at + 1 \in Nat
BY DEF Counts, IsProgram, NextItem, Nodes

\* What is left of an item when its scope is the only thing open.
Inner(f) == [s |-> 1, l |-> 0, v |-> 0, w |-> 0, f |-> f]

\* Its counts.
LEMMA InnerLevel ==
    ASSUME NEW f \in {0, 1}
    PROVE  /\ Inner(f) \in Level /\ Inner(f).s = 1 /\ Inner(f).l = 0 /\ Inner(f).v = 0
           /\ Inner(f).w = 0 /\ Inner(f).f = f
BY DEF Inner, Level

\* The counts between two items.
LEMMA ZeroLevel ==
    /\ Zero \in Level /\ Zero.s = 0 /\ Zero.l = 0 /\ Zero.v = 0 /\ Zero.w = 0 /\ Zero.f = 0
BY DEF Zero, Level

\* The end of an item closes its scope and leaves the function.
LEMMA EndRuns ==
    ASSUME NEW X, NEW f \in {0, 1}
    PROVE  \E m : Step(X, Pop, Inner(f), m) /\ Step(X, EndItem, m, Zero)
<1> DEFINE m == [s |-> 0, l |-> 0, v |-> 0, w |-> 0, f |-> f]
           x == Inner(f)
<1>1. m \in Level /\ m.s = 0 /\ m.l = 0 /\ m.v = 0 /\ m.w = 0 /\ m.f = f
  BY DEF Level
<1>2. x \in Level /\ x.s = 1 /\ x.l = 0 /\ x.v = 0 /\ x.w = 0 /\ x.f = f
  BY InnerLevel
<1> HIDE DEF m, x
<1>3. Step(X, Pop, x, m)
  BY <1>1, <1>2 DEF Step, TaskFits, Opens, Enters, Takes, Gives, Asks, Answers, Pop
<1>4. Step(X, EndItem, m, Zero)
  BY <1>1, ZeroLevel DEF Step, TaskFits, Opens, Enters, Takes, Gives, Asks, Answers, EndItem
<1> QED BY <1>3, <1>4 DEF x

\* check_fn: what a function has to do leads back to zero.
LEMMA FunctionCounts ==
    ASSUME Counts, StartFunction
    PROVE  Counts'
<1> DEFINE item == NextItem
           made == IF item.ret = NoType THEN Made(b, Void) ELSE ResolveType(b, item.ret)
           params == [k \in DOMAIN item.params |-> With("Param", item.params[k], 0)]
           body == IF item.body = Nothing THEN <<>> ELSE <<Block(item.body, made.idx), Drop>>
           main == IF item.is_main THEN <<With("Main", item, 0)>> ELSE <<>>
           u == Inner(1)
<1>1. /\ todo = <<>> /\ at < Len(items) /\ item.kind = "Fn"
      /\ at' = at + 1 /\ in_fn' = TRUE /\ scopes' = Append(scopes, <<>>) /\ loop_depth' = 0
      /\ todo' = params \o body \o <<Pop, EndItem>> \o main
      /\ items' = items /\ vals' = vals /\ verdicts' = verdicts
  BY DEF StartFunction, AtItem
<1>2. scopes = <<>> /\ vals = <<>> /\ verdicts = <<>>
  BY <1>1, BetweenItems
<1>3. /\ item.params \in Seq(ParamNode) /\ at + 1 \in Nat
      /\ item.body # Nothing => item.body \in BlockNode(Nodes)
  BY <1>1, NextItemFits, ItemParts DEF Maybe
<1> DEFINE n == Len(item.params)
<1>4. IsSeq(item.params) /\ n \in Nat /\ \A k \in 1 .. n : item.params[k] \in ParamNode
  BY <1>3, SeqOfSeq
<1>5. /\ params = [k \in DOMAIN item.params |-> params[k]]
      /\ \A k \in 1 .. n : params[k] = With("Param", item.params[k], 0)
  BY <1>4, SeqFacts
<1>6. 0 \in {0, 1} /\ 1 \in {0, 1} /\ 0 \in Nat /\ 1 \in Nat /\ 0 + 0 = 0
  OBVIOUS
<1>7. Net(Nodes, body, 0, 0)
  <2>1. CASE item.body = Nothing
    BY <2>1, NetNil
  <2>2. CASE item.body # Nothing
    <3>1. Net(Nodes, <<Block(item.body, made.idx)>>, 1, 0)
      BY <1>3, <1>6, <2>2, BlockUses, Net1
    <3>2. 1 <= 1 /\ 0 <= 0 /\ 0 = 1 - 1 + 0 /\ 0 = 0 - 0 + 0
      OBVIOUS
    <3>3. Net(Nodes, <<Block(item.body, made.idx), Drop>>, 0, 0)
      <4> HIDE DEF made, item
      <4> QED BY <1>6, <3>1, <3>2, DropUses, Net2
    <3> QED BY <2>2, <3>3
  <2> QED BY <2>1, <2>2
<1>8. Net(Nodes, main, 0, 0)
  BY <1>6, NetNil, NothingUses, Net1
<1> HIDE DEF params, body, main
<1>9. Net(Nodes, params, 0, 0)
  <2>1. IsSeq(params) /\ Len(params) = n
    BY <1>4, <1>5, SeqOver
  <2>2. \A k \in 1 .. n : Uses(Nodes, params[k], 0, 0, 0, 0)
    BY <1>4, <1>5, ParamUses
  <2> HIDE DEF n
  <2>3. n * 0 = 0
    BY <1>4
  <2>4. Net(Nodes, params, n * 0, n * 0)
    BY <1>4, <1>6, <2>1, <2>2, NetEach
  <2> QED BY <2>3, <2>4
<1>10. Net(Nodes, params \o body, 0, 0)
  <2>1. Net(Nodes, params \o body, 0 + 0, 0 + 0)
    BY <1>6, <1>7, <1>9, NetCat
  <2> QED BY <1>6, <2>1
<1>11. u \in Level
  BY <1>6, InnerLevel
<1>12. Runs(Nodes, params \o body, u, u)
  BY <1>10, <1>11, MovedNone DEF Net
<1>13. Runs(Nodes, <<Pop, EndItem>>, u, Zero)
  BY <1>6, EndRuns, RunsTwo
<1>14. Runs(Nodes, main, Zero, Zero)
  BY <1>8, ZeroLevel, MovedNone DEF Net
<1>15. Runs(Nodes, todo', u, Zero)
  <2>1. Runs(Nodes, params \o body \o <<Pop, EndItem>>, u, Zero)
    BY <1>12, <1>13, RunsCat
  <2> QED BY <1>1, <1>14, <2>1, RunsCat
<1>16. IsSeq(scopes') /\ Len(scopes') = 1
  <2>1. IsSeq(scopes) /\ Len(scopes) = 0
    BY <1>2, SeqNil
  <2>2. IsSeq(Append(scopes, <<>>)) /\ Len(Append(scopes, <<>>)) = Len(scopes) + 1
    BY <2>1, SeqAppend
  <2> QED BY <1>1, <2>1, <2>2
<1>17. Here' = u
  <2>1. Len(vals') = 0 /\ Len(verdicts') = 0 /\ loop_depth' = 0 /\ in_fn'
    BY <1>1, <1>2, SeqNil
  <2> QED BY <1>16, <2>1 DEF Here, Inner
<1>18. at' \in Nat /\ loop_depth' \in Nat /\ IsSeq(vals') /\ IsSeq(verdicts') /\ IsProgram(items')
  BY <1>1, <1>3, <1>6 DEF Counts
<1> QED BY <1>1, <1>15, <1>16, <1>17, <1>18 DEF Counts, Nodes

\* So does what the initialiser of a static or a const has to do.
LEMMA InitialiserCounts ==
    ASSUME Counts, StartInitialiser
    PROVE  Counts'
<1> DEFINE item == NextItem
           made == ResolveType(b, item.type)
           p == Expr(item.init, made.idx)
           q == Unify(made.idx)
           u == Inner(0)
           y == Moved(u, 1, 0)
<1>1. /\ todo = <<>> /\ at < Len(items) /\ item.kind \in {"Static", "Const"}
      /\ at' = at + 1 /\ in_fn' = FALSE /\ scopes' = Append(scopes, <<>>) /\ loop_depth' = loop_depth
      /\ todo' = <<p, q, Pop, EndItem>>
      /\ items' = items /\ vals' = vals /\ verdicts' = verdicts
  BY DEF StartInitialiser, AtItem
<1>2. scopes = <<>> /\ vals = <<>> /\ verdicts = <<>> /\ loop_depth = 0
  BY <1>1, BetweenItems
<1>3. item.init \in Nodes /\ at + 1 \in Nat
  BY <1>1, NextItemFits, ItemParts
<1>4. Uses(Nodes, p, 0, 1, 0, 0) /\ Uses(Nodes, q, 1, 0, 0, 0)
  BY <1>3, ExprUses, UnifyUses
<1>5. 0 \in {0, 1}
  OBVIOUS
<1>6. u \in Level /\ u.s = 1 /\ u.l = 0 /\ u.v = 0 /\ u.w = 0 /\ u.f = 0
  BY <1>5, InnerLevel
<1> HIDE DEF p, q, u
<1>7. Above(u, y, 1, 0)
  BY <1>6, MovedAbove
<1> HIDE DEF y
<1>8. Step(Nodes, p, u, y)
  BY <1>4, <1>7, UsesAbove
<1>9. Step(Nodes, q, y, u)
  <2>1. /\ y \in Level /\ u.s = y.s /\ u.l = y.l /\ u.f = y.f
        /\ 1 <= y.v /\ 0 <= y.w /\ u.v = y.v - 1 + 0 /\ u.w = y.w - 0 + 0
    BY <1>6, <1>7 DEF Above
  <2> QED BY <1>4, <1>6, <2>1, UsesSteps
<1>10. PICK m : Step(Nodes, Pop, u, m) /\ Step(Nodes, EndItem, m, Zero)
  BY <1>5, EndRuns DEF u
<1>11. Runs(Nodes, todo', u, Zero)
  BY <1>1, <1>8, <1>9, <1>10, RunsFour
<1>12. IsSeq(scopes') /\ Len(scopes') = 1
  <2>1. IsSeq(scopes) /\ Len(scopes) = 0
    BY <1>2, SeqNil
  <2>2. IsSeq(Append(scopes, <<>>)) /\ Len(Append(scopes, <<>>)) = Len(scopes) + 1
    BY <2>1, SeqAppend
  <2> QED BY <1>1, <2>1, <2>2
<1>13. Here' = u
  <2>1. Len(vals') = 0 /\ Len(verdicts') = 0 /\ loop_depth' = 0 /\ ~in_fn'
    BY <1>1, <1>2, SeqNil
  <2> QED BY <1>12, <2>1 DEF Here, Inner, u
<1>14. at' \in Nat /\ loop_depth' \in Nat /\ IsSeq(vals') /\ IsSeq(verdicts') /\ IsProgram(items')
  BY <1>1, <1>3 DEF Counts
<1> QED BY <1>1, <1>11, <1>12, <1>13, <1>14 DEF Counts, Nodes

-----------------------------------------------------------------------------
(***************************************************************************)
(* The invariant.                                                          *)
(***************************************************************************)
\* The checker starts before the first item.
LEMMA InitCounts == Init => Counts
<1> SUFFICES ASSUME Init PROVE Counts
  OBVIOUS
<1>1. IsProgram(items)
  BY FamiliesAssumption DEF Init
<1>2. /\ at = 0 /\ ~in_fn /\ scopes = <<>> /\ loop_depth = 0 /\ todo = <<>> /\ vals = <<>> /\ verdicts = <<>>
  BY DEF Init
<1>3. Here = Zero
  BY <1>2, SeqNil DEF Here, Zero
<1>4. Runs(Exprs(items), todo, Here, Zero)
  BY <1>2, <1>3, ZeroLevel, RunsNil
<1>5. IsSeq(scopes) /\ IsSeq(vals) /\ IsSeq(verdicts) /\ at \in Nat /\ loop_depth \in Nat
  BY <1>2, SeqNil
<1> QED BY <1>1, <1>4, <1>5 DEF Counts

\* Every step keeps the count.
LEMMA StepCounts == Counts /\ [Next]_vars => Counts'
<1> SUFFICES ASSUME Counts, [Next]_vars PROVE Counts'
  OBVIOUS
<1>1. CASE CheckExpr
  BY <1>1, LeafCounts, EnterCounts, OperandCounts, FlowCounts, CallCounts, MethodCounts, StructCounts
     DEF CheckExpr
<1>2. CASE CheckControl
  BY <1>2, BindCondCounts, BranchCounts, TypeCounts, EnterCounts, MatchCounts, ScopeCounts, LeafCounts,
     FlowCounts, BlockCounts DEF CheckControl
<1>3. CASE CheckStmt
  BY <1>3, StmtCounts, ValueCounts, TypeCounts, PlaceCounts DEF CheckStmt
<1>4. CASE BindPattern
  BY <1>4, BindLeafCounts, BindPartsCounts, VerdictCounts DEF BindPattern
<1>5. CASE CheckItem
  BY <1>5, FunctionCounts, InitialiserCounts, SignatureCounts, ScopeCounts DEF CheckItem
<1>6. CASE UNCHANGED vars
  <2>1. /\ items' = items /\ at' = at /\ in_fn' = in_fn /\ scopes' = scopes /\ loop_depth' = loop_depth
        /\ todo' = todo /\ vals' = vals /\ verdicts' = verdicts
    BY <1>6 DEF vars, item_vars, scope_vars
  <2>2. Here' = Here
    BY <2>1 DEF Here
  <2> QED BY <2>1, <2>2 DEF Counts
<1> QED BY <1>1, <1>2, <1>3, <1>4, <1>5, <1>6 DEF Next, Terminated

\* In every state of the checker (check_bodies) the tasks that are left lead from
\* the scopes, loops, types and verdicts there are to none.
THEOREM CountsCorrect == Spec => []Counts
BY InitCounts, StepCounts, PTL DEF Spec

\* Whatever the program, and whatever was diagnosed on the way, the checker is
\* at an item with no scope, no loop and no function open, and with every type
\* and every verdict used: each task leaves what the tasks after it take.
THEOREM ItemsStartCleanCorrect == Spec => []ItemsStartClean
<1>1. Counts => ItemsStartClean
  BY BetweenItems DEF ItemsStartClean
<1> QED BY <1>1, CountsCorrect, PTL

=============================================================================
