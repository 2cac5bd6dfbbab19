---------------------------- MODULE Lexer_proofs ----------------------------
(***************************************************************************)
(* TokensTile, LongestMatch and LinesSeparate for every text.              *)
(***************************************************************************)
EXTENDS LexerChecks, NatInduction, FiniteSetTheorems, TLAPS

-----------------------------------------------------------------------------
\* Scans: a run of units ends where the first other unit, or the text, ends.
RunEnd(t, i) == IF i > Len(t) THEN i ELSE Len(t) + 1

LEMMA RunEnds ==
    ASSUME NEW U, NEW t \in Seq(U), NEW i \in Nat, NEW In
    PROVE  \E j \in i .. RunEnd(t, i) : (\A k \in i .. j - 1 : t[k] \in In) /\ (j > Len(t) \/ t[j] \notin In)
<1> DEFINE Stops == {j \in Nat : i <= j /\ (j > Len(t) \/ t[j] \notin In)}
           e == RunEnd(t, i)
<1>1. Len(t) \in Nat /\ e \in Nat /\ i <= e /\ e > Len(t)
  BY DEF RunEnd
<1>2. e \in Stops
  BY <1>1
<1>3. PICK j \in Stops : \A k \in Stops : j <= k
  <2> HIDE DEF Stops
  <2>1. Stops \in SUBSET Nat
    BY DEF Stops
  <2> QED BY <1>2, <2>1, LeastExists
<1>4. j \in i .. e /\ (j > Len(t) \/ t[j] \notin In)
  <2> HIDE DEF e
  <2> QED BY <1>1, <1>2, <1>3
<1>5. ASSUME NEW k \in i .. j - 1 PROVE t[k] \in In
  <2> HIDE DEF e
  <2>1. k \in Nat /\ i <= k /\ k < j /\ j \in Nat
    BY <1>1, <1>4
  <2>2. k \notin Stops
    BY <1>3, <2>1
  <2> QED BY <2>1, <2>2
<1> QED BY <1>4, <1>5

LEMMA PastRunEnds ==
    ASSUME NEW U, NEW t \in Seq(U), NEW i \in Nat, NEW In
    PROVE  /\ PastRun(t, i, In) \in i .. RunEnd(t, i)
           /\ \A k \in i .. PastRun(t, i, In) - 1 : t[k] \in In
           /\ PastRun(t, i, In) > Len(t) \/ t[PastRun(t, i, In)] \notin In
BY RunEnds DEF PastRun, RunEnd

LEMMA PastLineEnds ==
    ASSUME NEW U, NEW t \in Seq(U), NEW i \in Nat
    PROVE  /\ PastLine(t, i) \in i .. RunEnd(t, i)
           /\ \A k \in i .. PastLine(t, i) - 1 : t[k] # "\n"
           /\ PastLine(t, i) > Len(t) \/ t[PastLine(t, i)] = "\n"
<1> DEFINE In == {t[k] : k \in i .. RunEnd(t, i)} \ {"\n"}
<1>1. PICK j \in i .. RunEnd(t, i) : (\A k \in i .. j - 1 : t[k] \in In) /\ (j > Len(t) \/ t[j] \notin In)
  <2> HIDE DEF In
  <2> QED BY RunEnds
<1>2. (\A k \in i .. j - 1 : t[k] # "\n") /\ (j > Len(t) \/ t[j] = "\n")
  BY <1>1
<1> HIDE DEF In
<1> QED BY <1>1, <1>2 DEF PastLine, RunEnd

-----------------------------------------------------------------------------
\* Functions of a position that ask for later positions only, up to the last
\* unit L, exist, and what holds of a position when it holds of the later ones
\* holds of all.
LEMMA Backward ==
    ASSUME NEW L \in Nat, NEW S \in SUBSET Nat,
           \A k \in Nat : (k <= L => \A m \in Nat : m > k => m \in S) => k \in S
    PROVE  S = Nat
<1> DEFINE Left == {n \in Nat : \A k \in Nat : k + n > L => k \in S}
<1>1. \A n \in Nat : (\A m \in 0 .. n - 1 : m \in Left) => n \in Left
  <2> SUFFICES ASSUME NEW n \in Nat, \A m \in 0 .. n - 1 : m \in Left, NEW k \in Nat, k + n > L
               PROVE  k \in S
    OBVIOUS
  <2>1. CASE k > L
    BY <2>1
  <2>2. CASE k <= L
    <3>1. n - 1 \in 0 .. n - 1 /\ n - 1 \in Left
      BY <2>2
    <3>2. \A m \in Nat : m > k => m + (n - 1) > L
      OBVIOUS
    <3>3. \A m \in Nat : m > k => m \in S
      BY <3>1, <3>2
    <3> QED BY <3>3
  <2> QED BY <2>1, <2>2
<1>2. Left = Nat
  <2> HIDE DEF Left
  <2>1. Left \in SUBSET Nat
    BY DEF Left
  <2> QED BY <1>1, <2>1, NatBySmaller
<1>3. ASSUME NEW k \in Nat PROVE k \in S
  <2>1. L + 1 \in Nat /\ k + (L + 1) > L
    OBVIOUS
  <2>2. L + 1 \in Left
    <3> HIDE DEF Left
    <3> QED BY <1>2, <2>1
  <2> QED BY <2>1, <2>2
<1> QED BY <1>3

LooksAhead(H, V, L) ==
    /\ V # {} /\ H \in [Nat -> [[Nat -> V] -> V]]
    /\ \A x \in Nat : \A f, g \in [Nat -> V] :
           (x <= L => \A y \in Nat : y > x => f[y] = g[y]) => H[x][f] = H[x][g]
Solution(f, H, V) == f \in [Nat -> V] /\ \A x \in Nat : f[x] = H[x][f]

LEMMA Forward ==
    ASSUME NEW L \in Nat, NEW V, NEW H, LooksAhead(H, V, L)
    PROVE  \E f : Solution(f, H, V)
<1> USE DEF LooksAhead
<1> DEFINE Solves(f, n) == \A x \in Nat : x + n > L => f[x] = H[x][f]
           From == {n \in Nat : \E f \in [Nat -> V] : Solves(f, n)}
<1>1. 0 \in From
  <2>1. PICK v \in V : TRUE
    OBVIOUS
  <2> DEFINE e == [x \in Nat |-> v]
             g == [x \in Nat |-> H[x][e]]
  <2>2. e \in [Nat -> V] /\ g \in [Nat -> V] /\ \A x \in Nat : g[x] = H[x][e]
    OBVIOUS
  <2> HIDE DEF e, g
  <2>3. ASSUME NEW x \in Nat, x + 0 > L PROVE g[x] = H[x][g]
    <3>1. ~(x <= L)
      BY <2>3
    <3> QED BY <2>2, <3>1
  <2> QED BY <2>2, <2>3
<1>2. ASSUME NEW n \in Nat, n \in From PROVE n + 1 \in From
  <2>1. PICK f \in [Nat -> V] : Solves(f, n)
    BY <1>2
  <2> DEFINE g == [x \in Nat |-> H[x][f]]
  <2>2. g \in [Nat -> V] /\ \A x \in Nat : g[x] = H[x][f]
    OBVIOUS
  <2> HIDE DEF g
  <2>3. ASSUME NEW x \in Nat, x + (n + 1) > L PROVE g[x] = H[x][g]
    <3>1. ASSUME NEW y \in Nat, y > x PROVE f[y] = g[y]
      <4>1. y + n > L
        BY <2>3, <3>1
      <4> QED BY <2>1, <2>2, <4>1
    <3> QED BY <2>2, <3>1
  <2> QED BY <2>2, <2>3
<1>3. From = Nat
  <2> HIDE DEF From
  <2>1. From \in SUBSET Nat
    BY DEF From
  <2> QED BY <1>1, <1>2, <2>1, NatByNext
<1>4. PICK f \in [Nat -> V] : Solves(f, L + 1)
  <2>1. L + 1 \in Nat
    OBVIOUS
  <2>2. L + 1 \in From
    <3> HIDE DEF From
    <3> QED BY <1>3, <2>1
  <2> HIDE DEF Solves
  <2> QED BY <2>2
<1> QED BY <1>4 DEF Solution

-----------------------------------------------------------------------------
\* PastComment: the scan from k with depth comments open.
Marks == [next : Nat, depth : Nat]
CommentStep(past, t, k) ==
    [depth \in Nat |->
        IF k > Len(t) \/ depth = 0 THEN [next |-> k, depth |-> depth]
        ELSE IF IsBlockComment(t, k) THEN past[k + 2][depth + 1]
        ELSE IF IsCommentEnd(t, k) THEN past[k + 2][depth - 1]
        ELSE past[k + 1][depth]]
IsCommentScan(past, t) == past = [k \in Nat |-> CommentStep(past, t, k)]

LEMMA CommentScanned ==
    ASSUME NEW U, NEW t \in Seq(U)
    PROVE  \E past : IsCommentScan(past, t) /\ \A i \in Nat : PastComment(t, i) = past[i + 2][1]
<1> DEFINE V == [Nat -> Marks]
           H == [x \in Nat |-> [f \in [Nat -> V] |-> CommentStep(f, t, x)]]
<1>1. ASSUME NEW x \in Nat, NEW f \in [Nat -> V] PROVE CommentStep(f, t, x) \in V
  <2>1. ASSUME NEW d \in Nat, d # 0
        PROVE  f[x + 2][d + 1] \in Marks /\ f[x + 2][d - 1] \in Marks /\ f[x + 1][d] \in Marks
    <3>1. x + 1 \in Nat /\ x + 2 \in Nat /\ d + 1 \in Nat /\ d - 1 \in Nat
      BY <2>1
    <3> QED BY <3>1
  <2>2. \A d \in Nat : [next |-> x, depth |-> d] \in Marks
    BY DEF Marks
  <2> HIDE DEF V
  <2>3. CommentStep(f, t, x) \in [Nat -> Marks]
    BY <2>1, <2>2 DEF CommentStep
  <2> QED BY <2>3 DEF V
<1>2. H \in [Nat -> [[Nat -> V] -> V]]
  <2> HIDE DEF V
  <2> QED BY <1>1
<1>3. ASSUME NEW x \in Nat, NEW f \in [Nat -> V], NEW g \in [Nat -> V],
             x <= Len(t) => \A y \in Nat : y > x => f[y] = g[y]
      PROVE  H[x][f] = H[x][g]
  <2>1. CommentStep(f, t, x) = CommentStep(g, t, x)
    <3>1. CASE x <= Len(t)
      <4>1. f[x + 1] = g[x + 1] /\ f[x + 2] = g[x + 2]
        BY <1>3, <3>1
      <4> QED BY <4>1 DEF CommentStep
    <3>2. CASE ~(x <= Len(t))
      <4>1. x > Len(t)
        BY <3>2
      <4> QED BY <4>1 DEF CommentStep
    <3> QED BY <3>1, <3>2
  <2> HIDE DEF V
  <2> QED BY <2>1
<1>4. V # {}
  <2>1. [d \in Nat |-> [next |-> 0, depth |-> 0]] \in V
    BY DEF Marks
  <2> QED BY <2>1
<1>5. \E f : IsCommentScan(f, t)
  <2>1. Len(t) \in Nat
    OBVIOUS
  <2>2. LooksAhead(H, V, Len(t))
    <3> HIDE DEF V, H
    <3> QED BY <1>2, <1>3, <1>4 DEF LooksAhead
  <2>3. PICK f : Solution(f, H, V)
    <3> HIDE DEF V, H
    <3> QED BY <2>1, <2>2, Forward
  <2>4. f = [x \in Nat |-> CommentStep(f, t, x)]
    <3> HIDE DEF V
    <3> QED BY <2>3 DEF Solution
  <2> QED BY <2>4 DEF IsCommentScan
<1>6. IsCommentScan(CHOOSE past : IsCommentScan(past, t), t)
  BY <1>5
<1>7. \A i \in Nat : PastComment(t, i) = (CHOOSE past : IsCommentScan(past, t))[i + 2][1]
  BY DEF PastComment, IsCommentScan, CommentStep
<1> QED BY <1>6, <1>7

-----------------------------------------------------------------------------
\* CommentEnds: whether the units p .. q are the body of a comment.
BodyStep(body, t, p) ==
    [q \in 0 .. Len(t) |->
        \/ p > q
        \/ ~IsBlockComment(t, p) /\ ~IsCommentEnd(t, p) /\ body[p + 1][q]
        \/ /\ IsBlockComment(t, p)
           /\ \E r \in p + 3 .. q :
                  IsCommentEnd(t, r - 1) /\ body[p + 2][r - 2] /\ body[r + 1][q]]
IsBodyScan(body, t) == body = [p \in Nat |-> BodyStep(body, t, p)]

LEMMA BodiesScanned ==
    ASSUME NEW U, NEW t \in Seq(U)
    PROVE  \E body :
              /\ IsBodyScan(body, t)
              /\ \A i \in Nat : CommentEnds(t, i) =
                    {j \in i + 3 .. Len(t) :
                        IsBlockComment(t, i) /\ IsCommentEnd(t, j - 1) /\ body[i + 2][j - 2]}
<1> DEFINE V == [0 .. Len(t) -> BOOLEAN]
           H == [x \in Nat |-> [f \in [Nat -> V] |-> BodyStep(f, t, x)]]
<1>1. ASSUME NEW x \in Nat, NEW f \in [Nat -> V] PROVE BodyStep(f, t, x) \in V
  BY DEF BodyStep
<1>2. H \in [Nat -> [[Nat -> V] -> V]]
  <2> HIDE DEF V
  <2> QED BY <1>1
<1>3. ASSUME NEW x \in Nat, NEW f \in [Nat -> V], NEW g \in [Nat -> V],
             x <= Len(t) => \A y \in Nat : y > x => f[y] = g[y]
      PROVE  H[x][f] = H[x][g]
  <2>1. BodyStep(f, t, x) = BodyStep(g, t, x)
    <3>1. CASE x <= Len(t)
      <4>1. f[x + 1] = g[x + 1] /\ f[x + 2] = g[x + 2]
        BY <1>3, <3>1
      <4>2. \A q \in 0 .. Len(t) : \A r \in x + 3 .. q : f[r + 1] = g[r + 1]
        BY <1>3, <3>1
      <4> HIDE DEF V
      <4> QED BY <4>1, <4>2 DEF BodyStep
    <3>2. CASE ~(x <= Len(t))
      <4>1. \A q \in 0 .. Len(t) : x > q
        BY <3>2
      <4> QED BY <4>1 DEF BodyStep
    <3> QED BY <3>1, <3>2
  <2> HIDE DEF V
  <2> QED BY <2>1
<1>4. V # {}
  <2>1. [q \in 0 .. Len(t) |-> TRUE] \in V
    OBVIOUS
  <2> QED BY <2>1
<1>5. \E f : IsBodyScan(f, t)
  <2>1. Len(t) \in Nat
    OBVIOUS
  <2>2. LooksAhead(H, V, Len(t))
    <3> HIDE DEF V, H
    <3> QED BY <1>2, <1>3, <1>4 DEF LooksAhead
  <2>3. PICK f : Solution(f, H, V)
    <3> HIDE DEF V, H
    <3> QED BY <2>1, <2>2, Forward
  <2>4. f = [x \in Nat |-> BodyStep(f, t, x)]
    <3> HIDE DEF V
    <3> QED BY <2>3 DEF Solution
  <2> QED BY <2>4 DEF IsBodyScan
<1>6. IsBodyScan(CHOOSE body : IsBodyScan(body, t), t)
  BY <1>5
<1>7. \A i \in Nat : CommentEnds(t, i) =
         {j \in i + 3 .. Len(t) :
             /\ IsBlockComment(t, i) /\ IsCommentEnd(t, j - 1)
             /\ (CHOOSE body : IsBodyScan(body, t))[i + 2][j - 2]}
  BY DEF CommentEnds, IsBodyScan, BodyStep
<1> QED BY <1>6, <1>7

\* IsTrivia: whether the units from p up to j are trivia.
RestStep(rest, t, j, p) ==
    \/ p = j
    \/ p < j /\ t[p] \in Blanks \cup {"\n"} /\ rest[p + 1]
    \/ p < j /\ IsLineComment(t, p) /\ ~IsDocComment(t, p) /\ rest[PastLine(t, p)]
    \/ p < j /\ \E q \in CommentEnds(t, p) : rest[q + 1]
IsRestScan(rest, t, j) == rest = [p \in Nat |-> RestStep(rest, t, j, p)]

\* A line that begins with a comment does not end where it begins.
LEMMA LineLater ==
    ASSUME NEW U, NEW t \in Seq(U), NEW p \in Nat, IsLineComment(t, p)
    PROVE  PastLine(t, p) \in Nat /\ PastLine(t, p) > p /\ PastLine(t, p) <= Len(t) + 1
<1>1. p <= Len(t) /\ t[p] = "/"
  BY DEF IsLineComment, At
<1>2. PastLine(t, p) \in p .. Len(t) + 1 /\ (PastLine(t, p) > Len(t) \/ t[PastLine(t, p)] = "\n")
  BY <1>1, PastLineEnds DEF RunEnd
<1>3. PastLine(t, p) # p
  BY <1>1, <1>2
<1> QED BY <1>2, <1>3

LEMMA TriviaScanned ==
    ASSUME NEW U, NEW t \in Seq(U), NEW j \in Nat
    PROVE  \E rest : IsRestScan(rest, t, j) /\ \A i \in Nat : IsTrivia(t, i, j) = rest[i]
<1> DEFINE V == BOOLEAN
           H == [x \in Nat |-> [f \in [Nat -> V] |-> RestStep(f, t, j, x)]]
<1>1. ASSUME NEW x \in Nat, NEW f \in [Nat -> V] PROVE RestStep(f, t, j, x) \in V
  BY DEF RestStep
<1>2. H \in [Nat -> [[Nat -> V] -> V]]
  <2> HIDE DEF V
  <2> QED BY <1>1
<1>3. ASSUME NEW x \in Nat, NEW f \in [Nat -> V], NEW g \in [Nat -> V],
             x <= j => \A y \in Nat : y > x => f[y] = g[y]
      PROVE  H[x][f] = H[x][g]
  <2>1. RestStep(f, t, j, x) = RestStep(g, t, j, x)
    <3>1. CASE x <= j
      <4>1. f[x + 1] = g[x + 1]
        BY <1>3, <3>1
      <4>2. IsLineComment(t, x) => f[PastLine(t, x)] = g[PastLine(t, x)]
        BY <1>3, <3>1, LineLater
      <4>3. \A q \in CommentEnds(t, x) : f[q + 1] = g[q + 1]
        <5> SUFFICES ASSUME NEW q \in CommentEnds(t, x) PROVE f[q + 1] = g[q + 1]
          OBVIOUS
        <5>1. q \in x + 3 .. Len(t)
          BY BodiesScanned
        <5> QED BY <1>3, <3>1, <5>1
      <4> HIDE DEF V
      <4> QED BY <4>1, <4>2, <4>3 DEF RestStep
    <3>2. CASE ~(x <= j)
      <4>1. ~(x < j) /\ x # j
        BY <3>2
      <4> QED BY <4>1 DEF RestStep
    <3> QED BY <3>1, <3>2
  <2> HIDE DEF V
  <2> QED BY <2>1
<1>4. V # {}
  OBVIOUS
<1>5. \E f : IsRestScan(f, t, j)
  <2>1. LooksAhead(H, V, j)
    <3> HIDE DEF V, H
    <3> QED BY <1>2, <1>3, <1>4 DEF LooksAhead
  <2>2. PICK f : Solution(f, H, V)
    <3> HIDE DEF V, H
    <3> QED BY <2>1, Forward
  <2>3. f = [x \in Nat |-> RestStep(f, t, j, x)]
    <3> HIDE DEF V
    <3> QED BY <2>2 DEF Solution
  <2> QED BY <2>3 DEF IsRestScan
<1>6. IsRestScan(CHOOSE rest : IsRestScan(rest, t, j), t, j)
  BY <1>5
<1>7. \A i \in Nat : IsTrivia(t, i, j) = (CHOOSE rest : IsRestScan(rest, t, j))[i]
  BY DEF IsTrivia, IsRestScan, RestStep
<1> QED BY <1>6, <1>7

LEMMA TriviaUnfolds ==
    ASSUME NEW U, NEW t \in Seq(U), NEW i \in Nat, NEW j \in Nat
    PROVE  IsTrivia(t, i, j) <=>
              \/ i = j
              \/ i < j /\ t[i] \in Blanks \cup {"\n"} /\ IsTrivia(t, i + 1, j)
              \/ i < j /\ IsLineComment(t, i) /\ ~IsDocComment(t, i) /\ IsTrivia(t, PastLine(t, i), j)
              \/ i < j /\ \E q \in CommentEnds(t, i) : IsTrivia(t, q + 1, j)
<1>1. PICK rest : IsRestScan(rest, t, j) /\ \A k \in Nat : IsTrivia(t, k, j) = rest[k]
  BY TriviaScanned
<1>2. rest[i] = RestStep(rest, t, j, i)
  BY <1>1 DEF IsRestScan
<1>3. IsTrivia(t, i, j) = rest[i] /\ IsTrivia(t, i + 1, j) = rest[i + 1]
  BY <1>1
<1>4. IsLineComment(t, i) => IsTrivia(t, PastLine(t, i), j) = rest[PastLine(t, i)]
  BY <1>1, LineLater
<1>5. ASSUME NEW q \in CommentEnds(t, i) PROVE IsTrivia(t, q + 1, j) = rest[q + 1]
  <2>1. q \in i + 3 .. Len(t)
    BY BodiesScanned
  <2>2. q + 1 \in Nat
    BY <2>1
  <2> QED BY <1>1, <2>2
<1> QED BY <1>2, <1>3, <1>4, <1>5 DEF RestStep

\* Trivia up to j and from j on are trivia.
LEMMA TriviaJoins ==
    ASSUME NEW U, NEW t \in Seq(U), NEW i \in Nat, NEW j \in Nat, NEW l \in Nat, j <= l,
           IsTrivia(t, i, j), IsTrivia(t, j, l)
    PROVE  IsTrivia(t, i, l)
<1> DEFINE S == {p \in Nat : IsTrivia(t, p, j) => IsTrivia(t, p, l)}
<1>1. ASSUME NEW p \in Nat, p <= j => \A m \in Nat : m > p => m \in S, IsTrivia(t, p, j)
      PROVE  IsTrivia(t, p, l)
  <2>1. CASE p = j
    BY <2>1
  <2>2. CASE p # j
    <3>1. p < j /\ p < l
      BY <1>1, <2>2, TriviaUnfolds
    <3>2. \A m \in Nat : m > p => m \in S
      BY <1>1, <3>1
    <3>3. CASE t[p] \in Blanks \cup {"\n"} /\ IsTrivia(t, p + 1, j)
      <4>1. IsTrivia(t, p + 1, l)
        BY <3>2, <3>3
      <4> QED BY <3>1, <3>3, <4>1, TriviaUnfolds
    <3>4. CASE IsLineComment(t, p) /\ ~IsDocComment(t, p) /\ IsTrivia(t, PastLine(t, p), j)
      <4>1. IsTrivia(t, PastLine(t, p), l)
        BY <3>2, <3>4, LineLater
      <4> QED BY <3>1, <3>4, <4>1, TriviaUnfolds
    <3>5. CASE \E q \in CommentEnds(t, p) : IsTrivia(t, q + 1, j)
      <4>1. PICK q \in CommentEnds(t, p) : IsTrivia(t, q + 1, j)
        BY <3>5
      <4>2. q \in p + 3 .. Len(t)
        BY <4>1, BodiesScanned
      <4>3. q + 1 \in Nat /\ q + 1 > p
        BY <4>2
      <4>4. IsTrivia(t, q + 1, l)
        BY <3>2, <4>1, <4>3
      <4> QED BY <3>1, <4>1, <4>4, TriviaUnfolds
    <3> QED BY <1>1, <2>2, <3>3, <3>4, <3>5, TriviaUnfolds
  <2> QED BY <2>1, <2>2
<1>2. S = Nat
  <2>1. \A p \in Nat : (p <= j => \A m \in Nat : m > p => m \in S) => p \in S
    BY <1>1
  <2> HIDE DEF S
  <2>2. S \in SUBSET Nat
    BY DEF S
  <2> QED BY <2>1, <2>2, Backward
<1> QED BY <1>2

\* The scan that counts the open comments closes the comment where the grammar
\* of comments lets it end.
CommentClosed(past, body, t, k, d) ==
    \E r \in k + 1 .. Len(t) :
        IsCommentEnd(t, r - 1) /\ body[k][r - 2] /\ past[k][d] = past[r + 1][d - 1]
CommentFrom(past, body, t, k) ==
    k >= 1 /\ k <= Len(t) + 1 =>
        \A d \in Nat :
            /\ past[k][d] \in Marks /\ past[k][d].next \in k .. Len(t) + 1
            /\ d >= 1 /\ past[k][d].depth = 0 => CommentClosed(past, body, t, k, d)

LEMMA CommentCloses ==
    ASSUME NEW U, NEW t \in Seq(U), NEW past, IsCommentScan(past, t), NEW body, IsBodyScan(body, t),
           NEW k \in Nat, k <= Len(t) => \A m \in Nat : m > k => CommentFrom(past, body, t, m)
    PROVE  CommentFrom(past, body, t, k)
<1> SUFFICES ASSUME k >= 1, k <= Len(t) + 1, NEW d \in Nat
             PROVE  /\ past[k][d] \in Marks /\ past[k][d].next \in k .. Len(t) + 1
                    /\ d >= 1 /\ past[k][d].depth = 0 => CommentClosed(past, body, t, k, d)
  BY DEF CommentFrom
<1> DEFINE L == Len(t)
<1>0. L \in Nat
  OBVIOUS
<1>1. past[k][d] = IF k > L \/ d = 0 THEN [next |-> k, depth |-> d]
                   ELSE IF IsBlockComment(t, k) THEN past[k + 2][d + 1]
                   ELSE IF IsCommentEnd(t, k) THEN past[k + 2][d - 1]
                   ELSE past[k + 1][d]
  BY DEF IsCommentScan, CommentStep
<1>2. ASSUME NEW p \in Nat, NEW q \in 0 .. L
      PROVE  body[p][q] <=>
                \/ p > q
                \/ ~IsBlockComment(t, p) /\ ~IsCommentEnd(t, p) /\ body[p + 1][q]
                \/ /\ IsBlockComment(t, p)
                   /\ \E r \in p + 3 .. q :
                          IsCommentEnd(t, r - 1) /\ body[p + 2][r - 2] /\ body[r + 1][q]
  BY DEF IsBodyScan, BodyStep
<1> HIDE DEF L
<1>3. CASE k > L \/ d = 0
  <2>1. past[k][d] = [next |-> k, depth |-> d]
    BY <1>1, <1>3
  <2>2. ~(d >= 1 /\ d = 0)
    OBVIOUS
  <2>3. d >= 1 => past[k][d].depth # 0
    BY <2>1, <2>2
  <2> QED BY <1>0, <2>1, <2>3 DEF Marks, L
<1>4. CASE k <= L /\ d >= 1
  <2>1. \A m \in Nat : m > k => CommentFrom(past, body, t, m)
    BY <1>4 DEF L
  <2>2. CASE IsBlockComment(t, k)
    <3>1. k + 2 \in Nat /\ k + 2 <= L + 1
      BY <1>0, <2>2 DEF IsBlockComment, At, L
    <3>2. past[k][d] = past[k + 2][d + 1] /\ d + 1 \in Nat
      BY <1>0, <1>1, <1>4, <2>2
    <3>3. /\ past[k + 2][d + 1] \in Marks /\ past[k + 2][d + 1].next \in k + 2 .. L + 1
          /\ past[k + 2][d + 1].depth = 0 => CommentClosed(past, body, t, k + 2, d + 1)
      BY <2>1, <3>1, <3>2 DEF CommentFrom, L
    <3>4. ASSUME past[k][d].depth = 0 PROVE CommentClosed(past, body, t, k, d)
      <4>1. PICK r1 \in k + 3 .. L : /\ IsCommentEnd(t, r1 - 1) /\ body[k + 2][r1 - 2]
                                     /\ past[k + 2][d + 1] = past[r1 + 1][d]
        <5>1. CommentClosed(past, body, t, k + 2, d + 1)
          BY <3>2, <3>3, <3>4
        <5>2. (k + 2) + 1 = k + 3 /\ (d + 1) - 1 = d
          OBVIOUS
        <5> QED BY <5>1, <5>2 DEF CommentClosed, L
      <4>2. r1 + 1 \in Nat /\ r1 + 1 > k /\ r1 + 1 <= L + 1 /\ r1 \in Nat
        BY <1>0, <4>1
      <4>3. CommentClosed(past, body, t, r1 + 1, d)
        <5>1. past[r1 + 1][d].depth = 0 /\ r1 + 1 >= 1
          BY <3>2, <3>4, <4>1, <4>2
        <5> QED BY <1>4, <2>1, <4>2, <5>1 DEF CommentFrom, L
      <4>4. PICK r \in (r1 + 1) + 1 .. L : /\ IsCommentEnd(t, r - 1) /\ body[r1 + 1][r - 2]
                                           /\ past[r1 + 1][d] = past[r + 1][d - 1]
        BY <4>3 DEF CommentClosed, L
      <4>5. r \in k + 1 .. L /\ r - 2 \in 0 .. L /\ r1 \in k + 3 .. r - 2
        BY <1>0, <4>1, <4>2, <4>4
      <4>6. body[k][r - 2]
        BY <1>2, <2>2, <4>1, <4>4, <4>5
      <4>7. past[k][d] = past[r + 1][d - 1]
        BY <3>2, <4>1, <4>4
      <4> QED BY <4>4, <4>5, <4>6, <4>7 DEF CommentClosed, L
    <3>5. past[k][d].next \in k .. L + 1
      BY <1>0, <3>2, <3>3
    <3> QED BY <3>2, <3>3, <3>4, <3>5 DEF L
  <2>3. CASE ~IsBlockComment(t, k) /\ IsCommentEnd(t, k)
    <3>1. k + 2 \in Nat /\ k + 2 <= L + 1
      BY <1>0, <2>3 DEF IsCommentEnd, At, L
    <3>2. past[k][d] = past[k + 2][d - 1] /\ d - 1 \in Nat
      BY <1>0, <1>1, <1>4, <2>3
    <3>3. past[k + 2][d - 1] \in Marks /\ past[k + 2][d - 1].next \in k + 2 .. L + 1
      BY <2>1, <3>1, <3>2 DEF CommentFrom, L
    <3>4. CommentClosed(past, body, t, k, d)
      <4>1. k + 1 \in k + 1 .. L /\ (k + 1) - 1 = k /\ (k + 1) + 1 = k + 2
        BY <1>0, <3>1
      <4>2. (k + 1) - 2 \in 0 .. L /\ k > (k + 1) - 2
        BY <1>0, <3>1
      <4>3. body[k][(k + 1) - 2]
        BY <1>2, <4>2
      <4> QED BY <2>3, <3>2, <4>1, <4>3 DEF CommentClosed, L
    <3>5. past[k][d].next \in k .. L + 1
      BY <1>0, <3>2, <3>3
    <3> QED BY <3>2, <3>3, <3>4, <3>5 DEF L
  <2>4. CASE ~IsBlockComment(t, k) /\ ~IsCommentEnd(t, k)
    <3>1. k + 1 \in Nat /\ k + 1 <= L + 1
      BY <1>0, <1>4
    <3>2. past[k][d] = past[k + 1][d]
      BY <1>0, <1>1, <1>4, <2>4
    <3>3. /\ past[k + 1][d] \in Marks /\ past[k + 1][d].next \in k + 1 .. L + 1
          /\ past[k + 1][d].depth = 0 => CommentClosed(past, body, t, k + 1, d)
      BY <1>4, <2>1, <3>1 DEF CommentFrom, L
    <3>4. ASSUME past[k][d].depth = 0 PROVE CommentClosed(past, body, t, k, d)
      <4>1. PICK r \in (k + 1) + 1 .. L : /\ IsCommentEnd(t, r - 1) /\ body[k + 1][r - 2]
                                          /\ past[k + 1][d] = past[r + 1][d - 1]
        BY <3>2, <3>3, <3>4 DEF CommentClosed, L
      <4>2. r \in k + 1 .. L /\ r - 2 \in 0 .. L
        BY <1>0, <4>1
      <4>3. body[k][r - 2]
        BY <1>2, <2>4, <4>1, <4>2
      <4> QED BY <3>2, <4>1, <4>2, <4>3 DEF CommentClosed, L
    <3>5. past[k][d].next \in k .. L + 1
      BY <1>0, <3>2, <3>3
    <3> QED BY <3>2, <3>3, <3>4, <3>5 DEF L
  <2> QED BY <2>2, <2>3, <2>4
<1>5. k > L \/ d = 0 \/ (k <= L /\ d >= 1)
  BY <1>0
<1> QED BY <1>3, <1>4, <1>5

LEMMA CommentPassed ==
    ASSUME NEW U, NEW t \in Seq(U), NEW i \in Nat, IsBlockComment(t, i)
    PROVE  /\ PastComment(t, i) \in Marks /\ PastComment(t, i).next \in i + 2 .. Len(t) + 1
           /\ PastComment(t, i).depth = 0 => PastComment(t, i).next - 1 \in CommentEnds(t, i)
<1>1. PICK past : IsCommentScan(past, t) /\ \A k \in Nat : PastComment(t, k) = past[k + 2][1]
  BY CommentScanned
<1>2. PICK body : /\ IsBodyScan(body, t)
                  /\ \A k \in Nat : CommentEnds(t, k) =
                        {j \in k + 3 .. Len(t) :
                            IsBlockComment(t, k) /\ IsCommentEnd(t, j - 1) /\ body[k + 2][j - 2]}
  BY BodiesScanned
<1>3. \A k \in Nat : CommentFrom(past, body, t, k)
  <2> DEFINE S == {k \in Nat : CommentFrom(past, body, t, k)}
  <2>1. \A k \in Nat : (k <= Len(t) => \A m \in Nat : m > k => m \in S) => k \in S
    BY <1>1, <1>2, CommentCloses
  <2> HIDE DEF S
  <2>2. S \in SUBSET Nat /\ Len(t) \in Nat
    BY DEF S
  <2>3. S = Nat
    BY <2>1, <2>2, Backward
  <2> QED BY <2>3 DEF S
<1>4. i + 2 \in Nat /\ i + 2 <= Len(t) + 1
  BY DEF IsBlockComment, At
<1>5. PastComment(t, i) = past[i + 2][1]
  BY <1>1
<1>6. /\ past[i + 2][1] \in Marks /\ past[i + 2][1].next \in i + 2 .. Len(t) + 1
      /\ past[i + 2][1].depth = 0 => CommentClosed(past, body, t, i + 2, 1)
  <2>1. 1 \in Nat /\ 1 >= 1 /\ i + 2 >= 1
    OBVIOUS
  <2> QED BY <1>3, <1>4, <2>1 DEF CommentFrom
<1>7. ASSUME PastComment(t, i).depth = 0 PROVE PastComment(t, i).next - 1 \in CommentEnds(t, i)
  <2>1. PICK r \in (i + 2) + 1 .. Len(t) : /\ IsCommentEnd(t, r - 1) /\ body[i + 2][r - 2]
                                           /\ past[i + 2][1] = past[r + 1][1 - 1]
    BY <1>5, <1>6, <1>7 DEF CommentClosed
  <2>2. r + 1 \in Nat /\ 1 - 1 = 0 /\ r \in i + 3 .. Len(t) /\ (r + 1) - 1 = r
    BY <2>1
  <2>3. past[r + 1][0] = [next |-> r + 1, depth |-> 0]
    BY <1>1, <2>2 DEF IsCommentScan, CommentStep
  <2>4. PastComment(t, i).next = r + 1
    BY <1>5, <2>1, <2>2, <2>3
  <2>5. r \in CommentEnds(t, i)
    BY <1>2, <2>1, <2>2
  <2> QED BY <2>2, <2>4, <2>5
<1> QED BY <1>5, <1>6, <1>7

-----------------------------------------------------------------------------
\* PastLiteral: the scan from k of the literal at i.  It stays within the text
\* but for a backslash at its end.
Within(t, n) == n <= Len(t) + 1 \/ (n = Len(t) + 2 /\ t[Len(t)] = "\\")
LiteralEnd == [next : Nat, closed : BOOLEAN, bad : BOOLEAN]
LiteralStep(past, t, i, k) ==
    IF k > Len(t) \/ At(t, k) = "\n" THEN [next |-> k, closed |-> FALSE, bad |-> FALSE]
    ELSE IF t[k] = t[i] THEN [next |-> k + 1, closed |-> TRUE, bad |-> FALSE]
    ELSE IF t[k] # "\\" THEN past[k + 1]
    ELSE IF At(t, k + 1) = "\n" THEN [next |-> k, closed |-> FALSE, bad |-> FALSE]
    ELSE IF IsUnicodeEscape(t, k) THEN past[PastRun(t, k + 3, HexDigits) + 1]
    ELSE IF At(t, k + 1) \in ValidEscapes THEN past[k + 2]
    ELSE [past[k + 2] EXCEPT !.bad = TRUE]
IsLiteralScan(past, t, i) == past = [k \in Nat |-> LiteralStep(past, t, i, k)]

LEMMA LiteralScanned ==
    ASSUME NEW U, NEW t \in Seq(U), NEW i \in Nat
    PROVE  \E past : IsLiteralScan(past, t, i) /\ PastLiteral(t, i) = past[i + 1]
<1> DEFINE V == LiteralEnd
           H == [x \in Nat |-> [f \in [Nat -> V] |-> LiteralStep(f, t, i, x)]]
           Brace(x) == PastRun(t, x + 3, HexDigits) + 1
<1>0. ASSUME NEW x \in Nat PROVE Brace(x) \in Nat /\ Brace(x) > x
  <2>1. PastRun(t, x + 3, HexDigits) \in x + 3 .. RunEnd(t, x + 3) /\ RunEnd(t, x + 3) \in Nat
    BY PastRunEnds DEF RunEnd
  <2> QED BY <2>1
<1>1. ASSUME NEW x \in Nat, NEW f \in [Nat -> V] PROVE LiteralStep(f, t, i, x) \in V
  <2>1. f[x + 1] \in V /\ f[x + 2] \in V /\ f[Brace(x)] \in V
    <3> HIDE DEF V, Brace
    <3> QED BY <1>0
  <2>2. [f[x + 2] EXCEPT !.bad = TRUE] \in V
    BY <2>1 DEF LiteralEnd
  <2>3. /\ [next |-> x, closed |-> FALSE, bad |-> FALSE] \in V
        /\ [next |-> x + 1, closed |-> TRUE, bad |-> FALSE] \in V
    BY DEF LiteralEnd
  <2> HIDE DEF V
  <2> QED BY <2>1, <2>2, <2>3 DEF LiteralStep
<1>2. H \in [Nat -> [[Nat -> V] -> V]]
  <2> HIDE DEF V
  <2> QED BY <1>1
<1>3. ASSUME NEW x \in Nat, NEW f \in [Nat -> V], NEW g \in [Nat -> V],
             x <= Len(t) => \A y \in Nat : y > x => f[y] = g[y]
      PROVE  H[x][f] = H[x][g]
  <2> HIDE DEF V
  <2>1. LiteralStep(f, t, i, x) = LiteralStep(g, t, i, x)
    <3>1. CASE x <= Len(t)
      <4>1. f[x + 1] = g[x + 1] /\ f[x + 2] = g[x + 2] /\ f[Brace(x)] = g[Brace(x)]
        <5> HIDE DEF Brace
        <5> QED BY <1>0, <1>3, <3>1
      <4> QED BY <4>1 DEF LiteralStep
    <3>2. CASE ~(x <= Len(t))
      <4>1. x > Len(t)
        BY <3>2
      <4> QED BY <4>1 DEF LiteralStep
    <3> QED BY <3>1, <3>2
  <2> QED BY <2>1
<1>4. V # {}
  <2>1. [next |-> 0, closed |-> FALSE, bad |-> FALSE] \in V
    BY DEF LiteralEnd
  <2> QED BY <2>1
<1>5. \E f : IsLiteralScan(f, t, i)
  <2>1. Len(t) \in Nat
    OBVIOUS
  <2>2. LooksAhead(H, V, Len(t))
    <3> HIDE DEF V, H
    <3> QED BY <1>2, <1>3, <1>4 DEF LooksAhead
  <2>3. PICK f : Solution(f, H, V)
    <3> HIDE DEF V, H
    <3> QED BY <2>1, <2>2, Forward
  <2>4. f = [x \in Nat |-> LiteralStep(f, t, i, x)]
    <3> HIDE DEF V
    <3> QED BY <2>3 DEF Solution
  <2> QED BY <2>4 DEF IsLiteralScan
<1>6. IsLiteralScan(CHOOSE past : IsLiteralScan(past, t, i), t, i)
  BY <1>5
<1>7. PastLiteral(t, i) = (CHOOSE past : IsLiteralScan(past, t, i))[i + 1]
  BY DEF PastLiteral, IsLiteralScan, LiteralStep
<1> QED BY <1>6, <1>7

LiteralFrom(past, t, k) ==
    k >= 1 /\ Within(t, k) =>
        /\ past[k] \in LiteralEnd /\ past[k].next >= k /\ Within(t, past[k].next)
        /\ past[k].closed => past[k].next <= Len(t) + 1

LEMMA LiteralGoesOn ==
    ASSUME NEW U, NEW t \in Seq(U), NEW i \in Nat, NEW past, IsLiteralScan(past, t, i), NEW k \in Nat,
           k <= Len(t) => \A m \in Nat : m > k => LiteralFrom(past, t, m)
    PROVE  LiteralFrom(past, t, k)
<1> SUFFICES ASSUME k >= 1, Within(t, k)
             PROVE  /\ past[k] \in LiteralEnd /\ past[k].next >= k /\ Within(t, past[k].next)
                    /\ past[k].closed => past[k].next <= Len(t) + 1
  BY DEF LiteralFrom
<1> DEFINE L == Len(t)
<1>0. L \in Nat
  OBVIOUS
<1>1. past[k] = LiteralStep(past, t, i, k)
  BY DEF IsLiteralScan
<1>2. ASSUME k <= L, NEW m \in Nat, m > k, Within(t, m), past[k] = past[m]
      PROVE  /\ past[k] \in LiteralEnd /\ past[k].next >= k /\ Within(t, past[k].next)
             /\ past[k].closed => past[k].next <= Len(t) + 1
  <2>1. /\ past[m] \in LiteralEnd /\ past[m].next >= m /\ Within(t, past[m].next)
        /\ past[m].closed => past[m].next <= Len(t) + 1
    BY <1>2 DEF LiteralFrom
  <2>2. past[m].next \in Nat
    BY <2>1 DEF LiteralEnd
  <2> QED BY <1>2, <2>1, <2>2
<1>3. CASE k > L \/ At(t, k) = "\n"
  <2>1. past[k] = [next |-> k, closed |-> FALSE, bad |-> FALSE]
    BY <1>1, <1>3 DEF LiteralStep
  <2> QED BY <2>1 DEF LiteralEnd
<1>4. CASE k <= L /\ At(t, k) # "\n" /\ t[k] = t[i]
  <2>1. past[k] = [next |-> k + 1, closed |-> TRUE, bad |-> FALSE] /\ k + 1 \in Nat /\ k + 1 >= k
    BY <1>0, <1>1, <1>4 DEF LiteralStep
  <2>2. Within(t, k + 1) /\ k + 1 <= Len(t) + 1
    BY <1>0, <1>4 DEF Within
  <2> QED BY <2>1, <2>2 DEF LiteralEnd
<1>5. CASE k <= L /\ At(t, k) # "\n" /\ t[k] # t[i] /\ t[k] # "\\"
  <2>1. past[k] = past[k + 1] /\ k + 1 \in Nat /\ k + 1 > k
    BY <1>0, <1>1, <1>5 DEF LiteralStep
  <2>2. Within(t, k + 1)
    BY <1>0, <1>5 DEF Within
  <2> QED BY <1>2, <1>5, <2>1, <2>2
<1>6. CASE k <= L /\ At(t, k) # "\n" /\ t[k] # t[i] /\ t[k] = "\\"
  <2>0. ~(k > L)
    BY <1>0, <1>6
  <2>1. CASE At(t, k + 1) = "\n"
    <3>1. past[k] = [next |-> k, closed |-> FALSE, bad |-> FALSE]
      BY <1>1, <1>6, <2>0, <2>1 DEF LiteralStep
    <3> QED BY <3>1 DEF LiteralEnd
  <2>2. CASE At(t, k + 1) # "\n" /\ IsUnicodeEscape(t, k)
    <3> DEFINE brace == PastRun(t, k + 3, HexDigits)
    <3>1. past[k] = past[brace + 1]
      BY <1>1, <1>6, <2>0, <2>2 DEF LiteralStep
    <3>2. brace \in k + 3 .. RunEnd(t, k + 3) /\ RunEnd(t, k + 3) \in Nat
      BY PastRunEnds DEF RunEnd
    <3>3. At(t, brace) = "}"
      BY <2>2 DEF IsUnicodeEscape
    <3> HIDE DEF brace
    <3>4. brace <= L
      BY <1>0, <3>2, <3>3 DEF At
    <3>5. brace + 1 \in Nat /\ brace + 1 > k /\ Within(t, brace + 1)
      BY <1>0, <3>2, <3>4 DEF Within
    <3> QED BY <1>2, <1>6, <3>1, <3>5
  <2>3. CASE At(t, k + 1) # "\n" /\ ~IsUnicodeEscape(t, k)
    <3>1. k + 2 \in Nat /\ k + 2 > k /\ Within(t, k + 2)
      <4>1. CASE k = L
        BY <1>6, <4>1 DEF Within
      <4>2. CASE k < L
        BY <1>0, <4>2 DEF Within
      <4> QED BY <1>0, <1>6, <4>1, <4>2
    <3>2. past[k] = past[k + 2] \/ past[k] = [past[k + 2] EXCEPT !.bad = TRUE]
      BY <1>1, <1>6, <2>0, <2>3 DEF LiteralStep
    <3>3. CASE past[k] = [past[k + 2] EXCEPT !.bad = TRUE]
      <4>1. /\ past[k + 2] \in LiteralEnd /\ past[k + 2].next >= k + 2
            /\ Within(t, past[k + 2].next)
            /\ past[k + 2].closed => past[k + 2].next <= Len(t) + 1
        BY <1>6, <3>1 DEF LiteralFrom
      <4>2. past[k] \in LiteralEnd /\ past[k].next = past[k + 2].next /\ past[k].closed = past[k + 2].closed
        BY <3>3, <4>1 DEF LiteralEnd
      <4>3. past[k].next \in Nat
        BY <4>2 DEF LiteralEnd
      <4> QED BY <4>1, <4>2, <4>3
    <3> QED BY <1>2, <1>6, <3>1, <3>2, <3>3
  <2> QED BY <2>1, <2>2, <2>3
<1>7. k > L \/ k <= L
  BY <1>0
<1> QED BY <1>3, <1>4, <1>5, <1>6, <1>7

LEMMA LiteralPassed ==
    ASSUME NEW U, NEW t \in Seq(U), NEW i \in Nat, i >= 1, i <= Len(t)
    PROVE  /\ PastLiteral(t, i) \in LiteralEnd
           /\ PastLiteral(t, i).next > i /\ Within(t, PastLiteral(t, i).next)
           /\ PastLiteral(t, i).closed => PastLiteral(t, i).next <= Len(t) + 1
<1>1. PICK past : IsLiteralScan(past, t, i) /\ PastLiteral(t, i) = past[i + 1]
  BY LiteralScanned
<1>2. LiteralFrom(past, t, i + 1)
  <2> DEFINE S == {k \in Nat : LiteralFrom(past, t, k)}
  <2>1. \A k \in Nat : (k <= Len(t) => \A m \in Nat : m > k => m \in S) => k \in S
    BY <1>1, LiteralGoesOn
  <2>2. i + 1 \in Nat
    OBVIOUS
  <2> HIDE DEF S
  <2>3. S \in SUBSET Nat /\ Len(t) \in Nat
    BY DEF S
  <2>4. S = Nat
    BY <2>1, <2>3, Backward
  <2> QED BY <2>2, <2>4 DEF S
<1>3. i + 1 >= 1 /\ Within(t, i + 1)
  BY DEF Within
<1>4. /\ past[i + 1] \in LiteralEnd /\ past[i + 1].next >= i + 1 /\ Within(t, past[i + 1].next)
      /\ past[i + 1].closed => past[i + 1].next <= Len(t) + 1
  BY <1>2, <1>3 DEF LiteralFrom
<1>5. past[i + 1].next \in Nat
  BY <1>4 DEF LiteralEnd
<1> QED BY <1>1, <1>4, <1>5

-----------------------------------------------------------------------------
\* What a lex_ function leaves at a unit of the text: a token of a known kind
\* that takes that unit at least, and no more than the text, but for an
\* unclosed literal that ends in a backslash.
Codes == {"None", "InvalidChar", "InvalidNumber", "InvalidEscape", "UnterminatedString",
          "UnterminatedChar", "UnterminatedBlockComment"}
Read(t, i, x) ==
    /\ x \in [kind : Kind, next : Nat, code : Codes]
    /\ x.next > i /\ Within(t, x.next)
    /\ x.kind # "Error" => x.next <= Len(t) + 1
TextAt(U, t, i) == t \in Seq(U) /\ i \in Nat /\ i >= 1 /\ i <= Len(t)

LEMMA LexemeRead ==
    ASSUME NEW U, NEW t \in Seq(U), NEW i \in Nat, NEW n \in Nat, n > i, n <= Len(t) + 1, NEW kind \in Kind
    PROVE  Read(t, i, Lexeme(kind, n))
BY DEF Read, Lexeme, Codes, Within

LEMMA BadRead ==
    ASSUME NEW U, NEW t \in Seq(U), NEW i \in Nat, NEW n \in Nat, n > i, Within(t, n), NEW code \in Codes
    PROVE  Read(t, i, Bad(code, n))
<1>1. "Error" \in Kind
  BY DEF Kind, Classes
<1> QED BY <1>1 DEF Read, Bad

\* A run from inside the text, or from its end, does not leave it.
LEMMA RunWithin ==
    ASSUME NEW U, NEW t \in Seq(U), NEW i \in Nat, i <= Len(t) + 1, NEW In
    PROVE  /\ PastRun(t, i, In) \in Nat /\ PastRun(t, i, In) >= i /\ PastRun(t, i, In) <= Len(t) + 1
           /\ i <= Len(t) /\ t[i] \in In => PastRun(t, i, In) > i
<1>1. PastRun(t, i, In) \in i .. Len(t) + 1 /\ (PastRun(t, i, In) > Len(t) \/ t[PastRun(t, i, In)] \notin In)
  BY PastRunEnds DEF RunEnd
<1>2. i <= Len(t) /\ t[i] \in In => PastRun(t, i, In) # i
  BY <1>1
<1> QED BY <1>1, <1>2

LEMMA BeforeEnd == ASSUME NEW U, NEW t, NEW i, TextAt(U, t, i) PROVE i <= Len(t) + 1
BY DEF TextAt

LEMMA IdentifierRead ==
    ASSUME NEW U, NEW t, NEW i, TextAt(U, t, i), t[i] \in Letters \cup {"_"}
    PROVE  Read(t, i, Identifier(t, i))
<1> USE DEF TextAt
<1> DEFINE n == PastRun(t, i, Alnum)
           kind == IF n = i + 1 /\ t[i] \in Keywords \cup {"_"} THEN t[i] ELSE "Ident"
<1>1. n \in Nat /\ n > i /\ n <= Len(t) + 1
  <2>1. t[i] \in Alnum
    BY DEF Alnum
  <2>2. i <= Len(t) + 1
    BY BeforeEnd
  <2> QED BY <2>1, <2>2, RunWithin
<1>2. kind \in Kind
  BY DEF Kind, Classes
<1>3. Identifier(t, i) = Lexeme(kind, n)
  BY DEF Identifier
<1> HIDE DEF n, kind
<1> QED BY <1>1, <1>2, <1>3, LexemeRead

LEMMA BasedRead ==
    ASSUME NEW U, NEW t, NEW i, TextAt(U, t, i), IsBased(t, i)
    PROVE  Read(t, i, BasedNumber(t, i))
<1> USE DEF TextAt
<1> DEFINE digits == PastRun(t, i + 2, BaseDigits(t[i + 1]) \cup {"_"})
           tail   == PastRun(t, digits, Alnum)
<1>1. i + 2 <= Len(t) + 1 /\ i + 2 \in Nat
  BY DEF IsBased, At
<1>2. digits \in Nat /\ digits >= i + 2 /\ digits <= Len(t) + 1
  BY <1>1, RunWithin
<1>3. BasedNumber(t, i) \in {Bad("InvalidNumber", tail), Bad("InvalidNumber", digits), Lexeme("Integer", tail)}
  BY DEF BasedNumber
<1> HIDE DEF digits
<1>4. tail \in Nat /\ tail >= digits /\ tail <= Len(t) + 1
  BY <1>2, RunWithin
<1> HIDE DEF tail
<1>5. tail > i /\ digits > i /\ Within(t, tail) /\ Within(t, digits)
  BY <1>2, <1>4 DEF Within
<1>6. "Integer" \in Kind /\ "InvalidNumber" \in Codes
  BY DEF Kind, Classes, Literals, Codes
<1>7. Read(t, i, Bad("InvalidNumber", tail)) /\ Read(t, i, Bad("InvalidNumber", digits))
      /\ Read(t, i, Lexeme("Integer", tail))
  BY <1>2, <1>4, <1>5, <1>6, LexemeRead, BadRead
<1> QED BY <1>3, <1>7

LEMMA DecimalRead ==
    ASSUME NEW U, NEW t, NEW i, TextAt(U, t, i), t[i] \in Digits
    PROVE  Read(t, i, DecimalNumber(t, i))
<1> USE DEF TextAt
<1> DEFINE whole    == PastRun(t, i, Digits \cup {"_"})
           fraction == PastFraction(t, whole)
           digits   == PastExponent(t, fraction)
           tail     == PastRun(t, digits, Alnum)
           kind     == IF digits = whole THEN "Integer" ELSE "Float"
<1>1. whole \in Nat /\ whole > i /\ whole <= Len(t) + 1
  <2>1. i <= Len(t) + 1
    OBVIOUS
  <2>2. t[i] \in Digits \cup {"_"}
    OBVIOUS
  <2> QED BY <2>1, <2>2, RunWithin
<1>2. DecimalNumber(t, i) \in {Bad("InvalidNumber", digits), Lexeme(kind, tail)}
  BY DEF DecimalNumber
<1> HIDE DEF whole
<1>3. fraction \in Nat /\ fraction >= whole /\ fraction <= Len(t) + 1
  <2>1. CASE At(t, whole) = "."
    <3>1. whole + 1 \in Nat /\ whole + 1 <= Len(t) + 1
      BY <1>1, <2>1 DEF At
    <3>2. /\ PastRun(t, whole + 1, Digits \cup {"_"}) \in Nat
          /\ PastRun(t, whole + 1, Digits \cup {"_"}) >= whole + 1
          /\ PastRun(t, whole + 1, Digits \cup {"_"}) <= Len(t) + 1
      BY <3>1, RunWithin
    <3>3. fraction \in {PastRun(t, whole + 1, Digits \cup {"_"}), whole}
      BY DEF PastFraction
    <3> DEFINE run == PastRun(t, whole + 1, Digits \cup {"_"})
    <3> HIDE DEF run, fraction
    <3>4. run \in Nat /\ run >= whole + 1 /\ run <= Len(t) + 1
      BY <3>2 DEF run
    <3>5. fraction = run \/ fraction = whole
      BY <3>3 DEF run
    <3> QED BY <1>1, <3>4, <3>5
  <2>2. CASE At(t, whole) # "."
    BY <1>1, <2>2 DEF PastFraction
  <2> QED BY <2>1, <2>2
<1> HIDE DEF fraction
<1>4. digits \in Nat /\ digits >= fraction /\ digits <= Len(t) + 1
  <2> DEFINE marked == /\ At(t, fraction) \in {"e", "E"}
                       /\ \/ At(t, fraction + 1) \in Digits
                          \/ At(t, fraction + 1) \in {"+", "-"} /\ At(t, fraction + 2) \in Digits
  <2>1. CASE marked
    <3>1. At(t, fraction + 1) # "NUL"
      BY <2>1 DEF Digits
    <3>2. fraction + 2 \in Nat /\ fraction + 2 <= Len(t) + 1
      BY <1>3, <3>1 DEF At
    <3>3. digits = PastRun(t, fraction + 2, Digits \cup {"_"})
      BY <2>1 DEF PastExponent
    <3>4. /\ PastRun(t, fraction + 2, Digits \cup {"_"}) \in Nat
          /\ PastRun(t, fraction + 2, Digits \cup {"_"}) >= fraction + 2
          /\ PastRun(t, fraction + 2, Digits \cup {"_"}) <= Len(t) + 1
      BY <3>2, RunWithin
    <3> HIDE DEF digits
    <3>5. digits \in Nat /\ digits >= fraction + 2 /\ digits <= Len(t) + 1
      BY <3>3, <3>4
    <3> QED BY <1>3, <3>5
  <2>2. CASE ~marked
    <3>1. digits = fraction
      BY <2>2 DEF PastExponent
    <3> QED BY <1>3, <3>1
  <2> QED BY <2>1, <2>2
<1> HIDE DEF digits
<1>5. tail \in Nat /\ tail >= digits /\ tail <= Len(t) + 1
  BY <1>4, RunWithin
<1>6. kind \in Kind /\ "InvalidNumber" \in Codes
  BY DEF Kind, Classes, Literals, Codes
<1> HIDE DEF tail, kind
<1>7. digits > i /\ tail > i /\ Within(t, digits) /\ Within(t, tail)
  BY <1>1, <1>3, <1>4, <1>5 DEF Within
<1>8. Read(t, i, Bad("InvalidNumber", digits)) /\ Read(t, i, Lexeme(kind, tail))
  BY <1>4, <1>5, <1>6, <1>7, LexemeRead, BadRead
<1> QED BY <1>2, <1>8

LEMMA NumberRead ==
    ASSUME NEW U, NEW t, NEW i, TextAt(U, t, i), t[i] \in Digits
    PROVE  Read(t, i, Number(t, i))
BY BasedRead, DecimalRead DEF Number

LEMMA StringRead ==
    ASSUME NEW U, NEW t, NEW i, TextAt(U, t, i)
    PROVE  Read(t, i, StringLiteral(t, i)) /\ Read(t, i, CharLiteral(t, i))
<1> USE DEF TextAt
<1> DEFINE n == PastLiteral(t, i).next
           closed == PastLiteral(t, i).closed
<1>1. n \in Nat /\ n > i /\ Within(t, n) /\ (closed => n <= Len(t) + 1)
  BY LiteralPassed DEF LiteralEnd
<1>2. /\ \/ StringLiteral(t, i) \in {Bad("UnterminatedString", n), Bad("InvalidEscape", n)}
         \/ closed /\ StringLiteral(t, i) = Lexeme("String", n)
      /\ \/ CharLiteral(t, i) \in {Bad("UnterminatedChar", n), Bad("InvalidChar", n), Bad("InvalidEscape", n)}
         \/ closed /\ CharLiteral(t, i) = Lexeme("Char", n)
  BY DEF StringLiteral, CharLiteral
<1> HIDE DEF n, closed
<1>3. "String" \in Kind /\ "Char" \in Kind
  BY DEF Kind, Classes, Literals
<1>4. \A code \in Codes : Read(t, i, Bad(code, n))
  BY <1>1, BadRead
<1>5. closed => Read(t, i, Lexeme("String", n)) /\ Read(t, i, Lexeme("Char", n))
  BY <1>1, <1>3, LexemeRead
<1>6. {"UnterminatedString", "UnterminatedChar", "InvalidChar", "InvalidEscape"} \subseteq Codes
  BY DEF Codes
<1> QED BY <1>2, <1>4, <1>5, <1>6

\* The tables of symbols.
Ranges == {"..", "..=", "..<"}

LEMMA TwosTable ==
    ASSUME NEW a, NEW b, NEW kind, <<a, b, kind>> \in Twos
    PROVE  /\ a \in Singles /\ a \notin Delimiters /\ b # "NUL"
           /\ kind \notin Singles /\ (kind \in Ranges <=> a = ".")
<1>1. a \in Singles /\ a \notin Delimiters
  BY DEF Twos, Singles, Delimiters
<1>2. b # "NUL" /\ (kind \in Ranges <=> a = ".")
  BY DEF Twos, Ranges
<1>3. kind \notin Singles
  BY DEF Twos, Singles, Delimiters
<1> QED BY <1>1, <1>2, <1>3

LEMMA ThreesTable ==
    ASSUME NEW a, NEW b, NEW c, NEW kind, <<a, b, c, kind>> \in Threes
    PROVE  /\ a \in Singles /\ a \notin Delimiters /\ b # "NUL" /\ c # "NUL"
           /\ kind \notin Singles /\ (kind \in Ranges <=> a = ".")
<1>1. a \in Singles /\ a \notin Delimiters /\ kind \notin Singles
  BY DEF Threes, Singles, Delimiters
<1>2. b # "NUL" /\ c # "NUL" /\ (kind \in Ranges <=> a = ".")
  BY DEF Threes, Ranges
<1> QED BY <1>1, <1>2

\* An operator of several units is in the text.
LEMMA SeveralAt ==
    ASSUME NEW U, NEW t, NEW i, TextAt(U, t, i), NEW kind
    PROVE  /\ kind \in ThreesAt(t, i) \cup TwosAt(t, i) =>
                 /\ t[i] \in Singles /\ t[i] \notin Delimiters
                 /\ kind \in Operators /\ kind \notin Singles /\ (kind \in Ranges <=> t[i] = ".")
           /\ kind \in ThreesAt(t, i) => i + 2 <= Len(t)
           /\ kind \in TwosAt(t, i) => i + 1 <= Len(t)
<1>1. At(t, i) = t[i]
  BY DEF At, TextAt
<1>2. CASE kind \in ThreesAt(t, i)
  <2>1. kind \in Operators /\ <<At(t, i), At(t, i + 1), At(t, i + 2), kind>> \in Threes
    BY <1>2 DEF ThreesAt
  <2>2. /\ At(t, i) \in Singles /\ At(t, i) \notin Delimiters /\ At(t, i + 2) # "NUL"
        /\ kind \notin Singles /\ (kind \in Ranges <=> At(t, i) = ".")
    BY <2>1, ThreesTable
  <2>3. i + 2 <= Len(t) /\ i + 1 <= Len(t)
    BY <2>2 DEF At, TextAt
  <2> QED BY <1>1, <2>1, <2>2, <2>3
<1>3. CASE kind \in TwosAt(t, i)
  <2>1. kind \in Operators /\ <<At(t, i), At(t, i + 1), kind>> \in Twos
    BY <1>3 DEF TwosAt
  <2>2. /\ At(t, i) \in Singles /\ At(t, i) \notin Delimiters /\ At(t, i + 1) # "NUL"
        /\ kind \notin Singles /\ (kind \in Ranges <=> At(t, i) = ".")
    BY <2>1, TwosTable
  <2>3. i + 1 <= Len(t)
    BY <2>2 DEF At, TextAt
  <2>4. kind \in ThreesAt(t, i) => i + 2 <= Len(t)
    <3> SUFFICES ASSUME kind \in ThreesAt(t, i) PROVE i + 2 <= Len(t)
      OBVIOUS
    <3>1. <<At(t, i), At(t, i + 1), At(t, i + 2), kind>> \in Threes
      BY DEF ThreesAt
    <3>2. At(t, i + 2) # "NUL"
      BY <3>1, ThreesTable
    <3> QED BY <3>2 DEF At, TextAt
  <2> QED BY <1>1, <2>1, <2>2, <2>3, <2>4
<1> QED BY <1>2, <1>3

LEMMA SymbolIs ==
    ASSUME NEW U, NEW t, NEW i, TextAt(U, t, i)
    PROVE  \/ \E kind \in ThreesAt(t, i) : Symbol(t, i) = Lexeme(kind, i + 3)
           \/ /\ ThreesAt(t, i) = {}
              /\ \E kind \in TwosAt(t, i) : Symbol(t, i) = Lexeme(kind, i + 2)
           \/ /\ ThreesAt(t, i) = {} /\ TwosAt(t, i) = {}
              /\ t[i] \in Singles /\ Symbol(t, i) = Lexeme(t[i], i + 1)
           \/ \E n \in Nat : n > i /\ Within(t, n) /\ Symbol(t, i) = Bad("InvalidChar", n)
<1> USE DEF TextAt
<1> DEFINE past == i + ScalarWidth(t[i])
           last == IF past > Len(t) + 1 THEN Len(t) + 1 ELSE past
<1>1. ScalarWidth(t[i]) \in 1 .. 4
  BY DEF ScalarWidth
<1>2. last \in Nat /\ last > i /\ Within(t, last)
  <2> HIDE DEF past
  <2>1. past \in Nat /\ past > i
    BY <1>1 DEF past
  <2> QED BY <2>1 DEF Within
<1>3. Symbol(t, i) = IF ThreesAt(t, i) # {} THEN Lexeme(CHOOSE kind \in ThreesAt(t, i) : TRUE, i + 3)
                     ELSE IF TwosAt(t, i) # {} THEN Lexeme(CHOOSE kind \in TwosAt(t, i) : TRUE, i + 2)
                     ELSE IF t[i] \in Singles THEN Lexeme(t[i], i + 1)
                     ELSE Bad("InvalidChar", last)
  BY DEF Symbol
<1> HIDE DEF last
<1>4. ThreesAt(t, i) # {} => (CHOOSE kind \in ThreesAt(t, i) : TRUE) \in ThreesAt(t, i)
  OBVIOUS
<1>5. TwosAt(t, i) # {} => (CHOOSE kind \in TwosAt(t, i) : TRUE) \in TwosAt(t, i)
  OBVIOUS
<1> QED BY <1>2, <1>3, <1>4, <1>5

LEMMA SymbolRead ==
    ASSUME NEW U, NEW t, NEW i, TextAt(U, t, i)
    PROVE  Read(t, i, Symbol(t, i))
<1>0. t \in Seq(U) /\ i \in Nat /\ i >= 1 /\ i <= Len(t) /\ i + 1 \in Nat /\ i + 2 \in Nat /\ i + 3 \in Nat
  BY DEF TextAt
<1>1. Operators \subseteq Kind
  BY DEF Kind
<1>2. Singles \subseteq Kind /\ "InvalidChar" \in Codes
  BY DEF Kind, Codes, Singles, Operators
<1>3. i + 1 <= Len(t) + 1 /\ (i + 1 <= Len(t) => i + 2 <= Len(t) + 1) /\ (i + 2 <= Len(t) => i + 3 <= Len(t) + 1)
  BY <1>0
<1>4. i + 1 > i /\ i + 2 > i /\ i + 3 > i
  BY <1>0
<1>5. ASSUME NEW kind \in ThreesAt(t, i) PROVE Read(t, i, Lexeme(kind, i + 3))
  BY <1>0, <1>1, <1>3, <1>4, SeveralAt, LexemeRead
<1>6. ASSUME NEW kind \in TwosAt(t, i) PROVE Read(t, i, Lexeme(kind, i + 2))
  BY <1>0, <1>1, <1>3, <1>4, SeveralAt, LexemeRead
<1>7. t[i] \in Singles => Read(t, i, Lexeme(t[i], i + 1))
  BY <1>0, <1>2, <1>3, <1>4, LexemeRead
<1>8. \A n \in Nat : n > i /\ Within(t, n) => Read(t, i, Bad("InvalidChar", n))
  BY <1>0, <1>2, BadRead
<1> QED BY <1>5, <1>6, <1>7, <1>8, SymbolIs

-----------------------------------------------------------------------------
\* The inductive invariant, said of a text t, its tokens o, the position p
\* reached and the diagnostics b.
TokenSet == [kind : Kind, start : Nat, end : Nat]
Diagnostics == [code : Codes, start : Nat, end : Nat]

TypedAt(U, t, p, o, b) ==
    /\ t \in Seq(U) /\ p \in Nat /\ p >= 1 /\ Within(t, p)
    /\ o \in Seq(TokenSet) /\ b \in Seq(Diagnostics)

Ended(o) == o # <<>> /\ o[Len(o)].kind = "Eof"

\* The tokens lie one after the other up to p, and none but the last is empty.
OrderedAt(t, p, o) ==
    /\ \A k \in 1 .. Len(o) : o[k].start < o[k].end \/ (k = Len(o) /\ p > Len(t) /\ Ended(o))
    /\ \A k \in 1 .. Len(o) - 1 : o[k].end <= o[k + 1].start
    /\ o # <<>> => o[Len(o)].end <= p

LineEndIn(t, token) == token.kind = ";" /\ t[token.start] = "\n"
EndIn(o, j) == IF j = 0 THEN 1 ELSE o[j].end
Reaches(t, i, j) == IsTrivia(t, i, j) \/ (i = Len(t) + 2 /\ t[Len(t)] = "\\")
IsSpelled(t, o, j) == j = 0 \/ ~LineEndIn(t, o[j])
OnlyLineEnds(t, o, j, k) == \A m \in j + 1 .. k - 1 : LineEndIn(t, o[m])

\* From each spelled token to the next, and from the last one to p, is trivia.
TiledAt(t, o) ==
    \A j \in 0 .. Len(o), k \in 1 .. Len(o) :
        /\ j < k /\ IsSpelled(t, o, j) /\ ~LineEndIn(t, o[k]) /\ OnlyLineEnds(t, o, j, k)
        => Reaches(t, EndIn(o, j), o[k].start)
GapAt(t, p, o) ==
    \A j \in 0 .. Len(o) :
        IsSpelled(t, o, j) /\ OnlyLineEnds(t, o, j, Len(o) + 1) => Reaches(t, EndIn(o, j), p)

Errors(o) == {k \in 1 .. Len(o) : o[k].kind = "Error"}
ReportedAt(o, b) ==
    /\ \A d \in 1 .. Len(b) : \E k \in Errors(o) : o[k].start = b[d].start /\ o[k].end = b[d].end
    /\ Len(b) = Cardinality(Errors(o))

InvAt(U, t, p, o, b) ==
    TypedAt(U, t, p, o, b) /\ OrderedAt(t, p, o) /\ TiledAt(t, o) /\ GapAt(t, p, o) /\ ReportedAt(o, b)

\* Trivia is skipped.
SkipTo(t, p, q) == q \in Nat /\ q >= p /\ Within(t, q) /\ IsTrivia(t, p, q)
LEMMA Appended ==
    ASSUME NEW S, NEW o \in Seq(S), NEW x \in S
    PROVE  /\ Append(o, x) \in Seq(S) /\ Len(Append(o, x)) = Len(o) + 1 /\ Append(o, x) # <<>>
           /\ Append(o, x)[Len(o) + 1] = x /\ \A k \in 1 .. Len(o) : Append(o, x)[k] = o[k]
OBVIOUS

LEMMA ReachesOn ==
    ASSUME NEW U, NEW t \in Seq(U), NEW i \in Nat, NEW p \in Nat, NEW q \in Nat, SkipTo(t, p, q),
           Reaches(t, i, p)
    PROVE  Reaches(t, i, q)
BY TriviaJoins DEF Reaches, SkipTo

LEMMA TokensTyped ==
    ASSUME NEW o \in Seq(TokenSet)
    PROVE  /\ \A k \in 1 .. Len(o) : o[k] \in TokenSet /\ o[k].start \in Nat /\ o[k].end \in Nat
           /\ o # <<>> => Len(o) \in 1 .. Len(o)
<1>1. \A k \in 1 .. Len(o) : o[k] \in TokenSet
  OBVIOUS
<1>2. o # <<>> => Len(o) \in 1 .. Len(o)
  OBVIOUS
<1> QED BY <1>1, <1>2 DEF TokenSet

LEMMA EndsTyped ==
    ASSUME NEW o \in Seq(TokenSet), NEW j \in 0 .. Len(o)
    PROVE  EndIn(o, j) \in Nat
<1>1. CASE j = 0
  BY <1>1 DEF EndIn
<1>2. CASE j # 0
  <2>1. j \in 1 .. Len(o)
    BY <1>2
  <2> QED BY <1>2, <2>1, TokensTyped DEF EndIn
<1> QED BY <1>1, <1>2

\* SkipBlank, SkipLineComment, a closed SkipBlockComment, and EndLine where no
\* statement ends.
LEMMA SkipKeeps ==
    ASSUME NEW U, NEW t, NEW p, NEW o, NEW b, InvAt(U, t, p, o, b), p <= Len(t), NEW q, SkipTo(t, p, q)
    PROVE  InvAt(U, t, q, o, b)
<1> USE DEF InvAt
<1>1. TypedAt(U, t, q, o, b) /\ p \in Nat /\ q \in Nat /\ p <= q /\ t \in Seq(U) /\ o \in Seq(TokenSet)
  BY DEF TypedAt, SkipTo
<1>2. OrderedAt(t, q, o)
  <2>1. Len(t) \in Nat /\ ~(p > Len(t))
    BY <1>1
  <2>2. \A k \in 1 .. Len(o) : o[k].start < o[k].end
    BY <2>1 DEF OrderedAt
  <2>3. o # <<>> => o[Len(o)].end <= q
    <3>1. o # <<>> => o[Len(o)].end \in Nat /\ o[Len(o)].end <= p
      BY <1>1, TokensTyped DEF OrderedAt
    <3> QED BY <1>1, <3>1
  <2> QED BY <2>2, <2>3 DEF OrderedAt
<1>3. GapAt(t, q, o)
  <2> SUFFICES ASSUME NEW j \in 0 .. Len(o), IsSpelled(t, o, j), OnlyLineEnds(t, o, j, Len(o) + 1)
               PROVE  Reaches(t, EndIn(o, j), q)
    BY DEF GapAt
  <2>1. Reaches(t, EndIn(o, j), p)
    BY DEF GapAt
  <2> QED BY <1>1, <2>1, EndsTyped, ReachesOn
<1> QED BY <1>1, <1>2, <1>3

\* A token x that goes on from p, appended.
LEMMA OrderKept ==
    ASSUME NEW U, NEW t, NEW p, NEW o, NEW b, InvAt(U, t, p, o, b), NEW q \in Nat, NEW x \in TokenSet,
           x.start = p, x.end = q, q >= p,
           q > p \/ (x.kind = "Eof" /\ q > Len(t)), p <= Len(t) \/ ~Ended(o)
    PROVE  OrderedAt(t, q, Append(o, x))
<1> DEFINE n == Len(o)
           o2 == Append(o, x)
<1>1. t \in Seq(U) /\ p \in Nat /\ o \in Seq(TokenSet) /\ n \in Nat /\ Len(t) \in Nat
  BY DEF InvAt, TypedAt
<1>2. Len(o2) = n + 1 /\ o2 # <<>> /\ o2[n + 1] = x /\ \A k \in 1 .. n : o2[k] = o[k]
  BY <1>1, Appended
<1>3. /\ \A k \in 1 .. n : o[k].start < o[k].end \/ (k = n /\ p > Len(t) /\ Ended(o))
      /\ \A k \in 1 .. n - 1 : o[k].end <= o[k + 1].start
      /\ o # <<>> => o[n].end <= p
  BY DEF InvAt, OrderedAt
<1> HIDE DEF o2
<1>4. ASSUME NEW k \in 1 .. n + 1
      PROVE  o2[k].start < o2[k].end \/ (k = n + 1 /\ q > Len(t) /\ Ended(o2))
  <2>1. CASE k = n + 1
    <3>1. CASE q > p
      BY <1>1, <1>2, <2>1, <3>1
    <3>2. CASE x.kind = "Eof" /\ q > Len(t)
      BY <1>2, <2>1, <3>2 DEF Ended
    <3> QED BY <3>1, <3>2
  <2>2. CASE k # n + 1
    <3>1. k \in 1 .. n
      BY <1>1, <2>2
    <3>2. ~(p > Len(t) /\ Ended(o))
      BY <1>1
    <3>3. o[k].start < o[k].end
      BY <1>3, <3>1, <3>2
    <3> QED BY <1>2, <3>1, <3>3
  <2> QED BY <2>1, <2>2
<1>5. ASSUME NEW k \in 1 .. n PROVE o2[k].end <= o2[k + 1].start
  <2>1. CASE k = n
    <3>1. o # <<>>
      BY <1>1, <2>1
    <3>2. o2[k] = o[n] /\ o2[k + 1] = x
      BY <1>2, <2>1
    <3> QED BY <1>3, <3>1, <3>2
  <2>2. CASE k # n
    <3>1. k \in 1 .. n - 1 /\ k + 1 \in 1 .. n
      BY <1>1, <2>2
    <3> QED BY <1>2, <1>3, <3>1
  <2> QED BY <2>1, <2>2
<1>6. o2[n + 1].end <= q
  BY <1>2
<1>7. (n + 1) - 1 = n
  BY <1>1
<1> QED BY <1>2, <1>4, <1>5, <1>6, <1>7 DEF OrderedAt, o2

\* What stood before the last token stands.
LEMMA PrefixKept ==
    ASSUME NEW t, NEW o \in Seq(TokenSet), NEW x \in TokenSet, NEW j \in 0 .. Len(o)
    PROVE  /\ EndIn(Append(o, x), j) = EndIn(o, j)
           /\ IsSpelled(t, Append(o, x), j) <=> IsSpelled(t, o, j)
           /\ \A k \in 1 .. Len(o) + 1 :
                 OnlyLineEnds(t, Append(o, x), j, k) <=> OnlyLineEnds(t, o, j, k)
<1> DEFINE o2 == Append(o, x)
<1>1. Len(o) \in Nat /\ \A k \in 1 .. Len(o) : o2[k] = o[k]
  BY Appended
<1> HIDE DEF o2
<1>2. EndIn(o2, j) = EndIn(o, j) /\ (IsSpelled(t, o2, j) <=> IsSpelled(t, o, j))
  <2>1. CASE j = 0
    BY <2>1 DEF EndIn, IsSpelled
  <2>2. CASE j # 0
    <3>1. j \in 1 .. Len(o)
      BY <1>1, <2>2
    <3> QED BY <1>1, <2>2, <3>1 DEF EndIn, IsSpelled
  <2> QED BY <2>1, <2>2
<1>3. ASSUME NEW k \in 1 .. Len(o) + 1 PROVE OnlyLineEnds(t, o2, j, k) <=> OnlyLineEnds(t, o, j, k)
  <2>1. \A m \in j + 1 .. k - 1 : m \in 1 .. Len(o)
    BY <1>1
  <2>2. \A m \in j + 1 .. k - 1 : o2[m] = o[m]
    BY <1>1, <2>1
  <2> QED BY <2>2 DEF OnlyLineEnds
<1> QED BY <1>2, <1>3 DEF o2

LEMMA TilesKept ==
    ASSUME NEW U, NEW t, NEW p, NEW o, NEW b, InvAt(U, t, p, o, b), NEW x \in TokenSet, x.start = p
    PROVE  TiledAt(t, Append(o, x))
<1> DEFINE n == Len(o)
           o2 == Append(o, x)
<1>1. o \in Seq(TokenSet) /\ n \in Nat
  BY DEF InvAt, TypedAt
<1>2. Len(o2) = n + 1 /\ o2[n + 1] = x /\ \A k \in 1 .. n : o2[k] = o[k]
  BY <1>1, Appended
<1> SUFFICES ASSUME NEW j \in 0 .. n + 1, NEW k \in 1 .. n + 1, j < k,
                    IsSpelled(t, o2, j), ~LineEndIn(t, o2[k]), OnlyLineEnds(t, o2, j, k)
             PROVE  Reaches(t, EndIn(o2, j), o2[k].start)
  <2> QED BY <1>2 DEF TiledAt
<1>3. j \in 0 .. n
  BY <1>1
<1>4. EndIn(o2, j) = EndIn(o, j) /\ IsSpelled(t, o, j) /\ OnlyLineEnds(t, o, j, k)
  BY <1>1, <1>3, PrefixKept
<1> HIDE DEF o2
<1>5. CASE k = n + 1
  <2>1. Reaches(t, EndIn(o, j), p)
    BY <1>3, <1>4, <1>5 DEF InvAt, GapAt
  <2> QED BY <1>2, <1>4, <1>5, <2>1
<1>6. CASE k # n + 1
  <2>1. k \in 1 .. n
    BY <1>1, <1>6
  <2>2. Reaches(t, EndIn(o, j), o[k].start)
    BY <1>2, <1>3, <1>4, <2>1 DEF InvAt, TiledAt
  <2> QED BY <1>2, <1>4, <2>1, <2>2
<1> QED BY <1>5, <1>6

LEMMA GapKept ==
    ASSUME NEW U, NEW t, NEW p, NEW o, NEW b, InvAt(U, t, p, o, b), NEW x \in TokenSet, x.start = p,
           NEW q \in Nat, x.end = q, LineEndIn(t, x) => SkipTo(t, p, q)
    PROVE  GapAt(t, q, Append(o, x))
<1> DEFINE n == Len(o)
           o2 == Append(o, x)
<1>1. o \in Seq(TokenSet) /\ n \in Nat /\ t \in Seq(U) /\ p \in Nat
  BY DEF InvAt, TypedAt
<1>2. Len(o2) = n + 1 /\ o2[n + 1] = x
  BY <1>1, Appended
<1> SUFFICES ASSUME NEW j \in 0 .. n + 1, IsSpelled(t, o2, j), OnlyLineEnds(t, o2, j, (n + 1) + 1)
             PROVE  Reaches(t, EndIn(o2, j), q)
  <2> QED BY <1>2 DEF GapAt
<1>3. CASE j = n + 1
  <2> HIDE DEF o2
  <2>1. EndIn(o2, j) = q
    BY <1>1, <1>2, <1>3 DEF EndIn
  <2>2. IsTrivia(t, q, q)
    BY <1>1, TriviaUnfolds
  <2> QED BY <2>1, <2>2 DEF Reaches
<1>4. CASE j # n + 1
  <2>1. j \in 0 .. n /\ n + 1 \in 1 .. Len(o) + 1 /\ n + 1 \in j + 1 .. ((n + 1) + 1) - 1
    BY <1>1, <1>4
  <2>2. LineEndIn(t, x)
    <3> HIDE DEF o2
    <3> QED BY <1>2, <2>1 DEF OnlyLineEnds
  <2>3. OnlyLineEnds(t, o2, j, n + 1)
    <3> HIDE DEF o2
    <3>1. \A m \in j + 1 .. (n + 1) - 1 : m \in j + 1 .. ((n + 1) + 1) - 1
      BY <1>1
    <3> QED BY <3>1 DEF OnlyLineEnds
  <2>4. EndIn(o2, j) = EndIn(o, j) /\ IsSpelled(t, o, j) /\ OnlyLineEnds(t, o, j, n + 1)
    BY <1>1, <2>1, <2>3, PrefixKept
  <2> HIDE DEF o2
  <2>5. Reaches(t, EndIn(o, j), p)
    BY <2>1, <2>4 DEF InvAt, GapAt
  <2>6. SkipTo(t, p, q) /\ EndIn(o, j) \in Nat
    BY <1>1, <2>1, <2>2, EndsTyped
  <2>7. Reaches(t, EndIn(o, j), q)
    BY <1>1, <2>5, <2>6, ReachesOn
  <2> QED BY <2>4, <2>7
<1> QED BY <1>3, <1>4

\* A diagnostic is reported with each error token, and with no other.
LEMMA ReportKept ==
    ASSUME NEW U, NEW t, NEW p, NEW o, NEW b, InvAt(U, t, p, o, b), NEW x \in TokenSet, NEW d \in Diagnostics
    PROVE  /\ x.kind # "Error" => ReportedAt(Append(o, x), b)
           /\ x.kind = "Error" /\ d.start = x.start /\ d.end = x.end =>
                 ReportedAt(Append(o, x), Append(b, d))
<1> DEFINE n == Len(o)
           o2 == Append(o, x)
           b2 == Append(b, d)
<1>1. o \in Seq(TokenSet) /\ n \in Nat /\ b \in Seq(Diagnostics) /\ Len(b) \in Nat
  BY DEF InvAt, TypedAt
<1>2. Len(o2) = n + 1 /\ o2[n + 1] = x /\ \A k \in 1 .. n : o2[k] = o[k]
  BY <1>1, Appended
<1>3. Len(b2) = Len(b) + 1 /\ b2[Len(b) + 1] = d /\ \A k \in 1 .. Len(b) : b2[k] = b[k]
  BY <1>1, Appended
<1>4. /\ \A e \in 1 .. Len(b) : \E k \in Errors(o) : o[k].start = b[e].start /\ o[k].end = b[e].end
      /\ Len(b) = Cardinality(Errors(o))
  BY DEF InvAt, ReportedAt
<1> HIDE DEF o2, b2
<1>5. Errors(o2) = IF x.kind = "Error" THEN Errors(o) \cup {n + 1} ELSE Errors(o)
  <2>1. \A k \in 1 .. n + 1 : k = n + 1 \/ k \in 1 .. n
    BY <1>1
  <2>2. n + 1 \in 1 .. n + 1 /\ \A k \in 1 .. n : k \in 1 .. n + 1 /\ k # n + 1
    BY <1>1
  <2> QED BY <1>2, <2>1, <2>2 DEF Errors
<1>6. IsFiniteSet(Errors(o)) /\ n + 1 \notin Errors(o)
  <2>1. IsFiniteSet(1 .. n)
    BY <1>1, FS_Interval
  <2>2. Errors(o) \subseteq 1 .. n
    BY DEF Errors
  <2>3. n + 1 \notin 1 .. n
    BY <1>1
  <2> QED BY <2>1, <2>2, <2>3, FS_Subset
<1>7. \A k \in Errors(o) : o2[k] = o[k]
  BY <1>2 DEF Errors
<1>8. ASSUME x.kind # "Error" PROVE ReportedAt(o2, b)
  <2>1. Errors(o2) = Errors(o)
    BY <1>5, <1>8
  <2> QED BY <1>4, <1>7, <2>1 DEF ReportedAt
<1>9. ASSUME x.kind = "Error", d.start = x.start, d.end = x.end PROVE ReportedAt(o2, b2)
  <2>1. Errors(o2) = Errors(o) \cup {n + 1}
    BY <1>5, <1>9
  <2>2. Len(b2) = Cardinality(Errors(o2))
    BY <1>3, <1>4, <1>6, <2>1, FS_AddElement
  <2>3. ASSUME NEW e \in 1 .. Len(b) + 1
        PROVE  \E k \in Errors(o2) : o2[k].start = b2[e].start /\ o2[k].end = b2[e].end
    <3>1. CASE e = Len(b) + 1
      BY <1>2, <1>3, <1>9, <2>1, <3>1
    <3>2. CASE e # Len(b) + 1
      <4>1. e \in 1 .. Len(b)
        BY <1>1, <3>2
      <4>2. PICK k \in Errors(o) : o[k].start = b[e].start /\ o[k].end = b[e].end
        BY <1>4, <4>1
      <4>3. k \in Errors(o2) /\ o2[k] = o[k] /\ b2[e] = b[e]
        BY <1>3, <1>7, <2>1, <4>1, <4>2
      <4> QED BY <4>2, <4>3
    <3> QED BY <3>1, <3>2
  <2> QED BY <1>3, <2>2, <2>3 DEF ReportedAt
<1> QED BY <1>8, <1>9 DEF o2, b2

\* A token is emitted, or a line end becomes a separator.
LineEndSkips(t, p, q, kind) == kind = ";" /\ t[p] = "\n" => SkipTo(t, p, q)

LEMMA TokenKeeps ==
    ASSUME NEW U, NEW t \in Seq(U), NEW p \in Nat, NEW o, NEW b, InvAt(U, t, p, o, b),
           NEW q \in Nat, q >= p, Within(t, q), NEW kind \in Kind,
           q > p \/ (kind = "Eof" /\ q > Len(t)), p <= Len(t) \/ ~Ended(o),
           LineEndSkips(t, p, q, kind), NEW code \in Codes
    PROVE  LET x == [kind |-> kind, start |-> p, end |-> q]
               d == [code |-> code, start |-> p, end |-> q]
           IN  /\ kind # "Error" => InvAt(U, t, q, Append(o, x), b)
               /\ kind = "Error" => InvAt(U, t, q, Append(o, x), Append(b, d))
<1> DEFINE x == [kind |-> kind, start |-> p, end |-> q]
           d == [code |-> code, start |-> p, end |-> q]
<1>1. t \in Seq(U) /\ o \in Seq(TokenSet) /\ p \in Nat /\ p >= 1 /\ b \in Seq(Diagnostics)
  BY DEF InvAt, TypedAt
<1>2. x \in TokenSet /\ x.kind = kind /\ x.start = p /\ x.end = q
  BY <1>1 DEF TokenSet
<1>3. d \in Diagnostics /\ d.start = p /\ d.end = q
  BY <1>1 DEF Diagnostics
<1> HIDE DEF x, d
<1>4. Append(o, x) \in Seq(TokenSet) /\ Append(b, d) \in Seq(Diagnostics)
  BY <1>1, <1>2, <1>3, Appended
<1>5. q >= 1
  BY <1>1
<1>6. TypedAt(U, t, q, Append(o, x), b) /\ TypedAt(U, t, q, Append(o, x), Append(b, d))
  BY <1>1, <1>4, <1>5 DEF TypedAt
<1>7. OrderedAt(t, q, Append(o, x))
  BY <1>2, OrderKept
<1>8. TiledAt(t, Append(o, x))
  BY <1>2, TilesKept
<1>9. GapAt(t, q, Append(o, x))
  <2>1. LineEndIn(t, x) => SkipTo(t, p, q)
    BY <1>2 DEF LineEndIn, LineEndSkips
  <2> QED BY <1>2, <2>1, GapKept
<1>10. /\ kind # "Error" => ReportedAt(Append(o, x), b)
       /\ kind = "Error" => ReportedAt(Append(o, x), Append(b, d))
  BY <1>2, <1>3, ReportKept
<1>11. /\ kind # "Error" => InvAt(U, t, q, Append(o, x), b)
       /\ kind = "Error" => InvAt(U, t, q, Append(o, x), Append(b, d))
  BY <1>6, <1>7, <1>8, <1>9, <1>10 DEF InvAt
<1> QED BY <1>11 DEF x, d

-----------------------------------------------------------------------------
\* The steps of the lexer.
Inv(U) == InvAt(U, text, pos, out, bag)

LEMMA AtUnit ==
    ASSUME NEW U, Inv(U)
    PROVE  /\ text \in Seq(U) /\ pos \in Nat /\ pos >= 1 /\ Len(text) \in Nat /\ out \in Seq(TokenSet)
           /\ More => TextAt(U, text, pos) /\ pos <= Len(text)
BY DEF Inv, InvAt, TypedAt, More, TextAt

LEMMA Skipped ==
    ASSUME NEW U, Inv(U), More, NEW q, pos' = q, SkipTo(text, pos, q), UNCHANGED <<text, out, bag>>
    PROVE  Inv(U)'
<1>1. pos <= Len(text)
  BY AtUnit
<1>2. InvAt(U, text, q, out, bag)
  BY <1>1, SkipKeeps DEF Inv
<1> QED BY <1>2 DEF Inv

LEMMA Emitted ==
    ASSUME NEW U, Inv(U), NEW q \in Nat, q >= pos, Within(text, q), NEW kind \in Kind, kind # "Error",
           q > pos \/ (kind = "Eof" /\ q > Len(text)), pos <= Len(text) \/ ~Ended(out),
           LineEndSkips(text, pos, q, kind), Emit(kind, q), pos' = q, text' = text
    PROVE  Inv(U)'
<1>1. out' = Append(out, [kind |-> kind, start |-> pos, end |-> q]) /\ bag' = bag
  BY DEF Emit, Token
<1>2. text \in Seq(U) /\ pos \in Nat /\ "None" \in Codes
  BY AtUnit DEF Codes
<1>3. InvAt(U, text, q, Append(out, [kind |-> kind, start |-> pos, end |-> q]), bag)
  BY <1>2, TokenKeeps DEF Inv
<1> QED BY <1>1, <1>3 DEF Inv

LEMMA ErrorEmitted ==
    ASSUME NEW U, Inv(U), More, NEW q \in Nat, q > pos, Within(text, q), NEW code \in Codes,
           EmitError(code, q), pos' = q, text' = text
    PROVE  Inv(U)'
<1> DEFINE x == [kind |-> "Error", start |-> pos, end |-> q]
           d == [code |-> code, start |-> pos, end |-> q]
<1>1. out' = Append(out, x) /\ bag' = Append(bag, d)
  BY DEF EmitError, Token
<1>2. text \in Seq(U) /\ pos \in Nat /\ pos <= Len(text) /\ q >= pos
  BY AtUnit
<1>3. "Error" \in Kind /\ LineEndSkips(text, pos, q, "Error")
  BY DEF Kind, Classes, LineEndSkips
<1>4. InvAt(U, text, q, Append(out, x), Append(bag, d))
  BY <1>2, <1>3, TokenKeeps DEF Inv
<1> HIDE DEF x, d
<1> QED BY <1>1, <1>4 DEF Inv

EndsNoLine(x) == text[pos] # "\n" \/ x.kind # ";"

LEMMA Taken ==
    ASSUME NEW U, Inv(U), More, NEW x, EndsNoLine(x), Read(text, pos, x), Take(x)
    PROVE  Inv(U)'
<1>1. x.kind \in Kind /\ x.next \in Nat /\ x.code \in Codes /\ x.next > pos /\ Within(text, x.next)
  BY DEF Read
<1>2. pos' = x.next /\ text' = text
  BY DEF Take
<1>3. CASE x.kind = "Error"
  <2>1. EmitError(x.code, x.next)
    BY <1>3 DEF Take
  <2> QED BY <1>1, <1>2, <2>1, ErrorEmitted
<1>4. CASE x.kind # "Error"
  <2>1. Emit(x.kind, x.next)
    BY <1>4 DEF Take
  <2>2. LineEndSkips(text, pos, x.next, x.kind)
    BY DEF LineEndSkips, EndsNoLine
  <2>3. pos \in Nat /\ pos <= Len(text)
    BY AtUnit
  <2>4. x.next >= pos
    BY <1>1, <2>3
  <2> QED BY <1>1, <1>2, <1>4, <2>1, <2>2, <2>3, <2>4, Emitted
<1> QED BY <1>3, <1>4

LEMMA BlankSkips ==
    ASSUME NEW U, Inv(U), More, text[pos] \in Blanks \cup {"\n"}
    PROVE  SkipTo(text, pos, pos + 1)
<1>1. text \in Seq(U) /\ pos \in Nat /\ pos <= Len(text)
  BY AtUnit
<1>2. IsTrivia(text, pos + 1, pos + 1) /\ pos < pos + 1 /\ pos + 1 \in Nat
  BY <1>1, TriviaUnfolds
<1>3. IsTrivia(text, pos, pos + 1)
  BY <1>1, <1>2, TriviaUnfolds
<1>4. Within(text, pos + 1) /\ pos + 1 >= pos
  BY <1>1 DEF Within
<1> QED BY <1>2, <1>3, <1>4 DEF SkipTo

LEMMA LexKeepsInv ==
    ASSUME NEW U, Inv(U), Lex
    PROVE  Inv(U)'
<1>0. /\ text \in Seq(U) /\ pos \in Nat /\ pos >= 1 /\ Len(text) \in Nat
      /\ More => TextAt(U, text, pos) /\ pos <= Len(text)
  BY AtUnit
<1>1. CASE SkipBlank
  <2>1. More /\ text[pos] \in Blanks \cup {"\n"} /\ pos' = pos + 1 /\ UNCHANGED <<text, out, bag>>
    BY <1>1 DEF SkipBlank
  <2> QED BY <2>1, BlankSkips, Skipped
<1>2. CASE EndLine
  <2>1. More /\ text[pos] \in Blanks \cup {"\n"} /\ pos' = pos + 1 /\ text' = text
    BY <1>2 DEF EndLine
  <2>2. SkipTo(text, pos, pos + 1)
    BY <2>1, BlankSkips
  <2>3. CASE UNCHANGED <<out, bag>>
    BY <2>1, <2>2, <2>3, Skipped
  <2>4. CASE Emit(";", pos + 1)
    <3>1. /\ pos + 1 \in Nat /\ pos + 1 >= pos /\ pos + 1 > pos /\ Within(text, pos + 1)
          /\ LineEndSkips(text, pos, pos + 1, ";")
      BY <1>0, <2>2 DEF SkipTo, LineEndSkips
    <3>2. ";" \in Kind /\ ";" # "Error"
      BY DEF Kind, Delimiters
    <3> QED BY <1>0, <2>1, <2>4, <3>1, <3>2, Emitted
  <2> QED BY <1>2, <2>3, <2>4 DEF EndLine
<1>3. CASE SkipLineComment
  <2>1. /\ More /\ IsLineComment(text, pos) /\ ~IsDocComment(text, pos)
        /\ pos' = PastLine(text, pos) /\ UNCHANGED <<text, out, bag>>
    BY <1>3 DEF SkipLineComment
  <2>2. PastLine(text, pos) \in Nat /\ PastLine(text, pos) > pos /\ PastLine(text, pos) <= Len(text) + 1
    BY <1>0, <2>1, LineLater
  <2>3. IsTrivia(text, PastLine(text, pos), PastLine(text, pos))
    BY <1>0, <2>2, TriviaUnfolds
  <2>4. IsTrivia(text, pos, PastLine(text, pos))
    BY <1>0, <2>1, <2>2, <2>3, TriviaUnfolds
  <2>5. SkipTo(text, pos, PastLine(text, pos))
    BY <1>0, <2>2, <2>4 DEF SkipTo, Within
  <2> QED BY <2>1, <2>5, Skipped
<1>4. CASE LexDocComment
  <2> DEFINE x == Lexeme("DocComment", PastLine(text, pos))
  <2>1. More /\ IsDocComment(text, pos) /\ Take(x)
    BY <1>4 DEF LexDocComment
  <2>2. IsLineComment(text, pos) /\ text[pos] # "\n"
    BY <1>0, <2>1 DEF IsDocComment, IsLineComment, At
  <2>3. PastLine(text, pos) \in Nat /\ PastLine(text, pos) > pos /\ PastLine(text, pos) <= Len(text) + 1
    BY <1>0, <2>2, LineLater
  <2>4. "DocComment" \in Kind
    BY DEF Kind, Classes
  <2>5. Read(text, pos, x)
    BY <1>0, <2>3, <2>4, LexemeRead
  <2> QED BY <2>1, <2>2, <2>5, Taken DEF EndsNoLine
<1>5. CASE SkipBlockComment
  <2> DEFINE past == PastComment(text, pos)
  <2>1. More /\ IsBlockComment(text, pos) /\ pos' = past.next /\ text' = text
    BY <1>5 DEF SkipBlockComment
  <2>2. /\ past \in Marks /\ past.next \in pos + 2 .. Len(text) + 1
        /\ past.depth = 0 => past.next - 1 \in CommentEnds(text, pos)
    BY <1>0, <2>1, CommentPassed
  <2> HIDE DEF past
  <2>3. past.next \in Nat /\ past.next > pos /\ Within(text, past.next) /\ (past.next - 1) + 1 = past.next
    BY <1>0, <2>2 DEF Within
  <2>4. CASE past.depth > 0
    <3>1. EmitError("UnterminatedBlockComment", past.next) /\ "UnterminatedBlockComment" \in Codes
      BY <1>5, <2>4 DEF SkipBlockComment, Codes, past
    <3> QED BY <2>1, <2>3, <3>1, ErrorEmitted
  <2>5. CASE ~(past.depth > 0)
    <3>1. past.depth = 0
      BY <2>2, <2>5 DEF Marks
    <3>2. IsTrivia(text, past.next, past.next)
      BY <1>0, <2>3, TriviaUnfolds
    <3>3. \E q \in CommentEnds(text, pos) : IsTrivia(text, q + 1, past.next)
      BY <2>2, <2>3, <3>1, <3>2
    <3>4. IsTrivia(text, pos, past.next)
      BY <1>0, <2>3, <3>3, TriviaUnfolds
    <3>5. SkipTo(text, pos, past.next)
      BY <1>0, <2>3, <3>4 DEF SkipTo
    <3>6. UNCHANGED <<text, out, bag>>
      BY <1>5, <2>5 DEF SkipBlockComment, past
    <3> QED BY <2>1, <3>5, <3>6, Skipped
  <2> QED BY <2>4, <2>5
<1>6. CASE LexNul
  <2>1. More /\ text[pos] # "\n" /\ Take(Bad("InvalidChar", pos + 1))
    BY <1>6 DEF LexNul
  <2>2. pos + 1 \in Nat /\ pos + 1 > pos /\ Within(text, pos + 1) /\ "InvalidChar" \in Codes
    BY <1>0, <2>1 DEF Within, Codes
  <2>3. Read(text, pos, Bad("InvalidChar", pos + 1))
    BY <1>0, <2>2, BadRead
  <2> QED BY <2>1, <2>3, Taken DEF EndsNoLine
<1>7. CASE LexIdentifier
  <2>1. More /\ text[pos] \in Letters \cup {"_"} /\ Take(Identifier(text, pos))
    BY <1>7 DEF LexIdentifier
  <2>2. Read(text, pos, Identifier(text, pos))
    BY <1>0, <2>1, IdentifierRead
  <2>3. Identifier(text, pos).kind # ";"
    BY DEF Identifier, Lexeme, Keywords, PrimitiveTypes, Reserved
  <2> QED BY <2>1, <2>2, <2>3, Taken DEF EndsNoLine
<1>8. CASE LexNumber
  <2>1. More /\ text[pos] \in Digits /\ Take(Number(text, pos))
    BY <1>8 DEF LexNumber
  <2>2. text[pos] # "\n"
    BY <2>1 DEF Digits
  <2>3. Read(text, pos, Number(text, pos))
    BY <1>0, <2>1, NumberRead
  <2> QED BY <2>1, <2>2, <2>3, Taken DEF EndsNoLine
<1>9. CASE LexString
  <2>1. More /\ text[pos] # "\n" /\ Take(StringLiteral(text, pos))
    BY <1>9 DEF LexString
  <2>2. Read(text, pos, StringLiteral(text, pos))
    BY <1>0, <2>1, StringRead
  <2> QED BY <2>1, <2>2, Taken DEF EndsNoLine
<1>10. CASE LexChar
  <2>1. More /\ text[pos] # "\n" /\ Take(CharLiteral(text, pos))
    BY <1>10 DEF LexChar
  <2>2. Read(text, pos, CharLiteral(text, pos))
    BY <1>0, <2>1, StringRead
  <2> QED BY <2>1, <2>2, Taken DEF EndsNoLine
<1>11. CASE LexSymbol
  <2>1. More /\ text[pos] # "\n" /\ Take(Symbol(text, pos))
    BY <1>11 DEF LexSymbol
  <2>2. Read(text, pos, Symbol(text, pos))
    BY <1>0, <2>1, SymbolRead
  <2> QED BY <2>1, <2>2, Taken DEF EndsNoLine
<1>12. CASE Finish
  <2>1. ~More /\ ~Done /\ Emit("Eof", pos) /\ pos' = pos /\ text' = text
    BY <1>12 DEF Finish
  <2>2. pos > Len(text) /\ pos >= pos /\ Within(text, pos)
    BY <1>0, <2>1 DEF More, Inv, InvAt, TypedAt
  <2>3. ~Ended(out)
    BY <2>1 DEF Done, Ended
  <2>4. "Eof" \in Kind /\ "Eof" # "Error" /\ LineEndSkips(text, pos, pos, "Eof")
    BY DEF Kind, Classes, LineEndSkips
  <2> QED BY <1>0, <2>1, <2>2, <2>3, <2>4, Emitted
<1> QED BY <1>1, <1>2, <1>3, <1>4, <1>5, <1>6, <1>7, <1>8, <1>9, <1>10, <1>11, <1>12 DEF Lex

LEMMA StartEstablishes ==
    ASSUME NEW U, NEW t \in Seq(U), Start(t)
    PROVE  Inv(U)
<1>1. text = t /\ pos = 1 /\ out = <<>> /\ bag = <<>>
  BY DEF Start
<1>2. Len(t) \in Nat /\ Within(t, 1)
  BY DEF Within
<1>3. TypedAt(U, text, pos, out, bag)
  BY <1>1, <1>2 DEF TypedAt
<1>4. OrderedAt(text, pos, out) /\ TiledAt(text, out)
  BY <1>1 DEF OrderedAt, TiledAt
<1>5. GapAt(text, pos, out)
  <2>1. IsTrivia(t, 1, 1)
    BY TriviaUnfolds
  <2>2. \A j \in 0 .. Len(out) : EndIn(out, j) = 1
    BY <1>1 DEF EndIn
  <2> QED BY <1>1, <2>1, <2>2 DEF GapAt, Reaches
<1>6. ReportedAt(out, bag)
  <2>1. Errors(out) = {} /\ Len(bag) = 0
    BY <1>1 DEF Errors
  <2> QED BY <2>1, FS_EmptySet DEF ReportedAt
<1> QED BY <1>3, <1>4, <1>5, <1>6 DEF Inv, InvAt

LEMMA InvTiles ==
    ASSUME NEW U, Inv(U)
    PROVE  TokensTile
<1>1. /\ text \in Seq(U) /\ pos \in Nat /\ out \in Seq(TokenSet) /\ bag \in Seq(Diagnostics)
      /\ OrderedAt(text, pos, out) /\ TiledAt(text, out) /\ ReportedAt(out, bag)
  BY DEF Inv, InvAt, TypedAt
<1>2. ASSUME NEW k \in 1 .. Len(out) - 1 PROVE out[k].start < out[k].end /\ out[k].end <= out[k + 1].start
  <2>1. k \in 1 .. Len(out) /\ k # Len(out)
    BY <1>1
  <2> QED BY <1>1, <2>1 DEF OrderedAt
<1>3. ASSUME NEW j \in 0 .. Len(out), NEW k \in 1 .. Len(out), Follows(k, j)
      PROVE  \/ IsTrivia(text, EndOf(j), out[k].start)
             \/ EndOf(j) = Len(text) + 2 /\ text[Len(text)] = "\\"
  <2>1. /\ j < k /\ IsSpelled(text, out, j) /\ ~LineEndIn(text, out[k])
        /\ OnlyLineEnds(text, out, j, k)
    BY <1>3 DEF Follows, IsSpelled, LineEndIn, IsLineEnd, OnlyLineEnds
  <2>2. Reaches(text, EndIn(out, j), out[k].start)
    BY <1>1, <2>1 DEF TiledAt
  <2> QED BY <2>2 DEF Reaches, EndIn, EndOf
<1>4. DOMAIN out = 1 .. Len(out) /\ DOMAIN bag = 1 .. Len(bag)
  BY <1>1
<1>5. ASSUME NEW d \in ToSet(bag)
      PROVE  \E token \in ToSet(out) : token.kind = "Error" /\ token.start = d.start /\ token.end = d.end
  <2>1. PICK e \in 1 .. Len(bag) : d = bag[e]
    BY <1>4 DEF ToSet
  <2>2. PICK k \in Errors(out) : out[k].start = bag[e].start /\ out[k].end = bag[e].end
    BY <1>1 DEF ReportedAt
  <2>3. out[k] \in ToSet(out) /\ out[k].kind = "Error"
    BY <1>4 DEF ToSet, Errors
  <2> QED BY <2>1, <2>2, <2>3
<1>6. Len(bag) = Cardinality({k \in DOMAIN out : out[k].kind = "Error"})
  BY <1>1, <1>4 DEF ReportedAt, Errors
<1> QED BY <1>2, <1>3, <1>5, <1>6 DEF TokensTile

\* lexer.h:19 "lexing never fails hard", of every text of units of any set U:
\* however the text ends or is broken, each unit is in one token or in trivia
\* between two, and each error token has its diagnostic.
THEOREM TokensTileCorrect ==
    ASSUME NEW U, NEW t \in Seq(U)
    PROVE  Start(t) /\ [][Lex]_lexer => []TokensTile
<1>1. Start(t) => Inv(U)
  BY StartEstablishes
<1>2. Inv(U) /\ [Lex]_lexer => Inv(U)'
  <2>1. Inv(U) /\ Lex => Inv(U)'
    BY LexKeepsInv
  <2>2. Inv(U) /\ UNCHANGED lexer => Inv(U)'
    BY DEF Inv, lexer
  <2> QED BY <2>1, <2>2
<1>3. Inv(U) => TokensTile
  BY InvTiles
<1> QED BY <1>1, <1>2, <1>3, PTL

-----------------------------------------------------------------------------
\* LongestMatch: of each token when it is read.
IsLongest(t, token) ==
    WordEnds(t, token) /\ SymbolEnds(t, token) /\ DotTaken(t, token) /\ QuoteEnds(t, token)
Spelling(i, x) == [kind |-> x.kind, start |-> i, end |-> x.next]
Words == Keywords \cup {"Ident", "Integer", "Float", "_"}

LEMMA OtherKinds ==
    ASSUME NEW t, NEW i, NEW x, x.kind \notin Words \cup Operators \cup Literals
    PROVE  IsLongest(t, Spelling(i, x))
<1>1. x.kind \notin Words /\ x.kind \notin Operators
      /\ x.kind # "Integer" /\ x.kind # "Float" /\ x.kind \notin {"String", "Char"}
  BY DEF Literals
<1>2. Spelling(i, x).kind = x.kind
  BY DEF Spelling
<1> QED BY <1>1, <1>2 DEF IsLongest, Words, WordEnds, SymbolEnds, DotTaken, QuoteEnds

LEMMA WordLongest ==
    ASSUME NEW t, NEW i, NEW x, x.kind \notin Operators \cup Literals, At(t, x.next) \notin Alnum
    PROVE  IsLongest(t, Spelling(i, x))
<1>1. x.kind \notin Operators
      /\ x.kind # "Integer" /\ x.kind # "Float" /\ x.kind \notin {"String", "Char"}
  BY DEF Literals
<1>2. Spelling(i, x).kind = x.kind /\ Spelling(i, x).end = x.next
  BY DEF Spelling
<1> QED BY <1>1, <1>2 DEF IsLongest, WordEnds, SymbolEnds, DotTaken, QuoteEnds

LEMMA OperatorLongest ==
    ASSUME NEW t, NEW i, NEW x, x.kind \notin Words \cup Literals,
           TwosAt(t, i) # {} => x.next >= i + 2, ThreesAt(t, i) # {} => x.next = i + 3
    PROVE  IsLongest(t, Spelling(i, x))
<1>1. x.kind \notin Words
      /\ x.kind # "Integer" /\ x.kind # "Float" /\ x.kind \notin {"String", "Char"}
  BY DEF Literals
<1>2. Spelling(i, x).kind = x.kind /\ Spelling(i, x).end = x.next /\ Spelling(i, x).start = i
  BY DEF Spelling
<1> QED BY <1>1, <1>2 DEF IsLongest, Words, WordEnds, SymbolEnds, DotTaken, QuoteEnds

LEMMA NulIsNone == "NUL" \notin Alnum /\ "." \notin Alnum
<1>1. "NUL" \notin Letters /\ "." \notin Letters
  BY LettersAssumption DEF Operators
<1> QED BY <1>1 DEF Alnum, Digits

\* A run of a word ends where the word does.
LEMMA RunStops ==
    ASSUME NEW U, NEW t \in Seq(U), NEW i \in Nat
    PROVE  At(t, PastRun(t, i, Alnum)) \notin Alnum
<1>1. PastRun(t, i, Alnum) > Len(t) \/ t[PastRun(t, i, Alnum)] \notin Alnum
  BY PastRunEnds
<1>2. PastRun(t, i, Alnum) \in Nat
  BY PastRunEnds DEF RunEnd
<1> QED BY <1>1, <1>2, NulIsNone DEF At

LEMMA IdentifierLongest ==
    ASSUME NEW U, NEW t, NEW i, TextAt(U, t, i), t[i] \in Letters \cup {"_"}
    PROVE  IsLongest(t, Spelling(i, Identifier(t, i)))
<1>1. Identifier(t, i).next = PastRun(t, i, Alnum) /\ Identifier(t, i).kind \in Keywords \cup {"_", "Ident"}
  BY DEF Identifier, Lexeme
<1>2. At(t, Identifier(t, i).next) \notin Alnum
  BY <1>1, RunStops DEF TextAt
<1>3. ASSUME NEW kind \in Keywords \cup {"_", "Ident"} PROVE kind \notin Operators \cup Literals
  <2>1. kind \notin Operators
    BY DEF Operators, Keywords, PrimitiveTypes, Reserved
  <2>2. kind \notin Literals
    BY DEF Literals, Keywords, PrimitiveTypes, Reserved
  <2> QED BY <2>1, <2>2
<1> QED BY <1>1, <1>2, <1>3, WordLongest

LEMMA SymbolLongest ==
    ASSUME NEW U, NEW t, NEW i, TextAt(U, t, i)
    PROVE  IsLongest(t, Spelling(i, Symbol(t, i)))
<1>0. /\ Singles \cap (Words \cup Literals) = {} /\ Operators \cap (Words \cup Literals) = {}
      /\ "Error" \notin Words \cup Operators \cup Literals /\ i \in Nat /\ i + 3 >= i + 2 /\ i + 2 >= i + 2
  BY DEF Singles, Operators, Delimiters, Words, Literals, Keywords, PrimitiveTypes, Reserved, TextAt
<1>1. ASSUME NEW kind \in ThreesAt(t, i) PROVE IsLongest(t, Spelling(i, Lexeme(kind, i + 3)))
  <2>1. /\ Lexeme(kind, i + 3).next = i + 3 /\ Lexeme(kind, i + 3).kind = kind
        /\ kind \notin Words \cup Literals
    BY <1>0 DEF Lexeme, ThreesAt
  <2> QED BY <1>0, <2>1, OperatorLongest
<1>2. ASSUME ThreesAt(t, i) = {}, NEW kind \in TwosAt(t, i)
      PROVE  IsLongest(t, Spelling(i, Lexeme(kind, i + 2)))
  <2>1. /\ Lexeme(kind, i + 2).next = i + 2 /\ Lexeme(kind, i + 2).kind = kind
        /\ kind \notin Words \cup Literals
    BY <1>0 DEF Lexeme, TwosAt
  <2> QED BY <1>0, <1>2, <2>1, OperatorLongest
<1>3. ASSUME ThreesAt(t, i) = {}, TwosAt(t, i) = {}, t[i] \in Singles
      PROVE  IsLongest(t, Spelling(i, Lexeme(t[i], i + 1)))
  <2>1. Lexeme(t[i], i + 1).kind = t[i] /\ t[i] \notin Words \cup Literals
    BY <1>0, <1>3 DEF Lexeme
  <2> QED BY <1>3, <2>1, OperatorLongest
<1>4. ASSUME NEW n \in Nat PROVE IsLongest(t, Spelling(i, Bad("InvalidChar", n)))
  <2>1. Bad("InvalidChar", n).kind \notin Words \cup Operators \cup Literals
    BY <1>0 DEF Bad
  <2> QED BY <2>1, OtherKinds
<1> QED BY <1>1, <1>2, <1>3, <1>4, SymbolIs

-----------------------------------------------------------------------------
\* Numbers.
LEMMA IntegerLongest ==
    ASSUME NEW t, NEW i, NEW x, x.kind = "Integer", At(t, x.next) \notin Alnum,
           At(t, x.next) = "." /\ (\A k \in i .. x.next - 1 : t[k] \notin Letters) => At(t, x.next + 1) = "."
    PROVE  IsLongest(t, Spelling(i, x))
<1>1. "Integer" \notin Operators /\ "Integer" # "Float" /\ "Integer" \notin {"String", "Char"}
  BY DEF Operators
<1>2. Spelling(i, x).kind = "Integer" /\ Spelling(i, x).end = x.next /\ Spelling(i, x).start = i
  BY DEF Spelling
<1> QED BY <1>1, <1>2 DEF IsLongest, WordEnds, SymbolEnds, DotTaken, QuoteEnds

LEMMA FloatLongest ==
    ASSUME NEW t, NEW i, NEW x, x.kind = "Float", At(t, x.next) \notin Alnum,
           t[x.next - 1] = "." => At(t, x.next) # "."
    PROVE  IsLongest(t, Spelling(i, x))
<1>1. "Float" \notin Operators /\ "Float" # "Integer" /\ "Float" \notin {"String", "Char"}
  BY DEF Operators
<1>2. Spelling(i, x).kind = "Float" /\ Spelling(i, x).end = x.next /\ Spelling(i, x).start = i
  BY DEF Spelling
<1> QED BY <1>1, <1>2 DEF IsLongest, WordEnds, SymbolEnds, DotTaken, QuoteEnds

LEMMA BadLongest ==
    ASSUME NEW t, NEW i, NEW code, NEW n
    PROVE  IsLongest(t, Spelling(i, Bad(code, n)))
<1>1. Bad(code, n).kind \notin Words \cup Operators \cup Literals
  BY DEF Bad, Operators, Words, Literals, Keywords, PrimitiveTypes, Reserved
<1> QED BY <1>1, OtherKinds

LEMMA BasedLongest ==
    ASSUME NEW U, NEW t, NEW i, TextAt(U, t, i), IsBased(t, i)
    PROVE  IsLongest(t, Spelling(i, BasedNumber(t, i)))
<1> DEFINE digits == PastRun(t, i + 2, BaseDigits(t[i + 1]) \cup {"_"})
           tail   == PastRun(t, digits, Alnum)
<1>0. t \in Seq(U) /\ i \in Nat /\ Len(t) \in Nat
  BY DEF TextAt
<1>1. i + 2 <= Len(t) + 1 /\ i + 2 \in Nat /\ t[i + 1] \in Letters
  <2>1. At(t, i + 1) \in Letters
    BY LettersAssumption DEF IsBased
  <2>2. At(t, i + 1) # "NUL"
    BY <2>1, LettersAssumption
  <2> QED BY <1>0, <2>1, <2>2 DEF At
<1>2. digits \in Nat /\ digits >= i + 2 /\ digits <= Len(t) + 1
  BY <1>0, <1>1, RunWithin
<1>3. BasedNumber(t, i) \in {Bad("InvalidNumber", tail), Bad("InvalidNumber", digits), Lexeme("Integer", tail)}
  BY DEF BasedNumber
<1> HIDE DEF digits
<1>4. tail \in Nat /\ tail >= digits /\ tail <= Len(t) + 1
  BY <1>0, <1>2, RunWithin
<1>5. At(t, tail) \notin Alnum
  BY <1>0, <1>2, RunStops
<1> HIDE DEF tail
<1>6. Lexeme("Integer", tail).kind = "Integer" /\ Lexeme("Integer", tail).next = tail
  BY DEF Lexeme
<1>7. i + 1 \in i .. tail - 1
  BY <1>0, <1>2, <1>4
<1>8. IsLongest(t, Spelling(i, Lexeme("Integer", tail)))
  BY <1>1, <1>5, <1>6, <1>7, IntegerLongest
<1> QED BY <1>3, <1>8, BadLongest

LEMMA ExponentWithin ==
    ASSUME NEW U, NEW t \in Seq(U), NEW i \in Nat, i <= Len(t) + 1
    PROVE  \/ PastExponent(t, i) = i
           \/ /\ PastExponent(t, i) \in Nat /\ PastExponent(t, i) >= i + 2 /\ PastExponent(t, i) <= Len(t) + 1
              /\ t[PastExponent(t, i) - 1] # "."
<1> DEFINE run == PastRun(t, i + 2, Digits \cup {"_"})
<1>0. Len(t) \in Nat
  OBVIOUS
<1>1. PastExponent(t, i) # i => /\ PastExponent(t, i) = run
                               /\ \/ At(t, i + 1) \in Digits
                                  \/ At(t, i + 1) \in {"+", "-"} /\ At(t, i + 2) \in Digits
  BY DEF PastExponent
<1> SUFFICES ASSUME PastExponent(t, i) # i
             PROVE  run \in Nat /\ run >= i + 2 /\ run <= Len(t) + 1 /\ t[run - 1] # "."
  BY <1>1
<1>2. At(t, i + 1) # "NUL" /\ At(t, i + 1) # "."
  BY <1>1 DEF Digits
<1>3. i + 2 \in Nat /\ i + 2 <= Len(t) + 1 /\ t[i + 1] # "."
  BY <1>0, <1>2 DEF At
<1>4. run \in Nat /\ run >= i + 2 /\ run <= Len(t) + 1
  BY <1>3, RunWithin
<1>5. \A k \in i + 2 .. run - 1 : t[k] \in Digits \cup {"_"}
  BY <1>3, PastRunEnds
<1> HIDE DEF run
<1>6. run - 1 = i + 1 \/ run - 1 \in i + 2 .. run - 1
  BY <1>4
<1>7. "." \notin Digits \cup {"_"}
  BY DEF Digits
<1> QED BY <1>3, <1>4, <1>5, <1>6, <1>7

DotFree(t, n) == t[n - 1] = "." => At(t, n) # "."
DotsAhead(t, n) == At(t, n) = "." => At(t, n + 1) = "."

LEMMA InText ==
    ASSUME NEW U, NEW t \in Seq(U), NEW i \in Nat, At(t, i) # "NUL"
    PROVE  i <= Len(t)
BY DEF At

LEMMA FractionWithin ==
    ASSUME NEW U, NEW t \in Seq(U), NEW i \in Nat, i <= Len(t) + 1
    PROVE  \/ PastFraction(t, i) = i /\ DotsAhead(t, i)
           \/ /\ PastFraction(t, i) \in Nat /\ PastFraction(t, i) > i /\ PastFraction(t, i) <= Len(t) + 1
              /\ DotFree(t, PastFraction(t, i))
<1> DEFINE run == PastRun(t, i + 1, Digits \cup {"_"})
<1>0. Len(t) \in Nat
  OBVIOUS
<1>1. \/ PastFraction(t, i) = i /\ DotsAhead(t, i)
      \/ PastFraction(t, i) = run /\ At(t, i) = "." /\ At(t, i + 1) # "."
  BY DEF PastFraction, DotsAhead
<1> SUFFICES ASSUME PastFraction(t, i) = run, At(t, i) = ".", At(t, i + 1) # "."
             PROVE  run \in Nat /\ run > i /\ run <= Len(t) + 1 /\ DotFree(t, run)
  BY <1>1
<1>2. i + 1 \in Nat /\ i + 1 <= Len(t) + 1
  <2>1. At(t, i) # "NUL"
    OBVIOUS
  <2>2. i <= Len(t)
    BY <2>1, InText
  <2> HIDE DEF run
  <2> QED BY <1>0, <2>2
<1>3. run \in Nat /\ run >= i + 1 /\ run <= Len(t) + 1
  BY <1>2, RunWithin
<1>4. \A k \in i + 1 .. run - 1 : t[k] \in Digits \cup {"_"}
  BY <1>2, PastRunEnds
<1>5. "." \notin Digits \cup {"_"}
  BY DEF Digits
<1> HIDE DEF run
<1>6. run = i + 1 \/ run - 1 \in i + 1 .. run - 1
  BY <1>3
<1>7. run > i
  BY <1>3
<1>8. DotFree(t, run)
  <2>1. CASE run = i + 1
    BY <2>1 DEF DotFree
  <2>2. CASE run - 1 \in i + 1 .. run - 1
    BY <1>4, <1>5, <2>2 DEF DotFree
  <2> QED BY <1>6, <2>1, <2>2
<1> QED BY <1>3, <1>7, <1>8

LEMMA DecimalLongest ==
    ASSUME NEW U, NEW t, NEW i, TextAt(U, t, i), t[i] \in Digits
    PROVE  IsLongest(t, Spelling(i, DecimalNumber(t, i)))
<1> DEFINE whole    == PastRun(t, i, Digits \cup {"_"})
           fraction == PastFraction(t, whole)
           digits   == PastExponent(t, fraction)
           tail     == PastRun(t, digits, Alnum)
           kind     == IF digits = whole THEN "Integer" ELSE "Float"
<1>0. t \in Seq(U) /\ i \in Nat /\ Len(t) \in Nat /\ i <= Len(t) /\ i <= Len(t) + 1
  BY DEF TextAt
<1>1. whole \in Nat /\ whole > i /\ whole <= Len(t) + 1
  <2>1. t[i] \in Digits \cup {"_"}
    OBVIOUS
  <2> QED BY <1>0, <2>1, RunWithin
<1>11. ~(whole > Len(t)) => t[whole] \notin Digits \cup {"_"}
  BY <1>0, PastRunEnds
<1>2. DecimalNumber(t, i) \in {Bad("InvalidNumber", digits), Lexeme(kind, tail)}
  BY DEF DecimalNumber
<1> HIDE DEF whole
<1>3. \/ fraction = whole /\ DotsAhead(t, whole)
      \/ fraction \in Nat /\ fraction > whole /\ fraction <= Len(t) + 1 /\ DotFree(t, fraction)
  BY <1>0, <1>1, FractionWithin
<1> HIDE DEF fraction
<1>4. fraction \in Nat /\ fraction >= whole /\ fraction <= Len(t) + 1
  BY <1>1, <1>3
<1>5. \/ digits = fraction
      \/ digits \in Nat /\ digits >= fraction + 2 /\ digits <= Len(t) + 1 /\ t[digits - 1] # "."
  BY <1>0, <1>4, ExponentWithin
<1> HIDE DEF digits
<1>6. digits \in Nat /\ digits >= fraction /\ digits <= Len(t) + 1
  BY <1>4, <1>5
<1>7. /\ tail \in Nat /\ tail >= digits /\ tail <= Len(t) + 1
      /\ digits <= Len(t) /\ t[digits] \in Alnum => tail > digits
      /\ \A k \in digits .. tail - 1 : t[k] \in Alnum
  BY <1>0, <1>6, RunWithin, PastRunEnds
<1>8. At(t, tail) \notin Alnum
  BY <1>0, <1>6, RunStops
<1> HIDE DEF tail
<1>9. CASE digits = whole
  <2>1. fraction = whole /\ DotsAhead(t, whole)
    <3>1. fraction = whole
      BY <1>1, <1>4, <1>5, <1>6, <1>9
    <3> QED BY <1>1, <1>3, <3>1
  <2>2. Lexeme("Integer", tail).kind = "Integer" /\ Lexeme("Integer", tail).next = tail
    BY DEF Lexeme
  <2>3. ASSUME \A k \in i .. tail - 1 : t[k] \notin Letters PROVE tail = whole
    <3>1. SUFFICES ASSUME tail # whole PROVE FALSE
      OBVIOUS
    <3>2. /\ tail \in Nat /\ tail > whole /\ whole \in i .. tail - 1 /\ whole \in digits .. tail - 1
          /\ ~(whole > Len(t))
      <4>1. tail \in Nat /\ tail >= whole /\ tail <= Len(t) + 1
        BY <1>7, <1>9
      <4>2. whole \in Nat /\ whole > i
        BY <1>1
      <4> QED BY <1>0, <1>9, <3>1, <4>1, <4>2
    <3>3. t[whole] \in Alnum /\ t[whole] \notin Letters /\ t[whole] \notin Digits \cup {"_"}
      BY <1>11, <1>7, <2>3, <3>2
    <3> QED BY <3>3 DEF Alnum
  <2>4. IsLongest(t, Spelling(i, Lexeme("Integer", tail)))
    BY <1>8, <2>1, <2>2, <2>3, IntegerLongest DEF DotsAhead
  <2>5. kind = "Integer"
    BY <1>9
  <2> QED BY <1>2, <2>4, <2>5, BadLongest
<1>10. CASE digits # whole
  <2>1. DotFree(t, tail)
    <3>1. CASE tail > digits
      <4>1. tail - 1 \in digits .. tail - 1
        BY <1>6, <1>7, <3>1
      <4>2. t[tail - 1] # "."
        BY <1>7, <4>1, NulIsNone
      <4> QED BY <4>2 DEF DotFree
    <3>2. CASE tail = digits
      <4>1. digits = fraction => fraction # whole
        BY <1>10
      <4>2. t[digits - 1] # "." => DotFree(t, digits)
        BY DEF DotFree
      <4> QED BY <1>3, <1>5, <3>2, <4>1, <4>2
    <3> QED BY <1>6, <1>7, <3>1, <3>2
  <2>2. Lexeme("Float", tail).kind = "Float" /\ Lexeme("Float", tail).next = tail
    BY DEF Lexeme
  <2>3. IsLongest(t, Spelling(i, Lexeme("Float", tail)))
    BY <1>8, <2>1, <2>2, FloatLongest DEF DotFree
  <2>4. kind = "Float"
    BY <1>10
  <2> QED BY <1>2, <2>3, <2>4, BadLongest
<1> QED BY <1>9, <1>10

LEMMA NumberLongest ==
    ASSUME NEW U, NEW t, NEW i, TextAt(U, t, i), t[i] \in Digits
    PROVE  IsLongest(t, Spelling(i, Number(t, i)))
BY BasedLongest, DecimalLongest DEF Number

-----------------------------------------------------------------------------
\* Literals: the scan looks at a position only if the backslashes before it
\* are in pairs.
Slashes(t, i, from) == {k \in from .. i - 1 : \A m \in k .. i - 1 : t[m] = "\\"}

LEMMA SlashesFinite ==
    ASSUME NEW t, NEW i \in Nat, NEW from \in Nat
    PROVE  IsFiniteSet(Slashes(t, i, from)) /\ Backslashes(t, i, from) = Cardinality(Slashes(t, i, from))
           /\ Backslashes(t, i, from) \in Nat
<1>1. Slashes(t, i, from) \subseteq from .. i - 1 /\ IsFiniteSet(from .. i - 1)
  BY FS_Interval DEF Slashes
<1>2. IsFiniteSet(Slashes(t, i, from))
  BY <1>1, FS_Subset
<1>3. Cardinality(Slashes(t, i, from)) \in Nat
  BY <1>2, FS_CardinalityType
<1> QED BY <1>2, <1>3 DEF Slashes, Backslashes

LEMMA NoSlash ==
    ASSUME NEW t, NEW i \in Nat, NEW from \in Nat, i <= from \/ t[i - 1] # "\\"
    PROVE  Backslashes(t, i, from) = 0
<1>1. ASSUME NEW k \in Slashes(t, i, from) PROVE FALSE
  <2>1. k \in from .. i - 1 /\ \A m \in k .. i - 1 : t[m] = "\\"
    BY <1>1 DEF Slashes
  <2>2. i - 1 \in k .. i - 1 /\ ~(i <= from)
    BY <2>1
  <2> QED BY <2>1, <2>2
<1>2. Slashes(t, i, from) = {}
  BY <1>1
<1> QED BY <1>2, SlashesFinite, FS_EmptySet

LEMMA OneSlash ==
    ASSUME NEW t, NEW i \in Nat, NEW from \in Nat, from <= i, t[i] = "\\"
    PROVE  Backslashes(t, i + 1, from) = Backslashes(t, i, from) + 1
<1>1. Slashes(t, i + 1, from) = Slashes(t, i, from) \cup {i}
  <2>1. ASSUME NEW k \in Slashes(t, i + 1, from) PROVE k \in Slashes(t, i, from) \cup {i}
    <3>1. k \in from .. i /\ \A m \in k .. i : t[m] = "\\"
      BY <2>1 DEF Slashes
    <3>2. CASE k = i
      BY <3>2
    <3>3. CASE k # i
      <4>1. k \in from .. i - 1 /\ \A m \in k .. i - 1 : m \in k .. i
        BY <3>1, <3>3
      <4> QED BY <3>1, <4>1 DEF Slashes
    <3> QED BY <3>2, <3>3
  <2>2. ASSUME NEW k \in Slashes(t, i, from) PROVE k \in Slashes(t, i + 1, from)
    <3>1. k \in from .. i - 1 /\ \A m \in k .. i - 1 : t[m] = "\\"
      BY <2>2 DEF Slashes
    <3>2. k \in from .. i /\ \A m \in k .. i : m = i \/ m \in k .. i - 1
      BY <3>1
    <3>3. \A m \in k .. i : t[m] = "\\"
      BY <3>1, <3>2
    <3>4. (i + 1) - 1 = i
      OBVIOUS
    <3> QED BY <3>2, <3>3, <3>4 DEF Slashes
  <2>3. i \in Slashes(t, i + 1, from)
    <3>1. i \in from .. i /\ \A m \in i .. i : m = i
      OBVIOUS
    <3>2. (i + 1) - 1 = i
      OBVIOUS
    <3> QED BY <3>1, <3>2 DEF Slashes
  <2> QED BY <2>1, <2>2, <2>3
<1>2. i \notin Slashes(t, i, from)
  BY DEF Slashes
<1>3. Cardinality(Slashes(t, i, from) \cup {i}) = Cardinality(Slashes(t, i, from)) + 1
  BY <1>2, SlashesFinite, FS_AddElement
<1> QED BY <1>1, <1>3, SlashesFinite

Paired(t, i, k) == Backslashes(t, k, i + 1) % 2 = 0

LEMMA PairedSteps ==
    ASSUME NEW t, NEW i \in Nat, NEW k \in Nat, k > i
    PROVE  /\ t[k] # "\\" => Paired(t, i, k + 1)
           /\ t[k] = "\\" /\ Paired(t, i, k) => ~Paired(t, i, k + 1) /\ Paired(t, i, k + 2)
<1> DEFINE n == Backslashes(t, k, i + 1)
<1>1. n \in Nat
  BY SlashesFinite
<1>2. ASSUME t[k] # "\\" PROVE Paired(t, i, k + 1)
  <2>1. (k + 1) - 1 = k /\ k + 1 \in Nat /\ i + 1 \in Nat
    OBVIOUS
  <2>2. Backslashes(t, k + 1, i + 1) = 0
    BY <1>2, <2>1, NoSlash
  <2> QED BY <2>2 DEF Paired
<1>3. ASSUME t[k] = "\\", n % 2 = 0 PROVE ~Paired(t, i, k + 1) /\ Paired(t, i, k + 2)
  <2>1. i + 1 \in Nat /\ i + 1 <= k /\ k + 1 \in Nat /\ k + 2 \in Nat /\ i + 1 <= k + 1
        /\ (k + 1) + 1 = k + 2 /\ (k + 2) - 1 = k + 1
    OBVIOUS
  <2>2. Backslashes(t, k + 1, i + 1) = n + 1
    BY <1>3, <2>1, OneSlash
  <2>3. CASE t[k + 1] = "\\"
    <3>1. Backslashes(t, k + 2, i + 1) = (n + 1) + 1
      BY <2>1, <2>2, <2>3, OneSlash
    <3> HIDE DEF n
    <3>2. (n + 1) % 2 # 0 /\ ((n + 1) + 1) % 2 = 0
      BY <1>1, <1>3
    <3> QED BY <2>2, <3>1, <3>2 DEF Paired
  <2>4. CASE t[k + 1] # "\\"
    <3>1. Backslashes(t, k + 2, i + 1) = 0
      BY <2>1, <2>4, NoSlash
    <3> HIDE DEF n
    <3>2. (n + 1) % 2 # 0
      BY <1>1, <1>3
    <3> QED BY <2>2, <3>1, <3>2 DEF Paired
  <2> QED BY <2>3, <2>4
<1> QED BY <1>2, <1>3 DEF Paired

\* What a scan from k, past the quote at i, says of the quotes it meets.
QuotesFit(t, i, k, n) == \A m \in k .. n - 1 : t[m] = t[i] => (m = n - 1 <=> Paired(t, i, m))
Quoted(past, t, i, k) ==
    /\ past[k] \in LiteralEnd
    /\ past[k].closed => past[k].next > k
    /\ past[k].closed /\ k > i /\ Paired(t, i, k) => QuotesFit(t, i, k, past[k].next)

LEMMA QuotesLater ==
    ASSUME NEW t, NEW i \in Nat, NEW k \in Nat, NEW j \in Nat, j > k, NEW n \in Nat, n > j,
           \A m \in k .. j - 1 : t[m] # t[i] \/ ~Paired(t, i, m), QuotesFit(t, i, j, n)
    PROVE  QuotesFit(t, i, k, n)
<1> SUFFICES ASSUME NEW m \in k .. n - 1, t[m] = t[i] PROVE m = n - 1 <=> Paired(t, i, m)
  BY DEF QuotesFit
<1>1. (m \in k .. j - 1 /\ m # n - 1) \/ m \in j .. n - 1
  OBVIOUS
<1> QED BY <1>1 DEF QuotesFit

LEMMA QuotedBefore ==
    ASSUME NEW past, NEW t, NEW i \in Nat, NEW k \in Nat, NEW j \in Nat, j > k,
           Quoted(past, t, i, j), past[k] \in {past[j], [past[j] EXCEPT !.bad = TRUE]},
           k > i /\ Paired(t, i, k) =>
               /\ \A m \in k .. j - 1 : t[m] # t[i] \/ ~Paired(t, i, m)
               /\ Paired(t, i, j)
    PROVE  Quoted(past, t, i, k)
<1>1. past[j] \in LiteralEnd /\ (past[j].closed => past[j].next > j) /\ past[j].next \in Nat
  BY DEF Quoted, LiteralEnd
<1>2. past[k] \in LiteralEnd /\ past[k].closed = past[j].closed /\ past[k].next = past[j].next
  BY <1>1 DEF LiteralEnd
<1>3. past[k].closed => past[k].next > k
  <2> DEFINE n == past[j].next
  <2>1. n \in Nat /\ (past[j].closed => n > j)
    BY <1>1
  <2> HIDE DEF n
  <2>2. past[j].closed => n > k
    BY <2>1
  <2> QED BY <1>2, <2>2 DEF n
<1>4. ASSUME past[k].closed, k > i, Paired(t, i, k) PROVE QuotesFit(t, i, k, past[k].next)
  <2>1. past[j].closed /\ j > i /\ Paired(t, i, j) /\ \A m \in k .. j - 1 : t[m] # t[i] \/ ~Paired(t, i, m)
    BY <1>2, <1>4
  <2>2. QuotesFit(t, i, j, past[j].next)
    BY <2>1 DEF Quoted
  <2>3. QuotesFit(t, i, k, past[j].next)
    BY <1>1, <2>1, <2>2, QuotesLater
  <2> QED BY <1>2, <2>3
<1> QED BY <1>2, <1>3, <1>4 DEF Quoted

IsQuote(t, i) == t[i] \in {"\"", "'"}

LEMMA QuotedGoesOn ==
    ASSUME NEW U, NEW t \in Seq(U), NEW i \in Nat, IsQuote(t, i),
           NEW past, IsLiteralScan(past, t, i), NEW k \in Nat,
           k <= Len(t) => \A m \in Nat : m > k => Quoted(past, t, i, m)
    PROVE  Quoted(past, t, i, k)
<1> DEFINE L == Len(t)
<1>0. L \in Nat
  OBVIOUS
<1>1. past[k] = LiteralStep(past, t, i, k)
  BY DEF IsLiteralScan
<1>2. ASSUME past[k] = [next |-> k, closed |-> FALSE, bad |-> FALSE] PROVE Quoted(past, t, i, k)
  <2>1. past[k] \in LiteralEnd /\ ~past[k].closed
    BY <1>2 DEF LiteralEnd
  <2> QED BY <2>1 DEF Quoted
<1>3. CASE k > L \/ At(t, k) = "\n"
  <2>1. past[k] = [next |-> k, closed |-> FALSE, bad |-> FALSE]
    BY <1>1, <1>3 DEF LiteralStep
  <2> QED BY <1>2, <2>1
<1>4. CASE k <= L /\ At(t, k) # "\n" /\ t[k] = t[i]
  <2>1. past[k] = [next |-> k + 1, closed |-> TRUE, bad |-> FALSE] /\ k + 1 \in Nat /\ k + 1 > k
    BY <1>0, <1>1, <1>4 DEF LiteralStep
  <2>2. past[k] \in LiteralEnd /\ past[k].next = k + 1
    BY <2>1 DEF LiteralEnd
  <2>3. ASSUME Paired(t, i, k) PROVE QuotesFit(t, i, k, k + 1)
    <3>1. \A m \in k .. (k + 1) - 1 : m = k /\ m = (k + 1) - 1
      OBVIOUS
    <3> QED BY <2>3, <3>1 DEF QuotesFit
  <2> QED BY <2>1, <2>2, <2>3 DEF Quoted
<1>5. CASE k <= L /\ At(t, k) # "\n" /\ t[k] # t[i] /\ t[k] # "\\"
  <2>1. past[k] = past[k + 1] /\ k + 1 \in Nat /\ k + 1 > k
    BY <1>0, <1>1, <1>5 DEF LiteralStep
  <2>2. Quoted(past, t, i, k + 1)
    BY <1>5, <2>1
  <2>3. k > i => Paired(t, i, k + 1)
    BY <1>5, PairedSteps
  <2>4. \A m \in k .. (k + 1) - 1 : t[m] # t[i]
    <3>1. \A m \in k .. (k + 1) - 1 : m = k
      OBVIOUS
    <3> QED BY <1>5, <3>1
  <2> QED BY <2>1, <2>2, <2>3, <2>4, QuotedBefore
<1>6. CASE k <= L /\ At(t, k) # "\n" /\ t[k] # t[i] /\ t[k] = "\\"
  <2>0. ~(k > L)
    BY <1>0, <1>6
  <2>1. CASE At(t, k + 1) = "\n"
    <3>1. past[k] = [next |-> k, closed |-> FALSE, bad |-> FALSE]
      BY <1>1, <1>6, <2>0, <2>1 DEF LiteralStep
    <3> QED BY <1>2, <3>1
  <2>2. CASE At(t, k + 1) # "\n" /\ IsUnicodeEscape(t, k)
    <3> DEFINE brace == PastRun(t, k + 3, HexDigits)
    <3>1. past[k] = past[brace + 1]
      BY <1>1, <1>6, <2>0, <2>2 DEF LiteralStep
    <3>2. /\ brace \in k + 3 .. RunEnd(t, k + 3) /\ RunEnd(t, k + 3) \in Nat
          /\ \A m \in k + 3 .. brace - 1 : t[m] \in HexDigits
      BY PastRunEnds DEF RunEnd
    <3>3. At(t, brace) = "}" /\ At(t, k + 1) = "u" /\ At(t, k + 2) = "{"
      BY <2>2 DEF IsUnicodeEscape
    <3> HIDE DEF brace
    <3>4. brace \in Nat /\ brace >= k + 3 /\ k + 1 \in Nat /\ k + 2 \in Nat
      BY <3>2
    <3>5. t[brace] = "}" /\ t[k + 1] = "u" /\ t[k + 2] = "{"
      <4>1. brace <= L /\ k + 1 <= L /\ k + 2 <= L
        BY <3>3, <3>4, InText
      <4> QED BY <3>3, <4>1 DEF At
    <3>6. brace + 1 \in Nat /\ brace + 1 > k
      BY <3>4
    <3>7. Quoted(past, t, i, brace + 1)
      BY <1>6, <3>6
    <3>8. k > i => Paired(t, i, brace + 1)
      <4>1. k > i => brace > i
        BY <3>4
      <4> QED BY <3>4, <3>5, <4>1, PairedSteps
    <3>9. ASSUME NEW m \in k .. (brace + 1) - 1 PROVE t[m] # t[i]
      <4>1. m = k \/ m = k + 1 \/ m = k + 2 \/ m = brace \/ m \in k + 3 .. brace - 1
        BY <3>4
      <4>2. t[i] \notin HexDigits \cup {"u", "{", "}"}
        BY DEF HexDigits, Digits, IsQuote
      <4> QED BY <1>6, <3>2, <3>5, <4>1, <4>2
    <3> QED BY <3>1, <3>6, <3>7, <3>8, <3>9, QuotedBefore
  <2>3. CASE At(t, k + 1) # "\n" /\ ~IsUnicodeEscape(t, k)
    <3>1. k + 2 \in Nat /\ k + 2 > k
      OBVIOUS
    <3>2. past[k] \in {past[k + 2], [past[k + 2] EXCEPT !.bad = TRUE]}
      BY <1>1, <1>6, <2>0, <2>3 DEF LiteralStep
    <3>3. Quoted(past, t, i, k + 2)
      BY <1>6, <3>1
    <3>4. ASSUME k > i, Paired(t, i, k)
          PROVE  /\ \A m \in k .. (k + 2) - 1 : t[m] # t[i] \/ ~Paired(t, i, m)
                 /\ Paired(t, i, k + 2)
      <4>1. ~Paired(t, i, k + 1) /\ Paired(t, i, k + 2)
        BY <1>6, <3>4, PairedSteps
      <4>2. \A m \in k .. (k + 2) - 1 : m = k \/ m = k + 1
        OBVIOUS
      <4> QED BY <1>6, <4>1, <4>2
    <3> QED BY <3>1, <3>2, <3>3, <3>4, QuotedBefore
  <2> QED BY <2>1, <2>2, <2>3
<1>7. k > L \/ k <= L
  BY <1>0
<1> QED BY <1>3, <1>4, <1>5, <1>6, <1>7

LEMMA LiteralQuoted ==
    ASSUME NEW U, NEW t, NEW i, TextAt(U, t, i), IsQuote(t, i), PastLiteral(t, i).closed
    PROVE  QuotesFit(t, i, i + 1, PastLiteral(t, i).next)
<1>0. t \in Seq(U) /\ i \in Nat /\ i + 1 \in Nat /\ i + 1 > i
  BY DEF TextAt
<1>1. PICK past : IsLiteralScan(past, t, i) /\ PastLiteral(t, i) = past[i + 1]
  BY <1>0, LiteralScanned
<1>2. Quoted(past, t, i, i + 1)
  <2> DEFINE S == {k \in Nat : Quoted(past, t, i, k)}
  <2>1. \A k \in Nat : (k <= Len(t) => \A m \in Nat : m > k => m \in S) => k \in S
    BY <1>0, <1>1, QuotedGoesOn
  <2> HIDE DEF S
  <2>2. S \in SUBSET Nat /\ Len(t) \in Nat
    BY <1>0 DEF S
  <2>3. S = Nat
    BY <2>1, <2>2, Backward
  <2> QED BY <1>0, <2>3 DEF S
<1>3. Paired(t, i, i + 1)
  BY <1>0, NoSlash DEF Paired
<1> QED BY <1>0, <1>1, <1>2, <1>3 DEF Quoted

LEMMA LiteralLongest ==
    ASSUME NEW U, NEW t, NEW i, TextAt(U, t, i), IsQuote(t, i)
    PROVE  IsLongest(t, Spelling(i, StringLiteral(t, i))) /\ IsLongest(t, Spelling(i, CharLiteral(t, i)))
<1> DEFINE n == PastLiteral(t, i).next
<1>1. ASSUME NEW kind \in {"String", "Char"}, PastLiteral(t, i).closed
      PROVE  IsLongest(t, Spelling(i, Lexeme(kind, n)))
  <2> DEFINE token == Spelling(i, Lexeme(kind, n))
  <2>1. token.kind = kind /\ token.start = i /\ token.end = n
    BY DEF Spelling, Lexeme
  <2>2. kind \notin Words /\ kind \notin Operators /\ kind # "Integer" /\ kind # "Float"
    BY DEF Operators, Words, Keywords, PrimitiveTypes, Reserved
  <2>3. QuotesFit(t, i, i + 1, n)
    BY <1>1, LiteralQuoted
  <2> HIDE DEF token, n
  <2>4. WordEnds(t, token) /\ SymbolEnds(t, token) /\ DotTaken(t, token)
    BY <2>1, <2>2 DEF WordEnds, SymbolEnds, DotTaken, Words
  <2>5. QuoteEnds(t, token)
    BY <2>1, <2>3 DEF QuoteEnds, QuotesFit, Paired
  <2>6. IsLongest(t, token)
    BY <2>4, <2>5 DEF IsLongest
  <2> QED BY <2>6 DEF token
<1>2. /\ \/ StringLiteral(t, i) \in {Bad("UnterminatedString", n), Bad("InvalidEscape", n)}
         \/ PastLiteral(t, i).closed /\ StringLiteral(t, i) = Lexeme("String", n)
      /\ \/ CharLiteral(t, i) \in {Bad("UnterminatedChar", n), Bad("InvalidChar", n), Bad("InvalidEscape", n)}
         \/ PastLiteral(t, i).closed /\ CharLiteral(t, i) = Lexeme("Char", n)
  BY DEF StringLiteral, CharLiteral
<1> HIDE DEF n
<1> QED BY <1>1, <1>2, BadLongest

-----------------------------------------------------------------------------
AllLongest(t, o) == \A k \in 1 .. Len(o) : IsLongest(t, o[k])

LEMMA LongestKept ==
    ASSUME NEW S, NEW t, NEW o \in Seq(S), NEW x \in S, AllLongest(t, o), IsLongest(t, x)
    PROVE  AllLongest(t, Append(o, x))
<1>1. Len(Append(o, x)) = Len(o) + 1 /\ Len(o) \in Nat /\ Append(o, x)[Len(o) + 1] = x
      /\ \A k \in 1 .. Len(o) : Append(o, x)[k] = o[k]
  OBVIOUS
<1>2. ASSUME NEW k \in 1 .. Len(Append(o, x)) PROVE IsLongest(t, Append(o, x)[k])
  <2>1. k \in 1 .. Len(o) \/ k = Len(o) + 1
    BY <1>1
  <2> QED BY <1>1, <2>1 DEF AllLongest
<1> QED BY <1>2 DEF AllLongest

LEMMA TakenLongest ==
    ASSUME NEW U, Inv(U), More, NEW x, Read(text, pos, x), Take(x), AllLongest(text, out),
           IsLongest(text, Spelling(pos, x))
    PROVE  AllLongest(text, out)'
<1>1. out' = Append(out, Spelling(pos, x)) /\ text' = text
  BY DEF Take, EmitError, Emit, Token, Spelling
<1>2. Spelling(pos, x) \in TokenSet /\ out \in Seq(TokenSet)
  BY AtUnit DEF Spelling, TokenSet, Read
<1>3. AllLongest(text, Append(out, Spelling(pos, x)))
  BY <1>2, LongestKept
<1> QED BY <1>1, <1>3

\* Kinds of which LongestMatch says nothing.
Plain == {";", "DocComment", "Error", "Eof"}

LEMMA LexKeepsLongest ==
    ASSUME NEW U, Inv(U), Lex, AllLongest(text, out)
    PROVE  AllLongest(text, out)'
<1>0. /\ text \in Seq(U) /\ pos \in Nat /\ out \in Seq(TokenSet) /\ (More => TextAt(U, text, pos))
  BY AtUnit
<1>1. ASSUME NEW kind, NEW n, kind \in Plain
      PROVE  IsLongest(text, Spelling(pos, Lexeme(kind, n)))
  <2>1. Lexeme(kind, n).kind \notin Words \cup Operators \cup Literals
    BY <1>1 DEF Plain, Lexeme, Operators, Words, Literals, Keywords, PrimitiveTypes, Reserved
  <2> QED BY <2>1, OtherKinds
<1>2. ASSUME NEW kind \in Kind, NEW n \in Nat, kind \in Plain, text' = text,
             out' = Append(out, Token(kind, n))
      PROVE  AllLongest(text, out)'
  <2>1. Token(kind, n) \in TokenSet
    BY <1>0 DEF Token, TokenSet
  <2>2. IsLongest(text, Token(kind, n))
    <3>1. IsLongest(text, Spelling(pos, Lexeme(kind, n)))
      BY <1>1, <1>2
    <3>2. Token(kind, n) = Spelling(pos, Lexeme(kind, n))
      BY DEF Token, Spelling, Lexeme
    <3> QED BY <3>1, <3>2, Zenon
  <2>3. AllLongest(text, Append(out, Token(kind, n)))
    BY <1>0, <2>1, <2>2, LongestKept
  <2> QED BY <1>2, <2>3
<1>3. /\ ";" \in Plain \cap Kind /\ "DocComment" \in Plain \cap Kind
      /\ "Error" \in Plain \cap Kind /\ "Eof" \in Plain \cap Kind
  BY DEF Plain, Kind, Classes, Delimiters
<1>4. CASE text' = text /\ out' = out
  BY <1>4
<1>5. CASE EndLine
  <2>1. text' = text /\ (out' = Append(out, Token(";", pos + 1)) \/ out' = out)
    BY <1>5 DEF EndLine, Emit
  <2>2. pos + 1 \in Nat
    BY <1>0
  <2> QED BY <1>2, <1>3, <1>4, <2>1, <2>2
<1>6. CASE LexDocComment
  <2> DEFINE n == PastLine(text, pos)
  <2>1. Take(Lexeme("DocComment", n)) /\ n \in Nat
    BY <1>0, <1>6, PastLineEnds DEF LexDocComment, RunEnd
  <2> HIDE DEF n
  <2>2. text' = text /\ out' = Append(out, Token("DocComment", n))
    BY <2>1 DEF Take, Lexeme, Emit
  <2> QED BY <1>2, <1>3, <2>1, <2>2
<1>7. CASE SkipBlockComment
  <2> DEFINE past == PastComment(text, pos)
  <2>1. text' = text /\ (EmitError("UnterminatedBlockComment", past.next) \/ out' = out)
    BY <1>7 DEF SkipBlockComment
  <2>2. past \in Marks /\ past.next \in Nat
    BY <1>0, <1>7, CommentPassed DEF SkipBlockComment, TextAt, Marks
  <2> HIDE DEF past
  <2> QED BY <1>2, <1>3, <1>4, <2>1, <2>2 DEF EmitError
<1>8. CASE LexNul
  <2>1. Take(Bad("InvalidChar", pos + 1)) /\ pos + 1 \in Nat
    BY <1>0, <1>8 DEF LexNul
  <2>2. text' = text /\ out' = Append(out, Token("Error", pos + 1))
    BY <2>1 DEF Take, Bad, EmitError
  <2> QED BY <1>2, <1>3, <2>1, <2>2
<1>9. CASE LexIdentifier
  <2>1. More /\ text[pos] \in Letters \cup {"_"} /\ Take(Identifier(text, pos))
    BY <1>9 DEF LexIdentifier
  <2> QED BY <1>0, <2>1, IdentifierRead, IdentifierLongest, TakenLongest
<1>10. CASE LexNumber
  <2>1. More /\ text[pos] \in Digits /\ Take(Number(text, pos))
    BY <1>10 DEF LexNumber
  <2> QED BY <1>0, <2>1, NumberRead, NumberLongest, TakenLongest
<1>11. CASE LexString
  <2>1. More /\ IsQuote(text, pos) /\ Take(StringLiteral(text, pos))
    BY <1>11 DEF LexString, IsQuote
  <2> QED BY <1>0, <2>1, StringRead, LiteralLongest, TakenLongest
<1>12. CASE LexChar
  <2>1. More /\ IsQuote(text, pos) /\ Take(CharLiteral(text, pos))
    BY <1>12 DEF LexChar, IsQuote
  <2> QED BY <1>0, <2>1, StringRead, LiteralLongest, TakenLongest
<1>13. CASE LexSymbol
  <2>1. More /\ Take(Symbol(text, pos))
    BY <1>13 DEF LexSymbol
  <2> QED BY <1>0, <2>1, SymbolRead, SymbolLongest, TakenLongest
<1>14. CASE Finish
  <2>1. text' = text /\ out' = Append(out, Token("Eof", pos))
    BY <1>14 DEF Finish, Emit
  <2> QED BY <1>0, <1>2, <1>3, <2>1
<1>15. SkipBlank \/ SkipLineComment => text' = text /\ out' = out
  BY DEF SkipBlank, SkipLineComment
<1> QED BY <1>4, <1>5, <1>6, <1>7, <1>8, <1>9, <1>10, <1>11, <1>12, <1>13, <1>14, <1>15 DEF Lex

\* grammar.md:5, longest match, of every text.
THEOREM LongestMatchCorrect ==
    ASSUME NEW U, NEW t \in Seq(U)
    PROVE  Start(t) /\ [][Lex]_lexer => []LongestMatch
<1>1. Start(t) => Inv(U) /\ AllLongest(text, out)
  <2>1. Start(t) => out = <<>>
    BY DEF Start
  <2>2. out = <<>> => AllLongest(text, out)
    BY DEF AllLongest
  <2> QED BY <2>1, <2>2, StartEstablishes
<1>2. Inv(U) /\ AllLongest(text, out) /\ [Lex]_lexer => Inv(U)' /\ AllLongest(text, out)'
  <2>1. Inv(U) /\ AllLongest(text, out) /\ Lex => Inv(U)' /\ AllLongest(text, out)'
    BY LexKeepsInv, LexKeepsLongest
  <2>2. Inv(U) /\ AllLongest(text, out) /\ UNCHANGED lexer => Inv(U)' /\ AllLongest(text, out)'
    BY DEF Inv, lexer
  <2> QED BY <2>1, <2>2
<1>3. Inv(U) /\ AllLongest(text, out) => LongestMatch
  <2> SUFFICES ASSUME Inv(U), AllLongest(text, out), NEW token \in ToSet(out)
               PROVE  IsLongest(text, token)
    BY DEF LongestMatch, IsLongest
  <2>1. DOMAIN out = 1 .. Len(out)
    BY AtUnit
  <2> QED BY <2>1 DEF ToSet, AllLongest
<1> QED BY <1>1, <1>2, <1>3, PTL

-----------------------------------------------------------------------------
\* LinesSeparate.  A comment ends in one place only.
BodyPassed(past, body, t, k) ==
    \A q \in 0 .. Len(t), d \in Nat :
        d >= 1 /\ k <= q + 1 /\ body[k][q] /\ IsCommentEnd(t, q + 1) => past[k][d] = past[q + 3][d - 1]

LEMMA EndsApart ==
    ASSUME NEW t, NEW i, IsCommentEnd(t, i)
    PROVE  ~IsBlockComment(t, i) /\ ~IsLineComment(t, i)
BY DEF IsCommentEnd, IsBlockComment, IsLineComment

LEMMA EndInText ==
    ASSUME NEW U, NEW t \in Seq(U), NEW i \in Nat, IsCommentEnd(t, i)
    PROVE  i + 1 <= Len(t)
<1>1. At(t, i + 1) # "NUL" /\ i + 1 \in Nat
  BY DEF IsCommentEnd
<1> QED BY <1>1, InText

LEMMA BodyGoesOn ==
    ASSUME NEW U, NEW t \in Seq(U), NEW past, IsCommentScan(past, t), NEW body, IsBodyScan(body, t),
           NEW k \in Nat, k <= Len(t) => \A m \in Nat : m > k => BodyPassed(past, body, t, m)
    PROVE  BodyPassed(past, body, t, k)
<1> DEFINE L == Len(t)
<1> SUFFICES ASSUME NEW q \in 0 .. L, NEW d \in Nat, d >= 1, k <= q + 1, body[k][q], IsCommentEnd(t, q + 1)
             PROVE  past[k][d] = past[q + 3][d - 1]
  BY DEF BodyPassed
<1>0. L \in Nat /\ q \in Nat /\ q + 1 \in Nat /\ d # 0 /\ d - 1 \in Nat
  OBVIOUS
<1>1. (q + 1) + 1 <= L
  BY <1>0, EndInText
<1> HIDE DEF L
<1>2. k <= L /\ ~(k > L) /\ k + 1 \in Nat /\ k + 2 \in Nat /\ k + 1 > k /\ k + 2 > k
  BY <1>0, <1>1
<1>3. past[k][d] = IF IsBlockComment(t, k) THEN past[k + 2][d + 1]
                   ELSE IF IsCommentEnd(t, k) THEN past[k + 2][d - 1] ELSE past[k + 1][d]
  <2>1. past[k] = CommentStep(past, t, k)
    BY DEF IsCommentScan
  <2> QED BY <1>0, <1>2, <2>1 DEF CommentStep, L
<1>4. \/ k > q
      \/ ~IsBlockComment(t, k) /\ ~IsCommentEnd(t, k) /\ body[k + 1][q]
      \/ /\ IsBlockComment(t, k)
         /\ \E r \in k + 3 .. q : IsCommentEnd(t, r - 1) /\ body[k + 2][r - 2] /\ body[r + 1][q]
  <2>1. body[k] = BodyStep(body, t, k)
    BY DEF IsBodyScan
  <2>2. q \in 0 .. Len(t)
    BY DEF L
  <2> QED BY <2>1, <2>2 DEF BodyStep
<1>5. \A m \in Nat : m > k => BodyPassed(past, body, t, m)
  BY <1>2 DEF L
<1>6. CASE k > q
  <2>1. k = q + 1 /\ k + 2 = q + 3
    BY <1>0, <1>6
  <2>2. IsCommentEnd(t, k) /\ ~IsBlockComment(t, k)
    BY <2>1, EndsApart
  <2> QED BY <1>3, <2>1, <2>2
<1>7. CASE k <= q /\ ~IsBlockComment(t, k) /\ ~IsCommentEnd(t, k) /\ body[k + 1][q]
  <2>1. k + 1 <= q + 1
    BY <1>0, <1>7
  <2>2. BodyPassed(past, body, t, k + 1)
    BY <1>2, <1>5
  <2>3. past[k + 1][d] = past[q + 3][d - 1]
    BY <1>7, <2>1, <2>2 DEF BodyPassed, L
  <2> QED BY <1>3, <1>7, <2>3
<1>8. CASE /\ IsBlockComment(t, k)
           /\ \E r \in k + 3 .. q : IsCommentEnd(t, r - 1) /\ body[k + 2][r - 2] /\ body[r + 1][q]
  <2>1. PICK r \in k + 3 .. q : IsCommentEnd(t, r - 1) /\ body[k + 2][r - 2] /\ body[r + 1][q]
    BY <1>8
  <2>2. /\ r - 2 \in 0 .. L /\ k + 2 <= (r - 2) + 1 /\ (r - 2) + 1 = r - 1 /\ (r - 2) + 3 = r + 1
        /\ r + 1 \in Nat /\ r + 1 > k /\ r + 1 <= q + 1
    BY <1>0, <2>1
  <2>3. d + 1 \in Nat /\ d + 1 >= 1 /\ (d + 1) - 1 = d
    OBVIOUS
  <2>4. BodyPassed(past, body, t, k + 2) /\ BodyPassed(past, body, t, r + 1)
    BY <1>2, <1>5, <2>2
  <2>5. past[k + 2][d + 1] = past[r + 1][d]
    <3>1. /\ body[k + 2][r - 2] /\ IsCommentEnd(t, (r - 2) + 1) /\ r - 2 \in 0 .. Len(t)
      BY <2>1, <2>2 DEF L
    <3>2. past[k + 2][d + 1] = past[(r - 2) + 3][(d + 1) - 1]
      BY <2>2, <2>3, <2>4, <3>1 DEF BodyPassed
    <3> QED BY <2>2, <2>3, <3>2
  <2>6. past[r + 1][d] = past[q + 3][d - 1]
    BY <2>1, <2>2, <2>4 DEF BodyPassed, L
  <2> QED BY <1>3, <1>8, <2>5, <2>6
<1>9. k > q \/ k <= q
  BY <1>0
<1> QED BY <1>4, <1>6, <1>7, <1>8, <1>9

LEMMA OneCommentEnd ==
    ASSUME NEW U, NEW t \in Seq(U), NEW i \in Nat, NEW j \in CommentEnds(t, i)
    PROVE  PastComment(t, i) = [next |-> j + 1, depth |-> 0] /\ j \in i + 3 .. Len(t)
<1>1. PICK past : IsCommentScan(past, t) /\ \A k \in Nat : PastComment(t, k) = past[k + 2][1]
  BY CommentScanned
<1>2. PICK body : /\ IsBodyScan(body, t)
                  /\ \A k \in Nat : CommentEnds(t, k) =
                        {q \in k + 3 .. Len(t) :
                            IsBlockComment(t, k) /\ IsCommentEnd(t, q - 1) /\ body[k + 2][q - 2]}
  BY BodiesScanned
<1>3. \A k \in Nat : BodyPassed(past, body, t, k)
  <2> DEFINE S == {k \in Nat : BodyPassed(past, body, t, k)}
  <2>1. \A k \in Nat : (k <= Len(t) => \A m \in Nat : m > k => m \in S) => k \in S
    BY <1>1, <1>2, BodyGoesOn
  <2> HIDE DEF S
  <2>2. S \in SUBSET Nat /\ Len(t) \in Nat
    BY DEF S
  <2>3. S = Nat
    BY <2>1, <2>2, Backward
  <2> QED BY <2>3 DEF S
<1>4. j \in i + 3 .. Len(t) /\ IsCommentEnd(t, j - 1) /\ body[i + 2][j - 2]
  BY <1>2
<1>5. /\ i + 2 \in Nat /\ j - 2 \in 0 .. Len(t) /\ i + 2 <= (j - 2) + 1 /\ (j - 2) + 1 = j - 1
      /\ (j - 2) + 3 = j + 1 /\ 1 - 1 = 0 /\ j + 1 \in Nat /\ 1 \in Nat /\ 1 >= 1 /\ 0 \in Nat
  BY <1>4
<1>6. past[i + 2][1] = past[j + 1][0]
  <2>1. BodyPassed(past, body, t, i + 2)
    BY <1>3, <1>5
  <2>2. IsCommentEnd(t, (j - 2) + 1)
    BY <1>4, <1>5
  <2>3. past[i + 2][1] = past[(j - 2) + 3][1 - 1]
    BY <1>4, <1>5, <2>1, <2>2 DEF BodyPassed
  <2> QED BY <1>5, <2>3
<1>7. past[j + 1][0] = [next |-> j + 1, depth |-> 0]
  BY <1>1, <1>5 DEF IsCommentScan, CommentStep
<1> QED BY <1>1, <1>4, <1>6, <1>7

-----------------------------------------------------------------------------
\* Trivia has one reading.
LEMMA TriviaBegins ==
    ASSUME NEW U, NEW t \in Seq(U), NEW i \in Nat, NEW j \in Nat, j <= Len(t) + 1, IsTrivia(t, i, j), i # j
    PROVE  /\ i < j /\ i <= Len(t)
           /\ t[i] \in Blanks \cup {"\n"} => IsTrivia(t, i + 1, j)
           /\ IsLineComment(t, i) => ~IsDocComment(t, i) /\ IsTrivia(t, PastLine(t, i), j)
           /\ IsBlockComment(t, i) =>
                 PastComment(t, i).depth = 0 /\ IsTrivia(t, PastComment(t, i).next, j)
           /\ t[i] \in Blanks \cup {"\n"} \/ IsLineComment(t, i) \/ IsBlockComment(t, i)
<1>0. Len(t) \in Nat
  OBVIOUS
<1>1. i < j
  BY TriviaUnfolds
<1>2. i <= Len(t)
  BY <1>0, <1>1
<1>3. At(t, i) = t[i]
  BY <1>2 DEF At
<1>4. \/ t[i] \in Blanks \cup {"\n"} /\ IsTrivia(t, i + 1, j)
      \/ IsLineComment(t, i) /\ ~IsDocComment(t, i) /\ IsTrivia(t, PastLine(t, i), j)
      \/ \E q \in CommentEnds(t, i) : IsTrivia(t, q + 1, j)
  BY TriviaUnfolds
<1>5. ASSUME NEW q \in CommentEnds(t, i), IsTrivia(t, q + 1, j)
      PROVE  IsBlockComment(t, i) /\ PastComment(t, i).depth = 0 /\ IsTrivia(t, PastComment(t, i).next, j)
  <2>1. PastComment(t, i) = [next |-> q + 1, depth |-> 0]
    BY OneCommentEnd
  <2>2. IsBlockComment(t, i)
    BY BodiesScanned
  <2> QED BY <1>5, <2>1, <2>2
<1>6. /\ IsLineComment(t, i) => ~IsBlockComment(t, i) /\ t[i] = "/"
      /\ IsBlockComment(t, i) => t[i] = "/"
  BY <1>3 DEF IsLineComment, IsBlockComment
<1>7. "/" \notin Blanks \cup {"\n"}
  BY DEF Blanks
<1> QED BY <1>1, <1>2, <1>4, <1>5, <1>6, <1>7

LEMMA TriviaMeets ==
    ASSUME NEW U, NEW t \in Seq(U), NEW i \in Nat, NEW p \in Nat, NEW k \in Nat, p <= k, k <= Len(t) + 1,
           IsTrivia(t, i, p), IsTrivia(t, i, k)
    PROVE  IsTrivia(t, p, k)
<1> DEFINE S == {m \in Nat : IsTrivia(t, m, p) /\ IsTrivia(t, m, k) => IsTrivia(t, p, k)}
<1>0. Len(t) \in Nat
  OBVIOUS
<1>1. ASSUME NEW m \in Nat, m <= Len(t) => \A n \in Nat : n > m => n \in S,
             IsTrivia(t, m, p), IsTrivia(t, m, k)
      PROVE  IsTrivia(t, p, k)
  <2>1. CASE m = p
    BY <1>1, <2>1
  <2>2. CASE m # p
    <3>1. m < p /\ m <= Len(t)
      BY <1>0, <1>1, <2>2, TriviaBegins
    <3>2. m # k
      BY <1>0, <3>1
    <3>3. \A n \in Nat : n > m => n \in S
      BY <1>1, <3>1
    <3>4. CASE t[m] \in Blanks \cup {"\n"}
      <4>1. IsTrivia(t, m + 1, p) /\ IsTrivia(t, m + 1, k)
        BY <1>0, <1>1, <2>2, <3>2, <3>4, TriviaBegins
      <4> QED BY <3>3, <4>1
    <3>5. CASE IsLineComment(t, m)
      <4>1. IsTrivia(t, PastLine(t, m), p) /\ IsTrivia(t, PastLine(t, m), k)
        BY <1>0, <1>1, <2>2, <3>2, <3>5, TriviaBegins
      <4>2. PastLine(t, m) \in Nat /\ PastLine(t, m) > m
        BY <3>5, LineLater
      <4> QED BY <3>3, <4>1, <4>2
    <3>6. CASE IsBlockComment(t, m)
      <4>1. IsTrivia(t, PastComment(t, m).next, p) /\ IsTrivia(t, PastComment(t, m).next, k)
        BY <1>0, <1>1, <2>2, <3>2, <3>6, TriviaBegins
      <4>2. PastComment(t, m).next \in Nat /\ PastComment(t, m).next > m
        BY <3>6, CommentPassed
      <4> QED BY <3>3, <4>1, <4>2
    <3>7. t[m] \in Blanks \cup {"\n"} \/ IsLineComment(t, m) \/ IsBlockComment(t, m)
      BY <1>0, <1>1, <2>2, TriviaBegins
    <3> QED BY <3>4, <3>5, <3>6, <3>7
  <2> QED BY <2>1, <2>2
<1>2. S = Nat
  <2>1. \A m \in Nat : (m <= Len(t) => \A n \in Nat : n > m => n \in S) => m \in S
    BY <1>1
  <2> HIDE DEF S
  <2>2. S \in SUBSET Nat
    BY DEF S
  <2> QED BY <1>0, <2>1, <2>2, Backward
<1> QED BY <1>2

-----------------------------------------------------------------------------
\* PeekNextKind looks past trivia and doc comments.
KindAt(t, at) ==
    IF at > Len(t) THEN "Eof"
    ELSE IF t[at] = "else" /\ PastRun(t, at, Alnum) = at + 1 THEN "else"
    ELSE IF t[at] \in {",", ")", "]", "}", "."} THEN t[at]
    ELSE "Ident"
IsSpace(t, k) == At(t, k) \in Blanks \cup {"\n"}
PeekStep(past, t, k) ==
    IF IsSpace(t, k) THEN past[k + 1]
    ELSE IF IsLineComment(t, k) THEN past[PastLine(t, k)]
    ELSE IF IsBlockComment(t, k) THEN past[PastComment(t, k).next]
    ELSE k
IsPeekScan(past, t) == past = [k \in Nat |-> PeekStep(past, t, k)]

LEMMA SpaceInText ==
    ASSUME NEW U, NEW t \in Seq(U), NEW k \in Nat, IsSpace(t, k)
    PROVE  k <= Len(t)
<1>1. At(t, k) # "NUL"
  BY DEF IsSpace, Blanks
<1> QED BY <1>1, InText

LEMMA PeekScanned ==
    ASSUME NEW U, NEW t \in Seq(U)
    PROVE  \E past : IsPeekScan(past, t) /\ \A i \in Nat : PeekNextKind(t, i) = KindAt(t, past[i])
<1> DEFINE H == [x \in Nat |-> [f \in [Nat -> Nat] |-> PeekStep(f, t, x)]]
<1>0. ASSUME NEW x \in Nat
      PROVE  /\ IsSpace(t, x) \/ IsLineComment(t, x) \/ IsBlockComment(t, x) => x <= Len(t)
             /\ IsLineComment(t, x) => PastLine(t, x) \in Nat /\ PastLine(t, x) > x
             /\ IsBlockComment(t, x) => PastComment(t, x).next \in Nat /\ PastComment(t, x).next > x
             /\ x + 1 \in Nat /\ x + 1 > x
  <2>1. IsLineComment(t, x) \/ IsBlockComment(t, x) => x <= Len(t)
    <3>1. IsLineComment(t, x) \/ IsBlockComment(t, x) => At(t, x) # "NUL"
      BY DEF IsLineComment, IsBlockComment
    <3> QED BY <3>1, InText
  <2>2. IsBlockComment(t, x) => PastComment(t, x).next \in Nat /\ PastComment(t, x).next > x
    <3>1. IsBlockComment(t, x) => PastComment(t, x).next \in x + 2 .. Len(t) + 1
      BY CommentPassed
    <3> QED BY <3>1
  <2> QED BY <2>1, <2>2, SpaceInText, LineLater
<1>1. ASSUME NEW x \in Nat, NEW f \in [Nat -> Nat] PROVE PeekStep(f, t, x) \in Nat
  BY <1>0 DEF PeekStep
<1>2. H \in [Nat -> [[Nat -> Nat] -> Nat]] /\ \A x \in Nat, f \in [Nat -> Nat] : H[x][f] = PeekStep(f, t, x)
  BY <1>1
<1>3. ASSUME NEW x \in Nat, NEW f \in [Nat -> Nat], NEW g \in [Nat -> Nat],
             x <= Len(t) => \A y \in Nat : y > x => f[y] = g[y]
      PROVE  PeekStep(f, t, x) = PeekStep(g, t, x)
  BY <1>0, <1>3 DEF PeekStep
<1>4. LooksAhead(H, Nat, Len(t))
  <2>1. Nat # {}
    OBVIOUS
  <2>2. ASSUME NEW x \in Nat, NEW f \in [Nat -> Nat], NEW g \in [Nat -> Nat],
               x <= Len(t) => \A y \in Nat : y > x => f[y] = g[y]
        PROVE  H[x][f] = H[x][g]
    BY <1>2, <1>3, <2>2
  <2> HIDE DEF H
  <2> QED BY <1>2, <2>1, <2>2 DEF LooksAhead
<1>5. \E f : IsPeekScan(f, t)
  <2>1. Len(t) \in Nat
    OBVIOUS
  <2> HIDE DEF H
  <2>2. PICK f : Solution(f, H, Nat)
    BY <1>4, <2>1, Forward
  <2>3. f = [x \in Nat |-> PeekStep(f, t, x)]
    BY <1>2, <2>2 DEF Solution
  <2> QED BY <2>3 DEF IsPeekScan
<1>6. IsPeekScan(CHOOSE past : IsPeekScan(past, t), t)
  BY <1>5
<1>7. \A i \in Nat : PeekNextKind(t, i) = KindAt(t, (CHOOSE past : IsPeekScan(past, t))[i])
  BY DEF PeekNextKind, IsPeekScan, PeekStep, IsSpace, KindAt
<1> QED BY <1>6, <1>7

LEMMA PeekUnfolds ==
    ASSUME NEW U, NEW t \in Seq(U), NEW i \in Nat
    PROVE  /\ IsSpace(t, i) => PeekNextKind(t, i) = PeekNextKind(t, i + 1)
           /\ IsLineComment(t, i) => PeekNextKind(t, i) = PeekNextKind(t, PastLine(t, i))
           /\ IsBlockComment(t, i) => PeekNextKind(t, i) = PeekNextKind(t, PastComment(t, i).next)
           /\ ~IsSpace(t, i) /\ ~IsLineComment(t, i) /\ ~IsBlockComment(t, i) =>
                 PeekNextKind(t, i) = KindAt(t, i)
<1>1. PICK past : IsPeekScan(past, t) /\ \A k \in Nat : PeekNextKind(t, k) = KindAt(t, past[k])
  BY PeekScanned
<1>2. past[i] = PeekStep(past, t, i)
  BY <1>1 DEF IsPeekScan
<1>3. IsSpace(t, i) => past[i] = past[i + 1]
  BY <1>2 DEF PeekStep
<1>4. /\ IsLineComment(t, i) => ~IsSpace(t, i) /\ ~IsBlockComment(t, i)
      /\ IsBlockComment(t, i) => ~IsSpace(t, i) /\ ~IsLineComment(t, i)
  BY DEF IsLineComment, IsBlockComment, IsSpace, Blanks
<1>5. IsLineComment(t, i) => past[i] = past[PastLine(t, i)] /\ PastLine(t, i) \in Nat
  BY <1>2, <1>4, LineLater DEF PeekStep
<1>6. IsBlockComment(t, i) => past[i] = past[PastComment(t, i).next] /\ PastComment(t, i).next \in Nat
  BY <1>2, <1>4, CommentPassed DEF PeekStep
<1>7. ~IsSpace(t, i) /\ ~IsLineComment(t, i) /\ ~IsBlockComment(t, i) => past[i] = i
  BY <1>2 DEF PeekStep
<1> QED BY <1>1, <1>3, <1>5, <1>6, <1>7

-----------------------------------------------------------------------------
\* What the scanner that runs ahead sees of a token is whether it continues the line.
ContinuesLine(kind) == SuppressSemi(kind) \/ kind \in {"..", "..=", "..<"}
Tells(t, i, kind) == SuppressSemi(PeekNextKind(t, i)) <=> ContinuesLine(kind)
Closers == {",", ")", "]", "}", "."}
Continuing == Closers \cup {"else", "Eof", "..", "..=", "..<"}
Begins(t, i) ==
    ~IsSpace(t, i) /\ ~IsLineComment(t, i) /\ ~IsBlockComment(t, i)

LEMMA ContinuingIs ==
    ASSUME NEW kind
    PROVE  /\ ContinuesLine(kind) <=> kind \in Continuing
           /\ SuppressSemi(kind) <=> kind \in Closers \cup {"else", "Eof"}
BY DEF ContinuesLine, SuppressSemi, Continuing, Closers

\* Units other than these stand for an identifier.
LEMMA SeenAt ==
    ASSUME NEW U, NEW t, NEW i, TextAt(U, t, i), Begins(t, i)
    PROVE  /\ SuppressSemi(PeekNextKind(t, i)) <=>
                  t[i] \in Closers \/ (t[i] = "else" /\ PastRun(t, i, Alnum) = i + 1)
<1>0. t \in Seq(U) /\ i \in Nat /\ ~(i > Len(t))
  BY DEF TextAt
<1>1. PeekNextKind(t, i) = KindAt(t, i)
  BY <1>0, PeekUnfolds DEF Begins
<1>2. KindAt(t, i) = IF t[i] = "else" /\ PastRun(t, i, Alnum) = i + 1 THEN "else"
                     ELSE IF t[i] \in Closers THEN t[i] ELSE "Ident"
  BY <1>0 DEF KindAt, Closers
<1>3. "Ident" \notin Closers \cup {"else", "Eof"} /\ "else" \notin Closers /\ "Eof" \notin Closers
  BY DEF Closers
<1>4. SuppressSemi(KindAt(t, i)) <=> KindAt(t, i) \in Closers \cup {"else", "Eof"}
  BY ContinuingIs
<1> QED BY <1>1, <1>2, <1>3, <1>4

LEMMA WordBegins ==
    ASSUME NEW U, NEW t, NEW i, TextAt(U, t, i), t[i] \in Alnum \cup {"\"", "'"}
    PROVE  Begins(t, i) /\ t[i] \notin Closers
<1>1. At(t, i) = t[i]
  BY DEF TextAt, At
<1>2. ASSUME NEW k \in Letters PROVE k \notin Blanks \cup {"\n", "/"} \cup Closers
  <2>1. k \notin Blanks \cup Operators \cup Delimiters \cup {"\n"}
    BY LettersAssumption
  <2>2. "/" \in Operators \cup Delimiters /\ Closers \subseteq Operators \cup Delimiters
    BY DEF Operators, Delimiters, Closers
  <2> QED BY <2>1, <2>2
<1>3. (Digits \cup {"_", "\"", "'"}) \cap (Blanks \cup {"\n", "/"} \cup Closers) = {}
  BY DEF Digits, Blanks, Closers
<1>4. t[i] \notin Blanks \cup {"\n", "/"} \cup Closers
  BY <1>2, <1>3 DEF Alnum
<1> QED BY <1>1, <1>4 DEF Begins, IsSpace, IsLineComment, IsBlockComment

LEMMA IdentifierTold ==
    ASSUME NEW U, NEW t, NEW i, TextAt(U, t, i), t[i] \in Letters \cup {"_"}
    PROVE  Tells(t, i, Identifier(t, i).kind)
<1> DEFINE one == PastRun(t, i, Alnum) = i + 1
           kind == Identifier(t, i).kind
<1>1. Begins(t, i) /\ t[i] \notin Closers
  BY WordBegins DEF Alnum
<1>2. SuppressSemi(PeekNextKind(t, i)) <=> t[i] = "else" /\ one
  BY <1>1, SeenAt
<1>3. kind = IF one /\ t[i] \in Keywords \cup {"_"} THEN t[i] ELSE "Ident"
  BY DEF Identifier, Lexeme
<1> HIDE DEF one, kind
<1>4. "else" \in Keywords
  BY DEF Keywords
<1>5. ASSUME NEW k \in Keywords \cup {"_", "Ident"} PROVE k \in Continuing <=> k = "else"
  BY DEF Keywords, PrimitiveTypes, Reserved, Continuing, Closers
<1>6. "Ident" # "else"
  OBVIOUS
<1>7. kind \in Continuing <=> t[i] = "else" /\ one
  BY <1>3, <1>4, <1>5, <1>6
<1> QED BY <1>2, <1>7, ContinuingIs DEF Tells, kind

\* A number or a literal.
LEMMA LiteralTold ==
    ASSUME NEW U, NEW t, NEW i, TextAt(U, t, i), t[i] \in Digits \cup {"\"", "'"}, NEW kind \in Literals
    PROVE  Tells(t, i, kind)
<1>1. Begins(t, i) /\ t[i] \notin Closers
  BY WordBegins DEF Alnum
<1>2. t[i] # "else"
  BY DEF Digits
<1>3. ~SuppressSemi(PeekNextKind(t, i))
  BY <1>1, <1>2, SeenAt
<1>4. kind \notin Continuing
  BY DEF Literals, Continuing, Closers
<1> QED BY <1>3, <1>4, ContinuingIs DEF Tells

LEMMA SymbolTold ==
    ASSUME NEW U, NEW t, NEW i, TextAt(U, t, i), Begins(t, i), Symbol(t, i).kind # "Error"
    PROVE  Tells(t, i, Symbol(t, i).kind)
<1> DEFINE kind == Symbol(t, i).kind
<1>0. "else" \notin Singles /\ "Eof" \notin Singles /\ "else" \notin Operators /\ "Eof" \notin Operators
  BY DEF Singles, Delimiters, Operators
<1>1. ASSUME t[i] \in Singles PROVE SuppressSemi(PeekNextKind(t, i)) <=> t[i] \in Closers
  <2>1. t[i] # "else"
    BY <1>0, <1>1
  <2> QED BY <2>1, SeenAt
<1>2. Closers \subseteq Singles /\ Closers \ {"."} \subseteq Delimiters /\ "." \in Closers
  BY DEF Closers, Singles, Delimiters
<1>3. ASSUME NEW k \in ThreesAt(t, i) \cup TwosAt(t, i) PROVE Tells(t, i, k)
  <2>1. /\ t[i] \in Singles /\ t[i] \notin Delimiters
        /\ k \in Operators /\ k \notin Singles /\ (k \in Ranges <=> t[i] = ".")
    BY SeveralAt
  <2>2. SuppressSemi(PeekNextKind(t, i)) <=> t[i] = "."
    BY <1>1, <1>2, <2>1
  <2>3. k \in Continuing <=> k \in Ranges
    BY <1>0, <1>2, <2>1 DEF Continuing, Ranges
  <2> QED BY <2>1, <2>2, <2>3, ContinuingIs DEF Tells
<1>4. ASSUME t[i] \in Singles PROVE Tells(t, i, t[i])
  <2>1. Ranges \cap Singles = {}
    BY DEF Ranges, Singles, Delimiters
  <2>2. t[i] \in Continuing <=> t[i] \in Closers
    BY <1>0, <1>4, <2>1 DEF Continuing, Ranges
  <2> QED BY <1>1, <1>4, <2>2, ContinuingIs DEF Tells
<1>5. \A n : Bad("InvalidChar", n).kind = "Error"
  BY DEF Bad
<1>6. \A k, n : Lexeme(k, n).kind = k
  BY DEF Lexeme
<1> QED BY <1>3, <1>4, <1>5, <1>6, SymbolIs

LEMMA EndTold ==
    ASSUME NEW U, NEW t \in Seq(U), NEW i \in Nat, i > Len(t)
    PROVE  Tells(t, i, "Eof")
<1>1. At(t, i) = "NUL"
  BY DEF At
<1>2. "NUL" \notin Blanks \cup {"\n"} /\ "NUL" # "/"
  BY DEF Blanks
<1>3. ~IsSpace(t, i) /\ ~IsLineComment(t, i) /\ ~IsBlockComment(t, i)
  BY <1>1, <1>2 DEF IsSpace, IsLineComment, IsBlockComment
<1>4. PeekNextKind(t, i) = "Eof"
  BY <1>3, PeekUnfolds DEF KindAt
<1> QED BY <1>4 DEF Tells, ContinuesLine, SuppressSemi

-----------------------------------------------------------------------------
\* The lines of a text t without errors, its tokens o, the position p reached
\* and the kind l of the last token.
LineEndsIn(t, i, j) == \E k \in i .. j - 1 : t[k] = "\n" /\ IsTrivia(t, i, k)
Silent(t, token) == LineEndIn(t, token) \/ token.kind = "DocComment"
AllSilent(t, o, j, k) == \A m \in j + 1 .. k - 1 : Silent(t, o[m])
Separates(t, token, q) ==
    LineEndsIn(t, token.end, q) /\ InsertsSemi(token.kind) /\ ~SuppressSemi(PeekNextKind(t, token.end))
Distance(t, token, q) == IF Separates(t, token, q) THEN 2 ELSE 1

\* A token ends in the text, and tells what was seen of it.
SpelledAt(t, o) ==
    \A k \in 1 .. Len(o) :
        /\ o[k].end <= Len(t) + 1 /\ o[k].kind # "Error"
        /\ ~Silent(t, o[k]) => Tells(t, o[k].start, o[k].kind)
LastKind(o) == IF o = <<>> THEN "Eof" ELSE o[Len(o)].kind
\* What was seen from the end of a token is what comes after line ends and doc comments.
SeesAt(t, o) ==
    \A j, k \in 1 .. Len(o) :
        j < k /\ AllSilent(t, o, j, k) => PeekNextKind(t, o[j].end) = PeekNextKind(t, o[k].start)
SeesOn(t, p, o) ==
    \A j \in 1 .. Len(o) :
        AllSilent(t, o, j, Len(o) + 1) => PeekNextKind(t, o[j].end) = PeekNextKind(t, p)
\* From a token to the next, and from the last one to p.
SeparatedAt(t, o) ==
    \A j, k \in 1 .. Len(o) :
        /\ j < k /\ ~LineEndIn(t, o[j]) /\ ~LineEndIn(t, o[k]) /\ OnlyLineEnds(t, o, j, k)
        => k - j = Distance(t, o[j], o[k].start)
SeparatedOn(t, p, o) ==
    \A j \in 1 .. Len(o) :
        ~LineEndIn(t, o[j]) /\ OnlyLineEnds(t, o, j, Len(o) + 1)
        => (Len(o) + 1) - j = Distance(t, o[j], p)

LinesAt(t, p, o, l) ==
    /\ p <= Len(t) + 1 /\ SpelledAt(t, o) /\ l = LastKind(o)
    /\ SeesAt(t, o) /\ SeesOn(t, p, o) /\ SeparatedAt(t, o) /\ SeparatedOn(t, p, o)

\* No line ends in what is skipped from p to q.
Quiet(t, p, q) == \A k \in p .. q - 1 : ~(t[k] = "\n" /\ IsTrivia(t, p, k))
Sees(t, p, q) == PeekNextKind(t, p) = PeekNextKind(t, q)

\* A run of tokens without a line end is trivia up to p.
LEMMA GapTrivia ==
    ASSUME NEW U, NEW t, NEW p, NEW o, NEW b, InvAt(U, t, p, o, b), NEW l, LinesAt(t, p, o, l),
           NEW j \in 1 .. Len(o), ~LineEndIn(t, o[j]), OnlyLineEnds(t, o, j, Len(o) + 1)
    PROVE  IsTrivia(t, o[j].end, p) /\ o[j].end \in Nat
<1>1. o \in Seq(TokenSet) /\ t \in Seq(U)
  BY DEF InvAt, TypedAt
<1>2. o[j].end \in Nat /\ Len(t) \in Nat /\ j # 0 /\ j \in 0 .. Len(o)
  BY <1>1, TokensTyped
<1>3. Reaches(t, o[j].end, p)
  <2>1. IsSpelled(t, o, j) /\ EndIn(o, j) = o[j].end
    BY <1>2 DEF IsSpelled, EndIn
  <2>2. Reaches(t, EndIn(o, j), p)
    BY <1>2, <2>1 DEF InvAt, GapAt
  <2> QED BY <2>1, <2>2
<1>4. o[j].end <= Len(t) + 1
  BY DEF LinesAt, SpelledAt
<1> QED BY <1>2, <1>3, <1>4 DEF Reaches

\* Skipping what holds no line end separates nothing more.
LEMMA QuietSkip ==
    ASSUME NEW U, NEW t \in Seq(U), NEW e \in Nat, NEW p \in Nat, NEW q \in Nat, p <= q, q <= Len(t) + 1,
           IsTrivia(t, e, p), Quiet(t, p, q)
    PROVE  LineEndsIn(t, e, q) <=> LineEndsIn(t, e, p)
<1>1. ASSUME NEW k \in e .. q - 1, t[k] = "\n", IsTrivia(t, e, k), k >= p PROVE FALSE
  <2>1. k \in Nat /\ p <= k /\ k <= Len(t) + 1 /\ k \in p .. q - 1
    BY <1>1
  <2>2. IsTrivia(t, p, k)
    BY <1>1, <2>1, TriviaMeets
  <2> QED BY <1>1, <2>1, <2>2 DEF Quiet
<1>2. \A k \in e .. q - 1 : k >= p \/ k \in e .. p - 1
  OBVIOUS
<1>3. \A k \in e .. p - 1 : k \in e .. q - 1
  OBVIOUS
<1> QED BY <1>1, <1>2, <1>3 DEF LineEndsIn

LEMMA QuietKeeps ==
    ASSUME NEW U, NEW t, NEW p, NEW o, NEW b, InvAt(U, t, p, o, b), NEW l, LinesAt(t, p, o, l),
           NEW q \in Nat, p <= q, q <= Len(t) + 1, Quiet(t, p, q), Sees(t, p, q)
    PROVE  LinesAt(t, q, o, l)
<1>1. t \in Seq(U) /\ p \in Nat
  BY DEF InvAt, TypedAt
<1>2. SeesOn(t, q, o)
  BY DEF LinesAt, SeesOn, Sees
<1>3. SeparatedOn(t, q, o)
  <2> SUFFICES ASSUME NEW j \in 1 .. Len(o), ~LineEndIn(t, o[j]), OnlyLineEnds(t, o, j, Len(o) + 1)
               PROVE  (Len(o) + 1) - j = Distance(t, o[j], q)
    BY DEF SeparatedOn
  <2>1. IsTrivia(t, o[j].end, p) /\ o[j].end \in Nat
    BY GapTrivia
  <2>2. LineEndsIn(t, o[j].end, q) <=> LineEndsIn(t, o[j].end, p)
    BY <1>1, <2>1, QuietSkip
  <2>3. Distance(t, o[j], q) = Distance(t, o[j], p)
    BY <2>2 DEF Distance, Separates
  <2>4. (Len(o) + 1) - j = Distance(t, o[j], p)
    BY DEF LinesAt, SeparatedOn
  <2> QED BY <2>3, <2>4
<1> QED BY <1>2, <1>3 DEF LinesAt

LEMMA BlankQuiet ==
    ASSUME NEW U, NEW t, NEW p, TextAt(U, t, p), t[p] \in Blanks
    PROVE  Quiet(t, p, p + 1) /\ Sees(t, p, p + 1) /\ p + 1 \in Nat /\ p + 1 <= Len(t) + 1
<1>1. t \in Seq(U) /\ p \in Nat /\ p + 1 \in Nat /\ p + 1 <= Len(t) + 1
  BY DEF TextAt
<1>2. t[p] # "\n"
  BY DEF Blanks
<1>3. \A k \in p .. (p + 1) - 1 : k = p
  BY <1>1
<1>4. IsSpace(t, p)
  BY DEF IsSpace, At, TextAt
<1> QED BY <1>1, <1>2, <1>3, <1>4, PeekUnfolds DEF Quiet, Sees

LEMMA LineQuiet ==
    ASSUME NEW U, NEW t, NEW p, TextAt(U, t, p), IsLineComment(t, p)
    PROVE  LET q == PastLine(t, p) IN
           Quiet(t, p, q) /\ Sees(t, p, q) /\ q \in Nat /\ p < q /\ q <= Len(t) + 1
<1>1. t \in Seq(U) /\ p \in Nat /\ p <= Len(t)
  BY DEF TextAt
<1> DEFINE q == PastLine(t, p)
<1>2. \A k \in p .. q - 1 : t[k] # "\n"
  BY <1>1, PastLineEnds
<1>3. q \in Nat /\ p < q /\ q <= Len(t) + 1
  BY <1>1, LineLater
<1>4. Sees(t, p, q)
  BY <1>1, PeekUnfolds DEF Sees
<1> QED BY <1>2, <1>3, <1>4 DEF Quiet

LEMMA CommentQuiet ==
    ASSUME NEW U, NEW t, NEW p, TextAt(U, t, p), IsBlockComment(t, p), PastComment(t, p).depth = 0
    PROVE  LET q == PastComment(t, p).next IN
           Quiet(t, p, q) /\ Sees(t, p, q) /\ q \in Nat /\ p < q /\ q <= Len(t) + 1
<1>1. t \in Seq(U) /\ p \in Nat /\ p <= Len(t) /\ At(t, p) = t[p]
  BY DEF TextAt, At
<1> DEFINE q == PastComment(t, p).next
<1>2. q \in Nat /\ p < q /\ q <= Len(t) + 1
  <2>1. q \in p + 2 .. Len(t) + 1
    BY <1>1, CommentPassed
  <2> QED BY <1>1, <2>1
<1>3. Sees(t, p, q)
  BY <1>1, PeekUnfolds DEF Sees
<1>4. Quiet(t, p, q)
  <2> SUFFICES ASSUME NEW k \in p .. q - 1, t[k] = "\n", IsTrivia(t, p, k) PROVE FALSE
    BY DEF Quiet
  <2>1. t[p] # "\n"
    BY <1>1 DEF IsBlockComment
  <2>2. k # p
    BY <2>1
  <2>3. k \in Nat /\ k <= Len(t) + 1 /\ ~(q <= k)
    BY <1>1, <1>2
  <2>4. IsTrivia(t, q, k)
    BY <1>1, <2>2, <2>3, TriviaBegins
  <2>5. q <= k
    BY <1>1, <1>2, <2>3, <2>4, TriviaUnfolds
  <2> QED BY <2>3, <2>5
<1> QED BY <1>2, <1>3, <1>4

-----------------------------------------------------------------------------
\* A token x from p to q is appended.
LEMMA SilenceKept ==
    ASSUME NEW t, NEW o \in Seq(TokenSet), NEW x \in TokenSet,
           NEW j \in 1 .. Len(o), NEW k \in 1 .. Len(o) + 1
    PROVE  AllSilent(t, Append(o, x), j, k) <=> AllSilent(t, o, j, k)
<1> DEFINE o2 == Append(o, x)
<1>1. Len(o) \in Nat /\ \A m \in 1 .. Len(o) : o2[m] = o[m]
  BY Appended
<1> HIDE DEF o2
<1>2. \A m \in j + 1 .. k - 1 : m \in 1 .. Len(o)
  BY <1>1
<1>3. \A m \in j + 1 .. k - 1 : o2[m] = o[m]
  BY <1>1, <1>2
<1> QED BY <1>3 DEF AllSilent, o2

\* Silence up to the appended token is silence before it and of it.
LEMMA SilenceEnds ==
    ASSUME NEW t, NEW o \in Seq(TokenSet), NEW x \in TokenSet, NEW j \in 1 .. Len(o)
    PROVE  /\ AllSilent(t, Append(o, x), j, (Len(o) + 1) + 1) => AllSilent(t, o, j, Len(o) + 1) /\ Silent(t, x)
           /\ OnlyLineEnds(t, Append(o, x), j, (Len(o) + 1) + 1) =>
                 OnlyLineEnds(t, o, j, Len(o) + 1) /\ LineEndIn(t, x)
<1> DEFINE n  == Len(o)
           o2 == Append(o, x)
<1>1. n \in Nat /\ o2[n + 1] = x /\ \A m \in 1 .. n : o2[m] = o[m]
  BY Appended
<1>2. n + 1 \in j + 1 .. ((n + 1) + 1) - 1 /\ n + 1 \in 1 .. Len(o) + 1 /\ j \in 0 .. Len(o)
  BY <1>1
<1>3. \A m \in j + 1 .. (n + 1) - 1 : m \in j + 1 .. ((n + 1) + 1) - 1
  BY <1>1
<1>4. AllSilent(t, o2, j, n + 1) <=> AllSilent(t, o, j, n + 1)
  BY <1>2, SilenceKept
<1>5. OnlyLineEnds(t, o2, j, n + 1) <=> OnlyLineEnds(t, o, j, n + 1)
  BY <1>2, PrefixKept
<1> HIDE DEF o2
<1>6. AllSilent(t, o2, j, (n + 1) + 1) => AllSilent(t, o, j, n + 1) /\ Silent(t, x)
  BY <1>1, <1>2, <1>3, <1>4 DEF AllSilent
<1>7. OnlyLineEnds(t, o2, j, (n + 1) + 1) => OnlyLineEnds(t, o, j, n + 1) /\ LineEndIn(t, x)
  BY <1>1, <1>2, <1>3, <1>5 DEF OnlyLineEnds
<1> QED BY <1>6, <1>7 DEF o2

\* What a token from p to q must be.
Fits(t, p, q, x) ==
    /\ x \in TokenSet /\ x.start = p /\ x.end = q /\ q <= Len(t) + 1 /\ x.kind # "Error"
    /\ Silent(t, x) => Sees(t, p, q)
    /\ ~Silent(t, x) => Tells(t, p, x.kind)

LEMMA SeesKept ==
    ASSUME NEW t, NEW o \in Seq(TokenSet), NEW p \in Nat, NEW q \in Nat, NEW x, Fits(t, p, q, x),
           SeesAt(t, o), SeesOn(t, p, o)
    PROVE  SeesAt(t, Append(o, x)) /\ SeesOn(t, q, Append(o, x))
<1> DEFINE n  == Len(o)
           o2 == Append(o, x)
<1>0. x \in TokenSet /\ x.start = p /\ x.end = q
  BY DEF Fits
<1>1. n \in Nat /\ Len(o2) = n + 1 /\ o2[n + 1] = x /\ \A m \in 1 .. n : o2[m] = o[m]
  BY <1>0, Appended
<1>2. SeesAt(t, o2)
  <2> SUFFICES ASSUME NEW j \in 1 .. n + 1, NEW k \in 1 .. n + 1, j < k, AllSilent(t, o2, j, k)
               PROVE  PeekNextKind(t, o2[j].end) = PeekNextKind(t, o2[k].start)
    BY <1>1 DEF SeesAt
  <2>1. j \in 1 .. n /\ o2[j] = o[j]
    BY <1>1
  <2>2. AllSilent(t, o, j, k)
    BY <1>0, <2>1, SilenceKept
  <2> HIDE DEF o2
  <2>3. CASE k = n + 1
    BY <1>0, <1>1, <2>1, <2>2, <2>3 DEF SeesOn
  <2>4. CASE k # n + 1
    <3>1. k \in 1 .. n /\ o2[k] = o[k]
      BY <1>1, <2>4
    <3> QED BY <2>1, <2>2, <3>1 DEF SeesAt
  <2> QED BY <2>3, <2>4
<1>3. SeesOn(t, q, o2)
  <2> SUFFICES ASSUME NEW j \in 1 .. n + 1, AllSilent(t, o2, j, (n + 1) + 1)
               PROVE  PeekNextKind(t, o2[j].end) = PeekNextKind(t, q)
    BY <1>1 DEF SeesOn
  <2>1. CASE j = n + 1
    <3> HIDE DEF o2
    <3> QED BY <1>0, <1>1, <2>1
  <2>2. CASE j # n + 1
    <3>1. j \in 1 .. n /\ o2[j] = o[j]
      BY <1>1, <2>2
    <3>2. AllSilent(t, o, j, n + 1) /\ Silent(t, x)
      BY <1>0, <3>1, SilenceEnds
    <3>3. Sees(t, p, q)
      BY <3>2 DEF Fits
    <3> HIDE DEF o2
    <3> QED BY <3>1, <3>2, <3>3 DEF SeesOn, Sees
  <2> QED BY <2>1, <2>2
<1> QED BY <1>2, <1>3

LEMMA SpelledKept ==
    ASSUME NEW t, NEW o \in Seq(TokenSet), NEW p \in Nat, NEW q \in Nat, NEW x, Fits(t, p, q, x),
           SpelledAt(t, o)
    PROVE  SpelledAt(t, Append(o, x)) /\ x.kind = LastKind(Append(o, x))
<1> DEFINE n  == Len(o)
           o2 == Append(o, x)
<1>0. x \in TokenSet
  BY DEF Fits
<1>1. n \in Nat /\ Len(o2) = n + 1 /\ o2 # <<>> /\ o2[n + 1] = x /\ \A m \in 1 .. n : o2[m] = o[m]
  BY <1>0, Appended
<1> HIDE DEF o2
<1>2. \A k \in 1 .. n + 1 : k = n + 1 \/ k \in 1 .. n
  BY <1>1
<1>3. SpelledAt(t, o2)
  BY <1>1, <1>2 DEF SpelledAt, Fits
<1> QED BY <1>1, <1>3 DEF LastKind, o2

LEMMA SeparatedKept ==
    ASSUME NEW t, NEW o \in Seq(TokenSet), NEW p \in Nat, NEW x \in TokenSet, x.start = p,
           SeparatedAt(t, o), SeparatedOn(t, p, o)
    PROVE  SeparatedAt(t, Append(o, x))
<1> DEFINE n  == Len(o)
           o2 == Append(o, x)
<1>1. n \in Nat /\ Len(o2) = n + 1 /\ o2[n + 1] = x /\ \A m \in 1 .. n : o2[m] = o[m]
  BY Appended
<1> SUFFICES ASSUME NEW j \in 1 .. n + 1, NEW k \in 1 .. n + 1, j < k,
                    ~LineEndIn(t, o2[j]), ~LineEndIn(t, o2[k]), OnlyLineEnds(t, o2, j, k)
             PROVE  k - j = Distance(t, o2[j], o2[k].start)
  BY <1>1 DEF SeparatedAt
<1>2. j \in 1 .. n /\ j \in 0 .. n /\ o2[j] = o[j]
  BY <1>1
<1>3. OnlyLineEnds(t, o, j, k)
  BY <1>2, PrefixKept
<1> HIDE DEF o2
<1>4. CASE k = n + 1
  <2>1. (n + 1) - j = Distance(t, o[j], p)
    BY <1>2, <1>3, <1>4 DEF SeparatedOn
  <2> QED BY <1>1, <1>2, <1>4, <2>1
<1>5. CASE k # n + 1
  <2>1. k \in 1 .. n /\ o2[k] = o[k]
    BY <1>1, <1>5
  <2> QED BY <1>2, <1>3, <2>1 DEF SeparatedAt
<1> QED BY <1>4, <1>5

\* A token that the text spells.
LEMMA SpelledKeeps ==
    ASSUME NEW U, NEW t, NEW p, NEW o, NEW b, InvAt(U, t, p, o, b), NEW l, LinesAt(t, p, o, l),
           NEW q \in Nat, NEW x, Fits(t, p, q, x), ~LineEndIn(t, x)
    PROVE  LinesAt(t, q, Append(o, x), x.kind)
<1> DEFINE n  == Len(o)
           o2 == Append(o, x)
<1>0. o \in Seq(TokenSet) /\ p \in Nat /\ x \in TokenSet /\ x.start = p /\ x.end = q /\ q <= Len(t) + 1
  BY DEF Fits, InvAt, TypedAt
<1>1. n \in Nat /\ Len(o2) = n + 1 /\ o2[n + 1] = x
  BY <1>0, Appended
<1>2. SeesAt(t, o2) /\ SeesOn(t, q, o2)
  BY <1>0, SeesKept DEF LinesAt
<1>3. SpelledAt(t, o2) /\ x.kind = LastKind(o2)
  BY <1>0, SpelledKept DEF LinesAt
<1>4. SeparatedAt(t, o2)
  BY <1>0, SeparatedKept DEF LinesAt
<1>5. SeparatedOn(t, q, o2)
  <2> SUFFICES ASSUME NEW j \in 1 .. n + 1, OnlyLineEnds(t, o2, j, (n + 1) + 1)
               PROVE  ((n + 1) + 1) - j = Distance(t, o2[j], q)
    BY <1>1 DEF SeparatedOn
  <2>1. j = n + 1
    <3>1. j \in 1 .. n => LineEndIn(t, x)
      BY <1>0, SilenceEnds
    <3> QED BY <1>1, <3>1
  <2>2. ~LineEndsIn(t, q, q)
    BY DEF LineEndsIn
  <2>3. Distance(t, x, q) = 1
    BY <1>0, <2>2 DEF Distance, Separates
  <2>4. o2[j] = x
    BY <1>1, <2>1
  <2> HIDE DEF o2
  <2>5. ((n + 1) + 1) - j = 1
    BY <1>1, <2>1
  <2> QED BY <2>3, <2>4, <2>5
<1> QED BY <1>0, <1>2, <1>3, <1>4, <1>5 DEF LinesAt

\* EndLine.
LEMMA OpenLine ==
    ASSUME NEW U, NEW t, NEW p, NEW o, NEW b, InvAt(U, t, p, o, b), NEW l, LinesAt(t, p, o, l),
           TextAt(U, t, p), t[p] = "\n", NEW j \in 1 .. Len(o), ~LineEndIn(t, o[j]),
           OnlyLineEnds(t, o, j, Len(o) + 1)
    PROVE  LET emits == InsertsSemi(l) /\ ~SuppressSemi(PeekNextKind(t, p + 1)) IN
           /\ emits => (Len(o) + 1) - j = 1 /\ Distance(t, o[j], p + 1) = 2
           /\ ~emits => (Len(o) + 1) - j = Distance(t, o[j], p + 1)
<1> DEFINE n == Len(o)
           emits == InsertsSemi(l) /\ ~SuppressSemi(PeekNextKind(t, p + 1))
<1>0. o \in Seq(TokenSet) /\ n \in Nat /\ t \in Seq(U) /\ p \in Nat /\ o # <<>>
  BY DEF InvAt, TypedAt
<1>1. IsTrivia(t, o[j].end, p) /\ o[j].end \in Nat
  BY GapTrivia
<1>2. LineEndsIn(t, o[j].end, p + 1)
  <2>1. o[j].end <= p
    BY <1>0, <1>1, TriviaUnfolds
  <2>2. p \in o[j].end .. (p + 1) - 1
    BY <1>0, <1>1, <2>1
  <2> QED BY <1>1, <2>2 DEF LineEndsIn
<1>3. PeekNextKind(t, o[j].end) = PeekNextKind(t, p + 1)
  <2>1. AllSilent(t, o, j, n + 1)
    BY DEF OnlyLineEnds, AllSilent, Silent
  <2>2. PeekNextKind(t, o[j].end) = PeekNextKind(t, p)
    BY <2>1 DEF LinesAt, SeesOn
  <2>3. IsSpace(t, p)
    BY DEF IsSpace, At, TextAt
  <2>4. PeekNextKind(t, p) = PeekNextKind(t, p + 1)
    BY <1>0, <2>3, PeekUnfolds
  <2> QED BY <2>2, <2>4
<1>4. (n + 1) - j = Distance(t, o[j], p)
  BY DEF LinesAt, SeparatedOn
<1>5. l = o[n].kind
  BY <1>0 DEF LinesAt, LastKind
<1>6. CASE Separates(t, o[j], p)
  <2>1. (n + 1) - j = 2
    BY <1>4, <1>6 DEF Distance
  <2>2. n \in j + 1 .. (n + 1) - 1
    BY <1>0, <2>1
  <2>3. l = ";"
    BY <1>5, <2>2 DEF OnlyLineEnds, LineEndIn
  <2>4. ~InsertsSemi(l)
    BY <2>3 DEF InsertsSemi, Literals, PrimitiveTypes
  <2>5. Separates(t, o[j], p + 1)
    BY <1>2, <1>6 DEF Separates
  <2> QED BY <2>1, <2>4, <2>5 DEF Distance
<1>7. CASE ~Separates(t, o[j], p)
  <2>1. (n + 1) - j = 1
    BY <1>4, <1>7 DEF Distance
  <2>2. j = n
    BY <1>0, <2>1
  <2>3. emits <=> Separates(t, o[j], p + 1)
    BY <1>2, <1>3, <1>5, <2>2 DEF Separates
  <2> QED BY <2>1, <2>3 DEF Distance
<1> QED BY <1>6, <1>7

LEMMA LineKeeps ==
    ASSUME NEW U, NEW t, NEW p, NEW o, NEW b, InvAt(U, t, p, o, b), NEW l, LinesAt(t, p, o, l),
           TextAt(U, t, p), t[p] = "\n"
    PROVE  LET emits == InsertsSemi(l) /\ ~SuppressSemi(PeekNextKind(t, p + 1))
               x == [kind |-> ";", start |-> p, end |-> p + 1]
           IN  /\ emits => LinesAt(t, p + 1, Append(o, x), ";")
               /\ ~emits => LinesAt(t, p + 1, o, l)
<1> DEFINE n == Len(o)
           emits == InsertsSemi(l) /\ ~SuppressSemi(PeekNextKind(t, p + 1))
           x == [kind |-> ";", start |-> p, end |-> p + 1]
           o2 == Append(o, x)
<1>0. /\ o \in Seq(TokenSet) /\ n \in Nat /\ t \in Seq(U) /\ p \in Nat
      /\ p + 1 \in Nat /\ p + 1 <= Len(t) + 1
  BY DEF InvAt, TypedAt, TextAt
<1>1. Sees(t, p, p + 1)
  <2>1. IsSpace(t, p)
    BY DEF IsSpace, At, TextAt
  <2> QED BY <1>0, <2>1, PeekUnfolds DEF Sees
<1>2. x.kind = ";" /\ x.start = p /\ x.end = p + 1 /\ x \in TokenSet /\ LineEndIn(t, x)
  BY <1>0 DEF TokenSet, Kind, Delimiters, LineEndIn
<1> HIDE DEF x
<1>3. Fits(t, p, p + 1, x)
  BY <1>0, <1>1, <1>2 DEF Fits, Silent
<1>4. n \in Nat /\ Len(o2) = n + 1 /\ o2[n + 1] = x /\ \A m \in 1 .. n : o2[m] = o[m]
  <2>1. x \in TokenSet
    BY <1>2
  <2> QED BY <1>0, <2>1, Appended
<1>5. ASSUME emits PROVE LinesAt(t, p + 1, o2, ";")
  <2>1. SeesAt(t, o2) /\ SeesOn(t, p + 1, o2)
    BY <1>0, <1>3, SeesKept DEF LinesAt
  <2>2. SpelledAt(t, o2) /\ x.kind = LastKind(o2)
    BY <1>0, <1>3, SpelledKept DEF LinesAt
  <2>3. SeparatedAt(t, o2)
    BY <1>0, <1>2, SeparatedKept DEF LinesAt
  <2>4. SeparatedOn(t, p + 1, o2)
    <3> SUFFICES ASSUME NEW j \in 1 .. n + 1, ~LineEndIn(t, o2[j]), OnlyLineEnds(t, o2, j, (n + 1) + 1)
                 PROVE  ((n + 1) + 1) - j = Distance(t, o2[j], p + 1)
      BY <1>4 DEF SeparatedOn
    <3>1. j \in 1 .. n /\ o2[j] = o[j]
      <4>1. j # n + 1
        BY <1>2, <1>4
      <4> QED BY <1>4, <4>1
    <3>2. OnlyLineEnds(t, o, j, n + 1)
      BY <1>0, <1>2, <3>1, SilenceEnds
    <3>3. (n + 1) - j = 1 /\ Distance(t, o[j], p + 1) = 2
      BY <1>5, <3>1, <3>2, OpenLine
    <3>4. ((n + 1) + 1) - j = 2
      BY <1>4, <3>3
    <3> QED BY <3>1, <3>3, <3>4
  <2> QED BY <1>0, <1>2, <2>1, <2>2, <2>3, <2>4 DEF LinesAt
<1>6. ASSUME ~emits PROVE LinesAt(t, p + 1, o, l)
  <2>1. SeesOn(t, p + 1, o)
    BY <1>1 DEF LinesAt, SeesOn, Sees
  <2>2. SeparatedOn(t, p + 1, o)
    BY <1>6, OpenLine DEF SeparatedOn
  <2> QED BY <1>0, <2>1, <2>2 DEF LinesAt
<1> QED BY <1>5, <1>6 DEF x

-----------------------------------------------------------------------------
\* The steps.  A text with an error has a diagnostic from then on.
LinesInv == bag = <<>> => LinesAt(text, pos, out, last_significant)

LEMMA QuietStep ==
    ASSUME NEW U, Inv(U), LinesInv, NEW q \in Nat, pos < q, q <= Len(text) + 1, Quiet(text, pos, q),
           Sees(text, pos, q), pos' = q, UNCHANGED <<text, last_significant, out, bag>>
    PROVE  LinesInv'
<1>1. pos \in Nat /\ pos <= q
  BY AtUnit
<1>2. bag = <<>> => LinesAt(text, q, out, last_significant)
  BY <1>1, QuietKeeps DEF Inv, LinesInv
<1> QED BY <1>2 DEF LinesInv

LEMMA ErrorStep ==
    ASSUME NEW U, Inv(U), NEW code, NEW q, EmitError(code, q)
    PROVE  LinesInv'
<1>1. bag \in Seq(Diagnostics)
  BY DEF Inv, InvAt, TypedAt
<1>2. bag' = Append(bag, [code |-> code, start |-> pos, end |-> q])
  BY DEF EmitError
<1>3. bag' # <<>>
  BY <1>1, <1>2
<1> QED BY <1>3 DEF LinesInv

LEMMA TokenStep ==
    ASSUME NEW U, Inv(U), LinesInv, NEW q \in Nat, NEW kind, Emit(kind, q),
           Fits(text, pos, q, Token(kind, q)), ~LineEndIn(text, Token(kind, q)), pos' = q, text' = text
    PROVE  LinesInv'
<1>1. /\ out' = Append(out, Token(kind, q)) /\ last_significant' = kind /\ bag' = bag
      /\ Token(kind, q).kind = kind
  BY DEF Emit, Token
<1>2. bag = <<>> => LinesAt(text, q, Append(out, Token(kind, q)), kind)
  BY <1>1, SpelledKeeps DEF Inv, LinesInv
<1> QED BY <1>1, <1>2 DEF LinesInv

\* A token read at a unit that is not the end of a line, and that is no doc comment.
LEMMA ReadStep ==
    ASSUME NEW U, Inv(U), LinesInv, More, text[pos] # "\n", NEW x, Read(text, pos, x), Take(x),
           x.kind # "DocComment", x.kind # "Error" => Tells(text, pos, x.kind)
    PROVE  LinesInv'
<1>0. pos \in Nat /\ pos' = x.next /\ text' = text /\ x.kind \in Kind /\ x.next \in Nat
  BY AtUnit DEF Take, Read
<1>1. CASE x.kind = "Error"
  <2>1. EmitError(x.code, x.next)
    BY <1>1 DEF Take
  <2> QED BY <2>1, ErrorStep
<1>2. CASE x.kind # "Error"
  <2> DEFINE token == Token(x.kind, x.next)
  <2>1. Emit(x.kind, x.next)
    BY <1>2 DEF Take
  <2>2. token \in TokenSet /\ token.kind = x.kind /\ token.start = pos /\ token.end = x.next
    BY <1>0 DEF Token, TokenSet
  <2> HIDE DEF token
  <2>3. ~LineEndIn(text, token) /\ ~Silent(text, token)
    BY <2>2 DEF LineEndIn, Silent
  <2>4. Fits(text, pos, x.next, token)
    BY <1>2, <2>2, <2>3 DEF Fits, Read
  <2> QED BY <1>0, <2>1, <2>3, <2>4, TokenStep DEF token
<1> QED BY <1>1, <1>2

LEMMA KindsOf ==
    ASSUME NEW t, NEW i
    PROVE  /\ Number(t, i).kind \in Literals \cup {"Error"}
           /\ StringLiteral(t, i).kind \in Literals \cup {"Error"}
           /\ CharLiteral(t, i).kind \in Literals \cup {"Error"}
           /\ Identifier(t, i).kind \notin {"DocComment", ";"}
           /\ "DocComment" \notin Literals \cup {"Error"}
<1>1. \A c, n : Bad(c, n).kind = "Error"
  BY DEF Bad
<1>2. \A k, n : Lexeme(k, n).kind = k
  BY DEF Lexeme
<1>3. BasedNumber(t, i).kind \in {"Integer", "Error"}
  BY <1>1, <1>2 DEF BasedNumber
<1>4. DecimalNumber(t, i).kind \in {"Integer", "Float", "Error"}
  BY <1>1, <1>2 DEF DecimalNumber
<1>5. StringLiteral(t, i).kind \in {"String", "Error"} /\ CharLiteral(t, i).kind \in {"Char", "Error"}
  BY <1>1, <1>2 DEF StringLiteral, CharLiteral
<1>6. Identifier(t, i).kind \notin {"DocComment", ";"}
  BY DEF Identifier, Lexeme, Keywords, PrimitiveTypes, Reserved
<1> QED BY <1>3, <1>4, <1>5, <1>6 DEF Number, Literals

LEMMA SymbolKind ==
    ASSUME NEW U, NEW t, NEW i, TextAt(U, t, i)
    PROVE  Symbol(t, i).kind # "DocComment"
<1>1. \A n : Bad("InvalidChar", n).kind = "Error"
  BY DEF Bad
<1>2. \A k, n : Lexeme(k, n).kind = k
  BY DEF Lexeme
<1>3. "DocComment" \notin Operators \cup Singles
  BY DEF Operators, Singles, Delimiters
<1>4. \A k \in ThreesAt(t, i) \cup TwosAt(t, i) : k \in Operators
  BY DEF ThreesAt, TwosAt
<1> QED BY <1>1, <1>2, <1>3, <1>4, SymbolIs

LEMMA LexKeepsLines ==
    ASSUME NEW U, Inv(U), LinesInv, Lex
    PROVE  LinesInv'
<1>0. /\ text \in Seq(U) /\ pos \in Nat /\ pos >= 1 /\ Len(text) \in Nat
      /\ More => TextAt(U, text, pos) /\ pos <= Len(text)
  BY AtUnit
<1>1. CASE SkipBlank
  <2>1. More /\ text[pos] \in Blanks /\ pos' = pos + 1 /\ UNCHANGED <<text, last_significant, out, bag>>
    BY <1>1 DEF SkipBlank
  <2>2. /\ Quiet(text, pos, pos + 1) /\ Sees(text, pos, pos + 1)
        /\ pos + 1 \in Nat /\ pos + 1 <= Len(text) + 1
    BY <1>0, <2>1, BlankQuiet
  <2>3. pos < pos + 1
    BY <1>0
  <2> QED BY <2>1, <2>2, <2>3, QuietStep
<1>2. CASE EndLine
  <2> DEFINE emits == InsertsSemi(last_significant) /\ ~SuppressSemi(PeekNextKind(text, pos + 1))
             x == [kind |-> ";", start |-> pos, end |-> pos + 1]
  <2>1. More /\ text[pos] = "\n" /\ pos' = pos + 1 /\ text' = text
    BY <1>2 DEF EndLine
  <2>2. bag = <<>> => /\ emits => LinesAt(text, pos + 1, Append(out, x), ";")
                      /\ ~emits => LinesAt(text, pos + 1, out, last_significant)
    BY <1>0, <2>1, LineKeeps DEF Inv, LinesInv
  <2>3. /\ emits => out' = Append(out, x) /\ last_significant' = ";" /\ bag' = bag
        /\ ~emits => UNCHANGED <<last_significant, out, bag>>
    BY <1>2 DEF EndLine, Emit, Token
  <2> HIDE DEF emits, x
  <2> QED BY <2>1, <2>2, <2>3 DEF LinesInv
<1>3. CASE SkipLineComment
  <2>1. /\ More /\ IsLineComment(text, pos)
        /\ pos' = PastLine(text, pos) /\ UNCHANGED <<text, last_significant, out, bag>>
    BY <1>3 DEF SkipLineComment
  <2> DEFINE q == PastLine(text, pos)
  <2>2. Quiet(text, pos, q) /\ Sees(text, pos, q) /\ q \in Nat /\ pos < q /\ q <= Len(text) + 1
    BY <1>0, <2>1, LineQuiet
  <2> HIDE DEF q
  <2> QED BY <2>1, <2>2, QuietStep DEF q
<1>4. CASE LexDocComment
  <2> DEFINE q == PastLine(text, pos)
             token == Token("DocComment", q)
  <2>1. More /\ IsLineComment(text, pos) /\ Take(Lexeme("DocComment", q))
    BY <1>4 DEF LexDocComment, IsDocComment
  <2>2. Sees(text, pos, q) /\ q \in Nat /\ pos < q /\ q <= Len(text) + 1
    BY <1>0, <2>1, LineQuiet
  <2>3. Emit("DocComment", q) /\ pos' = q /\ text' = text
    BY <2>1 DEF Take, Lexeme
  <2> HIDE DEF q
  <2>4. /\ token \in TokenSet /\ token.kind = "DocComment" /\ token.start = pos /\ token.end = q
        /\ ~LineEndIn(text, token)
    BY <1>0, <2>2 DEF Token, TokenSet, Kind, Classes, LineEndIn
  <2> HIDE DEF token
  <2>5. Fits(text, pos, q, token)
    BY <2>2, <2>4 DEF Fits, Silent
  <2> QED BY <2>2, <2>3, <2>4, <2>5, TokenStep DEF token
<1>5. CASE SkipBlockComment
  <2> DEFINE past == PastComment(text, pos)
             q == past.next
  <2>1. More /\ IsBlockComment(text, pos) /\ pos' = q /\ text' = text
    BY <1>5 DEF SkipBlockComment
  <2>2. CASE past.depth > 0
    <3>1. EmitError("UnterminatedBlockComment", q)
      BY <1>5, <2>2 DEF SkipBlockComment
    <3> QED BY <3>1, ErrorStep
  <2>3. CASE ~(past.depth > 0)
    <3>1. past.depth = 0
      <4>1. past.depth \in Nat
        BY <1>0, <2>1, CommentPassed DEF Marks
      <4> QED BY <2>3, <4>1
    <3>2. UNCHANGED <<last_significant, out, bag>>
      BY <1>5, <2>3 DEF SkipBlockComment
    <3>3. Quiet(text, pos, q) /\ Sees(text, pos, q) /\ q \in Nat /\ pos < q /\ q <= Len(text) + 1
      BY <1>0, <2>1, <3>1, CommentQuiet
    <3> HIDE DEF q
    <3> QED BY <2>1, <3>2, <3>3, QuietStep
  <2> QED BY <2>2, <2>3
<1>6. CASE LexNul
  <2>1. Take(Bad("InvalidChar", pos + 1))
    BY <1>6 DEF LexNul
  <2>2. EmitError("InvalidChar", pos + 1)
    BY <2>1 DEF Take, Bad
  <2> QED BY <2>2, ErrorStep
<1>7. CASE LexIdentifier
  <2> DEFINE x == Identifier(text, pos)
  <2>1. More /\ text[pos] \in Letters \cup {"_"} /\ Take(x)
    BY <1>7 DEF LexIdentifier
  <2>2. text[pos] # "\n"
    BY <2>1, LettersAssumption
  <2>3. Read(text, pos, x) /\ x.kind # "DocComment" /\ Tells(text, pos, x.kind)
    BY <1>0, <2>1, IdentifierRead, IdentifierTold, KindsOf
  <2> HIDE DEF x
  <2> QED BY <2>1, <2>2, <2>3, ReadStep
<1>8. CASE LexNumber
  <2> DEFINE x == Number(text, pos)
  <2>1. More /\ text[pos] \in Digits /\ Take(x)
    BY <1>8 DEF LexNumber
  <2>2. text[pos] # "\n"
    BY <2>1 DEF Digits
  <2>3. Read(text, pos, x) /\ x.kind \in Literals \cup {"Error"} /\ x.kind # "DocComment"
    BY <1>0, <2>1, NumberRead, KindsOf
  <2> HIDE DEF x
  <2>4. x.kind # "Error" => Tells(text, pos, x.kind)
    BY <1>0, <2>1, <2>3, LiteralTold
  <2> QED BY <2>1, <2>2, <2>3, <2>4, ReadStep
<1>9. CASE LexString
  <2> DEFINE x == StringLiteral(text, pos)
  <2>1. More /\ text[pos] # "\n" /\ text[pos] \in Digits \cup {"\"", "'"} /\ Take(x)
    BY <1>9 DEF LexString
  <2>2. Read(text, pos, x) /\ x.kind \in Literals \cup {"Error"} /\ x.kind # "DocComment"
    BY <1>0, <2>1, StringRead, KindsOf
  <2> HIDE DEF x
  <2>3. x.kind # "Error" => Tells(text, pos, x.kind)
    BY <1>0, <2>1, <2>2, LiteralTold
  <2> QED BY <2>1, <2>2, <2>3, ReadStep
<1>10. CASE LexChar
  <2> DEFINE x == CharLiteral(text, pos)
  <2>1. More /\ text[pos] # "\n" /\ text[pos] \in Digits \cup {"\"", "'"} /\ Take(x)
    BY <1>10 DEF LexChar
  <2>2. Read(text, pos, x) /\ x.kind \in Literals \cup {"Error"} /\ x.kind # "DocComment"
    BY <1>0, <2>1, StringRead, KindsOf
  <2> HIDE DEF x
  <2>3. x.kind # "Error" => Tells(text, pos, x.kind)
    BY <1>0, <2>1, <2>2, LiteralTold
  <2> QED BY <2>1, <2>2, <2>3, ReadStep
<1>11. CASE LexSymbol
  <2> DEFINE x == Symbol(text, pos)
  <2>1. /\ More /\ text[pos] \notin Blanks \cup {"\n"}
        /\ ~IsLineComment(text, pos) /\ ~IsBlockComment(text, pos) /\ Take(x)
    BY <1>11 DEF LexSymbol
  <2>2. Begins(text, pos)
    BY <1>0, <2>1 DEF Begins, IsSpace, At
  <2>3. Read(text, pos, x) /\ x.kind # "DocComment" /\ (x.kind # "Error" => Tells(text, pos, x.kind))
    BY <1>0, <2>1, <2>2, SymbolRead, SymbolKind, SymbolTold
  <2> HIDE DEF x
  <2> QED BY <2>1, <2>3, ReadStep
<1>12. CASE Finish
  <2> DEFINE token == Token("Eof", pos)
  <2>1. ~More /\ Emit("Eof", pos) /\ pos' = pos /\ text' = text
    BY <1>12 DEF Finish
  <2>2. pos > Len(text) /\ (bag = <<>> => pos <= Len(text) + 1)
    BY <1>0, <2>1 DEF More, LinesInv, LinesAt
  <2>3. /\ token \in TokenSet /\ token.kind = "Eof" /\ token.start = pos /\ token.end = pos
        /\ ~LineEndIn(text, token) /\ ~Silent(text, token)
    BY <1>0 DEF Token, TokenSet, Kind, Classes, LineEndIn, Silent
  <2> HIDE DEF token
  <2>4. Tells(text, pos, "Eof")
    BY <1>0, <2>2, EndTold
  <2>5. bag = <<>> => Fits(text, pos, pos, token)
    BY <2>2, <2>3, <2>4 DEF Fits
  <2>6. bag' = bag
    BY <2>1 DEF Emit
  <2>7. CASE bag = <<>>
    BY <1>0, <2>1, <2>3, <2>5, <2>7, TokenStep DEF token
  <2>8. CASE bag # <<>>
    BY <2>6, <2>8 DEF LinesInv
  <2> QED BY <2>7, <2>8
<1> QED BY <1>1, <1>2, <1>3, <1>4, <1>5, <1>6, <1>7, <1>8, <1>9, <1>10, <1>11, <1>12 DEF Lex

-----------------------------------------------------------------------------
\* When the last token is not silent, there is a first after j that is not.
LEMMA FirstSpeaks ==
    ASSUME NEW t, NEW o \in Seq(TokenSet), NEW j \in 1 .. Len(o), j < Len(o), ~Silent(t, o[Len(o)])
    PROVE  \E n \in j + 1 .. Len(o) : ~Silent(t, o[n]) /\ AllSilent(t, o, j, n)
<1> DEFINE N == Len(o)
           Found == \E n \in j + 1 .. N : ~Silent(t, o[n]) /\ AllSilent(t, o, j, n)
           S == {m \in Nat : m >= j + 1 /\ m <= N /\ AllSilent(t, o, j, m) => Found}
<1>0. N \in Nat
  OBVIOUS
<1>1. ASSUME NEW m \in Nat, m <= N => \A n \in Nat : n > m => n \in S,
             m >= j + 1, m <= N, AllSilent(t, o, j, m)
      PROVE  Found
  <2>1. CASE ~Silent(t, o[m])
    <3>1. m \in j + 1 .. N
      BY <1>0, <1>1
    <3> QED BY <1>1, <2>1, <3>1
  <2>2. CASE Silent(t, o[m])
    <3>1. m # N
      BY <2>2
    <3>2. m + 1 \in Nat /\ m + 1 > m /\ m + 1 >= j + 1 /\ m + 1 <= N
      BY <1>0, <1>1, <3>1
    <3>3. \A n \in j + 1 .. (m + 1) - 1 : n = m \/ n \in j + 1 .. m - 1
      BY <1>1
    <3>4. AllSilent(t, o, j, m + 1)
      BY <1>1, <2>2, <3>3 DEF AllSilent
    <3>5. m + 1 \in S
      BY <1>1, <3>2
    <3> QED BY <3>2, <3>4, <3>5
  <2> QED BY <2>1, <2>2
<1>2. S = Nat
  <2>1. \A m \in Nat : (m <= N => \A n \in Nat : n > m => n \in S) => m \in S
    BY <1>1
  <2> HIDE DEF S
  <2>2. S \in SUBSET Nat
    BY DEF S
  <2> QED BY <1>0, <2>1, <2>2, Backward
<1>3. j + 1 \in Nat /\ j + 1 >= j + 1 /\ j + 1 <= N
  BY <1>0
<1>4. AllSilent(t, o, j, j + 1)
  <2>1. \A m \in j + 1 .. (j + 1) - 1 : FALSE
    OBVIOUS
  <2> QED BY <2>1 DEF AllSilent
<1> QED BY <1>2, <1>3, <1>4

\* What the scanner saw at the end of token j is decided by the token that leads.
LEMMA LeadDecides ==
    ASSUME NEW U, Inv(U), LinesAt(text, pos, out, last_significant), Done,
           NEW j \in 1 .. Len(out), NEW k \in 1 .. Len(out), Follows(k, j)
    PROVE  SuppressSemi(PeekNextKind(text, out[j].end))
           <=> ~\E n \in k .. Len(out) : Leads(n, j) /\ ~ContinuesLine(out[n].kind)
<1>0. out \in Seq(TokenSet) /\ Len(out) \in Nat
  BY AtUnit
<1>1. j < k /\ ~IsLineEnd(out[k]) /\ \A m \in j + 1 .. k - 1 : IsLineEnd(out[m])
  BY DEF Follows
<1>2. \A token : Silent(text, token) <=> IsLineEnd(token) \/ token.kind = "DocComment"
  BY DEF Silent, LineEndIn, IsLineEnd
<1>3. \A n \in 1 .. Len(out) : Leads(n, j) <=> ~Silent(text, out[n]) /\ AllSilent(text, out, j, n)
  BY <1>2 DEF Leads, AllSilent
<1>4. ASSUME NEW n \in 1 .. Len(out), j < n, Leads(n, j)
      PROVE  SuppressSemi(PeekNextKind(text, out[j].end)) <=> ContinuesLine(out[n].kind)
  <2>1. PeekNextKind(text, out[j].end) = PeekNextKind(text, out[n].start)
    BY <1>3, <1>4 DEF LinesAt, SeesAt
  <2>2. Tells(text, out[n].start, out[n].kind)
    BY <1>3, <1>4 DEF LinesAt, SpelledAt
  <2> QED BY <2>1, <2>2 DEF Tells
<1>5. ~Silent(text, out[Len(out)])
  BY <1>2 DEF Done, IsLineEnd
<1>6. PICK n \in j + 1 .. Len(out) : ~Silent(text, out[n]) /\ AllSilent(text, out, j, n)
  <2>1. j < Len(out)
    BY <1>0, <1>1
  <2> QED BY <1>0, <1>5, <2>1, FirstSpeaks
<1>7. n >= k
  <2>1. n \in j + 1 .. k - 1 => IsLineEnd(out[n])
    BY <1>1
  <2>2. n \notin j + 1 .. k - 1
    BY <1>2, <1>6, <2>1
  <2> QED BY <1>0, <2>2
<1>8. n \in k .. Len(out) /\ n \in 1 .. Len(out) /\ j < n
  BY <1>0, <1>6, <1>7
<1>9. Leads(n, j)
  BY <1>3, <1>6, <1>8
<1>10. \A i \in k .. Len(out) : i \in 1 .. Len(out) /\ j < i
  BY <1>0, <1>1
<1> QED BY <1>4, <1>8, <1>9, <1>10

\* The line ends as the scanner takes them, in brackets and out of them.
SeparatesAsRead(j, k) ==
    /\ LineEnds(out[j].end, out[k].start)
    /\ InsertsSemi(out[j].kind)
    /\ \E n \in k .. Len(out) : Leads(n, j) /\ ~ContinuesLine(out[n].kind)

LEMMA TokenDistance ==
    ASSUME NEW U, Inv(U), LinesInv, Done, bag = <<>>,
           NEW j \in 1 .. Len(out), NEW k \in 1 .. Len(out), Follows(k, j)
    PROVE  k = IF SeparatesAsRead(j, k) THEN j + 2 ELSE j + 1
<1>1. LinesAt(text, pos, out, last_significant)
  BY DEF LinesInv
<1>2. k - j = Distance(text, out[j], out[k].start)
  <2>1. /\ j < k /\ ~LineEndIn(text, out[j]) /\ ~LineEndIn(text, out[k])
        /\ OnlyLineEnds(text, out, j, k)
    <3>1. j # 0
      OBVIOUS
    <3> QED BY <3>1 DEF Follows, IsLineEnd, LineEndIn, OnlyLineEnds
  <2> QED BY <1>1, <2>1 DEF LinesAt, SeparatedAt
<1>3. SuppressSemi(PeekNextKind(text, out[j].end))
      <=> ~\E n \in k .. Len(out) : Leads(n, j) /\ ~ContinuesLine(out[n].kind)
  BY <1>1, LeadDecides
<1>4. LineEnds(out[j].end, out[k].start) <=> LineEndsIn(text, out[j].end, out[k].start)
  BY DEF LineEnds, LineEndsIn
<1>5. SeparatesAsRead(j, k) <=> Separates(text, out[j], out[k].start)
  BY <1>3, <1>4 DEF Separates, SeparatesAsRead
<1>6. k - j = IF SeparatesAsRead(j, k) THEN 2 ELSE 1
  BY <1>2, <1>5 DEF Distance
<1> QED BY <1>6

LEMMA InvSeparates ==
    ASSUME NEW U, Inv(U), LinesInv
    PROVE  LinesSeparate
<1> SUFFICES ASSUME Done, bag = <<>>, NEW j \in 1 .. Len(out), NEW k \in 1 .. Len(out), Follows(k, j)
             PROVE  /\ k = j + 1 \/ (k = j + 2 /\ EndsStatement(j, k))
                    /\ EndsStatement(j, k) /\ ~InBrackets(j) /\ ~RangeLeads(j, k) => k = j + 2
  BY DEF LinesSeparate
<1>1. k = IF SeparatesAsRead(j, k) THEN j + 2 ELSE j + 1
  BY TokenDistance
<1>2. SeparatesAsRead(j, k) => EndsStatement(j, k)
  BY DEF SeparatesAsRead, EndsStatement, ContinuesLine
<1>3. EndsStatement(j, k) /\ ~RangeLeads(j, k) => SeparatesAsRead(j, k)
  BY DEF SeparatesAsRead, EndsStatement, RangeLeads, ContinuesLine
<1> QED BY <1>1, <1>2, <1>3

\* grammar.md:14-19, of every text: the scanner that runs ahead at the end of
\* a line and the lexer that comes after it agree on the token that leads the
\* next one. So one `;` and no other stands where a line ends a statement,
\* outside brackets and before all tokens but a range.
THEOREM LinesSeparateCorrect ==
    ASSUME NEW U, NEW t \in Seq(U)
    PROVE  Start(t) /\ [][Lex]_lexer => []LinesSeparate
<1>1. Start(t) => Inv(U) /\ LinesInv
  <2> SUFFICES ASSUME Start(t) PROVE LinesAt(text, pos, out, last_significant)
    BY StartEstablishes DEF LinesInv
  <2>1. text = t /\ pos = 1 /\ out = <<>> /\ last_significant = "Eof"
    BY DEF Start
  <2>2. 1 <= Len(t) + 1 /\ Len(out) = 0
    BY <2>1
  <2>3. SpelledAt(text, out) /\ SeesAt(text, out) /\ SeesOn(text, pos, out) /\ SeparatedAt(text, out)
        /\ SeparatedOn(text, pos, out)
    BY <2>2 DEF SpelledAt, SeesAt, SeesOn, SeparatedAt, SeparatedOn
  <2> QED BY <2>1, <2>2, <2>3 DEF LinesAt, LastKind
<1>2. Inv(U) /\ LinesInv /\ [Lex]_lexer => Inv(U)' /\ LinesInv'
  <2>1. Inv(U) /\ LinesInv /\ Lex => Inv(U)' /\ LinesInv'
    BY LexKeepsInv, LexKeepsLines
  <2>2. Inv(U) /\ LinesInv /\ UNCHANGED lexer => Inv(U)' /\ LinesInv'
    BY DEF Inv, LinesInv, lexer
  <2> QED BY <2>1, <2>2
<1>3. Inv(U) /\ LinesInv => LinesSeparate
  BY InvSeparates
<1> QED BY <1>1, <1>2, <1>3, PTL

=============================================================================
