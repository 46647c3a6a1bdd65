--------------------------- MODULE FiltersProofs ---------------------------
(* What Filters promises, for every signature, expression, limit and value  *)
(* on chain: a filter that was accepted loads, means what it says, and      *)
(* agrees with its preview, and a rejection names the place.                *)
EXTENDS Filters, FiniteSetTheorems, FunctionTheorems, SequenceTheorems, WellFoundedInduction, TLAPS

-----------------------------------------------------------------------------
(* Loops and trees.  The provers do not know that a recursive definition    *)
(* defines anything; what follows shows it for those of Filters.            *)

\* A nonempty set of numbers has a smallest one.
LEMMA Smallest ==
    ASSUME NEW T \in SUBSET Nat, T # {}
    PROVE  \E n \in T : \A m \in T : n <= m
<1>1. PICK n \in T : \A m \in T : ~ (<<m, n>> \in OpToRel(<, Nat))
  BY NatLessThanWellFounded, WFMin
<1>2. \A m \in T : n <= m
  <2>1. \A m \in T : ~ (m < n)
    BY <1>1 DEF OpToRel
  <2>2. QED
    BY <2>1
<1>3. QED
  BY <1>2

\* Counting up to n.
LEMMA Upwards ==
    ASSUME NEW n \in Nat, NEW P, 0 \in P, \A m \in 0 .. n : m # n /\ m \in P => m + 1 \in P
    PROVE  \A m \in 0 .. n : m \in P
<1> DEFINE Bad == {m \in 0 .. n : m \notin P}
<1>1. SUFFICES ASSUME Bad # {} PROVE FALSE
  OBVIOUS
<1>2. Bad \subseteq Nat
  OBVIOUS
<1>3. PICK m \in Bad : \A l \in Bad : m <= l
  BY <1>1, <1>2, Smallest
<1>4. m \in 0 .. n /\ m \notin P /\ m # 0
  BY <1>3
<1>5. m - 1 \in 0 .. n /\ m - 1 # n /\ m - 1 \notin Bad
  BY <1>3, <1>4
<1>6. m - 1 \in P
  BY <1>5
<1>7. QED
  BY <1>4, <1>5, <1>6

\* A function on 1 .. n is a sequence.
LEMMA IsSequence ==
    ASSUME NEW S, NEW n \in Nat, NEW f \in [1 .. n -> S]
    PROVE  f \in Seq(S) /\ Len(f) = n /\ DOMAIN f = 1 .. n
<1>1. f \in Seq(S)
  BY SeqDef
<1>2. QED
  BY <1>1

\* g are the states of a loop of n rounds F that starts with z.
IsRun(g, n, S, z, F) ==
    g \in [0 .. n -> S] /\ g[0] = z /\ \A i \in 1 .. n : g[i] = F[i][g[i - 1]]

\* A loop has a state after every round.
LEMMA Rounds ==
    ASSUME NEW n \in Nat, NEW S, NEW z \in S, NEW F \in [1 .. n -> [S -> S]]
    PROVE  \E g : IsRun(g, n, S, z, F)
<1> DEFINE Runs(g, m) == IsRun(g, m, S, z, F)
           P == {m \in 0 .. n : \E g : Runs(g, m)}
<1> USE DEF IsRun
<1>1. 0 \in P
  <2> DEFINE h == [i \in 0 .. 0 |-> z]
  <2>1. Runs(h, 0)
    OBVIOUS
  <2> HIDE DEF h, Runs
  <2>2. QED
    BY <2>1
<1>2. ASSUME NEW m \in 0 .. n, m # n, m \in P PROVE m + 1 \in P
  <2>1. PICK g : Runs(g, m)
    BY <1>2
  <2> DEFINE h == [i \in 0 .. m + 1 |-> IF i = m + 1 THEN F[m + 1][g[m]] ELSE g[i]]
  <2>2. g[m] \in S /\ m + 1 \in 1 .. n
    BY <1>2, <2>1
  <2>3. F[m + 1][g[m]] \in S
    BY <2>2
  <2>4. h \in [0 .. m + 1 -> S] /\ h[0] = z
    BY <2>1, <2>3
  <2>5. ASSUME NEW i \in 1 .. m + 1 PROVE h[i] = F[i][h[i - 1]]
    <3>1. h[i - 1] = g[i - 1]
      OBVIOUS
    <3>2. QED
      BY <3>1, <2>1
  <2>6. Runs(h, m + 1)
    BY <2>4, <2>5
  <2> HIDE DEF h, Runs
  <2>7. QED
    BY <2>6, <2>2
<1>3. \A m \in 0 .. n : m # n /\ m \in P => m + 1 \in P
  BY <1>2
<1> HIDE DEF P
<1>4. \A m \in 0 .. n : m \in P
  BY <1>1, <1>3, Upwards
<1>5. QED
  <2> HIDE DEF IsRun
  <2>1. QED
    BY <1>4 DEF P

\* What each round keeps holds after all of them.
LEMMA Stays ==
    ASSUME NEW n \in Nat, NEW S, NEW a, a[0] \in S,
           \A i \in 1 .. n : a[i - 1] \in S => a[i] \in S
    PROVE  \A i \in 0 .. n : a[i] \in S
<1> DEFINE P == {i \in 0 .. n : a[i] \in S}
<1>1. 0 \in P
  OBVIOUS
<1>2. ASSUME NEW m \in 0 .. n, m # n, m \in P PROVE m + 1 \in P
  <2>1. m + 1 \in 1 .. n /\ (m + 1) - 1 = m
    BY <1>2
  <2>2. QED
    BY <2>1, <1>2
<1>3. \A m \in 0 .. n : m # n /\ m \in P => m + 1 \in P
  BY <1>2
<1> HIDE DEF P
<1>4. \A m \in 0 .. n : m \in P
  BY <1>1, <1>3, Upwards
<1>5. QED
  BY <1>4 DEF P

\* The sum that Size computes.
SumOf(s) == Loop(Len(s), 1, LAMBDA sum, i : sum + s[i])

\* The loop of Size.
LEMMA SumRounds ==
    ASSUME NEW s \in Seq(Nat)
    PROVE  \E a \in [0 .. Len(s) -> Nat] :
             /\ a[0] = 1 /\ \A i \in 1 .. Len(s) : a[i] = a[i - 1] + s[i]
             /\ SumOf(s) = a[Len(s)]
<1> DEFINE n == Len(s)
           F == [i \in 1 .. n |-> [x \in Nat |-> x + s[i]]]
           Is(g) == g = [i \in 0 .. n |-> IF i = 0 THEN 1 ELSE g[i - 1] + s[i]]
           a == CHOOSE g : Is(g)
<1>1. n \in Nat /\ F \in [1 .. n -> [Nat -> Nat]] /\ 1 \in Nat
  OBVIOUS
<1>2. \A i \in 1 .. n, x \in Nat : F[i][x] = x + s[i]
  OBVIOUS
<1> HIDE DEF F
<1>3. PICK g \in [0 .. n -> Nat] : g[0] = 1 /\ \A i \in 1 .. n : g[i] = F[i][g[i - 1]]
  <2> DEFINE S == Nat
             z == 1
  <2>1. n \in Nat /\ F \in [1 .. n -> [S -> S]] /\ z \in S
    BY <1>1
  <2> HIDE DEF n, S, z
  <2>2. \E g : IsRun(g, n, S, z, F)
    BY <2>1, Rounds
  <2>3. QED
    BY <2>2 DEF S, z, IsRun
<1>4. ASSUME NEW i \in 1 .. n PROVE g[i] = g[i - 1] + s[i]
  <2>1. i - 1 \in 0 .. n /\ g[i - 1] \in Nat
    BY <1>3
  <2>2. QED
    BY <1>2, <1>3, <2>1
<1>5. g = [i \in 0 .. n |-> IF i = 0 THEN 1 ELSE g[i - 1] + s[i]]
  BY <1>3, <1>4
<1>6. Is(a)
  <2> HIDE DEF Is
  <2>1. Is(g)
    BY <1>5 DEF Is
  <2>2. QED
    BY <2>1
<1>7. SumOf(s) = a[n]
  BY DEF Loop, SumOf
<1> HIDE DEF a
<1>8. a[0] = 1 /\ \A i \in 1 .. n : a[i] = a[i - 1] + s[i]
  <2>1. \A i \in 0 .. n : a[i] = IF i = 0 THEN 1 ELSE a[i - 1] + s[i]
    BY <1>6
  <2>2. 0 \in 0 .. n /\ \A i \in 1 .. n : i \in 0 .. n /\ i # 0
    BY <1>1
  <2>3. QED
    BY <2>1, <2>2
<1>9. \A i \in 0 .. n : a[i] \in Nat
  <2>1. \A i \in 1 .. n : s[i] \in Nat
    OBVIOUS
  <2>2. a[0] \in Nat /\ \A i \in 1 .. n : a[i - 1] \in Nat => a[i] \in Nat
    BY <1>8, <2>1
  <2> HIDE DEF n
  <2>3. QED
    BY <1>1, <2>2, Stays
<1>10. a \in [0 .. n -> Nat]
  BY <1>6, <1>9
<1>11. QED
  BY <1>7, <1>8, <1>10

-----------------------------------------------------------------------------
(* Trees.                                                                  *)

\* The trees whose parts are in T.
Grown(X, T) ==
    X \cup [k : {"not"}, args : [1 .. 1 -> T]] \cup [k : {"and", "or"}, args : Seq(T)]

\* The levels are what their definition says.
LEMMA LevelsAre ==
    ASSUME NEW X
    PROVE  /\ Levels(X)[0] = {}
           /\ \A n \in 1 .. MaxNesting : Levels(X)[n] = Grown(X, Levels(X)[n - 1])
<1> DEFINE Good(g, m) == g = [n \in 0 .. m |-> IF n = 0 THEN {} ELSE Grown(X, g[n - 1])]
           P == {m \in 0 .. MaxNesting : \E g : Good(g, m)}
<1>1. MaxNesting \in Nat
  BY LimitAssumption
<1>2. 0 \in P
  <2> DEFINE h == [n \in 0 .. 0 |-> {}]
  <2>1. Good(h, 0)
    OBVIOUS
  <2> HIDE DEF h, Good
  <2>2. QED
    BY <2>1, <1>1
<1>3. ASSUME NEW m \in 0 .. MaxNesting, m # MaxNesting, m \in P PROVE m + 1 \in P
  <2>1. PICK g : Good(g, m)
    BY <1>3
  <2> DEFINE h == [n \in 0 .. m + 1 |-> IF n = 0 THEN {} ELSE Grown(X, g[n - 1])]
  <2>2. ASSUME NEW n \in 0 .. m PROVE h[n] = g[n]
    <3>1. g[n] = IF n = 0 THEN {} ELSE Grown(X, g[n - 1])
      BY <2>1
    <3>2. QED
      BY <3>1
  <2>3. ASSUME NEW n \in 0 .. m + 1, n # 0 PROVE h[n - 1] = g[n - 1]
    <3>1. n - 1 \in 0 .. m
      BY <1>1, <2>3
    <3>2. QED
      BY <3>1, <2>2
  <2>4. Good(h, m + 1)
    <3> HIDE DEF h
    <3>1. \A n \in 0 .. m + 1 : h[n] = IF n = 0 THEN {} ELSE Grown(X, h[n - 1])
      BY <2>3 DEF h
    <3>2. DOMAIN h = 0 .. m + 1 /\ h = [n \in DOMAIN h |-> h[n]]
      BY DEF h
    <3> DEFINE r == [n \in 0 .. m + 1 |-> IF n = 0 THEN {} ELSE Grown(X, h[n - 1])]
    <3>3. DOMAIN r = 0 .. m + 1 /\ r = [n \in DOMAIN r |-> r[n]] /\ \A n \in 0 .. m + 1 : r[n] = h[n]
      BY <3>1
    <3> HIDE DEF r
    <3>4. h = r
      BY <3>2, <3>3
    <3>5. QED
      BY <3>4 DEF r
  <2>5. m + 1 \in 0 .. MaxNesting
    BY <1>1, <1>3
  <2> HIDE DEF h, Good
  <2>6. QED
    BY <2>4, <2>5
<1>4. \A m \in 0 .. MaxNesting : m # MaxNesting /\ m \in P => m + 1 \in P
  BY <1>3
<1>5. MaxNesting \in P
  <2> HIDE DEF P
  <2>1. QED
    BY <1>1, <1>2, <1>4, Upwards
<1>6. PICK g : Good(g, MaxNesting)
  BY <1>5
<1>7. Levels(X) = CHOOSE f : Good(f, MaxNesting)
  BY DEF Levels, Grown
<1>8. Good(Levels(X), MaxNesting)
  <2> HIDE DEF Good
  <2>1. QED
    BY <1>6, <1>7
<1> DEFINE L == Levels(X)
<1> HIDE DEF L
<1>9. L = [n \in 0 .. MaxNesting |-> IF n = 0 THEN {} ELSE Grown(X, L[n - 1])]
  BY <1>8 DEF L
<1>10. \A n \in 0 .. MaxNesting : L[n] = IF n = 0 THEN {} ELSE Grown(X, L[n - 1])
  BY <1>9
<1>11. QED
  BY <1>1, <1>10 DEF L

\* Levels grow.
LEMMA LevelUp ==
    ASSUME NEW X, NEW n \in 1 .. MaxNesting
    PROVE  Levels(X)[n - 1] \subseteq Levels(X)[n]
<1> DEFINE L == Levels(X)
           P == {m \in 0 .. MaxNesting : m # MaxNesting => L[m] \subseteq L[m + 1]}
<1>1. MaxNesting \in Nat
  BY LimitAssumption
<1>2. L[0] = {} /\ \A m \in 1 .. MaxNesting : L[m] = Grown(X, L[m - 1])
  BY LevelsAre
<1> HIDE DEF L
<1>3. 0 \in P
  BY <1>1, <1>2
<1>4. ASSUME NEW m \in 0 .. MaxNesting, m # MaxNesting, m \in P PROVE m + 1 \in P
  <2>1. L[m] \subseteq L[m + 1] /\ m + 1 \in 1 .. MaxNesting
    BY <1>1, <1>4
  <2>2. SUFFICES ASSUME m + 1 # MaxNesting PROVE L[m + 1] \subseteq L[m + 2]
    BY <2>1
  <2>3. m + 2 \in 1 .. MaxNesting /\ (m + 2) - 1 = m + 1 /\ (m + 1) - 1 = m
    BY <2>1, <2>2, <1>1
  <2>4. L[m + 1] = Grown(X, L[m]) /\ L[m + 2] = Grown(X, L[m + 1])
    BY <2>1, <2>3, <1>2
  <2>5. \A T, U : T \subseteq U => Grown(X, T) \subseteq Grown(X, U)
    BY DEF Grown
  <2>6. QED
    BY <2>1, <2>4, <2>5
<1>5. \A m \in 0 .. MaxNesting : m # MaxNesting /\ m \in P => m + 1 \in P
  BY <1>4
<1>6. \A m \in 0 .. MaxNesting : m \in P
  <2> HIDE DEF P
  <2>1. QED
    BY <1>1, <1>3, <1>5, Upwards
<1>7. n - 1 \in 0 .. MaxNesting /\ n - 1 # MaxNesting /\ (n - 1) + 1 = n
  BY <1>1
<1>8. QED
  BY <1>6, <1>7 DEF L

\* All the leaves are comparisons.
Leafy(X) == \A x \in X : x.k = "compare"

\* A tree is a leaf or has parts, one level down.
LEMMA LevelShape ==
    ASSUME NEW X, Leafy(X), NEW n \in 0 .. MaxNesting, NEW t \in Levels(X)[n]
    PROVE  /\ n # 0
           /\ t.k = "compare" => t \in X
           /\ t.k # "compare" =>
                 /\ t.k \in {"not", "and", "or"} /\ t = [k |-> t.k, args |-> t.args]
                 /\ t.args \in Seq(Levels(X)[n - 1]) /\ DOMAIN t.args = 1 .. Len(t.args)
                 /\ t.k = "not" => Len(t.args) = 1
                 /\ \A i \in DOMAIN t.args : /\ t.args[i] \in Levels(X)[n - 1]
                                             /\ t.args[i] \in Levels(X)[n]
<1> DEFINE L == Levels(X)
<1>1. MaxNesting \in Nat /\ L[0] = {} /\ \A m \in 1 .. MaxNesting : L[m] = Grown(X, L[m - 1])
  BY LevelsAre, LimitAssumption
<1>2. n # 0
  BY <1>1
<1>3. t \in Grown(X, L[n - 1]) /\ L[n - 1] \subseteq L[n]
  BY <1>1, <1>2, LevelUp
<1> HIDE DEF L
<1>4. CASE t \in X
  BY <1>2, <1>4 DEF Leafy
<1>5. CASE t \in [k : {"not"}, args : [1 .. 1 -> L[n - 1]]]
  <2>1. t.k = "not" /\ t = [k |-> t.k, args |-> t.args] /\ t.args \in [1 .. 1 -> L[n - 1]]
    BY <1>5
  <2>2. t.args \in Seq(L[n - 1]) /\ DOMAIN t.args = 1 .. Len(t.args) /\ Len(t.args) = 1
    <3> DEFINE a == t.args
    <3>1. a \in [1 .. 1 -> L[n - 1]]
      BY <2>1
    <3> HIDE DEF a
    <3>2. a \in Seq(L[n - 1]) /\ Len(a) = 1 /\ DOMAIN a = 1 .. 1
      <4> DEFINE one == 1
      <4>1. one \in Nat /\ a \in [1 .. one -> L[n - 1]]
        BY <3>1
      <4> HIDE DEF one
      <4>2. a \in Seq(L[n - 1]) /\ Len(a) = one /\ DOMAIN a = 1 .. one
        BY <4>1, IsSequence
      <4>3. QED
        BY <4>2 DEF one
    <3>3. QED
      BY <3>2 DEF a
  <2>3. QED
    BY <2>1, <2>2, <1>2, <1>3 DEF L
<1>6. CASE t \in [k : {"and", "or"}, args : Seq(L[n - 1])]
  <2>1. t.k \in {"and", "or"} /\ t = [k |-> t.k, args |-> t.args] /\ t.args \in Seq(L[n - 1])
    BY <1>6
  <2>2. DOMAIN t.args = 1 .. Len(t.args) /\ \A i \in DOMAIN t.args : t.args[i] \in L[n - 1]
    BY <2>1
  <2>3. QED
    BY <2>1, <2>2, <1>2, <1>3 DEF L
<1>7. QED
  BY <1>3, <1>4, <1>5, <1>6 DEF Grown

\* The shape of a tree, whatever its level.
LEMMA TreeShape ==
    ASSUME NEW X, Leafy(X), NEW t \in Trees(X)
    PROVE  /\ t.k = "compare" => t \in X
           /\ t.k # "compare" =>
                 /\ t.k \in {"not", "and", "or"} /\ t = [k |-> t.k, args |-> t.args]
                 /\ DOMAIN t.args = 1 .. Len(t.args) /\ Len(t.args) \in Nat
                 /\ t.k = "not" => Len(t.args) = 1
                 /\ \A i \in DOMAIN t.args : t.args[i] \in Trees(X)
<1>1. MaxNesting \in 0 .. MaxNesting
  BY LimitAssumption
<1>2. t.args \in Seq(Levels(X)[MaxNesting - 1]) => Len(t.args) \in Nat
  OBVIOUS
<1>3. QED
  BY <1>1, <1>2, LevelShape DEF Trees

\* What holds of the leaves, and of a tree if it holds of its parts, holds of all.
LEMMA TreeInduction ==
    ASSUME NEW X, Leafy(X), NEW P, \A t \in Trees(X) : t.k = "compare" => t \in P,
           \A t \in Trees(X) : t.k # "compare" /\ (\A i \in DOMAIN t.args : t.args[i] \in P) => t \in P
    PROVE  \A t \in Trees(X) : t \in P
<1> DEFINE L == Levels(X)
           Q == {n \in 0 .. MaxNesting : \A t \in L[n] : t \in Trees(X) => t \in P}
<1>1. MaxNesting \in Nat /\ L[0] = {}
  BY LimitAssumption, LevelsAre
<1>2. 0 \in Q
  BY <1>1
<1>3. ASSUME NEW m \in 0 .. MaxNesting, m # MaxNesting, m \in Q PROVE m + 1 \in Q
  <2>1. m + 1 \in 0 .. MaxNesting /\ (m + 1) - 1 = m
    BY <1>1, <1>3
  <2>2. ASSUME NEW t \in L[m + 1], t \in Trees(X), t.k # "compare" PROVE t \in P
    <3>1. \A i \in DOMAIN t.args : t.args[i] \in L[m]
      BY <2>1, <2>2, LevelShape
    <3>2. \A i \in DOMAIN t.args : t.args[i] \in Trees(X)
      BY <2>2, TreeShape
    <3>3. \A i \in DOMAIN t.args : t.args[i] \in P
      BY <3>1, <3>2, <1>3
    <3>4. QED
      BY <3>3, <2>2
  <2>3. \A t \in L[m + 1] : t \in Trees(X) => t \in P
    BY <2>2
  <2>4. QED
    BY <2>1, <2>3
<1>4. \A m \in 0 .. MaxNesting : m # MaxNesting /\ m \in Q => m + 1 \in Q
  BY <1>3
<1>5. MaxNesting \in Q
  <2> HIDE DEF Q
  <2>1. QED
    BY <1>1, <1>2, <1>4, Upwards
<1>6. QED
  BY <1>5 DEF Trees

\* A tree with other parts of the same depth.
LEMMA Rebuilt ==
    ASSUME NEW X, Leafy(X), NEW Y, NEW n \in 0 .. MaxNesting, NEW t \in Levels(X)[n],
           t.k # "compare", NEW q, DOMAIN q = DOMAIN t.args, q = [i \in DOMAIN q |-> q[i]],
           \A i \in DOMAIN q : q[i] \in Levels(Y)[n - 1]
    PROVE  [k |-> t.k, args |-> q] \in Levels(Y)[n]
<1> DEFINE T == Levels(Y)[n - 1]
           N == Len(t.args)
<1>1. n \in 1 .. MaxNesting /\ N \in Nat
  BY LevelShape, LimitAssumption
<1>2. Levels(Y)[n] = Grown(Y, T)
  BY <1>1, LevelsAre
<1>3. DOMAIN q = 1 .. N /\ (t.k = "not" => N = 1) /\ t.k \in {"not", "and", "or"}
  BY LevelShape
<1> HIDE DEF T, N
<1>4. q \in [1 .. N -> T]
  BY <1>3 DEF T
<1>5. q \in Seq(T)
  BY <1>1, <1>4, IsSequence
<1>6. QED
  BY <1>2, <1>3, <1>4, <1>5 DEF Grown

LEMMA ExpressionsLeafy == Leafy(Comparisons) /\ Leafy(CompiledComparisons)
BY DEF Leafy, Comparisons, CompiledComparisons

-----------------------------------------------------------------------------
(* The recursive functions are what their definitions say.                 *)

LEMMA SizeIs ==
    ASSUME NEW e \in Expressions
    PROVE  Size[e] = IF e.k = "compare"
                     THEN 1 + (IF e.value.json = "string" THEN TextSize(e.value.text) ELSE 1)
                     ELSE SumOf([i \in DOMAIN e.args |-> Size[e.args[i]]])
<1> DEFINE X == Comparisons
           L == Levels(X)
           Leaf(t) == 1 + (IF t.value.json = "string" THEN TextSize(t.value.text) ELSE 1)
           Node(t, sizes) == SumOf(sizes)
           Value(g, t) == IF t.k = "compare" THEN Leaf(t)
                          ELSE Node(t, [i \in DOMAIN t.args |-> g[t.args[i]]])
           Good(g, n) == g = [t \in L[n] |-> Value(g, t)]
           P == {n \in 0 .. MaxNesting : \E g : Good(g, n)}
<1>1. MaxNesting \in Nat /\ L[0] = {} /\ Leafy(X)
  BY LimitAssumption, LevelsAre, ExpressionsLeafy
<1>2. Size = CHOOSE g : Good(g, MaxNesting)
  BY DEF Size, Expressions, Trees, SumOf
<1> HIDE DEF Leaf, Node, X
<1>3. 0 \in P
  <2> DEFINE h == [t \in L[0] |-> 0]
  <2>1. Good(h, 0)
    BY <1>1
  <2> HIDE DEF h, Good
  <2>2. QED
    BY <2>1, <1>1
<1>4. ASSUME NEW m \in 0 .. MaxNesting, m # MaxNesting, m \in P PROVE m + 1 \in P
  <2>1. PICK g : Good(g, m)
    BY <1>4
  <2> DEFINE h == [t \in L[m + 1] |-> Value(g, t)]
  <2>2. m + 1 \in 0 .. MaxNesting /\ (m + 1) - 1 = m
    BY <1>1, <1>4
  <2>3. \A t \in L[m] : g[t] = Value(g, t)
    BY <2>1
  <2>4. ASSUME NEW t \in L[m + 1] PROVE Value(h, t) = Value(g, t)
    <3>1. SUFFICES ASSUME t.k # "compare" PROVE Value(h, t) = Value(g, t)
      OBVIOUS
    <3>2. \A i \in DOMAIN t.args : t.args[i] \in L[m] /\ t.args[i] \in L[m + 1]
      BY <3>1, <2>2, <1>1, LevelShape
    <3> HIDE DEF L
    <3>3. \A i \in DOMAIN t.args : h[t.args[i]] = Value(g, t.args[i])
      BY <3>2
    <3> HIDE DEF h, Value
    <3>4. \A i \in DOMAIN t.args : h[t.args[i]] = g[t.args[i]]
      BY <3>2, <3>3, <2>3
    <3>5. [i \in DOMAIN t.args |-> h[t.args[i]]] = [i \in DOMAIN t.args |-> g[t.args[i]]]
      BY <3>4
    <3>6. QED
      BY <3>1, <3>5 DEF Value
  <2>5. Good(h, m + 1)
    <3> HIDE DEF L, Value
    <3>1. \A t \in L[m + 1] : h[t] = Value(h, t)
      BY <2>4
    <3>2. DOMAIN h = L[m + 1] /\ h = [t \in DOMAIN h |-> h[t]]
      OBVIOUS
    <3> HIDE DEF h
    <3> DEFINE r == [t \in L[m + 1] |-> Value(h, t)]
    <3>3. DOMAIN r = L[m + 1] /\ r = [t \in DOMAIN r |-> r[t]] /\ \A t \in L[m + 1] : r[t] = h[t]
      BY <3>1
    <3> HIDE DEF r
    <3>4. h = r
      BY <3>2, <3>3
    <3>5. QED
      BY <3>4 DEF r
  <2> HIDE DEF h, Good
  <2>6. QED
    BY <2>2, <2>5
<1>5. \A m \in 0 .. MaxNesting : m # MaxNesting /\ m \in P => m + 1 \in P
  BY <1>4
<1>6. MaxNesting \in P
  <2> HIDE DEF P
  <2>1. QED
    BY <1>1, <1>3, <1>5, Upwards
<1>7. PICK g : Good(g, MaxNesting)
  BY <1>6
<1>8. Good(Size, MaxNesting)
  <2> HIDE DEF Good
  <2>1. QED
    BY <1>2, <1>7
<1>9. Size[e] = Value(Size, e)
  <2> HIDE DEF Value
  <2> DEFINE f == Size
  <2> HIDE DEF f
  <2>1. f = [t \in L[MaxNesting] |-> Value(f, t)]
    BY <1>8 DEF f
  <2>2. f[e] = Value(f, e)
    BY <2>1 DEF Expressions, Trees, X
  <2>3. QED
    BY <2>2 DEF f
<1>10. QED
  BY <1>9 DEF Leaf, Node
LEMMA VisitIs ==
    ASSUME NEW e \in Expressions
    PROVE  visit[e] =
             LET visits == IF e.k = "compare" THEN <<>> ELSE [i \in DOMAIN e.args |-> visit[e.args[i]]]
             IN  [depth \in Nat |-> [nodes \in Nat |-> Visit(e, visits, depth, nodes)]]
<1> DEFINE X == Comparisons
           L == Levels(X)
           Node(t, visits) == [depth \in Nat |-> [nodes \in Nat |-> Visit(t, visits, depth, nodes)]]
           Value(g, t) ==
             Node(t, IF t.k = "compare" THEN <<>> ELSE [i \in DOMAIN t.args |-> g[t.args[i]]])
           Good(g, n) == g = [t \in L[n] |-> Value(g, t)]
           P == {n \in 0 .. MaxNesting : \E g : Good(g, n)}
<1>1. MaxNesting \in Nat /\ L[0] = {} /\ Leafy(X)
  BY LimitAssumption, LevelsAre, ExpressionsLeafy
<1>2. visit = CHOOSE g : Good(g, MaxNesting)
  BY DEF visit, Expressions, Trees
<1> HIDE DEF Node, X
<1>3. 0 \in P
  <2> DEFINE h == [t \in L[0] |-> 0]
  <2>1. Good(h, 0)
    BY <1>1
  <2> HIDE DEF h, Good
  <2>2. QED
    BY <2>1, <1>1
<1>4. ASSUME NEW m \in 0 .. MaxNesting, m # MaxNesting, m \in P PROVE m + 1 \in P
  <2>1. PICK g : Good(g, m)
    BY <1>4
  <2> DEFINE h == [t \in L[m + 1] |-> Value(g, t)]
  <2>2. m + 1 \in 0 .. MaxNesting /\ (m + 1) - 1 = m
    BY <1>1, <1>4
  <2>3. \A t \in L[m] : g[t] = Value(g, t)
    BY <2>1
  <2>4. ASSUME NEW t \in L[m + 1] PROVE Value(h, t) = Value(g, t)
    <3>1. SUFFICES ASSUME t.k # "compare" PROVE Value(h, t) = Value(g, t)
      OBVIOUS
    <3>2. \A i \in DOMAIN t.args : t.args[i] \in L[m] /\ t.args[i] \in L[m + 1]
      BY <3>1, <2>2, <1>1, LevelShape
    <3> HIDE DEF L
    <3>3. \A i \in DOMAIN t.args : h[t.args[i]] = Value(g, t.args[i])
      BY <3>2
    <3> HIDE DEF h, Value
    <3>4. \A i \in DOMAIN t.args : h[t.args[i]] = g[t.args[i]]
      BY <3>2, <3>3, <2>3
    <3>5. [i \in DOMAIN t.args |-> h[t.args[i]]] = [i \in DOMAIN t.args |-> g[t.args[i]]]
      BY <3>4
    <3>6. QED
      BY <3>1, <3>5 DEF Value
  <2>5. Good(h, m + 1)
    <3> HIDE DEF L, Value
    <3>1. \A t \in L[m + 1] : h[t] = Value(h, t)
      BY <2>4
    <3>2. DOMAIN h = L[m + 1] /\ h = [t \in DOMAIN h |-> h[t]]
      OBVIOUS
    <3> HIDE DEF h
    <3> DEFINE r == [t \in L[m + 1] |-> Value(h, t)]
    <3>3. DOMAIN r = L[m + 1] /\ r = [t \in DOMAIN r |-> r[t]] /\ \A t \in L[m + 1] : r[t] = h[t]
      BY <3>1
    <3> HIDE DEF r
    <3>4. h = r
      BY <3>2, <3>3
    <3>5. QED
      BY <3>4 DEF r
  <2> HIDE DEF h, Good
  <2>6. QED
    BY <2>2, <2>5
<1>5. \A m \in 0 .. MaxNesting : m # MaxNesting /\ m \in P => m + 1 \in P
  BY <1>4
<1>6. MaxNesting \in P
  <2> HIDE DEF P
  <2>1. QED
    BY <1>1, <1>3, <1>5, Upwards
<1>7. PICK g : Good(g, MaxNesting)
  BY <1>6
<1>8. Good(visit, MaxNesting)
  <2> HIDE DEF Good
  <2>1. QED
    BY <1>2, <1>7
<1>9. visit[e] = Value(visit, e)
  <2> HIDE DEF Value
  <2> DEFINE f == visit
  <2> HIDE DEF f
  <2>1. f = [t \in L[MaxNesting] |-> Value(f, t)]
    BY <1>8 DEF f
  <2>2. f[e] = Value(f, e)
    BY <2>1 DEF Expressions, Trees, X
  <2>3. QED
    BY <2>2 DEF f
<1>10. QED
  BY <1>9 DEF Node
LEMMA CompileIs ==
    ASSUME NEW target, NEW e \in Expressions
    PROVE  compile_expression(target)[e] =
             IF e.k = "compare" THEN CompileComparison(e, target)
             ELSE CompileParts(e.k, [i \in DOMAIN e.args |-> compile_expression(target)[e.args[i]]])
<1> DEFINE X == Comparisons
           L == Levels(X)
           Leaf(t) == CompileComparison(t, target)
           Node(t, results) == CompileParts(t.k, results)
           Value(g, t) == IF t.k = "compare" THEN Leaf(t)
                          ELSE Node(t, [i \in DOMAIN t.args |-> g[t.args[i]]])
           Good(g, n) == g = [t \in L[n] |-> Value(g, t)]
           P == {n \in 0 .. MaxNesting : \E g : Good(g, n)}
<1>1. MaxNesting \in Nat /\ L[0] = {} /\ Leafy(X)
  BY LimitAssumption, LevelsAre, ExpressionsLeafy
<1>2. compile_expression(target) = CHOOSE g : Good(g, MaxNesting)
  BY DEF compile_expression, Expressions, Trees
<1> HIDE DEF Leaf, Node, X
<1>3. 0 \in P
  <2> DEFINE h == [t \in L[0] |-> 0]
  <2>1. Good(h, 0)
    BY <1>1
  <2> HIDE DEF h, Good
  <2>2. QED
    BY <2>1, <1>1
<1>4. ASSUME NEW m \in 0 .. MaxNesting, m # MaxNesting, m \in P PROVE m + 1 \in P
  <2>1. PICK g : Good(g, m)
    BY <1>4
  <2> DEFINE h == [t \in L[m + 1] |-> Value(g, t)]
  <2>2. m + 1 \in 0 .. MaxNesting /\ (m + 1) - 1 = m
    BY <1>1, <1>4
  <2>3. \A t \in L[m] : g[t] = Value(g, t)
    BY <2>1
  <2>4. ASSUME NEW t \in L[m + 1] PROVE Value(h, t) = Value(g, t)
    <3>1. SUFFICES ASSUME t.k # "compare" PROVE Value(h, t) = Value(g, t)
      OBVIOUS
    <3>2. \A i \in DOMAIN t.args : t.args[i] \in L[m] /\ t.args[i] \in L[m + 1]
      BY <3>1, <2>2, <1>1, LevelShape
    <3> HIDE DEF L
    <3>3. \A i \in DOMAIN t.args : h[t.args[i]] = Value(g, t.args[i])
      BY <3>2
    <3> HIDE DEF h, Value
    <3>4. \A i \in DOMAIN t.args : h[t.args[i]] = g[t.args[i]]
      BY <3>2, <3>3, <2>3
    <3>5. [i \in DOMAIN t.args |-> h[t.args[i]]] = [i \in DOMAIN t.args |-> g[t.args[i]]]
      BY <3>4
    <3>6. QED
      BY <3>1, <3>5 DEF Value
  <2>5. Good(h, m + 1)
    <3> HIDE DEF L, Value
    <3>1. \A t \in L[m + 1] : h[t] = Value(h, t)
      BY <2>4
    <3>2. DOMAIN h = L[m + 1] /\ h = [t \in DOMAIN h |-> h[t]]
      OBVIOUS
    <3> HIDE DEF h
    <3> DEFINE r == [t \in L[m + 1] |-> Value(h, t)]
    <3>3. DOMAIN r = L[m + 1] /\ r = [t \in DOMAIN r |-> r[t]] /\ \A t \in L[m + 1] : r[t] = h[t]
      BY <3>1
    <3> HIDE DEF r
    <3>4. h = r
      BY <3>2, <3>3
    <3>5. QED
      BY <3>4 DEF r
  <2> HIDE DEF h, Good
  <2>6. QED
    BY <2>2, <2>5
<1>5. \A m \in 0 .. MaxNesting : m # MaxNesting /\ m \in P => m + 1 \in P
  BY <1>4
<1>6. MaxNesting \in P
  <2> HIDE DEF P
  <2>1. QED
    BY <1>1, <1>3, <1>5, Upwards
<1>7. PICK g : Good(g, MaxNesting)
  BY <1>6
<1>8. Good(compile_expression(target), MaxNesting)
  <2> HIDE DEF Good
  <2>1. QED
    BY <1>2, <1>7
<1>9. compile_expression(target)[e] = Value(compile_expression(target), e)
  <2> HIDE DEF Value
  <2> DEFINE f == compile_expression(target)
  <2> HIDE DEF f
  <2>1. f = [t \in L[MaxNesting] |-> Value(f, t)]
    BY <1>8 DEF f
  <2>2. f[e] = Value(f, e)
    BY <2>1 DEF Expressions, Trees, X
  <2>3. QED
    BY <2>2 DEF f
<1>10. QED
  BY <1>9 DEF Leaf, Node
LEMMA EvaluateIs ==
    ASSUME NEW ctx, NEW f \in CompiledExpressions
    PROVE  EvaluateExpression(ctx)[f] =
             IF f.k = "compare" THEN EvaluateComparison(f, ctx)
             ELSE EvaluateParts(f.k, [i \in DOMAIN f.args |-> EvaluateExpression(ctx)[f.args[i]]])
<1> DEFINE X == CompiledComparisons
           L == Levels(X)
           Leaf(t) == EvaluateComparison(t, ctx)
           Node(t, parts) == EvaluateParts(t.k, parts)
           Value(g, t) == IF t.k = "compare" THEN Leaf(t)
                          ELSE Node(t, [i \in DOMAIN t.args |-> g[t.args[i]]])
           Good(g, n) == g = [t \in L[n] |-> Value(g, t)]
           P == {n \in 0 .. MaxNesting : \E g : Good(g, n)}
<1>1. MaxNesting \in Nat /\ L[0] = {} /\ Leafy(X)
  BY LimitAssumption, LevelsAre, ExpressionsLeafy
<1>2. EvaluateExpression(ctx) = CHOOSE g : Good(g, MaxNesting)
  BY DEF EvaluateExpression, CompiledExpressions, Trees
<1> HIDE DEF Leaf, Node, X
<1>3. 0 \in P
  <2> DEFINE h == [t \in L[0] |-> 0]
  <2>1. Good(h, 0)
    BY <1>1
  <2> HIDE DEF h, Good
  <2>2. QED
    BY <2>1, <1>1
<1>4. ASSUME NEW m \in 0 .. MaxNesting, m # MaxNesting, m \in P PROVE m + 1 \in P
  <2>1. PICK g : Good(g, m)
    BY <1>4
  <2> DEFINE h == [t \in L[m + 1] |-> Value(g, t)]
  <2>2. m + 1 \in 0 .. MaxNesting /\ (m + 1) - 1 = m
    BY <1>1, <1>4
  <2>3. \A t \in L[m] : g[t] = Value(g, t)
    BY <2>1
  <2>4. ASSUME NEW t \in L[m + 1] PROVE Value(h, t) = Value(g, t)
    <3>1. SUFFICES ASSUME t.k # "compare" PROVE Value(h, t) = Value(g, t)
      OBVIOUS
    <3>2. \A i \in DOMAIN t.args : t.args[i] \in L[m] /\ t.args[i] \in L[m + 1]
      BY <3>1, <2>2, <1>1, LevelShape
    <3> HIDE DEF L
    <3>3. \A i \in DOMAIN t.args : h[t.args[i]] = Value(g, t.args[i])
      BY <3>2
    <3> HIDE DEF h, Value
    <3>4. \A i \in DOMAIN t.args : h[t.args[i]] = g[t.args[i]]
      BY <3>2, <3>3, <2>3
    <3>5. [i \in DOMAIN t.args |-> h[t.args[i]]] = [i \in DOMAIN t.args |-> g[t.args[i]]]
      BY <3>4
    <3>6. QED
      BY <3>1, <3>5 DEF Value
  <2>5. Good(h, m + 1)
    <3> HIDE DEF L, Value
    <3>1. \A t \in L[m + 1] : h[t] = Value(h, t)
      BY <2>4
    <3>2. DOMAIN h = L[m + 1] /\ h = [t \in DOMAIN h |-> h[t]]
      OBVIOUS
    <3> HIDE DEF h
    <3> DEFINE r == [t \in L[m + 1] |-> Value(h, t)]
    <3>3. DOMAIN r = L[m + 1] /\ r = [t \in DOMAIN r |-> r[t]] /\ \A t \in L[m + 1] : r[t] = h[t]
      BY <3>1
    <3> HIDE DEF r
    <3>4. h = r
      BY <3>2, <3>3
    <3>5. QED
      BY <3>4 DEF r
  <2> HIDE DEF h, Good
  <2>6. QED
    BY <2>2, <2>5
<1>5. \A m \in 0 .. MaxNesting : m # MaxNesting /\ m \in P => m + 1 \in P
  BY <1>4
<1>6. MaxNesting \in P
  <2> HIDE DEF P
  <2>1. QED
    BY <1>1, <1>3, <1>5, Upwards
<1>7. PICK g : Good(g, MaxNesting)
  BY <1>6
<1>8. Good(EvaluateExpression(ctx), MaxNesting)
  <2> HIDE DEF Good
  <2>1. QED
    BY <1>2, <1>7
<1>9. EvaluateExpression(ctx)[f] = Value(EvaluateExpression(ctx), f)
  <2> HIDE DEF Value
  <2> DEFINE F == EvaluateExpression(ctx)
  <2> HIDE DEF F
  <2>1. F = [t \in L[MaxNesting] |-> Value(F, t)]
    BY <1>8 DEF F
  <2>2. F[f] = Value(F, f)
    BY <2>1 DEF CompiledExpressions, Trees, X
  <2>3. QED
    BY <2>2 DEF F
<1>10. QED
  BY <1>9 DEF Leaf, Node
LEMMA MeaningIs ==
    ASSUME NEW params, NEW event, NEW e \in Expressions
    PROVE  Meaning(params, event)[e] =
             IF e.k = "compare"
             THEN Apply(FieldMeaning(params, e.field), e.op,
                        LiteralMeaning(e.value, IsPlainText(params, event, e.field)))
             ELSE Connective(e.k, [i \in DOMAIN e.args |-> Meaning(params, event)[e.args[i]]])
<1> DEFINE X == Comparisons
           L == Levels(X)
           Leaf(t) == Apply(FieldMeaning(params, t.field), t.op,
                            LiteralMeaning(t.value, IsPlainText(params, event, t.field)))
           Node(t, parts) == Connective(t.k, parts)
           Value(g, t) == IF t.k = "compare" THEN Leaf(t)
                          ELSE Node(t, [i \in DOMAIN t.args |-> g[t.args[i]]])
           Good(g, n) == g = [t \in L[n] |-> Value(g, t)]
           P == {n \in 0 .. MaxNesting : \E g : Good(g, n)}
<1>1. MaxNesting \in Nat /\ L[0] = {} /\ Leafy(X)
  BY LimitAssumption, LevelsAre, ExpressionsLeafy
<1>2. Meaning(params, event) = CHOOSE g : Good(g, MaxNesting)
  BY DEF Meaning, Expressions, Trees
<1> HIDE DEF Leaf, Node, X
<1>3. 0 \in P
  <2> DEFINE h == [t \in L[0] |-> 0]
  <2>1. Good(h, 0)
    BY <1>1
  <2> HIDE DEF h, Good
  <2>2. QED
    BY <2>1, <1>1
<1>4. ASSUME NEW m \in 0 .. MaxNesting, m # MaxNesting, m \in P PROVE m + 1 \in P
  <2>1. PICK g : Good(g, m)
    BY <1>4
  <2> DEFINE h == [t \in L[m + 1] |-> Value(g, t)]
  <2>2. m + 1 \in 0 .. MaxNesting /\ (m + 1) - 1 = m
    BY <1>1, <1>4
  <2>3. \A t \in L[m] : g[t] = Value(g, t)
    BY <2>1
  <2>4. ASSUME NEW t \in L[m + 1] PROVE Value(h, t) = Value(g, t)
    <3>1. SUFFICES ASSUME t.k # "compare" PROVE Value(h, t) = Value(g, t)
      OBVIOUS
    <3>2. \A i \in DOMAIN t.args : t.args[i] \in L[m] /\ t.args[i] \in L[m + 1]
      BY <3>1, <2>2, <1>1, LevelShape
    <3> HIDE DEF L
    <3>3. \A i \in DOMAIN t.args : h[t.args[i]] = Value(g, t.args[i])
      BY <3>2
    <3> HIDE DEF h, Value
    <3>4. \A i \in DOMAIN t.args : h[t.args[i]] = g[t.args[i]]
      BY <3>2, <3>3, <2>3
    <3>5. [i \in DOMAIN t.args |-> h[t.args[i]]] = [i \in DOMAIN t.args |-> g[t.args[i]]]
      BY <3>4
    <3>6. QED
      BY <3>1, <3>5 DEF Value
  <2>5. Good(h, m + 1)
    <3> HIDE DEF L, Value
    <3>1. \A t \in L[m + 1] : h[t] = Value(h, t)
      BY <2>4
    <3>2. DOMAIN h = L[m + 1] /\ h = [t \in DOMAIN h |-> h[t]]
      OBVIOUS
    <3> HIDE DEF h
    <3> DEFINE r == [t \in L[m + 1] |-> Value(h, t)]
    <3>3. DOMAIN r = L[m + 1] /\ r = [t \in DOMAIN r |-> r[t]] /\ \A t \in L[m + 1] : r[t] = h[t]
      BY <3>1
    <3> HIDE DEF r
    <3>4. h = r
      BY <3>2, <3>3
    <3>5. QED
      BY <3>4 DEF r
  <2> HIDE DEF h, Good
  <2>6. QED
    BY <2>2, <2>5
<1>5. \A m \in 0 .. MaxNesting : m # MaxNesting /\ m \in P => m + 1 \in P
  BY <1>4
<1>6. MaxNesting \in P
  <2> HIDE DEF P
  <2>1. QED
    BY <1>1, <1>3, <1>5, Upwards
<1>7. PICK g : Good(g, MaxNesting)
  BY <1>6
<1>8. Good(Meaning(params, event), MaxNesting)
  <2> HIDE DEF Good
  <2>1. QED
    BY <1>2, <1>7
<1>9. Meaning(params, event)[e] = Value(Meaning(params, event), e)
  <2> HIDE DEF Value
  <2> DEFINE f == Meaning(params, event)
  <2> HIDE DEF f
  <2>1. f = [t \in L[MaxNesting] |-> Value(f, t)]
    BY <1>8 DEF f
  <2>2. f[e] = Value(f, e)
    BY <2>1 DEF Expressions, Trees, X
  <2>3. QED
    BY <2>2 DEF f
<1>10. QED
  BY <1>9 DEF Leaf, Node
LEMMA NodesIs ==
    ASSUME NEW e \in Expressions
    PROVE  Nodes[e] =
             IF e.k = "compare" THEN {<<<<>>, e>>}
             ELSE LET parts == [i \in DOMAIN e.args |-> Nodes[e.args[i]]]
                      lifted(i) == {<<<<i>> \o n[1], n[2]>> : n \in parts[i]}
                  IN  {<<<<>>, e>>} \cup UNION {lifted(i) : i \in DOMAIN parts}
<1> DEFINE X == Comparisons
           L == Levels(X)
           Leaf(t) == {<<<<>>, t>>}
           Node(t, parts) == {<<<<>>, t>>} \cup
             UNION {{<<<<i>> \o n[1], n[2]>> : n \in parts[i]} : i \in DOMAIN parts}
           Value(g, t) == IF t.k = "compare" THEN Leaf(t)
                          ELSE Node(t, [i \in DOMAIN t.args |-> g[t.args[i]]])
           Good(g, n) == g = [t \in L[n] |-> Value(g, t)]
           P == {n \in 0 .. MaxNesting : \E g : Good(g, n)}
<1>1. MaxNesting \in Nat /\ L[0] = {} /\ Leafy(X)
  BY LimitAssumption, LevelsAre, ExpressionsLeafy
<1>2. Nodes = CHOOSE g : Good(g, MaxNesting)
  BY DEF Nodes, Expressions, Trees
<1> HIDE DEF Leaf, Node, X
<1>3. 0 \in P
  <2> DEFINE h == [t \in L[0] |-> 0]
  <2>1. Good(h, 0)
    BY <1>1
  <2> HIDE DEF h, Good
  <2>2. QED
    BY <2>1, <1>1
<1>4. ASSUME NEW m \in 0 .. MaxNesting, m # MaxNesting, m \in P PROVE m + 1 \in P
  <2>1. PICK g : Good(g, m)
    BY <1>4
  <2> DEFINE h == [t \in L[m + 1] |-> Value(g, t)]
  <2>2. m + 1 \in 0 .. MaxNesting /\ (m + 1) - 1 = m
    BY <1>1, <1>4
  <2>3. \A t \in L[m] : g[t] = Value(g, t)
    BY <2>1
  <2>4. ASSUME NEW t \in L[m + 1] PROVE Value(h, t) = Value(g, t)
    <3>1. SUFFICES ASSUME t.k # "compare" PROVE Value(h, t) = Value(g, t)
      OBVIOUS
    <3>2. \A i \in DOMAIN t.args : t.args[i] \in L[m] /\ t.args[i] \in L[m + 1]
      BY <3>1, <2>2, <1>1, LevelShape
    <3> HIDE DEF L
    <3>3. \A i \in DOMAIN t.args : h[t.args[i]] = Value(g, t.args[i])
      BY <3>2
    <3> HIDE DEF h, Value
    <3>4. \A i \in DOMAIN t.args : h[t.args[i]] = g[t.args[i]]
      BY <3>2, <3>3, <2>3
    <3>5. [i \in DOMAIN t.args |-> h[t.args[i]]] = [i \in DOMAIN t.args |-> g[t.args[i]]]
      BY <3>4
    <3>6. QED
      BY <3>1, <3>5 DEF Value
  <2>5. Good(h, m + 1)
    <3> HIDE DEF L, Value
    <3>1. \A t \in L[m + 1] : h[t] = Value(h, t)
      BY <2>4
    <3>2. DOMAIN h = L[m + 1] /\ h = [t \in DOMAIN h |-> h[t]]
      OBVIOUS
    <3> HIDE DEF h
    <3> DEFINE r == [t \in L[m + 1] |-> Value(h, t)]
    <3>3. DOMAIN r = L[m + 1] /\ r = [t \in DOMAIN r |-> r[t]] /\ \A t \in L[m + 1] : r[t] = h[t]
      BY <3>1
    <3> HIDE DEF r
    <3>4. h = r
      BY <3>2, <3>3
    <3>5. QED
      BY <3>4 DEF r
  <2> HIDE DEF h, Good
  <2>6. QED
    BY <2>2, <2>5
<1>5. \A m \in 0 .. MaxNesting : m # MaxNesting /\ m \in P => m + 1 \in P
  BY <1>4
<1>6. MaxNesting \in P
  <2> HIDE DEF P
  <2>1. QED
    BY <1>1, <1>3, <1>5, Upwards
<1>7. PICK g : Good(g, MaxNesting)
  BY <1>6
<1>8. Good(Nodes, MaxNesting)
  <2> HIDE DEF Good
  <2>1. QED
    BY <1>2, <1>7
<1>9. Nodes[e] = Value(Nodes, e)
  <2> HIDE DEF Value
  <2> DEFINE f == Nodes
  <2> HIDE DEF f
  <2>1. f = [t \in L[MaxNesting] |-> Value(f, t)]
    BY <1>8 DEF f
  <2>2. f[e] = Value(f, e)
    BY <2>1 DEF Expressions, Trees, X
  <2>3. QED
    BY <2>2 DEF f
<1>10. QED
  BY <1>9 DEF Leaf, Node

-----------------------------------------------------------------------------
(* Literals and fields.                                                    *)

ValueTypes == [t : {"uint", "int", "bool", "address", "string", "bytes"}, n : Nat]

\* What parse_target_signature makes of a request.
IsTarget(target) ==
    LET params == target.params
    IN  /\ target.kind \in {"event", "call"}
        /\ Len(params) \in Nat /\ DOMAIN params = 1 .. Len(params)
        /\ \A i \in DOMAIN params :
              /\ params[i].ty \in [t : Scalars, n : Nat] /\ params[i].indexed \in BOOLEAN
              /\ params[i].ty.t = "fixed" => params[i].ty.n \in 1 .. WordLen
              /\ target.kind = "call" => ~ params[i].indexed
              /\ AbiValues(params[i]) \subseteq ChainValues(params[i])
        /\ \A i, j \in DOMAIN params : params[i].name = params[j].name => i = j

LEMMA TextSizes ==
    ASSUME NEW text \in Texts
    PROVE  TextSize(text) \in Nat
<1>1. CASE text.form = "dec"
  <2>1. text.neg \in BOOLEAN /\ text.zeros \in Nat
    BY <1>1 DEF Texts
  <2>2. TextSize(text) = (IF text.neg THEN 1 ELSE 0) + text.zeros + 1
    BY <1>1 DEF TextSize
  <2>3. QED
    BY <2>1, <2>2
<1>2. CASE text.form = "hex"
  <2>1. text.odd \in BOOLEAN /\ text.bytes \in Seq(Byte)
    BY <1>2 DEF Texts
  <2>2. TextSize(text) = 2 + 2 * Len(text.bytes) + (IF text.odd THEN 1 ELSE 0)
    BY <1>2 DEF TextSize
  <2>3. Len(text.bytes) \in Nat
    BY <2>1
  <2>4. (IF text.odd THEN 1 ELSE 0) \in Nat
    BY <2>1
  <2>5. \A l, o \in Nat : 2 + 2 * l + o \in Nat
    OBVIOUS
  <2>6. QED
    BY <2>2, <2>3, <2>4, <2>5
<1>3. CASE text.form = "word"
  BY <1>3 DEF TextSize
<1>4. QED
  BY <1>1, <1>2, <1>3 DEF Texts

LEMMA DecimalTexts ==
    ASSUME NEW json \in Json, IsText(json, "dec")
    PROVE  /\ json.text.neg \in BOOLEAN /\ json.text.zeros \in Nat /\ json.text.mag \in Nat
           /\ json.text.form = "dec" /\ json.json = "string"
<1>1. json.json = "string" /\ json.text \in Texts /\ json.text.form = "dec"
  BY DEF IsText, Json
<1>2. QED
  BY <1>1 DEF Texts

LEMMA HexTexts ==
    ASSUME NEW json \in Json, IsText(json, "hex")
    PROVE  /\ json.text.bytes \in Seq(Byte) /\ json.text.odd \in BOOLEAN
           /\ json.text.form = "hex" /\ json.json = "string"
<1>1. json.json = "string" /\ json.text \in Texts /\ json.text.form = "hex"
  BY DEF IsText, Json
<1>2. QED
  BY <1>1 DEF Texts

LEMMA DecimalIs ==
    ASSUME NEW v \in Int
    PROVE  /\ Decimal(v) \in Json /\ IsText(Decimal(v), "dec")
           /\ Signed(Decimal(v).text) = v /\ (Decimal(v).text.neg <=> v < 0)
           /\ v >= 0 => Decimal(v).text.mag = v
           /\ Decimal(v).json = "string" /\ TextSize(Decimal(v).text) = (IF v < 0 THEN 2 ELSE 1)
<1>1. SUFFICES ASSUME NEW n \in BOOLEAN, n <=> v < 0 PROVE
             LET text == [form |-> "dec", neg |-> n, zeros |-> 0, mag |-> IF n THEN -v ELSE v]
             IN  /\ text \in Texts /\ Signed(text) = v /\ TextSize(text) = (IF v < 0 THEN 2 ELSE 1)
                 /\ v >= 0 => text.mag = v
  <2>1. PICK n \in BOOLEAN : n <=> v < 0
    OBVIOUS
  <2> DEFINE text == [form |-> "dec", neg |-> n, zeros |-> 0, mag |-> IF n THEN -v ELSE v]
  <2>2. (v < 0) = n /\ (IF v < 0 THEN -v ELSE v) = (IF n THEN -v ELSE v)
    BY <2>1
  <2>3. Decimal(v) = [json |-> "string", text |-> text]
    BY <2>2, Zenon DEF Decimal
  <2>4. /\ text \in Texts /\ Signed(text) = v /\ TextSize(text) = (IF v < 0 THEN 2 ELSE 1)
        /\ v >= 0 => text.mag = v
    BY <2>1, <1>1
  <2>5. text.neg = n /\ text.form = "dec"
    OBVIOUS
  <2> HIDE DEF text
  <2>6. [json |-> "string", text |-> text] \in Json
    BY <2>4 DEF Json
  <2>7. QED
    BY <2>1, <2>3, <2>4, <2>5, <2>6 DEF IsText
<1> DEFINE m == IF n THEN -v ELSE v
           text == [form |-> "dec", neg |-> n, zeros |-> 0, mag |-> m]
<1>2. m \in Nat
  BY <1>1
<1>3. text \in Texts
  BY <1>1, <1>2 DEF Texts
<1>4. text.neg = n /\ text.mag = m /\ text.form = "dec" /\ text.zeros = 0
  OBVIOUS
<1> HIDE DEF text
<1>5. Signed(text) = v
  BY <1>1, <1>4 DEF Signed
<1>6. TextSize(text) = (IF v < 0 THEN 2 ELSE 1)
  <2>1. TextSize(text) = (IF text.neg THEN 1 ELSE 0) + text.zeros + 1
    BY <1>4 DEF TextSize
  <2>2. QED
    BY <2>1, <1>1, <1>4
<1>7. QED
  BY <1>1, <1>3, <1>4, <1>5, <1>6 DEF text

LEMMA HexIs ==
    ASSUME NEW b \in Seq(Byte)
    PROVE  /\ Hex(b) \in Json /\ IsText(Hex(b), "hex") /\ ~ Hex(b).text.odd
           /\ Hex(b).text.bytes = b /\ Hex(b).json = "string"
           /\ TextSize(Hex(b).text) = 2 + 2 * Len(b)
<1> DEFINE text == [form |-> "hex", bytes |-> b, odd |-> FALSE, upper |-> FALSE]
<1>1. Hex(b) = [json |-> "string", text |-> text]
  BY DEF Hex
<1>2. text \in Texts
  BY DEF Texts
<1>3. [json |-> "string", text |-> text] \in Json
  BY <1>2 DEF Json
<1>4. Len(b) \in Nat
  OBVIOUS
<1>5. TextSize(text) = 2 + 2 * Len(b)
  BY <1>4 DEF TextSize
<1>6. QED
  BY <1>1, <1>3, <1>5 DEF IsText

\* The size of a literal in an expression.
LiteralSize(json) == IF json.json = "string" THEN TextSize(json.text) ELSE 1

\* The canonical form of a literal is one, and is the same literal; it is not longer.
LEMMA CanonicalIs ==
    ASSUME NEW ty \in ValueTypes, NEW json \in Json, IsTyped(ty, json)
    PROVE  /\ Literal(ty, json) \in FilterValues /\ Canonical(ty, json) \in Json
           /\ IsTyped(ty, Canonical(ty, json))
           /\ Literal(ty, Canonical(ty, json)) = Literal(ty, json)
           /\ Canonical(ty, Canonical(ty, json)) = Canonical(ty, json)
           /\ LiteralSize(Canonical(ty, json)) <= LiteralSize(json)
<1> DEFINE c == Canonical(ty, json)
<1>1. CASE ty.t \in {"uint", "int"}
  <2> DEFINE text == json.text
             v == Signed(text)
  <2>1. IsText(json, "dec") /\ Fits(ty, text)
    BY <1>1 DEF IsTyped
  <2>2. /\ text.neg \in BOOLEAN /\ text.zeros \in Nat /\ text.mag \in Nat /\ text.form = "dec"
        /\ json.json = "string"
    BY <2>1, DecimalTexts
  <2>3. v \in Int /\ c = Decimal(v)
    BY <1>1, <2>2 DEF Signed, Canonical
  <2> DEFINE d == Decimal(v).text
  <2>4. /\ c \in Json /\ IsText(c, "dec") /\ Signed(d) = v /\ (d.neg <=> v < 0)
        /\ v >= 0 => d.mag = v
        /\ c.json = "string" /\ TextSize(d) = (IF v < 0 THEN 2 ELSE 1) /\ c.text = d
    BY <2>3, DecimalIs
  <2>5. ty.t = "uint" => ~ text.neg /\ v = text.mag /\ ~ d.neg /\ d.mag = text.mag
    BY <2>1, <2>2, <2>4 DEF Fits, Signed
  <2> HIDE DEF d, text
  <2>6. Fits(ty, d)
    BY <1>1, <2>1, <2>4, <2>5 DEF Fits
  <2>7. IsTyped(ty, c)
    BY <1>1, <2>4, <2>6 DEF IsTyped
  <2>8. Literal(ty, c) = Literal(ty, json) /\ Literal(ty, json) \in FilterValues
    <3>1. CASE ty.t = "uint"
      <4>1. Literal(ty, c) = <<"Uint", c.text.mag>> /\ Literal(ty, json) = <<"Uint", json.text.mag>>
        BY <3>1 DEF Literal
      <4>2. QED
        BY <4>1, <3>1, <2>2, <2>4, <2>5 DEF text, FilterValues
    <3>2. CASE ty.t = "int"
      <4>1. /\ Literal(ty, c) = <<"Int", Signed(c.text)>>
            /\ Literal(ty, json) = <<"Int", Signed(json.text)>>
        BY <3>2 DEF Literal
      <4>2. QED
        BY <4>1, <3>2, <2>3, <2>4 DEF text, FilterValues
    <3>3. QED
      BY <1>1, <3>1, <3>2
  <2>9. Canonical(ty, c) = c
    BY <1>1, <2>3, <2>4 DEF Canonical
  <2>10. LiteralSize(c) <= LiteralSize(json)
    <3>1. TextSize(text) = (IF text.neg THEN 1 ELSE 0) + text.zeros + 1
      BY <2>2 DEF TextSize
    <3>2. v < 0 => text.neg
      BY <2>2 DEF Signed
    <3>3. TextSize(d) <= TextSize(text)
      BY <3>1, <3>2, <2>2, <2>3, <2>4
    <3>4. QED
      BY <3>3, <2>2, <2>4 DEF LiteralSize, text
  <2>11. QED
    BY <2>4, <2>7, <2>8, <2>9, <2>10
<1>2. CASE ty.t \in {"address", "bytes"}
  <2> DEFINE b == json.text.bytes
  <2>1. IsText(json, "hex") /\ ~ json.text.odd
    BY <1>2 DEF IsTyped, IsBytes
  <2>2. b \in Seq(Byte) /\ json.text.form = "hex" /\ json.json = "string"
    BY <2>1, HexTexts
  <2>3. c = Hex(b)
    BY <1>2 DEF Canonical
  <2>4. /\ c \in Json /\ IsText(c, "hex") /\ ~ c.text.odd /\ c.text.bytes = b
        /\ c.json = "string" /\ TextSize(c.text) = 2 + 2 * Len(b)
    BY <2>2, <2>3, HexIs
  <2>5. \A n : IsBytes(json, n) => IsBytes(c, n)
    BY <2>1, <2>4 DEF IsBytes
  <2>6. IsTyped(ty, c)
    BY <1>2, <2>5 DEF IsTyped
  <2>7. Literal(ty, c) = Literal(ty, json) /\ Literal(ty, json) \in FilterValues
    BY <1>2, <2>2, <2>4 DEF Literal, FilterValues
  <2>8. Canonical(ty, c) = c
    BY <1>2, <2>3, <2>4 DEF Canonical
  <2>9. LiteralSize(c) <= LiteralSize(json)
    <3>1. TextSize(json.text) = 2 + 2 * Len(b)
      BY <2>1, <2>2 DEF TextSize
    <3>2. Len(b) \in Nat
      BY <2>2
    <3>3. QED
      BY <3>1, <3>2, <2>2, <2>4 DEF LiteralSize
  <2>10. QED
    BY <2>4, <2>6, <2>7, <2>8, <2>9
<1>3. CASE ty.t = "bool"
  <2>1. c = json /\ json.json = "bool"
    BY <1>3 DEF Canonical, IsTyped
  <2>2. json.b \in BOOLEAN
    BY <2>1 DEF Json
  <2>3. Literal(ty, json) \in FilterValues
    BY <1>3, <2>2 DEF Literal, FilterValues
  <2>4. LiteralSize(json) = 1
    BY <2>1 DEF LiteralSize
  <2>5. QED
    BY <2>1, <2>3, <2>4
<1>4. CASE ty.t = "string"
  <2>1. c = json /\ json.json = "string"
    BY <1>4 DEF Canonical, IsTyped
  <2>2. json.text \in Texts
    BY <2>1 DEF Json
  <2>3. Literal(ty, json) \in FilterValues
    BY <1>4, <2>2 DEF Literal, FilterValues
  <2>4. TextSize(json.text) \in Nat
    BY <2>2, TextSizes
  <2>5. QED
    BY <2>1, <2>3, <2>4 DEF LiteralSize
<1>5. QED
  BY <1>1, <1>2, <1>3, <1>4 DEF ValueTypes

LEMMA ParamTyped ==
    ASSUME NEW target, IsTarget(target), NEW i \in DOMAIN target.params, NEW event \in BOOLEAN
    PROVE  value_type(target.params[i], event) \in ValueTypes
<1> DEFINE param == target.params[i]
<1>1. param.ty \in [t : Scalars, n : Nat]
  BY DEF IsTarget
<1>2. WordLen \in Nat /\ FunctionLen \in Nat
  BY LimitAssumption
<1> HIDE DEF param
<1>3. CASE IsHashed(param, event)
  BY <1>2, <1>3 DEF value_type, ValueTypes, param
<1>4. CASE ~ IsHashed(param, event)
  <2>1. CASE param.ty.t \in {"fixed", "function", "bytes"}
    BY <1>1, <1>2, <1>4, <2>1 DEF value_type, ValueTypes, param
  <2>2. CASE param.ty.t \notin {"fixed", "function", "bytes"}
    <3>1. value_type(param, event) = param.ty
      BY <1>4, <2>2 DEF value_type
    <3>2. param.ty \in ValueTypes
      BY <1>1, <2>2 DEF Scalars, ValueTypes
    <3>3. QED
      BY <3>1, <3>2 DEF param
  <2>3. QED
    BY <2>1, <2>2
<1>5. QED
  BY <1>3, <1>4

\* What a field stands for.
LEMMA FieldIs ==
    ASSUME NEW target, IsTarget(target), NEW field \in [param : BOOLEAN, name : STRING],
           resolve_field(target, field).ok
    PROVE  LET found == resolve_field(target, field).v
               i == found.index
           IN  /\ found.index \in Nat /\ found.ty \in ValueTypes
               /\ ~ field.param =>
                     /\ i = 0 /\ field.name \in Metadata(target.kind)
                     /\ found.ty = MetadataType(field.name)
               /\ field.param =>
                     /\ i \in DOMAIN target.params /\ target.params[i].name = field.name
                     /\ found.ty = value_type(target.params[i], target.kind = "event")
<1> DEFINE at == {i \in DOMAIN target.params : target.params[i].name = field.name}
           event == target.kind = "event"
<1>1. CASE ~ field.param
  <2>1. field.name \in Metadata(target.kind)
    BY <1>1 DEF resolve_field, Ok, Err
  <2>2. resolve_field(target, field) = Ok([index |-> 0, ty |-> MetadataType(field.name)])
    BY <1>1, <2>1 DEF resolve_field
  <2>3. MetadataType(field.name) \in ValueTypes
    <3>1. field.name \in {"block_number", "tx_hash", "from", "to", "emitter", "log_index"}
      BY <2>1 DEF Metadata
    <3>2. U64 \in ValueTypes /\ Address \in ValueTypes /\ [t |-> "bytes", n |-> WordLen] \in ValueTypes
      BY LimitAssumption DEF U64, Address, ValueTypes
    <3>3. QED
      BY <3>1, <3>2 DEF MetadataType
  <2>4. QED
    BY <1>1, <2>1, <2>2, <2>3 DEF Ok
<1>2. CASE field.param
  <2>1. at # {}
    BY <1>2 DEF resolve_field, Ok, Err
  <2> DEFINE m == Min(at)
  <2>2. at \subseteq Nat
    BY DEF IsTarget
  <2>3. PICK n \in at : \A j \in at : n <= j
    <3> HIDE DEF at
    <3>1. QED
      BY <2>1, <2>2, Smallest
  <2>4. m \in at
    <3> HIDE DEF at
    <3>1. QED
      BY <2>3 DEF Min
  <2>5. resolve_field(target, field) = Ok([index |-> m, ty |-> value_type(target.params[m], event)])
    BY <1>2, <2>1 DEF resolve_field
  <2>6. m \in Nat /\ m \in DOMAIN target.params /\ target.params[m].name = field.name
    BY <2>2, <2>4
  <2> HIDE DEF m
  <2>7. value_type(target.params[m], event) \in ValueTypes
    BY <2>6, ParamTyped
  <2>8. QED
    BY <1>2, <2>5, <2>6, <2>7 DEF Ok
<1>3. QED
  BY <1>1, <1>2

-----------------------------------------------------------------------------
(* Compilation.                                                            *)

\* A comparison that was accepted is accepted in its canonical form, as the same.
LEMMA ComparisonIs ==
    ASSUME NEW target, IsTarget(target), NEW e \in Comparisons
    PROVE  LET result == CompileComparison(e, target)
           IN  /\ result.ok \in BOOLEAN
               /\ ~ result.ok => result = Err(<<>>)
               /\ result.ok =>
                     /\ result.v.source \in Comparisons
                     /\ result.v.compiled \in CompiledComparisons
                     /\ CompileComparison(result.v.source, target) = result
                     /\ LiteralSize(result.v.source.value) <= LiteralSize(e.value)
<1> DEFINE field == resolve_field(target, e.field)
           ty == field.v.ty
           good == field.ok /\ ~ (ordered(e.op) /\ ty.t \notin {"uint", "int"}) /\ IsTyped(ty, e.value)
           c == Canonical(ty, e.value)
           source == [e EXCEPT !.value = c]
           compiled == [k |-> "compare", name |-> e.field.name, index |-> field.v.index,
                        op |-> e.op, value |-> Literal(ty, e.value)]
<1>1. CompileComparison(e, target) =
         IF good THEN Ok([source |-> source, compiled |-> compiled]) ELSE Err(<<>>)
  BY DEF CompileComparison, parse_value, Ok, Err
<1>2. ASSUME good
      PROVE  /\ source \in Comparisons /\ compiled \in CompiledComparisons
             /\ CompileComparison(source, target) = CompileComparison(e, target)
             /\ LiteralSize(source.value) <= LiteralSize(e.value)
  <2>1. e.field \in [param : BOOLEAN, name : STRING] /\ e.op \in Ops /\ e.value \in Json
    BY DEF Comparisons
  <2>2. field.v.index \in Nat /\ ty \in ValueTypes
    BY <1>2, <2>1, FieldIs
  <2>3. /\ Literal(ty, e.value) \in FilterValues /\ c \in Json /\ IsTyped(ty, c)
        /\ Literal(ty, c) = Literal(ty, e.value) /\ Canonical(ty, c) = c
        /\ LiteralSize(c) <= LiteralSize(e.value)
    BY <1>2, <2>1, <2>2, CanonicalIs
  <2>4. compiled \in CompiledComparisons
    BY <2>1, <2>2, <2>3 DEF CompiledComparisons
  <2>5. source \in Comparisons /\ source.field = e.field /\ source.op = e.op /\ source.value = c
    BY <2>3 DEF Comparisons
  <2>6. [source EXCEPT !.value = c] = source
    BY DEF Comparisons
  <2>7. CompileComparison(source, target) = Ok([source |-> source, compiled |-> compiled])
    <3> HIDE DEF source
    <3>1. CompileComparison(source, target) =
            Ok([source |-> [source EXCEPT !.value = Canonical(ty, c)],
                compiled |-> [k |-> "compare", name |-> e.field.name, index |-> field.v.index,
                              op |-> e.op, value |-> Literal(ty, c)]])
      BY <1>2, <2>3, <2>5 DEF CompileComparison, parse_value, Ok, Err
    <3>2. QED
      BY <3>1, <2>3, <2>6
  <2>8. QED
    BY <1>1, <1>2, <2>3, <2>4, <2>5, <2>7
<1>3. QED
  BY <1>1, <1>2 DEF Ok, Err

LEMMA MinIs ==
    ASSUME NEW T \in SUBSET Nat, T # {}
    PROVE  Min(T) \in T /\ \A m \in T : Min(T) <= m
<1>1. PICK n \in T : \A m \in T : n <= m
  BY Smallest
<1>2. QED
  BY <1>1 DEF Min

PartFails(k, n, results) ==
    \E i \in 1 .. n : /\ ~ results[i].ok
                      /\ CompileParts(k, results) = Err(<<i>> \o results[i].path)

\* The parts of an expression compile, or the first that does not gives the error.
LEMMA PartsAre ==
    ASSUME NEW k, NEW n \in Nat, NEW results, DOMAIN results = 1 .. n,
           \A i \in 1 .. n : results[i].ok \in BOOLEAN
    PROVE  /\ (\A i \in 1 .. n : results[i].ok) =>
                 CompileParts(k, results) =
                    Ok([source |-> [k |-> k, args |-> [i \in 1 .. n |-> results[i].v.source]],
                        compiled |-> [k |-> k, args |-> [i \in 1 .. n |-> results[i].v.compiled]]])
           /\ (\E i \in 1 .. n : ~ results[i].ok) => PartFails(k, n, results)
<1> DEFINE inside == [i \in 1 .. n |-> Inside(i, results[i])]
           bad == {i \in 1 .. n : ~ inside[i].ok}
           parts == Collect(inside)
<1>1. \A i \in 1 .. n : /\ inside[i].ok <=> results[i].ok
                        /\ results[i].ok => inside[i].v = results[i].v
                        /\ ~ results[i].ok => inside[i] = Err(<<i>> \o results[i].path)
  BY DEF Inside, Err
<1>2. /\ bad # {} => parts = inside[Min(bad)]
      /\ bad = {} => parts = Ok([i \in 1 .. n |-> inside[i].v])
  BY DEF Collect
<1>3. CompileParts(k, results) =
        IF ~ parts.ok THEN parts
        ELSE Ok([source |-> [k |-> k, args |-> [i \in DOMAIN parts.v |-> parts.v[i].source]],
                 compiled |-> [k |-> k, args |-> [i \in DOMAIN parts.v |-> parts.v[i].compiled]]])
  BY DEF CompileParts
<1>4. CASE \A i \in 1 .. n : results[i].ok
  <2>1. bad = {}
    BY <1>1, <1>4
  <2> DEFINE v == [i \in 1 .. n |-> inside[i].v]
  <2>2. parts = Ok(v) /\ DOMAIN v = 1 .. n /\ \A i \in 1 .. n : v[i] = results[i].v
    BY <1>1, <1>2, <1>4, <2>1
  <2> HIDE DEF v, parts
  <2>3. parts.ok /\ parts.v = v
    BY <2>2 DEF Ok
  <2>4. /\ [i \in DOMAIN v |-> v[i].source] = [i \in 1 .. n |-> results[i].v.source]
        /\ [i \in DOMAIN v |-> v[i].compiled] = [i \in 1 .. n |-> results[i].v.compiled]
    BY <2>2
  <2>5. QED
    BY <1>3, <1>4, <2>3, <2>4
<1>5. CASE \E i \in 1 .. n : ~ results[i].ok
  <2>1. bad # {} /\ bad \in SUBSET Nat
    <3>1. PICK i \in 1 .. n : ~ results[i].ok
      BY <1>5
    <3>2. i \in bad
      BY <1>1, <3>1
    <3>3. QED
      BY <3>2
  <2> DEFINE i == Min(bad)
  <2>2. i \in bad
    <3> HIDE DEF bad
    <3>1. QED
      BY <2>1, MinIs
  <2> HIDE DEF i
  <2>3. i \in 1 .. n /\ ~ results[i].ok
    BY <2>2, <1>1
  <2>4. parts = inside[i]
    BY <2>1, <1>2 DEF i
  <2> HIDE DEF parts, inside
  <2>5. parts = Err(<<i>> \o results[i].path)
    BY <2>3, <2>4, <1>1
  <2>6. CompileParts(k, results) = parts
    BY <1>3, <2>5 DEF Err
  <2>7. QED
    BY <2>3, <2>5, <2>6, <1>5 DEF PartFails
<1>6. QED
  BY <1>4, <1>5

\* A result is good or bad.
LEMMA Results ==
    /\ \A p : Err(p).ok = FALSE /\ Err(p).path = p
    /\ \A v : Ok(v).ok = TRUE /\ Ok(v).v = v
BY DEF Ok, Err

\* What compile_expression gives, level by level.
LEMMA CompiledLevels ==
    ASSUME NEW target, IsTarget(target)
    PROVE  \A n \in 0 .. MaxNesting : \A e \in Levels(Comparisons)[n] : e \in Expressions =>
             LET result == compile_expression(target)[e]
             IN  /\ result.ok \in BOOLEAN
                 /\ ~ result.ok => result = Err(result.path) /\ result.path \in Seq(Nat)
                 /\ result.ok => /\ result.v.source \in Levels(Comparisons)[n]
                                 /\ result.v.compiled \in Levels(CompiledComparisons)[n]
<1> DEFINE L == Levels(Comparisons)
           M == Levels(CompiledComparisons)
           C == compile_expression(target)
           Fine(r, n) == /\ r.ok \in BOOLEAN
                         /\ ~ r.ok => r = Err(r.path) /\ r.path \in Seq(Nat)
                         /\ r.ok => r.v.source \in L[n] /\ r.v.compiled \in M[n]
           P == {n \in 0 .. MaxNesting : \A e \in L[n] : e \in Expressions => Fine(C[e], n)}
<1>1. MaxNesting \in Nat /\ L[0] = {} /\ Leafy(Comparisons)
  BY LimitAssumption, LevelsAre, ExpressionsLeafy
<1>2. 0 \in P
  BY <1>1
<1>3. ASSUME NEW m \in 0 .. MaxNesting, m # MaxNesting, m \in P PROVE m + 1 \in P
  <2>1. m + 1 \in 1 .. MaxNesting /\ m + 1 \in 0 .. MaxNesting /\ (m + 1) - 1 = m
    BY <1>1, <1>3
  <2>2. ASSUME NEW e \in L[m + 1], e \in Expressions PROVE Fine(C[e], m + 1)
    <3>1. CASE e.k = "compare"
      <4>1. e \in Comparisons
        BY <2>1, <2>2, <3>1, <1>1, LevelShape
      <4>2. C[e] = CompileComparison(e, target)
        BY <2>2, <3>1, CompileIs
      <4>3. Comparisons \subseteq L[m + 1] /\ CompiledComparisons \subseteq M[m + 1]
        BY <2>1, LevelsAre DEF Grown
      <4>4. <<>> \in Seq(Nat)
        OBVIOUS
      <4> DEFINE r == CompileComparison(e, target)
      <4>5. /\ r.ok \in BOOLEAN /\ (~ r.ok => r = Err(<<>>))
            /\ r.ok => r.v.source \in Comparisons /\ r.v.compiled \in CompiledComparisons
        BY <4>1, ComparisonIs
      <4> HIDE DEF C, L, M, r
      <4>6. ~ r.ok => r = Err(r.path) /\ r.path \in Seq(Nat)
        BY <4>4, <4>5, Results
      <4>7. Fine(r, m + 1)
        BY <4>3, <4>5, <4>6
      <4> HIDE DEF Fine
      <4>8. QED
        BY <4>2, <4>7 DEF r
    <3>2. CASE e.k # "compare"
      <4> DEFINE N == Len(e.args)
                 R == [i \in DOMAIN e.args |-> C[e.args[i]]]
      <4>1. /\ DOMAIN e.args = 1 .. N /\ N \in Nat
            /\ \A i \in DOMAIN e.args : e.args[i] \in Expressions
        BY <2>2, <3>2, <1>1, TreeShape DEF Expressions
      <4>2. \A i \in DOMAIN e.args : e.args[i] \in L[m]
        BY <2>1, <2>2, <3>2, <1>1, LevelShape
      <4>3. \A i \in 1 .. N : Fine(C[e.args[i]], m)
        BY <4>1, <4>2, <1>3
      <4>4. C[e] = CompileParts(e.k, R)
        BY <2>2, <3>2, CompileIs
      <4> HIDE DEF C, N, Fine
      <4>5. DOMAIN R = 1 .. N /\ \A i \in 1 .. N : R[i] = C[e.args[i]] /\ Fine(R[i], m)
        BY <4>1, <4>3
      <4> HIDE DEF R
      <4>6. \A i \in 1 .. N : R[i].ok \in BOOLEAN
        BY <4>5 DEF Fine
      <4>7. CASE \A i \in 1 .. N : R[i].ok
        <5> DEFINE p == [i \in 1 .. N |-> R[i].v.source]
                   q == [i \in 1 .. N |-> R[i].v.compiled]
        <5>1. C[e] = Ok([source |-> [k |-> e.k, args |-> p], compiled |-> [k |-> e.k, args |-> q]])
          <6>1. DOMAIN R = 1 .. N /\ N \in Nat
            BY <4>1, <4>5
          <6>2. CompileParts(e.k, R) =
                   Ok([source |-> [k |-> e.k, args |-> p], compiled |-> [k |-> e.k, args |-> q]])
            BY <6>1, <4>6, <4>7, PartsAre, ZenonT(40)
          <6>3. QED
            BY <4>4, <6>2
        <5>2. /\ DOMAIN p = DOMAIN e.args /\ p = [i \in DOMAIN p |-> p[i]]
              /\ \A i \in DOMAIN p : p[i] \in L[(m + 1) - 1]
          BY <4>1, <4>5, <4>7, <2>1 DEF Fine
        <5>3. /\ DOMAIN q = DOMAIN e.args /\ q = [i \in DOMAIN q |-> q[i]]
              /\ \A i \in DOMAIN q : q[i] \in M[(m + 1) - 1]
          BY <4>1, <4>5, <4>7, <2>1 DEF Fine
        <5> HIDE DEF p, q
        <5>4. [k |-> e.k, args |-> p] \in L[m + 1] /\ [k |-> e.k, args |-> q] \in M[m + 1]
          BY <5>2, <5>3, <2>1, <2>2, <3>2, <1>1, Rebuilt
        <5>5. QED
          BY <5>1, <5>4 DEF Fine, Ok
      <4>8. CASE \E i \in 1 .. N : ~ R[i].ok
        <5>1. PartFails(e.k, N, R)
          BY <4>1, <4>5, <4>6, <4>8, PartsAre
        <5>2. PICK i \in 1 .. N : ~ R[i].ok /\ C[e] = Err(<<i>> \o R[i].path)
          BY <5>1, <4>4 DEF PartFails
        <5>3. <<i>> \o R[i].path \in Seq(Nat)
          <6>1. R[i].path \in Seq(Nat) /\ <<i>> \in Seq(Nat)
            BY <5>2, <4>1, <4>5 DEF Fine
          <6>2. QED
            BY <6>1
        <5>4. QED
          BY <5>2, <5>3 DEF Fine, Err
      <4>9. QED
        BY <4>7, <4>8
    <3>3. QED
      BY <3>1, <3>2
  <2> HIDE DEF Fine
  <2>3. QED
    BY <2>1, <2>2
<1>4. \A m \in 0 .. MaxNesting : m # MaxNesting /\ m \in P => m + 1 \in P
  BY <1>3
<1>5. \A m \in 0 .. MaxNesting : m \in P
  <2> HIDE DEF P
  <2>1. QED
    BY <1>1, <1>2, <1>4, Upwards
<1>6. QED
  BY <1>5

LEMMA CompiledTyped ==
    ASSUME NEW target, IsTarget(target), NEW e \in Expressions
    PROVE  LET result == compile_expression(target)[e]
           IN  /\ result.ok \in BOOLEAN
               /\ ~ result.ok => result = Err(result.path) /\ result.path \in Seq(Nat)
               /\ result.ok => /\ result.v.source \in Expressions
                               /\ result.v.compiled \in CompiledExpressions
<1>1. MaxNesting \in 0 .. MaxNesting /\ e \in Levels(Comparisons)[MaxNesting]
  BY LimitAssumption DEF Expressions, Trees
<1>2. QED
  BY <1>1, CompiledLevels DEF Expressions, CompiledExpressions, Trees

\* An expression with parts compiles exactly if the parts do, and to their results.
LEMMA CompiledParts ==
    ASSUME NEW target, IsTarget(target), NEW e \in Expressions, e.k # "compare"
    PROVE  LET C == compile_expression(target)
               n == Len(e.args)
           IN  /\ C[e].ok =>
                     /\ \A i \in 1 .. n : C[e.args[i]].ok
                     /\ C[e].v.source = [k |-> e.k, args |-> [i \in 1 .. n |-> C[e.args[i]].v.source]]
                     /\ C[e].v.compiled = [k |-> e.k, args |-> [i \in 1 .. n |-> C[e.args[i]].v.compiled]]
               /\ ~ C[e].ok => \E i \in 1 .. n : /\ ~ C[e.args[i]].ok
                                                 /\ C[e].path = <<i>> \o C[e.args[i]].path
<1> DEFINE C == compile_expression(target)
           n == Len(e.args)
           R == [i \in DOMAIN e.args |-> C[e.args[i]]]
<1>1. /\ DOMAIN e.args = 1 .. n /\ n \in Nat
      /\ \A i \in DOMAIN e.args : e.args[i] \in Expressions
  BY ExpressionsLeafy, TreeShape DEF Expressions
<1>2. C[e] = CompileParts(e.k, R)
  BY CompileIs
<1>3. \A i \in 1 .. n : C[e.args[i]].ok \in BOOLEAN
  BY <1>1, CompiledTyped
<1> HIDE DEF C, n
<1>4. DOMAIN R = 1 .. n /\ \A i \in 1 .. n : R[i] = C[e.args[i]]
  BY <1>1
<1>5. \A i \in 1 .. n : R[i].ok \in BOOLEAN
  BY <1>3, <1>4
<1> HIDE DEF R
<1>6. CASE \A i \in 1 .. n : R[i].ok
  <2> DEFINE p == [i \in 1 .. n |-> R[i].v.source]
             q == [i \in 1 .. n |-> R[i].v.compiled]
  <2>1. CompileParts(e.k, R) =
           Ok([source |-> [k |-> e.k, args |-> p], compiled |-> [k |-> e.k, args |-> q]])
    <3>1. DOMAIN R = 1 .. n /\ n \in Nat
      BY <1>1, <1>4
    <3>2. QED
      BY <3>1, <1>5, <1>6, PartsAre, ZenonT(40)
  <2>2. /\ p = [i \in 1 .. n |-> C[e.args[i]].v.source]
        /\ q = [i \in 1 .. n |-> C[e.args[i]].v.compiled]
    BY <1>4
  <2>3. \A i \in 1 .. n : C[e.args[i]].ok
    BY <1>4, <1>6
  <2> HIDE DEF p, q
  <2>4. /\ C[e].ok = TRUE /\ C[e].v.source = [k |-> e.k, args |-> p]
        /\ C[e].v.compiled = [k |-> e.k, args |-> q]
    BY <1>2, <2>1 DEF Ok
  <2>5. QED
    BY <2>2, <2>3, <2>4 DEF C, n
<1>7. CASE \E i \in 1 .. n : ~ R[i].ok
  <2>1. PartFails(e.k, n, R)
    BY <1>1, <1>4, <1>5, <1>7, PartsAre
  <2>2. PICK i \in 1 .. n : ~ R[i].ok /\ C[e] = Err(<<i>> \o R[i].path)
    BY <2>1, <1>2 DEF PartFails
  <2>3. C[e].ok = FALSE /\ C[e].path = <<i>> \o C[e.args[i]].path /\ ~ C[e.args[i]].ok
    BY <2>2, <1>4, Results, ZenonT(40)
  <2>4. QED
    BY <2>3 DEF C, n
<1>8. QED
  BY <1>6, <1>7

\* A size is a number.
LEMMA SizeTyped ==
    ASSUME NEW e \in Expressions
    PROVE  Size[e] \in Nat
<1> DEFINE P == {t \in Expressions : Size[t] \in Nat}
<1>1. ASSUME NEW t \in Expressions, t.k = "compare" PROVE t \in P
  <2>1. t \in Comparisons
    BY <1>1, ExpressionsLeafy, TreeShape DEF Expressions
  <2>2. t.value.json = "string" => t.value.text \in Texts
    BY <2>1 DEF Comparisons, Json
  <2>3. Size[t] = 1 + (IF t.value.json = "string" THEN TextSize(t.value.text) ELSE 1)
    BY <1>1, SizeIs
  <2>4. QED
    BY <2>2, <2>3, TextSizes
<1>2. ASSUME NEW t \in Expressions, t.k # "compare", \A i \in DOMAIN t.args : t.args[i] \in P
      PROVE  t \in P
  <2> DEFINE sizes == [i \in DOMAIN t.args |-> Size[t.args[i]]]
  <2>1. DOMAIN t.args = 1 .. Len(t.args) /\ Len(t.args) \in Nat
    BY <1>2, ExpressionsLeafy, TreeShape DEF Expressions
  <2>2. sizes \in [1 .. Len(t.args) -> Nat]
    BY <1>2, <2>1
  <2>3. sizes \in Seq(Nat)
    BY <2>1, <2>2, IsSequence
  <2>4. Size[t] = SumOf(sizes)
    BY <1>2, SizeIs
  <2> HIDE DEF sizes
  <2>5. PICK a \in [0 .. Len(sizes) -> Nat] : Size[t] = a[Len(sizes)]
    BY <2>3, <2>4, SumRounds
  <2>6. Len(sizes) \in 0 .. Len(sizes)
    BY <2>3
  <2>7. QED
    BY <2>5, <2>6
<1>3. \A t \in Expressions : t \in P
  <2> HIDE DEF P
  <2>1. QED
    BY <1>1, <1>2, ExpressionsLeafy, TreeInduction DEF Expressions
<1>4. QED
  BY <1>3

\* A sum of smaller numbers is smaller.
LEMMA SumUp ==
    ASSUME NEW n \in Nat, NEW s \in [1 .. n -> Nat], NEW u \in [1 .. n -> Nat],
           \A i \in 1 .. n : s[i] <= u[i]
    PROVE  SumOf(s) <= SumOf(u)
<1>1. s \in Seq(Nat) /\ Len(s) = n /\ u \in Seq(Nat) /\ Len(u) = n
  BY IsSequence
<1>2. PICK a \in [0 .. Len(s) -> Nat] :
         /\ a[0] = 1 /\ \A i \in 1 .. Len(s) : a[i] = a[i - 1] + s[i]
         /\ SumOf(s) = a[Len(s)]
  BY <1>1, SumRounds
<1>3. PICK b \in [0 .. Len(u) -> Nat] :
         /\ b[0] = 1 /\ \A i \in 1 .. Len(u) : b[i] = b[i - 1] + u[i]
         /\ SumOf(u) = b[Len(u)]
  BY <1>1, SumRounds
<1> DEFINE P == {i \in 0 .. n : a[i] <= b[i]}
<1>4. 0 \in P
  BY <1>2, <1>3
<1>5. ASSUME NEW m \in 0 .. n, m # n, m \in P PROVE m + 1 \in P
  <2>1. m + 1 \in 1 .. n /\ (m + 1) - 1 = m /\ m + 1 \in 0 .. n
    BY <1>5
  <2>2. a[m + 1] = a[m] + s[m + 1] /\ b[m + 1] = b[m] + u[m + 1]
    BY <2>1, <1>1, <1>2, <1>3
  <2>3. s[m + 1] \in Nat /\ u[m + 1] \in Nat /\ s[m + 1] <= u[m + 1] /\ a[m] \in Nat /\ b[m] \in Nat
    BY <2>1, <1>1, <1>2, <1>3
  <2>4. a[m] <= b[m]
    BY <1>5
  <2>5. a[m + 1] <= b[m + 1]
    BY <2>2, <2>3, <2>4
  <2>6. QED
    BY <2>1, <2>5
<1>6. n \in P
  <2> HIDE DEF P
  <2>1. \A m \in 0 .. n : m # n /\ m \in P => m + 1 \in P
    BY <1>5
  <2>2. n \in 0 .. n
    OBVIOUS
  <2>3. QED
    BY <1>4, <2>1, <2>2, Upwards
<1>7. a[n] <= b[n]
  BY <1>6
<1>8. QED
  BY <1>1, <1>2, <1>3, <1>7

\* visit looks at the kind of an expression and the number of its parts.
VisitOf(k, n, visits, depth, nodes) ==
    IF nodes + 1 > MaxNodes \/ depth > MaxDepth THEN Err(<<>>)
    ELSE IF k = "compare" THEN Ok(nodes + 1)
    ELSE IF k # "not" /\ n \notin 2 .. MaxChildren THEN Err(<<>>)
    ELSE Loop(n, Ok(nodes + 1),
              LAMBDA seen, i :
                 IF seen.ok THEN Inside(i, visits[i][depth + 1][seen.v]) ELSE seen)

LEMMA SameVisit ==
    ASSUME NEW e, NEW visits, NEW depth, NEW nodes
    PROVE  Visit(e, visits, depth, nodes) = VisitOf(e.k, Len(e.args), visits, depth, nodes)
BY DEF Visit, VisitOf

\* What the definitions say of an expression with given parts.
LEMMA CompileNode ==
    ASSUME NEW target, NEW e \in Expressions, NEW k, NEW args, k # "compare", e.k = k, e.args = args
    PROVE  compile_expression(target)[e] =
              CompileParts(k, [i \in DOMAIN args |-> compile_expression(target)[args[i]]])
<1>1. compile_expression(target)[e] =
        CompileParts(e.k, [i \in DOMAIN e.args |-> compile_expression(target)[e.args[i]]])
  BY CompileIs
<1>2. QED
  BY <1>1

VisitFrom(e, visits) ==
    [depth \in Nat |-> [nodes \in Nat |-> Visit(e, visits, depth, nodes)]]

Visits(args) == [i \in DOMAIN args |-> visit[args[i]]]

LEMMA VisitNode ==
    ASSUME NEW e \in Expressions, NEW args, e.k # "compare", e.args = args
    PROVE  visit[e] = VisitFrom(e, Visits(args))
<1> DEFINE b == [i \in DOMAIN e.args |-> visit[e.args[i]]]
<1>1. visit[e] = VisitFrom(e, b)
  BY VisitIs DEF VisitFrom
<1>2. b = Visits(args)
  BY DEF Visits
<1>3. QED
  BY <1>1, <1>2

\* What compilation stores is compiled to itself and is within the limits if what it
\* was made from is.
LEMMA Recompiled ==
    ASSUME NEW target, IsTarget(target), NEW e \in Expressions, compile_expression(target)[e].ok
    PROVE  LET source == compile_expression(target)[e].v.source
           IN  /\ source \in Expressions
               /\ compile_expression(target)[source] = compile_expression(target)[e]
               /\ Size[source] <= Size[e]
               /\ visit[source] = visit[e]
<1> DEFINE C == compile_expression(target)
           s(t) == C[t].v.source
           Same(t) == C[s(t)] = C[t] /\ Size[s(t)] <= Size[t] /\ visit[s(t)] = visit[t]
           P == {t \in Expressions : C[t].ok => Same(t)}
<1>1. ASSUME NEW t \in Expressions, t.k = "compare", C[t].ok PROVE Same(t)
  <2>1. t \in Comparisons /\ s(t) \in Expressions
    BY <1>1, ExpressionsLeafy, TreeShape, CompiledTyped DEF Expressions
  <2>2. C[t] = CompileComparison(t, target)
    BY <1>1, CompileIs
  <2>3. /\ s(t) \in Comparisons /\ CompileComparison(s(t), target) = CompileComparison(t, target)
        /\ LiteralSize(s(t).value) <= LiteralSize(t.value)
    BY <1>1, <2>1, <2>2, ComparisonIs
  <2> HIDE DEF s
  <2>4. s(t).k = "compare"
    BY <2>3 DEF Comparisons
  <2>5. C[s(t)] = CompileComparison(s(t), target)
    BY <2>1, <2>4, CompileIs
  <2>6. Size[t] = 1 + LiteralSize(t.value) /\ Size[s(t)] = 1 + LiteralSize(s(t).value)
    BY <1>1, <2>1, <2>4, SizeIs DEF LiteralSize
  <2>7. LiteralSize(t.value) \in Nat /\ LiteralSize(s(t).value) \in Nat
    <3>1. ASSUME NEW x \in Comparisons PROVE LiteralSize(x.value) \in Nat
      <4>1. x.value.json = "string" => x.value.text \in Texts
        BY <3>1 DEF Comparisons, Json
      <4>2. QED
        BY <4>1, TextSizes DEF LiteralSize
    <3>2. QED
      BY <3>1, <2>1, <2>3
  <2>8. Size[s(t)] <= Size[t]
    BY <2>3, <2>6, <2>7
  <2>9. visit[s(t)] = visit[t]
    <3> DEFINE V(x) == [depth \in Nat |-> [nodes \in Nat |-> Visit(x, <<>>, depth, nodes)]]
               W == [depth \in Nat |-> [nodes \in Nat |->
                       IF nodes + 1 > MaxNodes \/ depth > MaxDepth THEN Err(<<>>) ELSE Ok(nodes + 1)]]
    <3>1. visit[t] = V(t) /\ visit[s(t)] = V(s(t))
      BY <1>1, <2>1, <2>4, VisitIs, ZenonT(40)
    <3>2. V(t) = W /\ V(s(t)) = W
      <4>1. \A depth \in Nat, nodes \in Nat :
              /\ Visit(t, <<>>, depth, nodes) =
                   IF nodes + 1 > MaxNodes \/ depth > MaxDepth THEN Err(<<>>) ELSE Ok(nodes + 1)
              /\ Visit(s(t), <<>>, depth, nodes) =
                   IF nodes + 1 > MaxNodes \/ depth > MaxDepth THEN Err(<<>>) ELSE Ok(nodes + 1)
        BY <1>1, <2>4 DEF Visit
      <4>2. QED
        BY <4>1
    <3>3. QED
      BY <3>1, <3>2
  <2>10. QED
    BY <2>2, <2>3, <2>5, <2>8, <2>9
<1>2. ASSUME NEW t \in Expressions, t.k # "compare", \A i \in DOMAIN t.args : t.args[i] \in P, C[t].ok
      PROVE  Same(t)
  <2> DEFINE n == Len(t.args)
             A == [i \in 1 .. n |-> s(t.args[i])]
  <2>1. /\ DOMAIN t.args = 1 .. n /\ n \in Nat
        /\ \A i \in 1 .. n : t.args[i] \in Expressions
    BY <1>2, ExpressionsLeafy, TreeShape DEF Expressions
  <2>2. /\ \A i \in 1 .. n : C[t.args[i]].ok
        /\ s(t) = [k |-> t.k, args |-> A]
    BY <1>2, CompiledParts
  <2>3. \A i \in 1 .. n : Same(t.args[i]) /\ s(t.args[i]) \in Expressions
    BY <1>2, <2>1, <2>2, CompiledTyped
  <2>4. s(t) \in Expressions
    BY <1>2, CompiledTyped
  <2> HIDE DEF n, C
  <2>5. /\ s(t).k = t.k /\ s(t).args = A /\ DOMAIN A = 1 .. n
        /\ \A i \in 1 .. n : A[i] = s(t.args[i])
    BY <2>2
  <2>6. Len(A) = n
    BY <2>1, <2>5
  <2> HIDE DEF A, s
  <2>7. C[s(t)] = C[t]
    <3>1. C[t] = CompileParts(t.k, [i \in DOMAIN t.args |-> C[t.args[i]]])
      BY <1>2, CompileIs DEF C
    <3>2. C[s(t)] = CompileParts(t.k, [i \in DOMAIN A |-> C[A[i]]])
      <4> DEFINE u == s(t)
                 K == t.k
      <4>1. u \in Expressions /\ u.k = K /\ u.args = A /\ K # "compare"
        BY <1>2, <2>4, <2>5
      <4> HIDE DEF u, K
      <4>2. compile_expression(target)[u] =
              CompileParts(K, [i \in DOMAIN A |-> compile_expression(target)[A[i]]])
        BY <4>1, CompileNode
      <4>3. QED
        BY <4>2 DEF u, K, C
    <3>3. [i \in DOMAIN A |-> C[A[i]]] = [i \in DOMAIN t.args |-> C[t.args[i]]]
      BY <2>1, <2>3, <2>5
    <3>4. QED
      BY <3>1, <3>2, <3>3
  <2>8. Size[s(t)] <= Size[t]
    <3> DEFINE a == [i \in DOMAIN A |-> Size[A[i]]]
               b == [i \in DOMAIN t.args |-> Size[t.args[i]]]
    <3>1. Size[t] = SumOf(b) /\ Size[s(t)] = SumOf(a)
      BY <1>2, <2>4, <2>5, SizeIs
    <3>2. \A i \in 1 .. n : /\ Size[A[i]] \in Nat /\ Size[t.args[i]] \in Nat
                             /\ Size[A[i]] <= Size[t.args[i]]
      BY <2>1, <2>3, <2>5, SizeTyped
    <3>3. a \in [1 .. n -> Nat] /\ b \in [1 .. n -> Nat] /\ \A i \in 1 .. n : a[i] <= b[i]
      BY <2>1, <2>5, <3>2
    <3> HIDE DEF a, b
    <3>4. QED
      BY <2>1, <3>1, <3>3, SumUp
  <2>9. visit[s(t)] = visit[t]
    <3>1. Visits(A) = Visits(t.args)
      BY <2>1, <2>3, <2>5 DEF Visits
    <3>2. visit[t] = VisitFrom(t, Visits(t.args)) /\ visit[s(t)] = VisitFrom(s(t), Visits(A))
      BY <1>2, <2>4, <2>5, VisitNode
    <3>3. \A depth \in Nat, nodes \in Nat :
            Visit(s(t), Visits(A), depth, nodes) = Visit(t, Visits(A), depth, nodes)
      BY <2>5, <2>6, SameVisit DEF n
    <3>4. VisitFrom(s(t), Visits(A)) = VisitFrom(t, Visits(A))
      BY <3>3 DEF VisitFrom
    <3>5. QED
      BY <3>1, <3>2, <3>4
  <2>10. QED
    BY <2>7, <2>8, <2>9
<1>3. \A t \in Expressions : t \in P
  <2> HIDE DEF Same
  <2>1. /\ \A t \in Expressions : t.k = "compare" => t \in P
        /\ \A t \in Expressions : t.k # "compare" /\ (\A i \in DOMAIN t.args : t.args[i] \in P) => t \in P
    BY <1>1, <1>2
  <2> HIDE DEF P
  <2>2. QED
    BY <2>1, ExpressionsLeafy, TreeInduction DEF Expressions
<1>4. QED
  BY <1>3, CompiledTyped

-----------------------------------------------------------------------------
(* Targets and requests.                                                   *)

\* What parse_target_signature lets through.
LEMMA TargetIs ==
    ASSUME NEW r \in Requests, parse_target_signature(r.signature).ok
    PROVE  LET target == parse_target_signature(r.signature).v
           IN  /\ IsTarget(target)
               /\ target.params = Params(r.signature.inputs)
               /\ (target.kind = "event") = (r.signature.kind = "event")
<1> DEFINE s == r.signature
           inputs == s.inputs
           params == Params(inputs)
           kind == IF s.kind = "event" THEN "event" ELSE "call"
           target == [kind |-> kind, params |-> params]
           rejected == \/ s.kind \notin {"function", "event"}
                       \/ s.kind = "function" /\ params = <<>>
                       \/ s.kind = "event" /\ s.anonymous
                       \/ s.kind = "event" /\ Cardinality({i \in DOMAIN params : params[i].indexed}) > 3
                       \/ ~ WellNamed(inputs)
                       \/ \E i \in DOMAIN params : ~ ensure_supported_type(params[i].ty)
           Input == [name : STRING, ty : [t : STRING, n : Nat], indexed : BOOLEAN]
<1>1. parse_target_signature(s) = IF rejected THEN Err(<<>>) ELSE Ok(target)
  BY DEF parse_target_signature
<1>2. ~ rejected /\ parse_target_signature(s) = Ok(target)
  <2> HIDE DEF rejected, target
  <2>1. QED
    BY <1>1, Results
<1>3. /\ inputs \in Seq(Input)
      /\ \A i \in DOMAIN inputs :
            /\ inputs[i].ty.t = "fixed" => inputs[i].ty.n \in 1 .. WordLen
            /\ s.kind = "function" => ~ inputs[i].indexed
            /\ ensure_supported_type(inputs[i].ty) => AbiValues(params[i]) \subseteq ChainValues(inputs[i])
  BY RequestAssumption
<1>4. /\ DOMAIN inputs = 1 .. Len(inputs) /\ Len(inputs) \in Nat
      /\ \A i \in DOMAIN inputs : inputs[i] \in Input
  <2> HIDE DEF inputs, Input
  <2>1. inputs \in Seq(Input)
    BY <1>3
  <2>2. QED
    BY <2>1
<1>5. /\ DOMAIN params = DOMAIN inputs
      /\ \A i \in DOMAIN inputs : params[i] = [inputs[i] EXCEPT !.name = ParamName(inputs[i], i)]
  BY DEF Params
<1> HIDE DEF params, inputs
<1>6. \A i \in DOMAIN inputs : /\ params[i].ty = inputs[i].ty /\ params[i].indexed = inputs[i].indexed
                               /\ params[i].ty \in [t : STRING, n : Nat] /\ params[i].indexed \in BOOLEAN
                               /\ params[i].name = ParamName(inputs[i], i)
  BY <1>4, <1>5
<1>7. Len(params) = Len(inputs)
  <2>1. params = [i \in 1 .. Len(inputs) |-> params[i]]
    BY <1>4 DEF params, Params
  <2>2. QED
    BY <1>4, <1>5, <2>1
<1>8. \A i \in DOMAIN params : params[i].ty \in [t : Scalars, n : Nat]
  BY <1>2, <1>5, <1>6 DEF ensure_supported_type
<1>9. ASSUME NEW i \in DOMAIN inputs PROVE ChainValues(params[i]) = ChainValues(inputs[i])
  <2>1. ASSUME NEW x, NEW y, x.ty = y.ty, x.indexed = y.indexed, x.ty.t \in Scalars
        PROVE  ChainValues(x) = ChainValues(y)
    BY <2>1 DEF ChainValues, IsHashed, Scalars
  <2>2. QED
    BY <2>1, <1>5, <1>6, <1>8, <1>9
<1>10. \A i, j \in DOMAIN params : params[i].name = params[j].name => i = j
  <2> DEFINE f == [i \in DOMAIN inputs |-> Params(inputs)[i].name]
  <2>1. IsInjective(f)
    BY <1>2 DEF WellNamed
  <2>2. DOMAIN f = DOMAIN inputs /\ \A i \in DOMAIN inputs : f[i] = params[i].name
    BY DEF params
  <2> HIDE DEF f
  <2>3. QED
    BY <2>1, <2>2, <1>5 DEF IsInjective
<1>11. /\ target.kind = kind /\ target.params = params /\ kind \in {"event", "call"}
       /\ (kind = "event") = (s.kind = "event")
       /\ kind = "call" => s.kind = "function"
  BY <1>2
<1>12. IsTarget(target)
  <2> HIDE DEF target, kind, s
  <2>1. \A i \in DOMAIN params :
          /\ params[i].ty.t = "fixed" => params[i].ty.n \in 1 .. WordLen
          /\ kind = "call" => ~ params[i].indexed
          /\ AbiValues(params[i]) \subseteq ChainValues(params[i])
    BY <1>2, <1>3, <1>5, <1>6, <1>8, <1>9, <1>11 DEF ensure_supported_type
  <2>2. QED
    BY <2>1, <1>4, <1>5, <1>6, <1>7, <1>8, <1>10, <1>11 DEF IsTarget
<1>13. QED
  BY <1>2, <1>11, <1>12, Results DEF params, inputs, s

\* What prepare lets through, and that compile lets it through again.
LEMMA PreparedIs ==
    ASSUME NEW target, IsTarget(target), NEW e \in Expressions
    PROVE  LET result == prepare(e, target)
               C == compile_expression(target)
               source == result.v.definition.expression
           IN  result.ok =>
                     /\ C[e].ok /\ source = C[e].v.source /\ result.v.filter = C[e].v.compiled
                     /\ source \in Expressions /\ result.v.filter \in CompiledExpressions
                     /\ compile([version |-> FILTER_VERSION, expression |-> source], target)
                          = Ok(result.v.filter)
<1> DEFINE C == compile_expression(target)
           limits == validate_limits(e)
           s == C[e].v.source
           f == C[e].v.compiled
           good == Ok([definition |-> [version |-> FILTER_VERSION, expression |-> s], filter |-> f])
<1>1. prepare(e, target) = IF ~ limits.ok THEN limits ELSE IF ~ C[e].ok THEN C[e] ELSE good
  BY DEF prepare
<1>2. ASSUME limits.ok, C[e].ok
      PROVE  /\ good.ok = TRUE /\ good.v.definition.expression = s /\ good.v.filter = f
             /\ s \in Expressions /\ f \in CompiledExpressions
             /\ compile([version |-> FILTER_VERSION, expression |-> s], target) = Ok(f)
  <2>1. s \in Expressions /\ f \in CompiledExpressions
    BY <1>2, CompiledTyped
  <2>2. C[s] = C[e] /\ Size[s] <= Size[e] /\ visit[s] = visit[e]
    BY <1>2, Recompiled
  <2>3. ~ (Size[e] > MaxBytes) /\ limits = visit[e][1][0]
    BY <1>2 DEF validate_limits, Err
  <2>4. ~ (Size[s] > MaxBytes)
    BY <2>1, <2>2, <2>3, SizeTyped, LimitAssumption
  <2>5. validate_limits(s) = limits
    BY <2>2, <2>3, <2>4 DEF validate_limits
  <2> HIDE DEF C, limits, s, f
  <2>6. compile([version |-> FILTER_VERSION, expression |-> s], target) = Ok(f)
    BY <1>2, <2>2, <2>5 DEF compile, C, f
  <2>7. QED
    BY <2>1, <2>6 DEF Ok
<1> HIDE DEF C, limits, s, f, good
<1>3. QED
  BY <1>1, <1>2 DEF C, s, f

-----------------------------------------------------------------------------
(* The invariant: what the state says about the request.                   *)

TargetOf(r) == parse_target_signature(r.signature).v

Accepted(r) ==
    /\ parse_target_signature(r.signature).ok
    /\ r.filter # None => prepare(r.filter, TargetOf(r)).ok

SourceOf(r) == IF r.filter = None THEN None ELSE prepare(r.filter, TargetOf(r)).v.definition.expression
FilterOf(r) == IF r.filter = None THEN None ELSE prepare(r.filter, TargetOf(r)).v.filter

\* The row that a request gives, with some version.
IsRow(w, r) ==
    /\ Accepted(r)
    /\ w = [target |-> TargetOf(r), expression |-> SourceOf(r), version |-> w.version]
    /\ w.version \in IF r.filter = None THEN {None} ELSE {FILTER_VERSION, FILTER_VERSION + 1, None}

\* The context in which the worker evaluates a filter.
Context(target, it) ==
    [kind |-> target.kind, meta |-> it.meta,
     params |-> IF target.kind = "event"
                THEN EventDecode(target.params, EncodeLog(target.params, it.values))
                ELSE CallDecode(target.params, it.values)]

Verdict(r, it) == evaluate(FilterOf(r), Context(TargetOf(r), it))

RequestInv ==
    /\ request \in Requests \cup {None}
    /\ request = None => row = None /\ item = None /\ outcome.what = "new"

\* The answer to the request.
AnswerInv ==
    /\ outcome.what = "created" => Accepted(request)
    /\ outcome.what = "bad filter" =>
          /\ parse_target_signature(request.signature).ok /\ request.filter # None
          /\ ~ prepare(request.filter, TargetOf(request)).ok
          /\ outcome.path = prepare(request.filter, TargetOf(request)).path

\* The row and the compiled filter.
RowInv ==
    /\ row # None => IsRow(row, request)
    /\ (outcome.what = "loaded" \/ item # None) => IsRow(row, request) /\ filter = FilterOf(request)
    /\ outcome.what = "unloadable" => row.version # FILTER_VERSION

\* The last item.
ItemInv ==
    item # None =>
       /\ item.values = None \/ item.values \in ItemValues(TargetOf(request).params)
       /\ outcome.what =
             IF item.values = None THEN "skipped"
             ELSE IF ~ Verdict(request, item).ok THEN "failed"
             ELSE IF Verdict(request, item).v THEN "stored" ELSE "dropped"

Inv == RequestInv /\ AnswerInv /\ RowInv /\ ItemInv

\* A poll loads the filter that was accepted, unless the version was changed.
LEMMA LoadIs ==
    ASSUME NEW r \in Requests, NEW w, IsRow(w, r)
    PROVE  LET loaded == IF w.expression = None /\ w.version = None THEN Ok(None)
                         ELSE IF w.expression # None /\ w.version # None
                         THEN compile([version |-> w.version, expression |-> w.expression], w.target)
                         ELSE Err(<<>>)
           IN  /\ loaded.ok => loaded.v = FilterOf(r)
               /\ ~ loaded.ok => w.version # FILTER_VERSION
<1> DEFINE target == TargetOf(r)
<1>1. w.target = target /\ w.expression = SourceOf(r)
  BY DEF IsRow
<1>2. CASE r.filter = None
  <2>1. w.expression = None /\ w.version = None /\ FilterOf(r) = None
    BY <1>1, <1>2 DEF IsRow, SourceOf, FilterOf
  <2>2. QED
    BY <2>1, Results
<1>3. CASE r.filter # None
  <2>1. r.filter \in Expressions
    BY <1>3, RequestAssumption
  <2>2. IsTarget(target) /\ prepare(r.filter, target).ok
    BY <1>3, TargetIs DEF IsRow, Accepted, TargetOf
  <2>3. /\ SourceOf(r) \in Expressions /\ FilterOf(r) \in CompiledExpressions
        /\ compile([version |-> FILTER_VERSION, expression |-> SourceOf(r)], target) = Ok(FilterOf(r))
    <3> HIDE DEF target
    <3>1. QED
      BY <1>3, <2>1, <2>2, PreparedIs DEF SourceOf, FilterOf, target
  <2>4. w.expression # None /\ FILTER_VERSION # None
    BY <1>1, <2>3, NoneAssumption
  <2>5. CASE w.version = FILTER_VERSION
    BY <1>1, <2>3, <2>4, <2>5, Results
  <2>6. CASE w.version # FILTER_VERSION
    <3>1. compile([version |-> w.version, expression |-> w.expression], w.target) = Err(<<>>)
      BY <2>6 DEF compile
    <3>2. QED
      BY <2>4, <2>6, <3>1, Results
  <2>7. QED
    BY <2>5, <2>6
<1>4. QED
  BY <1>2, <1>3

\* Each action keeps the invariant.
LEMMA InitInv == Init => Inv
BY DEF Init, Inv, RequestInv, AnswerInv, RowInv, ItemInv

LEMMA CreateInv ==
    ASSUME Inv, request = None, NEW r \in Requests, Create(r)
    PROVE  Inv'
<1> DEFINE parsed == parse_target_signature(r.signature)
           prepared == prepare(r.filter, parsed.v)
           rejected == ~ parsed.ok \/ (r.filter # None /\ ~ prepared.ok)
           w == [target |-> parsed.v,
                 expression |-> IF r.filter = None THEN None ELSE prepared.v.definition.expression,
                 version |-> IF r.filter = None THEN None ELSE FILTER_VERSION]
<1>1. /\ request' = r /\ item' = None
      /\ row' = IF rejected THEN None ELSE w
      /\ outcome' = IF ~ rejected THEN [what |-> "created"]
                    ELSE IF ~ parsed.ok THEN [what |-> "bad signature"]
                    ELSE [what |-> "bad filter", path |-> prepared.path]
  BY DEF Create, Inv, RequestInv
<1>2. r # None
  BY NoneAssumption
<1>3. TargetOf(r) = parsed.v /\ Accepted(r) = ~ rejected
  BY DEF Accepted, TargetOf
<1> HIDE DEF parsed, prepared
<1>4. /\ outcome'.what \in {"created", "bad signature", "bad filter"}
      /\ outcome'.what = "created" => ~ rejected
      /\ outcome'.what = "bad filter" => /\ parsed.ok /\ r.filter # None /\ ~ prepared.ok
                                         /\ outcome'.path = prepared.path
  BY <1>1
<1>5. RequestInv'
  BY <1>1, <1>2 DEF RequestInv
<1>6. AnswerInv'
  BY <1>1, <1>3, <1>4 DEF AnswerInv, parsed, prepared
<1>7. ~ rejected => IsRow(w, r)
  BY <1>3 DEF IsRow, SourceOf, prepared
<1>8. RowInv' /\ ItemInv'
  <2> HIDE DEF w
  <2>1. row' # None => IsRow(row', r)
    BY <1>1, <1>7
  <2>2. QED
    BY <1>1, <1>4, <2>1 DEF RowInv, ItemInv
<1>9. QED
  BY <1>5, <1>6, <1>8 DEF Inv

LEMMA ChangeInv ==
    ASSUME Inv, NEW version \in {FILTER_VERSION + 1, None}, ChangeVersion(version)
    PROVE  Inv'
<1>1. /\ row # None /\ row.version = FILTER_VERSION /\ row' = [row EXCEPT !.version = version]
      /\ UNCHANGED <<request, filter, item, outcome>>
  BY DEF ChangeVersion
<1>2. IsRow(row, request)
  BY <1>1 DEF Inv, RowInv
<1>3. request.filter # None
  BY <1>1, <1>2, NoneAssumption DEF IsRow
<1>4. IsRow(row', request)
  <2>1. row = [target |-> TargetOf(request), expression |-> SourceOf(request), version |-> row.version]
    BY <1>2 DEF IsRow
  <2>2. row' = [target |-> TargetOf(request), expression |-> SourceOf(request), version |-> version]
    BY <1>1, <2>1
  <2>3. row'.version = version
    BY <2>2
  <2>4. QED
    BY <1>2, <1>3, <2>2, <2>3 DEF IsRow
<1>5. outcome.what # "unloadable"
  BY <1>1 DEF Inv, RowInv
<1>6. RequestInv' /\ AnswerInv' /\ ItemInv'
  BY <1>1 DEF Inv, RequestInv, AnswerInv, ItemInv
<1>7. RowInv'
  BY <1>1, <1>4, <1>5 DEF Inv, RowInv
<1>8. QED
  BY <1>6, <1>7 DEF Inv

LEMMA LoadInv ==
    ASSUME Inv, LoadMonitor
    PROVE  Inv'
<1> DEFINE loaded == IF row.expression = None /\ row.version = None THEN Ok(None)
                     ELSE IF row.expression # None /\ row.version # None
                     THEN compile([version |-> row.version, expression |-> row.expression], row.target)
                     ELSE Err(<<>>)
<1>1. /\ row # None
      /\ filter' = IF loaded.ok THEN loaded.v ELSE None
      /\ outcome' = [what |-> IF loaded.ok THEN "loaded" ELSE "unloadable"]
      /\ item' = None /\ UNCHANGED <<request, row>>
  BY DEF LoadMonitor
<1>2. IsRow(row, request) /\ request \in Requests /\ request # None
  BY <1>1, NoneAssumption DEF Inv, RowInv, RequestInv
<1>3. /\ loaded.ok => loaded.v = FilterOf(request)
      /\ ~ loaded.ok => row.version # FILTER_VERSION
  BY <1>2, LoadIs
<1> HIDE DEF loaded
<1>4. outcome'.what = IF loaded.ok THEN "loaded" ELSE "unloadable"
  BY <1>1
<1>5. RequestInv' /\ AnswerInv' /\ ItemInv'
  BY <1>1, <1>2, <1>4 DEF Inv, RequestInv, AnswerInv, ItemInv
<1>6. RowInv'
  BY <1>1, <1>2, <1>3, <1>4 DEF RowInv
<1>7. QED
  BY <1>5, <1>6 DEF Inv

LEMMA ItemStepInv ==
    ASSUME Inv, row # None, NEW meta, NEW values, IndexItem(meta, values),
           values = None \/ values \in ItemValues(row.target.params)
    PROVE  Inv'
<1>1. /\ outcome.what = "loaded" /\ UNCHANGED <<request, row, filter>>
      /\ item' = [meta |-> meta, values |-> values]
  BY DEF IndexItem
<1>2. IsRow(row, request) /\ filter = FilterOf(request) /\ row.target = TargetOf(request)
  BY <1>1 DEF Inv, RowInv, IsRow
<1> DEFINE target == TargetOf(request)
           verdict == evaluate(filter, Context(target, item'))
<1>3. item'.meta = meta /\ item'.values = values
  BY <1>1
<1>4. outcome' = [what |-> IF values = None THEN "skipped"
                           ELSE IF ~ verdict.ok THEN "failed"
                           ELSE IF verdict.v THEN "stored" ELSE "dropped"]
  BY <1>2, <1>3 DEF IndexItem, Context
<1>5. verdict = Verdict(request, item')
  BY <1>2 DEF Verdict
<1> HIDE DEF target, verdict
<1>6. outcome'.what = IF values = None THEN "skipped"
                      ELSE IF ~ verdict.ok THEN "failed"
                      ELSE IF verdict.v THEN "stored" ELSE "dropped"
  BY <1>4
<1>7. outcome'.what \in {"skipped", "failed", "stored", "dropped"}
  BY <1>6
<1>8. ItemInv'
  <2>1. item'.values = None \/ item'.values \in ItemValues(target.params)
    BY <1>2, <1>3 DEF target
  <2>2. outcome'.what = IF item'.values = None THEN "skipped"
                        ELSE IF ~ verdict.ok THEN "failed"
                        ELSE IF verdict.v THEN "stored" ELSE "dropped"
    BY <1>3, <1>6
  <2>3. request' = request
    BY <1>1
  <2>4. QED
    BY <1>5, <2>1, <2>2, <2>3 DEF ItemInv, target
<1>9. RequestInv' /\ AnswerInv'
  <2>1. request # None
    BY <1>1 DEF Inv, RequestInv
  <2>2. QED
    BY <1>1, <1>7, <2>1 DEF Inv, RequestInv, AnswerInv
<1>10. RowInv'
  BY <1>1, <1>2, <1>7 DEF Inv, RowInv
<1>11. QED
  BY <1>8, <1>9, <1>10 DEF Inv

\* The invariant holds.
THEOREM Invariance == Spec => []Inv
<1>1. ASSUME Inv, [Next]_vars PROVE Inv'
  <2>1. CASE UNCHANGED vars
    BY <1>1, <2>1 DEF vars, Inv, RequestInv, AnswerInv, RowInv, ItemInv
  <2>2. CASE request = None /\ \E r \in Requests : Create(r)
    BY <1>1, <2>2, CreateInv
  <2>3. CASE \E version \in {FILTER_VERSION + 1, None} : ChangeVersion(version)
    BY <1>1, <2>3, ChangeInv
  <2>4. CASE LoadMonitor
    BY <1>1, <2>4, LoadInv
  <2>5. CASE /\ row # None
             /\ \E meta \in Contexts :
                   \/ IndexItem(meta, None)
                   \/ \E values \in ItemValues(row.target.params) : IndexItem(meta, values)
    <3>1. PICK meta \in Contexts : \/ IndexItem(meta, None)
                                   \/ \E values \in ItemValues(row.target.params) : IndexItem(meta, values)
      BY <2>5
    <3>2. CASE IndexItem(meta, None)
      BY <1>1, <2>5, <3>2, ItemStepInv
    <3>3. CASE \E values \in ItemValues(row.target.params) : IndexItem(meta, values)
      BY <1>1, <2>5, <3>3, ItemStepInv
    <3>4. QED
      BY <3>1, <3>2, <3>3
  <2>6. QED
    BY <1>1, <2>1, <2>2, <2>3, <2>4, <2>5 DEF Next
<1>2. QED
  BY InitInv, <1>1, PTL DEF Spec

-----------------------------------------------------------------------------
(* Loading.                                                                *)

\* Distinct names: as many as there are parameters.
LEMMA NamesCount ==
    ASSUME NEW target, IsTarget(target)
    PROVE  LET names == {target.params[i].name : i \in DOMAIN target.params}
           IN  /\ IsFiniteSet(names) /\ Cardinality(names) = Len(target.params)
               /\ Len(target.params) \in Nat
<1> DEFINE params == target.params
           n == Len(params)
           names == {params[i].name : i \in DOMAIN params}
           f == [i \in 1 .. n |-> params[i].name]
<1>1. n \in Nat /\ DOMAIN params = 1 .. n
      /\ \A i, j \in DOMAIN params : params[i].name = params[j].name => i = j
  BY DEF IsTarget
<1>2. f \in [1 .. n -> names] /\ \A i \in 1 .. n : f[i] = params[i].name
  BY <1>1
<1>3. \A x \in names : \E i \in 1 .. n : f[i] = x
  BY <1>1, <1>2
<1> HIDE DEF f, names, n
<1>4. f \in Bijection(1 .. n, names)
  BY <1>1, <1>2, <1>3, Fun_IsBij
<1>5. IsFiniteSet(1 .. n) /\ Cardinality(1 .. n) = n
  BY <1>1, FS_Interval
<1>6. ExistsBijection(1 .. n, names)
  BY <1>4 DEF ExistsBijection
<1>7. IsFiniteSet(names) /\ Cardinality(names) = n
  BY <1>5, <1>6, FS_Bijection
<1>8. QED
  BY <1>1, <1>7 DEF names, n

\* A poll loads what was accepted when the monitor was created; the names of the
\* parameters of a stored monitor are distinct.
THEOREM LoadsAccepted == Spec => []LoadsWhatWasAccepted
<1>1. Inv => LoadsWhatWasAccepted
  <2> SUFFICES ASSUME Inv PROVE LoadsWhatWasAccepted
    OBVIOUS
  <2>1. ASSUME row # None
        PROVE  Cardinality({row.target.params[i].name : i \in DOMAIN row.target.params})
                  = Len(row.target.params)
    <3>1. request \in Requests /\ IsRow(row, request)
      BY <2>1 DEF Inv, RowInv, RequestInv
    <3>2. IsTarget(row.target)
      BY <3>1, TargetIs DEF IsRow, Accepted, TargetOf
    <3>3. QED
      BY <3>2, NamesCount
  <2>2. ASSUME outcome.what = "loaded", request.filter # None
        PROVE  filter = prepare(request.filter, row.target).v.filter
    <3>1. IsRow(row, request) /\ filter = FilterOf(request)
      BY <2>2 DEF Inv, RowInv
    <3>2. row.target = TargetOf(request)
      BY <3>1 DEF IsRow
    <3>3. QED
      BY <2>2, <3>1, <3>2 DEF FilterOf
  <2>3. outcome.what = "unloadable" => row.version # FILTER_VERSION
    BY DEF Inv, RowInv
  <2>4. QED
    BY <2>1, <2>2, <2>3 DEF LoadsWhatWasAccepted
<1>2. QED
  BY <1>1, Invariance, PTL

-----------------------------------------------------------------------------
(* Decoding.                                                               *)

Upto(s, i) == {j \in s : j <= i}

\* The place of a number in a set says which it is.
LEMMA Places ==
    ASSUME NEW n \in Nat, NEW s \in SUBSET (1 .. n), NEW i \in s
    PROVE  /\ Cardinality(Upto(s, i)) \in 1 .. Cardinality(s)
           /\ (CHOOSE k \in s : Cardinality(Upto(s, k)) = Cardinality(Upto(s, i))) = i
<1>1. IsFiniteSet(s)
  <2> DEFINE S == 1 .. n
  <2>1. IsFiniteSet(S)
    BY FS_Interval
  <2> HIDE DEF S
  <2>2. s \in SUBSET S
    BY DEF S
  <2>3. QED
    BY <2>1, <2>2, FS_Subset
<1>2. \A k \in s : /\ IsFiniteSet(Upto(s, k)) /\ Cardinality(Upto(s, k)) <= Cardinality(s)
                   /\ Cardinality(Upto(s, k)) \in Nat
  <2>1. ASSUME NEW k \in s PROVE /\ IsFiniteSet(Upto(s, k)) /\ Cardinality(Upto(s, k)) <= Cardinality(s)
                                 /\ Cardinality(Upto(s, k)) \in Nat
    <3>1. Upto(s, k) \in SUBSET s
      BY DEF Upto
    <3>2. QED
      BY <1>1, <3>1, FS_Subset, FS_CardinalityType
  <2>2. QED
    BY <2>1
<1>3. Cardinality(Upto(s, i)) \in 1 .. Cardinality(s)
  <2>1. Upto(s, i) # {}
    BY DEF Upto
  <2>2. Cardinality(Upto(s, i)) # 0
    BY <1>2, <2>1, FS_EmptySet
  <2>3. Cardinality(s) \in Nat
    BY <1>1, FS_CardinalityType
  <2>4. QED
    BY <1>2, <2>2, <2>3
<1>4. ASSUME NEW j \in s, NEW k \in s, j < k
      PROVE  Cardinality(Upto(s, j)) # Cardinality(Upto(s, k))
  <2>1. Upto(s, j) \in SUBSET Upto(s, k) /\ k \in Upto(s, k) /\ k \notin Upto(s, j)
    <3>1. \A m \in s : m \in Int
      OBVIOUS
    <3>2. j \in Int /\ k \in Int /\ \A m \in s : m <= j => m <= k
      BY <1>4, <3>1
    <3>3. ~ (k <= j) /\ k <= k
      BY <1>4, <3>2
    <3>4. QED
      BY <3>2, <3>3 DEF Upto
  <2> DEFINE S == Upto(s, k)
             T == Upto(s, j)
  <2>2. IsFiniteSet(S) /\ T \in SUBSET S /\ T # S
    BY <1>2, <2>1
  <2> HIDE DEF S, T
  <2>3. Cardinality(S) # Cardinality(T)
    BY <2>2, FS_Subset
  <2>4. QED
    BY <2>3 DEF S, T
<1>5. \A k \in s : Cardinality(Upto(s, k)) = Cardinality(Upto(s, i)) => k = i
  <2>1. \A k \in s : k \in Int /\ i \in Int
    OBVIOUS
  <2>2. QED
    BY <1>4, <2>1
<1>6. QED
  BY <1>3, <1>5

\* The values of the parameters, decoded.
Decoded(params, event, values) ==
    [i \in DOMAIN params |-> decode_value(params[i], event, values[i])]

\* Every value is decoded as the parameter that it is a value of, wherever the event
\* has put it.
LEMMA LogDecoded ==
    ASSUME NEW params, DOMAIN params = 1 .. Len(params), Len(params) \in Nat,
           \A i \in DOMAIN params : params[i].indexed \in BOOLEAN, NEW values
    PROVE  EventDecode(params, EncodeLog(params, values)) = Decoded(params, TRUE, values)
<1> DEFINE at(flag) == {i \in DOMAIN params : params[i].indexed = flag}
           place(s, n) == CHOOSE i \in s : Cardinality({j \in s : j <= i}) = n
           topics == [n \in 1 .. Cardinality(at(TRUE)) |-> values[place(at(TRUE), n)]]
           data == [n \in 1 .. Cardinality(at(FALSE)) |-> values[place(at(FALSE), n)]]
           nth(i) == Cardinality({j \in 1 .. i : params[j].indexed = params[i].indexed})
           log == EncodeLog(params, values)
<1>1. /\ \A n \in 1 .. Cardinality(at(TRUE)) : log.topics[n] = values[place(at(TRUE), n)]
      /\ \A n \in 1 .. Cardinality(at(FALSE)) : log.data[n] = values[place(at(FALSE), n)]
  <2>1. log.topics = topics /\ log.data = data
    BY DEF EncodeLog
  <2> HIDE DEF log, at, place
  <2>2. QED
    BY <2>1
<1>2. ASSUME NEW i \in DOMAIN params, NEW flag \in BOOLEAN, params[i].indexed = flag
      PROVE  nth(i) \in 1 .. Cardinality(at(flag)) /\ place(at(flag), nth(i)) = i
  <2> DEFINE s == at(flag)
  <2>1. s \in SUBSET (1 .. Len(params)) /\ i \in s
    BY <1>2
  <2>2. {j \in 1 .. i : params[j].indexed = params[i].indexed} = Upto(s, i)
    BY <1>2 DEF Upto
  <2>3. \A k : {j \in s : j <= k} = Upto(s, k)
    BY DEF Upto
  <2> HIDE DEF s
  <2>4. /\ Cardinality(Upto(s, i)) \in 1 .. Cardinality(s)
        /\ (CHOOSE k \in s : Cardinality(Upto(s, k)) = Cardinality(Upto(s, i))) = i
    BY <2>1, Places
  <2>5. (CHOOSE k \in s : Cardinality({j \in s : j <= k}) = Cardinality(Upto(s, i))) = i
    BY <2>3, <2>4
  <2>6. nth(i) = Cardinality(Upto(s, i))
    BY <2>2
  <2>7. QED
    BY <2>4, <2>5, <2>6 DEF s
<1>3. ASSUME NEW i \in DOMAIN params
      PROVE  (IF params[i].indexed THEN log.topics[nth(i)] ELSE log.data[nth(i)]) = values[i]
  <2> HIDE DEF log, nth, at, place
  <2>1. CASE params[i].indexed
    <3>1. params[i].indexed = TRUE
      BY <2>1
    <3>2. nth(i) \in 1 .. Cardinality(at(TRUE)) /\ place(at(TRUE), nth(i)) = i
      BY <3>1, <1>2
    <3>3. QED
      <4> DEFINE s == at(TRUE)
      <4> HIDE DEF s
      <4>1. log.topics[nth(i)] = values[place(s, nth(i))]
        BY <1>1, <3>2 DEF s
      <4>2. QED
        BY <4>1, <2>1, <3>2 DEF s
  <2>2. CASE ~ params[i].indexed
    <3>1. params[i].indexed = FALSE
      BY <2>2
    <3>2. nth(i) \in 1 .. Cardinality(at(FALSE)) /\ place(at(FALSE), nth(i)) = i
      BY <3>1, <1>2
    <3>3. QED
      <4> DEFINE s == at(FALSE)
      <4> HIDE DEF s
      <4>1. log.data[nth(i)] = values[place(s, nth(i))]
        BY <1>1, <3>2 DEF s
      <4>2. QED
        BY <4>1, <2>2, <3>2 DEF s
  <2>3. QED
    BY <2>1, <2>2
<1>4. EventDecode(params, log) =
        [i \in DOMAIN params |->
           decode_value(params[i], TRUE, IF params[i].indexed THEN log.topics[nth(i)] ELSE log.data[nth(i)])]
  BY DEF EventDecode
<1>5. QED
  <2> HIDE DEF log, nth
  <2>1. QED
    BY <1>3, <1>4 DEF log, Decoded

\* What the worker evaluates a filter on.
LEMMA ContextIs ==
    ASSUME NEW target, IsTarget(target), NEW it
    PROVE  Context(target, it) =
             [kind |-> target.kind, meta |-> it.meta,
              params |-> Decoded(target.params, target.kind = "event", it.values)]
<1>1. EventDecode(target.params, EncodeLog(target.params, it.values)) = Decoded(target.params, TRUE, it.values)
  BY LogDecoded DEF IsTarget
<1>2. CallDecode(target.params, it.values) = Decoded(target.params, FALSE, it.values)
  BY DEF CallDecode, Decoded
<1>3. CASE target.kind = "event"
  <2>1. (target.kind = "event") = TRUE
    BY <1>3
  <2>2. QED
    BY <1>1, <2>1 DEF Context
<1>4. CASE target.kind # "event"
  <2>1. (target.kind = "event") = FALSE
    BY <1>4
  <2>2. QED
    BY <1>2, <2>1 DEF Context
<1>5. QED
  BY <1>3, <1>4

-----------------------------------------------------------------------------
(* Evaluation.                                                             *)

\* The variant of FilterValue for a type.
Tag(ty) ==
    CASE ty.t = "uint" -> "Uint" [] ty.t = "int" -> "Int" [] ty.t = "bool" -> "Bool"
      [] ty.t = "address" -> "Address" [] ty.t = "string" -> "String" [] ty.t = "bytes" -> "Bytes"

\* A literal means what it compiles to.
LEMMA LiteralMeans ==
    ASSUME NEW ty \in ValueTypes, NEW json \in Json, IsTyped(ty, json)
    PROVE  Literal(ty, json) = <<Tag(ty), LiteralMeaning(json, ty.t = "string")>>
<1>1. CASE ty.t \in {"uint", "int"}
  <2>1. IsText(json, "dec") /\ Fits(ty, json.text)
    BY <1>1 DEF IsTyped
  <2>2. json.text.neg \in BOOLEAN /\ json.text.mag \in Nat /\ json.text.form = "dec" /\ json.json = "string"
    BY <2>1, DecimalTexts
  <2>3. LiteralMeaning(json, ty.t = "string") = Signed(json.text)
    BY <1>1, <2>2 DEF LiteralMeaning
  <2>4. ty.t = "uint" => json.text.mag = Signed(json.text)
    BY <2>1 DEF Fits, Signed
  <2>5. QED
    BY <1>1, <2>3, <2>4 DEF Literal, Tag
<1>2. CASE ty.t = "bool"
  BY <1>2 DEF IsTyped, Literal, Tag, LiteralMeaning
<1>3. CASE ty.t \in {"address", "bytes"}
  <2>1. IsText(json, "hex")
    BY <1>3 DEF IsTyped, IsBytes
  <2>2. json.text.form = "hex" /\ json.json = "string"
    BY <2>1 DEF IsText
  <2>3. LiteralMeaning(json, ty.t = "string") = json.text.bytes
    BY <1>3, <2>2 DEF LiteralMeaning
  <2>4. QED
    BY <1>3, <2>3 DEF Literal, Tag
<1>4. CASE ty.t = "string"
  <2>1. json.json = "string"
    BY <1>4 DEF IsTyped
  <2>2. LiteralMeaning(json, ty.t = "string") = json.text
    BY <1>4, <2>1 DEF LiteralMeaning
  <2>3. QED
    BY <1>4, <2>2 DEF Literal, Tag
<1>5. QED
  BY <1>1, <1>2, <1>3, <1>4 DEF ValueTypes

\* A value on chain means what it is decoded to.
LEMMA ValueMeans ==
    ASSUME NEW param, param.ty \in [t : Scalars, n : Nat], param.indexed \in BOOLEAN,
           NEW event \in BOOLEAN, NEW v
    PROVE  decode_value(param, event, v) =
             <<Tag(value_type(param, event)),
               IF param.ty.t = "fixed" THEN SubSeq(v, 1, param.ty.n) ELSE v>>
<1>1. param.ty.t \in Scalars
  OBVIOUS
<1>2. CASE IsHashed(param, event)
  <2>1. param.ty.t \in {"string", "bytes"}
    BY <1>2 DEF IsHashed
  <2>2. value_type(param, event).t = "bytes"
    BY <1>2 DEF value_type
  <2>3. decode_value(param, event, v) = <<"Bytes", v>>
    BY <1>2 DEF decode_value
  <2>4. QED
    BY <2>1, <2>2, <2>3 DEF Tag
<1>3. CASE ~ IsHashed(param, event)
  <2>1. value_type(param, event) = CASE param.ty.t = "fixed"    -> [t |-> "bytes", n |-> param.ty.n]
                                     [] param.ty.t = "function" -> [t |-> "bytes", n |-> FunctionLen]
                                     [] param.ty.t = "bytes"    -> [t |-> "bytes", n |-> 0]
                                     [] OTHER                   -> param.ty
    BY <1>3 DEF value_type
  <2>2. decode_value(param, event, v) =
          CASE param.ty.t = "fixed"     -> <<"Bytes", SubSeq(v, 1, param.ty.n)>>
            [] param.ty.t = "uint"      -> <<"Uint", v>>
            [] param.ty.t = "int"       -> <<"Int", v>>
            [] param.ty.t = "bool"      -> <<"Bool", v>>
            [] param.ty.t = "address"   -> <<"Address", v>>
            [] param.ty.t = "string"    -> <<"String", v>>
            [] param.ty.t \in {"bytes", "function"} -> <<"Bytes", v>>
    BY <1>3 DEF decode_value
  <2>3. CASE param.ty.t \in {"fixed", "bytes", "function"}
    <3>1. value_type(param, event).t = "bytes"
      BY <2>1, <2>3
    <3>2. Tag(value_type(param, event)) = "Bytes"
      BY <3>1 DEF Tag
    <3>3. QED
      BY <2>2, <2>3, <3>2
  <2>4. CASE param.ty.t \notin {"fixed", "bytes", "function"}
    <3>1. value_type(param, event) = param.ty
      BY <2>1, <2>4
    <3>2. QED
      BY <1>1, <2>2, <2>4, <3>1 DEF Tag, Scalars
  <2>5. QED
    BY <2>3, <2>4
<1>4. QED
  BY <1>2, <1>3

\* The field of a comparison has, in the context, the value that its author means.
LEMMA FieldMeans ==
    ASSUME NEW target, IsTarget(target), NEW field \in [param : BOOLEAN, name : STRING],
           resolve_field(target, field).ok, NEW leaf, leaf.name = field.name,
           leaf.index = resolve_field(target, field).v.index, NEW ctx, ctx.kind = target.kind,
           ctx.meta = item.meta,
           ctx.params = Decoded(target.params, target.kind = "event", item.values)
    PROVE  LET ty == resolve_field(target, field).v.ty
           IN  /\ resolve_value(leaf, ctx) = Ok(<<Tag(ty), FieldMeaning(target.params, field)>>)
               /\ (ty.t = "string") = IsPlainText(target.params, target.kind = "event", field)
<1> DEFINE ty == resolve_field(target, field).v.ty
           i == resolve_field(target, field).v.index
           params == target.params
           event == target.kind = "event"
<1>1. /\ i \in Nat /\ ty \in ValueTypes
      /\ ~ field.param => i = 0 /\ field.name \in Metadata(target.kind) /\ ty = MetadataType(field.name)
      /\ field.param => i \in DOMAIN params /\ params[i].name = field.name
                        /\ ty = value_type(params[i], event)
  BY FieldIs
<1>2. /\ DOMAIN params = 1 .. Len(params)
      /\ \A j \in DOMAIN params : params[j].ty \in [t : Scalars, n : Nat] /\ params[j].indexed \in BOOLEAN
      /\ \A j, k \in DOMAIN params : params[j].name = params[k].name => j = k
  BY DEF IsTarget
<1> HIDE DEF ty, i, params
<1>3. leaf.index = i
  BY DEF i
<1>4. CASE ~ field.param
  <2> DEFINE name == field.name
  <2>1. /\ leaf.index = 0 /\ leaf.name = name /\ name \in Metadata(ctx.kind)
        /\ ty = MetadataType(name) /\ ctx.meta[name] = item.meta[name]
    BY <1>1, <1>3, <1>4
  <2>2. name \in {"block_number", "tx_hash", "from", "to", "emitter", "log_index"}
    BY <2>1 DEF Metadata
  <2> HIDE DEF name
  <2>3. resolve_value(leaf, ctx) = Ok(<<Tag(ty), item.meta[name]>>)
    <3>1. CASE name \in {"block_number", "log_index"}
      <4>1. Tag(ty) = "Uint"
        BY <2>1, <3>1 DEF MetadataType, U64, Tag
      <4>2. resolve_value(leaf, ctx) = Ok(<<"Uint", item.meta[name]>>)
        BY <2>1, <3>1 DEF resolve_value
      <4>3. QED
        BY <4>1, <4>2
    <3>2. CASE name = "tx_hash"
      <4>1. Tag(ty) = "Bytes"
        BY <2>1, <3>2 DEF MetadataType, Tag
      <4>2. resolve_value(leaf, ctx) = Ok(<<"Bytes", item.meta[name]>>)
        BY <2>1, <3>2 DEF resolve_value
      <4>3. QED
        BY <4>1, <4>2
    <3>3. CASE name \in {"from", "to", "emitter"}
      <4>1. Tag(ty) = "Address"
        BY <2>1, <3>3 DEF MetadataType, Address, Tag
      <4>2. resolve_value(leaf, ctx) = Ok(<<"Address", item.meta[name]>>)
        BY <2>1, <3>3 DEF resolve_value
      <4>3. QED
        BY <4>1, <4>2
    <3>4. QED
      BY <2>2, <3>1, <3>2, <3>3
  <2>4. FieldMeaning(params, field) = item.meta[name]
    BY <1>4 DEF FieldMeaning, name
  <2>5. IsPlainText(params, event, field) = FALSE
    BY <1>4 DEF IsPlainText
  <2>6. ty.t # "string"
    BY <2>1, <2>2 DEF MetadataType, U64, Address
  <2>7. QED
    BY <2>3, <2>4, <2>5, <2>6 DEF ty, params
<1>5. CASE field.param
  <2>1. i \in DOMAIN params /\ params[i].name = field.name /\ ty = value_type(params[i], event) /\ i # 0
    BY <1>1, <1>2, <1>5
  <2> DEFINE v == item.values[i]
             m == IF params[i].ty.t = "fixed" THEN SubSeq(v, 1, params[i].ty.n) ELSE v
  <2>2. ctx.params = Decoded(params, event, item.values)
    BY DEF params
  <2>3. i \in DOMAIN ctx.params /\ ctx.params[i] = decode_value(params[i], event, v)
    BY <2>1, <2>2 DEF Decoded
  <2>4. resolve_value(leaf, ctx) = Ok(ctx.params[i])
    BY <1>3, <2>1, <2>3 DEF resolve_value
  <2>5. decode_value(params[i], event, v) = <<Tag(ty), m>>
    <3>1. event \in BOOLEAN
      OBVIOUS
    <3> HIDE DEF event, v
    <3>2. QED
      BY <1>2, <2>1, <3>1, ValueMeans
  <2>6. (CHOOSE j \in DOMAIN params : params[j].name = field.name) = i
    BY <1>2, <2>1
  <2>7. FieldMeaning(params, field) = m
    <3> DEFINE c == CHOOSE j \in DOMAIN params : params[j].name = field.name
    <3>1. FieldMeaning(params, field) =
            IF params[c].ty.t = "fixed" THEN SubSeq(item.values[c], 1, params[c].ty.n) ELSE item.values[c]
      BY <1>5 DEF FieldMeaning
    <3>2. c = i
      BY <2>6
    <3> HIDE DEF c
    <3>3. QED
      BY <3>1, <3>2
  <2>8. IsPlainText(params, event, field) = (params[i].ty.t = "string" /\ ~ IsHashed(params[i], event))
    BY <1>2, <1>5, <2>1 DEF IsPlainText
  <2>9. (ty.t = "string") = (params[i].ty.t = "string" /\ ~ IsHashed(params[i], event))
    <3>1. CASE IsHashed(params[i], event)
      BY <2>1, <3>1 DEF value_type
    <3>2. CASE ~ IsHashed(params[i], event) /\ params[i].ty.t \in {"fixed", "function", "bytes"}
      BY <2>1, <3>2 DEF value_type
    <3>3. CASE ~ IsHashed(params[i], event) /\ params[i].ty.t \notin {"fixed", "function", "bytes"}
      <4>1. ty = params[i].ty
        BY <2>1, <3>3 DEF value_type
      <4>2. QED
        BY <3>3, <4>1
    <3>4. QED
      BY <3>1, <3>2, <3>3
  <2> HIDE DEF m, event
  <2>10. QED
    BY <2>3, <2>4, <2>5, <2>7, <2>8, <2>9 DEF ty, params, event
<1>6. QED
  BY <1>4, <1>5

\* A comparison means what it evaluates to.
LEMMA LeafMeans ==
    ASSUME NEW target, IsTarget(target), NEW e \in Comparisons, CompileComparison(e, target).ok,
           NEW ctx, ctx.kind = target.kind, ctx.meta = item.meta,
           ctx.params = Decoded(target.params, target.kind = "event", item.values)
    PROVE  EvaluateComparison(CompileComparison(e, target).v.compiled, ctx) =
             Ok(Apply(FieldMeaning(target.params, e.field), e.op,
                      LiteralMeaning(e.value, IsPlainText(target.params, target.kind = "event", e.field))))
<1> DEFINE field == resolve_field(target, e.field)
           ty == field.v.ty
           leaf == [k |-> "compare", name |-> e.field.name, index |-> field.v.index,
                    op |-> e.op, value |-> Literal(ty, e.value)]
           good == field.ok /\ ~ (ordered(e.op) /\ ty.t \notin {"uint", "int"}) /\ IsTyped(ty, e.value)
           source == [e EXCEPT !.value = Canonical(ty, e.value)]
           a == FieldMeaning(target.params, e.field)
           b == LiteralMeaning(e.value, ty.t = "string")
<1>1. CompileComparison(e, target) =
         IF good THEN Ok([source |-> source, compiled |-> leaf]) ELSE Err(<<>>)
  BY DEF CompileComparison, parse_value, Ok, Err
<1>2. good /\ CompileComparison(e, target).v.compiled = leaf
  BY <1>1 DEF Ok, Err
<1>3. e.field \in [param : BOOLEAN, name : STRING] /\ e.value \in Json
  BY DEF Comparisons
<1>4. ty \in ValueTypes
  BY <1>2, <1>3, FieldIs
<1>5. /\ resolve_value(leaf, ctx) = Ok(<<Tag(ty), a>>)
      /\ (ty.t = "string") = IsPlainText(target.params, target.kind = "event", e.field)
  <2>1. leaf.name = e.field.name /\ leaf.index = field.v.index /\ field.ok
    BY <1>2
  <2> HIDE DEF leaf, ty, a
  <2>2. QED
    BY <1>3, <2>1, FieldMeans DEF ty, a
<1>6. leaf.value = <<Tag(ty), b>> /\ leaf.op = e.op
  BY <1>2, <1>3, <1>4, LiteralMeans
<1> HIDE DEF leaf, ty, a, b
<1>7. EvaluateComparison(leaf, ctx) = compare(<<Tag(ty), a>>, e.op, <<Tag(ty), b>>)
  BY <1>5, <1>6 DEF EvaluateComparison, Ok
<1>8. compare(<<Tag(ty), a>>, e.op, <<Tag(ty), b>>) = Ok(Apply(a, e.op, b))
  BY DEF compare
<1>9. QED
  BY <1>2, <1>5, <1>7, <1>8 DEF a, b

\* A comparison is true or false.
LEMMA ApplyTyped ==
    ASSUME NEW a, NEW b, NEW op \in Ops
    PROVE  Apply(a, op, b) \in BOOLEAN
<1>1. CASE op = "eq"
  BY <1>1 DEF Apply
<1>2. CASE op = "ne"
  BY <1>2 DEF Apply
<1>3. CASE op = "gt"
  BY <1>3 DEF Apply
<1>4. CASE op = "gte"
  BY <1>4 DEF Apply
<1>5. CASE op = "lt"
  BY <1>5 DEF Apply
<1>6. CASE op = "lte"
  BY <1>6 DEF Apply
<1>7. QED
  BY <1>1, <1>2, <1>3, <1>4, <1>5, <1>6 DEF Ops

\* Evaluation in order, up to the first part that decides, gives the connective.
LEMMA ConnectiveIs ==
    ASSUME NEW n \in Nat, NEW h \in [1 .. n -> BOOLEAN], NEW k \in {"not", "and", "or"},
           k = "not" => n = 1, NEW parts, DOMAIN parts = 1 .. n, \A i \in 1 .. n : parts[i] = Ok(h[i])
    PROVE  EvaluateParts(k, parts) = Ok(Connective(k, h)) /\ Connective(k, h) \in BOOLEAN
<1>1. /\ \A i \in 1 .. n : parts[i].ok = TRUE /\ parts[i].v = h[i]
      /\ DOMAIN h = 1 .. n
  BY Results
<1>2. CASE k = "not"
  <2>1. 1 \in 1 .. n /\ h[1] \in BOOLEAN
    BY <1>2
  <2>2. EvaluateParts(k, parts) = Ok(~ parts[1].v)
    BY <1>1, <1>2, <2>1 DEF EvaluateParts
  <2>3. Connective(k, h) = ~ h[1]
    BY <1>2 DEF Connective
  <2>4. QED
    BY <1>1, <2>1, <2>2, <2>3
<1>3. CASE k # "not"
  <2> DEFINE or == k = "or"
             stops == {i \in DOMAIN parts : ~ parts[i].ok \/ parts[i].v = or}
  <2>1. EvaluateParts(k, parts) = IF stops # {} THEN parts[Min(stops)] ELSE Ok(k = "and")
    BY <1>3 DEF EvaluateParts
  <2>2. or \in BOOLEAN /\ (k = "and") = ~ or
    BY <1>3
  <2>3. Connective(k, h) = IF or THEN \E i \in 1 .. n : h[i] ELSE \A i \in 1 .. n : h[i]
    BY <1>1, <1>3 DEF Connective
  <2> HIDE DEF or
  <2>4. stops = {i \in 1 .. n : h[i] = or}
    BY <1>1
  <2> HIDE DEF stops
  <2>5. CASE stops # {}
    <3> DEFINE m == Min(stops)
    <3>1. m \in stops
      <4>1. stops \in SUBSET Nat
        BY <2>4
      <4>2. QED
        BY <2>5, <4>1, MinIs
    <3> HIDE DEF m
    <3>2. m \in 1 .. n /\ h[m] = or
      BY <2>4, <3>1
    <3>3. EvaluateParts(k, parts) = Ok(or)
      BY <2>1, <2>5, <3>2 DEF m
    <3>4. Connective(k, h) = or
      <4>1. CASE or = TRUE
        BY <2>3, <3>2, <4>1
      <4>2. CASE or = FALSE
        BY <2>3, <3>2, <4>2
      <4>3. QED
        BY <2>2, <4>1, <4>2
    <3>5. QED
      BY <2>2, <3>3, <3>4
  <2>6. CASE stops = {}
    <3>1. \A i \in 1 .. n : h[i] = ~ or
      <4>1. \A i \in 1 .. n : h[i] \in BOOLEAN /\ h[i] # or
        BY <2>4, <2>6
      <4>2. QED
        BY <2>2, <4>1
    <3>2. EvaluateParts(k, parts) = Ok(k = "and")
      BY <2>1, <2>6
    <3>3. Connective(k, h) = ~ or
      <4>1. CASE or = TRUE
        BY <2>3, <3>1, <4>1
      <4>2. CASE or = FALSE
        BY <2>3, <3>1, <4>2
      <4>3. QED
        BY <2>2, <4>1, <4>2
    <3>4. QED
      BY <2>2, <3>2, <3>3
  <2>7. QED
    BY <2>5, <2>6
<1>4. QED
  BY <1>2, <1>3

\* What the definitions say of an expression with given parts.
LEMMA MeaningNode ==
    ASSUME NEW params, NEW event, NEW e \in Expressions, e.k # "compare", NEW n, DOMAIN e.args = 1 .. n
    PROVE  Meaning(params, event)[e] =
              Connective(e.k, [i \in 1 .. n |-> Meaning(params, event)[e.args[i]]])
<1>1. Meaning(params, event)[e] =
        Connective(e.k, [i \in DOMAIN e.args |-> Meaning(params, event)[e.args[i]]])
  BY MeaningIs, ZenonT(40)
<1>2. QED
  BY <1>1

LEMMA MeaningLeaf ==
    ASSUME NEW params, NEW event, NEW e \in Expressions, e.k = "compare"
    PROVE  Meaning(params, event)[e] =
              Apply(FieldMeaning(params, e.field), e.op,
                    LiteralMeaning(e.value, IsPlainText(params, event, e.field)))
BY MeaningIs

LEMMA EvaluateNode ==
    ASSUME NEW ctx, NEW f \in CompiledExpressions, NEW k, NEW args, k # "compare", f.k = k, f.args = args
    PROVE  EvaluateExpression(ctx)[f] =
              EvaluateParts(k, [i \in DOMAIN args |-> EvaluateExpression(ctx)[args[i]]])
<1>1. EvaluateExpression(ctx)[f] =
        EvaluateParts(f.k, [i \in DOMAIN f.args |-> EvaluateExpression(ctx)[f.args[i]]])
  BY EvaluateIs
<1>2. QED
  BY <1>1

\* A compiled expression holds exactly if the expression does, and does not fail.
LEMMA TreeMeans ==
    ASSUME NEW target, IsTarget(target), NEW e \in Expressions, compile_expression(target)[e].ok,
           NEW ctx, ctx.kind = target.kind, ctx.meta = item.meta,
           ctx.params = Decoded(target.params, target.kind = "event", item.values)
    PROVE  LET holds == Meaning(target.params, target.kind = "event")[e]
           IN  /\ EvaluateExpression(ctx)[compile_expression(target)[e].v.compiled] = Ok(holds)
               /\ holds \in BOOLEAN
<1> DEFINE C == compile_expression(target)
           f(t) == C[t].v.compiled
           H == Meaning(target.params, target.kind = "event")
           E == EvaluateExpression(ctx)
           Same(t) == E[f(t)] = Ok(H[t]) /\ H[t] \in BOOLEAN
           P == {t \in Expressions : C[t].ok => Same(t)}
<1>1. ASSUME NEW t \in Expressions, t.k = "compare", C[t].ok PROVE Same(t)
  <2>1. t \in Comparisons /\ f(t) \in CompiledExpressions
    BY <1>1, ExpressionsLeafy, TreeShape, CompiledTyped DEF Expressions
  <2>2. C[t] = CompileComparison(t, target)
    BY <1>1, CompileIs
  <2>3. f(t) \in CompiledComparisons
    BY <1>1, <2>1, <2>2, ComparisonIs
  <2>4. f(t).k = "compare"
    BY <2>3 DEF CompiledComparisons
  <2> DEFINE value == Apply(FieldMeaning(target.params, t.field), t.op,
                LiteralMeaning(t.value, IsPlainText(target.params, target.kind = "event", t.field)))
  <2>5. EvaluateComparison(f(t), ctx) = Ok(value)
    BY <1>1, <2>1, <2>2, LeafMeans
  <2>6. H[t] = value
    <3> DEFINE event == target.kind = "event"
    <3> HIDE DEF event
    <3>1. Meaning(target.params, event)[t] =
            Apply(FieldMeaning(target.params, t.field), t.op,
                  LiteralMeaning(t.value, IsPlainText(target.params, event, t.field)))
      BY <1>1, MeaningLeaf
    <3>2. QED
      BY <3>1 DEF event
  <2>7. value \in BOOLEAN
    BY <2>1, ApplyTyped DEF Comparisons
  <2> HIDE DEF value, f, H
  <2>8. E[f(t)] = EvaluateComparison(f(t), ctx)
    BY <2>1, <2>4, EvaluateIs
  <2>9. QED
    BY <2>5, <2>6, <2>7, <2>8
<1>2. ASSUME NEW t \in Expressions, t.k # "compare", \A i \in DOMAIN t.args : t.args[i] \in P, C[t].ok
      PROVE  Same(t)
  <2> DEFINE n == Len(t.args)
             k == t.k
             A == [i \in 1 .. n |-> f(t.args[i])]
             h == [i \in 1 .. n |-> H[t.args[i]]]
             parts == [i \in DOMAIN A |-> E[A[i]]]
  <2>1. /\ DOMAIN t.args = 1 .. n /\ n \in Nat /\ k \in {"not", "and", "or"} /\ (k = "not" => n = 1)
        /\ \A i \in 1 .. n : t.args[i] \in Expressions
    BY <1>2, ExpressionsLeafy, TreeShape DEF Expressions
  <2>2. (\A i \in 1 .. n : C[t.args[i]].ok) /\ f(t) = [k |-> k, args |-> A]
    BY <1>2, CompiledParts, ZenonT(40)
  <2>3. \A i \in 1 .. n : Same(t.args[i])
    BY <1>2, <2>1, <2>2
  <2>4. f(t) \in CompiledExpressions
    BY <1>2, CompiledTyped
  <2>5. H[t] = Connective(k, h)
    <3> DEFINE event == target.kind = "event"
    <3> HIDE DEF event
    <3>1. Meaning(target.params, event)[t] =
            Connective(k, [i \in 1 .. n |-> Meaning(target.params, event)[t.args[i]]])
      BY <1>2, <2>1, MeaningNode
    <3>2. QED
      BY <3>1 DEF event
  <2> HIDE DEF n, k, C, H, E
  <2>6. f(t).k = k /\ f(t).args = A
    BY <2>2
  <2>7. DOMAIN A = 1 .. n /\ \A i \in 1 .. n : A[i] = f(t.args[i])
    OBVIOUS
  <2> HIDE DEF A, f
  <2>8. h \in [1 .. n -> BOOLEAN] /\ DOMAIN parts = 1 .. n /\ \A i \in 1 .. n : parts[i] = Ok(h[i])
    BY <2>3, <2>7
  <2>9. E[f(t)] = EvaluateParts(k, parts)
    <3>1. k # "compare"
      BY <1>2 DEF k
    <3>2. QED
      BY <2>4, <2>6, <3>1, EvaluateNode DEF E
  <2> HIDE DEF h, parts
  <2>10. EvaluateParts(k, parts) = Ok(Connective(k, h)) /\ Connective(k, h) \in BOOLEAN
    BY <2>1, <2>8, ConnectiveIs
  <2>11. QED
    BY <2>5, <2>9, <2>10
<1>3. \A t \in Expressions : t \in P
  <2> HIDE DEF Same
  <2>1. /\ \A t \in Expressions : t.k = "compare" => t \in P
        /\ \A t \in Expressions : t.k # "compare" /\ (\A i \in DOMAIN t.args : t.args[i] \in P) => t \in P
    BY <1>1, <1>2
  <2> HIDE DEF P
  <2>2. QED
    BY <2>1, ExpressionsLeafy, TreeInduction DEF Expressions
<1>4. QED
  BY <1>3

\* The worker's verdict on the last item is the meaning of the filter.
LEMMA VerdictIs ==
    ASSUME NEW r \in Requests, Accepted(r)
    PROVE  LET meant == \/ r.filter = None
                        \/ Meaning(Params(r.signature.inputs), r.signature.kind = "event")[r.filter]
           IN  Verdict(r, item) = Ok(meant)
<1> DEFINE target == TargetOf(r)
           ctx == [kind |-> target.kind, meta |-> item.meta,
                   params |-> Decoded(target.params, target.kind = "event", item.values)]
           event == r.signature.kind = "event"
<1>1. /\ IsTarget(target) /\ target.params = Params(r.signature.inputs)
      /\ (target.kind = "event") = event
  BY TargetIs DEF Accepted, TargetOf
<1> HIDE DEF target
<1>2. Context(target, item) = ctx
  BY <1>1, ContextIs
<1>3. Verdict(r, item) = evaluate(FilterOf(r), ctx)
  BY <1>2 DEF Verdict, target
<1>4. CASE r.filter = None
  <2>1. FilterOf(r) = None
    BY <1>4 DEF FilterOf
  <2>2. Verdict(r, item) = Ok(TRUE)
    BY <1>3, <2>1 DEF evaluate
  <2>3. QED
    BY <1>4, <2>2
<1>5. CASE r.filter # None
  <2> DEFINE e == r.filter
             H == Meaning(target.params, target.kind = "event")[e]
  <2>1. e \in Expressions /\ prepare(e, target).ok
    BY <1>5, RequestAssumption DEF Accepted, target
  <2>2. /\ compile_expression(target)[e].ok
        /\ FilterOf(r) = compile_expression(target)[e].v.compiled
        /\ FilterOf(r) \in CompiledExpressions
    <3>1. FilterOf(r) = prepare(e, target).v.filter
      BY <1>5 DEF FilterOf, target
    <3> HIDE DEF e
    <3>2. QED
      BY <1>1, <2>1, <3>1, PreparedIs
  <2>3. FilterOf(r) # None
    BY <2>2, NoneAssumption
  <2>4. ctx.kind = target.kind /\ ctx.meta = item.meta
        /\ ctx.params = Decoded(target.params, target.kind = "event", item.values)
    OBVIOUS
  <2> HIDE DEF e, ctx, H
  <2>5. EvaluateExpression(ctx)[compile_expression(target)[e].v.compiled] = Ok(H) /\ H \in BOOLEAN
    BY <1>1, <2>1, <2>2, <2>4, TreeMeans DEF H
  <2>6. Verdict(r, item) = Ok(H)
    BY <1>3, <2>2, <2>3, <2>5 DEF evaluate
  <2>7. H = Meaning(Params(r.signature.inputs), event)[r.filter]
    BY <1>1 DEF H, e
  <2>8. (r.filter = None \/ H) = H
    BY <1>5, <2>5
  <2>9. QED
    BY <2>6, <2>7, <2>8
<1>6. QED
  BY <1>4, <1>5

\* A call or an event that decodes is stored exactly if the filter that was asked for
\* holds of it, and evaluating a stored filter never fails.
THEOREM StoredMeans == Spec => []StoredByMeaning
<1>1. Inv => StoredByMeaning
  <2> SUFFICES ASSUME Inv, item # None PROVE StoredByMeaning
    BY DEF StoredByMeaning
  <2> DEFINE meant == \/ request.filter = None
                      \/ Meaning(Params(request.signature.inputs),
                                 request.signature.kind = "event")[request.filter]
  <2>1. IsRow(row, request) /\ request \in Requests
    BY DEF Inv, RowInv, RequestInv
  <2>2. Verdict(request, item) = Ok(meant)
    BY <2>1, VerdictIs DEF IsRow
  <2> HIDE DEF meant
  <2>3. Verdict(request, item).ok = TRUE /\ Verdict(request, item).v = meant
    BY <2>2, Results
  <2>4. outcome.what = IF item.values = None THEN "skipped" ELSE IF meant THEN "stored" ELSE "dropped"
    BY <2>3 DEF Inv, ItemInv
  <2>5. QED
    BY <2>4 DEF StoredByMeaning, meant
<1>2. QED
  BY <1>1, Invariance, PTL

-----------------------------------------------------------------------------
(* Previews.                                                               *)

LEMMA BytesTyped ==
    ASSUME NEW b \in Seq(Byte), NEW size \in Nat, size \in {0, Len(b)}
    PROVE  IsTyped([t |-> "bytes", n |-> size], Hex(b))
           /\ Literal([t |-> "bytes", n |-> size], Hex(b)) = <<"Bytes", b>>
BY HexIs DEF IsTyped, IsBytes, Literal

\* The JSON of a value on chain is read as what decoding makes of the value.
LEMMA JsonRead ==
    ASSUME NEW target, IsTarget(target), NEW i \in DOMAIN target.params,
           NEW v \in AbiValues(target.params[i])
    PROVE  LET param == target.params[i]
               event == target.kind = "event"
               json == JsonOf(param, event, v)
           IN  /\ IsTyped(value_type(param, event), json)
               /\ Literal(value_type(param, event), json) = decode_value(param, event, v)
<1> DEFINE param == target.params[i]
           event == target.kind = "event"
           ty == param.ty
           json == JsonOf(param, event, v)
           Read == /\ IsTyped(value_type(param, event), json)
                   /\ Literal(value_type(param, event), json) = decode_value(param, event, v)
<1>1. /\ ty \in [t : Scalars, n : Nat] /\ (ty.t = "fixed" => ty.n \in 1 .. WordLen)
      /\ ~ event => ~ param.indexed
      /\ v \in ChainValues(param)
  BY DEF IsTarget
<1>2. IsHashed(param, event) = IsHashed(param, TRUE)
  <2>1. event \in BOOLEAN
    OBVIOUS
  <2>2. QED
    BY <1>1, <2>1 DEF IsHashed
<1>3. {WordLen, AddressLen, FunctionLen} \subseteq Nat
  BY LimitAssumption
<1> HIDE DEF param, event
<1>4. CASE IsHashed(param, TRUE)
  <2>1. v \in Seq(Byte) /\ Len(v) = WordLen
    BY <1>1, <1>4 DEF ChainValues, Bytes
  <2>2. /\ value_type(param, event) = [t |-> "bytes", n |-> WordLen]
        /\ json = Hex(v) /\ decode_value(param, event, v) = <<"Bytes", v>>
    BY <1>2, <1>4 DEF value_type, JsonOf, decode_value
  <2>3. QED
    BY <1>3, <2>1, <2>2, BytesTyped DEF param, event
<1>5. CASE ~ IsHashed(param, TRUE) /\ ty.t = "fixed"
  <2> DEFINE b == SubSeq(v, 1, ty.n)
  <2>1. v \in Seq(Byte) /\ Len(v) = WordLen
    BY <1>1, <1>5 DEF ChainValues, Bytes
  <2>2. ty.n \in 1 .. WordLen /\ ty.n \in Nat
    BY <1>1, <1>5
  <2> DEFINE n == ty.n
  <2> HIDE DEF n
  <2>3. n \in 1 .. Len(v) /\ n \in Nat
    BY <2>1, <2>2 DEF n
  <2>4. SubSeq(v, 1, n) \in Seq(Byte) /\ Len(SubSeq(v, 1, n)) = n
    BY <2>1, <2>3
  <2>5. b \in Seq(Byte) /\ Len(b) = ty.n
    BY <2>4 DEF n
  <2>6. /\ value_type(param, event) = [t |-> "bytes", n |-> ty.n]
        /\ json = Hex(b) /\ decode_value(param, event, v) = <<"Bytes", b>>
    BY <1>2, <1>5 DEF value_type, JsonOf, decode_value
  <2> HIDE DEF b
  <2>7. QED
    BY <2>2, <2>5, <2>6, BytesTyped DEF param, event
<1>6. CASE ~ IsHashed(param, TRUE) /\ ty.t = "bytes"
  <2>1. v \in Seq(Byte)
    BY <1>1, <1>6 DEF ChainValues
  <2>2. /\ value_type(param, event) = [t |-> "bytes", n |-> 0]
        /\ json = Hex(v) /\ decode_value(param, event, v) = <<"Bytes", v>>
    BY <1>2, <1>6 DEF value_type, JsonOf, decode_value
  <2>3. QED
    BY <2>1, <2>2, BytesTyped DEF param, event
<1>7. CASE ~ IsHashed(param, TRUE) /\ ty.t = "function"
  <2>1. v \in Seq(Byte) /\ Len(v) = FunctionLen
    BY <1>1, <1>7 DEF ChainValues, Bytes
  <2>2. /\ value_type(param, event) = [t |-> "bytes", n |-> FunctionLen]
        /\ json = Hex(v) /\ decode_value(param, event, v) = <<"Bytes", v>>
    BY <1>2, <1>7 DEF value_type, JsonOf, decode_value
  <2>3. QED
    BY <1>3, <2>1, <2>2, BytesTyped DEF param, event
<1>8. CASE ~ IsHashed(param, TRUE) /\ ty.t \in {"uint", "int", "bool", "address", "string"}
  <2>1. value_type(param, event) = ty
    BY <1>2, <1>8 DEF value_type
  <2>2. CASE ty.t = "uint"
    <3>1. v \in Nat /\ v < 2 ^ ty.n
      BY <1>1, <1>8, <2>2 DEF ChainValues
    <3>2. json = Decimal(v) /\ decode_value(param, event, v) = <<"Uint", v>>
      BY <1>2, <1>8, <2>2 DEF JsonOf, decode_value
    <3>3. IsText(json, "dec") /\ ~ json.text.neg /\ json.text.mag = v
      BY <3>1, <3>2, DecimalIs
    <3> HIDE DEF json, ty
    <3>4. IsTyped(ty, json)
      BY <2>2, <3>1, <3>3 DEF IsTyped, Fits
    <3>5. Literal(ty, json) = <<"Uint", v>>
      BY <2>2, <3>3 DEF Literal
    <3>6. QED
      BY <2>1, <3>2, <3>4, <3>5 DEF param, event, json, ty
  <2>3. CASE ty.t = "int"
    <3>1. v \in Int /\ -(2 ^ (ty.n - 1)) <= v /\ v < 2 ^ (ty.n - 1)
      BY <1>1, <1>8, <2>3 DEF ChainValues
    <3>2. json = Decimal(v) /\ decode_value(param, event, v) = <<"Int", v>>
      BY <1>2, <1>8, <2>3 DEF JsonOf, decode_value
    <3>3. IsText(json, "dec") /\ Signed(json.text) = v
      BY <3>1, <3>2, DecimalIs
    <3> HIDE DEF json, ty
    <3>4. IsTyped(ty, json)
      BY <2>3, <3>1, <3>3 DEF IsTyped, Fits
    <3>5. Literal(ty, json) = <<"Int", v>>
      BY <2>3, <3>3 DEF Literal
    <3>6. QED
      BY <2>1, <3>2, <3>4, <3>5 DEF param, event, json, ty
  <2>4. CASE ty.t = "bool"
    <3>1. json = [json |-> "bool", b |-> v] /\ decode_value(param, event, v) = <<"Bool", v>>
      BY <1>2, <1>8, <2>4 DEF JsonOf, decode_value
    <3>2. IsTyped(ty, json) /\ Literal(ty, json) = <<"Bool", v>>
      BY <2>4, <3>1 DEF IsTyped, Literal
    <3>3. QED
      BY <2>1, <3>1, <3>2 DEF param, event
  <2>5. CASE ty.t = "address"
    <3>1. v \in Seq(Byte) /\ Len(v) = AddressLen
      BY <1>1, <1>8, <2>5 DEF ChainValues, Bytes
    <3>2. json = Hex(v) /\ decode_value(param, event, v) = <<"Address", v>>
      BY <1>2, <1>8, <2>5 DEF JsonOf, decode_value
    <3>3. IsText(json, "hex") /\ ~ json.text.odd /\ json.text.bytes = v
      BY <3>1, <3>2, HexIs
    <3> HIDE DEF json, ty
    <3>4. IsTyped(ty, json) /\ Literal(ty, json) = <<"Address", v>>
      BY <2>5, <3>1, <3>3 DEF IsTyped, IsBytes, Literal
    <3>5. QED
      BY <2>1, <3>2, <3>4 DEF param, event, json, ty
  <2>6. CASE ty.t = "string"
    <3>1. /\ json = [json |-> "string", text |-> v] /\ decode_value(param, event, v) = <<"String", v>>
      BY <1>2, <1>8, <2>6 DEF JsonOf, decode_value
    <3>2. IsTyped(ty, json) /\ Literal(ty, json) = <<"String", v>>
      BY <2>6, <3>1 DEF IsTyped, Literal
    <3>3. QED
      BY <2>1, <3>1, <3>2 DEF param, event
  <2>7. QED
    BY <1>8, <2>2, <2>3, <2>4, <2>5, <2>6
<1>9. ty.t \in Scalars
  BY <1>1
<1> HIDE DEF ty, json
<1>10. QED
  BY <1>4, <1>5, <1>6, <1>7, <1>8, <1>9 DEF Scalars, param, event, json

\* The values of an item, one for each parameter.
LEMMA ItemsTyped ==
    ASSUME NEW params, DOMAIN params = 1 .. Len(params), Len(params) \in Nat,
           NEW w \in ItemValues(params)
    PROVE  \A i \in DOMAIN params : w[i] \in AbiValues(params[i])
<1> DEFINE n == Len(params)
           U == UNION {AbiValues(params[i]) : i \in 1 .. n}
           S == SUBSET Seq(U)
           z == {<<>>}
           Longer(lists, i) == {Append(x, v) : x \in lists, v \in AbiValues(params[i])}
           F == [i \in 1 .. n |-> [lists \in S |-> Longer(lists, i)]]
           Is(g) == g = [i \in 0 .. n |-> IF i = 0 THEN z ELSE Longer(g[i - 1], i)]
           a == CHOOSE g : Is(g)
<1>1. n \in Nat /\ z \in S
  OBVIOUS
<1>2. \A i \in 1 .. n : AbiValues(params[i]) \subseteq U
  OBVIOUS
<1>3. ASSUME NEW i \in 1 .. n, NEW lists \in S PROVE Longer(lists, i) \in S
  <2>1. ASSUME NEW y \in Longer(lists, i) PROVE y \in Seq(U)
    <3>1. PICK x \in lists, v \in AbiValues(params[i]) : y = Append(x, v)
      BY <2>1
    <3>2. x \in Seq(U) /\ v \in U
      BY <1>2
    <3> HIDE DEF U
    <3>3. QED
      BY <3>1, <3>2
  <2> HIDE DEF Longer, U
  <2>2. QED
    BY <2>1
<1> HIDE DEF Longer, S, z
<1>4. F \in [1 .. n -> [S -> S]] /\ \A i \in 1 .. n, lists \in S : F[i][lists] = Longer(lists, i)
  BY <1>3
<1> HIDE DEF F, n
<1>5. PICK g : IsRun(g, n, S, z, F)
  BY <1>1, <1>4, Rounds
<1>6. /\ g \in [0 .. n -> S] /\ g[0] = z
      /\ \A i \in 1 .. n : g[i] = Longer(g[i - 1], i)
  <2>1. /\ g \in [0 .. n -> S] /\ g[0] = z
        /\ \A i \in 1 .. n : g[i] = F[i][g[i - 1]]
    BY <1>5 DEF IsRun
  <2>2. \A i \in 1 .. n : g[i - 1] \in S
    BY <1>1, <2>1
  <2>3. QED
    BY <1>4, <2>1, <2>2
<1>7. Is(g)
  BY <1>6
<1>8. Is(a)
  <2> HIDE DEF Is
  <2>1. QED
    BY <1>7
<1>9. ItemValues(params) = a[n]
  BY DEF ItemValues, Loop, n, z, Longer
<1> HIDE DEF a
<1>10. a[0] = z /\ \A i \in 1 .. n : a[i] = Longer(a[i - 1], i)
  BY <1>1, <1>8
<1> DEFINE Lists(i) == {x \in Seq(U) : Len(x) = i /\ \A j \in 1 .. i : x[j] \in AbiValues(params[j])}
           P == {i \in 0 .. n : a[i] \subseteq Lists(i)}
<1>11. 0 \in P
  <2>1. <<>> \in Lists(0)
    <3> HIDE DEF U
    <3>1. <<>> \in Seq(U) /\ Len(<<>>) = 0 /\ 1 .. 0 = {}
      OBVIOUS
    <3>2. QED
      BY <3>1
  <2>2. a[0] = {<<>>}
    BY <1>10 DEF z
  <2>3. 0 \in 0 .. n
    BY <1>1
  <2> HIDE DEF Lists
  <2>4. QED
    BY <2>1, <2>2, <2>3
<1>12. ASSUME NEW m \in 0 .. n, m # n, m \in P PROVE m + 1 \in P
  <2>1. m + 1 \in 1 .. n /\ (m + 1) - 1 = m /\ m + 1 \in 0 .. n /\ m \in Nat
    BY <1>1, <1>12
  <2>2. a[m + 1] = Longer(a[m], m + 1)
    BY <1>10, <2>1
  <2>3. ASSUME NEW y \in a[m + 1] PROVE y \in Lists(m + 1)
    <3>1. PICK x \in a[m], v \in AbiValues(params[m + 1]) : y = Append(x, v)
      BY <2>2, <2>3 DEF Longer
    <3>2. x \in Seq(U) /\ Len(x) = m /\ \A j \in 1 .. m : x[j] \in AbiValues(params[j])
      BY <1>12, <3>1
    <3>3. v \in U
      BY <1>2, <2>1, <3>1
    <3> HIDE DEF U
    <3>4. /\ y \in Seq(U) /\ Len(y) = m + 1 /\ y[m + 1] = v
          /\ \A j \in 1 .. m : y[j] = x[j]
      BY <3>1, <3>2, <3>3, <2>1
    <3>5. \A j \in 1 .. m + 1 : y[j] \in AbiValues(params[j])
      <4> TAKE j \in 1 .. m + 1
      <4>1. CASE j = m + 1
        BY <4>1, <3>1, <3>4
      <4>2. CASE j # m + 1
        <5>1. j \in 1 .. m
          BY <2>1, <4>2
        <5>2. QED
          BY <5>1, <3>2, <3>4
      <4>3. QED
        BY <4>1, <4>2
    <3>6. QED
      BY <3>4, <3>5
  <2> HIDE DEF Lists
  <2>4. QED
    BY <2>1, <2>3
<1>13. n \in P
  <2>1. \A m \in 0 .. n : m # n /\ m \in P => m + 1 \in P
    BY <1>12
  <2>2. n \in 0 .. n
    BY <1>1
  <2> HIDE DEF P
  <2>3. QED
    BY <1>1, <1>11, <2>1, <2>2, Upwards
<1>14. w \in Lists(n)
  BY <1>9, <1>13
<1>15. QED
  BY <1>14 DEF n

NamesOf(target) == {target.params[i].name : i \in DOMAIN target.params}

\* A sample that describes an item is decoded to what the item is decoded to.
LEMMA SampleRead ==
    ASSUME NEW target, IsTarget(target), NEW w,
           \A i \in DOMAIN target.params : w[i] \in AbiValues(target.params[i]),
           NEW values, DOMAIN values = NamesOf(target),
           \A i \in DOMAIN target.params :
              values[target.params[i].name] = JsonOf(target.params[i], target.kind = "event", w[i])
    PROVE  decode_sample_params(target.params, target.kind = "event", values)
              = Ok(Decoded(target.params, target.kind = "event", w))
<1> DEFINE params == target.params
           event == target.kind = "event"
           parsed(i) == parse_value(value_type(params[i], event), values[params[i].name])
           results == [i \in DOMAIN params |->
                         IF params[i].name \notin DOMAIN values THEN Err(<<>>)
                         ELSE IF parsed(i).ok THEN Ok(parsed(i).v.literal) ELSE parsed(i)]
<1>1. Cardinality(DOMAIN values) = Len(params)
  BY NamesCount DEF NamesOf
<1>2. decode_sample_params(params, event, values) = Collect(results)
  BY <1>1 DEF decode_sample_params
<1>3. ASSUME NEW i \in DOMAIN params
      PROVE  results[i] = Ok(decode_value(params[i], event, w[i]))
  <2>1. params[i].name \in DOMAIN values
    BY DEF NamesOf
  <2>2. values[params[i].name] = JsonOf(params[i], event, w[i])
    OBVIOUS
  <2> DEFINE ty == value_type(params[i], event)
             json == JsonOf(params[i], event, w[i])
  <2>3. IsTyped(ty, json) /\ Literal(ty, json) = decode_value(params[i], event, w[i])
    BY JsonRead
  <2> HIDE DEF ty, json
  <2>4. parse_value(ty, json) = Ok([literal |-> Literal(ty, json), canonical |-> Canonical(ty, json)])
    BY <2>3 DEF parse_value
  <2>5. parse_value(ty, json).ok = TRUE /\ parse_value(ty, json).v.literal = Literal(ty, json)
    BY <2>4 DEF Ok
  <2>6. parsed(i) = parse_value(ty, json)
    BY <2>2 DEF ty, json
  <2> HIDE DEF parsed
  <2>7. results[i] = Ok(parsed(i).v.literal)
    BY <2>1, <2>5, <2>6
  <2>8. QED
    BY <2>3, <2>5, <2>6, <2>7
<1>4. DOMAIN results = DOMAIN params
  OBVIOUS
<1> HIDE DEF results, params, event
<1>5. \A i \in DOMAIN results : /\ results[i].ok = TRUE
                                /\ results[i].v = decode_value(params[i], event, w[i])
  BY <1>3, <1>4, Results
<1>6. Collect(results) = Ok([i \in DOMAIN results |-> results[i].v])
  BY <1>5 DEF Collect
<1>7. [i \in DOMAIN results |-> results[i].v] = Decoded(params, event, w)
  BY <1>4, <1>5 DEF Decoded
<1>8. QED
  BY <1>2, <1>6, <1>7 DEF params, event

\* preview gives the verdict of the worker.
LEMMA PreviewIs ==
    ASSUME NEW r \in Requests, Accepted(r), r.filter # None, NEW sample,
           sample.kind = TargetOf(r).kind, sample.meta = item.meta,
           decode_sample_params(TargetOf(r).params, TargetOf(r).kind = "event", sample.params)
              = Ok(Decoded(TargetOf(r).params, TargetOf(r).kind = "event", item.values))
    PROVE  preview_filter(r.signature, r.filter, sample) = Verdict(r, item)
<1> DEFINE target == TargetOf(r)
           event == target.kind = "event"
           values == Decoded(target.params, event, item.values)
           prepared == prepare(r.filter, target)
<1>1. /\ parse_target_signature(r.signature).ok /\ prepared.ok
      /\ FilterOf(r) = prepared.v.filter /\ IsTarget(target)
  BY TargetIs DEF Accepted, FilterOf, TargetOf
<1>2. preview_filter(r.signature, r.filter, sample) = preview(target, r.filter, sample)
  BY <1>1 DEF preview_filter, TargetOf
<1> DEFINE decoded == decode_sample_params(target.params, event, sample.params)
<1>3. decoded = Ok(values)
  OBVIOUS
<1> HIDE DEF values
<1>4. decoded.ok = TRUE /\ decoded.v = values
  BY <1>3, Results
<1>5. preview(target, r.filter, sample) =
        IF ~ prepared.ok THEN prepared
        ELSE IF sample.kind # target.kind THEN Err(<<>>)
        ELSE IF ~ decoded.ok THEN decoded
        ELSE evaluate(prepared.v.filter,
                      [kind |-> sample.kind, meta |-> sample.meta, params |-> decoded.v])
  BY DEF preview
<1>6. Context(target, item) = [kind |-> target.kind, meta |-> item.meta, params |-> values]
  BY <1>1, ContextIs DEF values
<1> HIDE DEF decoded, prepared
<1>7. preview(target, r.filter, sample) = evaluate(prepared.v.filter, Context(target, item))
  BY <1>1, <1>4, <1>5, <1>6
<1>8. QED
  BY <1>1, <1>2, <1>7 DEF Verdict

\* It refuses what is not a sample of the target.
LEMMA PreviewRefuses ==
    ASSUME NEW r \in Requests, Accepted(r), r.filter # None, NEW sample,
           \/ sample.kind # TargetOf(r).kind
           \/ Cardinality(DOMAIN sample.params) # Len(TargetOf(r).params)
    PROVE  ~ preview_filter(r.signature, r.filter, sample).ok
<1> DEFINE target == TargetOf(r)
           event == target.kind = "event"
           prepared == prepare(r.filter, target)
           decoded == decode_sample_params(target.params, event, sample.params)
<1>1. parse_target_signature(r.signature).ok /\ prepared.ok
  BY DEF Accepted
<1>2. preview_filter(r.signature, r.filter, sample) = preview(target, r.filter, sample)
  BY <1>1 DEF preview_filter, TargetOf
<1>3. preview(target, r.filter, sample) =
        IF ~ prepared.ok THEN prepared
        ELSE IF sample.kind # target.kind THEN Err(<<>>)
        ELSE IF ~ decoded.ok THEN decoded
        ELSE evaluate(prepared.v.filter,
                      [kind |-> sample.kind, meta |-> sample.meta, params |-> decoded.v])
  BY DEF preview
<1>4. Cardinality(DOMAIN sample.params) # Len(target.params) => decoded = Err(<<>>)
  BY DEF decode_sample_params
<1>5. Err(<<>>).ok = FALSE
  BY Results
<1> HIDE DEF prepared, decoded
<1>6. QED
  BY <1>1, <1>2, <1>3, <1>4, <1>5

At(target, name) == CHOOSE i \in DOMAIN target.params : target.params[i].name = name

LEMMA SampleIs ==
    ASSUME NEW target, NEW names
    PROVE  LET sample == SampleOf(target, names)
           IN  /\ sample = [kind |-> sample.kind, meta |-> sample.meta, params |-> sample.params]
               /\ sample.kind = target.kind /\ sample.meta = item.meta
               /\ DOMAIN sample.params = names
               /\ \A name \in names :
                     sample.params[name] = JsonOf(target.params[At(target, name)],
                                                  target.kind = "event", item.values[At(target, name)])
BY DEF SampleOf, At

\* preview gives, for a sample that describes a call or an event, the verdict of the
\* worker, and refuses a sample that lacks a parameter or is of the other kind.
THEOREM PreviewsAgree == Spec => []PreviewAgrees
<1>1. Inv => PreviewAgrees
  <2> SUFFICES ASSUME Inv, item # None, item.values # None, request.filter # None
               PROVE  PreviewAgrees
    BY DEF PreviewAgrees
  <2> DEFINE target == row.target
             params == target.params
             event == target.kind = "event"
             names == {target.params[i].name : i \in DOMAIN target.params}
             shown(sample) == preview_filter(request.signature, request.filter, sample)
             full == SampleOf(target, names)
  <2>1. /\ IsRow(row, request) /\ request \in Requests /\ Accepted(request)
        /\ target = TargetOf(request)
    BY DEF Inv, RowInv, RequestInv, IsRow
  <2>2. IsTarget(target)
    BY <2>1, TargetIs DEF Accepted, TargetOf
  <2>3. /\ DOMAIN params = 1 .. Len(params) /\ Len(params) \in Nat
        /\ \A i, j \in DOMAIN params : params[i].name = params[j].name => i = j
        /\ target.kind \in {"event", "call"}
    BY <2>2 DEF IsTarget
  <2>4. \A i \in DOMAIN params : item.values[i] \in AbiValues(params[i])
    <3>1. item.values \in ItemValues(params)
      BY <2>1 DEF Inv, ItemInv
    <3> HIDE DEF params
    <3>2. QED
      BY <2>3, <3>1, ItemsTyped
  <2>5. IsFiniteSet(names) /\ Cardinality(names) = Len(params)
    BY <2>2, NamesCount
  <2>7. shown(full) = Verdict(request, item)
    <3>1. DOMAIN full.params = NamesOf(target)
      BY SampleIs DEF NamesOf
    <3>2. ASSUME NEW i \in DOMAIN params
          PROVE  full.params[params[i].name] = JsonOf(params[i], event, item.values[i])
      <4> DEFINE name == params[i].name
      <4>1. At(target, name) = i
        BY <2>3 DEF At
      <4>2. name \in names
        OBVIOUS
      <4> HIDE DEF names, name
      <4>3. full.params[name] = JsonOf(params[At(target, name)], event, item.values[At(target, name)])
        BY <4>2, SampleIs
      <4>4. QED
        BY <4>1, <4>3 DEF name
    <3>3. full.kind = target.kind /\ full.meta = item.meta
      BY SampleIs
    <3> HIDE DEF full
    <3>4. decode_sample_params(target.params, event, full.params) = Ok(Decoded(target.params, event, item.values))
      BY <2>2, <2>4, <3>1, <3>2, SampleRead
    <3> HIDE DEF target
    <3>5. QED
      BY <2>1, <3>3, <3>4, PreviewIs
  <2>8. Verdict(request, item) = Ok(outcome.what = "stored")
    <3> DEFINE meant == \/ request.filter = None
                        \/ Meaning(Params(request.signature.inputs),
                                   request.signature.kind = "event")[request.filter]
    <3>1. Verdict(request, item) = Ok(meant)
      BY <2>1, VerdictIs
    <3> HIDE DEF meant
    <3>2. Verdict(request, item).ok = TRUE /\ Verdict(request, item).v = meant
      BY <3>1, Results
    <3>3. outcome.what = IF meant THEN "stored" ELSE "dropped"
      BY <3>2 DEF Inv, ItemInv
    <3>4. meant \in BOOLEAN
      BY DEF meant
    <3>5. (outcome.what = "stored") = meant
      BY <3>3, <3>4
    <3>6. QED
      BY <3>1, <3>5
  <2>9. ASSUME NEW name \in names PROVE ~ shown(SampleOf(target, names \ {name})).ok
    <3> DEFINE some == names \ {name}
               sample == SampleOf(target, some)
    <3>1. DOMAIN sample.params = some
      BY SampleIs
    <3>2. Cardinality(some) # Len(params)
      <4>1. Len(params) \in Nat
        BY <2>3
      <4> HIDE DEF names, params
      <4>2. Cardinality(some) = Cardinality(names) - 1
        BY <2>5, FS_RemoveElement
      <4>3. QED
        BY <2>5, <4>1, <4>2
    <3> HIDE DEF sample, some
    <3>3. ~ shown(sample).ok
      BY <2>1, <3>1, <3>2, PreviewRefuses
    <3>4. QED
      BY <3>3 DEF sample, some
  <2>10. ~ shown([full EXCEPT !.kind = IF @ = "call" THEN "event" ELSE "call"]).ok
    <3> DEFINE sample == [full EXCEPT !.kind = IF @ = "call" THEN "event" ELSE "call"]
    <3>1. full.kind = target.kind /\ full = [kind |-> full.kind, meta |-> full.meta, params |-> full.params]
      BY SampleIs
    <3> HIDE DEF full
    <3>2. sample.kind = IF full.kind = "call" THEN "event" ELSE "call"
      BY <3>1
    <3>3. sample.kind # target.kind
      BY <2>3, <3>1, <3>2
    <3> HIDE DEF sample
    <3>4. ~ shown(sample).ok
      BY <2>1, <3>3, PreviewRefuses
    <3>5. QED
      BY <3>4 DEF sample
  <2> HIDE DEF shown
  <2>11. QED
    BY <2>7, <2>8, <2>9, <2>10 DEF PreviewAgrees, shown
<1>2. QED
  BY <1>1, Invariance, PTL

-----------------------------------------------------------------------------
(* Nodes and paths.                                                        *)

\* A path that starts with i.
LEMMA ConsIs ==
    ASSUME NEW i \in Nat, NEW p \in Seq(Nat)
    PROVE  LET c == <<i>> \o p
           IN  /\ c \in Seq(Nat) /\ Len(c) = Len(p) + 1 /\ DOMAIN c = 1 .. Len(p) + 1
               /\ c[1] = i /\ \A j \in 1 .. Len(p) : c[j + 1] = p[j]
OBVIOUS

LEMMA ConsInjective ==
    ASSUME NEW i \in Nat, NEW p \in Seq(Nat), NEW q \in Seq(Nat), <<i>> \o p = <<i>> \o q
    PROVE  p = q
<1> DEFINE c == <<i>> \o p
           d == <<i>> \o q
<1>1. /\ Len(c) = Len(p) + 1 /\ \A j \in 1 .. Len(p) : c[j + 1] = p[j]
      /\ Len(d) = Len(q) + 1 /\ \A j \in 1 .. Len(q) : d[j + 1] = q[j]
  BY ConsIs
<1>2. c = d
  OBVIOUS
<1> HIDE DEF c, d
<1>3. Len(p) = Len(q) /\ \A j \in 1 .. Len(p) : p[j] = q[j]
  BY <1>1, <1>2
<1>4. \A j \in 1 .. Len(p) : p[j] = q[j]
  BY <1>3
<1> DEFINE S == Nat
<1>5. p \in Seq(S) /\ q \in Seq(S)
  OBVIOUS
<1> HIDE DEF S
<1>6. QED
  BY <1>3, <1>4, <1>5, SeqEqual

\* The order of paths, by their first steps.
LEMMA BeforeIs ==
    ASSUME NEW i \in Nat, NEW j \in Nat, NEW p \in Seq(Nat), NEW q \in Seq(Nat)
    PROVE  /\ Before(<<i>> \o p, <<j>> \o q) <=> (i < j \/ (i = j /\ Before(p, q)))
           /\ Before(<<>>, <<j>> \o q)
           /\ ~ Before(p, <<>>)
<1> DEFINE c == <<i>> \o p
           d == <<j>> \o q
<1>1. /\ Len(c) = Len(p) + 1 /\ DOMAIN c = 1 .. Len(p) + 1
      /\ c[1] = i /\ \A t \in 1 .. Len(p) : c[t + 1] = p[t]
      /\ Len(d) = Len(q) + 1 /\ DOMAIN d = 1 .. Len(q) + 1
      /\ d[1] = j /\ \A t \in 1 .. Len(q) : d[t + 1] = q[t]
  BY ConsIs
<1>2. /\ Len(p) \in Nat /\ Len(q) \in Nat /\ DOMAIN p = 1 .. Len(p) /\ DOMAIN q = 1 .. Len(q)
  OBVIOUS
<1> HIDE DEF c, d
<1>3. ASSUME i < j PROVE Before(c, d)
  <2>1. 1 \in DOMAIN c \cap DOMAIN d /\ c[1] < d[1] /\ \A t \in 1 .. 1 - 1 : c[t] = d[t]
    BY <1>1, <1>2, <1>3
  <2>2. QED
    BY <2>1 DEF Before
<1>4. ASSUME i = j, Before(p, q) PROVE Before(c, d)
  <2>1. CASE Len(p) < Len(q) /\ \A t \in DOMAIN p : p[t] = q[t]
    <3>1. Len(c) < Len(d)
      BY <1>1, <1>2, <2>1
    <3>2. ASSUME NEW t \in DOMAIN c PROVE c[t] = d[t]
      <4>1. CASE t = 1
        BY <4>1, <1>1, <1>4
      <4>2. CASE t # 1
        <5>1. t - 1 \in 1 .. Len(p) /\ t - 1 \in 1 .. Len(q) /\ (t - 1) + 1 = t
          <6>1. t \in Nat /\ 1 <= t /\ t <= Len(p) + 1
            BY <1>1, <1>2
          <6>2. QED
            BY <4>2, <6>1, <1>2, <2>1
        <5>2. c[t] = p[t - 1] /\ d[t] = q[t - 1]
          BY <5>1, <1>1
        <5>3. QED
          BY <5>1, <5>2, <1>2, <2>1
      <4>3. QED
        BY <4>1, <4>2
    <3>3. QED
      BY <3>1, <3>2 DEF Before
  <2>2. CASE \E s \in DOMAIN p \cap DOMAIN q : p[s] < q[s] /\ \A t \in 1 .. s - 1 : p[t] = q[t]
    <3>1. PICK s \in DOMAIN p \cap DOMAIN q : p[s] < q[s] /\ \A t \in 1 .. s - 1 : p[t] = q[t]
      BY <2>2
    <3>2. s \in 1 .. Len(p) /\ s \in 1 .. Len(q) /\ s + 1 \in DOMAIN c \cap DOMAIN d
      BY <1>1, <1>2, <3>1
    <3>3. c[s + 1] < d[s + 1]
      BY <1>1, <3>1, <3>2
    <3>4. ASSUME NEW t \in 1 .. (s + 1) - 1 PROVE c[t] = d[t]
      <4>1. CASE t = 1
        BY <4>1, <1>1, <1>4
      <4>2. CASE t # 1
        <5>1. t - 1 \in 1 .. s - 1 /\ t - 1 \in 1 .. Len(p) /\ t - 1 \in 1 .. Len(q) /\ (t - 1) + 1 = t
          BY <4>2, <3>2, <1>2
        <5>2. c[t] = p[t - 1] /\ d[t] = q[t - 1]
          BY <5>1, <1>1
        <5>3. QED
          BY <5>1, <5>2, <3>1
      <4>3. QED
        BY <4>1, <4>2
    <3>5. QED
      BY <3>2, <3>3, <3>4 DEF Before
  <2>3. QED
    BY <1>4, <2>1, <2>2 DEF Before
<1>5. ASSUME Before(c, d) PROVE i < j \/ (i = j /\ Before(p, q))
  <2>1. CASE Len(c) < Len(d) /\ \A t \in DOMAIN c : c[t] = d[t]
    <3>1. 1 \in DOMAIN c /\ i = j /\ Len(p) < Len(q)
      <4>1. 1 \in DOMAIN c
        BY <1>1, <1>2
      <4>2. c[1] = d[1]
        BY <2>1, <4>1
      <4>3. Len(p) < Len(q)
        BY <1>1, <1>2, <2>1
      <4>4. QED
        BY <1>1, <4>1, <4>2, <4>3
    <3>2. ASSUME NEW t \in DOMAIN p PROVE p[t] = q[t]
      <4>1. t \in 1 .. Len(p) /\ t \in 1 .. Len(q) /\ t + 1 \in DOMAIN c
        BY <1>1, <1>2, <3>1
      <4>2. QED
        BY <1>1, <2>1, <4>1
    <3>3. QED
      BY <3>1, <3>2 DEF Before
  <2>2. CASE \E s \in DOMAIN c \cap DOMAIN d : c[s] < d[s] /\ \A t \in 1 .. s - 1 : c[t] = d[t]
    <3>1. PICK s \in DOMAIN c \cap DOMAIN d : c[s] < d[s] /\ \A t \in 1 .. s - 1 : c[t] = d[t]
      BY <2>2
    <3>2. CASE s = 1
      BY <1>1, <3>1, <3>2
    <3>3. CASE s # 1
      <4>1. s - 1 \in 1 .. Len(p) /\ s - 1 \in 1 .. Len(q) /\ (s - 1) + 1 = s /\ 1 \in 1 .. s - 1
        BY <1>1, <1>2, <3>1, <3>3
      <4>2. i = j /\ p[s - 1] < q[s - 1] /\ s - 1 \in DOMAIN p \cap DOMAIN q
        BY <1>1, <1>2, <3>1, <4>1
      <4>3. ASSUME NEW t \in 1 .. (s - 1) - 1 PROVE p[t] = q[t]
        <5>1. t \in 1 .. Len(p) /\ t \in 1 .. Len(q) /\ t + 1 \in 1 .. s - 1
          <6>1. s - 1 \in Nat /\ s - 1 <= Len(p) /\ s - 1 <= Len(q)
            BY <4>1, <1>2
          <6>2. t \in Nat /\ 1 <= t /\ t + 1 <= s - 1
            BY <6>1
          <6>3. Len(p) \in Nat /\ Len(q) \in Nat
            BY <1>2
          <6>4. QED
            BY <6>1, <6>2, <6>3, SMTT(30)
        <5>2. QED
          BY <1>1, <3>1, <5>1
      <4>4. QED
        BY <4>2, <4>3 DEF Before
    <3>4. QED
      BY <3>2, <3>3
  <2>3. QED
    BY <1>5, <2>1, <2>2 DEF Before
<1>6. Before(<<>>, d)
  <2>1. Len(<<>>) = 0 /\ DOMAIN <<>> = {} /\ 0 < Len(d)
    BY <1>1, <1>2
  <2>2. QED
    BY <2>1 DEF Before
<1>7. ~ Before(p, <<>>)
  <2>1. Len(<<>>) = 0 /\ DOMAIN <<>> = {} /\ ~ (Len(p) < 0)
    BY <1>2
  <2>2. QED
    BY <2>1 DEF Before
<1>8. QED
  BY <1>3, <1>4, <1>5, <1>6, <1>7 DEF c, d

\* The nodes of a part, with their paths in the whole; those of the first i parts
\* and the root.
Lift(i, T) == {<<<<i>> \o m[1], m[2]>> : m \in T}
First(e, i) == {<<<<>>, e>>} \cup UNION {Lift(j, Nodes[e.args[j]]) : j \in 1 .. i}

Placed == Seq(Nat) \X Expressions

LEMMA PlacedIs ==
    ASSUME NEW p \in Seq(Nat), NEW e \in Expressions
    PROVE  <<p, e>> \in Placed
BY DEF Placed

LEMMA RootIs ==
    ASSUME NEW e \in Expressions
    PROVE  /\ {<<<<>>, e>>} \in SUBSET Placed /\ IsFiniteSet({<<<<>>, e>>})
           /\ Cardinality({<<<<>>, e>>}) = 1
<1> DEFINE root == <<<<>>, e>>
<1>1. <<>> \in Seq(Nat)
  OBVIOUS
<1>2. root \in Placed
  BY <1>1, PlacedIs
<1> HIDE DEF root
<1>3. IsFiniteSet({} \cup {root}) /\ Cardinality({} \cup {root}) = 1
  BY FS_EmptySet, FS_AddElement
<1>4. QED
  BY <1>2, <1>3 DEF root

\* Lifting keeps the number of nodes.
LEMMA LiftIs ==
    ASSUME NEW i \in Nat, NEW T \in SUBSET Placed, IsFiniteSet(T)
    PROVE  /\ Lift(i, T) \in SUBSET Placed /\ IsFiniteSet(Lift(i, T))
           /\ Cardinality(Lift(i, T)) = Cardinality(T)
<1> DEFINE L == Lift(i, T)
           f == [m \in T |-> <<<<i>> \o m[1], m[2]>>]
<1>1. \A m \in T : /\ m[1] \in Seq(Nat) /\ m[2] \in Expressions /\ m = <<m[1], m[2]>>
                   /\ <<i>> \o m[1] \in Seq(Nat)
  BY ConsIs DEF Placed
<1>2. f \in [T -> L] /\ \A y \in L : \E m \in T : f[m] = y
  BY DEF Lift
<1>3. ASSUME NEW m \in T, NEW n \in T, f[m] = f[n] PROVE m = n
  <2>1. <<i>> \o m[1] = <<i>> \o n[1] /\ m[2] = n[2]
    BY <1>3
  <2>2. m[1] = n[1]
    BY <1>1, <2>1, ConsInjective
  <2>3. QED
    BY <1>1, <2>1, <2>2
<1>4. L \in SUBSET Placed
  <2> SUFFICES ASSUME NEW y \in L PROVE y \in Placed
    OBVIOUS
  <2>1. PICK m \in T : y = <<<<i>> \o m[1], m[2]>>
    BY DEF Lift
  <2>2. QED
    BY <1>1, <2>1, PlacedIs
<1> HIDE DEF f, L
<1>5. f \in Bijection(T, L)
  BY <1>2, <1>3, Fun_IsBij
<1>6. ExistsBijection(T, L)
  BY <1>5 DEF ExistsBijection
<1>7. IsFiniteSet(L) /\ Cardinality(L) = Cardinality(T)
  BY <1>6, FS_Bijection
<1>8. QED
  BY <1>4, <1>7 DEF L

\* The first i parts, one after the other.
LEMMA FirstIs ==
    ASSUME NEW e \in Expressions, e.k # "compare"
    PROVE  /\ Len(e.args) \in Nat /\ DOMAIN e.args = 1 .. Len(e.args)
           /\ Nodes[e] = First(e, Len(e.args))
           /\ First(e, 0) = {<<<<>>, e>>}
           /\ \A i \in 1 .. Len(e.args) : First(e, i) = First(e, i - 1) \cup Lift(i, Nodes[e.args[i]])
<1> DEFINE n == Len(e.args)
<1>1. n \in Nat /\ DOMAIN e.args = 1 .. n
  BY ExpressionsLeafy, TreeShape DEF Expressions
<1>2. Nodes[e] = First(e, n)
  <2> DEFINE parts == [i \in DOMAIN e.args |-> Nodes[e.args[i]]]
             lifted(i) == {<<<<i>> \o m[1], m[2]>> : m \in parts[i]}
             sets == {lifted(i) : i \in DOMAIN parts}
  <2>1. Nodes[e] = {<<<<>>, e>>} \cup UNION sets
    BY NodesIs
  <2>2. \A i \in 1 .. n : parts[i] = Nodes[e.args[i]]
    BY <1>1
  <2>3. DOMAIN parts = 1 .. n
    BY <1>1
  <2> HIDE DEF parts, n
  <2>4. \A i \in 1 .. n : lifted(i) = Lift(i, Nodes[e.args[i]])
    BY <2>2 DEF Lift
  <2> HIDE DEF lifted
  <2>5. sets = {Lift(j, Nodes[e.args[j]]) : j \in 1 .. n}
    BY <2>3, <2>4
  <2>6. QED
    BY <2>1, <2>5 DEF First
<1>3. First(e, 0) = {<<<<>>, e>>}
  <2>1. 1 .. 0 = {}
    OBVIOUS
  <2>2. QED
    BY <2>1 DEF First
<1>4. ASSUME NEW i \in 1 .. n
      PROVE  First(e, i) = First(e, i - 1) \cup Lift(i, Nodes[e.args[i]])
  <2>1. 1 .. i = (1 .. i - 1) \cup {i}
    BY <1>1
  <2> DEFINE g(j) == Lift(j, Nodes[e.args[j]])
  <2> HIDE DEF g
  <2>2. UNION {g(j) : j \in 1 .. i} = (UNION {g(j) : j \in 1 .. i - 1}) \cup g(i)
    BY <2>1
  <2>3. QED
    BY <2>2 DEF First, g
<1>5. QED
  BY <1>1, <1>2, <1>3, <1>4

\* Each node is counted once.
LEMMA FirstCounts ==
    ASSUME NEW e \in Expressions, e.k # "compare",
           \A i \in DOMAIN e.args : Nodes[e.args[i]] \in SUBSET Placed /\ IsFiniteSet(Nodes[e.args[i]])
    PROVE  \A i \in 0 .. Len(e.args) :
              /\ First(e, i) \in SUBSET Placed /\ IsFiniteSet(First(e, i))
              /\ \A n \in First(e, i) : n[1] # <<>> => n[1][1] \in 1 .. i
              /\ i # 0 => Cardinality(First(e, i)) =
                             Cardinality(First(e, i - 1)) + Cardinality(Nodes[e.args[i]])
<1> DEFINE N == Len(e.args)
           Good(i) == /\ First(e, i) \in SUBSET Placed /\ IsFiniteSet(First(e, i))
                      /\ \A n \in First(e, i) : n[1] # <<>> => n[1][1] \in 1 .. i
           Count(i) == Cardinality(First(e, i)) = Cardinality(First(e, i - 1)) + Cardinality(Nodes[e.args[i]])
           P == {i \in 0 .. N : Good(i) /\ (i # 0 => Count(i))}
<1>1. /\ N \in Nat /\ DOMAIN e.args = 1 .. N
      /\ First(e, 0) = {<<<<>>, e>>}
      /\ \A i \in 1 .. N : First(e, i) = First(e, i - 1) \cup Lift(i, Nodes[e.args[i]])
  BY FirstIs
<1>2. 0 \in P
  <2>1. First(e, 0) \in SUBSET Placed /\ IsFiniteSet(First(e, 0))
    BY <1>1, RootIs
  <2>2. \A n \in First(e, 0) : n[1] = <<>>
    BY <1>1
  <2>3. Good(0) /\ 0 \in 0 .. N
    BY <1>1, <2>1, <2>2
  <2> HIDE DEF Good, Count
  <2>4. QED
    BY <2>3
<1>3. ASSUME NEW m \in 0 .. N, m # N, m \in P PROVE m + 1 \in P
  <2> DEFINE i == m + 1
             T == Nodes[e.args[i]]
             A == First(e, m)
             B == Lift(i, T)
  <2>1. i \in 1 .. N /\ i - 1 = m /\ i \in 0 .. N /\ i \in Nat /\ i # 0 /\ m \in Nat
    BY <1>1, <1>3
  <2>2. T \in SUBSET Placed /\ IsFiniteSet(T)
    BY <1>1, <2>1
  <2>3. B \in SUBSET Placed /\ IsFiniteSet(B) /\ Cardinality(B) = Cardinality(T)
    <3> HIDE DEF i, T
    <3>1. QED
      BY <2>1, <2>2, LiftIs
  <2>4. \A n \in B : n[1] # <<>> /\ n[1][1] = i
    <3> SUFFICES ASSUME NEW x \in T PROVE <<i>> \o x[1] # <<>> /\ (<<i>> \o x[1])[1] = i
      BY DEF Lift
    <3>1. x[1] \in Seq(Nat)
      BY <2>2 DEF Placed
    <3> HIDE DEF i
    <3>2. Len(<<i>> \o x[1]) = Len(x[1]) + 1 /\ (<<i>> \o x[1])[1] = i /\ Len(x[1]) \in Nat
      BY <2>1, <3>1, ConsIs
    <3>3. QED
      BY <3>2
  <2>5. A \in SUBSET Placed /\ IsFiniteSet(A) /\ \A n \in A : n[1] # <<>> => n[1][1] \in 1 .. m
    BY <1>3
  <2>6. First(e, i) = A \cup B
    BY <1>1, <2>1
  <2> HIDE DEF A, B, T
  <2>7. A \cap B = {}
    <3>1. \A n \in A : n \notin B
      BY <2>1, <2>4, <2>5
    <3>2. QED
      BY <3>1
  <2>8. IsFiniteSet(A \cup B) /\ Cardinality(A \cup B) = Cardinality(A) + Cardinality(B)
    <3>1. Cardinality(A) \in Nat /\ Cardinality(B) \in Nat
      BY <2>3, <2>5, FS_CardinalityType
    <3>2. IsFiniteSet(A \cup B) /\ Cardinality(A \cup B) = Cardinality(A) + Cardinality(B) - Cardinality({})
      BY <2>3, <2>5, <2>7, FS_Union
    <3>3. Cardinality({}) = 0
      BY FS_EmptySet
    <3>4. QED
      BY <3>1, <3>2, <3>3
  <2>9. Good(i)
    <3>1. \A n \in A \cup B : n[1] # <<>> => n[1][1] \in 1 .. i
      BY <2>1, <2>4, <2>5
    <3>2. QED
      BY <2>3, <2>5, <2>6, <2>8, <3>1
  <2>10. Count(i)
    BY <2>1, <2>3, <2>6, <2>8 DEF A, T
  <2> HIDE DEF Good, Count
  <2>11. QED
    BY <2>1, <2>9, <2>10
<1>4. \A m \in 0 .. N : m \in P
  <2>1. \A m \in 0 .. N : m # N /\ m \in P => m + 1 \in P
    BY <1>3
  <2> HIDE DEF P
  <2>2. QED
    BY <1>1, <1>2, <2>1, Upwards
<1>5. QED
  BY <1>4

\* The nodes are finitely many, and the whole is one of them.
LEMMA NodesTyped ==
    ASSUME NEW e \in Expressions
    PROVE  /\ Nodes[e] \in SUBSET Placed /\ IsFiniteSet(Nodes[e])
           /\ <<<<>>, e>> \in Nodes[e]
<1> DEFINE P == {t \in Expressions : Nodes[t] \in SUBSET Placed /\ IsFiniteSet(Nodes[t])
                                     /\ <<<<>>, t>> \in Nodes[t]}
<1>1. ASSUME NEW t \in Expressions, t.k = "compare" PROVE t \in P
  <2>1. Nodes[t] = {<<<<>>, t>>}
    BY <1>1, NodesIs
  <2>2. QED
    BY <2>1, RootIs
<1>2. ASSUME NEW t \in Expressions, t.k # "compare", \A i \in DOMAIN t.args : t.args[i] \in P
      PROVE  t \in P
  <2>1. \A i \in DOMAIN t.args : Nodes[t.args[i]] \in SUBSET Placed /\ IsFiniteSet(Nodes[t.args[i]])
    BY <1>2
  <2>2. Len(t.args) \in 0 .. Len(t.args) /\ Nodes[t] = First(t, Len(t.args))
    BY <1>2, FirstIs
  <2>3. Nodes[t] \in SUBSET Placed /\ IsFiniteSet(Nodes[t])
    BY <1>2, <2>1, <2>2, FirstCounts
  <2>4. <<<<>>, t>> \in Nodes[t]
    BY <2>2 DEF First
  <2>5. QED
    BY <2>3, <2>4
<1>3. \A t \in Expressions : t \in P
  <2> HIDE DEF P
  <2>1. QED
    BY <1>1, <1>2, ExpressionsLeafy, TreeInduction DEF Expressions
<1>4. QED
  BY <1>3

\* A node is the whole or a node of a part.
LEMMA NodeOf ==
    ASSUME NEW e \in Expressions, e.k # "compare"
    PROVE  /\ \A m \in Nodes[e] :
                 \/ m = <<<<>>, e>>
                 \/ \E j \in 1 .. Len(e.args) : \E x \in Nodes[e.args[j]] : m = <<<<j>> \o x[1], x[2]>>
           /\ \A j \in 1 .. Len(e.args) : \A x \in Nodes[e.args[j]] : <<<<j>> \o x[1], x[2]>> \in Nodes[e]
           /\ \A j \in 1 .. Len(e.args) :
                 /\ e.args[j] \in Expressions
                 /\ Nodes[e.args[j]] \in SUBSET Placed /\ IsFiniteSet(Nodes[e.args[j]])
<1> DEFINE n == Len(e.args)
<1>1. Nodes[e] = {<<<<>>, e>>} \cup UNION {Lift(j, Nodes[e.args[j]]) : j \in 1 .. n}
  BY FirstIs DEF First
<1> HIDE DEF n
<1>2. ASSUME NEW m \in Nodes[e], m # <<<<>>, e>>
      PROVE  \E j \in 1 .. n : \E x \in Nodes[e.args[j]] : m = <<<<j>> \o x[1], x[2]>>
  <2>1. PICK j \in 1 .. n : m \in Lift(j, Nodes[e.args[j]])
    BY <1>1, <1>2
  <2>2. QED
    BY <2>1 DEF Lift
<1>3. ASSUME NEW j \in 1 .. n, NEW x \in Nodes[e.args[j]]
      PROVE  <<<<j>> \o x[1], x[2]>> \in Nodes[e]
  <2>1. <<<<j>> \o x[1], x[2]>> \in Lift(j, Nodes[e.args[j]])
    BY DEF Lift
  <2>2. QED
    BY <1>1, <2>1
<1>4. \A j \in 1 .. n : e.args[j] \in Expressions
  BY ExpressionsLeafy, TreeShape DEF Expressions, n
<1>5. QED
  BY <1>2, <1>3, <1>4, NodesTyped DEF n

\* A compilation fails at a comparison that fails.
LEMMA CompileFaults ==
    ASSUME NEW target, IsTarget(target), NEW e \in Expressions
    PROVE  LET result == compile_expression(target)[e]
               wrong(m) == m[2].k = "compare" /\ ~ CompileComparison(m[2], target).ok
           IN  /\ result.ok => \A m \in Nodes[e] : ~ wrong(m)
               /\ ~ result.ok => \E m \in Nodes[e] : m[1] = result.path /\ wrong(m)
<1> DEFINE C == compile_expression(target)
           wrong(m) == m[2].k = "compare" /\ ~ CompileComparison(m[2], target).ok
           Good(t) == /\ C[t].ok => \A m \in Nodes[t] : ~ wrong(m)
                      /\ ~ C[t].ok => \E m \in Nodes[t] : m[1] = C[t].path /\ wrong(m)
           P == {t \in Expressions : Good(t)}
<1>1. ASSUME NEW t \in Expressions, t.k = "compare" PROVE t \in P
  <2>1. Nodes[t] = {<<<<>>, t>>} /\ C[t] = CompileComparison(t, target)
    BY <1>1, NodesIs, CompileIs
  <2>2. t \in Comparisons
    BY <1>1, ExpressionsLeafy, TreeShape DEF Expressions
  <2>3. ~ C[t].ok => C[t] = Err(<<>>)
    BY <2>1, <2>2, ComparisonIs
  <2>4. ~ C[t].ok => C[t].path = <<>>
    BY <2>3, Results
  <2> HIDE DEF C
  <2>5. Good(t)
    BY <1>1, <2>1, <2>4
  <2>6. QED
    BY <2>5
<1>2. ASSUME NEW t \in Expressions, t.k # "compare", \A i \in DOMAIN t.args : t.args[i] \in P
      PROVE  t \in P
  <2> DEFINE n == Len(t.args)
  <2>1. DOMAIN t.args = 1 .. n
    BY <1>2, FirstIs
  <2>2. \A i \in 1 .. n : Good(t.args[i])
    BY <1>2, <2>1
  <2>3. /\ C[t].ok => \A i \in 1 .. n : C[t.args[i]].ok
        /\ ~ C[t].ok => \E i \in 1 .. n : ~ C[t.args[i]].ok /\ C[t].path = <<i>> \o C[t.args[i]].path
    BY <1>2, CompiledParts
  <2>4. /\ \A m \in Nodes[t] : \/ m = <<<<>>, t>>
                               \/ \E j \in 1 .. n : \E x \in Nodes[t.args[j]] : m = <<<<j>> \o x[1], x[2]>>
        /\ \A j \in 1 .. n : \A x \in Nodes[t.args[j]] : <<<<j>> \o x[1], x[2]>> \in Nodes[t]
    BY <1>2, NodeOf
  <2> HIDE DEF n, C
  <2>5. ASSUME C[t].ok, NEW m \in Nodes[t] PROVE ~ wrong(m)
    <3>1. CASE m = <<<<>>, t>>
      BY <1>2, <3>1
    <3>2. CASE \E j \in 1 .. n : \E x \in Nodes[t.args[j]] : m = <<<<j>> \o x[1], x[2]>>
      <4>1. PICK j \in 1 .. n : \E x \in Nodes[t.args[j]] : m = <<<<j>> \o x[1], x[2]>>
        BY <3>2
      <4>2. PICK x \in Nodes[t.args[j]] : m = <<<<j>> \o x[1], x[2]>>
        BY <4>1
      <4>3. ~ wrong(x) /\ m[2] = x[2]
        BY <2>2, <2>3, <2>5, <4>2
      <4>4. QED
        BY <4>3
    <3>3. QED
      BY <2>4, <3>1, <3>2
  <2>6. ASSUME ~ C[t].ok PROVE \E m \in Nodes[t] : m[1] = C[t].path /\ wrong(m)
    <3>1. PICK i \in 1 .. n : ~ C[t.args[i]].ok /\ C[t].path = <<i>> \o C[t.args[i]].path
      BY <2>3, <2>6
    <3>2. PICK x \in Nodes[t.args[i]] : x[1] = C[t.args[i]].path /\ wrong(x)
      BY <2>2, <3>1
    <3> DEFINE m == <<<<i>> \o x[1], x[2]>>
    <3>3. m \in Nodes[t]
      BY <2>4
    <3>4. m[1] = C[t].path /\ m[2] = x[2]
      BY <3>1, <3>2
    <3> HIDE DEF m
    <3>5. QED
      BY <3>2, <3>3, <3>4
  <2>7. Good(t)
    BY <2>5, <2>6
  <2>8. QED
    BY <2>7
<1>3. \A t \in Expressions : t \in P
  <2> HIDE DEF P
  <2>1. QED
    BY <1>1, <1>2, ExpressionsLeafy, TreeInduction DEF Expressions
<1>4. QED
  BY <1>3

\* How many nodes are read before one in the i-th part.
LEMMA BeforeCounts ==
    ASSUME NEW e \in Expressions, e.k # "compare", NEW i \in 1 .. Len(e.args), NEW q \in Seq(Nat)
    PROVE  Cardinality({x \in Nodes[e] : Before(x[1], <<i>> \o q)})
              = Cardinality(First(e, i - 1)) + Cardinality({x \in Nodes[e.args[i]] : Before(x[1], q)})
<1> DEFINE n == Len(e.args)
           c == <<i>> \o q
           T == {x \in Nodes[e.args[i]] : Before(x[1], q)}
           A == First(e, i - 1)
           B == Lift(i, T)
           W == {x \in Nodes[e] : Before(x[1], c)}
<1>1. n \in Nat /\ i \in Nat /\ i - 1 \in 0 .. n /\ DOMAIN e.args = 1 .. n
  BY FirstIs
<1>2. /\ \A m \in Nodes[e] : \/ m = <<<<>>, e>>
                             \/ \E j \in 1 .. n : \E x \in Nodes[e.args[j]] : m = <<<<j>> \o x[1], x[2]>>
      /\ \A j \in 1 .. n : \A x \in Nodes[e.args[j]] : <<<<j>> \o x[1], x[2]>> \in Nodes[e]
      /\ \A j \in 1 .. n : /\ e.args[j] \in Expressions
                           /\ Nodes[e.args[j]] \in SUBSET Placed /\ IsFiniteSet(Nodes[e.args[j]])
  BY NodeOf
<1>3. /\ A \in SUBSET Placed /\ IsFiniteSet(A)
      /\ \A x \in A : x[1] # <<>> => x[1][1] \in 1 .. i - 1
  <2>1. \A j \in DOMAIN e.args : Nodes[e.args[j]] \in SUBSET Placed /\ IsFiniteSet(Nodes[e.args[j]])
    BY <1>1, <1>2
  <2>2. QED
    BY <1>1, <2>1, FirstCounts
<1>4. T \in SUBSET Placed /\ IsFiniteSet(T) /\ T \in SUBSET Nodes[e.args[i]]
  <2>1. T \in SUBSET Nodes[e.args[i]]
    OBVIOUS
  <2>2. IsFiniteSet(Nodes[e.args[i]]) /\ Nodes[e.args[i]] \in SUBSET Placed
    BY <1>2
  <2> HIDE DEF T
  <2>3. IsFiniteSet(T)
    BY <2>1, <2>2, FS_Subset
  <2>4. QED
    BY <2>1, <2>2, <2>3
<1>5. B \in SUBSET Placed /\ IsFiniteSet(B) /\ Cardinality(B) = Cardinality(T)
  <2> HIDE DEF T
  <2>1. QED
    BY <1>1, <1>4, LiftIs
<1>6. \A x \in B : x[1] # <<>> /\ x[1][1] = i
  <2> SUFFICES ASSUME NEW x \in T PROVE <<i>> \o x[1] # <<>> /\ (<<i>> \o x[1])[1] = i
    BY DEF Lift
  <2>1. x[1] \in Seq(Nat)
    BY <1>4 DEF Placed
  <2>2. Len(<<i>> \o x[1]) = Len(x[1]) + 1 /\ (<<i>> \o x[1])[1] = i /\ Len(x[1]) \in Nat
    BY <1>1, <2>1, ConsIs
  <2>3. QED
    BY <2>2
<1>7. ASSUME NEW j \in 1 .. n, NEW x \in Nodes[e.args[j]]
      PROVE  Before(<<j>> \o x[1], c) <=> (j < i \/ (j = i /\ Before(x[1], q)))
  <2>1. x[1] \in Seq(Nat) /\ j \in Nat
    BY <1>1, <1>2 DEF Placed
  <2>2. QED
    BY <1>1, <2>1, BeforeIs
<1>8. Before(<<>>, c)
  BY <1>1, BeforeIs
<1>9. First(e, i - 1) = {<<<<>>, e>>} \cup UNION {Lift(j, Nodes[e.args[j]]) : j \in 1 .. i - 1}
  BY DEF First
<1> HIDE DEF c, n
<1>10. ASSUME NEW m \in W PROVE m \in A \cup B
  <2>1. m \in Nodes[e] /\ Before(m[1], c)
    OBVIOUS
  <2>2. CASE m = <<<<>>, e>>
    BY <1>9, <2>2
  <2>3. CASE \E j \in 1 .. n : \E x \in Nodes[e.args[j]] : m = <<<<j>> \o x[1], x[2]>>
    <3>1. PICK j \in 1 .. n : \E x \in Nodes[e.args[j]] : m = <<<<j>> \o x[1], x[2]>>
      BY <2>3
    <3>2. PICK x \in Nodes[e.args[j]] : m = <<<<j>> \o x[1], x[2]>>
      BY <3>1
    <3>3. m[1] = <<j>> \o x[1]
      BY <3>2
    <3>4. j < i \/ (j = i /\ Before(x[1], q))
      BY <1>7, <2>1, <3>3
    <3>5. CASE j < i
      <4>1. j \in 1 .. i - 1 /\ m \in Lift(j, Nodes[e.args[j]])
        BY <1>1, <3>2, <3>5 DEF Lift
      <4>2. QED
        BY <1>9, <4>1
    <3>6. CASE j = i /\ Before(x[1], q)
      BY <3>2, <3>6 DEF Lift
    <3>7. QED
      BY <3>4, <3>5, <3>6
  <2>4. QED
    BY <1>2, <2>1, <2>2, <2>3
<1>11. ASSUME NEW m \in A PROVE m \in W
  <2>1. CASE m = <<<<>>, e>>
    BY <1>8, <2>1, NodesTyped
  <2>2. CASE \E j \in 1 .. i - 1 : m \in Lift(j, Nodes[e.args[j]])
    <3>1. PICK j \in 1 .. i - 1 : m \in Lift(j, Nodes[e.args[j]])
      BY <2>2
    <3>2. PICK x \in Nodes[e.args[j]] : m = <<<<j>> \o x[1], x[2]>>
      BY <3>1 DEF Lift
    <3>3. j \in 1 .. n /\ j < i
      BY <1>1 DEF n
    <3>4. m \in Nodes[e] /\ m[1] = <<j>> \o x[1]
      BY <1>2, <3>2, <3>3
    <3>5. QED
      BY <1>7, <3>3, <3>4
  <2>3. QED
    BY <1>9, <2>1, <2>2
<1>12. ASSUME NEW m \in B PROVE m \in W
  <2>1. PICK x \in T : m = <<<<i>> \o x[1], x[2]>>
    BY DEF Lift
  <2>2. i \in 1 .. n /\ x \in Nodes[e.args[i]] /\ Before(x[1], q)
    BY DEF n
  <2>3. m \in Nodes[e] /\ m[1] = <<i>> \o x[1]
    BY <1>2, <2>1, <2>2
  <2>4. QED
    BY <1>7, <2>2, <2>3
<1> HIDE DEF A, B, W, T
<1>13. W = A \cup B
  BY <1>10, <1>11, <1>12
<1>14. A \cap B = {}
  <2>1. \A x \in A : x \notin B
    BY <1>1, <1>3, <1>6
  <2>2. QED
    BY <2>1
<1>15. Cardinality(A \cup B) = Cardinality(A) + Cardinality(B)
  <2>1. Cardinality(A) \in Nat /\ Cardinality(B) \in Nat
    BY <1>3, <1>5, FS_CardinalityType
  <2>2. Cardinality(A \cup B) = Cardinality(A) + Cardinality(B) - Cardinality({})
    BY <1>3, <1>5, <1>14, FS_Union
  <2>3. Cardinality({}) = 0
    BY FS_EmptySet
  <2>4. QED
    BY <2>1, <2>2, <2>3
<1>16. QED
  BY <1>5, <1>13, <1>15 DEF W, A, T, c

\* A node, with its path in an expression that stands at some depth, is one that
\* visit refuses for its own sake.
VisitFault(p, node, depth) ==
    \/ depth + Len(p) > MaxDepth
    \/ node.k \in {"and", "or"} /\ Len(node.args) \notin 2 .. MaxChildren

VisitResults == {Ok(v) : v \in 0 .. MaxNodes} \cup {Err(p) : p \in Seq(Nat)}

\* A result of visit is a number of nodes within the limit or a path.
LEMMA VisitResultsAre ==
    /\ \A v \in 0 .. MaxNodes : Ok(v) \in VisitResults
    /\ \A p \in Seq(Nat) : Err(p) \in VisitResults
    /\ Err(<<>>) \in VisitResults
    /\ \A r \in VisitResults : /\ r.ok \in BOOLEAN
                               /\ r.ok => r.v \in 0 .. MaxNodes
                               /\ ~ r.ok => r.path \in Seq(Nat)
                               /\ \A i \in Nat : Inside(i, r) \in VisitResults
<1>1. /\ \A v \in 0 .. MaxNodes : Ok(v) \in VisitResults
      /\ \A p \in Seq(Nat) : Err(p) \in VisitResults
  BY DEF VisitResults
<1>2. Err(<<>>) \in VisitResults
  <2>1. <<>> \in Seq(Nat)
    OBVIOUS
  <2>2. QED
    BY <1>1, <2>1
<1>3. ASSUME NEW r \in VisitResults
      PROVE  /\ r.ok \in BOOLEAN
             /\ r.ok => r.v \in 0 .. MaxNodes
             /\ ~ r.ok => r.path \in Seq(Nat)
             /\ \A i \in Nat : Inside(i, r) \in VisitResults
  <2>1. CASE \E v \in 0 .. MaxNodes : r = Ok(v)
    <3>1. PICK v \in 0 .. MaxNodes : r = Ok(v)
      BY <2>1
    <3>2. r.ok = TRUE /\ r.v = v
      BY <3>1, Results
    <3>3. QED
      BY <3>2 DEF Inside
  <2>2. CASE \E p \in Seq(Nat) : r = Err(p)
    <3>1. PICK p \in Seq(Nat) : r = Err(p)
      BY <2>2
    <3>2. r.ok = FALSE /\ r.path = p
      BY <3>1, Results
    <3>3. ASSUME NEW i \in Nat PROVE Inside(i, r) \in VisitResults
      <4>1. Inside(i, r) = Err(<<i>> \o p)
        BY <3>2 DEF Inside
      <4>2. <<i>> \o p \in Seq(Nat)
        BY ConsIs
      <4>3. QED
        BY <4>1, <4>2, <1>1
    <3>4. QED
      BY <3>2, <3>3
  <2>3. QED
    BY <2>1, <2>2 DEF VisitResults
<1>4. QED
  BY <1>1, <1>2, <1>3

\* A round of the loop of visit, and the loop.
VisitStep(visits, depth, seen, i) ==
    IF seen.ok THEN Inside(i, visits[i][depth + 1][seen.v]) ELSE seen

VisitLoop(n, nodes, visits, depth) ==
    Loop(n, Ok(nodes + 1),
         LAMBDA seen, i : IF seen.ok THEN Inside(i, visits[i][depth + 1][seen.v]) ELSE seen)

\* a are the states of that loop.
IsVisit(a, n, nodes, visits, depth) ==
    /\ a[0] = Ok(nodes + 1)
    /\ \A i \in 1 .. n : a[i] = VisitStep(visits, depth, a[i - 1], i)
    /\ \A i \in 0 .. n : a[i] \in VisitResults
    /\ VisitLoop(n, nodes, visits, depth) = a[n]

\* The loop has a state after every round.
LEMMA VisitRounds ==
    ASSUME NEW n \in Nat, NEW nodes \in Nat, nodes + 1 <= MaxNodes, NEW depth, NEW visits,
           \A i \in 1 .. n : \A v \in 0 .. MaxNodes : visits[i][depth + 1][v] \in VisitResults
    PROVE  \E a : IsVisit(a, n, nodes, visits, depth)
<1> DEFINE S == VisitResults
           z == Ok(nodes + 1)
           step(seen, i) == VisitStep(visits, depth, seen, i)
           F == [i \in 1 .. n |-> [x \in S |-> step(x, i)]]
           Is(g) == g = [i \in 0 .. n |-> IF i = 0 THEN z ELSE step(g[i - 1], i)]
           a == CHOOSE g : Is(g)
<1>1. z \in S
  <2>1. nodes + 1 \in 0 .. MaxNodes
    BY LimitAssumption
  <2>2. QED
    BY <2>1, VisitResultsAre
<1>2. \A i \in 1 .. n, x \in S : step(x, i) \in S
  <2> SUFFICES ASSUME NEW i \in 1 .. n, NEW x \in S PROVE step(x, i) \in S
    OBVIOUS
  <2>1. CASE x.ok
    <3>1. x.v \in 0 .. MaxNodes /\ i \in Nat
      <4>1. x \in VisitResults /\ i \in Nat
        OBVIOUS
      <4>2. QED
        BY <2>1, <4>1, VisitResultsAre
    <3>2. visits[i][depth + 1][x.v] \in VisitResults
      BY <3>1
    <3>3. Inside(i, visits[i][depth + 1][x.v]) \in VisitResults
      BY <3>1, <3>2, VisitResultsAre
    <3>4. QED
      BY <2>1, <3>3 DEF VisitStep
  <2>2. CASE ~ x.ok
    BY <2>2 DEF VisitStep
  <2>3. QED
    BY <2>1, <2>2
<1>3. VisitLoop(n, nodes, visits, depth) = a[n]
  BY DEF Loop, VisitLoop, VisitStep
<1> HIDE DEF z, step, S
<1>4. F \in [1 .. n -> [S -> S]] /\ \A i \in 1 .. n, x \in S : F[i][x] = step(x, i)
  BY <1>2
<1> HIDE DEF F
<1>5. PICK g : g \in [0 .. n -> S] /\ g[0] = z /\ \A i \in 1 .. n : g[i] = F[i][g[i - 1]]
  <2>1. \E g : IsRun(g, n, S, z, F)
    BY <1>1, <1>4, Rounds
  <2>2. QED
    BY <2>1 DEF IsRun
<1>6. \A i \in 1 .. n : g[i] = step(g[i - 1], i)
  <2> SUFFICES ASSUME NEW i \in 1 .. n PROVE g[i] = step(g[i - 1], i)
    OBVIOUS
  <2>1. i - 1 \in 0 .. n /\ g[i - 1] \in S
    BY <1>5
  <2>2. QED
    BY <1>4, <1>5, <2>1
<1>7. g = [i \in 0 .. n |-> IF i = 0 THEN z ELSE step(g[i - 1], i)]
  BY <1>5, <1>6
<1>8. Is(a)
  <2> HIDE DEF Is
  <2>1. Is(g)
    BY <1>7 DEF Is
  <2>2. QED
    BY <2>1
<1> HIDE DEF a
<1>9. a[0] = z /\ \A i \in 1 .. n : a[i] = step(a[i - 1], i)
  BY <1>8
<1>10. \A i \in 0 .. n : a[i] \in S
  <2>1. a[0] \in S /\ \A i \in 1 .. n : a[i - 1] \in S => a[i] \in S
    BY <1>1, <1>2, <1>9
  <2>2. QED
    BY <2>1, Stays
<1>11. QED
  <2>1. IsVisit(a, n, nodes, visits, depth)
    BY <1>3, <1>9, <1>10 DEF z, step, S, IsVisit
  <2>2. QED
    BY <2>1

\* A part stands one level below the whole.
LEMMA FaultInside ==
    ASSUME NEW i \in Nat, NEW p \in Seq(Nat), NEW node, NEW depth \in Nat
    PROVE  VisitFault(<<i>> \o p, node, depth) <=> VisitFault(p, node, depth + 1)
<1> DEFINE c == <<i>> \o p
<1>1. Len(c) = Len(p) + 1 /\ Len(p) \in Nat
  BY ConsIs
<1> HIDE DEF c
<1>2. depth + Len(c) = depth + 1 + Len(p)
  BY <1>1
<1>3. QED
  BY <1>2 DEF VisitFault, c

\* visit gives up on a path: it leads to a node that is refused, or to the first
\* node beyond the limit.
GivesUp(e, depth, nodes, path) ==
    \E m \in Nodes[e] :
       /\ m[1] = path
       /\ \/ VisitFault(m[1], m[2], depth)
          \/ nodes + Cardinality({x \in Nodes[e] : Before(x[1], path)}) = MaxNodes

\* What visit finds out.
Seen(e, depth, nodes, r) ==
    /\ r \in VisitResults
    /\ r.ok => /\ r.v = nodes + Cardinality(Nodes[e])
               /\ \A m \in Nodes[e] : ~ VisitFault(m[1], m[2], depth)
    /\ ~ r.ok => GivesUp(e, depth, nodes, r.path)

\* At a root that is refused or beyond the limit.
LEMMA RootGivesUp ==
    ASSUME NEW e \in Expressions, NEW depth \in Nat, NEW nodes \in 0 .. MaxNodes,
           nodes = MaxNodes \/ VisitFault(<<>>, e, depth)
    PROVE  Seen(e, depth, nodes, Err(<<>>))
<1> DEFINE root == <<<<>>, e>>
           r == Err(<<>>)
<1>1. root \in Nodes[e] /\ root[1] = <<>> /\ root[2] = e /\ Nodes[e] \in SUBSET Placed
  BY NodesTyped
<1>2. r \in VisitResults /\ r.ok = FALSE /\ r.path = <<>>
  BY VisitResultsAre, Results
<1>3. {x \in Nodes[e] : Before(x[1], <<>>)} = {}
  <2> SUFFICES ASSUME NEW x \in Nodes[e] PROVE ~ Before(x[1], <<>>)
    OBVIOUS
  <2>1. x[1] \in Seq(Nat) /\ 0 \in Nat
    BY <1>1 DEF Placed
  <2>2. QED
    BY <2>1, BeforeIs
<1>4. Cardinality({x \in Nodes[e] : Before(x[1], <<>>)}) = 0
  BY <1>3, FS_EmptySet
<1> HIDE DEF root, r
<1>5. VisitFault(root[1], root[2], depth)
      \/ nodes + Cardinality({x \in Nodes[e] : Before(x[1], <<>>)}) = MaxNodes
  <2>1. CASE nodes = MaxNodes
    BY <1>4, <2>1, LimitAssumption
  <2>2. CASE VisitFault(<<>>, e, depth)
    BY <1>1, <2>2
  <2>3. QED
    BY <2>1, <2>2
<1>6. GivesUp(e, depth, nodes, <<>>)
  BY <1>1, <1>5 DEF GivesUp
<1>7. QED
  BY <1>2, <1>6 DEF Seen, r

\* A part that is given up on gives up on the whole.
LEMMA PartGivesUp ==
    ASSUME NEW e \in Expressions, e.k # "compare", NEW i \in 1 .. Len(e.args),
           NEW depth \in Nat, NEW nodes \in Nat, NEW before \in Nat, NEW path \in Seq(Nat),
           before = nodes + Cardinality(First(e, i - 1)),
           GivesUp(e.args[i], depth + 1, before, path)
    PROVE  GivesUp(e, depth, nodes, <<i>> \o path)
<1> DEFINE t == e.args[i]
           inPart == Cardinality({x \in Nodes[t] : Before(x[1], path)})
           c == <<i>> \o path
           inWhole == Cardinality({x \in Nodes[e] : Before(x[1], c)})
<1>1. /\ Nodes[t] \in SUBSET Placed /\ IsFiniteSet(Nodes[t]) /\ t \in Expressions
      /\ \A x \in Nodes[t] : <<<<i>> \o x[1], x[2]>> \in Nodes[e]
  BY NodeOf
<1>2. PICK x \in Nodes[t] :
         /\ x[1] = path
         /\ VisitFault(x[1], x[2], depth + 1) \/ before + inPart = MaxNodes
  BY DEF GivesUp
<1>3. inWhole = Cardinality(First(e, i - 1)) + inPart
  BY BeforeCounts
<1>4. Cardinality(First(e, i - 1)) \in Nat /\ inPart \in Nat
  <2>1. /\ Len(e.args) \in Nat /\ DOMAIN e.args = 1 .. Len(e.args)
    BY FirstIs
  <2>2. \A j \in DOMAIN e.args : Nodes[e.args[j]] \in SUBSET Placed /\ IsFiniteSet(Nodes[e.args[j]])
    BY <2>1, NodeOf
  <2>3. i - 1 \in 0 .. Len(e.args)
    BY <2>1
  <2>4. IsFiniteSet(First(e, i - 1))
    BY <2>2, <2>3, FirstCounts
  <2>5. IsFiniteSet({y \in Nodes[t] : Before(y[1], path)})
    <3> DEFINE T == {y \in Nodes[t] : Before(y[1], path)}
    <3>1. T \in SUBSET Nodes[t]
      OBVIOUS
    <3> HIDE DEF T
    <3>2. IsFiniteSet(T)
      BY <1>1, <3>1, FS_Subset
    <3>3. QED
      BY <3>2 DEF T
  <2>6. QED
    BY <2>4, <2>5, FS_CardinalityType
<1> DEFINE m == <<c, x[2]>>
<1>5. m \in Nodes[e] /\ m[1] = c /\ m[2] = x[2]
  BY <1>1, <1>2
<1>6. i \in Nat
  OBVIOUS
<1>7. VisitFault(path, x[2], depth + 1) => VisitFault(c, x[2], depth)
  BY <1>6, FaultInside
<1> HIDE DEF t, inPart, inWhole, m, c
<1>8. before + inPart = MaxNodes => nodes + inWhole = MaxNodes
  BY <1>3, <1>4
<1>9. VisitFault(m[1], m[2], depth) \/ nodes + inWhole = MaxNodes
  BY <1>2, <1>5, <1>7, <1>8
<1>10. QED
  BY <1>5, <1>9 DEF GivesUp, inWhole, c

SeenAlways(e) ==
    \A depth \in Nat, nodes \in 0 .. MaxNodes : Seen(e, depth, nodes, visit[e][depth][nodes])

\* What visit does at a node.
LEMMA VisitAt ==
    ASSUME NEW e \in Expressions, NEW depth \in Nat, NEW nodes \in Nat
    PROVE  visit[e][depth][nodes] =
             IF nodes + 1 > MaxNodes \/ depth > MaxDepth THEN Err(<<>>)
             ELSE IF e.k = "compare" THEN Ok(nodes + 1)
             ELSE IF e.k # "not" /\ Len(e.args) \notin 2 .. MaxChildren THEN Err(<<>>)
             ELSE VisitLoop(Len(e.args), nodes, Visits(e.args), depth)
<1> DEFINE visits == IF e.k = "compare" THEN <<>> ELSE [i \in DOMAIN e.args |-> visit[e.args[i]]]
<1>1. visit[e] = [d \in Nat |-> [m \in Nat |-> Visit(e, visits, d, m)]]
  BY VisitIs
<1>2. e.k # "compare" => visits = Visits(e.args)
  BY DEF Visits
<1> HIDE DEF visits
<1>3. visit[e][depth][nodes] = Visit(e, visits, depth, nodes)
  BY <1>1
<1>4. Visit(e, visits, depth, nodes) =
        IF nodes + 1 > MaxNodes \/ depth > MaxDepth THEN Err(<<>>)
        ELSE IF e.k = "compare" THEN Ok(nodes + 1)
        ELSE IF e.k # "not" /\ Len(e.args) \notin 2 .. MaxChildren THEN Err(<<>>)
        ELSE VisitLoop(Len(e.args), nodes, visits, depth)
  BY DEF Visit, VisitLoop
<1>5. QED
  BY <1>2, <1>3, <1>4

\* The loop of visit, after i parts.
SeenParts(e, depth, nodes, i, r) ==
    /\ r.ok => /\ r.v = nodes + Cardinality(First(e, i))
               /\ \A j \in 1 .. i : \A x \in Nodes[e.args[j]] : ~ VisitFault(x[1], x[2], depth + 1)
    /\ ~ r.ok => GivesUp(e, depth, nodes, r.path)

\* A round keeps what is known.
LEMMA PartSeen ==
    ASSUME NEW e \in Expressions, e.k # "compare", NEW m \in Nat, m + 1 \in 1 .. Len(e.args),
           SeenAlways(e.args[m + 1]), NEW depth \in Nat, NEW nodes \in Nat,
           NEW r \in VisitResults, SeenParts(e, depth, nodes, m, r)
    PROVE  SeenParts(e, depth, nodes, m + 1, VisitStep(Visits(e.args), depth, r, m + 1))
<1> DEFINE i == m + 1
           t == e.args[i]
           s == VisitStep(Visits(e.args), depth, r, i)
           q == visit[t][depth + 1][r.v]
<1>1. Len(e.args) \in Nat /\ DOMAIN e.args = 1 .. Len(e.args)
  BY FirstIs
<1>2. CASE ~ r.ok
  BY <1>2 DEF SeenParts, VisitStep
<1>3. CASE r.ok
  <2>1. r.v \in 0 .. MaxNodes /\ r.v \in Nat /\ depth + 1 \in Nat /\ i - 1 = m
    <3>1. r.v \in 0 .. MaxNodes
      BY <1>3, VisitResultsAre
    <3>2. QED
      BY <3>1, LimitAssumption
  <2>2. Seen(t, depth + 1, r.v, q)
    BY <2>1 DEF SeenAlways
  <2>3. s = Inside(i, q)
    BY <1>1, <1>3 DEF VisitStep, Visits
  <2>4. /\ r.v = nodes + Cardinality(First(e, m))
        /\ \A j \in 1 .. m : \A x \in Nodes[e.args[j]] : ~ VisitFault(x[1], x[2], depth + 1)
    BY <1>3 DEF SeenParts
  <2>5. CASE q.ok
    <3>1. s = q
      BY <2>3, <2>5 DEF Inside
    <3>2. q.v = r.v + Cardinality(Nodes[t]) /\ \A x \in Nodes[t] : ~ VisitFault(x[1], x[2], depth + 1)
      BY <2>2, <2>5 DEF Seen
    <3>3. \A j \in DOMAIN e.args : Nodes[e.args[j]] \in SUBSET Placed /\ IsFiniteSet(Nodes[e.args[j]])
      BY <1>1, NodeOf
    <3>4. /\ Cardinality(First(e, i)) = Cardinality(First(e, m)) + Cardinality(Nodes[t])
          /\ IsFiniteSet(First(e, m)) /\ IsFiniteSet(Nodes[t])
      <4>1. i \in 0 .. Len(e.args) /\ m \in 0 .. Len(e.args) /\ i # 0 /\ i \in DOMAIN e.args
        BY <1>1, <2>1
      <4>2. \A j \in 0 .. Len(e.args) :
               /\ IsFiniteSet(First(e, j))
               /\ j # 0 => Cardinality(First(e, j)) =
                              Cardinality(First(e, j - 1)) + Cardinality(Nodes[e.args[j]])
        BY <3>3, FirstCounts
      <4>3. IsFiniteSet(Nodes[e.args[i]])
        BY <3>3, <4>1
      <4> HIDE DEF i
      <4>4. QED
        BY <2>1, <4>1, <4>2, <4>3
    <3>5. Cardinality(First(e, m)) \in Nat /\ Cardinality(Nodes[t]) \in Nat
      BY <3>4, FS_CardinalityType
    <3> HIDE DEF t, q, s
    <3>6. s.v = nodes + Cardinality(First(e, i))
      BY <2>4, <3>1, <3>2, <3>4, <3>5
    <3>7. \A j \in 1 .. i : j \in 1 .. m \/ j = i
      OBVIOUS
    <3>8. \A j \in 1 .. i : \A x \in Nodes[e.args[j]] : ~ VisitFault(x[1], x[2], depth + 1)
      BY <2>4, <3>2, <3>7 DEF t
    <3>9. QED
      BY <2>5, <3>1, <3>6, <3>8 DEF SeenParts, s
  <2>6. CASE ~ q.ok
    <3>1. GivesUp(t, depth + 1, r.v, q.path) /\ q \in VisitResults
      BY <2>2, <2>6 DEF Seen
    <3>2. q.path \in Seq(Nat)
      BY <2>6, <3>1, VisitResultsAre
    <3>3. s.ok = FALSE /\ s.path = <<i>> \o q.path
      BY <2>3, <2>6, Results DEF Inside
    <3>4. i \in 1 .. Len(e.args)
      OBVIOUS
    <3> DEFINE p == q.path
               b == r.v
    <3>5. b = nodes + Cardinality(First(e, i - 1)) /\ b \in Nat /\ p \in Seq(Nat)
          /\ GivesUp(e.args[i], depth + 1, b, p)
      BY <2>1, <2>4, <3>1, <3>2
    <3> HIDE DEF p, b, i, q, s, t
    <3>6. GivesUp(e, depth, nodes, <<i>> \o p)
      BY <3>4, <3>5, PartGivesUp
    <3>7. QED
      BY <3>3, <3>6 DEF SeenParts, p, s, i
  <2>7. QED
    BY <2>5, <2>6
<1>4. QED
  BY <1>2, <1>3

\* visit counts the nodes and stops where it should.
LEMMA VisitSees ==
    ASSUME NEW e \in Expressions
    PROVE  SeenAlways(e)
<1> DEFINE P == {t \in Expressions : SeenAlways(t)}
<1>1. ASSUME NEW t \in Expressions, NEW depth \in Nat, NEW nodes \in 0 .. MaxNodes,
             t.k # "compare" => \A i \in DOMAIN t.args : SeenAlways(t.args[i])
      PROVE  Seen(t, depth, nodes, visit[t][depth][nodes])
  <2> DEFINE r == visit[t][depth][nodes]
             n == Len(t.args)
  <2>1. nodes \in Nat /\ <<>> \in Seq(Nat) /\ Len(<<>>) = 0
    OBVIOUS
  <2>2. r = IF nodes + 1 > MaxNodes \/ depth > MaxDepth THEN Err(<<>>)
            ELSE IF t.k = "compare" THEN Ok(nodes + 1)
            ELSE IF t.k # "not" /\ n \notin 2 .. MaxChildren THEN Err(<<>>)
            ELSE VisitLoop(n, nodes, Visits(t.args), depth)
    BY <2>1, VisitAt
  <2>3. t.k \in {"compare", "not", "and", "or"}
    BY ExpressionsLeafy, TreeShape DEF Expressions
  <2>4. CASE nodes + 1 > MaxNodes
    <3>1. nodes = MaxNodes
      BY <2>4, LimitAssumption
    <3>2. QED
      BY <2>2, <2>4, <3>1, RootGivesUp
  <2>5. CASE depth > MaxDepth
    <3>1. VisitFault(<<>>, t, depth)
      <4>1. depth + Len(<<>>) = depth
        BY <2>1
      <4>2. QED
        BY <2>5, <4>1 DEF VisitFault
    <3>2. QED
      BY <2>2, <2>5, <3>1, RootGivesUp
  <2> DEFINE inside == ~ (nodes + 1 > MaxNodes) /\ ~ (depth > MaxDepth)
  <2>6. inside => ~ (depth + Len(<<>>) > MaxDepth) /\ nodes + 1 <= MaxNodes /\ nodes + 1 \in 0 .. MaxNodes
    BY <2>1, LimitAssumption
  <2>7. CASE inside /\ t.k = "compare"
    <3>1. r = Ok(nodes + 1)
      BY <2>2, <2>7
    <3>2. r.ok = TRUE /\ r.v = nodes + 1 /\ r \in VisitResults
      BY <2>6, <2>7, <3>1, Results, VisitResultsAre
    <3>3. Nodes[t] = {<<<<>>, t>>} /\ Cardinality(Nodes[t]) = 1
      BY <2>7, NodesIs, RootIs
    <3>4. ~ VisitFault(<<>>, t, depth)
      BY <2>6, <2>7 DEF VisitFault
    <3>5. \A m \in Nodes[t] : ~ VisitFault(m[1], m[2], depth)
      BY <3>3, <3>4
    <3> HIDE DEF r
    <3>6. QED
      BY <3>2, <3>3, <3>5 DEF Seen, r
  <2>8. CASE inside /\ t.k # "compare" /\ t.k # "not" /\ n \notin 2 .. MaxChildren
    <3>1. VisitFault(<<>>, t, depth)
      BY <2>3, <2>8 DEF VisitFault
    <3>2. r = Err(<<>>)
      BY <2>2, <2>8
    <3>3. QED
      BY <3>1, <3>2, RootGivesUp
  <2>9. CASE inside /\ t.k # "compare" /\ ~ (t.k # "not" /\ n \notin 2 .. MaxChildren)
    <3> DEFINE visits == Visits(t.args)
    <3>1. r = VisitLoop(n, nodes, visits, depth)
      BY <2>2, <2>9
    <3>2. n \in Nat /\ DOMAIN t.args = 1 .. n /\ Nodes[t] = First(t, n) /\ First(t, 0) = {<<<<>>, t>>}
      BY <2>9, FirstIs
    <3>3. \A i \in 1 .. n : SeenAlways(t.args[i]) /\ visits[i] = visit[t.args[i]]
      BY <1>1, <2>9, <3>2 DEF Visits
    <3>4. \A i \in 1 .. n : \A v \in 0 .. MaxNodes : visits[i][depth + 1][v] \in VisitResults
      BY <3>3 DEF SeenAlways, Seen
    <3> HIDE DEF visits, r, n
    <3>5. PICK a : /\ a[0] = Ok(nodes + 1)
                   /\ \A i \in 1 .. n : a[i] = VisitStep(visits, depth, a[i - 1], i)
                   /\ \A i \in 0 .. n : a[i] \in VisitResults
                   /\ VisitLoop(n, nodes, visits, depth) = a[n]
      <4>1. nodes + 1 <= MaxNodes
        BY <2>6, <2>9
      <4>2. \E a : IsVisit(a, n, nodes, visits, depth)
        BY <2>1, <3>2, <3>4, <4>1, VisitRounds
      <4>3. QED
        BY <4>2 DEF IsVisit
    <3> DEFINE Q == {i \in 0 .. n : SeenParts(t, depth, nodes, i, a[i])}
    <3>6. 0 \in Q
      <4>1. a[0].ok = TRUE /\ a[0].v = nodes + 1 /\ 0 \in 0 .. n
        BY <3>2, <3>5, Results
      <4>2. Cardinality(First(t, 0)) = 1
        BY <3>2, RootIs
      <4>3. SeenParts(t, depth, nodes, 0, a[0])
        BY <4>1, <4>2 DEF SeenParts
      <4>4. QED
        BY <4>1, <4>3
    <3>7. ASSUME NEW m \in 0 .. n, m # n, m \in Q PROVE m + 1 \in Q
      <4>1. m \in Nat /\ m + 1 \in 1 .. n /\ m + 1 \in 0 .. n /\ (m + 1) - 1 = m
        BY <3>2, <3>7
      <4>2. a[m + 1] = VisitStep(visits, depth, a[m], m + 1) /\ a[m] \in VisitResults
        BY <3>5, <4>1
      <4>3. SeenAlways(t.args[m + 1]) /\ SeenParts(t, depth, nodes, m, a[m])
        BY <3>3, <3>7, <4>1
      <4>4. SeenParts(t, depth, nodes, m + 1, a[m + 1])
        BY <2>1, <2>9, <4>1, <4>2, <4>3, PartSeen DEF visits, n
      <4>5. QED
        BY <4>1, <4>4
    <3>8. n \in Q
      <4>1. \A m \in 0 .. n : m # n /\ m \in Q => m + 1 \in Q
        BY <3>7
      <4>2. n \in 0 .. n
        BY <3>2
      <4> HIDE DEF Q
      <4>3. QED
        BY <3>2, <3>6, <4>1, <4>2, Upwards
    <3>9. r \in VisitResults /\ SeenParts(t, depth, nodes, n, r)
      BY <3>1, <3>2, <3>5, <3>8
    <3>10. ASSUME r.ok, NEW m \in Nodes[t] PROVE ~ VisitFault(m[1], m[2], depth)
      <4>1. CASE m = <<<<>>, t>>
        <5>1. m[1] = <<>> /\ m[2] = t
          BY <4>1
        <5>2. ~ VisitFault(<<>>, t, depth)
          BY <2>6, <2>9 DEF VisitFault, n
        <5>3. QED
          BY <5>1, <5>2
      <4> DEFINE inPart == \E j \in 1 .. n : \E x \in Nodes[t.args[j]] : m = <<<<j>> \o x[1], x[2]>>
      <4>2. CASE inPart
        <5>1. PICK j \in 1 .. n : \E x \in Nodes[t.args[j]] : m = <<<<j>> \o x[1], x[2]>>
          BY <4>2
        <5>2. PICK x \in Nodes[t.args[j]] : m = <<<<j>> \o x[1], x[2]>>
          BY <5>1
        <5>3. ~ VisitFault(x[1], x[2], depth + 1)
          BY <3>9, <3>10 DEF SeenParts
        <5>4. x[1] \in Seq(Nat) /\ j \in Nat
          <6>1. Nodes[t.args[j]] \in SUBSET Placed
            BY <2>9, NodeOf DEF n
          <6>2. QED
            BY <6>1 DEF Placed
        <5>5. m[1] = <<j>> \o x[1] /\ m[2] = x[2]
          BY <5>2
        <5>6. QED
          BY <5>3, <5>4, <5>5, FaultInside
      <4>3. m = <<<<>>, t>> \/ inPart
        BY <2>9, NodeOf DEF n
      <4> HIDE DEF inPart
      <4>4. QED
        BY <4>1, <4>2, <4>3
    <3>11. r.ok => r.v = nodes + Cardinality(Nodes[t])
      BY <3>2, <3>9 DEF SeenParts
    <3>12. ~ r.ok => GivesUp(t, depth, nodes, r.path)
      BY <3>9 DEF SeenParts
    <3>13. QED
      BY <3>9, <3>10, <3>11, <3>12 DEF Seen, r
  <2>10. QED
    BY <2>4, <2>5, <2>7, <2>8, <2>9
<1>2. ASSUME NEW t \in Expressions, t.k = "compare" PROVE t \in P
  BY <1>1, <1>2 DEF SeenAlways
<1>3. ASSUME NEW t \in Expressions, t.k # "compare", \A i \in DOMAIN t.args : t.args[i] \in P
      PROVE  t \in P
  BY <1>1, <1>3 DEF SeenAlways
<1>4. \A t \in Expressions : t \in P
  <2> HIDE DEF P
  <2>1. QED
    BY <1>2, <1>3, ExpressionsLeafy, TreeInduction DEF Expressions
<1>5. QED
  BY <1>4

\* The first node beyond the limit is one too many.
LEMMA OneTooMany ==
    ASSUME NEW e \in Expressions, NEW m \in Nodes[e],
           Cardinality({x \in Nodes[e] : Before(x[1], m[1])}) = MaxNodes
    PROVE  Cardinality(Nodes[e]) > MaxNodes
<1> DEFINE T == {x \in Nodes[e] : Before(x[1], m[1])}
           N == Nodes[e]
<1>1. N \in SUBSET Placed /\ IsFiniteSet(N)
  BY NodesTyped
<1>2. ~ Before(m[1], m[1])
  <2> DEFINE p == m[1]
  <2>1. p \in Seq(Nat)
    BY <1>1 DEF Placed
  <2> HIDE DEF p
  <2>2. Len(p) \in Nat /\ \A i \in DOMAIN p : p[i] \in Nat
    BY <2>1
  <2>3. QED
    BY <2>2 DEF Before, p
<1>3. T \in SUBSET N /\ m \notin T
  BY <1>2
<1>4. m \in N
  OBVIOUS
<1>5. Cardinality(T) = MaxNodes
  OBVIOUS
<1> HIDE DEF T, N
<1>6. IsFiniteSet(T)
  BY <1>1, <1>3, FS_Subset
<1>7. Cardinality(T \cup {m}) = Cardinality(T) + 1
  BY <1>3, <1>6, FS_AddElement
<1>8. T \cup {m} \in SUBSET N
  BY <1>3, <1>4
<1>9. Cardinality(T \cup {m}) <= Cardinality(N)
  BY <1>1, <1>8, FS_Subset
<1>10. Cardinality(N) \in Nat
  BY <1>1, FS_CardinalityType
<1>11. Cardinality(N) > MaxNodes
  BY <1>5, <1>7, <1>9, <1>10, LimitAssumption
<1>12. QED
  BY <1>11 DEF N

\* A fault is one of visit or one of compilation.
LEMMA FaultIs ==
    ASSUME NEW target, NEW p \in Seq(Nat), NEW node
    PROVE  IsFault(p, node, target)
              <=> VisitFault(p, node, 1) \/ (node.k = "compare" /\ ~ CompileComparison(node, target).ok)
<1>1. Len(p) >= MaxDepth <=> 1 + Len(p) > MaxDepth
  BY LimitAssumption
<1>2. QED
  BY <1>1 DEF IsFault, VisitFault

Faults(e, target) == {n[1] : n \in {m \in Nodes[e] : IsFault(m[1], m[2], target)}}

\* The path leads to the first node beyond the limit.
IsBeyond(e, path) ==
    /\ \E n \in Nodes[e] : n[1] = path
    /\ Cardinality({n \in Nodes[e] : Before(n[1], path)}) = MaxNodes

\* What prepare lets through, and where it stops.
LEMMA PrepareStops ==
    ASSUME NEW target, IsTarget(target), NEW e \in Expressions
    PROVE  LET result == prepare(e, target)
           IN  /\ result.ok \in BOOLEAN
               /\ result.ok <=> /\ Faults(e, target) = {} /\ ~ (Size[e] > MaxBytes)
                                /\ ~ (Cardinality(Nodes[e]) > MaxNodes)
               /\ ~ result.ok => \/ Size[e] > MaxBytes /\ result.path = <<>>
                                 \/ result.path \in Faults(e, target)
                                 \/ IsBeyond(e, result.path)
<1> DEFINE C == compile_expression(target)[e]
           V == visit[e][1][0]
           large == Size[e] > MaxBytes
           many == Cardinality(Nodes[e]) > MaxNodes
           wrong(m) == m[2].k = "compare" /\ ~ CompileComparison(m[2], target).ok
           good == Ok([definition |-> [version |-> FILTER_VERSION, expression |-> C.v.source],
                       filter |-> C.v.compiled])
           F == Faults(e, target)
           r == prepare(e, target)
<1>1. r = IF large THEN Err(<<>>) ELSE IF ~ V.ok THEN V ELSE IF ~ C.ok THEN C ELSE good
  <2>1. validate_limits(e) = IF large THEN Err(<<>>) ELSE V
    BY DEF validate_limits
  <2>2. r = IF ~ validate_limits(e).ok THEN validate_limits(e) ELSE IF ~ C.ok THEN C ELSE good
    BY DEF prepare
  <2>3. Err(<<>>).ok = FALSE
    BY Results
  <2> HIDE DEF C, V, large, good, r
  <2>4. QED
    BY <2>1, <2>2, <2>3
<1>2. /\ C.ok \in BOOLEAN
      /\ C.ok => \A m \in Nodes[e] : ~ wrong(m)
      /\ ~ C.ok => \E m \in Nodes[e] : m[1] = C.path /\ wrong(m)
  BY CompileFaults, CompiledTyped
<1>3. Seen(e, 1, 0, V)
  <2>1. 0 \in 0 .. MaxNodes /\ 1 \in Nat
    BY LimitAssumption
  <2>2. QED
    BY <2>1, VisitSees DEF SeenAlways
<1>4. \A m \in Nodes[e] : IsFault(m[1], m[2], target) <=> VisitFault(m[1], m[2], 1) \/ wrong(m)
  <2> SUFFICES ASSUME NEW m \in Nodes[e]
               PROVE  IsFault(m[1], m[2], target) <=> VisitFault(m[1], m[2], 1) \/ wrong(m)
    OBVIOUS
  <2>1. m[1] \in Seq(Nat)
    BY NodesTyped DEF Placed
  <2>2. QED
    BY <2>1, FaultIs
<1>5. V.ok \in BOOLEAN /\ (V.ok => V.v \in 0 .. MaxNodes)
  BY <1>3, VisitResultsAre DEF Seen
<1>6. good.ok = TRUE /\ Err(<<>>).ok = FALSE /\ Err(<<>>).path = <<>>
  BY Results
<1>7. \A m \in Nodes[e] : IsFault(m[1], m[2], target) => m[1] \in F
  BY DEF Faults
<1>8. F # {} => \E m \in Nodes[e] : IsFault(m[1], m[2], target)
  BY DEF Faults
<1> HIDE DEF C, wrong, good, F, r, V
<1>9. ASSUME V.ok PROVE ~ many /\ \A m \in Nodes[e] : ~ VisitFault(m[1], m[2], 1)
  <2>1. V.v = 0 + Cardinality(Nodes[e]) /\ \A m \in Nodes[e] : ~ VisitFault(m[1], m[2], 1)
    BY <1>3, <1>9 DEF Seen
  <2>2. Cardinality(Nodes[e]) \in Nat
    BY NodesTyped, FS_CardinalityType
  <2>3. V.v \in 0 .. MaxNodes
    BY <1>5, <1>9
  <2>4. ~ many
    BY <2>1, <2>2, <2>3, LimitAssumption
  <2>5. QED
    BY <2>1, <2>4
<1>10. ASSUME ~ V.ok PROVE V.path \in F \/ (IsBeyond(e, V.path) /\ many)
  <2>1. GivesUp(e, 1, 0, V.path)
    BY <1>3, <1>10 DEF Seen
  <2>2. PICK m \in Nodes[e] :
           /\ m[1] = V.path
           /\ \/ VisitFault(m[1], m[2], 1)
              \/ 0 + Cardinality({x \in Nodes[e] : Before(x[1], V.path)}) = MaxNodes
    BY <2>1 DEF GivesUp
  <2>3. CASE VisitFault(m[1], m[2], 1)
    BY <1>4, <1>7, <2>2, <2>3
  <2>4. CASE 0 + Cardinality({x \in Nodes[e] : Before(x[1], V.path)}) = MaxNodes
    <3> DEFINE c == Cardinality({x \in Nodes[e] : Before(x[1], V.path)})
    <3>1. c \in Nat
      <4> DEFINE T == {x \in Nodes[e] : Before(x[1], V.path)}
      <4>1. T \in SUBSET Nodes[e] /\ IsFiniteSet(Nodes[e])
        BY NodesTyped
      <4> HIDE DEF T
      <4>2. Cardinality(T) \in Nat
        BY <4>1, FS_Subset, FS_CardinalityType
      <4>3. QED
        BY <4>2 DEF T
    <3>2. 0 + c = MaxNodes
      BY <2>4
    <3> HIDE DEF c
    <3>3. c = MaxNodes
      BY <3>1, <3>2
    <3>4. Cardinality({x \in Nodes[e] : Before(x[1], m[1])}) = MaxNodes
      BY <2>2, <3>3 DEF c
    <3>5. many
      BY <3>4, OneTooMany
    <3>6. IsBeyond(e, V.path)
      BY <2>2, <3>3 DEF IsBeyond, c
    <3>7. QED
      BY <3>5, <3>6
  <2>5. QED
    BY <2>2, <2>3, <2>4
<1>11. ASSUME ~ C.ok PROVE C.path \in F
  BY <1>2, <1>4, <1>7, <1>11
<1>12. ASSUME V.ok, C.ok PROVE F = {}
  BY <1>2, <1>4, <1>8, <1>9, <1>12
<1> HIDE DEF large, many
<1>13. CASE large
  BY <1>1, <1>6, <1>13 DEF r, F, large, many
<1>14. CASE ~ large /\ ~ V.ok
  <2>1. r = V
    BY <1>1, <1>14
  <2>2. r.ok = FALSE
    BY <1>5, <1>14, <2>1
  <2>3. r.path \in F \/ (IsBeyond(e, r.path) /\ many)
    BY <1>10, <1>14, <2>1
  <2>4. F # {} \/ many
    BY <2>3
  <2>5. QED
    BY <2>2, <2>3, <2>4 DEF r, F, large, many
<1>15. CASE ~ large /\ V.ok /\ ~ C.ok
  <2>1. r = C
    BY <1>1, <1>15
  <2>2. r.ok = FALSE
    BY <1>2, <1>15, <2>1
  <2>3. r.path \in F
    BY <1>11, <1>15, <2>1
  <2>4. QED
    BY <2>2, <2>3 DEF r, F, large, many
<1>16. CASE ~ large /\ V.ok /\ C.ok
  <2>1. r.ok = TRUE
    BY <1>1, <1>6, <1>16
  <2>2. F = {} /\ ~ many
    BY <1>9, <1>12, <1>16
  <2>3. QED
    BY <1>16, <2>1, <2>2 DEF r, F, large, many
<1>17. QED
  BY <1>13, <1>14, <1>15, <1>16

\* A filter is accepted exactly if it is within the limits and every comparison in
\* it would be accepted on its own; otherwise the path in the error leads to a node
\* that is at fault, or to the first node beyond the limit.
THEOREM RejectsWhereWrong == Spec => []RejectedWhereWrong
<1>1. ASSUME Inv PROVE RejectedWhereWrong
  <2> SUFFICES ASSUME request # None, request.filter # None, outcome.what \in {"created", "bad filter"}
               PROVE  LET e == request.filter
                          target == parse_target_signature(request.signature).v
                          faults == Faults(e, target)
                          large == Size[e] > MaxBytes
                          many == Cardinality(Nodes[e]) > MaxNodes
                      IN  /\ outcome.what = "created" <=> (faults = {} /\ ~ large /\ ~ many)
                          /\ outcome.what = "bad filter" =>
                                \/ large /\ outcome.path = <<>>
                                \/ outcome.path \in faults
                                \/ IsBeyond(e, outcome.path)
    BY DEF RejectedWhereWrong, Faults, IsBeyond
  <2> DEFINE e == request.filter
             target == parse_target_signature(request.signature).v
             result == prepare(e, target)
  <2>1. request \in Requests /\ e \in Expressions
    BY <1>1, RequestAssumption DEF Inv, RequestInv
  <2>2. /\ parse_target_signature(request.signature).ok
        /\ outcome.what = "created" => result.ok
        /\ outcome.what = "bad filter" => ~ result.ok /\ outcome.path = result.path
    BY <1>1 DEF Inv, AnswerInv, Accepted, TargetOf
  <2>3. IsTarget(target)
    BY <2>1, <2>2, TargetIs
  <2> HIDE DEF target
  <2>4. /\ result.ok \in BOOLEAN
        /\ result.ok <=> /\ Faults(e, target) = {} /\ ~ (Size[e] > MaxBytes)
                         /\ ~ (Cardinality(Nodes[e]) > MaxNodes)
        /\ ~ result.ok => \/ Size[e] > MaxBytes /\ result.path = <<>>
                          \/ result.path \in Faults(e, target)
                          \/ IsBeyond(e, result.path)
    BY <2>1, <2>3, PrepareStops
  <2> HIDE DEF result, e
  <2>5. outcome.what = "created" <=> result.ok
    BY <2>2
  <2>6. QED
    BY <2>2, <2>4, <2>5 DEF e, target
<1>2. QED
  BY Invariance, <1>1, PTL

=============================================================================
