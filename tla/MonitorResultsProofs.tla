------------------------ MODULE MonitorResultsProofs ------------------------
(* What MonitorResults promises, for every target, chain and number of       *)
(* faults: rows that are complete and read back as they were sent, blocks    *)
(* delivered at most once, pages that miss nothing.                          *)
EXTENDS MonitorResults, FiniteSetTheorems, SequenceTheorems, WellFoundedInduction, TLAPS

-----------------------------------------------------------------------------
(* Arithmetic, and the statements a block is cut into.                     *)

LEMMA MinIs ==
    ASSUME NEW a \in Int, NEW b \in Int
    PROVE  Min({a, b}) = IF a <= b THEN a ELSE b
BY DEF Min

LEMMA MaxIs ==
    ASSUME NEW a \in Int, NEW b \in Int
    PROVE  Max({a, b}) = IF a >= b THEN a ELSE b
BY DEF Max

\* A nonempty set of numbers has a smallest one.
LEMMA Smallest ==
    ASSUME NEW T \in SUBSET Nat, T # {}
    PROVE  \E n \in T : \A m \in T : n <= m
<1>1. PICK n \in T : \A m \in T : ~ (<<m, n>> \in OpToRel(<, Nat))
  BY NatLessThanWellFounded, WFMin
<1>2. \A m \in T : n <= m
  <2>1. \A m \in T : ~ (m < n)
    BY <1>1 DEF OpToRel
  <2>2. QED
    BY <2>1
<1>3. QED
  BY <1>2

LEMMA Division ==
    ASSUME NEW a \in Nat, NEW d \in Nat \ {0}
    PROVE  /\ a \div d \in Nat
           /\ (a \div d) * d <= a /\ a < (a \div d) * d + d
OBVIOUS

LEMMA ChunkOf ==
    ASSUME NEW n \in Nat, NEW size \in Nat \ {0}, NEW i \in 1 .. n
    PROVE  \E k \in 1 .. (n + size - 1) \div size :
              /\ (k - 1) * size + 1 <= i
              /\ i <= k * size
<1> DEFINE q == (i - 1) \div size
<1>1. q \in Nat /\ q * size <= i - 1 /\ i - 1 < q * size + size
  BY Division
<1> DEFINE c == (n + size - 1) \div size
<1>2. c \in Nat /\ c * size <= n + size - 1 /\ n + size - 1 < c * size + size
  BY Division, n + size - 1 \in Nat
<1> HIDE DEF q, c
<1>3. q + 1 <= c
  <2>1. q * size < c * size
    BY <1>1, <1>2
  <2>2. SUFFICES ASSUME c <= q PROVE FALSE
    BY <1>1, <1>2
  <2>3. c * size <= q * size
    BY <2>2, <1>1, <1>2
  <2>4. QED
    BY <2>1, <2>3, <1>1, <1>2
<1>4. (q + 1) * size = q * size + size
  BY <1>1
<1>5. q + 1 \in 1 .. c /\ ((q + 1) - 1) * size + 1 <= i /\ i <= (q + 1) * size
  BY <1>1, <1>2, <1>3, <1>4
<1>6. QED
  BY <1>5 DEF c

LEMMA Elements ==
    ASSUME NEW s, NEW m \in Int, NEW n \in Int
    PROVE  /\ ToSet(SubSeq(s, m, n)) = {s[i] : i \in m .. n}
           /\ DOMAIN SubSeq(s, m, n) = 1 .. n - m + 1
           /\ Len(SubSeq(s, m, n)) = IF m <= n THEN n - m + 1 ELSE 0
           /\ \A i \in 1 .. n - m + 1 : SubSeq(s, m, n)[i] = s[m + i - 1]
<1> DEFINE S == {s[i] : i \in m .. n}
           t == SubSeq(s, m, n)
<1>1. /\ t \in Seq(S) /\ Len(t) = IF m <= n THEN n - m + 1 ELSE 0
      /\ \A i \in 1 .. n - m + 1 : t[i] = s[m + i - 1]
  BY SubSeqProperties
<1>2. DOMAIN t = 1 .. n - m + 1
  BY <1>1
<1> HIDE DEF t
<1>3. ASSUME NEW i \in m .. n PROVE s[i] \in ToSet(t)
  <2>1. i - m + 1 \in DOMAIN t /\ t[i - m + 1] = s[m + (i - m + 1) - 1]
    BY <1>1, <1>2
  <2>2. m + (i - m + 1) - 1 = i
    OBVIOUS
  <2>3. QED
    BY <2>1, <2>2 DEF ToSet
<1>4. ASSUME NEW x \in ToSet(t) PROVE x \in S
  BY <1>1, <1>2 DEF ToSet
<1>5. QED
  BY <1>1, <1>2, <1>3, <1>4 DEF t

LEMMA InChunks ==
    ASSUME NEW inputs, NEW n \in Nat, DOMAIN inputs = 1 .. n, Len(inputs) = n,
           NEW size \in Nat \ {0}
    PROVE  UNION {ToSet(chunk) : chunk \in ToSet(Chunks(inputs, size))} = ToSet(inputs)
<1> DEFINE c == (n + size - 1) \div size
           Piece(k) == SubSeq(inputs, (k - 1) * size + 1, Min({k * size, n}))
<1>1. c \in Nat
  BY Division, n + size - 1 \in Nat
<1>2. Chunks(inputs, size) = [k \in 1 .. c |-> Piece(k)]
  BY DEF Chunks
<1> HIDE DEF c
<1>3. ASSUME NEW k \in 1 .. c
      PROVE  /\ (k - 1) * size \in Nat /\ k * size \in Nat
             /\ Min({k * size, n}) = IF k * size <= n THEN k * size ELSE n
  <2>1. (k - 1) * size \in Nat /\ k * size \in Nat
    BY <1>1
  <2>2. QED
    BY <2>1, MinIs
<1>4. ASSUME NEW k \in 1 .. c
      PROVE  ToSet(Piece(k)) = {inputs[i] : i \in (k - 1) * size + 1 .. Min({k * size, n})}
  BY <1>3, Elements
<1>5. ToSet(Chunks(inputs, size)) = {Piece(k) : k \in 1 .. c}
  BY <1>2 DEF ToSet
<1>6. ASSUME NEW k \in 1 .. c PROVE ToSet(Piece(k)) \subseteq ToSet(inputs)
  BY <1>3, <1>4 DEF ToSet
<1>7. ASSUME NEW i \in 1 .. n PROVE \E k \in 1 .. c : inputs[i] \in ToSet(Piece(k))
  <2>1. PICK k \in 1 .. c : (k - 1) * size + 1 <= i /\ i <= k * size
    BY ChunkOf DEF c
  <2>2. i \in (k - 1) * size + 1 .. Min({k * size, n})
    BY <2>1, <1>3
  <2>3. QED
    BY <2>2, <1>4
<1> HIDE DEF Piece
<1>8. \A x \in ToSet(inputs) : \E k \in 1 .. c : x \in ToSet(Piece(k))
  BY <1>7 DEF ToSet
<1>9. UNION {ToSet(chunk) : chunk \in {Piece(k) : k \in 1 .. c}} = ToSet(inputs)
  BY <1>6, <1>8
<1>10. QED
  BY <1>5, <1>9

-----------------------------------------------------------------------------
(* The positions of a block, in order.                                     *)

\* A finite set of numbers can be counted upwards.
LEMMA CountedUp ==
    ASSUME NEW S \in SUBSET Nat, IsFiniteSet(S)
    PROVE  \E q \in SetToSeqs(S) : \A i, j \in DOMAIN q : i < j => q[i] < q[j]
<1> DEFINE Counts(q, n, T) == /\ q \in [1 .. n -> T]
                              /\ \A i, j \in 1 .. n : i < j => q[i] < q[j]
           Bad == {n \in Nat : \E T \in SUBSET Nat : /\ IsFiniteSet(T) /\ Cardinality(T) = n
                                                      /\ ~ \E q : Counts(q, n, T)}
<1>1. Bad = {}
  <2>1. SUFFICES ASSUME Bad # {} PROVE FALSE
    OBVIOUS
  <2>2. PICK n \in Nat : n \in Bad /\ \A m \in Bad : n <= m
    BY <2>1, Smallest
  <2>3. PICK T \in SUBSET Nat : IsFiniteSet(T) /\ Cardinality(T) = n /\ ~ \E q : Counts(q, n, T)
    BY <2>2
  <2> HIDE DEF Bad
  <2>4. CASE n = 0
    <3>1. Counts([i \in 1 .. 0 |-> 0], 0, T)
      OBVIOUS
    <3>2. QED
      BY <3>1, <2>3, <2>4
  <2>5. CASE n # 0
    <3>1. PICK x \in T : \A y \in T : x <= y
      BY <2>3, <2>5, FS_EmptySet, Smallest
    <3> DEFINE U == T \ {x}
    <3>2. IsFiniteSet(U) /\ Cardinality(U) = n - 1
      BY <2>3, FS_RemoveElement
    <3>3. PICK q : Counts(q, n - 1, U)
      <4>1. n - 1 \in Nat /\ n - 1 \notin Bad
        BY <2>2, <2>5
      <4>2. QED
        BY <4>1, <3>2 DEF Bad
    <3> DEFINE r == [i \in 1 .. n |-> IF i = 1 THEN x ELSE q[i - 1]]
    <3>4. \A i \in 2 .. n : i - 1 \in 1 .. n - 1 /\ r[i] = q[i - 1] /\ r[i] \in U
      BY <3>3
    <3>5. r[1] = x /\ r \in [1 .. n -> T]
      <4>1. \A i \in 1 .. n : i = 1 \/ i \in 2 .. n
        OBVIOUS
      <4>2. 1 \in 1 .. n /\ U \subseteq T
        BY <2>5
      <4>3. r[1] = x /\ DOMAIN r = 1 .. n
        BY <4>2
      <4> HIDE DEF U
      <4>4. \A i \in 1 .. n : r[i] \in T
        BY <3>4, <4>1, <4>2, <4>3
      <4>5. QED
        BY <4>3, <4>4
    <3> HIDE DEF r, U
    <3>6. ASSUME NEW i \in 1 .. n, NEW j \in 1 .. n, i < j PROVE r[i] < r[j]
      <4>1. CASE i = 1
        <5>1. r[j] \in U
          BY <3>4, <3>6, <4>1
        <5>2. QED
          <6>1. r[j] \in Nat /\ x \in Nat /\ r[j] # x /\ x <= r[j]
            BY <5>1, <3>1 DEF U
          <6>2. QED
            BY <6>1, <3>5, <4>1
      <4>2. CASE i # 1
        <5>1. i \in 2 .. n /\ j \in 2 .. n /\ i - 1 < j - 1
          BY <4>2, <3>6
        <5>2. QED
          BY <5>1, <3>3, <3>4
      <4>3. QED
        BY <4>1, <4>2
    <3>7. Counts(r, n, T)
      BY <3>5, <3>6
    <3>8. QED
      BY <3>7, <2>3
  <2>6. QED
    BY <2>4, <2>5
<1>2. Cardinality(S) \in Nat
  BY FS_CardinalityType
<1>3. PICK q : Counts(q, Cardinality(S), S)
  BY <1>1, <1>2
<1>4. \A i, j \in 1 .. Cardinality(S) : i # j => q[i] # q[j]
  <2>1. \A i, j \in 1 .. Cardinality(S) : i < j => q[i] # q[j]
    <3>1. \A i \in 1 .. Cardinality(S) : q[i] \in Nat
      BY <1>3
    <3>2. QED
      BY <3>1, <1>3
  <2>2. QED
    BY <2>1, <1>2
<1>5. QED
  BY <1>3, <1>4 DEF SetToSeqs

LEMMA Interval ==
    ASSUME NEW m \in Nat
    PROVE  IsFiniteSet(1 .. m) /\ Cardinality(1 .. m) = m
BY FS_Interval

\* Every sequence of a finite set's elements without repetition has them all.
LEMMA SeqsHoldAll ==
    ASSUME NEW S, IsFiniteSet(S), NEW q \in SetToSeqs(S)
    PROVE  /\ Cardinality(S) \in Nat /\ Len(q) = Cardinality(S) /\ DOMAIN q = 1 .. Len(q)
           /\ ToSet(q) = S
           /\ \A i, j \in 1 .. Len(q) : i # j => q[i] # q[j]
<1> DEFINE D == 1 .. Cardinality(S)
<1>1. Cardinality(S) \in Nat
  BY FS_CardinalityType
<1>2. q \in [D -> S] /\ \A i, j \in D : i # j => q[i] # q[j]
  BY DEF SetToSeqs
<1>3. IsFiniteSet(D) /\ Cardinality(D) = Cardinality(S)
  BY <1>1, Interval
<1>4. q \in Injection(D, S)
  BY <1>2 DEF Injection, IsInjective
<1>5. q \in Surjection(D, S)
  BY <1>3, <1>4, FS_Injection
<1>6. Len(q) = Cardinality(S) /\ DOMAIN q = 1 .. Len(q)
  BY <1>1, <1>2
<1>7. ToSet(q) = S
  BY <1>5 DEF Surjection, ToSet
<1>8. QED
  BY <1>1, <1>2, <1>6, <1>7

LEMMA InOrderHoldsAll ==
    ASSUME NEW S \in SUBSET Nat, IsFiniteSet(S)
    PROVE  /\ Cardinality(S) \in Nat /\ Len(InOrder(S)) = Cardinality(S)
           /\ DOMAIN InOrder(S) = 1 .. Cardinality(S) /\ ToSet(InOrder(S)) = S
<1>1. InOrder(S) \in SetToSeqs(S)
  BY CountedUp DEF InOrder
<1>2. QED
  BY <1>1, SeqsHoldAll

-----------------------------------------------------------------------------
(* The columns PostgreSQL gives the parameters.                            *)

Step(kind, schema, n, before) ==
    Append(before, FreeName(BaseName(kind, schema[n]), ToSet(before)))

\* The recursion that names the columns is one: for n parameters there is a function.
LEMMA ColumnsDefined ==
    ASSUME NEW kind, NEW schema, Len(schema) \in Nat
    PROVE  Columns(kind, schema) =
              [n \in 0 .. Len(schema) |->
                 IF n = 0 THEN <<>> ELSE Step(kind, schema, n, Columns(kind, schema)[n - 1])]
<1> DEFINE Rule(f, n) == IF n = 0 THEN <<>> ELSE Step(kind, schema, n, f[n - 1])
           Fits(f, n) == f = [i \in 0 .. n |-> Rule(f, i)]
           Bad == {n \in Nat : ~ \E f : Fits(f, n)}
<1>1. Bad = {}
  <2>1. SUFFICES ASSUME Bad # {} PROVE FALSE
    OBVIOUS
  <2>2. PICK n \in Nat : n \in Bad /\ \A m \in Bad : n <= m
    BY <2>1, Smallest
  <2>3. ~ \E f : Fits(f, n)
    BY <2>2
  <2>4. CASE n = 0
    <3> DEFINE f == [i \in 0 .. 0 |-> <<>>]
    <3>1. \A i \in 0 .. 0 : Rule(f, i) = <<>>
      OBVIOUS
    <3>2. Fits(f, 0)
      BY <3>1
    <3>3. QED
      BY <3>2, <2>3, <2>4
  <2>5. CASE n # 0
    <3> HIDE DEF Bad
    <3>1. n - 1 \in Nat /\ n - 1 \notin Bad
      BY <2>2, <2>5
    <3>2. PICK f : Fits(f, n - 1)
      BY <3>1 DEF Bad
    <3> DEFINE g == [i \in 0 .. n |-> IF i = n THEN Step(kind, schema, n, f[n - 1]) ELSE f[i]]
    <3>3. ASSUME NEW i \in 0 .. n PROVE g[i] = Rule(g, i)
      <4>1. CASE i = n
        BY <4>1, <2>5, <3>1
      <4>2. CASE i # n
        <5>1. i \in 0 .. n - 1
          BY <4>2
        <5>2. f[i] = Rule(f, i)
          BY <3>2, <5>1
        <5>3. i # 0 => i - 1 \in 0 .. n /\ i - 1 # n /\ g[i - 1] = f[i - 1]
          BY <5>1
        <5>4. g[i] = f[i]
          BY <4>2
        <5> HIDE DEF g
        <5>5. QED
          BY <5>2, <5>3, <5>4
      <4>3. QED
        BY <4>1, <4>2
    <3>4. Fits(g, n)
      <4>1. g = [i \in 0 .. n |-> g[i]]
        OBVIOUS
      <4> HIDE DEF g
      <4>2. QED
        BY <3>3, <4>1
    <3>5. QED
      BY <2>3, <3>4
  <2>6. QED
    BY <2>4, <2>5
<1>2. \E f : Fits(f, Len(schema))
  BY <1>1
<1>3. Columns(kind, schema) = CHOOSE f : Fits(f, Len(schema))
  BY DEF Columns, Step
<1>4. QED
  BY <1>2, <1>3

\* A name that is a sequence of some parts.
LEMMA Appended ==
    ASSUME NEW X, NEW s \in Seq(X), NEW e \in X
    PROVE  /\ Append(s, e) \in Seq(X) /\ Len(Append(s, e)) = Len(s) + 1
           /\ \A i \in 1 .. Len(s) : Append(s, e)[i] = s[i]
           /\ Append(s, e)[Len(s) + 1] = e
           /\ ToSet(Append(s, e)) = ToSet(s) \cup {e}
<1>1. /\ Append(s, e) \in Seq(X) /\ Len(Append(s, e)) = Len(s) + 1
      /\ \A i \in 1 .. Len(s) : Append(s, e)[i] = s[i]
      /\ Append(s, e)[Len(s) + 1] = e
  OBVIOUS
<1>2. DOMAIN s = 1 .. Len(s) /\ DOMAIN Append(s, e) = 1 .. Len(s) + 1 /\ Len(s) \in Nat
  BY <1>1
<1>3. ToSet(Append(s, e)) = ToSet(s) \cup {e}
  BY <1>1, <1>2 DEF ToSet
<1>4. QED
  BY <1>1, <1>3

\* There is a free name among the first that are tried, since they all differ.
LEMMA FreeNameIsFree ==
    ASSUME NEW X, Nat \subseteq X, NEW base \in Seq(X), NEW used, IsFiniteSet(used)
    PROVE  /\ FreeName(base, used) \notin used
           /\ FreeName(base, used) \in Seq(X)
           /\ FreeName(base, used) = base \/ Len(FreeName(base, used)) = Len(base) + 1
           /\ base \notin used => FreeName(base, used) = base
<1> DEFINE Candidate(n) == IF n = 0 THEN base ELSE Append(base, n)
           N == 0 .. Cardinality(used)
           Free == {n \in N : Candidate(n) \notin used}
<1>1. Cardinality(used) \in Nat
  BY FS_CardinalityType
<1>2. IsFiniteSet(N) /\ Cardinality(N) = Cardinality(used) + 1
  BY <1>1, FS_Interval
<1>3. ASSUME NEW n \in Nat PROVE Candidate(n) \in Seq(X) /\ (Candidate(n) = base \/ Len(Candidate(n)) = Len(base) + 1)
  BY Appended
<1>4. ASSUME NEW m \in Nat, NEW n \in Nat, Candidate(m) = Candidate(n) PROVE m = n
  <2>1. \A k \in Nat : k # 0 => Candidate(k)[Len(base) + 1] = k /\ Len(Candidate(k)) = Len(base) + 1
    BY Appended
  <2>2. Candidate(0) = base /\ Len(base) \in Nat
    OBVIOUS
  <2> HIDE DEF Candidate
  <2>3. QED
    BY <1>4, <2>1, <2>2
<1>5. Free # {}
  <2>1. SUFFICES ASSUME \A n \in N : Candidate(n) \in used PROVE FALSE
    OBVIOUS
  <2> DEFINE f == [n \in N |-> Candidate(n)]
  <2>2. f \in [N -> used]
    BY <2>1
  <2>3. Cardinality(used) < Cardinality(N)
    BY <1>1, <1>2
  <2>4. \A k \in N : k \in Nat /\ f[k] = Candidate(k)
    BY <1>1
  <2> HIDE DEF N, f, Candidate
  <2>5. PICK m, n \in N : m # n /\ f[m] = f[n]
    BY <1>2, <2>2, <2>3, FS_PigeonHole
  <2>6. QED
    BY <1>4, <2>4, <2>5
<1>6. Min(Free) \in Free /\ \A n \in Free : Min(Free) <= n
  <2>1. Free \subseteq Nat
    BY <1>1
  <2> HIDE DEF Free
  <2>2. QED
    BY <1>5, <2>1, Smallest DEF Min
<1>7. FreeName(base, used) = Candidate(Min(Free))
  BY DEF FreeName
<1>8. ASSUME base \notin used PROVE Candidate(Min(Free)) = base
  <2>1. 0 \in Free
    BY <1>1, <1>8
  <2>2. Min(Free) \in Nat /\ Min(Free) <= 0
    BY <1>1, <1>6, <2>1
  <2>3. Min(Free) = 0
    BY <2>2
  <2>4. QED
    BY <2>3
<1>9. QED
  BY <1>1, <1>3, <1>6, <1>7, <1>8

IsSchema(schema) ==
    schema \in Seq(ToSet(schema)) /\ \A i \in DOMAIN schema : IsParam(schema[i])

\* No two parameters share a column, none has a column of the adapter's own, and the
\* columns named like PostgreSQL's are those of parameters of that very name.
LEMMA ColumnsDiffer ==
    ASSUME NEW kind, NEW schema, IsSchema(schema)
    PROVE  LET columns == postgres_params(kind, schema)
           IN  /\ DOMAIN columns = DOMAIN schema
               /\ IsInjective(columns)
               /\ ToSet(columns) \cap Reserved(kind) = {}
               /\ ToSet(columns) \cap SystemColumns =
                     {schema[i].name : i \in DOMAIN schema} \cap SystemColumns
<1> DEFINE L == Len(schema)
           C == Columns(kind, schema)
           X == (UNION {ToSet(schema[i].name) : i \in 1 .. L}) \cup Nat \cup {"param"}
           Names(n) == {schema[i].name : i \in 1 .. n}
           Fine(c, n) == /\ c \in Seq(Seq(X)) /\ Len(c) = n
                         /\ IsFiniteSet(ToSet(c))
                         /\ \A i, j \in 1 .. n : c[i] = c[j] => i = j
                         /\ ToSet(c) \cap Reserved(kind) = {}
                         /\ ToSet(c) \cap SystemColumns = Names(n) \cap SystemColumns
           Bad == {n \in 0 .. L : ~ Fine(C[n], n)}
<1>1. L \in Nat /\ DOMAIN schema = 1 .. L
  BY DEF IsSchema
<1>2. C = [n \in 0 .. L |-> IF n = 0 THEN <<>> ELSE Step(kind, schema, n, C[n - 1])]
  BY <1>1, ColumnsDefined
<1>3. ASSUME NEW n \in 1 .. L
      PROVE  schema[n].name \in Seq(X) /\ Len(schema[n].name) \in Nat \ {0}
  <2> DEFINE s == schema[n].name
  <2>1. Len(s) \in Nat \ {0} /\ s = [i \in 1 .. Len(s) |-> s[i]]
    BY <1>1 DEF IsSchema, IsParam
  <2>2. \A i \in 1 .. Len(s) : s[i] \in X
    BY <2>1 DEF ToSet
  <2> HIDE DEF s, X
  <2>3. s \in Seq(X)
    BY <2>1, <2>2
  <2>4. QED
    BY <2>1, <2>3 DEF s
<1>4. Nat \subseteq X /\ "param" \in X
  OBVIOUS
<1> HIDE DEF X, C, L
<1>5. \A x \in Reserved(kind) \cup SystemColumns : Len(x) = 1
  BY DEF Reserved, SystemColumns
<1>6. ASSUME NEW n \in 1 .. L
      PROVE  /\ BaseName(kind, schema[n]) \in Seq(X) /\ BaseName(kind, schema[n]) \notin Reserved(kind)
             /\ Len(BaseName(kind, schema[n])) \in Nat \ {0}
             /\ \/ BaseName(kind, schema[n]) = schema[n].name
                \/ /\ schema[n].name \in Reserved(kind)
                   /\ Len(BaseName(kind, schema[n])) > 1
  <2> DEFINE s == schema[n].name
  <2>1. s \in Seq(X) /\ Len(s) \in Nat \ {0}
    BY <1>3
  <2> HIDE DEF s
  <2>2. Append(s, "param") \in Seq(X) /\ Len(Append(s, "param")) = Len(s) + 1
    BY <1>4, <2>1, Appended
  <2>3. Append(s, "param") \notin Reserved(kind)
    <3>1. Len(Append(s, "param")) # 1
      BY <2>1, <2>2
    <3>2. QED
      BY <1>5, <3>1
  <2>4. QED
    BY <2>1, <2>2, <2>3 DEF BaseName, s
<1>7. Bad = {}
  <2>1. SUFFICES ASSUME Bad # {} PROVE FALSE
    OBVIOUS
  <2>2. Bad \subseteq Nat
    BY <1>1
  <2>3. PICK n \in Nat : n \in Bad /\ \A m \in Bad : n <= m
    BY <2>1, <2>2, Smallest
  <2>4. n \in 0 .. L /\ ~ Fine(C[n], n)
    BY <2>3
  <2>5. CASE n = 0
    <3>1. C[0] = <<>>
      BY <1>1, <1>2
    <3>2. ToSet(<<>>) = {}
      BY DEF ToSet
    <3>3. Fine(<<>>, 0)
      <4>1. <<>> \in Seq(Seq(X)) /\ Len(<<>>) = 0
        OBVIOUS
      <4>2. /\ IsFiniteSet(ToSet(<<>>)) /\ ToSet(<<>>) \cap Reserved(kind) = {}
            /\ Names(0) = {} /\ ToSet(<<>>) \cap SystemColumns = Names(0) \cap SystemColumns
        BY <3>2, FS_EmptySet
      <4>3. QED
        BY <4>1, <4>2
    <3>4. QED
      BY <2>4, <2>5, <3>1, <3>3
  <2>6. CASE n # 0
    <3> HIDE DEF Bad
    <3>1. n \in 1 .. L /\ n - 1 \in 0 .. L /\ n - 1 \notin Bad
      BY <1>1, <2>3, <2>4, <2>6
    <3>2. Fine(C[n - 1], n - 1)
      BY <3>1 DEF Bad
    <3> DEFINE c == C[n - 1]
               name == FreeName(BaseName(kind, schema[n]), ToSet(c))
    <3>3. C[n] = Append(c, name)
      <4>1. C[n] = Step(kind, schema, n, C[n - 1])
        BY <1>2, <2>4, <2>6
      <4>2. QED
        BY <4>1 DEF Step
    <3>4. /\ name \notin ToSet(c) /\ name \in Seq(X)
          /\ \/ name = BaseName(kind, schema[n])
             \/ Len(name) = Len(BaseName(kind, schema[n])) + 1
          /\ BaseName(kind, schema[n]) \notin ToSet(c) => name = BaseName(kind, schema[n])
      BY <1>4, <1>6, <3>1, <3>2, FreeNameIsFree
    <3>5. name \notin Reserved(kind)
      BY <1>5, <1>6, <3>1, <3>4
    <3> DEFINE s == schema[n].name
    <3>6. name \in SystemColumns => name = s
      <4> DEFINE base == BaseName(kind, schema[n])
      <4>1. /\ Len(base) \in Nat \ {0} /\ (base = s \/ Len(base) > 1)
            /\ name = base \/ Len(name) = Len(base) + 1
        BY <1>6, <3>1, <3>4
      <4> HIDE DEF base, name, s
      <4>2. SUFFICES ASSUME name \in SystemColumns PROVE name = s
        OBVIOUS
      <4>3. Len(name) = 1
        BY <1>5, <4>2
      <4>4. name = base
        BY <4>1, <4>3
      <4>5. Len(base) = 1
        BY <4>3, <4>4
      <4>6. ~ Len(base) > 1
        BY <4>5
      <4>7. QED
        BY <4>1, <4>4, <4>6
    <3>7. s \in SystemColumns => name = s \/ s \in ToSet(c)
      <4>1. SystemColumns \cap Reserved(kind) = {}
        BY DEF SystemColumns, Reserved
      <4>2. s \in SystemColumns => BaseName(kind, schema[n]) = s
        BY <1>6, <3>1, <4>1
      <4>3. QED
        BY <3>4, <4>2
    <3>8. Names(n) = Names(n - 1) \cup {s}
      <4>1. 1 .. n = (1 .. n - 1) \cup {n}
        BY <3>1
      <4>2. QED
        BY <4>1
    <3>9. ToSet(c) \cap SystemColumns = Names(n - 1) \cap SystemColumns
      BY <3>2
    <3> HIDE DEF s, Names
    <3> HIDE DEF name, c
    <3>10. /\ Append(c, name) \in Seq(Seq(X)) /\ Len(Append(c, name)) = n
          /\ ToSet(Append(c, name)) = ToSet(c) \cup {name}
          /\ \A i \in 1 .. n - 1 : Append(c, name)[i] = c[i]
          /\ Append(c, name)[n] = name
      BY <3>1, <3>2, <3>4, Appended DEF c
    <3>11. IsFiniteSet(ToSet(c) \cup {name})
      BY <3>2, FS_AddElement DEF c
    <3>12. \A i, j \in 1 .. n : Append(c, name)[i] = Append(c, name)[j] => i = j
      <4>1. \A i \in 1 .. n - 1 : c[i] \in ToSet(c)
        BY <3>1, <3>2 DEF ToSet, c
      <4>2. \A i, j \in 1 .. n - 1 : c[i] = c[j] => i = j
        BY <3>2 DEF c
      <4>3. \A i \in 1 .. n : i \in 1 .. n - 1 \/ i = n
        BY <3>1
      <4>4. QED
        BY <3>4, <3>10, <4>1, <4>2, <4>3
    <3>13. ToSet(Append(c, name)) \cap SystemColumns = Names(n) \cap SystemColumns
      BY <3>6, <3>7, <3>8, <3>9, <3>10
    <3>14. Fine(Append(c, name), n)
      BY <3>2, <3>5, <3>10, <3>11, <3>12, <3>13 DEF c
    <3>15. QED
      BY <2>4, <3>3, <3>14
  <2>7. QED
    BY <2>5, <2>6
<1>8. Fine(C[L], L)
  BY <1>1, <1>7
<1>9. postgres_params(kind, schema) = C[L]
  BY DEF postgres_params, C, L
<1>10. DOMAIN C[L] = 1 .. L
  BY <1>8
<1>11. QED
  BY <1>1, <1>8, <1>9, <1>10 DEF IsInjective

-----------------------------------------------------------------------------
(* What is read back of a value.                                           *)

Kinds == {"Uint", "Int", "Bool", "Address", "String", "Bytes"}

\* A column has the type of the values bound to it, and both are read as the sink
\* writes them.
LEMMA FormsAgree ==
    ASSUME NEW p, IsParam(p), NEW datum
    PROVE  /\ ColumnJson(ColumnType(p), datum) = Json(Decoded(p, datum))
           /\ BsonJson(Bson(Decoded(p, datum))) = Json(Decoded(p, datum))
<1> DEFINE v == Decoded(p, datum)
<1>1. v.datum = datum
  BY DEF Decoded
<1>2. \/ p.indexed /\ p.ty \in {"string", "bytes"} /\ v.kind = "Bytes" /\ ColumnType(p) = "BYTEA"
      \/ p.ty = "uint" /\ v.kind = "Uint" /\ ColumnType(p) = "NUMERIC"
      \/ p.ty = "int" /\ v.kind = "Int" /\ ColumnType(p) = "NUMERIC"
      \/ p.ty = "bool" /\ v.kind = "Bool" /\ ColumnType(p) = "BOOLEAN"
      \/ p.ty = "address" /\ v.kind = "Address" /\ ColumnType(p) = "BYTEA"
      \/ p.ty = "string" /\ v.kind = "String" /\ ColumnType(p) = "TEXT"
      \/ p.ty \in {"bytes", "fixed_bytes", "function"} /\ v.kind = "Bytes" /\ ColumnType(p) = "BYTEA"
  BY DEF IsParam, AbiTypes, Decoded, ColumnType
<1> HIDE DEF v
<1>3. ColumnJson(ColumnType(p), datum) = Json(v)
  BY <1>1, <1>2 DEF ColumnJson, Json
<1>4. v.kind \in Kinds
  BY <1>2 DEF Kinds
<1>5. BsonJson(Bson(v)) = Json(v)
  BY <1>1, <1>4 DEF BsonJson, Bson, Json, Kinds
<1>6. QED
  BY <1>3, <1>5 DEF v

LEMMA ReadBackPostgres ==
    ASSUME NEW schema, IsSchema(schema), NEW D,
           NEW params, params = [i \in DOMAIN schema |-> Decoded(schema[i], <<D, i>>)]
    PROVE  \A kind : read_params(kind, schema, PgRow(kind, schema, params)) =
                        canonical_params(schema, params)
<1> SUFFICES ASSUME NEW kind
             PROVE  read_params(kind, schema, PgRow(kind, schema, params)) =
                       canonical_params(schema, params)
  OBVIOUS
<1> DEFINE columns == postgres_params(kind, schema)
           row == PgRow(kind, schema, params)
           At(n) == CHOOSE i \in DOMAIN schema : schema[i].name = n
           Names == {p.name : p \in ToSet(schema)}
<1>1. DOMAIN columns = DOMAIN schema /\ IsInjective(columns)
  BY ColumnsDiffer
<1>2. ASSUME NEW n \in Names PROVE At(n) \in DOMAIN schema
  BY DEF ToSet
<1>3. ASSUME NEW i \in DOMAIN schema PROVE row[columns[i]] = params[i].datum
  <2>1. columns[i] \in ToSet(columns)
    BY <1>1 DEF ToSet
  <2>2. \A j \in DOMAIN schema : columns[j] = columns[i] => j = i
    BY <1>1 DEF IsInjective
  <2>3. (CHOOSE j \in DOMAIN schema : columns[j] = columns[i]) = i
    BY <2>2
  <2>4. QED
    BY <2>1, <2>3 DEF PgRow
<1>4. ASSUME NEW i \in DOMAIN schema
      PROVE  ColumnJson(ColumnType(schema[i]), row[columns[i]]) = Json(params[i])
  <2>1. params[i] = Decoded(schema[i], <<D, i>>) /\ params[i].datum = <<D, i>>
    BY DEF Decoded
  <2>2. QED
    BY <1>3, <2>1, FormsAgree DEF IsSchema
<1>5. read_params(kind, schema, row) =
         [n \in Names |-> ColumnJson(ColumnType(schema[At(n)]), row[columns[At(n)]])]
  BY DEF read_params
<1>6. canonical_params(schema, params) = [n \in Names |-> Json(params[At(n)])]
  BY DEF canonical_params
<1> HIDE DEF columns, row, At, Names
<1>7. QED
  BY <1>2, <1>4, <1>5, <1>6 DEF row

LEMMA ReadBackMongo ==
    ASSUME NEW schema, IsSchema(schema), NEW D,
           NEW params, params = [i \in DOMAIN schema |-> Decoded(schema[i], <<D, i>>)]
    PROVE  bson_params_to_json(bson_params(schema, params)) = canonical_params(schema, params)
<1> DEFINE At(n) == CHOOSE i \in DOMAIN schema : schema[i].name = n
           Names == {p.name : p \in ToSet(schema)}
<1>1. ASSUME NEW n \in Names PROVE At(n) \in DOMAIN schema
  BY DEF ToSet
<1>2. ASSUME NEW i \in DOMAIN schema PROVE BsonJson(Bson(params[i])) = Json(params[i])
  BY FormsAgree DEF IsSchema
<1>3. bson_params(schema, params) = [n \in Names |-> Bson(params[At(n)])]
  BY DEF bson_params
<1>4. canonical_params(schema, params) = [n \in Names |-> Json(params[At(n)])]
  BY DEF canonical_params
<1> HIDE DEF At, Names
<1>5. bson_params_to_json(bson_params(schema, params)) = [n \in Names |-> BsonJson(Bson(params[At(n)]))]
  BY <1>3 DEF bson_params_to_json
<1>6. QED
  BY <1>1, <1>2, <1>4, <1>5

USE ResultsAssumption, BindAssumption

\* The statements an accepted block is cut into hold all of its rows.
LEMMA AllInserted ==
    ASSUME NEW t \in Targets, NEW b \in Blocks, CanInsert(t.kind, t.schema, Inputs(t, b))
    PROVE  /\ {i.key : i \in Inserted(t.kind, t.schema, Inputs(t, b))} = KeysOf(b)
           /\ \A i \in Inserted(t.kind, t.schema, Inputs(t, b)) : i.params = Values(t, i.key)
<1> DEFINE positions == InOrder(Found[b])
           inputs == Inputs(t, b)
           size == BIND_LIMIT \div Width(t.kind, t.schema)
<1>1. IsFiniteSet(Found[b]) /\ Found[b] \in SUBSET Nat
  OBVIOUS
<1>2. /\ Len(positions) \in Nat /\ DOMAIN positions = 1 .. Len(positions)
      /\ {positions[n] : n \in DOMAIN positions} = Found[b]
  BY <1>1, InOrderHoldsAll DEF ToSet
<1> HIDE DEF positions
<1>3. inputs = [n \in DOMAIN positions |->
                   [key |-> <<b, positions[n]>>, params |-> Values(t, <<b, positions[n]>>)]]
  BY DEF Inputs, positions
<1> HIDE DEF inputs
<1>4. DOMAIN inputs = 1 .. Len(positions) /\ Len(inputs) = Len(positions)
  BY <1>2, <1>3
<1>5. size \in Nat \ {0}
  <2>1. Width(t.kind, t.schema) \in Nat \ {0}
    <3>1. ASSUME NEW S, NEW s \in Seq(S) PROVE Len(s) \in Nat
      OBVIOUS
    <3>2. Len(t.schema) \in Nat
      BY <3>1
    <3>3. \A n \in Nat : n + (IF t.kind = "event" THEN 3 ELSE 2) \in Nat \ {0}
      OBVIOUS
    <3>4. QED
      BY <3>2, <3>3 DEF Width
  <2>2. Width(t.kind, t.schema) <= BIND_LIMIT
    BY DEF CanInsert
  <2>3. size \in Nat /\ BIND_LIMIT < size * Width(t.kind, t.schema) + Width(t.kind, t.schema)
    BY <2>1, Division
  <2>4. QED
    BY <2>1, <2>2, <2>3
<1>6. Inserted(t.kind, t.schema, inputs) = ToSet(inputs)
  BY <1>2, <1>4, <1>5, InChunks DEF Inserted, Statements
<1>7. {i.key : i \in ToSet(inputs)} = {<<b, positions[n]>> : n \in DOMAIN positions}
  <2>1. ToSet(inputs) = {inputs[n] : n \in DOMAIN positions}
    BY <1>3 DEF ToSet
  <2>2. \A n \in DOMAIN positions : inputs[n].key = <<b, positions[n]>>
    BY <1>3
  <2>3. QED
    BY ZenonT(30), <2>1, <2>2
<1>8. \A i \in ToSet(inputs) : i.params = Values(t, i.key)
  <2>1. ASSUME NEW n \in DOMAIN positions PROVE inputs[n].params = Values(t, inputs[n].key)
    BY <1>3
  <2>2. QED
    BY <1>3, <2>1 DEF ToSet
<1>9. QED
  BY <1>2, <1>6, <1>7, <1>8 DEF KeysOf, inputs

LEMMA KeysWritten ==
    ASSUME NEW a \in Adapters, NEW t \in Targets, NEW b \in Blocks, Insertable[a][t][b]
    PROVE  DOMAIN NewRows[a][t][b] = KeysOf(b)
<1>1. CASE a = "postgres"
  <2>1. CanInsert(t.kind, t.schema, Inputs(t, b))
    BY <1>1 DEF Insertable
  <2>2. DOMAIN NewRows[a][t][b] = {i.key : i \in Inserted(t.kind, t.schema, Inputs(t, b))}
    BY <1>1 DEF NewRows
  <2>3. QED
    BY <2>1, <2>2, AllInserted
<1>2. CASE a = "mongodb"
  BY <1>2 DEF NewRows
<1>3. QED
  BY <1>1, <1>2 DEF Adapters

LEMMA KeysFinite ==
    ASSUME NEW b \in Blocks
    PROVE  IsFiniteSet(KeysOf(b)) /\ KeysOf(b) \subseteq Nat \X Nat
<1>1. IsFiniteSet({b} \X Found[b])
  BY FS_Singleton, FS_Product
<1>2. KeysOf(b) \in SUBSET ({b} \X Found[b])
  BY DEF KeysOf
<1>3. QED
  BY <1>1, <1>2, FS_Subset

-----------------------------------------------------------------------------
(* What a step that leaves a part alone keeps.                             *)

NoRows == ~ Exists => DOMAIN rows = {}

LEMMA StoreKept ==
    ASSUME RowsAreComplete, NoRows, UNCHANGED store
    PROVE  RowsAreComplete' /\ NoRows'
BY DEF RowsAreComplete, NoRows, store, Exists, Committed

LEMMA PageKept ==
    ASSUME PageValid, UNCHANGED <<store, client>>
    PROVE  PageValid'
BY DEF PageValid, store, Exists, Before

LEMMA DeliveryKept ==
    ASSUME DeliveryValid, UNCHANGED <<monitor, work, attempts, received>>
    PROVE  DeliveryValid'
BY DEF DeliveryValid, Exists, Committed

LEMMA WorkKept ==
    ASSUME Types, WorkValid, UNCHANGED <<monitor, work>>, head' \in Nat, head <= head'
    PROVE  WorkValid'
<1>1. head \in Nat /\ monitor \in MonitorRecord \cup {None, Deleted}
  BY DEF Types
<1>2. Exists => monitor \in MonitorRecord
  BY <1>1 DEF Exists
<1>3. work.at # "idle" => work.block \in Nat
  BY DEF Types
<1>4. QED
  BY <1>1, <1>2, <1>3 DEF WorkValid, Exists, NextBlock, MonitorRecord

LEMMA TypesKept ==
    ASSUME Types, UNCHANGED <<fixed, head, store, process, received, client>>
    PROVE  Types'
BY DEF Types, fixed, store, process

LEMMA Parts ==
    /\ FlowValid <=> /\ Types /\ WorkValid /\ DeliveryValid /\ PageValid
                /\ RowsAreComplete /\ NoRows
    /\ FlowValid' <=> /\ Types' /\ WorkValid' /\ DeliveryValid' /\ PageValid'
                 /\ RowsAreComplete' /\ NoRows'
BY DEF FlowValid, NoRows

LEMMA HeadKept ==
    ASSUME Types, UNCHANGED head
    PROVE  head' \in Nat /\ head <= head'
BY DEF Types

-----------------------------------------------------------------------------
(* The initial state, and steps that change nothing the invariant speaks of. *)

LEMMA InitInv == ASSUME Init PROVE FlowValid
<1>1. Min(Blocks) = 0
  BY DEF Min
<1>2. monitor = None /\ rows = <<>> /\ work = Idle /\ attempts = <<>> /\ client = Away
  BY DEF Init
<1>3. ~ Exists
  BY <1>2 DEF Exists
<1>4. DOMAIN rows = {} /\ DOMAIN attempts = {}
  BY <1>2
<1>5. Types
  <2>1. IsFiniteSet(DOMAIN rows)
    BY <1>4, FS_EmptySet
  <2>2. attempts = [b \in DOMAIN attempts |-> attempts[b]]
    BY <1>2
  <2>3. client \in [at : {"away", "between", "get_monitor", "query_results", "done"},
                    limit : Nat, offset : Nat, missing : SUBSET (Nat \X Nat)]
    BY <1>2 DEF Away
  <2>4. work \in [at : {"idle", "commit", "submit"}, block : Blocks \cup {None}] /\ work.at = "idle"
    BY <1>2 DEF Idle
  <2>5. QED
    BY <1>1, <1>4, <2>1, <2>2, <2>3, <2>4 DEF Init, Types
<1>6. WorkValid
  BY <1>2, <1>3 DEF WorkValid, Idle
<1>7. DeliveryValid
  BY <1>2, <1>4 DEF DeliveryValid, Init, Idle
<1>8. PageValid
  BY <1>2 DEF PageValid, Away
<1>9. RowsAreComplete /\ NoRows
  BY <1>3, <1>4 DEF RowsAreComplete, NoRows
<1>10. QED
  BY <1>5, <1>6, <1>7, <1>8, <1>9, Parts

LEMMA Stutter == ASSUME FlowValid, UNCHANGED vars PROVE FlowValid'
BY Parts, StoreKept, PageKept, DeliveryKept, WorkKept, HeadKept, TypesKept
   DEF vars, process, store

LEMMA AskAgainInv == ASSUME FlowValid, AskAgain PROVE FlowValid'
BY Parts, StoreKept, PageKept, DeliveryKept, WorkKept, HeadKept, TypesKept
   DEF AskAgain, process, store

LEMMA FinalizeInv == ASSUME FlowValid, Finalize PROVE FlowValid'
<1>1. head \in Nat /\ head' \in Blocks /\ head' \in Nat /\ head <= head'
  BY Parts DEF Finalize, Types
<1>2. Types'
  BY <1>1, Parts DEF Finalize, Types, fixed, store, process
<1>3. WorkValid'
  BY <1>1, Parts, WorkKept DEF Finalize, process, store
<1>4. QED
  BY <1>2, <1>3, Parts, StoreKept, PageKept, DeliveryKept DEF Finalize, process, store

LEMMA ExistsIs ==
    ASSUME Types
    PROVE  /\ Exists <=> monitor \in MonitorRecord
           /\ Exists => /\ monitor.start \in Nat /\ monitor.end \in Nat \cup {None}
                        /\ monitor.cursor \in Nat \cup {None} /\ NextBlock \in Nat
<1>1. Exists <=> monitor \in MonitorRecord
  BY DEF Types, Exists
<1>2. QED
  BY <1>1 DEF MonitorRecord, NextBlock

-----------------------------------------------------------------------------
(* Users.                                                                  *)

LEMMA CreateInv ==
    ASSUME FlowValid, NEW s \in Starts \cup {None}, NEW e \in Starts \cup {None}, CreateMonitor(s, e)
    PROVE  FlowValid'
<1>1. Types /\ WorkValid /\ DeliveryValid /\ PageValid /\ RowsAreComplete /\ NoRows
  BY Parts
<1>2. /\ monitor = None /\ ~ Exists /\ DOMAIN rows = {}
      /\ UNCHANGED <<fixed, head, rows, process, received, client>>
  BY <1>1 DEF CreateMonitor, Exists, NoRows
<1>3. PICK first \in Nat :
         monitor' \in {None, [start |-> first, end |-> e, cursor |-> None]}
  BY <1>1 DEF CreateMonitor, Types
<1>4. /\ monitor' \in MonitorRecord \cup {None}
      /\ Exists' => monitor' = [start |-> first, end |-> e, cursor |-> None]
  BY <1>3 DEF MonitorRecord, Exists
<1>5. Exists' => monitor'.cursor = None
  BY <1>4
<1>6. Types'
  BY <1>1, <1>2, <1>4 DEF Types, fixed, process
<1>7. work.at = "idle" /\ client.at = "away"
  BY <1>1, <1>2 DEF WorkValid, PageValid
<1>8. WorkValid' /\ PageValid'
  BY <1>2, <1>5, <1>7 DEF WorkValid, PageValid, process
<1>9. DeliveryValid'
  <2>1. \A b \in Blocks : b \notin DOMAIN attempts /\ received[b] = 0
    BY <1>1, <1>2 DEF DeliveryValid, Types
  <2>2. QED
    BY <2>1, <1>2, <1>7 DEF DeliveryValid, process
<1>10. RowsAreComplete' /\ NoRows'
  BY <1>2, <1>5 DEF RowsAreComplete, NoRows, Committed
<1>11. QED
  BY <1>6, <1>8, <1>9, <1>10, Parts

LEMMA DeleteInv == ASSUME FlowValid, DeleteMonitor PROVE FlowValid'
<1>1. Types /\ WorkValid /\ DeliveryValid /\ PageValid /\ RowsAreComplete /\ NoRows
  BY Parts
<1>2. /\ monitor' = Deleted /\ ~ Exists' /\ DOMAIN rows' = {}
      /\ UNCHANGED <<fixed, head, process, received, client>>
  BY DEF DeleteMonitor, Exists
<1>3. Types'
  BY <1>1, <1>2, FS_EmptySet DEF Types, fixed, process
<1>4. WorkValid' /\ PageValid' /\ RowsAreComplete' /\ NoRows'
  BY <1>2 DEF WorkValid, PageValid, RowsAreComplete, NoRows
<1>5. DeliveryValid'
  BY <1>1, <1>2 DEF DeliveryValid, process
<1>6. QED
  BY <1>3, <1>4, <1>5, Parts

-----------------------------------------------------------------------------
(* The worker.                                                             *)

LEMMA DecodeInv == ASSUME FlowValid, Decode PROVE FlowValid'
<1>1. Types /\ WorkValid /\ DeliveryValid /\ PageValid /\ RowsAreComplete /\ NoRows
  BY Parts
<1>2. /\ work' = [at |-> "commit", block |-> NextBlock] /\ Due
      /\ UNCHANGED <<fixed, head, store, phase, cancelled, attempts, received, client>>
  BY DEF Decode
<1>3. Exists /\ NextBlock <= head /\ NextBlock \in Nat /\ monitor.start <= NextBlock /\ head \in Blocks
  BY SMTT(30), <1>1, <1>2, ExistsIs DEF Due, WorkValid, NextBlock, Types
<1>4. NextBlock \in Blocks
  <2>1. NextBlock \in 0 .. head
    BY <1>1, <1>3 DEF Types
  <2>2. QED
    BY <2>1, <1>3
<1>5. work'.at = "commit" /\ work'.block = NextBlock
  BY <1>2
<1>6. Types'
  BY <1>1, <1>2, <1>4 DEF Types, fixed, store
<1>7. WorkValid'
  BY <1>1, <1>2, <1>3, <1>5 DEF WorkValid, store, Exists, NextBlock
<1>8. DeliveryValid'
  BY <1>1, <1>2, <1>5 DEF DeliveryValid, store, Exists, Committed
<1>9. QED
  BY <1>1, <1>2, <1>6, <1>7, <1>8, Parts, StoreKept, PageKept

\* A step after which the worker is idle and what it was busy with is forgotten.
LEMMA IdleInv ==
    ASSUME Types, WorkValid, DeliveryValid, work' = Idle,
           UNCHANGED <<fixed, head, store, received, client>>,
           phase' \in {"up", "stopping", "closing", "down"},
           \/ UNCHANGED attempts
           \/ attempts' = <<>>
    PROVE  Types' /\ WorkValid' /\ DeliveryValid'
<1>1. work'.at = "idle" /\ work' \in [at : {"idle", "commit", "submit"}, block : Blocks \cup {None}]
  BY DEF Idle
<1>2. /\ attempts' = [b \in DOMAIN attempts' |-> attempts'[b]]
      /\ \A b \in DOMAIN attempts' : /\ b \in DOMAIN attempts /\ attempts'[b] = attempts[b]
                                     /\ b \in Blocks /\ attempts'[b] \in {"sent", "received"}
  <2>1. CASE UNCHANGED attempts
    BY <2>1 DEF Types
  <2>2. CASE attempts' = <<>>
    BY <2>2
  <2>3. QED
    BY <2>1, <2>2
<1>3. Types'
  BY <1>1, <1>2 DEF Types, fixed, store
<1>4. WorkValid'
  BY <1>1 DEF WorkValid, store, Exists
<1>5. DeliveryValid'
  BY <1>1, <1>2 DEF DeliveryValid, store, Exists, Committed
<1>6. QED
  BY <1>3, <1>4, <1>5

LEMMA CommitNotInv == ASSUME FlowValid, CommitNot PROVE FlowValid'
<1>1. /\ work' = Idle
      /\ UNCHANGED <<fixed, head, store, phase, cancelled, attempts, received, client>>
  BY DEF CommitNot
<1>2. phase' \in {"up", "stopping", "closing", "down"}
  BY <1>1, Parts DEF Types
<1>3. QED
  BY <1>1, <1>2, Parts, IdleInv, StoreKept, PageKept

\* What a durable block changes.
LEMMA DurableEffect ==
    ASSUME FlowValid, NEW b \in Blocks, work.at = "commit", work.block = b, Accepted(b), Durable(b)
    PROVE  /\ Exists /\ Exists' /\ monitor' \in MonitorRecord
           /\ monitor'.cursor = b /\ monitor'.start = monitor.start
           /\ monitor.start <= b /\ b <= head /\ ~ Committed(b)
           /\ \A c \in Blocks : Committed(c)' <=> Committed(c) \/ c = b
           /\ DOMAIN rows' = DOMAIN rows \cup KeysOf(b)
<1>1. Types /\ WorkValid /\ Exists /\ Insertable[adapter][target][b]
  BY Parts DEF Accepted
<1>2. monitor \in MonitorRecord /\ monitor' = [monitor EXCEPT !.cursor = b]
  BY <1>1, ExistsIs DEF Durable
<1>3. monitor' \in MonitorRecord /\ monitor'.cursor = b /\ monitor'.start = monitor.start
  BY <1>2 DEF MonitorRecord
<1>4. Exists'
  BY <1>3 DEF Exists
<1>5. b = NextBlock /\ monitor.start <= b /\ b <= head
  BY <1>1 DEF WorkValid
<1>6. monitor.start \in Nat /\ monitor.cursor \in Nat \cup {None}
  BY <1>2 DEF MonitorRecord
<1>7. ~ Committed(b) /\ \A c \in Blocks : Committed(c)' <=> Committed(c) \/ c = b
  <2>1. CASE monitor.cursor = None
    BY <2>1, <1>3, <1>5, <1>6 DEF Committed, NextBlock
  <2>2. CASE monitor.cursor # None
    <3>1. monitor.cursor \in Nat /\ b = monitor.cursor + 1
      BY <2>2, <1>5, <1>6 DEF NextBlock
    <3>2. QED
      BY <2>2, <3>1, <1>3, <1>5, <1>6 DEF Committed
  <2>3. QED
    BY <2>1, <2>2
<1>8. DOMAIN rows' = DOMAIN rows \cup DOMAIN NewRows[adapter][target][b]
  BY DEF Durable
<1>9. DOMAIN NewRows[adapter][target][b] = KeysOf(b)
  BY <1>1, KeysWritten DEF Types
<1>10. QED
  BY <1>1, <1>3, <1>4, <1>5, <1>7, <1>8, <1>9

LEMMA DurableInv ==
    ASSUME FlowValid, NEW b \in Blocks, work.at = "commit", work.block = b, Accepted(b), Durable(b),
           UNCHANGED client
    PROVE  RowsAreComplete' /\ NoRows' /\ PageValid' /\ IsFiniteSet(DOMAIN rows')
<1>1. /\ Types /\ PageValid /\ Exists /\ Exists'
      /\ DOMAIN rows = UNION {KeysOf(c) : c \in {d \in Blocks : Committed(d)}}
      /\ DOMAIN rows' = DOMAIN rows \cup KeysOf(b)
  BY Parts, DurableEffect DEF RowsAreComplete
<1>2. \A c \in Blocks : Committed(c)' <=> Committed(c) \/ c = b
  BY DurableEffect
<1>3. DOMAIN rows' = UNION {KeysOf(c) : c \in {d \in Blocks : Committed(d)'}}
  <2>1. {d \in Blocks : Committed(d)'} = {d \in Blocks : Committed(d)} \cup {b}
    BY <1>2
  <2> DEFINE S == {d \in Blocks : Committed(d)}
  <2> HIDE DEF S
  <2>2. UNION {KeysOf(c) : c \in S \cup {b}} = (UNION {KeysOf(c) : c \in S}) \cup KeysOf(b)
    OBVIOUS
  <2>3. QED
    BY <1>1, <2>1, <2>2 DEF S
<1>4. RowsAreComplete' /\ NoRows'
  BY <1>1, <1>3 DEF RowsAreComplete, NoRows
<1>5. IsFiniteSet(DOMAIN rows')
  <2>1. IsFiniteSet(KeysOf(b)) /\ IsFiniteSet(DOMAIN rows)
    BY <1>1, KeysFinite DEF Types
  <2>2. QED
    <3>1. IsFiniteSet(DOMAIN rows \cup KeysOf(b))
      BY <2>1, FS_Union, Zenon
    <3>2. QED
      BY <1>1, <3>1
<1>6. ASSUME client.at # "away" PROVE PageValid'
  <2>1. /\ monitor' # None
        /\ client.missing \subseteq DOMAIN rows
        /\ \A r \in client.missing :
              client.offset <= Cardinality({x \in DOMAIN rows : Before(x, r)})
        /\ client.at = "done" => client.missing = {}
    BY <1>1, <1>6 DEF PageValid, Exists
  <2>2. ASSUME NEW r \in client.missing
        PROVE  client.offset <= Cardinality({x \in DOMAIN rows' : Before(x, r)})
    <3> DEFINE Old == {x \in DOMAIN rows : Before(x, r)}
               New == {x \in DOMAIN rows' : Before(x, r)}
    <3>1. IsFiniteSet(New)
      BY <1>5, FS_Subset, New \in SUBSET DOMAIN rows'
    <3>2. Old \in SUBSET New
      BY <1>1
    <3>3. IsFiniteSet(Old) /\ Cardinality(Old) <= Cardinality(New)
      BY <3>1, <3>2, FS_Subset
    <3>4. Cardinality(Old) \in Nat /\ Cardinality(New) \in Nat /\ client.offset \in Nat
      BY <1>1, <3>1, <3>3, FS_CardinalityType DEF Types
    <3>5. client.offset <= Cardinality(Old)
      BY <2>1
    <3> HIDE DEF Old, New
    <3>6. client.offset <= Cardinality(New)
      BY <3>3, <3>4, <3>5
    <3>7. QED
      BY <3>6 DEF New
  <2>3. QED
    BY <1>1, <2>1, <2>2 DEF PageValid, Before
<1>7. PageValid'
  BY <1>6 DEF PageValid
<1>8. QED
  BY <1>4, <1>5, <1>7

LEMMA CommitInv == ASSUME FlowValid, Commit PROVE FlowValid'
<1> DEFINE b == work.block
<1>1. /\ Types /\ DeliveryValid /\ work.at = "commit" /\ Accepted(b) /\ Durable(b)
      /\ work' = [work EXCEPT !.at = "submit"]
      /\ UNCHANGED <<fixed, head, phase, cancelled, attempts, received, client>>
  BY Parts DEF Commit
<1>2. b \in Blocks /\ work'.at = "submit" /\ work'.block = b
  BY <1>1 DEF Types
<1>3. /\ Exists /\ Exists' /\ monitor' \in MonitorRecord
      /\ monitor'.cursor = b /\ monitor'.start = monitor.start
      /\ monitor.start <= b /\ b <= head /\ ~ Committed(b)
      /\ \A c \in Blocks : Committed(c)' <=> Committed(c) \/ c = b
  BY <1>1, <1>2, DurableEffect
<1>4. RowsAreComplete' /\ NoRows' /\ PageValid' /\ IsFiniteSet(DOMAIN rows')
  BY <1>1, <1>2, DurableInv
<1> HIDE DEF b
<1>5. Types'
  BY ZenonT(30), <1>1, <1>2, <1>3, <1>4 DEF Types, fixed
<1>6. WorkValid'
  BY <1>1, <1>2, <1>3 DEF WorkValid, Exists
<1>7. DeliveryValid'
  <2>1. monitor # Deleted
    BY <1>3 DEF Exists
  <2>2. b \notin DOMAIN attempts /\ received[b] = 0
    BY <1>1, <1>2, <1>3, <2>1 DEF DeliveryValid, Types
  <2>3. QED
    BY <1>1, <1>2, <1>3, <2>1, <2>2 DEF DeliveryValid
<1>8. QED
  BY <1>4, <1>5, <1>6, <1>7, Parts

LEMMA CommitUnansweredInv == ASSUME FlowValid, CommitUnanswered PROVE FlowValid'
<1> DEFINE b == work.block
<1>1. /\ Types /\ DeliveryValid /\ work.at = "commit" /\ Accepted(b) /\ Durable(b)
      /\ work' = Idle
      /\ UNCHANGED <<fixed, head, phase, cancelled, attempts, received, client>>
  BY Parts DEF CommitUnanswered
<1>2. b \in Blocks /\ work'.at = "idle"
  BY <1>1 DEF Types, Idle
<1>3. /\ Exists /\ Exists' /\ monitor' \in MonitorRecord
      /\ monitor'.cursor = b /\ monitor'.start = monitor.start
      /\ monitor.start <= b /\ b <= head
      /\ \A c \in Blocks : Committed(c)' <=> Committed(c) \/ c = b
  BY <1>1, <1>2, DurableEffect
<1>4. RowsAreComplete' /\ NoRows' /\ PageValid' /\ IsFiniteSet(DOMAIN rows')
  BY <1>1, <1>2, DurableInv
<1> HIDE DEF b
<1>5. Types'
  BY <1>1, <1>2, <1>3, <1>4 DEF Types, fixed, Idle
<1>6. WorkValid'
  BY <1>1, <1>2, <1>3 DEF WorkValid, Exists
<1>7. DeliveryValid'
  BY <1>1, <1>2, <1>3 DEF DeliveryValid, Exists
<1>8. QED
  BY <1>4, <1>5, <1>6, <1>7, Parts

LEMMA SubmitInv == ASSUME FlowValid, Submit PROVE FlowValid'
<1> DEFINE b == work.block
<1>1. /\ Types /\ WorkValid /\ DeliveryValid /\ work.at = "submit" /\ work' = Idle
      /\ attempts' \in {attempts, Started(b)}
      /\ UNCHANGED <<fixed, head, store, phase, cancelled, received, client>>
  BY Parts DEF Submit
<1>2. b \in Blocks /\ b \notin DOMAIN attempts /\ received[b] = 0 /\ monitor # None
  BY <1>1 DEF Types, DeliveryValid, WorkValid
<1>3. CASE attempts' = attempts
  <2>1. phase' \in {"up", "stopping", "closing", "down"}
    BY <1>1 DEF Types
  <2>2. QED
    BY <1>1, <1>3, <2>1, Parts, IdleInv, StoreKept, PageKept
<1>4. CASE attempts' = Started(b)
  <2>1. Exists => Committed(b)
    <3>1. SUFFICES ASSUME Exists PROVE Committed(b)
      OBVIOUS
    <3>2. b = monitor.cursor /\ b # None /\ b \in Nat
      BY <1>1, <1>2, <3>1 DEF WorkValid
    <3>3. QED
      BY <1>1, <3>1, <3>2 DEF WorkValid, Committed
  <2>2. Exists \/ monitor = Deleted
    BY <1>2 DEF Exists
  <2> HIDE DEF b
  <2>3. /\ DOMAIN attempts' = DOMAIN attempts \cup {b} /\ attempts'[b] = "sent"
        /\ \A c \in DOMAIN attempts : attempts'[c] = attempts[c]
        /\ attempts' = [c \in DOMAIN attempts' |-> attempts'[c]]
    BY <1>2, <1>4 DEF Started
  <2>4. work'.at = "idle"
    BY <1>1 DEF Idle
  <2>5. Types'
    BY <1>1, <1>2, <2>3, <2>4 DEF Types, fixed, store, Idle
  <2>6. WorkValid'
    BY <1>1, <2>4 DEF WorkValid, store, Exists
  <2>7. DeliveryValid'
    BY <1>1, <1>2, <2>1, <2>2, <2>3, <2>4 DEF DeliveryValid, store, Exists, Committed
  <2>8. QED
    BY <1>1, <2>5, <2>6, <2>7, Parts, StoreKept, PageKept
<1>5. QED
  BY <1>1, <1>3, <1>4

-----------------------------------------------------------------------------
(* The sink.                                                               *)

LEMMA ReceiveInv == ASSUME FlowValid, NEW b \in Blocks, Receive(b) PROVE FlowValid'
<1>1. /\ Types /\ WorkValid /\ DeliveryValid /\ b \in DOMAIN attempts /\ attempts[b] = "sent"
      /\ attempts' = [attempts EXCEPT ![b] = "received"]
      /\ received' = [received EXCEPT ![b] = @ + 1]
      /\ UNCHANGED <<fixed, head, store, phase, work, cancelled, client>>
  BY Parts DEF Receive
<1>2. /\ DOMAIN attempts' = DOMAIN attempts /\ attempts'[b] = "received"
      /\ \A c \in DOMAIN attempts : c # b => attempts'[c] = attempts[c]
      /\ attempts' = [c \in DOMAIN attempts' |-> attempts'[c]]
  <2>1. attempts' = [c \in DOMAIN attempts |-> IF c = b THEN "received" ELSE attempts[c]]
    BY <1>1
  <2>2. QED
    BY <1>1, <2>1
<1>3. received \in [Blocks -> Nat] /\ received[b] = 0
  BY <1>1 DEF Types, DeliveryValid
<1>4. received' \in [Blocks -> Nat] /\ received'[b] = 1 /\ \A c \in Blocks : c # b => received'[c] = received[c]
  BY <1>1, <1>3
<1>5. Types'
  BY <1>1, <1>2, <1>4 DEF Types, fixed, store
<1>6. WorkValid'
  BY <1>1, WorkKept, HeadKept DEF store
<1>7. DeliveryValid'
  BY <1>1, <1>2, <1>3, <1>4 DEF DeliveryValid, store, Exists, Committed
<1>8. QED
  BY <1>1, <1>5, <1>6, <1>7, Parts, StoreKept, PageKept

\* An attempt that ends, however it does.
LEMMA EndsInv == ASSUME FlowValid, NEW b \in Blocks, Ends(b) \/ CancelAttempt(b) PROVE FlowValid'
<1>1. /\ Types /\ WorkValid /\ DeliveryValid /\ attempts' = Without(b)
      /\ UNCHANGED <<fixed, head, store, phase, work, cancelled, received, client>>
  BY Parts DEF Ends, CancelAttempt
<1>2. /\ DOMAIN attempts' = DOMAIN attempts \ {b}
      /\ \A c \in DOMAIN attempts' : attempts'[c] = attempts[c]
      /\ attempts' = [c \in DOMAIN attempts' |-> attempts'[c]]
  BY <1>1 DEF Without
<1>3. Types'
  BY <1>1, <1>2 DEF Types, fixed, store
<1>4. WorkValid'
  BY <1>1, WorkKept, HeadKept DEF store
<1>5. DeliveryValid'
  BY <1>1, <1>2 DEF DeliveryValid, store, Exists, Committed
<1>6. QED
  BY <1>1, <1>3, <1>4, <1>5, Parts, StoreKept, PageKept

-----------------------------------------------------------------------------
(* The process.                                                            *)

LEMMA PhaseInv == ASSUME FlowValid, Stop \/ ShutdownSink \/ Restart PROVE FlowValid'
<1>1. /\ Types /\ phase' \in {"up", "stopping", "closing", "down"}
      /\ UNCHANGED <<fixed, head, store, work, attempts, received, client>>
  BY Parts DEF Stop, ShutdownSink, Restart
<1>2. Types'
  BY <1>1 DEF Types, fixed, store
<1>3. WorkValid' /\ DeliveryValid'
  BY <1>1, Parts, WorkKept, HeadKept, DeliveryKept DEF store
<1>4. QED
  BY <1>1, <1>2, <1>3, Parts, StoreKept, PageKept

LEMMA ExitInv == ASSUME FlowValid, Exit PROVE FlowValid'
<1>1. /\ Types /\ WorkValid /\ DeliveryValid /\ phase' = "down" /\ attempts' = <<>>
      /\ UNCHANGED <<fixed, head, store, work, cancelled, received, client>>
  BY Parts DEF Exit
<1>2. DOMAIN attempts' = {} /\ attempts' = [b \in DOMAIN attempts' |-> attempts'[b]]
  BY <1>1
<1>3. Types'
  BY <1>1, <1>2 DEF Types, fixed, store
<1>4. WorkValid'
  BY <1>1, WorkKept, HeadKept DEF store
<1>5. DeliveryValid'
  BY <1>1, <1>2 DEF DeliveryValid, store, Exists, Committed
<1>6. QED
  BY <1>1, <1>3, <1>4, <1>5, Parts, StoreKept, PageKept

Clients == [at : {"away", "between", "get_monitor", "query_results", "done"},
            limit : Nat, offset : Nat, missing : SUBSET (Nat \X Nat)]

LEMMA AwayIs == Away \in Clients /\ Away.at = "away"
BY DEF Away, Clients

LEMMA CrashInv == ASSUME FlowValid, Crash PROVE FlowValid'
<1>1. /\ Types /\ WorkValid /\ DeliveryValid /\ phase' = "down" /\ attempts' = <<>>
      /\ work' = Idle /\ client' = Away
      /\ UNCHANGED <<fixed, head, store, received>>
  BY Parts DEF Crash
<1>2. DOMAIN attempts' = {} /\ attempts' = [b \in DOMAIN attempts' |-> attempts'[b]]
  BY <1>1
<1>3. work'.at = "idle" /\ work' \in [at : {"idle", "commit", "submit"}, block : Blocks \cup {None}]
  BY <1>1 DEF Idle
<1>4. Types'
  BY <1>1, <1>2, <1>3, AwayIs DEF Types, fixed, store, Clients
<1>5. WorkValid'
  BY <1>1, <1>3 DEF WorkValid, store, Exists
<1>6. DeliveryValid'
  BY <1>1, <1>2, <1>3 DEF DeliveryValid, store, Exists, Committed
<1>7. PageValid'
  BY <1>1, AwayIs DEF PageValid
<1>8. QED
  BY <1>1, <1>4, <1>5, <1>6, <1>7, Parts, StoreKept

-----------------------------------------------------------------------------
(* Reading.                                                                *)

\* Steps of the client leave everything else alone.
LEMMA ReadingInv ==
    ASSUME FlowValid, UNCHANGED <<fixed, head, store, process, received>>,
           client' \in Clients, PageValid'
    PROVE  FlowValid'
<1>1. Types'
  BY SMTT(30), Parts DEF Types, fixed, store, process, Clients
<1>2. WorkValid' /\ DeliveryValid'
  BY Parts, WorkKept, HeadKept, DeliveryKept DEF store, process
<1>3. QED
  BY <1>1, <1>2, Parts, StoreKept

LEMMA LeaveInv == ASSUME FlowValid, LosesServer \/ Leave PROVE FlowValid'
<1>1. client' = Away /\ UNCHANGED <<fixed, head, store, process, received>>
  BY DEF LosesServer, Leave
<1>2. PageValid'
  BY <1>1, AwayIs DEF PageValid
<1>3. QED
  BY <1>1, <1>2, AwayIs, ReadingInv

LEMMA RowsArePairs == ASSUME FlowValid PROVE DOMAIN rows \subseteq Nat \X Nat
<1>1. CASE Exists
  BY <1>1, Parts, KeysFinite DEF RowsAreComplete
<1>2. CASE ~ Exists
  BY <1>2, Parts DEF NoRows
<1>3. QED
  BY <1>1, <1>2

LEMMA ReadFirstInv == ASSUME FlowValid, NEW limit \in Limits, ReadFirst(limit) PROVE FlowValid'
<1>1. /\ Exists /\ Types
      /\ client' = [at |-> "between", limit |-> limit, offset |-> 0, missing |-> DOMAIN rows]
      /\ UNCHANGED <<fixed, head, store, process, received>>
  BY Parts DEF ReadFirst
<1>2. client' \in Clients
  BY <1>1, RowsArePairs DEF Clients
<1>3. ASSUME NEW r PROVE 0 <= Cardinality({x \in DOMAIN rows : Before(x, r)})
  <2>1. IsFiniteSet({x \in DOMAIN rows : Before(x, r)})
    BY <1>1, FS_Subset DEF Types
  <2>2. QED
    BY <2>1, FS_CardinalityType
<1>4. PageValid'
  BY <1>1, <1>3 DEF PageValid, store, Exists, Before
<1>5. QED
  BY <1>1, <1>2, <1>4, ReadingInv

LEMMA AskForPageInv == ASSUME FlowValid, AskForPage PROVE FlowValid'
<1>1. /\ client.at = "between" /\ client' = [client EXCEPT !.at = "get_monitor"]
      /\ UNCHANGED <<fixed, head, store, process, received>>
  BY DEF AskForPage
<1>2. client \in Clients /\ PageValid
  BY Parts DEF Types, Clients
<1>3. /\ client' \in Clients /\ client'.at = "get_monitor"
      /\ client'.offset = client.offset /\ client'.missing = client.missing
  BY <1>1, <1>2 DEF Clients
<1>4. PageValid'
  BY <1>1, <1>2, <1>3 DEF PageValid, store, Exists, Before
<1>5. QED
  BY <1>1, <1>3, <1>4, ReadingInv

LEMMA GetMonitorInv == ASSUME FlowValid, GetMonitor PROVE FlowValid'
<1>1. /\ client.at = "get_monitor"
      /\ client' = [client EXCEPT !.at = "query_results"] \/ client' = Away
      /\ UNCHANGED <<fixed, head, store, process, received>>
  BY DEF GetMonitor
<1>2. client \in Clients /\ PageValid
  BY Parts DEF Types, Clients
<1>3. CASE client' = Away
  <2>1. PageValid'
    BY <1>3, AwayIs DEF PageValid
  <2>2. QED
    BY <1>1, <1>3, <2>1, AwayIs, ReadingInv
<1>4. CASE client' = [client EXCEPT !.at = "query_results"]
  <2>1. /\ client' \in Clients /\ client'.at = "query_results"
        /\ client'.offset = client.offset /\ client'.missing = client.missing
    BY <1>2, <1>4 DEF Clients
  <2>2. PageValid'
    BY <1>1, <1>2, <2>1 DEF PageValid, store, Exists, Before
  <2>3. QED
    BY <1>1, <2>1, <2>2, ReadingInv
<1>5. QED
  BY <1>1, <1>3, <1>4

\* The place of a row among the pages is the number of rows before it.
LEMMA Rank ==
    ASSUME FlowValid, NEW q \in Ordered, NEW n \in 1 .. Len(q)
    PROVE  Cardinality({x \in DOMAIN rows : Before(x, q[n])}) = n - 1
<1> DEFINE R == DOMAIN rows
           P == {x \in R : Before(x, q[n])}
           g == [i \in 1 .. n - 1 |-> q[i]]
<1>1. IsFiniteSet(R) /\ R \subseteq Nat \X Nat
  BY Parts, RowsArePairs DEF Types
<1>2. q \in SetToSeqs(R) /\ \A i, j \in DOMAIN q : i < j => ~ Before(q[j], q[i])
  BY DEF Ordered
<1>3. /\ Len(q) \in Nat /\ DOMAIN q = 1 .. Len(q) /\ ToSet(q) = R
      /\ \A i, j \in 1 .. Len(q) : i # j => q[i] # q[j]
  BY <1>1, <1>2, SeqsHoldAll
<1> HIDE DEF R
<1>4. \A i \in 1 .. Len(q) : q[i] \in R /\ q[i] \in Nat \X Nat
  BY <1>1, <1>3 DEF ToSet
<1>5. \A x, y \in Nat \X Nat : x # y => Before(x, y) \/ Before(y, x)
  BY DEF Before
<1>6. \A i, j \in 1 .. Len(q) : i < j => Before(q[i], q[j])
  <2> SUFFICES ASSUME NEW i \in 1 .. Len(q), NEW j \in 1 .. Len(q), i < j
               PROVE  Before(q[i], q[j])
    OBVIOUS
  <2>1. q[i] # q[j]
    BY <1>3
  <2>2. ~ Before(q[j], q[i])
    BY <1>2, <1>3
  <2>3. q[i] \in Nat \X Nat /\ q[j] \in Nat \X Nat
    BY <1>4
  <2>4. QED
    BY <2>1, <2>2, <2>3, <1>5
<1>7. \A x \in Nat \X Nat : ~ Before(x, x)
  BY DEF Before
<1>8. ASSUME NEW i \in 1 .. Len(q) PROVE q[i] \in P <=> i \in 1 .. n - 1
  <2>1. CASE i < n
    BY <2>1, <1>4, <1>6
  <2>2. CASE i = n
    BY <2>2, <1>4, <1>7
  <2>3. CASE i > n
    BY <2>3, <1>2, <1>3
  <2>4. QED
    BY <2>1, <2>2, <2>3
<1>9. \A x \in P : \E i \in 1 .. n - 1 : x = q[i]
  <2>1. \A x \in R : \E i \in 1 .. Len(q) : x = q[i]
    BY <1>3 DEF ToSet
  <2>2. QED
    BY <2>1, <1>8
<1> HIDE DEF P
<1>10. g \in Bijection(1 .. n - 1, P)
  <2>1. \A i \in 1 .. n - 1 : i \in 1 .. Len(q) /\ g[i] = q[i]
    BY <1>3
  <2>2. g \in [1 .. n - 1 -> P]
    BY <2>1, <1>8
  <2>3. IsInjective(g)
    BY <2>1, <1>3 DEF IsInjective
  <2>4. \A x \in P : \E i \in 1 .. n - 1 : g[i] = x
    BY <2>1, <1>9
  <2>5. QED
    BY <2>2, <2>3, <2>4 DEF Bijection, Injection, Surjection
<1>11. IsFiniteSet(1 .. n - 1) /\ Cardinality(1 .. n - 1) = n - 1
  BY <1>3, n - 1 \in Nat, Interval
<1>12. Cardinality(P) = n - 1
  BY <1>10, <1>11, FS_Bijection DEF ExistsBijection
<1>13. QED
  BY <1>12 DEF P, R

LEMMA PageBounds ==
    ASSUME NEW offset \in Nat, NEW limit \in Nat, NEW len \in Nat
    PROVE  /\ Min({offset + PageLimit(limit), len}) \in Nat
           /\ Min({offset + PageLimit(limit), len}) <= len
           /\ offset + 1 <= len => offset + 1 <= Min({offset + PageLimit(limit), len})
<1>1. MaxPage \in Nat \ {0}
  OBVIOUS
<1>2. Min({limit, MaxPage}) \in Nat
  BY <1>1, MinIs
<1>3. PageLimit(limit) \in Nat \ {0}
  <2>1. \A m \in Nat : Max({1, m}) \in Nat \ {0}
    BY MaxIs
  <2>2. QED
    BY <1>2, <2>1 DEF PageLimit
<1>4. Min({offset + PageLimit(limit), len}) =
         IF offset + PageLimit(limit) <= len THEN offset + PageLimit(limit) ELSE len
  BY <1>3, MinIs
<1>5. QED
  BY <1>3, <1>4

LEMMA QueryInv == ASSUME FlowValid, QueryResults PROVE FlowValid'
<1>1. /\ client.at = "query_results" /\ client \in Clients /\ PageValid
      /\ UNCHANGED <<fixed, head, store, process, received>>
  BY Parts DEF QueryResults, Types, Clients
<1>2. PICK q \in Ordered :
        client' = IF ~ Exists /\ adapter = "postgres" THEN Away
                  ELSE IF Page(q) = <<>> THEN [client EXCEPT !.at = "done"]
                  ELSE [client EXCEPT !.at = "between",
                                      !.offset = @ + Len(Page(q)),
                                      !.missing = @ \ ToSet(Page(q))]
  BY DEF QueryResults
<1> DEFINE from == client.offset + 1
           to == Min({client.offset + PageLimit(client.limit), Len(q)})
<1>3. client.offset \in Nat /\ client.limit \in Nat /\ client.missing \subseteq Nat \X Nat
  BY <1>1 DEF Clients
<1>4. Len(q) \in Nat /\ ToSet(q) = DOMAIN rows /\ DOMAIN q = 1 .. Len(q)
  BY Parts, SeqsHoldAll DEF Types, Ordered
<1>5. from = client.offset + 1 /\ Page(q) = SubSeq(q, from, to)
  BY DEF Page
<1>6. to \in Nat /\ to <= Len(q) /\ (client.offset + 1 <= Len(q) => client.offset + 1 <= to)
  BY <1>3, <1>4, PageBounds
<1> HIDE DEF from, to
<1>7. /\ ToSet(Page(q)) = {q[i] : i \in from .. to}
      /\ Len(Page(q)) = IF from <= to THEN to - from + 1 ELSE 0
  <2>1. from \in Int /\ to \in Int
    BY <1>3, <1>5, <1>6
  <2>2. /\ ToSet(SubSeq(q, from, to)) = {q[i] : i \in from .. to}
        /\ Len(SubSeq(q, from, to)) = IF from <= to THEN to - from + 1 ELSE 0
    BY <2>1, Elements
  <2>3. QED
    BY <1>5, <2>2
<1>8. Page(q) = <<>> => ~ (from <= to)
  BY <1>3, <1>5, <1>6, <1>7
<1>9. ASSUME Exists, NEW r \in client.missing
      PROVE  \E n \in 1 .. Len(q) :
                /\ r = q[n] /\ from <= n
                /\ Cardinality({x \in DOMAIN rows : Before(x, r)}) = n - 1
  <2>1. PICK n \in 1 .. Len(q) : r = q[n]
    BY <1>1, <1>4, <1>9 DEF PageValid, ToSet
  <2>2. Cardinality({x \in DOMAIN rows : Before(x, r)}) = n - 1
    BY <2>1, Rank
  <2>3. client.offset <= n - 1
    BY <1>1, <1>9, <2>2 DEF PageValid
  <2>4. from <= n
    BY <1>3, <1>4, <1>5, <2>3
  <2>5. QED
    BY <2>1, <2>2, <2>4
<1>10. CASE ~ Exists /\ adapter = "postgres"
  <2>1. client' = Away
    BY <1>2, <1>10
  <2>2. PageValid'
    BY <2>1, AwayIs DEF PageValid
  <2>3. QED
    BY <1>1, <2>1, <2>2, AwayIs, ReadingInv
<1>11. CASE ~ (~ Exists /\ adapter = "postgres") /\ Page(q) = <<>>
  <2>1. client' = [client EXCEPT !.at = "done"]
    BY <1>2, <1>11
  <2>2. /\ client' \in Clients /\ client'.at = "done"
        /\ client'.offset = client.offset /\ client'.missing = client.missing
    BY <1>1, <2>1 DEF Clients
  <2>3. Exists => client.missing = {}
    <3>1. SUFFICES ASSUME Exists, NEW r \in client.missing PROVE FALSE
      OBVIOUS
    <3>2. PICK n \in 1 .. Len(q) : from <= n
      BY <3>1, <1>9
    <3>3. QED
      BY <1>3, <1>4, <1>5, <1>6, <1>8, <1>11, <3>2
  <2>4. PageValid'
    BY <1>1, <2>2, <2>3 DEF PageValid, store, Exists
  <2>5. QED
    BY <1>1, <2>2, <2>4, ReadingInv
<1>12. CASE ~ (~ Exists /\ adapter = "postgres") /\ Page(q) # <<>>
  <2>1. client' = [client EXCEPT !.at = "between", !.offset = @ + Len(Page(q)),
                                 !.missing = @ \ ToSet(Page(q))]
    BY <1>2, <1>12
  <2>2. Len(Page(q)) \in Nat
    BY SMTT(30), <1>3, <1>5, <1>6, <1>7
  <2>3. /\ client' \in Clients /\ client'.at = "between"
        /\ client'.offset = client.offset + Len(Page(q))
        /\ client'.missing = client.missing \ ToSet(Page(q))
    <3>1. client.missing \ ToSet(Page(q)) \in SUBSET (Nat \X Nat) /\ client.offset + Len(Page(q)) \in Nat
      BY <1>3, <2>2
    <3>2. client' = [at |-> "between", limit |-> client.limit, offset |-> client.offset + Len(Page(q)),
                     missing |-> client.missing \ ToSet(Page(q))]
      BY <1>1, <2>1 DEF Clients
    <3>3. QED
      BY <1>3, <3>1, <3>2 DEF Clients
  <2>4. ASSUME Exists, NEW r \in client'.missing
        PROVE  client'.offset <= Cardinality({x \in DOMAIN rows : Before(x, r)})
    <3>1. PICK n \in 1 .. Len(q) : /\ r = q[n] /\ from <= n
                                   /\ Cardinality({x \in DOMAIN rows : Before(x, r)}) = n - 1
      BY <1>9, <2>3, <2>4
    <3>2. ~ (n \in from .. to)
      BY <1>7, <2>3, <3>1
    <3>3. client'.offset <= n - 1
      <4>1. from \in Nat /\ n \in Nat /\ to < n
        BY <1>3, <1>4, <1>5, <1>6, <3>1, <3>2
      <4>2. QED
        BY <1>3, <1>5, <1>6, <1>7, <2>3, <3>1, <4>1
    <3>4. QED
      BY <3>1, <3>3
  <2>5. PageValid'
    BY <1>1, <2>3, <2>4 DEF PageValid, store, Exists, Before
  <2>6. QED
    BY <1>1, <2>3, <2>5, ReadingInv
<1>13. QED
  BY <1>10, <1>11, <1>12

-----------------------------------------------------------------------------
(* Every step.                                                             *)

LEMMA NextFlow == ASSUME FlowValid, [Next]_vars PROVE FlowValid'
<1>1. CASE Worker
  BY <1>1, DecodeInv, CommitInv, CommitNotInv, SubmitInv DEF Worker
<1>2. CASE Service
  BY <1>2, GetMonitorInv, QueryInv DEF Service
<1>3. CASE Shutdown
  BY <1>3, PhaseInv, ExitInv DEF Shutdown
<1>4. CASE User
  BY <1>4, CreateInv, AskAgainInv, DeleteInv, PhaseInv, ReadFirstInv, AskForPageInv, LeaveInv
     DEF User
<1>5. CASE World
  BY <1>5, FinalizeInv, CommitUnansweredInv, CrashInv, PhaseInv, ReceiveInv, EndsInv DEF World
<1>6. QED
  BY <1>1, <1>2, <1>3, <1>4, <1>5, Stutter DEF Next

-----------------------------------------------------------------------------
(* What is stored of each result.                                          *)

LEMMA SchemaOf == ASSUME NEW t \in Targets PROVE IsSchema(t.schema)
BY DEF IsSchema

\* A commit stores each of its results in the adapter's form.
LEMMA RowsWritten ==
    ASSUME NEW a \in Adapters, NEW t \in Targets, NEW b \in Blocks, Insertable[a][t][b],
           NEW k \in DOMAIN NewRows[a][t][b]
    PROVE  NewRows[a][t][b][k] = RowOf(a, t, k)
<1>1. CASE a = "postgres"
  <2> DEFINE inserted == Inserted(t.kind, t.schema, Inputs(t, b))
  <2>1. CanInsert(t.kind, t.schema, Inputs(t, b))
    BY <1>1 DEF Insertable
  <2>2. NewRows[a][t][b] = [x \in {i.key : i \in inserted} |->
                              PgRow(t.kind, t.schema, (CHOOSE i \in inserted : i.key = x).params)]
    BY <1>1 DEF NewRows
  <2>3. \A i \in inserted : i.params = Values(t, i.key)
    BY <2>1, AllInserted
  <2> HIDE DEF inserted
  <2>4. k \in {i.key : i \in inserted}
    BY <2>2
  <2> DEFINE i == CHOOSE x \in inserted : x.key = k
  <2>5. i \in inserted /\ i.key = k
    BY <2>4
  <2>6. i.params = Values(t, k)
    BY <2>3, <2>5
  <2>7. NewRows[a][t][b][k] = PgRow(t.kind, t.schema, i.params)
    BY <2>2, <2>4
  <2>8. QED
    BY <1>1, <2>6, <2>7 DEF RowOf
<1>2. CASE a = "mongodb"
  BY <1>2 DEF NewRows, RowOf
<1>3. QED
  BY <1>1, <1>2 DEF Adapters

LEMMA StoredKept ==
    ASSUME StoredValid, UNCHANGED <<fixed, store>>, answer' \in {answer, "none"}
    PROVE  StoredValid'
BY DEF StoredValid, Answered, fixed, store, RowOf

LEMMA DurableStored ==
    ASSUME IInv, NEW b \in Blocks, Accepted(b), Durable(b), UNCHANGED <<fixed, answer>>
    PROVE  StoredValid'
<1> DEFINE new == NewRows[adapter][target][b]
<1>1. /\ adapter \in Adapters /\ target \in Targets /\ Insertable[adapter][target][b]
      /\ adapter' = adapter /\ target' = target
  BY Parts DEF IInv, Types, Accepted, fixed
<1>2. \A k \in DOMAIN new : new[k] = RowOf(adapter, target, k)
  BY <1>1, RowsWritten
<1>3. rows' = [k \in DOMAIN rows \cup DOMAIN new |-> IF k \in DOMAIN rows THEN rows[k] ELSE new[k]]
  BY DEF Durable
<1> HIDE DEF new
<1>4. \A k \in DOMAIN rows' : rows'[k] = RowOf(adapter, target, k)
  BY <1>2, <1>3 DEF IInv, StoredValid
<1>5. QED
  BY <1>1, <1>4 DEF IInv, StoredValid, Answered, RowOf

LEMMA CreateStored ==
    ASSUME IInv, NEW s, NEW e, CreateMonitor(s, e)
    PROVE  StoredValid'
<1>1. DOMAIN rows = {} /\ rows' = rows /\ target \in Targets
  BY Parts DEF IInv, Types, CreateMonitor, Exists, NoRows
<1>2. CanCreateTable(target.kind, target.schema) <=> ~ Impossible(target)
  <2> DEFINE columns == postgres_params(target.kind, target.schema)
             Named == {target.schema[i].name : i \in DOMAIN target.schema}
  <2>1. /\ IsInjective(columns) /\ ToSet(columns) \cap Reserved(target.kind) = {}
        /\ ToSet(columns) \cap SystemColumns = Named \cap SystemColumns
    BY <1>1, SchemaOf, ColumnsDiffer
  <2>2. ToSet(columns) \cap (Reserved(target.kind) \cup SystemColumns) = Named \cap SystemColumns
    BY <2>1
  <2>3. Named \cap SystemColumns = {} <=>
           ~ \E i \in DOMAIN target.schema : target.schema[i].name \in SystemColumns
    <3>1. ASSUME NEW i \in DOMAIN target.schema PROVE target.schema[i].name \in Named
      OBVIOUS
    <3>2. ASSUME NEW x \in Named PROVE \E i \in DOMAIN target.schema : x = target.schema[i].name
      OBVIOUS
    <3> HIDE DEF Named
    <3>3. Named \cap SystemColumns = {} <=> \A x \in Named : x \notin SystemColumns
      OBVIOUS
    <3>4. QED
      BY <3>1, <3>2, <3>3
  <2>4. Width(target.kind, target.schema) \in Nat
    <3> DEFINE schema == target.schema
    <3>1. schema \in Seq(ToSet(schema))
      BY <1>1, SchemaOf DEF IsSchema
    <3> HIDE DEF schema
    <3>2. Len(schema) \in Nat
      BY <3>1
    <3>3. Width(target.kind, schema) \in Nat
      BY <3>2 DEF Width
    <3>4. QED
      BY <3>3 DEF schema
  <2>5. CanCreateTable(target.kind, target.schema) <=>
           Named \cap SystemColumns = {} /\ Width(target.kind, target.schema) <= MAX_COLUMNS
    BY <2>1, <2>2 DEF CanCreateTable
  <2> HIDE DEF Named
  <2>6. QED
    BY <2>3, <2>4, <2>5, BindAssumption DEF Impossible
<1>3. Answered'
  <2>1. adapter' = adapter /\ target' = target /\ adapter \in Adapters
    BY Parts DEF IInv, Types, CreateMonitor, fixed
  <2>2. answer' = "error" => adapter = "postgres" /\ ~ CanCreateTable(target.kind, target.schema)
    BY DEF CreateMonitor
  <2>3. answer' = "created" => (adapter = "postgres" => CanCreateTable(target.kind, target.schema))
    BY DEF CreateMonitor
  <2>4. QED
    BY <1>2, <2>1, <2>2, <2>3 DEF Answered, Adapters
<1>4. QED
  BY <1>1, <1>3 DEF StoredValid

LEMMA NextStored == ASSUME IInv, [Next]_vars PROVE StoredValid'
<1>1. StoredValid /\ (work.at # "idle" => work.block \in Blocks)
  BY Parts DEF IInv, Types
<1>2. CASE Commit \/ CommitUnanswered
  BY <1>1, <1>2, DurableStored DEF Commit, CommitUnanswered
<1>3. CASE \E s, e \in Starts \cup {None} : CreateMonitor(s, e)
  BY <1>3, CreateStored
<1>4. CASE DeleteMonitor
  BY <1>1, <1>4 DEF DeleteMonitor, StoredValid, Answered, fixed
<1>5. CASE Decode \/ CommitNot \/ Submit \/ Service \/ Shutdown
  BY <1>1, <1>5, StoredKept
     DEF Decode, CommitNot, Submit, Service, GetMonitor, QueryResults, Shutdown, ShutdownSink, Exit
<1>6. CASE \/ AskAgain \/ Stop \/ AskForPage \/ LosesServer \/ Leave
           \/ \E limit \in Limits : ReadFirst(limit)
  BY <1>1, <1>6, StoredKept DEF AskAgain, Stop, AskForPage, LosesServer, Leave, ReadFirst
<1>7. CASE \/ Finalize \/ Crash \/ Restart
           \/ \E b \in Blocks : Receive(b) \/ Ends(b) \/ CancelAttempt(b)
  BY <1>1, <1>7, StoredKept DEF Finalize, Crash, Restart, Receive, Ends, CancelAttempt
<1>8. CASE UNCHANGED vars
  BY <1>1, <1>8, StoredKept DEF vars
<1>9. QED
  BY <1>2, <1>3, <1>4, <1>5, <1>6, <1>7, <1>8 DEF Next, Worker, User, World

-----------------------------------------------------------------------------
(* The theorems.                                                           *)

\* The invariant holds in every reachable state.
THEOREM Invariance == Spec => []IInv
<1>1. Init => IInv
  <2>1. Init => StoredValid
    BY DEF Init, StoredValid, Answered
  <2>2. QED
    BY <2>1, InitInv DEF IInv
<1>2. IInv /\ [Next]_vars => IInv'
  BY NextFlow, NextStored DEF IInv
<1>3. QED
  BY <1>1, <1>2, PTL DEF Spec

\* The rows are what the chain holds up to the cursor, whatever chunks, crashes and
\* lost answers did.
THEOREM RowsStayComplete == Spec => []RowsAreComplete
<1>1. IInv => RowsAreComplete
  BY Parts DEF IInv
<1>2. QED
  BY <1>1, Invariance, PTL

LEMMA ReadsBack == ASSUME IInv PROVE ReadsBackAsSent
<1>1. adapter \in Adapters /\ target \in Targets /\ StoredValid
  BY Parts DEF IInv, Types
<1>2. ASSUME NEW k \in DOMAIN rows
      PROVE  ReadBack(k) = canonical_params(target.schema, Values(target, k))
  <2>1. IsSchema(target.schema) /\ rows[k] = RowOf(adapter, target, k)
    BY <1>1, SchemaOf DEF StoredValid
  <2> DEFINE params == Values(target, k)
  <2>2. params = [i \in DOMAIN target.schema |-> Decoded(target.schema[i], <<k, i>>)]
    BY DEF Values
  <2> HIDE DEF params
  <2>3. CASE adapter = "postgres"
    <3>1. read_params(target.kind, target.schema, PgRow(target.kind, target.schema, params)) =
             canonical_params(target.schema, params)
      BY <2>1, <2>2, ReadBackPostgres
    <3>2. QED
      BY <2>1, <2>3, <3>1 DEF ReadBack, RowOf, params
  <2>4. CASE adapter = "mongodb"
    <3>1. bson_params_to_json(bson_params(target.schema, params)) = canonical_params(target.schema, params)
      BY <2>1, <2>2, ReadBackMongo
    <3>2. QED
      BY <2>1, <2>4, <3>1 DEF ReadBack, RowOf, params
  <2>5. QED
    BY <1>1, <2>3, <2>4 DEF Adapters
<1>3. QED
  BY <1>1, <1>2 DEF ReadsBackAsSent, StoredValid

\* Whatever the names and types of a target's parameters, both adapters return each
\* result as the webhook was sent it; MongoDB takes every monitor, and PostgreSQL every
\* one but those with a parameter named like its system columns or too many of them.
THEOREM ReadsBackHolds == Spec => []ReadsBackAsSent
BY ReadsBack, Invariance, PTL

LEMMA OnceFromInv == ASSUME IInv PROVE DeliveredOnce
<1>1. DeliveryValid /\ RowsAreComplete
  BY Parts DEF IInv
<1>2. SUFFICES ASSUME NEW b \in Blocks, received[b] > 0, monitor # Deleted, NEW n \in Found[b]
               PROVE  <<b, n>> \in DOMAIN rows
  BY <1>1 DEF DeliveredOnce, DeliveryValid
<1>3. Exists /\ Committed(b)
  BY <1>1, <1>2 DEF DeliveryValid
<1>4. <<b, n>> \in KeysOf(b)
  BY DEF KeysOf
<1>5. QED
  BY <1>1, <1>3, <1>4 DEF RowsAreComplete

\* The receiver is given a block at most once, and only what is stored.
THEOREM DeliveredOnceHolds == Spec => []DeliveredOnce
BY OnceFromInv, Invariance, PTL

\* A client that pages to the end misses nothing.
THEOREM PagesMissNothingHolds == Spec => []PagesMissNothing
<1>1. IInv => PagesMissNothing
  BY Parts DEF IInv, PagesMissNothing, PageValid, Exists
<1>2. QED
  BY <1>1, Invariance, PTL
=============================================================================
