-------------------------- MODULE BlockDecodeProofs --------------------------
(* What BlockDecode promises, for every window, list of monitors and content *)
(* of the blocks: a prepared block holds exactly what each monitor deserves, *)
(* and nothing on the chain stops the indexer.                               *)
EXTENDS BlockDecode, FiniteSetTheorems, WellFoundedInduction, TLAPS

-----------------------------------------------------------------------------
(* The candidates of a block, in order.                                    *)

\* A nonempty set of numbers has a smallest one.
LEMMA Smallest ==
    ASSUME NEW T \in SUBSET Nat, T # {}
    PROVE  \E n \in T : \A m \in T : n <= m
<1>1. PICK n \in T : \A m \in T : ~ (<<m, n>> \in OpToRel(<, Nat))
  BY NatLessThanWellFounded, WFMin
<1>2. \A m \in T : n <= m
  <2>1. \A m \in T : ~ (m < n)
    BY <1>1 DEF OpToRel
  <2>2. QED
    BY <2>1
<1>3. QED
  BY <1>2

\* A finite set of numbers can be counted upwards.
LEMMA CountedUp ==
    ASSUME NEW S \in SUBSET Nat, IsFiniteSet(S)
    PROVE  \E q \in SetToSeqs(S) : \A i, j \in DOMAIN q : i < j => q[i] < q[j]
<1> DEFINE Counts(q, n, T) == /\ q \in [1 .. n -> T]
                              /\ \A i, j \in 1 .. n : i < j => q[i] < q[j]
           Bad == {n \in Nat : \E T \in SUBSET Nat : /\ IsFiniteSet(T) /\ Cardinality(T) = n
                                                      /\ ~ \E q : Counts(q, n, T)}
<1>1. Bad = {}
  <2>1. SUFFICES ASSUME Bad # {} PROVE FALSE
    OBVIOUS
  <2>2. PICK n \in Nat : n \in Bad /\ \A m \in Bad : n <= m
    BY <2>1, Smallest
  <2>3. PICK T \in SUBSET Nat : IsFiniteSet(T) /\ Cardinality(T) = n /\ ~ \E q : Counts(q, n, T)
    BY <2>2
  <2> HIDE DEF Bad
  <2>4. CASE n = 0
    <3>1. Counts([i \in 1 .. 0 |-> 0], 0, T)
      OBVIOUS
    <3>2. QED
      BY <3>1, <2>3, <2>4
  <2>5. CASE n # 0
    <3>1. PICK x \in T : \A y \in T : x <= y
      BY <2>3, <2>5, FS_EmptySet, Smallest
    <3> DEFINE U == T \ {x}
    <3>2. IsFiniteSet(U) /\ Cardinality(U) = n - 1
      BY <2>3, FS_RemoveElement
    <3>3. PICK q : Counts(q, n - 1, U)
      <4>1. n - 1 \in Nat /\ n - 1 \notin Bad
        BY <2>2, <2>5
      <4>2. QED
        BY <4>1, <3>2 DEF Bad
    <3> DEFINE r == [i \in 1 .. n |-> IF i = 1 THEN x ELSE q[i - 1]]
    <3>4. \A i \in 2 .. n : i - 1 \in 1 .. n - 1 /\ r[i] = q[i - 1] /\ r[i] \in U
      BY <3>3
    <3>5. r[1] = x /\ r \in [1 .. n -> T]
      <4>1. \A i \in 1 .. n : i = 1 \/ i \in 2 .. n
        OBVIOUS
      <4>2. 1 \in 1 .. n /\ U \subseteq T
        BY <2>5
      <4>3. r[1] = x /\ DOMAIN r = 1 .. n
        BY <4>2
      <4> HIDE DEF U
      <4>4. \A i \in 1 .. n : r[i] \in T
        BY <3>4, <4>1, <4>2, <4>3
      <4>5. QED
        BY <4>3, <4>4
    <3> HIDE DEF r, U
    <3>6. ASSUME NEW i \in 1 .. n, NEW j \in 1 .. n, i < j PROVE r[i] < r[j]
      <4>1. CASE i = 1
        <5>1. r[j] \in U
          BY <3>4, <3>6, <4>1
        <5>2. QED
          <6>1. r[j] \in Nat /\ x \in Nat /\ r[j] # x /\ x <= r[j]
            BY <5>1, <3>1 DEF U
          <6>2. QED
            BY <6>1, <3>5, <4>1
      <4>2. CASE i # 1
        <5>1. i \in 2 .. n /\ j \in 2 .. n /\ i - 1 < j - 1
          BY <4>2, <3>6
        <5>2. QED
          BY <5>1, <3>3, <3>4
      <4>3. QED
        BY <4>1, <4>2
    <3>7. Counts(r, n, T)
      BY <3>5, <3>6
    <3>8. QED
      BY <3>7, <2>3
  <2>6. QED
    BY <2>4, <2>5
<1>2. Cardinality(S) \in Nat
  BY FS_CardinalityType
<1>3. PICK q : Counts(q, Cardinality(S), S)
  BY <1>1, <1>2
<1>4. \A i, j \in 1 .. Cardinality(S) : i # j => q[i] # q[j]
  <2>1. \A i, j \in 1 .. Cardinality(S) : i < j => q[i] # q[j]
    <3>1. \A i \in 1 .. Cardinality(S) : q[i] \in Nat
      BY <1>3
    <3>2. QED
      BY <3>1, <1>3
  <2>2. QED
    BY <2>1, <1>2
<1>5. QED
  BY <1>3, <1>4 DEF SetToSeqs

LEMMA Interval ==
    ASSUME NEW m \in Nat
    PROVE  IsFiniteSet(1 .. m) /\ Cardinality(1 .. m) = m
BY FS_Interval

\* Every sequence of a finite set's elements without repetition has them all.
LEMMA SeqsHoldAll ==
    ASSUME NEW S, IsFiniteSet(S), NEW q \in SetToSeqs(S)
    PROVE  /\ Cardinality(S) \in Nat /\ Len(q) = Cardinality(S) /\ DOMAIN q = 1 .. Len(q)
           /\ ToSet(q) = S
           /\ \A i, j \in 1 .. Len(q) : i # j => q[i] # q[j]
<1> DEFINE D == 1 .. Cardinality(S)
<1>1. Cardinality(S) \in Nat
  BY FS_CardinalityType
<1>2. q \in [D -> S] /\ \A i, j \in D : i # j => q[i] # q[j]
  BY DEF SetToSeqs
<1>3. IsFiniteSet(D) /\ Cardinality(D) = Cardinality(S)
  BY <1>1, Interval
<1>4. q \in Injection(D, S)
  BY <1>2 DEF Injection, IsInjective
<1>5. q \in Surjection(D, S)
  BY <1>3, <1>4, FS_Injection
<1>6. Len(q) = Cardinality(S) /\ DOMAIN q = 1 .. Len(q)
  BY <1>1, <1>2
<1>7. ToSet(q) = S
  BY <1>5 DEF Surjection, ToSet
<1>8. QED
  BY <1>1, <1>2, <1>6, <1>7

LEMMA CandidatesAre ==
    ASSUME Types, NEW b \in Blocks
    PROVE  /\ Len(Candidates(b)) \in Nat /\ DOMAIN Candidates(b) = 1 .. Len(Candidates(b))
           /\ ToSet(Candidates(b)) = Wanted(b)
           /\ \A i, j \in DOMAIN Candidates(b) : i # j => Candidates(b)[i] # Candidates(b)[j]
<1>1. chain[b] \in Seq(ToSet(chain[b]))
  BY DecodeAssumption DEF Types
<1>2. Len(chain[b]) \in Nat /\ DOMAIN chain[b] = 1 .. Len(chain[b])
  BY <1>1
<1>3. Wanted(b) \in SUBSET Nat /\ Wanted(b) \subseteq 1 .. Len(chain[b])
  BY <1>2 DEF Wanted
<1>4. IsFiniteSet(Wanted(b))
  BY <1>2, <1>3, Interval, FS_Subset
<1>5. Candidates(b) \in SetToSeqs(Wanted(b))
  BY <1>3, <1>4, CountedUp DEF Candidates, InOrder
<1>6. QED
  BY <1>4, <1>5, SeqsHoldAll

\* The right outcomes are taken, and whatever else is taken equals them.
LEMMA RightMatch ==
    ASSUME Types, NEW b \in Blocks
    PROVE  OutcomesMatch(b, RightOutcomes(b))
<1>1. Len(RightOutcomes(b)) = Len(Candidates(b)) /\ DOMAIN RightOutcomes(b) = DOMAIN Candidates(b)
  BY CandidatesAre DEF RightOutcomes
<1>2. \A j \in DOMAIN Candidates(b) : RightOutcomes(b)[j].hash = Candidates(b)[j]
  BY DEF RightOutcomes
<1>3. QED
  BY <1>1, <1>2 DEF OutcomesMatch

LEMMA MatchIsRight ==
    ASSUME Types, NEW b \in Blocks, NEW outcomes \in {RightOutcomes(b)} \cup FlawedOutcomes(b),
           OutcomesMatch(b, outcomes)
    PROVE  outcomes = RightOutcomes(b)
<1> DEFINE right == RightOutcomes(b)
           C == Candidates(b)
<1>1. /\ Len(C) \in Nat /\ DOMAIN C = 1 .. Len(C)
      /\ \A i, j \in DOMAIN C : i # j => C[i] # C[j]
  BY CandidatesAre
<1>2. right = [j \in DOMAIN C |-> [hash |-> C[j], succeeded |-> chain[b][C[j]].succeeded]]
  BY DEF RightOutcomes
<1> HIDE DEF right, C
<1>3. /\ DOMAIN right = DOMAIN C /\ Len(right) = Len(C)
      /\ \A j \in DOMAIN C : right[j].hash = C[j]
  BY <1>1, <1>2
<1>4. SUFFICES ASSUME outcomes \in FlawedOutcomes(b) PROVE outcomes = right
  BY DEF right
<1>5. PICK m \in 0 .. Len(right) + 1 : outcomes \in [1 .. m -> ToSet(right)]
  BY <1>4 DEF FlawedOutcomes, BoundedSeq, SeqOf, right
<1>6. Len(outcomes) = Len(C) /\ \A j \in DOMAIN outcomes : outcomes[j].hash = C[j]
  BY DEF OutcomesMatch, C
<1>7. m \in Nat /\ Len(outcomes) = m /\ DOMAIN outcomes = DOMAIN C
  <2>1. m \in Nat
    BY <1>1, <1>3, <1>5
  <2>2. Len(outcomes) = m /\ DOMAIN outcomes = 1 .. m
    BY <2>1, <1>5
  <2>3. QED
    BY <2>1, <2>2, <1>1, <1>6
<1>8. ASSUME NEW j \in DOMAIN C PROVE outcomes[j] = right[j]
  <2>1. PICK i \in DOMAIN right : outcomes[j] = right[i]
    BY <1>5, <1>7 DEF ToSet
  <2>2. C[i] = C[j]
    BY <2>1, <1>3, <1>6, <1>7
  <2>3. QED
    BY <2>1, <2>2, <1>1, <1>3
<1>9. QED
  BY <1>2, <1>5, <1>7, <1>8 DEF right

-----------------------------------------------------------------------------
(* What a block is decoded to.                                             *)

\* A result of an item: the one for its monitor, layout and place.
ResultOf(kind, i, k, at) ==
    [kind |-> kind, monitor |-> i, item |-> k, at |-> at, layout |-> monitors[i].layout]

LEMMA DecodedItem ==
    ASSUME NEW kind, NEW b, NEW item, NEW k, NEW at, NEW r
    PROVE  r \in DecodeItem(kind, b, item, k, at) <=>
              \E i \in DOMAIN monitors :
                 /\ monitors[i].kind = kind /\ monitors[i].key = item.key
                 /\ monitors[i].layout \in item.decodes
                 /\ monitor_is_planned(i, b) /\ item.tag \in monitors[i].accepts
                 /\ r = ResultOf(kind, i, k, at)
<1>1. ASSUME r \in DecodeItem(kind, b, item, k, at)
      PROVE  \E i \in DOMAIN monitors :
                 /\ monitors[i].kind = kind /\ monitors[i].key = item.key
                 /\ monitors[i].layout \in item.decodes
                 /\ monitor_is_planned(i, b) /\ item.tag \in monitors[i].accepts
                 /\ r = ResultOf(kind, i, k, at)
  <2>1. PICK layout \in Layouts(kind, item.key) : r \in DecodeGroup(kind, b, item, k, at, layout)
    BY <1>1 DEF DecodeItem
  <2>2. layout \in item.decodes
    BY <2>1 DEF DecodeGroup
  <2>3. PICK i \in Group(kind, item.key, layout) :
              /\ monitor_is_planned(i, b) /\ item.tag \in monitors[i].accepts
              /\ r = [kind |-> kind, monitor |-> i, item |-> k, at |-> at, layout |-> layout]
    BY <2>1, <2>2 DEF DecodeGroup
  <2>4. QED
    BY <2>2, <2>3 DEF Group, ResultOf
<1>2. ASSUME NEW i \in DOMAIN monitors,
             monitors[i].kind = kind, monitors[i].key = item.key,
             monitors[i].layout \in item.decodes,
             monitor_is_planned(i, b), item.tag \in monitors[i].accepts,
             r = ResultOf(kind, i, k, at)
      PROVE  r \in DecodeItem(kind, b, item, k, at)
  <2>1. monitors[i].layout \in Layouts(kind, item.key)
    BY <1>2 DEF Layouts
  <2>2. i \in Group(kind, item.key, monitors[i].layout)
    BY <1>2 DEF Group
  <2>3. r \in DecodeGroup(kind, b, item, k, at, monitors[i].layout)
    BY <1>2, <2>2 DEF DecodeGroup, ResultOf
  <2>4. QED
    BY <2>1, <2>3 DEF DecodeItem
<1>3. QED
  BY <1>1, <1>2

\* A monitor deserves what it is given, looked at alone.
Due(kind, i, b, item) == monitors[i].kind = kind /\ Deserves(monitors[i], b, item)

LEMMA DecodedCalls ==
    ASSUME Types, NEW b \in Blocks, NEW r
    PROVE  r \in decode_calls(b, RightOutcomes(b)) <=>
              \E j \in DOMAIN Candidates(b), i \in DOMAIN monitors :
                 /\ Due("call", i, b, chain[b][Candidates(b)[j]])
                 /\ r = ResultOf("call", i, Candidates(b)[j], j)
<1> DEFINE C == Candidates(b)
           Item(j) == chain[b][C[j]]
<1>1. {n \in DOMAIN RightOutcomes(b) : RightOutcomes(b)[n].succeeded} =
         {n \in DOMAIN C : Item(n).succeeded}
  BY DEF RightOutcomes
<1>2. r \in decode_calls(b, RightOutcomes(b)) <=>
         \E j \in DOMAIN C : Item(j).succeeded /\ r \in DecodeItem("call", b, Item(j), C[j], j)
  BY <1>1 DEF decode_calls
<1>3. \A j : r \in DecodeItem("call", b, Item(j), C[j], j) <=>
              \E i \in DOMAIN monitors :
                 /\ monitors[i].kind = "call" /\ monitors[i].key = Item(j).key
                 /\ monitors[i].layout \in Item(j).decodes
                 /\ monitor_is_planned(i, b) /\ Item(j).tag \in monitors[i].accepts
                 /\ r = ResultOf("call", i, C[j], j)
  BY DecodedItem
<1> HIDE DEF C, Item
<1>4. QED
  BY <1>2, <1>3 DEF Due, Deserves, monitor_is_planned, C, Item

LEMMA DecodedEvents ==
    ASSUME Types, LogsValid, logs \in {"none", "ready"}, NEW b \in Blocks, NEW r
    PROVE  r \in decode_events(b) <=>
              \E k \in Returned(b), i \in DOMAIN monitors :
                 /\ emitted[b][k].key # None
                 /\ Due("event", i, b, emitted[b][k])
                 /\ r = ResultOf("event", i, k, k)
<1> DEFINE Item(k) == emitted[b][k]
<1>1. {log.item : log \in received[b]} = Returned(b)
  BY DEF LogsValid
<1>2. {log.item : log \in {l \in received[b] : emitted[b][l.item].key # None}} =
         {k \in Returned(b) : Item(k).key # None}
  BY <1>1
<1>3. r \in decode_events(b) <=>
         \E k \in Returned(b) : Item(k).key # None /\ r \in DecodeItem("event", b, Item(k), k, k)
  BY <1>2 DEF decode_events
<1>4. \A k : r \in DecodeItem("event", b, Item(k), k, k) <=>
              \E i \in DOMAIN monitors :
                 /\ monitors[i].kind = "event" /\ monitors[i].key = Item(k).key
                 /\ monitors[i].layout \in Item(k).decodes
                 /\ monitor_is_planned(i, b) /\ Item(k).tag \in monitors[i].accepts
                 /\ r = ResultOf("event", i, k, k)
  BY DecodedItem
<1>5. \A k \in Returned(b) : Item(k).succeeded
  BY DecodeAssumption DEF Types, Returned
<1> HIDE DEF Item
<1>6. QED
  BY <1>3, <1>4, <1>5 DEF Due, Deserves, monitor_is_planned, Item

\* What a monitor deserves is asked for.
LEMMA DueIsWanted ==
    ASSUME Types, NEW b \in Blocks, NEW i \in DOMAIN monitors, NEW k \in DOMAIN chain[b],
           Due("call", i, b, chain[b][k])
    PROVE  \E j \in DOMAIN Candidates(b) : Candidates(b)[j] = k
<1> DEFINE item == chain[b][k]
<1>1. /\ monitors[i].kind = "call" /\ monitors[i].key = item.key /\ item.key # None
      /\ monitor_is_planned(i, b)
  BY DecodeAssumption DEF Types, Due, Deserves, monitor_is_planned
<1>2. /\ monitors[i].layout \in Layouts("call", item.key)
      /\ i \in Group("call", item.key, monitors[i].layout)
  BY <1>1 DEF Layouts, Group
<1>3. k \in Wanted(b)
  BY <1>1, <1>2 DEF Wanted, IsWanted
<1>4. QED
  BY <1>3, CandidatesAre DEF ToSet

LEMMA DueIsReturned ==
    ASSUME Types, NEW b \in Blocks, NEW i \in DOMAIN monitors, NEW k \in DOMAIN emitted[b],
           Due("event", i, b, emitted[b][k])
    PROVE  k \in Returned(b) /\ emitted[b][k].key # None
<1>1. /\ monitors[i].kind = "event" /\ monitors[i].key = emitted[b][k].key
      /\ emitted[b][k].key # None /\ monitor_is_planned(i, b)
  BY DecodeAssumption DEF Types, Due, Deserves, monitor_is_planned
<1>2. QED
  BY <1>1 DEF Returned, LogTargets

LEMMA CountOne ==
    ASSUME NEW S, NEW x, \A y \in S : y = x, x \in S
    PROVE  Cardinality(S) = 1
<1>1. S = {x}
  OBVIOUS
<1>2. QED
  BY <1>1, FS_Singleton

LEMMA CountNone == ASSUME NEW S, \A y : y \notin S PROVE Cardinality(S) = 0
<1>1. S = {}
  OBVIOUS
<1>2. QED
  BY <1>1, FS_EmptySet

\* A block whose results are those of the right outcomes and of its logs.
LEMMA CallsExact ==
    ASSUME IInv, NEW b \in Blocks, step[b] = "prepared",
           NEW i \in DOMAIN monitors, NEW k \in DOMAIN chain[b]
    PROVE  Cardinality(Copies(b, "call", i, k)) = IF Due("call", i, b, chain[b][k]) THEN 1 ELSE 0
<1> DEFINE S == Copies(b, "call", i, k)
           C == Candidates(b)
<1>1. Types /\ LogsValid /\ logs \in {"none", "ready"}
      /\ results[b] = decode_calls(b, RightOutcomes(b)) \cup decode_events(b)
  BY DEF IInv, ResultsValid
<1>2. \A r : r \in S <=> \E j \in DOMAIN C : /\ C[j] = k /\ Due("call", i, b, chain[b][k])
                                          /\ r = ResultOf("call", i, k, j)
  <2>1. ASSUME NEW r \in S
        PROVE  \E j \in DOMAIN C : /\ C[j] = k /\ Due("call", i, b, chain[b][k])
                                   /\ r = ResultOf("call", i, k, j)
    <3>1. r \in results[b] /\ r.kind = "call" /\ r.monitor = i /\ r.item = k
      BY DEF Copies
    <3>2. r \notin decode_events(b)
      BY <1>1, <3>1, DecodedEvents DEF ResultOf
    <3>3. PICK j \in DOMAIN C, n \in DOMAIN monitors :
             Due("call", n, b, chain[b][C[j]]) /\ r = ResultOf("call", n, C[j], j)
      BY <1>1, <3>1, <3>2, DecodedCalls
    <3>4. n = i /\ C[j] = k
      BY <3>1, <3>3 DEF ResultOf
    <3>5. QED
      BY <3>3, <3>4
  <2>2. ASSUME NEW j \in DOMAIN C, C[j] = k, Due("call", i, b, chain[b][k]),
               NEW r, r = ResultOf("call", i, k, j)
        PROVE  r \in S
    <3>1. r \in results[b]
      BY <1>1, <2>2, DecodedCalls
    <3>2. QED
      BY <3>1, <2>2 DEF Copies, ResultOf
  <2>3. QED
    BY <2>1, <2>2
<1> HIDE DEF S
<1>3. CASE Due("call", i, b, chain[b][k])
  <2>1. PICK j \in DOMAIN C : C[j] = k
    BY <1>1, <1>3, DueIsWanted
  <2>2. \A n \in DOMAIN C : C[n] = k => n = j
    BY <1>1, <2>1, CandidatesAre
  <2>3. /\ ResultOf("call", i, k, j) \in S
        /\ \A r \in S : r = ResultOf("call", i, k, j)
    BY <1>2, <1>3, <2>1, <2>2
  <2>4. QED
    BY <1>3, <2>3, CountOne DEF S
<1>4. CASE ~ Due("call", i, b, chain[b][k])
  BY <1>2, <1>4, CountNone DEF S
<1>5. QED
  BY <1>3, <1>4

LEMMA EventsExact ==
    ASSUME IInv, NEW b \in Blocks, step[b] = "prepared",
           NEW i \in DOMAIN monitors, NEW k \in DOMAIN emitted[b]
    PROVE  Cardinality(Copies(b, "event", i, k)) = IF Due("event", i, b, emitted[b][k]) THEN 1 ELSE 0
<1> DEFINE S == Copies(b, "event", i, k)
<1>1. Types /\ LogsValid /\ logs \in {"none", "ready"}
      /\ results[b] = decode_calls(b, RightOutcomes(b)) \cup decode_events(b)
  BY DEF IInv, ResultsValid
<1>2. ASSUME NEW r \in S
      PROVE  Due("event", i, b, emitted[b][k]) /\ r = ResultOf("event", i, k, k)
  <2>1. r \in results[b] /\ r.kind = "event" /\ r.monitor = i /\ r.item = k
    BY DEF Copies
  <2>2. r \notin decode_calls(b, RightOutcomes(b))
    BY <1>1, <2>1, DecodedCalls DEF ResultOf
  <2>3. PICK m \in Returned(b), n \in DOMAIN monitors :
           Due("event", n, b, emitted[b][m]) /\ r = ResultOf("event", n, m, m)
    BY <1>1, <2>1, <2>2, DecodedEvents
  <2>4. n = i /\ m = k
    BY <2>1, <2>3 DEF ResultOf
  <2>5. QED
    BY <2>3, <2>4
<1>3. CASE Due("event", i, b, emitted[b][k])
  <2>1. ResultOf("event", i, k, k) \in results[b]
    BY <1>1, <1>3, DueIsReturned, DecodedEvents
  <2>2. ResultOf("event", i, k, k) \in S
    BY <2>1 DEF Copies, ResultOf
  <2>3. QED
    BY <1>2, <1>3, <2>2, CountOne
<1>4. CASE ~ Due("event", i, b, emitted[b][k])
  BY <1>2, <1>4, CountNone
<1>5. QED
  BY <1>3, <1>4

LEMMA Exact == ASSUME IInv PROVE PreparedExact
<1>1. SUFFICES ASSUME NEW b \in Blocks, step[b] = "prepared"
      PROVE  /\ \A r \in results[b] :
                   r.monitor \in DOMAIN monitors /\ r.item \in DOMAIN Items(r.kind, b)
             /\ \A i \in DOMAIN monitors, kind \in {"call", "event"} :
                   \A k \in DOMAIN Items(kind, b) :
                      Cardinality(Copies(b, kind, i, k)) =
                         IF Due(kind, i, b, Items(kind, b)[k]) THEN 1 ELSE 0
  BY DEF PreparedExact, Due
<1>2. Types /\ LogsValid /\ logs \in {"none", "ready"}
      /\ results[b] = decode_calls(b, RightOutcomes(b)) \cup decode_events(b)
  BY <1>1 DEF IInv, ResultsValid
<1>3. ASSUME NEW r \in results[b]
      PROVE  r.monitor \in DOMAIN monitors /\ r.item \in DOMAIN Items(r.kind, b)
  <2>1. CASE r \in decode_calls(b, RightOutcomes(b))
    <3>1. PICK j \in DOMAIN Candidates(b), i \in DOMAIN monitors :
             r = ResultOf("call", i, Candidates(b)[j], j)
      BY <1>2, <2>1, DecodedCalls
    <3>2. Candidates(b)[j] \in DOMAIN chain[b]
      BY <1>2, CandidatesAre DEF ToSet, Wanted
    <3>3. QED
      BY <3>1, <3>2 DEF ResultOf, Items
  <2>2. CASE r \in decode_events(b)
    <3>1. PICK k \in Returned(b), i \in DOMAIN monitors : r = ResultOf("event", i, k, k)
      BY <1>2, <2>2, DecodedEvents
    <3>2. QED
      BY <3>1 DEF ResultOf, Items, Returned
  <2>3. QED
    BY <1>2, <2>1, <2>2
<1>4. ASSUME NEW i \in DOMAIN monitors, NEW kind \in {"call", "event"},
             NEW k \in DOMAIN Items(kind, b)
      PROVE  Cardinality(Copies(b, kind, i, k)) =
                IF Due(kind, i, b, Items(kind, b)[k]) THEN 1 ELSE 0
  <2>1. CASE kind = "call"
    BY <1>1, <2>1, CallsExact DEF Items
  <2>2. CASE kind = "event"
    BY <1>1, <2>2, EventsExact DEF Items
  <2>3. QED
    BY <2>1, <2>2
<1>5. QED
  BY <1>3, <1>4

-----------------------------------------------------------------------------
(* The invariant.                                                          *)

\* The monitors and the chain do not change, nor what is made of them.
LEMMA IndexKept ==
    ASSUME UNCHANGED inputs
    PROVE  /\ \A kind, key : Layouts(kind, key)' = Layouts(kind, key)
           /\ \A kind, key, layout : Group(kind, key, layout)' = Group(kind, key, layout)
           /\ \A i, b : monitor_is_planned(i, b)' <=> monitor_is_planned(i, b)
           /\ LogTargets' = LogTargets
           /\ \A b : Returned(b)' = Returned(b)
<1>1. monitors' = monitors /\ emitted' = emitted
  BY DEF inputs
<1>2. \A kind, key : Layouts(kind, key)' = Layouts(kind, key)
  BY <1>1 DEF Layouts
<1>3. \A kind, key, layout : Group(kind, key, layout)' = Group(kind, key, layout)
  BY <1>1 DEF Group
<1>4. \A i, b : monitor_is_planned(i, b)' <=> monitor_is_planned(i, b)
  BY <1>1 DEF monitor_is_planned
<1>5. LogTargets' = LogTargets
  BY <1>1 DEF LogTargets, monitor_is_planned
<1>6. \A b : Returned(b)' = Returned(b)
  BY <1>1, <1>5 DEF Returned
<1>7. QED
  BY <1>2, <1>3, <1>4, <1>5, <1>6

LEMMA ItemKept ==
    ASSUME UNCHANGED inputs, NEW kind, NEW b, NEW item, NEW k, NEW at
    PROVE  DecodeItem(kind, b, item, k, at)' = DecodeItem(kind, b, item, k, at)
<1>1. monitors' = monitors
  BY DEF inputs
<1>2. \A layout : DecodeGroup(kind, b, item, k, at, layout)' = DecodeGroup(kind, b, item, k, at, layout)
  BY <1>1, IndexKept DEF DecodeGroup
<1>3. QED
  BY <1>2, IndexKept DEF DecodeItem

LEMMA CallsKept ==
    ASSUME UNCHANGED inputs, NEW b
    PROVE  decode_calls(b, RightOutcomes(b))' = decode_calls(b, RightOutcomes(b))
<1>1. chain' = chain
  BY DEF inputs
<1>2. \A kind, key : IsWanted(kind, key, b)' <=> IsWanted(kind, key, b)
  BY IndexKept DEF IsWanted
<1>3. Wanted(b)' = Wanted(b)
  BY <1>1, <1>2 DEF Wanted
<1>4. Candidates(b)' = Candidates(b)
  BY <1>3 DEF Candidates
<1>5. RightOutcomes(b)' = RightOutcomes(b)
  BY <1>1, <1>4 DEF RightOutcomes
<1>6. QED
  BY <1>1, <1>4, <1>5, ItemKept DEF decode_calls

LEMMA EventsKept ==
    ASSUME UNCHANGED inputs, NEW b, received'[b] = received[b]
    PROVE  decode_events(b)' = decode_events(b)
<1>1. emitted' = emitted
  BY DEF inputs
<1>2. QED
  BY <1>1, ItemKept DEF decode_events

\* A step of one block.
LEMMA BlockStep ==
    ASSUME IInv, UNCHANGED <<inputs, logs, received>>, NEW b \in Blocks,
           NEW at \in {"start", "block", "calls", "prepared", "failed"}, Moved(b, at),
           DOMAIN results' = Blocks, \A c \in Blocks \ {b} : results'[c] = results[c],
           faults' \in Nat, faults <= faults',
           at \in {"start", "block"} => results'[b] = {},
           at = "calls" => results'[b] = decode_calls(b, RightOutcomes(b)),
           at = "prepared" => /\ logs \in {"none", "ready"}
                              /\ results'[b] = decode_calls(b, RightOutcomes(b)) \cup decode_events(b),
           at = "failed" => faults' > 0
    PROVE  IInv'
<1>1. Types /\ LogsValid /\ ResultsValid /\ ErrorHasCause
  BY DEF IInv
<1>2. UNCHANGED inputs /\ logs' = logs /\ received' = received
  OBVIOUS
<1>3. /\ step' \in [Blocks -> {"start", "block", "calls", "prepared", "failed"}]
      /\ step'[b] = at /\ \A c \in Blocks \ {b} : step'[c] = step[c]
  BY <1>1 DEF Types, Moved
<1>4. Types'
  BY <1>1, <1>2, <1>3 DEF Types, inputs
<1>5. LogsValid'
  <2>1. \A c \in Blocks : Returned(c)' = Returned(c)
    BY <1>2, IndexKept
  <2>2. faults > 0 => faults' > 0
    BY <1>1 DEF Types
  <2>3. QED
    BY <1>1, <1>2, <2>1, <2>2 DEF LogsValid
<1>6. ResultsValid'
  <2>1. \A c \in Blocks : decode_calls(c, RightOutcomes(c))' = decode_calls(c, RightOutcomes(c))
    BY <1>2, CallsKept
  <2>2. \A c \in Blocks : decode_events(c)' = decode_events(c)
    BY <1>2, EventsKept
  <2>3. SUFFICES ASSUME NEW c \in Blocks
                 PROVE  /\ step'[c] \in {"start", "block"} => results'[c] = {}
                        /\ step'[c] = "calls" => results'[c] = decode_calls(c, RightOutcomes(c))
                        /\ step'[c] = "prepared" =>
                              /\ logs \in {"none", "ready"}
                              /\ results'[c] = decode_calls(c, RightOutcomes(c)) \cup decode_events(c)
    BY <1>2, <2>1, <2>2 DEF ResultsValid
  <2>4. CASE c = b
    BY <1>3, <2>4
  <2>5. CASE c # b
    BY <1>1, <1>3, <2>5 DEF ResultsValid
  <2>6. QED
    BY <2>4, <2>5
<1>7. ErrorHasCause'
  <2>1. faults > 0 => faults' > 0
    BY <1>1 DEF Types
  <2>2. QED
    BY <1>1, <1>2, <1>3, <2>1 DEF ErrorHasCause
<1>8. QED
  BY <1>4, <1>5, <1>6, <1>7 DEF IInv

LEMMA FaultCounts ==
    ASSUME Types, Fault
    PROVE  faults' \in Nat /\ faults <= faults' /\ faults' > 0
BY DEF Types, Fault

\* Where nothing is wanted, nothing is decoded.
LEMMA NothingWanted ==
    ASSUME Types, NEW b \in Blocks, Wanted(b) = {}
    PROVE  decode_calls(b, RightOutcomes(b)) = {}
<1>1. DOMAIN Candidates(b) = {}
  <2>1. ToSet(Candidates(b)) = {}
    BY CandidatesAre
  <2>2. QED
    BY <2>1 DEF ToSet
<1>2. QED
  BY <1>1, DecodedCalls

LEMMA SkipBlockInv == ASSUME IInv, NEW b \in Blocks, SkipBlock(b) PROVE IInv'
<1>1. Types /\ results[b] = {} /\ faults \in Nat
  BY DEF IInv, Types, ResultsValid, SkipBlock
<1>2. Wanted(b) = {}
  BY DEF SkipBlock, HasCalls, Wanted, IsWanted, Group
<1>3. results'[b] = decode_calls(b, RightOutcomes(b))
  BY <1>1, <1>2, NothingWanted DEF SkipBlock
<1>4. QED
  BY <1>1, <1>3, BlockStep DEF SkipBlock, Types

LEMMA GetBlockInv == ASSUME IInv, NEW b \in Blocks, CacheHit(b) \/ FetchBlock(b) PROVE IInv'
<1>1. Types /\ results[b] = {} /\ faults \in Nat
  BY DEF IInv, Types, ResultsValid, CacheHit, FetchBlock
<1>2. /\ UNCHANGED <<inputs, logs, received>> /\ Moved(b, "block")
      /\ results' = results /\ faults' = faults
  BY DEF CacheHit, FetchBlock
<1>3. DOMAIN results' = Blocks /\ results'[b] = {} /\ faults <= faults'
  BY <1>1, <1>2 DEF Types
<1>4. QED
  BY <1>1, <1>2, <1>3, BlockStep

LEMMA NoCandidatesInv == ASSUME IInv, NEW b \in Blocks, NoCandidates(b) PROVE IInv'
<1>1. Types /\ results[b] = {} /\ faults \in Nat
  BY DEF IInv, Types, ResultsValid, NoCandidates
<1>2. results'[b] = decode_calls(b, RightOutcomes(b))
  BY <1>1, NothingWanted DEF NoCandidates
<1>3. QED
  BY <1>1, <1>2, BlockStep DEF NoCandidates, Types

LEMMA TakeOutcomesInv == ASSUME IInv, NEW b \in Blocks, TakeOutcomes(b) PROVE IInv'
<1>1. Types /\ DOMAIN results = Blocks /\ faults \in Nat
  BY DEF IInv, Types
<1>2. PICK outcomes \in {RightOutcomes(b)} \cup FlawedOutcomes(b) :
         /\ IF outcomes = RightOutcomes(b) THEN UNCHANGED faults ELSE Fault
         /\ IF OutcomesMatch(b, outcomes)
            THEN Moved(b, "calls") /\ results' = [results EXCEPT ![b] = decode_calls(b, outcomes)]
            ELSE Moved(b, "failed") /\ UNCHANGED results
  BY DEF TakeOutcomes
<1>3. UNCHANGED <<inputs, logs, received>>
  BY DEF TakeOutcomes
<1>4. faults' \in Nat /\ faults <= faults'
  BY <1>1, <1>2, FaultCounts
<1>5. CASE OutcomesMatch(b, outcomes)
  <2>1. outcomes = RightOutcomes(b)
    BY <1>1, <1>5, MatchIsRight
  <2>2. /\ Moved(b, "calls") /\ results' = [results EXCEPT ![b] = decode_calls(b, RightOutcomes(b))]
    BY <1>2, <1>5, <2>1
  <2>3. /\ DOMAIN results' = Blocks /\ \A c \in Blocks \ {b} : results'[c] = results[c]
        /\ results'[b] = decode_calls(b, RightOutcomes(b))
    BY <1>1, <2>2
  <2>4. QED
    BY <1>3, <1>4, <2>2, <2>3, BlockStep
<1>6. CASE ~ OutcomesMatch(b, outcomes)
  <2>1. outcomes # RightOutcomes(b)
    BY <1>1, <1>6, RightMatch
  <2>2. faults' > 0
    BY <1>1, <1>2, <2>1, FaultCounts
  <2>3. Moved(b, "failed") /\ results' = results
    BY <1>2, <1>6
  <2>4. QED
    BY <1>1, <1>3, <1>4, <2>2, <2>3, BlockStep
<1>7. QED
  BY <1>5, <1>6

LEMMA FetchFailsInv == ASSUME IInv, NEW b \in Blocks, FetchFails(b) PROVE IInv'
<1>1. Types
  BY DEF IInv
<1>2. faults' \in Nat /\ faults <= faults' /\ faults' > 0
  BY <1>1, FaultCounts DEF FetchFails
<1>3. QED
  BY <1>1, <1>2, BlockStep DEF FetchFails, Types

LEMMA FinishBlockInv == ASSUME IInv, NEW b \in Blocks, FinishBlock(b) PROVE IInv'
<1>1. /\ Types /\ DOMAIN results = Blocks /\ faults \in Nat
      /\ results[b] = decode_calls(b, RightOutcomes(b))
      /\ logs \in {"none", "ready"}
  BY DEF IInv, Types, ResultsValid, FinishBlock
<1>2. UNCHANGED <<inputs, logs, received, faults>>
  BY DEF FinishBlock
<1>3. CASE EventsRefused(b)
  <2>1. PICK log \in received[b] : log.flaw = "unnamed"
    BY <1>3 DEF EventsRefused
  <2>2. faults > 0
    BY <2>1 DEF IInv, LogsValid
  <2>3. Moved(b, "failed") /\ results' = [results EXCEPT ![b] = {}]
    BY <1>3 DEF FinishBlock
  <2>4. DOMAIN results' = Blocks /\ \A c \in Blocks \ {b} : results'[c] = results[c]
    BY <1>1, <2>3
  <2>5. QED
    BY <1>1, <1>2, <2>2, <2>3, <2>4, BlockStep
<1>4. CASE ~ EventsRefused(b)
  <2>1. Moved(b, "prepared") /\ results' = [results EXCEPT ![b] = results[b] \cup decode_events(b)]
    BY <1>4 DEF FinishBlock
  <2>2. /\ DOMAIN results' = Blocks /\ \A c \in Blocks \ {b} : results'[c] = results[c]
        /\ results'[b] = decode_calls(b, RightOutcomes(b)) \cup decode_events(b)
    BY <1>1, <2>1
  <2>3. QED
    BY <1>1, <1>2, <2>1, <2>2, BlockStep
<1>5. QED
  BY <1>3, <1>4

\* While the logs are awaited no block is finished, so that their arrival changes no
\* results.
LEMMA LogsStep ==
    ASSUME IInv, logs = "pending", UNCHANGED <<inputs, step, results>>,
           logs' \in {"ready", "failed"}, DOMAIN received' = Blocks,
           faults' \in Nat, faults <= faults', logs' = "failed" => faults' > 0,
           \A b \in Blocks :
              /\ logs' = "ready" => {log.item : log \in received'[b]} = Returned(b)
              /\ \A log \in received'[b] : log.flaw # "none" => faults' > 0
    PROVE  IInv'
<1>1. Types /\ LogsValid /\ ResultsValid /\ ErrorHasCause
  BY DEF IInv
<1>2. UNCHANGED inputs /\ step' = step /\ results' = results
  OBVIOUS
<1>3. Types'
  BY <1>1, <1>2 DEF Types, inputs
<1>4. LogsValid'
  <2>1. \A b \in Blocks : Returned(b)' = Returned(b)
    BY <1>2, IndexKept
  <2>2. QED
    BY <2>1 DEF LogsValid
<1>5. ResultsValid'
  <2>1. \A b \in Blocks : decode_calls(b, RightOutcomes(b))' = decode_calls(b, RightOutcomes(b))
    BY <1>2, CallsKept
  <2>2. \A b \in Blocks : step[b] # "prepared"
    BY <1>1 DEF ResultsValid
  <2>3. QED
    BY <1>1, <1>2, <2>1, <2>2 DEF ResultsValid
<1>6. ErrorHasCause'
  <2>1. faults > 0 => faults' > 0
    BY <1>1 DEF Types
  <2>2. QED
    BY <1>1, <1>2, <2>1 DEF ErrorHasCause
<1>7. QED
  BY <1>3, <1>4, <1>5, <1>6 DEF IInv

LEMMA TakeLogsInv ==
    ASSUME IInv, NEW f \in Blocks, NEW flaw \in WindowFlaws \cup {"none", "unnamed"},
           TakeLogs(f, flaw)
    PROVE  IInv'
<1>1. Types /\ faults \in Nat /\ DOMAIN received = Blocks
  BY DEF IInv, Types
<1>2. logs = "pending" /\ UNCHANGED <<inputs, step, results>>
  BY DEF TakeLogs
<1>3. faults' \in Nat /\ faults <= faults' /\ (flaw # "none" => faults' > 0)
  BY <1>1, FaultCounts DEF TakeLogs
<1>4. CASE flaw \in WindowFlaws
  <2>1. logs' = "failed" /\ received' = received /\ flaw # "none"
    BY <1>4 DEF TakeLogs, WindowFlaws
  <2>2. \A b \in Blocks : \A log \in received'[b] : log.flaw # "none" => faults' > 0
    BY <1>3, <2>1
  <2>3. QED
    BY <1>1, <1>2, <1>3, <2>1, <2>2, LogsStep
<1>5. CASE flaw \notin WindowFlaws
  <2>1. logs' = "ready" /\ received' = Answer(f, flaw)
    BY <1>5 DEF TakeLogs
  <2>2. DOMAIN received' = Blocks
    BY <2>1 DEF Answer
  <2>3. ASSUME NEW b \in Blocks
        PROVE  /\ {log.item : log \in received'[b]} = Returned(b)
               /\ \A log \in received'[b] : log.flaw # "none" => faults' > 0
    <3>1. received'[b] = {[item |-> k, flaw |-> IF b = f THEN flaw ELSE "none"] : k \in Returned(b)}
      BY <2>1 DEF Answer
    <3>2. {log.item : log \in received'[b]} = Returned(b)
      <4> DEFINE As(k) == [item |-> k, flaw |-> IF b = f THEN flaw ELSE "none"]
      <4>1. \A k : As(k).item = k
        OBVIOUS
      <4>2. received'[b] = {As(k) : k \in Returned(b)}
        BY <3>1
      <4> HIDE DEF As
      <4>3. QED
        BY <4>1, <4>2
    <3>3. \A log \in received'[b] : log.flaw # "none" => faults' > 0
      BY <3>1, <1>3
    <3>4. QED
      BY <3>2, <3>3
  <2>4. QED
    BY <1>2, <1>3, <2>1, <2>2, <2>3, LogsStep
<1>6. QED
  BY <1>4, <1>5

LEMMA LogsFailInv == ASSUME IInv, LogsFail PROVE IInv'
<1>1. Types /\ DOMAIN received = Blocks
  BY DEF IInv, Types
<1>2. faults' \in Nat /\ faults <= faults' /\ faults' > 0
  BY <1>1, FaultCounts DEF LogsFail
<1>3. /\ logs = "pending" /\ UNCHANGED <<inputs, step, results>>
      /\ logs' = "failed" /\ received' = received
  BY DEF LogsFail
<1>4. QED
  BY <1>1, <1>2, <1>3, LogsStep

LEMMA StutterInv == ASSUME IInv, UNCHANGED vars PROVE IInv'
<1>1. UNCHANGED inputs /\ UNCHANGED <<step, results, logs, received, faults>>
  BY DEF vars
<1>2. Types /\ LogsValid /\ ResultsValid /\ ErrorHasCause
  BY DEF IInv
<1>3. Types' /\ ErrorHasCause'
  BY <1>1, <1>2 DEF Types, ErrorHasCause, inputs
<1>4. LogsValid'
  BY <1>1, <1>2, IndexKept DEF LogsValid
<1>5. ResultsValid'
  <2>1. \A b \in Blocks : /\ decode_calls(b, RightOutcomes(b))' = decode_calls(b, RightOutcomes(b))
                          /\ decode_events(b)' = decode_events(b)
    BY <1>1, CallsKept, EventsKept
  <2>2. QED
    BY <1>1, <1>2, <2>1 DEF ResultsValid
<1>6. QED
  BY <1>3, <1>4, <1>5 DEF IInv

LEMMA InitInv == ASSUME Init PROVE IInv
<1>1. Types /\ ErrorHasCause
  BY DEF Init, Types, ErrorHasCause
<1>2. LogsValid
  <2>1. \A b \in Blocks : received[b] = {}
    BY DEF Init
  <2>2. logs \in {"none", "ready"} => \A b \in Blocks : Returned(b) = {}
    BY DEF Init, Returned
  <2>3. QED
    BY <2>1, <2>2 DEF LogsValid
<1>3. ResultsValid
  BY DEF Init, ResultsValid
<1>4. QED
  BY <1>1, <1>2, <1>3 DEF IInv

LEMMA NextInv == ASSUME IInv, [Next]_vars PROVE IInv'
<1>1. ASSUME NEW b \in Blocks, PrepareCalls(b) PROVE IInv'
  BY <1>1, SkipBlockInv, GetBlockInv, NoCandidatesInv, TakeOutcomesInv, FetchFailsInv
     DEF PrepareCalls
<1>2. ASSUME NEW b \in Blocks, FinishBlock(b) PROVE IInv'
  BY <1>2, FinishBlockInv
<1>3. ASSUME NEW f \in Blocks, NEW flaw \in WindowFlaws \cup {"none", "unnamed"},
             TakeLogs(f, flaw)
      PROVE  IInv'
  BY <1>3, TakeLogsInv
<1>4. CASE LogsFail
  BY <1>4, LogsFailInv
<1>5. CASE UNCHANGED vars
  BY <1>5, StutterInv
<1>6. QED
  BY <1>1, <1>2, <1>3, <1>4, <1>5 DEF Next

-----------------------------------------------------------------------------
(* The theorems.                                                           *)

\* In every state each block of the window has decoded what the chain holds for the
\* monitors, as far as its preparation got, and a flawed answer is on record.
THEOREM Invariance == Spec => []IInv
<1>1. Init => IInv
  BY InitInv
<1>2. IInv /\ [Next]_vars => IInv'
  BY NextInv
<1>3. QED
  BY <1>1, <1>2, PTL DEF Spec

\* prepare_calls, prepare_event_window and finish_prepared give each monitor exactly
\* what it deserves, once, whatever monitors share its target or its layout and
\* however outcomes are lost, repeated or reordered.
THEOREM PreparedExactHolds == Spec => []PreparedExact
BY Exact, Invariance, PTL

\* A block or a window fails only after a failed request or a flawed answer: nothing
\* that decode_calls and decode_events meet on the chain is an error.
THEOREM ErrorHasCauseHolds == Spec => []ErrorHasCause
<1>1. IInv => ErrorHasCause
  BY DEF IInv
<1>2. QED
  BY <1>1, Invariance, PTL
=============================================================================
