--------------------------- MODULE LogFetchProofs ---------------------------
(* Proofs about LogFetch, for every window, every set of targets and every  *)
(* way the endpoint limits its answers.                                     *)
EXTENDS LogFetch, SequenceTheorems, TLAPS

USE LogFetchAssumption DEF Blocks

-----------------------------------------------------------------------------
(* Sequences used as stacks.                                               *)

LEMMA SameLength ==
    ASSUME NEW m \in Nat, NEW n \in Nat, 1 .. m = 1 .. n
    PROVE  m = n
<1>1. (1 .. m) \subseteq (1 .. n) /\ (1 .. n) \subseteq (1 .. m)
  OBVIOUS
<1>2. (m # 0 => m \in 1 .. n) /\ (n # 0 => n \in 1 .. m)
  BY <1>1
<1>3. QED
  BY <1>2

LEMMA PopLength ==
    ASSUME NEW n \in Nat \ {0}, n # 1
    PROVE  n - 1 \in 1 .. n - 1 /\ n - 1 # 0
OBVIOUS

LEMMA PopSeq ==
    ASSUME NEW S, NEW s \in Seq(S), s # <<>>
    PROVE  LET q == SubSeq(s, 1, Len(s) - 1) IN
             /\ Len(s) \in Nat \ {0} /\ s[Len(s)] \in S
             /\ q \in Seq(S) /\ Len(q) = Len(s) - 1
             /\ \A i \in 1 .. Len(s) - 1 : q[i] = s[i]
<1> DEFINE q == SubSeq(s, 1, Len(s) - 1)
<1>1. Len(s) \in Nat \ {0} /\ s[Len(s)] \in S /\ 1 \in Int /\ Len(s) - 1 \in Int
  OBVIOUS
<1>2. \A i \in 1 .. Len(s) - 1 : i \in 1 .. Len(s) /\ s[i] \in S
  OBVIOUS
<1>3. q = [i \in 1 .. Len(s) - 1 |-> s[i]]
  BY <1>1
<1>4. q \in Seq(S)
  BY <1>1, <1>2, <1>3
<1>5. Len(q) = Len(s) - 1
  <2>1. DOMAIN q = 1 .. Len(s) - 1
    BY <1>3
  <2>2. Len(q) \in Nat /\ DOMAIN q = 1 .. Len(q)
    BY <1>4, LenProperties
  <2>3. Len(s) - 1 \in Nat
    BY <1>1
  <2>4. QED
    BY <2>1, <2>2, <2>3, SameLength, Zenon
<1>6. \A i \in 1 .. Len(s) - 1 : q[i] = s[i]
  BY <1>3
<1>7. QED
  BY <1>1, <1>4, <1>5, <1>6

LEMMA SplitSeq ==
    ASSUME NEW S, NEW q \in Seq(S), NEW x \in S, NEW y \in S,
           NEW p, p = q \o <<x, y>>
    PROVE  /\ p \in Seq(S) /\ Len(p) = Len(q) + 2 /\ p # <<>>
           /\ \A i \in 1 .. Len(q) : p[i] = q[i]
           /\ p[Len(q) + 1] = x /\ p[Len(q) + 2] = y
OBVIOUS

-----------------------------------------------------------------------------
(* The filters select exactly the targets, each once.                      *)

LEMMA FiltersExact ==
    ASSUME NEW T \in SUBSET (Addresses \X Topics), NEW a \in Addresses, NEW t \in Topics
    PROVE  IF <<a, t>> \in T
           THEN \E f \in exact_log_filters(T) :
                   Selects(f, a, t) /\ \A g \in exact_log_filters(T) : Selects(g, a, t) => g = f
           ELSE \A f \in exact_log_filters(T) : ~ Selects(f, a, t)
<1>1. CASE exact_log_filters(T) = ByAddress(T)
  <2>1. CASE <<a, t>> \in T
    <3> DEFINE f == [addresses |-> {a}, topics |-> {u \in Topics : <<a, u>> \in T}]
    <3>1. f \in ByAddress(T) /\ Selects(f, a, t)
      BY <2>1 DEF ByAddress, AddressesOf, Selects
    <3>2. \A g \in ByAddress(T) : Selects(g, a, t) => g = f
      BY DEF ByAddress, Selects
    <3>3. QED
      BY <1>1, <2>1, <3>1, <3>2
  <2>2. CASE <<a, t>> \notin T
    BY <1>1, <2>2 DEF ByAddress, Selects
  <2>3. QED
    BY <2>1, <2>2
<1>2. CASE exact_log_filters(T) = ByTopic(T)
  <2>1. CASE <<a, t>> \in T
    <3> DEFINE f == [addresses |-> {x \in Addresses : <<x, t>> \in T}, topics |-> {t}]
    <3>1. f \in ByTopic(T) /\ Selects(f, a, t)
      BY <2>1 DEF ByTopic, TopicsOf, Selects
    <3>2. \A g \in ByTopic(T) : Selects(g, a, t) => g = f
      BY DEF ByTopic, Selects
    <3>3. QED
      BY <1>2, <2>1, <3>1, <3>2
  <2>2. CASE <<a, t>> \notin T
    BY <1>2, <2>2 DEF ByTopic, Selects
  <2>3. QED
    BY <2>1, <2>2
<1>3. QED
  BY <1>1, <1>2 DEF exact_log_filters

-----------------------------------------------------------------------------
(* The inductive invariant.                                                *)

AllDone == outcome = "ok" => \A f \in Filters : state[f] = "done"

Inv == TypeOK /\ StackValid /\ AllDone

\* At the start the whole window is pending and nothing was returned.
LEMMA InitInv == Init => Inv
<1> SUFFICES ASSUME Init PROVE Inv
  OBVIOUS
<1>1. /\ targets \in SUBSET (Addresses \X Topics)
      /\ state = [f \in Filters |-> "queued"]
      /\ pending = [f \in Filters |-> <<<<First, Last>>>>]
      /\ returned = [f \in Filters |-> [b \in Blocks |-> 0]]
      /\ outcome = "running"
  BY DEF Init
<1>2. <<<<First, Last>>>> \in Seq(BlockRange)
  BY DEF BlockRange
<1>3. TypeOK
  BY <1>1, <1>2 DEF TypeOK
<1>4. ASSUME NEW f \in Filters
      PROVE  /\ Contiguous(pending[f])
             /\ \A b \in Blocks : returned[f][b] = IF b < TopStart(f) THEN 1 ELSE 0
             /\ pending[f] = <<<<First, Last>>>> /\ state[f] = "queued"
  BY <1>1 DEF Contiguous, TopStart, Top
<1>5. StackValid
  BY <1>4 DEF StackValid
<1>6. QED
  BY <1>1, <1>3, <1>5 DEF Inv, AllDone

\* What is known of a filter that waits for an answer.
LEMMA AskingFacts ==
    ASSUME Inv, NEW f \in Filters, Asking(f)
    PROVE  /\ Len(pending[f]) \in Nat \ {0} /\ pending[f] \in Seq(BlockRange)
           /\ Top(f) \in BlockRange /\ Top(f)[1] \in Blocks /\ Top(f)[2] \in Blocks
           /\ Top(f)[1] <= Top(f)[2]
           /\ Popped(f) \in Seq(BlockRange) /\ Len(Popped(f)) = Len(pending[f]) - 1
           /\ \A i \in 1 .. Len(pending[f]) - 1 : Popped(f)[i] = pending[f][i]
           /\ returned[f] \in [Blocks -> Nat] /\ state[f] = "running" /\ outcome = "running"
<1>1. pending[f] \in Seq(BlockRange) /\ pending[f] # <<>> /\ returned[f] \in [Blocks -> Nat]
  BY DEF Inv, TypeOK, Asking
<1>2. /\ Len(pending[f]) \in Nat \ {0} /\ Top(f) \in BlockRange
      /\ Popped(f) \in Seq(BlockRange) /\ Len(Popped(f)) = Len(pending[f]) - 1
      /\ \A i \in 1 .. Len(pending[f]) - 1 : Popped(f)[i] = pending[f][i]
  BY <1>1, PopSeq DEF Top, Popped
<1>3. Top(f)[1] \in Blocks /\ Top(f)[2] \in Blocks /\ Top(f)[1] <= Top(f)[2]
  BY <1>2 DEF BlockRange
<1>4. QED
  BY <1>1, <1>2, <1>3 DEF Asking

\* An answer covers exactly the top range, and the rest of the stack touches it.
LEMMA AnsweredStep ==
    ASSUME Inv, NEW f \in Filters, Answered(f)
    PROVE  Inv'
<1> DEFINE n == Len(pending[f])
           got == [b \in Blocks |-> IF Top(f)[1] <= b /\ b <= Top(f)[2]
                                    THEN returned[f][b] + 1 ELSE returned[f][b]]
<1>1. /\ Asking(f)
      /\ returned' = [returned EXCEPT ![f] = got]
      /\ pending' = [pending EXCEPT ![f] = Popped(f)]
      /\ UNCHANGED <<targets, state, outcome>>
  BY DEF Answered
<1>2. /\ n \in Nat \ {0} /\ pending[f] \in Seq(BlockRange)
      /\ Top(f) \in BlockRange /\ Top(f)[1] \in Blocks /\ Top(f)[2] \in Blocks
      /\ Top(f)[1] <= Top(f)[2]
      /\ Popped(f) \in Seq(BlockRange) /\ Len(Popped(f)) = n - 1
      /\ \A i \in 1 .. n - 1 : Popped(f)[i] = pending[f][i]
      /\ returned[f] \in [Blocks -> Nat] /\ state[f] = "running"
  BY <1>1, AskingFacts
<1>3. got \in [Blocks -> Nat]
  <2>1. returned[f] \in [Blocks -> Nat]
    BY <1>2
  <2>2. QED
    BY <2>1
<1>4. Filters' = Filters
  BY <1>1 DEF Filters
<1>5. TypeOK'
  BY <1>1, <1>2, <1>3, <1>4 DEF Inv, TypeOK
<1>6. /\ pending'[f] = Popped(f) /\ returned'[f] = got /\ state'[f] = "running"
      /\ \A g \in Filters \ {f} : pending'[g] = pending[g] /\ returned'[g] = returned[g]
  BY <1>1, <1>2 DEF Inv, TypeOK
<1>7. Contiguous(pending[f])
  BY DEF Inv, StackValid
<1>8. Contiguous(Popped(f))
  <2>1. \A i \in 1 .. n - 1 : pending[f][i + 1][2] + 1 = pending[f][i][1]
    BY <1>7 DEF Contiguous
  <2>2. pending[f][1][2] = Last
    BY <1>1, <1>7 DEF Contiguous, Asking
  <2>3. \A i \in 1 .. Len(Popped(f)) - 1 : Popped(f)[i + 1][2] + 1 = Popped(f)[i][1]
    <3> SUFFICES ASSUME NEW i \in 1 .. Len(Popped(f)) - 1
                 PROVE  Popped(f)[i + 1][2] + 1 = Popped(f)[i][1]
      OBVIOUS
    <3>1. i \in 1 .. n - 1 /\ i + 1 \in 1 .. n - 1
      BY <1>2
    <3>2. Popped(f)[i] = pending[f][i] /\ Popped(f)[i + 1] = pending[f][i + 1]
      BY <1>2, <3>1
    <3>3. QED
      BY <2>1, <3>1, <3>2
  <2>4. Popped(f) # <<>> => Popped(f)[1] = pending[f][1]
    BY <1>2
  <2>5. QED
    BY <2>2, <2>3, <2>4 DEF Contiguous
<1>9. TopStart(f)' = Top(f)[2] + 1
  <2>1. CASE n = 1
    <3>1. Popped(f) = <<>> /\ Top(f)[2] = Last
      BY <1>2, <1>7, <2>1 DEF Contiguous, Top
    <3>2. QED
      BY <1>6, <3>1 DEF TopStart
  <2>2. CASE n # 1
    <3>0. n \in Nat \ {0} /\ Len(Popped(f)) = n - 1
      BY <1>2
    <3>a. n - 1 \in 1 .. n - 1 /\ Len(Popped(f)) # 0
      BY <2>2, <3>0, PopLength, Zenon
    <3>b. Len(<< >>) = 0
      OBVIOUS
    <3>1. Popped(f) # <<>> /\ n - 1 \in 1 .. n - 1
      BY <3>a, <3>b
    <3>2. Popped(f)[n - 1] = pending[f][n - 1]
      BY <1>2, <3>1
    <3>5. (n - 1) + 1 = n
      BY <1>2
    <3>6. pending[f][n][2] + 1 = pending[f][n - 1][1]
      BY <1>7, <3>1, <3>5 DEF Contiguous
    <3>3. Top(f)' = Popped(f)[n - 1]
      BY <1>2, <1>6 DEF Top
    <3>4. QED
      BY <1>6, <3>1, <3>2, <3>3, <3>6 DEF TopStart, Top
  <2>3. QED
    BY <2>1, <2>2
<1>10. \A b \in Blocks : got[b] = IF b < Top(f)[2] + 1 THEN 1 ELSE 0
  <2>1. \A b \in Blocks : returned[f][b] = IF b < Top(f)[1] THEN 1 ELSE 0
    BY <1>1 DEF Inv, StackValid, TopStart, Asking
  <2>2. /\ Top(f)[1] \in Blocks /\ Top(f)[2] \in Blocks /\ Top(f)[1] <= Top(f)[2]
        /\ returned[f] \in [Blocks -> Nat]
    BY <1>2
  <2>3. QED
    BY <2>1, <2>2
<1>11. StackValid'
  <2>1. ASSUME NEW g \in Filters \ {f}
        PROVE  /\ Contiguous(pending'[g])
               /\ \A b \in Blocks : returned'[g][b] = IF b < TopStart(g)' THEN 1 ELSE 0
               /\ state'[g] = "queued" => pending'[g] = <<<<First, Last>>>>
               /\ state'[g] = "done" => pending'[g] = <<>>
    BY <1>1, <1>6 DEF Inv, StackValid, TopStart, Top
  <2>2. /\ Contiguous(pending'[f])
        /\ \A b \in Blocks : returned'[f][b] = IF b < TopStart(f)' THEN 1 ELSE 0
        /\ state'[f] = "running"
    BY <1>6, <1>8, <1>9, <1>10
  <2>3. QED
    BY <1>4, <2>1, <2>2 DEF StackValid, Contiguous
<1>12. QED
  BY <1>1, <1>5, <1>11 DEF Inv, AllDone, Asking

-----------------------------------------------------------------------------
(* Splitting.                                                              *)

\* The middle of a range that is not a single block leaves two ranges.
LEMMA MiddleInside ==
    ASSUME NEW s \in Blocks, NEW e \in Blocks, s < e
    PROVE  /\ Middle(s, e) \in Blocks /\ Middle(s, e) + 1 \in Blocks
           /\ s <= Middle(s, e) /\ Middle(s, e) + 1 <= e
<1>1. s \in Nat /\ e \in Nat /\ First \in Nat /\ Last \in Nat /\ First <= s /\ e <= Last
  OBVIOUS
<1> DEFINE h == (e - s) \div 2
<1>2. h \in Nat /\ h < e - s
  BY <1>1
<1>3. Middle(s, e) = s + h
  BY DEF Middle
<1> HIDE DEF h
<1>4. QED
  BY <1>1, <1>2, <1>3

\* A split replaces the top by its halves: the stack still ends the window, its
\* ranges still touch, and the new top starts where the old one did.
LEMMA RangeLimitedStep ==
    ASSUME Inv, NEW f \in Filters, RangeLimited(f)
    PROVE  Inv'
<1> DEFINE n == Len(pending[f])
           s == Top(f)[1]
           e == Top(f)[2]
           x == <<Middle(s, e) + 1, e>>
           y == <<s, Middle(s, e)>>
           q == Popped(f) \o <<x, y>>
<1>1. /\ Asking(f) /\ s < e
      /\ pending' = [pending EXCEPT ![f] = q]
      /\ UNCHANGED <<targets, state, returned, outcome>>
  BY DEF RangeLimited, Halves
<1>2. /\ n \in Nat \ {0} /\ pending[f] \in Seq(BlockRange)
      /\ s \in Blocks /\ e \in Blocks
      /\ Popped(f) \in Seq(BlockRange) /\ Len(Popped(f)) = n - 1
      /\ \A i \in 1 .. n - 1 : Popped(f)[i] = pending[f][i]
      /\ state[f] = "running" /\ outcome = "running"
  BY <1>1, AskingFacts
<1>3. x \in BlockRange /\ y \in BlockRange
  BY <1>1, <1>2, MiddleInside DEF BlockRange
<1>4. /\ q \in Seq(BlockRange) /\ Len(q) = Len(Popped(f)) + 2 /\ q # <<>>
      /\ \A i \in 1 .. Len(Popped(f)) : q[i] = Popped(f)[i]
      /\ q[Len(Popped(f)) + 1] = x /\ q[Len(Popped(f)) + 2] = y
  <2>1. Popped(f) \in Seq(BlockRange)
    BY <1>2
  <2> HIDE DEF x, y
  <2>2. q = Popped(f) \o <<x, y>>
    OBVIOUS
  <2> HIDE DEF q
  <2>3. QED
    BY <1>3, <2>1, <2>2, SplitSeq
<1>5. Len(q) = n + 1 /\ q[n] = x /\ q[n + 1] = y
  <2>1. (n - 1) + 2 = n + 1 /\ (n - 1) + 1 = n
    BY <1>2
  <2>2. QED
    BY <1>2, <1>4, <2>1, Zenon
<1>6. \A i \in 1 .. n - 1 : q[i] = pending[f][i]
  BY <1>2, <1>4, Zenon
<1>7. Filters' = Filters
  BY <1>1 DEF Filters
<1>8. TypeOK'
  BY <1>1, <1>4, <1>7 DEF Inv, TypeOK
<1>9. pending'[f] = q /\ \A g \in Filters \ {f} : pending'[g] = pending[g]
  BY <1>1 DEF Inv, TypeOK
<1>10. Contiguous(q)
  <2>1. /\ pending[f][1][2] = Last /\ pending[f][n] = Top(f)
        /\ \A i \in 1 .. n - 1 : pending[f][i + 1][2] + 1 = pending[f][i][1]
    BY <1>1 DEF Inv, StackValid, Contiguous, Asking, Top
  <2>2. q[1][2] = Last
    <3>1. CASE n = 1
      BY <1>5, <2>1, <3>1
    <3>2. CASE n # 1
      <4>1. 1 \in 1 .. n - 1
        <5>1. n \in Nat \ {0}
          BY <1>2
        <5> HIDE DEF n
        <5>2. QED
          BY <3>2, <5>1
      <4>2. QED
        BY <1>6, <2>1, <4>1
    <3>3. QED
      BY <3>1, <3>2
  <2>3. ASSUME NEW i \in 1 .. n
        PROVE  q[i + 1][2] + 1 = q[i][1]
    <3>1. CASE i = n
      BY <1>5, <3>1
    <3>2. CASE i = n - 1
      <4>1. n - 1 \in 1 .. n - 1 /\ (n - 1) + 1 = n
        <5>1. n \in Nat \ {0}
          BY <1>2
        <5>2. n - 1 \in 1 .. n
          BY <3>2
        <5> HIDE DEF n
        <5>3. QED
          BY <5>1, <5>2
      <4>2. q[n - 1] = pending[f][n - 1] /\ pending[f][n][2] + 1 = pending[f][n - 1][1]
        BY <1>6, <2>1, <4>1
      <4>3. q[n][2] = e
        BY <1>5
      <4>4. QED
        BY <2>1, <3>2, <4>1, <4>2, <4>3
    <3>3. CASE i # n /\ i # n - 1
      <4>1. i \in 1 .. n - 1 /\ i + 1 \in 1 .. n - 1
        BY <1>2, <3>3
      <4>2. q[i] = pending[f][i] /\ q[i + 1] = pending[f][i + 1]
        BY <1>6, <4>1
      <4>3. QED
        BY <2>1, <4>1, <4>2
    <3>4. QED
      BY <3>1, <3>2, <3>3
  <2>4. Len(q) - 1 = n
    BY <1>2, <1>5
  <2>5. QED
    BY <2>2, <2>3, <2>4, Zenon DEF Contiguous
<1>11. TopStart(f)' = s /\ TopStart(f) = s
  <2>1. TopStart(f) = s
    BY <1>1 DEF TopStart, Asking
  <2>2. Top(f)' = q[n + 1]
    BY <1>5, <1>9, Zenon DEF Top
  <2>3. QED
    BY <1>4, <1>5, <1>9, <2>1, <2>2 DEF TopStart
<1>12. StackValid'
  <2>1. ASSUME NEW g \in Filters \ {f}
        PROVE  /\ Contiguous(pending'[g])
               /\ \A b \in Blocks : returned'[g][b] = IF b < TopStart(g)' THEN 1 ELSE 0
               /\ state'[g] = "queued" => pending'[g] = <<<<First, Last>>>>
               /\ state'[g] = "done" => pending'[g] = <<>>
    BY <1>1, <1>9 DEF Inv, StackValid, TopStart, Top
  <2>2. /\ Contiguous(pending'[f])
        /\ \A b \in Blocks : returned'[f][b] = IF b < TopStart(f)' THEN 1 ELSE 0
        /\ state'[f] = "running"
    BY <1>1, <1>2, <1>9, <1>10, <1>11 DEF Inv, StackValid
  <2>3. QED
    BY <1>7, <2>1, <2>2 DEF StackValid, Contiguous
<1>13. QED
  BY <1>1, <1>2, <1>8, <1>12 DEF Inv, AllDone

-----------------------------------------------------------------------------
(* The steps that leave the stacks alone.                                  *)

\* A filter becomes running while its stack is the whole window.
LEMMA StartFilterStep ==
    ASSUME Inv, NEW f \in Filters, StartFilter(f)
    PROVE  Inv'
<1>1. /\ state' = [state EXCEPT ![f] = "running"] /\ outcome = "running"
      /\ UNCHANGED <<targets, pending, returned, outcome>>
  BY DEF StartFilter
<1>2. Filters' = Filters
  BY <1>1 DEF Filters
<1>3. TypeOK'
  BY <1>1, <1>2 DEF Inv, TypeOK
<1>4. StackValid'
  BY <1>1, <1>2 DEF Inv, TypeOK, StackValid, TopStart, Top
<1>5. QED
  BY <1>1, <1>3, <1>4 DEF Inv, AllDone

\* A filter is done when its stack is empty.
LEMMA FinishFilterStep ==
    ASSUME Inv, NEW f \in Filters, FinishFilter(f)
    PROVE  Inv'
<1>1. /\ state' = [state EXCEPT ![f] = "done"] /\ outcome = "running" /\ pending[f] = <<>>
      /\ UNCHANGED <<targets, pending, returned, outcome>>
  BY DEF FinishFilter
<1>2. Filters' = Filters
  BY <1>1 DEF Filters
<1>3. TypeOK'
  BY <1>1, <1>2 DEF Inv, TypeOK
<1>4. StackValid'
  BY <1>1, <1>2 DEF Inv, TypeOK, StackValid, TopStart, Top
<1>5. QED
  BY <1>1, <1>3, <1>4 DEF Inv, AllDone

\* The query ends: only its outcome changes, and it is "ok" when all are done.
LEMMA OutcomeStep ==
    ASSUME Inv, UNCHANGED <<targets, state, pending, returned>>,
           outcome' \in {outcome, "ok", "error"},
           outcome' = "ok" => \A f \in Filters : state[f] = "done"
    PROVE  Inv'
<1>1. Filters' = Filters
  BY DEF Filters
<1>2. TypeOK'
  BY <1>1 DEF Inv, TypeOK
<1>3. StackValid'
  BY <1>1 DEF Inv, StackValid, TopStart, Top
<1>4. AllDone'
  BY <1>1 DEF AllDone
<1>5. QED
  BY <1>2, <1>3, <1>4 DEF Inv

\* Every step of the query, and stuttering, keeps the invariant.
LEMMA NextInv ==
    ASSUME Inv, [Next]_vars
    PROVE  Inv'
<1>1. CASE FinishQuery
  BY <1>1, OutcomeStep DEF FinishQuery
<1>2. CASE UNCHANGED vars
  BY <1>2, OutcomeStep DEF vars, Inv, AllDone
<1>3. CASE \E f \in Filters : Step(f)
  <2>1. PICK f \in Filters : Step(f)
    BY <1>3
  <2>2. CASE QueryFailed(f)
    BY <2>2, OutcomeStep DEF QueryFailed
  <2>3. QED
    BY <2>1, <2>2, StartFilterStep, AnsweredStep, RangeLimitedStep, FinishFilterStep DEF Step
<1>4. QED
  BY <1>1, <1>2, <1>3 DEF Next

-----------------------------------------------------------------------------
(* Results.                                                                *)

LEMMA Invariance == Spec => []Inv
  BY InitInv, NextInv, PTL DEF Spec

\* When every filter is done, every stack is empty, so every block was returned
\* once; and the filters select every target once.
LEMMA InvImpliesExact == Inv => ExactLogs
<1> SUFFICES ASSUME Inv, outcome = "ok", NEW a \in Addresses, NEW t \in Topics
             PROVE  IF <<a, t>> \in targets
                    THEN \E f \in Filters :
                            /\ Selects(f, a, t)
                            /\ \A b \in Blocks : returned[f][b] = 1
                            /\ \A g \in Filters : Selects(g, a, t) => g = f
                    ELSE \A f \in Filters : ~ Selects(f, a, t)
  BY DEF ExactLogs
<1>1. \A f \in Filters : \A b \in Blocks : returned[f][b] = 1
  <2> SUFFICES ASSUME NEW f \in Filters, NEW b \in Blocks PROVE returned[f][b] = 1
    OBVIOUS
  <2>1. pending[f] = <<>>
    BY DEF Inv, AllDone, StackValid
  <2>2. TopStart(f) = Last + 1
    BY <2>1 DEF TopStart
  <2>3. returned[f][b] = IF b < Last + 1 THEN 1 ELSE 0
    BY <2>2 DEF Inv, StackValid
  <2>4. QED
    BY <2>3
<1>2. targets \in SUBSET (Addresses \X Topics)
  BY DEF Inv, TypeOK
<1>3. QED
  BY <1>1, <1>2, FiltersExact, Zenon DEF Filters

\* adaptive_filter_logs: every variable keeps its type, so no split ever asks for
\* an empty or reversed range, for every window and every way of refusing.
THEOREM TypeCorrect == Spec => []TypeOK
  BY Invariance, PTL DEF Inv

\* adaptive_filter_logs: the stack is always exactly the rest of the window.
THEOREM StackValidHolds == Spec => []StackValid
  BY Invariance, PTL DEF Inv

\* adaptive_logs: a successful query returned every target's logs of every block
\* once, for every window, every set of targets and every sequence of refusals.
THEOREM ExactLogsHolds == Spec => []ExactLogs
<1>1. Inv => ExactLogs
  BY InvImpliesExact
<1>2. QED
  BY <1>1, Invariance, PTL
=============================================================================
