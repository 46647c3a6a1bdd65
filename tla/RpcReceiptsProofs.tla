------------------------- MODULE RpcReceiptsProofs -------------------------
(* Proofs about RpcReceipts, for every finite set of callers, every number of *)
(* transactions, batch size and number of permits, and whatever endpoints the *)
(* source is moved to.                                                        *)
EXTENDS RpcReceipts, FiniteSetTheorems, TLAPS

USE ReceiptsAssumption

PartState == {"waiting", "taken"} \cup Answers \cup Sent

-----------------------------------------------------------------------------
(* What the parts of a strategy cover.                                     *)

LEMMA DivFacts ==
    ASSUME NEW x \in Nat, NEW d \in Nat \ {0}
    PROVE  /\ x \div d \in Nat
           /\ (x \div d) * d <= x
           /\ x < (x \div d) * d + d
OBVIOUS

LEMMA Monotone ==
    ASSUME NEW s \in Nat, NEW t \in Nat, s <= t, NEW d \in Nat
    PROVE  s * d <= t * d /\ s * d \in Nat /\ t * d \in Nat /\ (s + 1) * d = s * d + d
OBVIOUS

LEMMA NumPartsFacts ==
    ASSUME NEW how \in Strategies, NEW n \in Nat \ {0}
    PROVE  /\ NumParts(how, n) \in Nat \ {0}
           /\ \A t \in Nat : t < NumParts(how, n) => Covered(how, n, t) < n
           /\ Covered(how, n, NumParts(how, n)) = n
<1>1. CASE how = "block"
  BY <1>1 DEF NumParts, Covered
<1>2. CASE how = "single"
  BY <1>2 DEF NumParts, Covered
<1>3. CASE how = "batch"
  <2> DEFINE m == (n + BatchSize - 1) \div BatchSize
  <2>1. m \in Nat /\ m * BatchSize <= n + BatchSize - 1 /\ n + BatchSize - 1 < m * BatchSize + BatchSize
    BY DivFacts
  <2>2. NumParts(how, n) = m
    BY <1>3 DEF NumParts
  <2> HIDE DEF m
  <2>3. m # 0
    BY <2>1
  <2>4. m * BatchSize >= n /\ Covered(how, n, m) = n
    BY <1>3, <2>1 DEF Covered
  <2>5. ASSUME NEW t \in Nat, t < m PROVE Covered(how, n, t) < n
    <3>1. (t + 1) * BatchSize <= m * BatchSize /\ (t + 1) * BatchSize = t * BatchSize + BatchSize
          /\ t * BatchSize \in Nat /\ m * BatchSize \in Nat
      BY <2>1, <2>5, Monotone
    <3>2. t * BatchSize < n
      BY <2>1, <3>1
    <3>3. QED
      BY <1>3, <3>2 DEF Covered
  <2>6. QED
    BY <2>1, <2>2, <2>3, <2>4, <2>5
<1>4. QED
  BY <1>1, <1>2, <1>3 DEF Strategies, Optional

LEMMA UptoConcat ==
    ASSUME NEW a \in Nat, NEW b \in Nat, a <= b
    PROVE  Upto(a) \o [k \in 1 .. b - a |-> a + k] = Upto(b)
BY DEF Upto

\* The next part begins where what the parts before it cover ends.
LEMMA PartAppend ==
    ASSUME NEW how \in Strategies, NEW n \in Nat \ {0}, NEW t \in Nat, t < NumParts(how, n)
    PROVE  /\ Covered(how, n, t) \in Nat /\ Covered(how, n, t) < n
           /\ Covered(how, n, t + 1) \in Nat /\ Covered(how, n, t + 1) <= n
           /\ Upto(Covered(how, n, t)) \o Part(how, n, t + 1) = Upto(Covered(how, n, t + 1))
<1>1. Covered(how, n, t) < n
  BY NumPartsFacts
<1> DEFINE a == Covered(how, n, t)
           b == Covered(how, n, t + 1)
<1>2. /\ a \in Nat /\ b \in Nat /\ a <= b /\ b <= n
      /\ Part(how, n, t + 1) = [k \in 1 .. b - a |-> a + k]
  <2>1. CASE how = "block"
    <3>1. t = 0
      BY <2>1 DEF NumParts
    <3>2. a = 0 /\ b = n
      BY <2>1, <3>1 DEF Covered
    <3>3. QED
      BY <2>1, <3>2 DEF Part
  <2>2. CASE how = "single"
    <3>1. a = t /\ b = t + 1
      BY <2>2 DEF Covered
    <3>2. Part(how, n, t + 1) = <<t + 1>>
      BY <2>2 DEF Part
    <3>3. <<t + 1>> = [k \in 1 .. 1 |-> t + k]
      OBVIOUS
    <3>4. QED
      BY <1>1, <3>1, <3>2, <3>3
  <2>3. CASE how = "batch"
    <3>1. t * BatchSize \in Nat /\ (t + 1) * BatchSize = t * BatchSize + BatchSize
      BY Monotone
    <3>2. a = t * BatchSize
      BY <1>1, <2>3, <3>1 DEF Covered
    <3>3. b = IF t * BatchSize + BatchSize < n THEN t * BatchSize + BatchSize ELSE n
      BY <2>3, <3>1 DEF Covered
    <3>4. (t + 1 - 1) * BatchSize = a
      BY <3>2
    <3>5. Part(how, n, t + 1) = [k \in 1 .. b - a |-> a + k]
      BY <2>3, <3>2, <3>3, <3>4 DEF Part
    <3>6. QED
      BY <1>1, <3>1, <3>2, <3>3, <3>5
  <2>4. QED
    BY <2>1, <2>2, <2>3 DEF Strategies, Optional
<1> HIDE DEF a, b
<1>3. Upto(a) \o [k \in 1 .. b - a |-> a + k] = Upto(b)
  BY <1>2, UptoConcat
<1>4. Upto(a) \o Part(how, n, t + 1) = Upto(b)
  BY <1>2, <1>3
<1>5. QED
  BY <1>1, <1>2, <1>4 DEF a, b

\* Taken is the number of answers that were taken.
LEMMA TakenIs ==
    ASSUME NEW c, parts[c] \in Seq(PartState), NEW t, TakenAre(c, t)
    PROVE  Taken(c) = t
<1>1. DOMAIN parts[c] = 1 .. Len(parts[c]) /\ Len(parts[c]) \in Nat
  OBVIOUS
<1>2. \A u \in 0 .. Len(parts[c]) : TakenAre(c, u) => u = t
  <2>1. SUFFICES ASSUME NEW u \in 0 .. Len(parts[c]), TakenAre(c, u), u # t PROVE FALSE
    OBVIOUS
  <2>2. CASE u < t
    BY <1>1, <2>1, <2>2 DEF TakenAre
  <2>3. CASE t < u
    BY <1>1, <2>1, <2>3 DEF TakenAre
  <2>4. QED
    BY <1>1, <2>1, <2>2, <2>3 DEF TakenAre
<1>3. QED
  BY <1>2 DEF Taken, TakenAre

\* No choice of a strategy leaves the three.
LEMMA ChoiceType ==
    ASSUME NEW n, NEW tried PROVE Choice(n, tried) \in Strategies
BY DEF Choice, Strategies, Optional

-----------------------------------------------------------------------------
(* The invariant, one caller at a time.                                    *)

Types ==
    /\ serves \in SUBSET Optional
    /\ capability \in [Optional -> {"unknown", "supported", "unsupported"}]
    /\ rotating \in {<<>>, <<"block">>, <<"batch", "block">>}
    /\ strategy \in [Callers -> Strategies \cup {"idle"}]
    /\ asked \in [Callers -> 0 .. MaxHashes]
    /\ parts \in [Callers -> Seq(PartState)]
    /\ out \in [Callers -> Seq(1 .. MaxHashes)]
    /\ result \in [Callers -> {"none", "ok", "error"}] /\ hit \in [Callers -> BOOLEAN]

Good(c) ==
    /\ Len(out[c]) <= asked[c]
    /\ strategy[c] = "idle" <=> parts[c] = <<>>
    /\ strategy[c] # "idle" => Collecting(c)
    /\ \A i \in DOMAIN parts[c] : parts[c][i] = "failed" => hit[c]
    /\ result[c] = "ok" => out[c] = Upto(asked[c])
    /\ result[c] = "error" => hit[c]

LEMMA IInvParts ==
    /\ IInv <=> /\ Types /\ Cardinality(InFlight) <= RequestConcurrency
                /\ \A c \in Callers : Good(c)
    /\ IInv' <=> /\ Types' /\ Cardinality(InFlight)' <= RequestConcurrency
                 /\ \A c \in Callers : Good(c)'
BY DEF IInv, TypeOK, Types, Good, OutcomesInOrder, ErrorNeedsFault, PartState, Upto

LEMMA InFlightFinite == IsFiniteSet(InFlight) /\ IsFiniteSet(InFlight')
<1>1. IsFiniteSet(Callers \X (1 .. MaxHashes))
  <2>1. IsFiniteSet(1 .. MaxHashes)
    BY FS_Interval
  <2>2. QED
    BY <2>1, FS_Product
<1>2. InFlight \subseteq Callers \X (1 .. MaxHashes) /\ InFlight' \subseteq Callers \X (1 .. MaxHashes)
  BY DEF InFlight
<1>3. QED
  BY <1>1, <1>2, FS_Subset

\* A step that starts no request keeps within the permits.
LEMMA FewerInFlight ==
    ASSUME Cardinality(InFlight) <= RequestConcurrency,
           \A c \in Callers : \A i \in 1 .. MaxHashes : Flying(c, i)' => Flying(c, i)
    PROVE  Cardinality(InFlight)' <= RequestConcurrency
<1>1. InFlight' \subseteq InFlight
  BY DEF InFlight
<1>2. Cardinality(InFlight') <= Cardinality(InFlight)
  BY <1>1, InFlightFinite, FS_Subset
<1>3. Cardinality(InFlight') \in Nat /\ Cardinality(InFlight) \in Nat
  BY InFlightFinite, FS_CardinalityType
<1>4. QED
  BY <1>2, <1>3

\* A step that starts one does if there was a permit left.
LEMMA OneMoreInFlight ==
    ASSUME Cardinality(InFlight) < RequestConcurrency, NEW c \in Callers, NEW i,
           \A d \in Callers : \A k \in 1 .. MaxHashes :
              Flying(d, k)' => Flying(d, k) \/ (d = c /\ k = i)
    PROVE  Cardinality(InFlight)' <= RequestConcurrency
<1>1. InFlight' \subseteq InFlight \cup {<<c, i>>}
  BY DEF InFlight
<1>2. /\ IsFiniteSet(InFlight \cup {<<c, i>>})
      /\ Cardinality(InFlight \cup {<<c, i>>}) <= Cardinality(InFlight) + 1
  <2>1. Cardinality(InFlight) \in Nat
    BY InFlightFinite, FS_CardinalityType
  <2>2. /\ IsFiniteSet(InFlight \cup {<<c, i>>})
        /\ Cardinality(InFlight \cup {<<c, i>>}) =
              IF <<c, i>> \in InFlight THEN Cardinality(InFlight) ELSE Cardinality(InFlight) + 1
    BY InFlightFinite, FS_AddElement
  <2>3. QED
    BY <2>1, <2>2
<1>3. /\ Cardinality(InFlight') <= Cardinality(InFlight \cup {<<c, i>>})
  BY <1>1, <1>2, FS_Subset
<1>4. /\ Cardinality(InFlight') \in Nat /\ Cardinality(InFlight) \in Nat
      /\ Cardinality(InFlight \cup {<<c, i>>}) \in Nat
  BY <1>2, InFlightFinite, FS_CardinalityType
<1>5. QED
  BY <1>2, <1>3, <1>4

SameFor(d) ==
    /\ strategy'[d] = strategy[d] /\ asked'[d] = asked[d] /\ parts'[d] = parts[d]
    /\ out'[d] = out[d] /\ result'[d] = result[d] /\ hit'[d] = hit[d]

LEMMA GoodFrame ==
    ASSUME NEW d, SameFor(d), Good(d)
    PROVE  Good(d)'
BY DEF SameFor, Good, Collecting, TakenAre

\* A step of one caller that starts no request.
LEMMA CallerStep ==
    ASSUME IInv, NEW c \in Callers, Types', \A d \in Callers \ {c} : SameFor(d), Good(c)',
           \A i \in DOMAIN parts'[c] : parts'[c][i] \in Sent => Flying(c, i)
    PROVE  IInv'
<1>1. \A d \in Callers : Good(d)'
  BY GoodFrame, IInvParts
<1>2. \A d \in Callers : \A i \in 1 .. MaxHashes : Flying(d, i)' => Flying(d, i)
  BY DEF Flying, SameFor
<1>3. Cardinality(InFlight)' <= RequestConcurrency
  BY <1>2, FewerInFlight, IInvParts
<1>4. QED
  BY <1>1, <1>3, IInvParts

-----------------------------------------------------------------------------
(* Steps.                                                                  *)

\* A strategy is begun: all its requests wait.
LEMMA AskGood ==
    ASSUME IInv, NEW c \in Callers, NEW how \in Strategies, NEW n \in 1 .. MaxHashes,
           Ask(c, how, n), asked'[c] = n, result'[c] = "none"
    PROVE  /\ strategy' \in [Callers -> Strategies \cup {"idle"}]
           /\ parts' \in [Callers -> Seq(PartState)] /\ out' \in [Callers -> Seq(1 .. MaxHashes)]
           /\ \A d \in Callers \ {c} : /\ strategy'[d] = strategy[d] /\ parts'[d] = parts[d]
                                       /\ out'[d] = out[d]
           /\ Good(c)' /\ \A i \in DOMAIN parts'[c] : parts'[c][i] \notin Sent
<1> DEFINE ps == [i \in 1 .. NumParts(how, n) |-> "waiting"]
<1>1. NumParts(how, n) \in Nat \ {0} /\ Covered(how, n, 0) = 0
  BY NumPartsFacts DEF Covered, Strategies, Optional
<1>2. ps \in Seq(PartState) /\ Len(ps) = NumParts(how, n) /\ ps # <<>>
      /\ DOMAIN ps = 1 .. NumParts(how, n) /\ \A i \in DOMAIN ps : ps[i] = "waiting"
  BY <1>1 DEF PartState
<1> HIDE DEF ps
<1>3. /\ strategy' \in [Callers -> Strategies \cup {"idle"}]
      /\ parts' \in [Callers -> Seq(PartState)] /\ out' \in [Callers -> Seq(1 .. MaxHashes)]
      /\ \A d \in Callers \ {c} : /\ strategy'[d] = strategy[d] /\ parts'[d] = parts[d]
                                  /\ out'[d] = out[d]
      /\ strategy'[c] = how /\ parts'[c] = ps /\ out'[c] = <<>>
  BY <1>2, IInvParts DEF Ask, Types, ps
<1>4. Upto(0) = <<>>
  BY DEF Upto
<1>5. Collecting(c)'
  <2>1. TakenAre(c, 0)'
    BY <1>1, <1>2, <1>3 DEF TakenAre
  <2>2. 0 \in 0 .. Len(ps) - 1
    BY <1>1, <1>2
  <2>3. QED
    BY <1>1, <1>2, <1>3, <1>4, <2>1, <2>2 DEF Collecting
<1>6. Good(c)'
  BY <1>2, <1>3, <1>5 DEF Good, Strategies, Optional
<1>7. QED
  BY <1>2, <1>3, <1>6 DEF Sent

LEMMA ReturnEffect ==
    ASSUME IInv, NEW c \in Callers, NEW what \in {"none", "ok", "error"}, Return(c, what)
    PROVE  /\ strategy' \in [Callers -> Strategies \cup {"idle"}]
           /\ parts' \in [Callers -> Seq(PartState)] /\ result' \in [Callers -> {"none", "ok", "error"}]
           /\ \A d \in Callers \ {c} : /\ strategy'[d] = strategy[d] /\ parts'[d] = parts[d]
                                       /\ result'[d] = result[d]
           /\ strategy'[c] = "idle" /\ parts'[c] = <<>> /\ result'[c] = what
BY IInvParts DEF Return, Types

LEMMA FetchInv ==
    ASSUME IInv, NEW c \in Callers, NEW n \in 0 .. MaxHashes, Fetch(c, n)
    PROVE  IInv'
<1>1. /\ asked' \in [Callers -> 0 .. MaxHashes] /\ hit' \in [Callers -> BOOLEAN]
      /\ \A d \in Callers \ {c} : asked'[d] = asked[d] /\ hit'[d] = hit[d]
      /\ asked'[c] = n /\ hit'[c] = FALSE
      /\ UNCHANGED <<serves, capability, rotating>>
  BY IInvParts DEF Fetch, Types
<1>2. CASE n = 0
  <2>1. Return(c, "ok") /\ out' = [out EXCEPT ![c] = <<>>]
    BY <1>2 DEF Fetch
  <2>2. /\ out' \in [Callers -> Seq(1 .. MaxHashes)] /\ out'[c] = <<>>
        /\ \A d \in Callers \ {c} : out'[d] = out[d]
    BY <2>1, IInvParts DEF Types
  <2>3. Upto(0) = <<>>
    BY DEF Upto
  <2>4. Good(c)'
    BY <1>1, <1>2, <2>1, <2>2, <2>3, ReturnEffect DEF Good
  <2>5. Types' /\ \A d \in Callers \ {c} : SameFor(d)
    BY <1>1, <2>1, <2>2, ReturnEffect, IInvParts DEF Types, SameFor
  <2>6. QED
    BY <2>1, <2>4, <2>5, ReturnEffect, CallerStep
<1>3. CASE n > 0
  <2>1. Ask(c, Choice(n, {}), n) /\ result' = [result EXCEPT ![c] = "none"]
    BY <1>3 DEF Fetch
  <2>2. /\ result' \in [Callers -> {"none", "ok", "error"}] /\ result'[c] = "none"
        /\ \A d \in Callers \ {c} : result'[d] = result[d]
    BY <2>1, IInvParts DEF Types
  <2>3. n \in 1 .. MaxHashes /\ Choice(n, {}) \in Strategies
    BY <1>3, ChoiceType
  <2>4. /\ strategy' \in [Callers -> Strategies \cup {"idle"}]
        /\ parts' \in [Callers -> Seq(PartState)] /\ out' \in [Callers -> Seq(1 .. MaxHashes)]
        /\ \A d \in Callers \ {c} : /\ strategy'[d] = strategy[d] /\ parts'[d] = parts[d]
                                    /\ out'[d] = out[d]
        /\ Good(c)' /\ \A i \in DOMAIN parts'[c] : parts'[c][i] \notin Sent
    BY <1>1, <2>1, <2>2, <2>3, AskGood
  <2>5. Types' /\ \A d \in Callers \ {c} : SameFor(d)
    BY <1>1, <2>2, <2>4, IInvParts DEF Types, SameFor
  <2>6. QED
    BY <2>4, <2>5, CallerStep
<1>4. QED
  BY <1>2, <1>3

\* The state of one request changes, and its answer is not taken.
LEMMA PartUpdate ==
    ASSUME IInv, NEW c \in Callers, NEW i \in DOMAIN parts[c], parts[c][i] # "taken",
           NEW x \in PartState \ {"taken"}, parts' = [parts EXCEPT ![c][i] = x],
           UNCHANGED <<serves, capability, rotating, strategy, asked, out, result>>,
           hit' \in [Callers -> BOOLEAN], \A d \in Callers \ {c} : hit'[d] = hit[d],
           hit[c] \/ x = "failed" => hit'[c]
    PROVE  /\ Types' /\ (\A d \in Callers \ {c} : SameFor(d)) /\ Good(c)'
           /\ DOMAIN parts'[c] = DOMAIN parts[c] /\ parts'[c][i] = x
           /\ \A k \in DOMAIN parts[c] \ {i} : parts'[c][k] = parts[c][k]
<1>1. parts[c] \in Seq(PartState) /\ parts \in [Callers -> Seq(PartState)]
  BY IInvParts DEF Types
<1> DEFINE ps == [parts[c] EXCEPT ![i] = x]
<1>2. /\ ps \in Seq(PartState) /\ Len(ps) = Len(parts[c])
      /\ DOMAIN ps = DOMAIN parts[c] /\ ps[i] = x
      /\ \A k \in DOMAIN parts[c] \ {i} : ps[k] = parts[c][k]
  BY <1>1
<1>3. parts' = [parts EXCEPT ![c] = ps]
  OBVIOUS
<1> HIDE DEF ps
<1>4. parts'[c] = ps /\ \A d \in Callers \ {c} : parts'[d] = parts[d]
  BY <1>1, <1>3
<1>5. Types'
  <2>1. Types
    BY IInvParts
  <2>2. parts' \in [Callers -> Seq(PartState)]
    BY <1>1, <1>2, <1>3
  <2>3. QED
    BY <2>1, <2>2 DEF Types
<1>6. \A d \in Callers \ {c} : SameFor(d)
  BY <1>4 DEF SameFor
<1>7. parts[c] # <<>> /\ ps # <<>> /\ strategy[c] # "idle" /\ Collecting(c)
  <2>1. parts[c] # <<>>
    OBVIOUS
  <2>2. ps # <<>>
    BY <1>2
  <2>3. QED
    BY <2>1, <2>2, IInvParts DEF Good
<1>8. \A t : TakenAre(c, t) => TakenAre(c, t)'
  BY <1>2, <1>4 DEF TakenAre
<1>9. Collecting(c)'
  BY <1>2, <1>4, <1>7, <1>8 DEF Collecting
<1>10. Good(c)'
  <2>1. Good(c)
    BY IInvParts
  <2>2. QED
    BY <1>2, <1>4, <1>7, <1>9, <2>1 DEF Good
<1>11. QED
  BY <1>2, <1>4, <1>5, <1>6, <1>10

LEMMA SendInv ==
    ASSUME IInv, NEW c \in Callers, NEW i \in DOMAIN parts[c], Send(c, i)
    PROVE  IInv'
<1>1. PICK x \in Sent :
         /\ parts[c][i] = "waiting" /\ Cardinality(InFlight) < RequestConcurrency
         /\ parts' = [parts EXCEPT ![c][i] = x]
         /\ UNCHANGED <<serves, capability, rotating, strategy, asked, out, result, hit>>
  BY DEF Send, Sent
<1>2. x \in PartState \ {"taken"} /\ x # "failed"
  BY DEF PartState, Sent
<1>3. /\ Types' /\ (\A d \in Callers \ {c} : SameFor(d)) /\ Good(c)'
      /\ DOMAIN parts'[c] = DOMAIN parts[c]
      /\ \A k \in DOMAIN parts[c] \ {i} : parts'[c][k] = parts[c][k]
  <2>1. /\ hit' \in [Callers -> BOOLEAN] /\ \A d \in Callers \ {c} : hit'[d] = hit[d]
        /\ hit[c] \/ x = "failed" => hit'[c]
    BY <1>1, <1>2, IInvParts DEF Types
  <2>2. QED
    BY <1>1, <1>2, <2>1, PartUpdate
<1>4. \A d \in Callers : Good(d)'
  BY <1>3, GoodFrame, IInvParts
<1>5. \A d \in Callers : \A k \in 1 .. MaxHashes :
         Flying(d, k)' => Flying(d, k) \/ (d = c /\ k = i)
  BY <1>3 DEF Flying, SameFor
<1>6. Cardinality(InFlight)' <= RequestConcurrency
  BY <1>1, <1>5, OneMoreInFlight
<1>7. QED
  BY <1>3, <1>4, <1>6, IInvParts

LEMMA AnswerInv ==
    ASSUME IInv, NEW c \in Callers, NEW i \in DOMAIN parts[c], Answer(c, i)
    PROVE  IInv'
<1>1. PICK x \in {"ok", "unsupported"} :
         /\ parts[c][i] \in Sent
         /\ parts' = [parts EXCEPT ![c][i] = x]
         /\ UNCHANGED <<serves, capability, rotating, strategy, asked, out, result, hit>>
  BY DEF Answer
<1>2. x \in PartState \ {"taken"} /\ x # "failed" /\ x \notin Sent /\ parts[c][i] # "taken"
  BY <1>1 DEF PartState, Sent, Answers
<1>3. /\ Types' /\ (\A d \in Callers \ {c} : SameFor(d)) /\ Good(c)'
      /\ DOMAIN parts'[c] = DOMAIN parts[c] /\ parts'[c][i] = x
      /\ \A k \in DOMAIN parts[c] \ {i} : parts'[c][k] = parts[c][k]
  <2>1. /\ hit' \in [Callers -> BOOLEAN] /\ \A d \in Callers \ {c} : hit'[d] = hit[d]
        /\ hit[c] \/ x = "failed" => hit'[c]
    BY <1>1, <1>2, IInvParts DEF Types
  <2>2. QED
    BY <1>1, <1>2, <2>1, PartUpdate
<1>4. QED
  BY <1>2, <1>3, CallerStep DEF Flying

LEMMA AnswerFailsInv ==
    ASSUME IInv, NEW c \in Callers, NEW i \in DOMAIN parts[c], AnswerFails(c, i)
    PROVE  IInv'
<1>1. PICK x \in {"failed", "unsupported"} : parts' = [parts EXCEPT ![c][i] = x]
  BY DEF AnswerFails
<1>2. /\ parts[c][i] \in Sent
      /\ hit' = [hit EXCEPT ![c] = TRUE]
      /\ UNCHANGED <<serves, capability, rotating, strategy, asked, out, result>>
  BY DEF AnswerFails
<1>3. x \in PartState \ {"taken"} /\ x \notin Sent /\ parts[c][i] # "taken"
  BY <1>2 DEF PartState, Sent, Answers
<1>4. /\ Types' /\ (\A d \in Callers \ {c} : SameFor(d)) /\ Good(c)'
      /\ DOMAIN parts'[c] = DOMAIN parts[c] /\ parts'[c][i] = x
      /\ \A k \in DOMAIN parts[c] \ {i} : parts'[c][k] = parts[c][k]
  <2>1. hit' \in [Callers -> BOOLEAN] /\ hit'[c] /\ \A d \in Callers \ {c} : hit'[d] = hit[d]
    BY <1>2, IInvParts DEF Types
  <2>2. QED
    BY <1>1, <1>2, <1>3, <2>1, PartUpdate
<1>5. QED
  BY <1>3, <1>4, CallerStep DEF Flying

\* A caller with an answer to take: which one, and what it has so far.
LEMMA TakingFacts ==
    ASSUME IInv, NEW c \in Callers, HasNext(c)
    PROVE  /\ parts[c] \in Seq(PartState) /\ Collecting(c) /\ Good(c)
           /\ strategy[c] \in Strategies /\ asked[c] \in 1 .. MaxHashes
           /\ Taken(c) \in 0 .. Len(parts[c]) - 1 /\ TakenAre(c, Taken(c))
           /\ Len(parts[c]) = NumParts(strategy[c], asked[c]) /\ Len(parts[c]) \in Nat
           /\ out[c] = Upto(Covered(strategy[c], asked[c], Taken(c)))
           /\ Taken(c) + 1 \in DOMAIN parts[c]
           /\ result[c] = "none"
<1>1. /\ parts[c] \in Seq(PartState) /\ Good(c)
      /\ strategy[c] \in Strategies /\ Collecting(c) /\ asked[c] \in 0 .. MaxHashes
  BY IInvParts DEF HasNext, Types, Good
<1>2. PICK t \in 0 .. Len(parts[c]) - 1 :
         TakenAre(c, t) /\ out[c] = Upto(Covered(strategy[c], asked[c], t))
  BY <1>1 DEF Collecting
<1>3. Taken(c) = t
  BY <1>1, <1>2, TakenIs
<1>4. QED
  BY <1>1, <1>2, <1>3 DEF Collecting

\* What the outcomes are once the next answer is appended.
LEMMA Appended ==
    ASSUME IInv, NEW c \in Callers, HasNext(c),
           out' = [out EXCEPT ![c] = @ \o Part(strategy[c], asked[c], Taken(c) + 1)]
    PROVE  /\ out'[c] = Upto(Covered(strategy[c], asked[c], Taken(c) + 1))
           /\ Len(out'[c]) <= asked[c] /\ out' \in [Callers -> Seq(1 .. MaxHashes)]
           /\ \A d \in Callers \ {c} : out'[d] = out[d]
<1> DEFINE m == Covered(strategy[c], asked[c], Taken(c) + 1)
<1>1. out \in [Callers -> Seq(1 .. MaxHashes)]
  BY IInvParts DEF Types
<1>2. /\ m \in Nat /\ m <= asked[c]
      /\ Upto(Covered(strategy[c], asked[c], Taken(c))) \o Part(strategy[c], asked[c], Taken(c) + 1) = Upto(m)
  <2>1. /\ strategy[c] \in Strategies /\ asked[c] \in Nat \ {0} /\ Taken(c) \in Nat
        /\ Taken(c) < NumParts(strategy[c], asked[c])
    BY TakingFacts
  <2>2. QED
    BY <2>1, PartAppend
<1>3. out' = [out EXCEPT ![c] = Upto(m)]
  <2>1. out[c] \o Part(strategy[c], asked[c], Taken(c) + 1) = Upto(m)
    BY <1>2, TakingFacts
  <2>2. QED
    BY <2>1
<1> HIDE DEF m
<1>4. Upto(m) \in Seq(1 .. MaxHashes) /\ Len(Upto(m)) = m
  <2>1. m <= MaxHashes
    BY <1>2, TakingFacts
  <2>2. QED
    BY <1>2, <2>1 DEF Upto
<1>5. QED
  BY <1>1, <1>2, <1>3, <1>4 DEF m

LEMMA TakePartInv ==
    ASSUME IInv, NEW c \in Callers, TakePart(c)
    PROVE  IInv'
<1>1. /\ HasNext(c) /\ NextAnswer(c) = "ok" /\ ~ Last(c)
      /\ out' = [out EXCEPT ![c] = @ \o Part(strategy[c], asked[c], Taken(c) + 1)]
      /\ parts' = [parts EXCEPT ![c][Taken(c) + 1] = "taken"]
      /\ UNCHANGED <<serves, capability, rotating, strategy, asked, result, hit>>
  BY DEF TakePart
<1>2. PICK t \in 0 .. Len(parts[c]) - 1 : t = Taken(c)
  BY <1>1, TakingFacts
<1>3. t + 1 \in 0 .. Len(parts[c]) - 1 /\ TakenAre(c, t) /\ t + 1 \in DOMAIN parts[c]
      /\ Len(parts[c]) \in Nat /\ parts[c] \in Seq(PartState)
  BY <1>1, <1>2, TakingFacts DEF Last
<1> DEFINE ps == [parts[c] EXCEPT ![t + 1] = "taken"]
<1>4. /\ ps \in Seq(PartState) /\ Len(ps) = Len(parts[c]) /\ DOMAIN ps = DOMAIN parts[c]
      /\ ps[t + 1] = "taken" /\ \A k \in DOMAIN parts[c] \ {t + 1} : ps[k] = parts[c][k]
  BY <1>3 DEF PartState
<1>5. parts' = [parts EXCEPT ![c] = ps]
  BY <1>1, <1>2
<1> HIDE DEF ps
<1>6. /\ parts' \in [Callers -> Seq(PartState)] /\ parts'[c] = ps
      /\ \A d \in Callers \ {c} : parts'[d] = parts[d]
  BY <1>4, <1>5, IInvParts DEF Types
<1>7. TakenAre(c, t + 1)'
  <2>1. DOMAIN parts[c] = 1 .. Len(parts[c])
    BY <1>3
  <2>2. \A i \in DOMAIN ps : (ps[i] = "taken") <=> (i <= t + 1)
    BY <1>2, <1>3, <1>4, <2>1 DEF TakenAre
  <2>3. QED
    BY <1>3, <1>4, <1>6, <2>2 DEF TakenAre
<1>8. /\ out'[c] = Upto(Covered(strategy[c], asked[c], t + 1))
      /\ Len(out'[c]) <= asked[c] /\ out' \in [Callers -> Seq(1 .. MaxHashes)]
      /\ \A d \in Callers \ {c} : out'[d] = out[d]
  BY <1>1, <1>2, Appended
<1>9. Collecting(c)'
  BY <1>1, <1>3, <1>4, <1>6, <1>7, <1>8, TakingFacts DEF Collecting
<1>10. Good(c)'
  <2>1. Good(c) /\ result[c] = "none" /\ strategy[c] # "idle"
    BY <1>1, TakingFacts DEF HasNext
  <2>2. ps # <<>>
    BY <1>3, <1>4
  <2>3. \A i \in DOMAIN parts'[c] : parts'[c][i] = "failed" => hit'[c]
    BY <1>1, <1>4, <1>6, <2>1 DEF Good
  <2>4. QED
    BY <1>1, <1>6, <1>8, <1>9, <2>1, <2>2, <2>3 DEF Good
<1>11. Types' /\ \A d \in Callers \ {c} : SameFor(d)
  BY <1>1, <1>6, <1>8, IInvParts DEF Types, SameFor
<1>12. \A i \in DOMAIN parts'[c] : parts'[c][i] \in Sent => Flying(c, i)
  BY <1>4, <1>6 DEF Flying, Sent
<1>13. QED
  BY <1>10, <1>11, <1>12, CallerStep

LEMMA LearnedType ==
    ASSUME IInv, NEW how, NEW what \in {"supported", "unsupported"}, Learned(how, what)
    PROVE  capability' \in [Optional -> {"unknown", "supported", "unsupported"}]
BY IInvParts DEF Learned, Types

LEMMA TakeLastInv ==
    ASSUME IInv, NEW c \in Callers, TakeLast(c)
    PROVE  IInv'
<1>1. /\ HasNext(c) /\ Last(c)
      /\ out' = [out EXCEPT ![c] = @ \o Part(strategy[c], asked[c], Taken(c) + 1)]
      /\ Learned(strategy[c], "supported") /\ Return(c, "ok")
      /\ UNCHANGED <<serves, rotating, asked, hit>>
  BY DEF TakeLast
<1>2. /\ out'[c] = Upto(Covered(strategy[c], asked[c], Taken(c) + 1))
      /\ Len(out'[c]) <= asked[c] /\ out' \in [Callers -> Seq(1 .. MaxHashes)]
      /\ \A d \in Callers \ {c} : out'[d] = out[d]
  BY <1>1, Appended
<1>3. Covered(strategy[c], asked[c], Taken(c) + 1) = asked[c]
  BY <1>1, TakingFacts, NumPartsFacts DEF Last
<1>4. Good(c)'
  <2>1. strategy'[c] = "idle" /\ parts'[c] = <<>> /\ result'[c] = "ok"
    BY <1>1, ReturnEffect
  <2>2. out'[c] = Upto(asked'[c]) /\ Len(out'[c]) <= asked'[c]
    BY <1>1, <1>2, <1>3
  <2>3. QED
    BY <2>1, <2>2 DEF Good
<1>5. Types' /\ \A d \in Callers \ {c} : SameFor(d)
  BY <1>1, <1>2, LearnedType, ReturnEffect, IInvParts DEF Types, SameFor
<1>6. QED
  BY <1>1, <1>4, <1>5, ReturnEffect, CallerStep

LEMMA FallBackInv ==
    ASSUME IInv, NEW c \in Callers, FallBack(c)
    PROVE  IInv'
<1>1. PICK how \in Strategies : Ask(c, how, asked[c])
  <2>1. Choice(asked[c], {"block"}) \in Strategies /\ "single" \in Strategies
    BY ChoiceType DEF Strategies
  <2>2. QED
    BY <2>1 DEF FallBack
<1>2. /\ HasNext(c) /\ Learned(strategy[c], "unsupported")
      /\ UNCHANGED <<serves, rotating, asked, result, hit>>
  BY DEF FallBack
<1>3. PICK n \in 1 .. MaxHashes : n = asked[c]
  BY <1>2, TakingFacts
<1>4. Ask(c, how, n) /\ asked'[c] = n /\ result'[c] = "none"
  BY <1>1, <1>2, <1>3, TakingFacts
<1>5. /\ strategy' \in [Callers -> Strategies \cup {"idle"}]
      /\ parts' \in [Callers -> Seq(PartState)] /\ out' \in [Callers -> Seq(1 .. MaxHashes)]
      /\ \A d \in Callers \ {c} : /\ strategy'[d] = strategy[d] /\ parts'[d] = parts[d]
                                  /\ out'[d] = out[d]
      /\ Good(c)' /\ \A i \in DOMAIN parts'[c] : parts'[c][i] \notin Sent
  BY <1>4, AskGood
<1>6. Types' /\ \A d \in Callers \ {c} : SameFor(d)
  BY <1>2, <1>5, LearnedType, IInvParts DEF Types, SameFor
<1>7. QED
  BY <1>5, <1>6, CallerStep

LEMMA DiscardEffect ==
    ASSUME IInv, NEW c \in Callers, Discard(c)
    PROVE  /\ asked' \in [Callers -> 0 .. MaxHashes] /\ out' \in [Callers -> Seq(1 .. MaxHashes)]
           /\ \A d \in Callers \ {c} : asked'[d] = asked[d] /\ out'[d] = out[d]
           /\ asked'[c] = 0 /\ out'[c] = <<>>
BY IInvParts DEF Discard, Types

LEMMA TakeFailureInv ==
    ASSUME IInv, NEW c \in Callers, TakeFailure(c)
    PROVE  IInv'
<1>1. /\ HasNext(c) /\ NextAnswer(c) = "failed" /\ Return(c, "error") /\ Discard(c)
      /\ UNCHANGED <<serves, capability, rotating, hit>>
  BY DEF TakeFailure
<1>2. hit[c]
  BY <1>1, TakingFacts DEF Good, NextAnswer
<1>3. Good(c)'
  BY <1>1, <1>2, ReturnEffect, DiscardEffect DEF Good
<1>4. Types' /\ \A d \in Callers \ {c} : SameFor(d)
  BY <1>1, ReturnEffect, DiscardEffect, IInvParts DEF Types, SameFor
<1>5. QED
  BY <1>1, <1>3, <1>4, ReturnEffect, CallerStep

LEMMA DroppedInv ==
    ASSUME IInv, NEW c \in Callers, Dropped(c)
    PROVE  IInv'
<1>1. /\ Return(c, "none") /\ Discard(c)
      /\ hit' = [hit EXCEPT ![c] = FALSE]
      /\ UNCHANGED <<serves, capability, rotating>>
  BY DEF Dropped
<1>2. hit' \in [Callers -> BOOLEAN] /\ \A d \in Callers \ {c} : hit'[d] = hit[d]
  BY <1>1, IInvParts DEF Types
<1>3. Good(c)'
  BY <1>1, ReturnEffect, DiscardEffect DEF Good
<1>4. Types' /\ \A d \in Callers \ {c} : SameFor(d)
  <2>1. Types
    BY IInvParts
  <2>2. /\ strategy' \in [Callers -> Strategies \cup {"idle"}]
        /\ parts' \in [Callers -> Seq(PartState)]
        /\ result' \in [Callers -> {"none", "ok", "error"}]
        /\ \A d \in Callers \ {c} : /\ strategy'[d] = strategy[d] /\ parts'[d] = parts[d]
                                    /\ result'[d] = result[d]
    BY <1>1, ReturnEffect
  <2>3. QED
    BY <1>1, <1>2, <2>1, <2>2, DiscardEffect DEF Types, SameFor
<1>5. \A i \in DOMAIN parts'[c] : parts'[c][i] \notin Sent
  BY <1>1, ReturnEffect
<1>6. QED
  BY <1>3, <1>4, <1>5, CallerStep

\* Neither a rotation nor a reset touches a caller.
LEMMA SourceStep ==
    ASSUME IInv, UNCHANGED caller, serves' \in SUBSET Optional,
           capability' \in [Optional -> {"unknown", "supported", "unsupported"}],
           rotating' \in {<<>>, <<"block">>, <<"batch", "block">>}
    PROVE  IInv'
<1>1. \A d \in Callers : Good(d)'
  BY GoodFrame, IInvParts DEF SameFor, caller
<1>2. InFlight' = InFlight
  BY DEF InFlight, Flying, caller
<1>3. Types'
  BY IInvParts DEF Types, caller
<1>4. QED
  BY <1>1, <1>2, <1>3, IInvParts

LEMMA RotationInv ==
    ASSUME IInv, (\E abilities \in SUBSET Optional : SetUrl(abilities)) \/ ResetCapability
    PROVE  IInv'
<1>1. CASE \E abilities \in SUBSET Optional : SetUrl(abilities)
  BY <1>1, SourceStep, IInvParts DEF SetUrl, Types
<1>2. CASE ResetCapability
  <2>1. rotating \in {<<"block">>, <<"batch", "block">>} /\ rotating' = Tail(rotating)
        /\ capability' = [capability EXCEPT ![Head(rotating)] = "unknown"]
        /\ UNCHANGED <<serves, caller>>
    BY <1>2, IInvParts DEF ResetCapability, Types
  <2>2. Head(rotating) \in Optional /\ rotating' \in {<<>>, <<"block">>}
    <3>1. CASE rotating = <<"block">>
      BY <2>1, <3>1 DEF Optional
    <3>2. CASE rotating = <<"batch", "block">>
      BY <2>1, <3>2 DEF Optional
    <3>3. QED
      BY <2>1, <3>1, <3>2
  <2>3. QED
    BY <2>1, <2>2, SourceStep, IInvParts DEF Types
<1>3. QED
  BY <1>1, <1>2

LEMMA NextInv ==
    ASSUME IInv, [Next]_vars
    PROVE  IInv'
<1>1. ASSUME NEW c \in Callers, Step(c) PROVE IInv'
  BY <1>1, SendInv, AnswerInv, TakePartInv, TakeLastInv, FallBackInv, TakeFailureInv DEF Step
<1>2. ASSUME NEW c \in Callers,
             \/ \E n \in 0 .. MaxHashes : Fetch(c, n)
             \/ \E i \in DOMAIN parts[c] : AnswerFails(c, i)
             \/ Dropped(c)
      PROVE  IInv'
  BY <1>2, FetchInv, AnswerFailsInv, DroppedInv
<1>3. CASE UNCHANGED vars
  BY <1>3, SourceStep, IInvParts DEF vars, Types
<1>4. QED
  BY <1>1, <1>2, <1>3, RotationInv DEF Next

LEMMA InitInv == Init => IInv
<1> SUFFICES ASSUME Init PROVE IInv
  OBVIOUS
<1>1. Types
  BY DEF Init, Types, Optional
<1>2. \A c \in Callers : Good(c)
  BY DEF Init, Good
<1>3. InFlight = {}
  BY DEF Init, InFlight, Flying
<1>4. QED
  BY <1>1, <1>2, <1>3, FS_EmptySet, IInvParts

-----------------------------------------------------------------------------
\* While calls of optimized_receipts run, each holds exactly the outcomes its
\* answers cover, whatever the endpoints serve and however often they change.
THEOREM Invariance == Spec => []IInv
<1>1. Init => IInv
  BY InitInv
<1>2. IInv /\ [Next]_vars => IInv'
  BY NextInv
<1>3. QED
  BY <1>1, <1>2, PTL DEF Spec

\* No more requests are in flight than the source has permits.
THEOREM TypeCorrect == Spec => []TypeOK
<1>1. IInv => TypeOK
  BY DEF IInv
<1>2. QED
  BY <1>1, Invariance, PTL

\* A successful call returns one outcome per transaction, in their order: what
\* the indexer's pairing by position rests on, for every batch size.
THEOREM OutcomesInOrderHolds == Spec => []OutcomesInOrder
<1>1. IInv => OutcomesInOrder
  BY DEF IInv
<1>2. QED
  BY <1>1, Invariance, PTL

\* A call fails only if one of its requests failed: never because an endpoint lacks
\* a strategy, or was exchanged while the call was under way.
THEOREM ErrorNeedsFaultHolds == Spec => []ErrorNeedsFault
<1>1. IInv => ErrorNeedsFault
  BY DEF IInv
<1>2. QED
  BY <1>1, Invariance, PTL
=============================================================================
