---------------------------- MODULE StorageProofs ----------------------------
(* What the storage adapters promise, for any number of callers: facts that  *)
(* the proofs about both use (the rows, what a finished operation makes of   *)
(* the database, the control flow of a call, the supply of ids); that the    *)
(* steps of the MongoDB adapter and of the PostgreSQL adapter keep the       *)
(* invariant of Storage; what follows from it; and that the adapters         *)
(* implement StorageAtomic.                                                  *)
EXTENDS Storage, FiniteSetTheorems, WellFoundedInduction, TLAPS

USE StorageAssumption

-----------------------------------------------------------------------------
(* Rows.                                                                   *)

\* No two rows have the same key.
LEMMA KeysDiffer ==
    /\ \A c, d : Chain(c) = Chain(d) <=> c = d
    /\ \A i, j : Monitor(i) = Monitor(j) <=> i = j
    /\ \A i, j : Table(i) = Table(j) <=> i = j
    /\ \A i, j, a, b : Result(i, a) = Result(j, b) <=> (i = j /\ a = b)
    /\ \A i, b : Result(i, b)[2] = i
    /\ \A c, i, t, r, b :
          /\ Chain(c) # Monitor(i) /\ Chain(c) # Table(t) /\ Chain(c) # Result(r, b)
          /\ Monitor(i) # Table(t) /\ Monitor(i) # Result(r, b) /\ Table(t) # Result(r, b)
          /\ Counter # Chain(c) /\ Counter # Monitor(i) /\ Counter # Table(t) /\ Counter # Result(r, b)
BY DEF Chain, Monitor, Table, Result, Counter

LEMMA KeysAre ==
    /\ \A c \in Chains : Chain(c) \in Keys
    /\ \A i \in Ids : Monitor(i) \in Keys /\ Table(i) \in Keys
    /\ Counter \in Keys
    /\ \A i \in Ids, b \in Blocks : Result(i, b) \in Keys /\ Result(i, b) \in ResultKeys
    /\ ResultKeys \subseteq Keys /\ Lockable \subseteq Keys
    /\ \A c \in Chains : Chain(c) \in Lockable
    /\ \A i \in Ids : Monitor(i) \in Lockable
    /\ \A k \in ResultKeys : \E i \in Ids, b \in Blocks : k = Result(i, b)
    /\ \A k \in Keys : \/ \E c \in Chains : k = Chain(c)
                       \/ \E i \in Ids : k = Monitor(i) \/ k = Table(i)
                       \/ k = Counter \/ k \in ResultKeys
BY DEF Keys, ResultKeys, Lockable

MonitorRow == [chain : Chains, cursor : Blocks \cup {None}, enabled : BOOLEAN]

LEMMA RowTypes ==
    /\ \A c : RowType(Chain(c)) = {None} \cup BOOLEAN
    /\ \A i : RowType(Monitor(i)) = {None} \cup MonitorRow
    /\ \A i : RowType(Table(i)) = {None} \cup Chains
    /\ \A i, b : RowType(Result(i, b)) = {None} \cup Chains
    /\ RowType(Counter) = {None} \cup Ids
    /\ \A k : None \in RowType(k)
BY DEF RowType, Chain, Monitor, Table, Result, Counter, MonitorRow

LEMMA OverRows ==
    ASSUME NEW d, NEW w, DatabaseOK(d), RowsOK(w)
    PROVE  /\ DatabaseOK(Over(d, w))
           /\ \A k \in Keys : Over(d, w)[k] = IF k \in DOMAIN w THEN w[k] ELSE d[k]
BY DEF DatabaseOK, RowsOK, Over

LEMMA WithRows ==
    ASSUME NEW w, NEW v, RowsOK(w), RowsOK(v)
    PROVE  /\ RowsOK(With(w, v)) /\ DOMAIN With(w, v) = DOMAIN w \cup DOMAIN v
           /\ \A k \in DOMAIN w \cup DOMAIN v : With(w, v)[k] = IF k \in DOMAIN v THEN v[k] ELSE w[k]
BY DEF RowsOK, With

LEMMA NoRows == RowsOK(<<>>) /\ DOMAIN <<>> = {}
BY DEF RowsOK

\* What DatabaseOK says of each kind of row.
LEMMA DatabaseRows ==
    ASSUME NEW d, DatabaseOK(d)
    PROVE  /\ \A c \in Chains : d[Chain(c)] # None => d[Chain(c)] \in BOOLEAN
           /\ \A i \in Ids : d[Monitor(i)] # None =>
                 d[Monitor(i)] \in MonitorRow /\ d[Monitor(i)].chain \in Chains
           /\ \A i \in Ids, b \in Blocks : d[Result(i, b)] # None => d[Result(i, b)] \in Chains
           /\ d[Counter] # None => d[Counter] \in Ids
           /\ NextId(d) \in 1 .. MaxId + 1
           /\ d # <<>>
<1>1. /\ \A c \in Chains : d[Chain(c)] # None => d[Chain(c)] \in BOOLEAN
      /\ \A i \in Ids : d[Monitor(i)] # None => d[Monitor(i)] \in MonitorRow
      /\ \A i \in Ids, b \in Blocks : d[Result(i, b)] # None => d[Result(i, b)] \in Chains
      /\ d[Counter] # None => d[Counter] \in Ids
  BY KeysAre, RowTypes DEF DatabaseOK, RowsOK
<1>2. \A r \in MonitorRow : r.chain \in Chains
  BY DEF MonitorRow
<1>3. NextId(d) \in 1 .. MaxId + 1
  BY <1>1 DEF NextId, Ids
<1>4. d # <<>>
  BY KeysAre, NoRows DEF DatabaseOK
<1>5. QED
  BY <1>1, <1>2, <1>3, <1>4

-----------------------------------------------------------------------------
(* What a finished operation has made of the database d: e.                *)

Creates(d, e, i, c) ==
    /\ d[Chain(c)] # None /\ d[Monitor(i)] = None
    /\ \A x \in Chains : e[Chain(x)] = d[Chain(x)]
    /\ \A x \in Ids : e[Monitor(x)] = IF x = i THEN NewMonitor(c) ELSE d[Monitor(x)]
    /\ \A x \in Ids, b \in Blocks : e[Result(x, b)] = d[Result(x, b)]
    /\ adapter = "postgres" => \A x \in Ids : e[Table(x)] = IF x = i THEN c ELSE d[Table(x)]

Deletes(d, e, C, S) ==
    /\ \A x \in Chains : e[Chain(x)] = IF x \in C THEN None ELSE d[Chain(x)]
    /\ \A x \in Ids : e[Monitor(x)] = IF x \in S THEN None ELSE d[Monitor(x)]
    /\ \A x \in Ids, b \in Blocks : e[Result(x, b)] = IF x \in S THEN None ELSE d[Result(x, b)]
    /\ adapter = "postgres" => \A x \in Ids : e[Table(x)] = IF x \in S THEN None ELSE d[Table(x)]

Moves(d, e, c, S, D, b) ==
    /\ S \subseteq MonitorsOf(d, c) /\ D \subseteq S
    /\ \A x \in D : d[Result(x, b)] = None
    /\ \A x \in Chains : e[Chain(x)] = d[Chain(x)]
    /\ \A x \in Ids : e[Monitor(x)] = IF x \in S THEN [d[Monitor(x)] EXCEPT !.cursor = b]
                                               ELSE d[Monitor(x)]
    /\ \A x \in Ids, y \in Blocks : e[Result(x, y)] = IF x \in D /\ y = b THEN c ELSE d[Result(x, y)]
    /\ adapter = "postgres" => \A x \in Ids : e[Table(x)] = d[Table(x)]

Effect(j, d, e) ==
    /\ j.op = "create_monitor" => \E i \in Ids : Creates(d, e, i, j.chain)
    /\ j.op = "delete_chain" => /\ d[Chain(j.chain)] # None
                                /\ Deletes(d, e, {j.chain}, MonitorsOf(d, j.chain))
    /\ j.op = "delete_monitor" => /\ \A i \in j.ids : d[Monitor(i)] # None
                                  /\ Deletes(d, e, {}, j.ids)
    /\ j.op = "commit_block" => Moves(d, e, j.chain, j.ids, j.decoded, j.block)

LEMMA NewMonitorType ==
    ASSUME NEW c \in Chains
    PROVE  NewMonitor(c) \in MonitorRow /\ NewMonitor(c) # None /\ NewMonitor(c).chain = c
<1>1. NewMonitor(c) \in MonitorRow /\ NewMonitor(c).chain = c
  BY DEF NewMonitor, MonitorRow
<1>2. QED
  BY <1>1 DEF MonitorRow

LEMMA MovedType ==
    ASSUME NEW r \in MonitorRow, NEW b \in Blocks
    PROVE  /\ [r EXCEPT !.cursor = b] \in MonitorRow /\ [r EXCEPT !.cursor = b] # None
           /\ [r EXCEPT !.cursor = b].chain = r.chain /\ [r EXCEPT !.cursor = b].cursor = b
<1>1. /\ [r EXCEPT !.cursor = b] \in MonitorRow
      /\ [r EXCEPT !.cursor = b].chain = r.chain /\ [r EXCEPT !.cursor = b].cursor = b
  BY DEF MonitorRow
<1>2. QED
  BY <1>1 DEF MonitorRow

LEMMA EnabledType ==
    ASSUME NEW r \in MonitorRow, NEW en \in BOOLEAN
    PROVE  /\ [r EXCEPT !.enabled = en] \in MonitorRow /\ [r EXCEPT !.enabled = en] # None
           /\ [r EXCEPT !.enabled = en].chain = r.chain
<1>1. /\ [r EXCEPT !.enabled = en] \in MonitorRow
      /\ [r EXCEPT !.enabled = en].chain = r.chain
  BY DEF MonitorRow
<1>2. QED
  BY <1>1 DEF MonitorRow

\* Operations leave nothing hanging, and no monitor appears below a chain but by its
\* creation.
LEMMA CreatesWhole ==
    ASSUME NEW d, NEW e, DatabaseOK(d), Whole(d), NEW i \in Ids, NEW c \in Chains, Creates(d, e, i, c)
    PROVE  /\ Whole(e)
           /\ \A x \in Chains : x # c => MonitorsOf(e, x) \subseteq MonitorsOf(d, x)
<1>1. \A x \in Ids : e[Monitor(x)] = IF x = i THEN NewMonitor(c) ELSE d[Monitor(x)]
  BY DEF Creates
<1>2. \A x \in Ids : e[Monitor(x)] # None => e[Chain(e[Monitor(x)].chain)] # None
  <2>1. ASSUME NEW x \in Ids, x # i, d[Monitor(x)] # None PROVE e[Chain(d[Monitor(x)].chain)] # None
    BY <2>1, DatabaseRows DEF Creates, Whole
  <2>2. e[Chain(c)] # None
    BY DEF Creates
  <2>3. QED
    BY <1>1, <2>1, <2>2, NewMonitorType
<1>3. \A x \in Ids, b \in Blocks :
         e[Result(x, b)] # None => e[Monitor(x)] # None /\ e[Monitor(x)].chain = e[Result(x, b)]
  BY <1>1 DEF Creates, Whole
<1>4. adapter = "postgres" => \A x \in Ids : e[Table(x)] # None <=> e[Monitor(x)] # None
  BY <1>1, NewMonitorType DEF Creates, Whole
<1>5. \A x \in Chains : x # c => MonitorsOf(e, x) \subseteq MonitorsOf(d, x)
  BY <1>1, NewMonitorType DEF MonitorsOf
<1>6. QED
  BY <1>2, <1>3, <1>4, <1>5 DEF Whole

LEMMA DeletesWhole ==
    ASSUME NEW d, NEW e, DatabaseOK(d), Whole(d), NEW C, NEW S, Deletes(d, e, C, S),
           \A c \in C : MonitorsOf(d, c) \subseteq S
    PROVE  /\ Whole(e)
           /\ \A x \in Chains : MonitorsOf(e, x) \subseteq MonitorsOf(d, x)
<1>1. \A x \in Ids : e[Monitor(x)] = IF x \in S THEN None ELSE d[Monitor(x)]
  BY DEF Deletes
<1>2. ASSUME NEW x \in Ids, e[Monitor(x)] # None PROVE e[Chain(e[Monitor(x)].chain)] # None
  <2>1. x \notin S /\ e[Monitor(x)] = d[Monitor(x)] /\ d[Monitor(x)].chain \in Chains
    BY <1>1, <1>2, DatabaseRows
  <2>2. d[Monitor(x)].chain \notin C
    BY <1>2, <2>1 DEF MonitorsOf
  <2>3. QED
    BY <1>2, <2>1, <2>2 DEF Deletes, Whole
<1>3. \A x \in Ids, b \in Blocks :
         e[Result(x, b)] # None => e[Monitor(x)] # None /\ e[Monitor(x)].chain = e[Result(x, b)]
  BY <1>1 DEF Deletes, Whole
<1>4. adapter = "postgres" => \A x \in Ids : e[Table(x)] # None <=> e[Monitor(x)] # None
  BY <1>1 DEF Deletes, Whole
<1>5. \A x \in Chains : MonitorsOf(e, x) \subseteq MonitorsOf(d, x)
  BY <1>1 DEF MonitorsOf
<1>6. QED
  BY <1>2, <1>3, <1>4, <1>5 DEF Whole

LEMMA MovesWhole ==
    ASSUME NEW d, NEW e, DatabaseOK(d), Whole(d), NEW c \in Chains, NEW S \in SUBSET Ids,
           NEW D \in SUBSET S, NEW b \in Blocks, Moves(d, e, c, S, D, b)
    PROVE  /\ Whole(e)
           /\ \A x \in Chains : MonitorsOf(e, x) \subseteq MonitorsOf(d, x)
<1>1. ASSUME NEW x \in Ids
      PROVE  /\ e[Monitor(x)] # None <=> d[Monitor(x)] # None
             /\ d[Monitor(x)] # None => e[Monitor(x)].chain = d[Monitor(x)].chain
             /\ x \in S => d[Monitor(x)] # None /\ d[Monitor(x)].chain = c
  <2>1. x \in S => d[Monitor(x)] # None /\ d[Monitor(x)].chain = c /\ d[Monitor(x)] \in MonitorRow
    BY DatabaseRows DEF Moves, MonitorsOf
  <2>2. x \in S => /\ [d[Monitor(x)] EXCEPT !.cursor = b] # None
                   /\ [d[Monitor(x)] EXCEPT !.cursor = b].chain = d[Monitor(x)].chain
    BY <2>1, MovedType
  <2>3. QED
    BY <2>1, <2>2 DEF Moves
<1>2. \A x \in Ids : e[Monitor(x)] # None => e[Chain(e[Monitor(x)].chain)] # None
  BY <1>1, DatabaseRows DEF Moves, Whole
<1>3. \A x \in Ids, y \in Blocks :
         e[Result(x, y)] # None => e[Monitor(x)] # None /\ e[Monitor(x)].chain = e[Result(x, y)]
  BY <1>1 DEF Moves, Whole
<1>4. adapter = "postgres" => \A x \in Ids : e[Table(x)] # None <=> e[Monitor(x)] # None
  BY <1>1 DEF Moves, Whole
<1>5. \A x \in Chains : MonitorsOf(e, x) \subseteq MonitorsOf(d, x)
  BY <1>1 DEF MonitorsOf
<1>6. QED
  BY <1>2, <1>3, <1>4, <1>5 DEF Whole

LEMMA EffectWhole ==
    ASSUME NEW d, NEW e, DatabaseOK(d), Whole(d), NEW j, ValidCall(j), j.op # "none", Effect(j, d, e)
    PROVE  /\ Whole(e)
           /\ \A x \in Chains : \/ j.op = "create_monitor" /\ x = j.chain
                                \/ MonitorsOf(e, x) \subseteq MonitorsOf(d, x)
<1>1. j.chain \in Chains /\ j.ids \in SUBSET Ids
      /\ j.op \in {"create_monitor", "delete_chain", "delete_monitor", "commit_block"}
  BY DEF ValidCall, Job
<1>2. CASE j.op = "create_monitor"
  BY <1>1, <1>2, CreatesWhole DEF Effect
<1>3. CASE j.op = "delete_chain"
  BY <1>1, <1>3, DeletesWhole DEF Effect
<1>4. CASE j.op = "delete_monitor"
  BY <1>1, <1>4, DeletesWhole DEF Effect
<1>5. CASE j.op = "commit_block"
  BY <1>1, <1>5, MovesWhole DEF Effect, ValidCall
<1>6. QED
  BY <1>1, <1>2, <1>3, <1>4, <1>5

\* A call that has ended well stands for its operation in one respect more: a block
\* commit has moved every monitor and stored every result of its block.
LEMMA EffectOfCommit ==
    ASSUME NEW d, NEW e, DatabaseOK(d), NEW j, ValidCall(j), j.op = "commit_block", Effect(j, d, e)
    PROVE  \A i \in j.ids : /\ e[Monitor(i)] # None /\ e[Monitor(i)].cursor = j.block
                            /\ i \in j.decoded => e[Result(i, j.block)] # None
<1>1. Moves(d, e, j.chain, j.ids, j.decoded, j.block) /\ j.ids \subseteq Ids /\ j.block \in Blocks
      /\ j.chain \in Chains
  BY DEF Effect, ValidCall, Job
<1>2. ASSUME NEW i \in j.ids PROVE e[Monitor(i)] # None /\ e[Monitor(i)].cursor = j.block
  <2>1. d[Monitor(i)] \in MonitorRow
    BY <1>1, DatabaseRows DEF Moves, MonitorsOf
  <2>2. /\ [d[Monitor(i)] EXCEPT !.cursor = j.block] # None
        /\ [d[Monitor(i)] EXCEPT !.cursor = j.block].cursor = j.block
    BY <1>1, <2>1, MovedType
  <2>3. QED
    BY <1>1, <2>2 DEF Moves
<1>3. QED
  BY <1>1, <1>2 DEF Moves
-----------------------------------------------------------------------------
(* The control flow of a call.                                             *)

Places == Requests \cup {"idle", "start", "commit", "committed"}
          \cup Holding \cup {"rollback", "in_doubt"}

ControlOf(s) ==
    /\ ValidCall(call[s]) /\ call[s].op \in OpsAt(pc[s])
    /\ pc[s] \in Requests \cup {"commit", "committed"} => adapter = "mongodb"
    /\ pc[s] \in Holding \cup {"rollback", "in_doubt"} => adapter = "postgres"
    /\ applied[s] = 1 => pc[s] \in {"idle", "committed"}
    /\ pc[s] = "committed" => applied[s] = 1
    /\ pc[s] \notin {"idle", "rollback", "in_doubt"} => answer[s] = "none"
    /\ pc[s] = "in_doubt" => answer[s] = "error"
    /\ answer[s] = "ok" => applied[s] = 1
    /\ answer[s] = "refused" => applied[s] = 0

ControlTypes ==
    /\ adapter \in {"mongodb", "postgres"}
    /\ pc \in [Sessions -> Places] /\ DOMAIN call = Sessions
    /\ applied \in [Sessions -> 0 .. 1]
    /\ answer \in [Sessions -> {"none", "ok", "refused", "error"}]

Control == ControlTypes /\ \A s \in Sessions : ControlOf(s)

Data ==
    /\ DatabaseOK(db)
    /\ DOMAIN own = Sessions /\ DOMAIN snapshot = Sessions
    /\ \A s \in Sessions : RowsOK(own[s]) /\ (snapshot[s] # <<>> => DatabaseOK(snapshot[s]))
    /\ stale \in [Sessions -> SUBSET Keys]
    /\ locks \in [Sessions -> SUBSET (Lockable \X {"share", "update"})]
    /\ todo \in [Sessions -> SUBSET Ids]

LEMMA InvariantParts ==
    /\ IInv <=> /\ Control /\ Data /\ IdsValid /\ NoOrphans
                /\ adapter = "mongodb" => MongoValid
                /\ adapter = "postgres" => PostgresValid
    /\ IInv' <=> /\ Control' /\ Data' /\ IdsValid' /\ NoOrphans'
                 /\ adapter' = "mongodb" => MongoValid'
                 /\ adapter' = "postgres" => PostgresValid'
BY DEF IInv, TypeOK, CallsValid, Unreported, ReportIsHonest, Control, ControlTypes, ControlOf, Data, Places

SameControl(o) == /\ pc'[o] = pc[o] /\ call'[o] = call[o]
                  /\ applied'[o] = applied[o] /\ answer'[o] = answer[o]

LEMMA ControlStep ==
    ASSUME Control, NEW s \in Sessions, UNCHANGED adapter, ControlTypes',
           \A o \in Sessions \ {s} : SameControl(o), ControlOf(s)'
    PROVE  Control'
<1>1. ASSUME NEW o \in Sessions \ {s} PROVE ControlOf(o)'
  <2>1. ControlOf(o) /\ SameControl(o)
    BY DEF Control
  <2>2. QED
    BY <2>1 DEF ControlOf, SameControl
<1>2. QED
  BY <1>1 DEF Control

Underway == {"start", "commit"} \cup Requests \cup Holding

LEMMA ControlFrame == ASSUME Control, UNCHANGED <<adapter, session>> PROVE Control'
<1>1. \A o \in Sessions : ControlOf(o)'
  BY DEF session, Control, ControlOf
<1>2. QED
  BY <1>1 DEF Control, ControlTypes, session

\* A session goes on with its call.
LEMMA GotoControl ==
    ASSUME Control, NEW s \in Sessions, pc[s] \in Underway, NEW at \in Underway,
           call[s].op \in OpsAt(at), pc' = [pc EXCEPT ![s] = at],
           UNCHANGED <<adapter, call, applied, answer>>,
           at \in Requests \cup {"commit"} => adapter = "mongodb",
           at \in Holding => adapter = "postgres"
    PROVE  Control'
<1>1. ControlTypes'
  BY DEF Control, ControlTypes, Underway, Places
<1>2. \A o \in Sessions \ {s} : SameControl(o)
  BY DEF Control, ControlTypes, SameControl
<1>3. /\ pc'[s] = at /\ call'[s] = call[s] /\ applied'[s] = applied[s] /\ answer'[s] = answer[s]
      /\ ControlOf(s) /\ applied[s] \in 0 .. 1
  BY DEF Control, ControlTypes
<1>4. /\ pc[s] \notin {"idle", "committed", "rollback", "in_doubt"}
      /\ at \notin {"idle", "committed", "rollback", "in_doubt"}
  BY DEF Underway, Requests, Holding
<1>5. ControlOf(s)'
  BY <1>3, <1>4 DEF ControlOf
<1>6. QED
  BY <1>1, <1>2, <1>5, ControlStep

\* A session that has a call under way has one of the four.
LEMMA AtWork ==
    ASSUME Control, NEW s \in Sessions, pc[s] \in Underway
    PROVE  /\ ValidCall(call[s]) /\ call[s].op \in OpsAt(pc[s])
           /\ call[s].op \in {"create_monitor", "delete_chain", "delete_monitor", "commit_block"}
           /\ \A at \in {"start", "commit", "pg_commit"} : call[s].op \in OpsAt(at)
           /\ applied[s] = 0
<1>1. ControlOf(s) /\ applied[s] \in 0 .. 1
  BY DEF Control, ControlTypes
<1>2. "none" \notin OpsAt(pc[s]) /\ pc[s] \notin {"idle", "committed"}
  BY DEF OpsAt, Underway, Requests, Holding
<1>3. call[s].op \in {"create_monitor", "delete_chain", "delete_monitor", "commit_block"}
  BY <1>1, <1>2 DEF ControlOf, ValidCall, Job
<1>4. \A at \in {"start", "commit", "pg_commit"} : call[s].op \in OpsAt(at)
  BY <1>3 DEF OpsAt
<1>5. QED
  BY <1>1, <1>2, <1>3, <1>4 DEF ControlOf

LEMMA NoCallValid == ValidCall(NoCall) /\ NoCall.op = "none"
BY DEF NoCall, ValidCall, Job

\* The call is over, with an effect or without.
LEMMA ReturnControl ==
    ASSUME Control, NEW s \in Sessions, UNCHANGED adapter,
           NEW at \in {"idle", "rollback", "in_doubt"}, NEW what \in {"ok", "refused", "error"},
           Returned(s, at, what), NEW n \in 0 .. 1, applied' = [applied EXCEPT ![s] = n],
           at # "idle" => n = 0 /\ adapter = "postgres", at = "in_doubt" => what = "error",
           what = "ok" => n = 1, what = "refused" => n = 0
    PROVE  Control'
<1>1. ControlTypes'
  BY DEF Control, ControlTypes, Returned, Places
<1>2. \A o \in Sessions \ {s} : SameControl(o)
  BY DEF Control, ControlTypes, SameControl, Returned
<1>3. pc'[s] = at /\ call'[s] = NoCall /\ applied'[s] = n /\ answer'[s] = what
  BY DEF Control, ControlTypes, Returned
<1>4. at \notin Requests \cup {"commit", "committed"} /\ at \notin Holding /\ "none" \in OpsAt(at)
  BY DEF Requests, Holding, OpsAt
<1>5. ControlOf(s)'
  BY <1>3, <1>4, NoCallValid DEF ControlOf
<1>6. QED
  BY <1>1, <1>2, <1>5, ControlStep

LEMMA BeginControl ==
    ASSUME Control, NEW s \in Sessions, NEW j, ValidCall(j), j.op # "none", Begin(s, j)
    PROVE  Control'
<1>1. ControlTypes'
  BY DEF Control, ControlTypes, Begin, Places
<1>2. \A o \in Sessions \ {s} : SameControl(o)
  BY DEF Control, ControlTypes, SameControl, Begin
<1>3. pc'[s] = "start" /\ call'[s] = j /\ applied'[s] = 0 /\ answer'[s] = "none"
  BY DEF Control, ControlTypes, Begin
<1>4. "start" \notin Requests \cup {"commit", "committed"} /\ "start" \notin Holding /\ j.op \in OpsAt("start")
  BY DEF Requests, Holding, OpsAt, ValidCall, Job
<1>5. ControlOf(s)'
  BY <1>3, <1>4 DEF ControlOf
<1>6. QED
  BY <1>1, <1>2, <1>5, ControlStep DEF Begin
-----------------------------------------------------------------------------
(* The supply of ids.                                                      *)

Supply == NextId(db) + Cardinality(Ungiven) <= MaxId + 1

LEMMA UngivenFinite ==
    /\ IsFiniteSet(Ungiven) /\ Cardinality(Ungiven) \in Nat
    /\ IsFiniteSet(Ungiven') /\ Cardinality(Ungiven)' \in Nat
<1>1. Ungiven \subseteq Sessions /\ Ungiven' \subseteq Sessions
  BY DEF Ungiven
<1>2. IsFiniteSet(Ungiven) /\ IsFiniteSet(Ungiven')
  BY <1>1, FS_Subset
<1>3. Cardinality(Ungiven') \in Nat /\ Cardinality(Ungiven) \in Nat
  BY <1>2, FS_CardinalityType
<1>4. QED
  BY <1>2, <1>3

\* Nobody asks for an id and none is given.
LEMMA SupplyKept ==
    ASSUME Supply, DatabaseOK(db), NextId(db)' = NextId(db), Ungiven' \subseteq Ungiven
    PROVE  Supply'
<1>1. Cardinality(Ungiven') <= Cardinality(Ungiven)
  BY UngivenFinite, FS_Subset
<1>2. NextId(db) \in 1 .. MaxId + 1
  BY DatabaseRows
<1>3. QED
  BY <1>1, <1>2, UngivenFinite DEF Supply

\* The session s takes an id.
LEMMA SupplyTaken ==
    ASSUME Supply, DatabaseOK(db), NEW s \in Ungiven, NextId(db)' = NextId(db) + 1,
           Ungiven' \subseteq Ungiven \ {s}
    PROVE  Supply' /\ NextId(db) \in Ids
<1>1. /\ IsFiniteSet(Ungiven \ {s})
      /\ Cardinality(Ungiven \ {s}) = Cardinality(Ungiven) - 1
  BY UngivenFinite, FS_RemoveElement
<1>2. Cardinality(Ungiven') <= Cardinality(Ungiven \ {s})
  BY <1>1, FS_Subset
<1>3. NextId(db) \in 1 .. MaxId + 1
  BY DatabaseRows
<1>4. Cardinality(Ungiven) >= 1
  BY <1>1, UngivenFinite, FS_CardinalityType, <1>2
<1>5. QED
  BY <1>1, <1>2, <1>3, <1>4, UngivenFinite DEF Supply, Ids

LEMMA IdToTake ==
    ASSUME Supply, DatabaseOK(db), NEW s \in Ungiven
    PROVE  NextId(db) \in Ids
<1>1. Cardinality(Ungiven) >= 1
  BY UngivenFinite, FS_EmptySet
<1>2. NextId(db) \in 1 .. MaxId + 1
  BY DatabaseRows
<1>3. QED
  BY <1>1, <1>2, UngivenFinite DEF Supply, Ids

\* The session s will need one.
LEMMA SupplyAsked ==
    ASSUME DatabaseOK(db), NEW s \in Sessions, NextId(db)' = NextId(db),
           NextId(db) + Cardinality(Creating) <= MaxId, Ungiven' \subseteq Ungiven \cup {s}
    PROVE  Supply'
<1>1. Ungiven' \subseteq Creating \cup {s} /\ Creating \subseteq Sessions
  BY DEF Ungiven, Creating
<1>2. IsFiniteSet(Creating) /\ Cardinality(Creating) \in Nat
  BY <1>1, FS_Subset, FS_CardinalityType
<1>3. /\ IsFiniteSet(Creating \cup {s})
      /\ Cardinality(Creating \cup {s}) <= Cardinality(Creating) + 1
  <2>1. /\ IsFiniteSet(Creating \cup {s})
        /\ Cardinality(Creating \cup {s}) \in {Cardinality(Creating), Cardinality(Creating) + 1}
    BY <1>2, FS_AddElement
  <2>2. QED
    BY <1>2, <2>1
<1>4. Cardinality(Ungiven') <= Cardinality(Creating \cup {s})
  BY <1>1, <1>3, FS_Subset
<1>5. NextId(db) \in 1 .. MaxId + 1 /\ Cardinality(Creating \cup {s}) \in Nat
  BY <1>3, DatabaseRows, FS_CardinalityType
<1>6. QED
  BY <1>2, <1>3, <1>4, <1>5, UngivenFinite DEF Supply

LEMMA UngivenFrame ==
    ASSUME Control, Control', NEW s \in Sessions,
           \A o \in Sessions \ {s} : pc'[o] = pc[o] /\ call'[o] = call[o],
           \/ call'[s].op # "create_monitor"
           \/ call'[s] = call[s] /\ pc[s] \notin {"committed", "create_table", "pg_commit"}
           \/ call'[s] = call[s] /\ pc'[s] \in {"committed", "create_table", "pg_commit"}
    PROVE  Ungiven' \subseteq Ungiven
BY DEF Ungiven

\* No monitor has an id that is still to be given.
Below == \A i \in Ids : db[Monitor(i)] # None => i < NextId(db)

-----------------------------------------------------------------------------
(* Calls that begin, and writes of one row.                                *)

Asks(s, j) ==
    /\ ValidCall(j) /\ j.op # "none" /\ Begin(s, j)
    /\ j.op = "create_monitor" => NextId(db) + Cardinality(Creating) <= MaxId

LEMMA CallFacts ==
    ASSUME Control, DatabaseOK(db), Supply, NEW s \in Sessions, Call(s)
    PROVE  /\ \E j : ValidCall(j) /\ j.op # "none" /\ Begin(s, j)
           /\ Control' /\ Supply'
<1>1. \E j : Asks(s, j)
  <2>1. ASSUME NEW c \in Chains, CreateMonitor(s, c) PROVE \E x : Asks(s, x)
    <3> DEFINE j == [NoCall EXCEPT !.op = "create_monitor", !.chain = c]
    <3>1. ValidCall(j) /\ j.op = "create_monitor"
      BY DEF NoCall, ValidCall, Job
    <3>2. QED
      BY <2>1, <3>1 DEF CreateMonitor, Asks
  <2>2. ASSUME NEW c \in Chains, DeleteChain(s, c) PROVE \E x : Asks(s, x)
    <3> DEFINE j == [NoCall EXCEPT !.op = "delete_chain", !.chain = c]
    <3>1. ValidCall(j) /\ j.op = "delete_chain"
      BY DEF NoCall, ValidCall, Job
    <3>2. QED
      BY <2>2, <3>1 DEF DeleteChain, Asks
  <2>3. ASSUME NEW i \in Ids, DeleteMonitor(s, i) PROVE \E x : Asks(s, x)
    <3> DEFINE c == db[Monitor(i)].chain
               j == [NoCall EXCEPT !.op = "delete_monitor", !.chain = c, !.ids = {i}]
    <3>1. c \in Chains
      BY <2>3, DatabaseRows DEF DeleteMonitor
    <3> HIDE DEF c
    <3>2. ValidCall(j) /\ j.op = "delete_monitor"
      BY <3>1 DEF NoCall, ValidCall, Job
    <3>3. QED
      BY <2>3, <3>2 DEF DeleteMonitor, c, Asks
  <2>4. ASSUME NEW c \in Chains, NEW S \in SUBSET Ids, NEW D \in SUBSET Ids, NEW b \in Blocks,
               CommitBlock(s, c, S, D, b)
        PROVE  \E x : Asks(s, x)
    <3> DEFINE j == [op |-> "commit_block", chain |-> c, ids |-> S, block |-> b, decoded |-> D]
    <3>1. ValidCall(j) /\ j.op = "commit_block"
      BY <2>4 DEF CommitBlock, ValidCall, Job
    <3>2. QED
      BY <2>4, <3>1 DEF CommitBlock, Asks
  <2>5. QED
    BY <2>1, <2>2, <2>3, <2>4 DEF Call
<1>2. PICK j : Asks(s, j)
  BY <1>1
<1>3. Control'
  BY <1>2, BeginControl DEF Asks
<1>4. /\ call'[s] = j /\ \A o \in Sessions \ {s} : pc'[o] = pc[o] /\ call'[o] = call[o]
      /\ db' = db
  BY <1>2 DEF Asks, Begin, Control, ControlTypes
<1>5. CASE j.op = "create_monitor"
  <2>1. Ungiven' \subseteq Ungiven \cup {s}
    BY <1>4 DEF Ungiven
  <2>2. QED
    BY <1>2, <1>3, <1>4, <1>5, <2>1, SupplyAsked DEF Asks
<1>6. CASE j.op # "create_monitor"
  <2>1. Ungiven' \subseteq Ungiven
    BY <1>3, <1>4, <1>6, UngivenFrame
  <2>2. QED
    BY <1>2, <1>3, <1>4, <2>1, SupplyKept DEF Asks
<1>7. QED
  BY <1>5, <1>6

\* Writes of one row keep what is below it.
SingleWrite(k, v) ==
    /\ WriteOne(k, v) /\ DatabaseOK(db') /\ NoOrphans' /\ Below' /\ NextId(db') = NextId(db)
    /\ \A x \in Keys \ {k} : db'[x] = db[x]
    /\ db'[k] # None /\ k # Counter
    /\ \A i \in Ids : db'[Monitor(i)] # None <=> db[Monitor(i)] # None
    /\ \A i \in Ids : db[Monitor(i)] # None => db'[Monitor(i)].chain = db[Monitor(i)].chain
    /\ \A i \in Ids, b \in Blocks : k # Result(i, b)
    /\ \A i \in Ids : k # Table(i)

LEMMA SingleFacts ==
    ASSUME DatabaseOK(db), NoOrphans, Below, Single
    PROVE  \E k \in Keys : \E v : SingleWrite(k, v)
<1>1. ASSUME NEW k \in Keys, NEW v, WriteOne(k, v), v # None, v \in RowType(k),
             \/ \E c \in Chains : k = Chain(c)
             \/ \E i \in Ids : k = Monitor(i) /\ db[k] # None /\ v.chain = db[k].chain
      PROVE  \E x \in Keys : \E y : SingleWrite(x, y)
  <2>1. /\ db' = [db EXCEPT ![k] = v] /\ adapter' = adapter
        /\ db'[k] = v /\ DOMAIN db' = Keys /\ \A x \in Keys \ {k} : db'[x] = db[x]
    BY <1>1 DEF WriteOne, DatabaseOK
  <2>2. DatabaseOK(db')
    BY <1>1, <2>1 DEF DatabaseOK, RowsOK
  <2>3. k # Counter /\ (\A i \in Ids, b \in Blocks : k # Result(i, b)) /\ \A i \in Ids : k # Table(i)
    BY <1>1, KeysDiffer
  <2>4. /\ \A i \in Ids : db'[Monitor(i)] # None <=> db[Monitor(i)] # None
        /\ \A i \in Ids : db[Monitor(i)] # None => db'[Monitor(i)].chain = db[Monitor(i)].chain
    BY <1>1, <2>1, KeysAre, KeysDiffer
  <2>5. NextId(db') = NextId(db)
    BY <2>1, <2>3, KeysAre DEF NextId
  <2>6. \A c \in Chains : db[Chain(c)] # None => db'[Chain(c)] # None
    BY <1>1, <2>1, KeysAre
  <2>7. /\ \A i \in Ids, b \in Blocks : db'[Result(i, b)] = db[Result(i, b)]
        /\ \A i \in Ids : db'[Table(i)] = db[Table(i)]
    BY <2>1, <2>3, KeysAre
  <2>8. NoOrphans'
    <3>1. \A i \in Ids : db'[Monitor(i)] # None => db'[Chain(db'[Monitor(i)].chain)] # None
      BY <2>4, <2>6, DatabaseRows DEF NoOrphans, Whole
    <3>2. QED
      BY <2>1, <2>4, <2>7, <3>1 DEF NoOrphans, Whole
  <2>9. Below'
    BY <2>4, <2>5 DEF Below
  <2>10. QED
    BY <1>1, <2>1, <2>2, <2>3, <2>4, <2>5, <2>8, <2>9 DEF SingleWrite
<1>2. ASSUME NEW en \in Flags, NEW c \in Chains, CreateChain(c, en) \/ UpdateChain(c, en)
      PROVE  \E x \in Keys : \E y : SingleWrite(x, y)
  BY <1>1, <1>2, KeysAre, RowTypes DEF CreateChain, UpdateChain
<1>3. ASSUME NEW en \in Flags, NEW i \in Ids, SetEnabled(i, en)
      PROVE  \E x \in Keys : \E y : SingleWrite(x, y)
  <2>1. db[Monitor(i)] \in MonitorRow /\ en \in BOOLEAN
    BY <1>3, DatabaseRows DEF SetEnabled
  <2>2. PICK v : v = [db[Monitor(i)] EXCEPT !.enabled = en]
    OBVIOUS
  <2>3. /\ Monitor(i) \in Keys /\ WriteOne(Monitor(i), v) /\ db[Monitor(i)] # None
        /\ v # None /\ v \in RowType(Monitor(i)) /\ v.chain = db[Monitor(i)].chain
    BY <1>3, <2>1, <2>2, KeysAre, RowTypes, EnabledType DEF SetEnabled
  <2>4. QED
    BY <1>1, <2>3
<1>4. QED
  BY <1>2, <1>3 DEF Single

-----------------------------------------------------------------------------
(* The steps of the MongoDB adapter.                                       *)

MongoOf(s) ==
    /\ locks[s] = {} /\ todo[s] = {}
    /\ Open(s) => SnapshotValid(s) /\ WritesOfCall(s)
    /\ ~ Open(s) => own[s] = <<>> /\ snapshot[s] = <<>> /\ stale[s] = {}

Disjoint == \A s, o \in Sessions : s # o => Wrote(s) \cap Wrote(o) = {}

LEMMA MongoParts ==
    /\ MongoValid <=> Disjoint /\ \A s \in Sessions : MongoOf(s)
    /\ MongoValid' <=> Disjoint' /\ \A s \in Sessions : MongoOf(s)'
BY DEF MongoValid, MongoOf, Disjoint

LEMMA MongoStep ==
    ASSUME IInv, adapter = "mongodb", UNCHANGED adapter, Control', Data', Supply', Below',
           NoOrphans', Disjoint', \A s \in Sessions : MongoOf(s)'
    PROVE  IInv'
BY InvariantParts, MongoParts DEF IdsValid, Supply, Below

LEMMA MongoFacts ==
    ASSUME IInv, adapter = "mongodb"
    PROVE  /\ Control /\ Data /\ Supply /\ Below /\ NoOrphans /\ Disjoint
           /\ \A s \in Sessions : MongoOf(s)
BY InvariantParts, MongoParts DEF IdsValid, Supply, Below

\* A session inside its transaction.
LEMMA OpenFacts ==
    ASSUME IInv, adapter = "mongodb", NEW s \in Sessions, Open(s)
    PROVE  /\ DatabaseOK(db) /\ DatabaseOK(snapshot[s]) /\ RowsOK(own[s])
           /\ SnapshotValid(s) /\ WritesOfCall(s) /\ stale[s] \subseteq Keys
           /\ ValidCall(call[s]) /\ call[s].op \in OpsAt(pc[s]) /\ call[s].op # "none"
           /\ Wrote(s) \subseteq Keys
           /\ DatabaseOK(View(s))
           /\ \A k \in Keys : View(s)[k] = IF k \in Wrote(s) THEN own[s][k] ELSE snapshot[s][k]
<1>1. /\ SnapshotValid(s) /\ WritesOfCall(s)
      /\ DatabaseOK(db) /\ RowsOK(own[s]) /\ (snapshot[s] # <<>> => DatabaseOK(snapshot[s]))
      /\ stale[s] \subseteq Keys /\ ControlOf(s)
  BY MongoFacts DEF MongoOf, Data, Control
<1>2. DatabaseOK(snapshot[s])
  BY <1>1 DEF SnapshotValid
<1>3. /\ DatabaseOK(View(s))
      /\ \A k \in Keys : View(s)[k] = IF k \in Wrote(s) THEN own[s][k] ELSE snapshot[s][k]
  BY <1>1, <1>2, OverRows DEF View, Wrote
<1>4. call[s].op # "none"
  BY <1>1 DEF ControlOf, OpsAt, Open, Requests
<1>5. QED
  BY <1>1, <1>2, <1>3, <1>4 DEF ControlOf, RowsOK, Wrote

\* What a transaction has written nobody has changed under it.
LEMMA Unchanged ==
    ASSUME IInv, adapter = "mongodb", NEW s \in Sessions, Open(s)
    PROVE  /\ \A k \in Wrote(s) : db[k] = snapshot[s][k]
           /\ \A i \in Ids : Monitor(i) \in Wrote(s) =>
                 \A b \in Blocks : db[Result(i, b)] = snapshot[s][Result(i, b)]
BY OpenFacts, KeysAre DEF SnapshotValid

-----------------------------------------------------------------------------
(* A commit makes of the database what the operation stands for.           *)

LEMMA CommitCreates ==
    ASSUME IInv, adapter = "mongodb", NEW s \in Sessions, pc[s] = "commit",
           call[s].op = "create_monitor", NEW e, e = Over(db, own[s])
    PROVE  /\ NextId(db) \in Ids /\ Creates(db, e, NextId(db), call[s].chain)
           /\ NextId(e) = NextId(db) + 1
           /\ Chain(call[s].chain) \in Wrote(s)
           /\ \A i \in Ids, b \in Blocks : Result(i, b) \notin Wrote(s)
<1> DEFINE c == call[s].chain
           d == snapshot[s]
<1>1. Open(s)
  BY DEF Open
<1>2. CreateWrites(s, c, "commit", d) /\ c \in Chains
  BY <1>1, OpenFacts DEF WritesOfCall, ValidCall
<1>3. /\ Wrote(s) = {Chain(c), Counter, Monitor(NextId(d))}
      /\ d[Chain(c)] # None /\ own[s][Chain(c)] = d[Chain(c)]
      /\ own[s][Counter] = NextId(d) /\ own[s][Monitor(NextId(d))] = NewMonitor(c)
      /\ NextId(d) \in Ids /\ d[Monitor(NextId(d))] = None
  BY <1>2 DEF CreateWrites
<1>4. NextId(db) = NextId(d) /\ db[Chain(c)] = d[Chain(c)] /\ db[Monitor(NextId(d))] = None
  BY <1>1, <1>3, Unchanged DEF NextId
<1>5. \A k \in Keys : e[k] = IF k \in Wrote(s) THEN own[s][k] ELSE db[k]
  BY <1>1, OpenFacts, OverRows DEF Wrote
<1>6. NextId(e) = NextId(db) + 1
  BY <1>3, <1>4, <1>5, KeysAre DEF NextId
<1> HIDE DEF c, d
<1>7. Creates(db, e, NextId(db), c)
  BY <1>2, <1>3, <1>4, <1>5, KeysAre, KeysDiffer DEF Creates
<1>8. QED
  BY <1>3, <1>4, <1>6, <1>7, KeysDiffer DEF c

LEMMA CommitDeletesChain ==
    ASSUME IInv, adapter = "mongodb", NEW s \in Sessions, pc[s] = "commit",
           call[s].op = "delete_chain", NEW e, e = Over(db, own[s])
    PROVE  /\ db[Chain(call[s].chain)] # None
           /\ Deletes(db, e, {call[s].chain}, MonitorsOf(db, call[s].chain))
           /\ NextId(e) = NextId(db)
           /\ \A i \in Ids, b \in Blocks : Result(i, b) \in Wrote(s) => Monitor(i) \in Wrote(s)
<1> DEFINE c == call[s].chain
           d == snapshot[s]
           M == MonitorsOf(d, c)
<1>1. Open(s)
  BY DEF Open
<1>2. DeleteChainWrites(s, c, "commit", d) /\ c \in Chains
  BY <1>1, OpenFacts DEF WritesOfCall, ValidCall
<1>3. /\ Wrote(s) = {Chain(c)} \cup {Monitor(i) : i \in M} \cup {k \in ResultKeys : d[k] = c}
      /\ \A k \in Wrote(s) : own[s][k] = None
      /\ d[Chain(c)] # None
  BY <1>2 DEF DeleteChainWrites
<1>4. \A k \in Keys : e[k] = IF k \in Wrote(s) THEN own[s][k] ELSE db[k]
  BY <1>1, OpenFacts, OverRows DEF Wrote
<1>5. M \subseteq Ids /\ \A i \in Ids : i \in M <=> d[Monitor(i)] # None /\ d[Monitor(i)].chain = c
  BY DEF MonitorsOf
<1>6. /\ SnapshotValid(s) /\ Whole(d)
      /\ \A k \in Wrote(s) : k \notin stale[s] /\ db[k] = d[k]
      /\ \A i \in Ids : Monitor(i) \in Wrote(s) => \A b \in Blocks : db[Result(i, b)] = d[Result(i, b)]
  BY <1>1, OpenFacts, Unchanged DEF SnapshotValid
<1>7. M = MonitorsOf(db, c)
  <2>1. MonitorsOf(db, c) \subseteq M
    BY <1>2, <1>3, <1>6 DEF SnapshotValid
  <2>2. \A i \in M : db[Monitor(i)] = d[Monitor(i)]
    BY <1>3, <1>6
  <2>3. QED
    BY <1>5, <2>1, <2>2 DEF MonitorsOf
<1>8. NextId(e) = NextId(db)
  BY <1>3, <1>4, KeysAre, KeysDiffer DEF NextId
<1> HIDE DEF c, d, M
<1>9. \A i \in Ids : Monitor(i) \in Wrote(s) <=> i \in M
  BY <1>3, <1>5, KeysDiffer, KeysAre
<1>10. \A i \in Ids, b \in Blocks : Result(i, b) \in Wrote(s) <=> d[Result(i, b)] = c
  BY <1>3, KeysDiffer, KeysAre
<1>11. \A i \in Ids, b \in Blocks : d[Result(i, b)] = c => i \in M
  BY <1>2, <1>5, <1>6 DEF Whole
<1>12. \A x \in Chains : Chain(x) \in Wrote(s) <=> x = c
  BY <1>3, KeysDiffer, KeysAre
<1>13. ASSUME NEW i \in Ids, NEW b \in Blocks
       PROVE  e[Result(i, b)] = IF i \in M THEN None ELSE db[Result(i, b)]
  <2>1. CASE i \in M
    <3>1. db[Result(i, b)] = d[Result(i, b)] /\ (d[Result(i, b)] = None \/ d[Result(i, b)] = c)
      BY <1>5, <1>6, <1>9, <2>1 DEF Whole
    <3>2. QED
      BY <1>3, <1>4, <1>10, <2>1, <3>1, KeysAre
  <2>2. CASE i \notin M
    BY <1>4, <1>10, <1>11, <2>2, KeysAre
  <2>3. QED
    BY <2>1, <2>2
<1>14. Deletes(db, e, {c}, M)
  <2>1. \A x \in Chains : e[Chain(x)] = IF x \in {c} THEN None ELSE db[Chain(x)]
    BY <1>3, <1>4, <1>12, KeysAre
  <2>2. \A i \in Ids : e[Monitor(i)] = IF i \in M THEN None ELSE db[Monitor(i)]
    BY <1>3, <1>4, <1>9, KeysAre
  <2>3. QED
    BY <1>13, <2>1, <2>2 DEF Deletes
<1>15. db[Chain(c)] # None
  BY <1>3, <1>6
<1>16. QED
  BY <1>7, <1>8, <1>9, <1>10, <1>11, <1>14, <1>15 DEF c

LEMMA CommitDeletesMonitor ==
    ASSUME IInv, adapter = "mongodb", NEW s \in Sessions, pc[s] = "commit",
           call[s].op = "delete_monitor", NEW e, e = Over(db, own[s])
    PROVE  /\ \A i \in call[s].ids : db[Monitor(i)] # None
           /\ Deletes(db, e, {}, call[s].ids)
           /\ NextId(e) = NextId(db)
           /\ \A i \in Ids, b \in Blocks : Result(i, b) \in Wrote(s) => Monitor(i) \in Wrote(s)
<1> DEFINE M == call[s].ids
           d == snapshot[s]
<1>1. Open(s)
  BY DEF Open
<1>2. DeleteMonitorWrites(s, M, "commit", d) /\ M \subseteq Ids
  BY <1>1, OpenFacts DEF WritesOfCall, ValidCall, Job
<1>3. /\ Wrote(s) = {Monitor(i) : i \in M} \cup {k \in ResultKeys : k[2] \in M /\ d[k] # None}
      /\ \A k \in Wrote(s) : own[s][k] = None
      /\ \A i \in M : d[Monitor(i)] # None
  BY <1>2 DEF DeleteMonitorWrites
<1>4. \A k \in Keys : e[k] = IF k \in Wrote(s) THEN own[s][k] ELSE db[k]
  BY <1>1, OpenFacts, OverRows DEF Wrote
<1>5. /\ \A k \in Wrote(s) : db[k] = d[k]
      /\ \A i \in Ids : Monitor(i) \in Wrote(s) => \A b \in Blocks : db[Result(i, b)] = d[Result(i, b)]
  BY <1>1, Unchanged
<1> HIDE DEF d, M
<1>6. \A k \in Wrote(s) : k \in ResultKeys \/ \E i \in M : k = Monitor(i)
  BY <1>3
<1>7. NextId(e) = NextId(db)
  <2>1. Counter \notin Wrote(s)
    BY <1>6, KeysAre, KeysDiffer
  <2>2. QED
    BY <1>4, <2>1, KeysAre DEF NextId
<1>8. \A i \in Ids : Monitor(i) \in Wrote(s) <=> i \in M
  <2>1. \A i \in M : Monitor(i) \in Wrote(s)
    BY <1>3
  <2>2. QED
    BY <1>6, <2>1, KeysDiffer, KeysAre
<1>9. ASSUME NEW i \in Ids, NEW b \in Blocks
      PROVE  Result(i, b) \in Wrote(s) <=> i \in M /\ d[Result(i, b)] # None
  <2>1. Result(i, b) \in ResultKeys /\ Result(i, b)[2] = i /\ \A x : Result(i, b) # Monitor(x)
    BY KeysDiffer, KeysAre
  <2>2. QED
    BY <1>3, <2>1
<1>10. \A x \in Chains : Chain(x) \notin Wrote(s)
  BY <1>6, KeysDiffer, KeysAre
<1>11. \A k \in Wrote(s) : own[s][k] = None
  BY <1>3
<1>12. \A i \in Ids, b \in Blocks : e[Result(i, b)] = IF i \in M THEN None ELSE db[Result(i, b)]
  BY <1>4, <1>5, <1>8, <1>9, <1>11, KeysAre
<1>13. Deletes(db, e, {}, M)
  BY <1>4, <1>8, <1>10, <1>11, <1>12, KeysAre DEF Deletes
<1>14. \A i \in M : db[Monitor(i)] # None
  BY <1>2, <1>3, <1>5, <1>8
<1>15. QED
  BY <1>2, <1>7, <1>8, <1>9, <1>13, <1>14 DEF M

LEMMA CommitMoves ==
    ASSUME IInv, adapter = "mongodb", NEW s \in Sessions, pc[s] = "commit",
           call[s].op = "commit_block", NEW e, e = Over(db, own[s])
    PROVE  /\ Moves(db, e, call[s].chain, call[s].ids, call[s].decoded, call[s].block)
           /\ NextId(e) = NextId(db)
           /\ \A i \in Ids, b \in Blocks : Result(i, b) \in Wrote(s) => Monitor(i) \in Wrote(s)
<1> DEFINE c == call[s].chain
           S == call[s].ids
           D == call[s].decoded
           b == call[s].block
           d == snapshot[s]
<1>1. Open(s)
  BY DEF Open
<1>2. CommitBlockWrites(s, call[s], "commit", d) /\ S \subseteq Ids /\ D \subseteq S /\ b \in Blocks
  BY <1>1, OpenFacts DEF WritesOfCall, ValidCall, Job
<1>3. /\ Wrote(s) = {Monitor(i) : i \in S} \cup {Result(i, b) : i \in D}
      /\ S \subseteq MonitorsOf(d, c)
      /\ \A i \in S : own[s][Monitor(i)] = [d[Monitor(i)] EXCEPT !.cursor = b]
      /\ \A i \in D : own[s][Result(i, b)] = c /\ d[Result(i, b)] = None
  BY <1>2 DEF CommitBlockWrites
<1>4. \A k \in Keys : e[k] = IF k \in Wrote(s) THEN own[s][k] ELSE db[k]
  BY <1>1, OpenFacts, OverRows DEF Wrote
<1>5. \A k \in Wrote(s) : db[k] = d[k]
  BY <1>1, Unchanged
<1>6. NextId(e) = NextId(db)
  BY <1>3, <1>4, KeysAre, KeysDiffer DEF NextId
<1> HIDE DEF c, S, D, b, d
<1>7. \A i \in Ids : Monitor(i) \in Wrote(s) <=> i \in S
  BY <1>2, <1>3, KeysDiffer, KeysAre
<1>8. \A i \in Ids, y \in Blocks : Result(i, y) \in Wrote(s) <=> i \in D /\ y = b
  BY <1>2, <1>3, KeysDiffer, KeysAre
<1>9. \A x \in Chains : Chain(x) \notin Wrote(s)
  BY <1>3, KeysDiffer, KeysAre
<1>10. \A i \in S : db[Monitor(i)] = d[Monitor(i)]
  BY <1>3, <1>5
<1>11. S \subseteq MonitorsOf(db, c)
  BY <1>2, <1>3, <1>10 DEF MonitorsOf
<1>12. \A i \in D : db[Result(i, b)] = None
  BY <1>3, <1>5
<1>13. \A i \in Ids : e[Monitor(i)] = IF i \in S THEN [db[Monitor(i)] EXCEPT !.cursor = b] ELSE db[Monitor(i)]
  BY <1>3, <1>4, <1>7, <1>10, KeysAre
<1>14. \A i \in Ids, y \in Blocks : e[Result(i, y)] = IF i \in D /\ y = b THEN c ELSE db[Result(i, y)]
  BY <1>3, <1>4, <1>8, KeysAre
<1>15. \A x \in Chains : e[Chain(x)] = db[Chain(x)]
  BY <1>4, <1>9, KeysAre
<1>16. Moves(db, e, c, S, D, b)
  BY <1>2, <1>11, <1>12, <1>13, <1>14, <1>15 DEF Moves
<1>17. QED
  BY <1>2, <1>6, <1>7, <1>8, <1>16 DEF c, S, D, b

LEMMA CommitFacts ==
    ASSUME IInv, adapter = "mongodb", NEW s \in Sessions, pc[s] = "commit",
           NEW e, e = Over(db, own[s])
    PROVE  /\ DatabaseOK(e) /\ Effect(call[s], db, e) /\ Whole(e)
           /\ \A c \in Chains : Chain(c) \in Wrote(s) \/ MonitorsOf(e, c) \subseteq MonitorsOf(db, c)
           /\ \A i \in Ids, b \in Blocks : Result(i, b) \in Wrote(s) => Monitor(i) \in Wrote(s)
           /\ NextId(e) = IF call[s].op = "create_monitor" THEN NextId(db) + 1 ELSE NextId(db)
           /\ \A i \in Ids : e[Monitor(i)] # None => i < NextId(e)
<1>1. Open(s)
  BY DEF Open
<1>2. /\ DatabaseOK(e) /\ DatabaseOK(db) /\ Whole(db) /\ Below
      /\ ValidCall(call[s]) /\ call[s].op # "none" /\ NextId(db) \in Nat
  BY <1>1, OpenFacts, OverRows, MongoFacts, DatabaseRows DEF NoOrphans
<1>3. call[s].op \in {"create_monitor", "delete_chain", "delete_monitor", "commit_block"}
  BY <1>2 DEF ValidCall, Job
<1>4. CASE call[s].op = "create_monitor"
  <2>1. /\ NextId(db) \in Ids /\ Creates(db, e, NextId(db), call[s].chain)
        /\ NextId(e) = NextId(db) + 1 /\ Chain(call[s].chain) \in Wrote(s)
        /\ \A i \in Ids, b \in Blocks : Result(i, b) \notin Wrote(s)
    BY <1>4, CommitCreates
  <2>2. Effect(call[s], db, e)
    BY <1>4, <2>1 DEF Effect
  <2>3. /\ Whole(e)
        /\ \A c \in Chains : Chain(c) \in Wrote(s) \/ MonitorsOf(e, c) \subseteq MonitorsOf(db, c)
    BY <1>2, <2>1, <2>2, EffectWhole
  <2>4. \A i \in Ids : e[Monitor(i)] # None => i = NextId(db) \/ db[Monitor(i)] # None
    BY <2>1 DEF Creates
  <2>5. \A i \in Ids : e[Monitor(i)] # None => i < NextId(e)
    BY <1>2, <2>1, <2>4 DEF Below, Ids
  <2>6. QED
    BY <1>2, <1>4, <2>1, <2>2, <2>3, <2>5
<1>5. CASE call[s].op # "create_monitor"
  <2>1. /\ NextId(e) = NextId(db)
        /\ \A i \in Ids, b \in Blocks : Result(i, b) \in Wrote(s) => Monitor(i) \in Wrote(s)
    BY <1>3, <1>5, CommitDeletesChain, CommitDeletesMonitor, CommitMoves
  <2>2. Effect(call[s], db, e)
    <3>1. CASE call[s].op = "delete_chain"
      BY <3>1, CommitDeletesChain DEF Effect
    <3>2. CASE call[s].op = "delete_monitor"
      BY <3>2, CommitDeletesMonitor DEF Effect
    <3>3. CASE call[s].op = "commit_block"
      BY <3>3, CommitMoves DEF Effect
    <3>4. QED
      BY <1>3, <1>5, <3>1, <3>2, <3>3
  <2>3. /\ Whole(e)
        /\ \A c \in Chains : MonitorsOf(e, c) \subseteq MonitorsOf(db, c)
    BY <1>2, <1>5, <2>2, EffectWhole
  <2>4. ASSUME NEW i \in Ids, e[Monitor(i)] # None PROVE db[Monitor(i)] # None
    <3>1. e[Monitor(i)].chain \in Chains /\ i \in MonitorsOf(e, e[Monitor(i)].chain)
      BY <1>2, <2>4, DatabaseRows DEF MonitorsOf
    <3>2. QED
      BY <2>3, <3>1 DEF MonitorsOf
  <2>5. \A i \in Ids : e[Monitor(i)] # None => i < NextId(e)
    BY <1>2, <2>1, <2>4 DEF Below
  <2>6. QED
    BY <1>2, <1>5, <2>1, <2>2, <2>3, <2>5
<1>6. QED
  BY <1>4, <1>5

-----------------------------------------------------------------------------
(* Other sessions.                                                         *)

SameMongo(o) == /\ pc'[o] = pc[o] /\ call'[o] = call[o] /\ own'[o] = own[o]
                /\ snapshot'[o] = snapshot[o] /\ locks'[o] = locks[o] /\ todo'[o] = todo[o]

LEMMA WritesFrame ==
    ASSUME NEW o \in Sessions, SameMongo(o), WritesOfCall(o) PROVE WritesOfCall(o)'
BY DEF SameMongo, WritesOfCall, CreateWrites, DeleteChainWrites, DeleteMonitorWrites,
       CommitBlockWrites, Wrote

\* A step that changes nothing for o.
LEMMA MongoFrame ==
    ASSUME NEW o \in Sessions, MongoOf(o), SameMongo(o), stale'[o] = stale[o], UNCHANGED <<adapter, db>>
    PROVE  MongoOf(o)'
<1>1. Open(o)' <=> Open(o)
  BY DEF Open, SameMongo
<1>2. SnapshotValid(o) => SnapshotValid(o)'
  BY DEF SnapshotValid, SameMongo, Whole, Wrote
<1>3. QED
  BY <1>1, <1>2, WritesFrame DEF MongoOf, SameMongo

\* A step that replaces the rows K of the database, which o has not written.
LEMMA MongoOutdated ==
    ASSUME NEW o \in Sessions, MongoOf(o), SameMongo(o), UNCHANGED adapter, DatabaseOK(db),
           NEW K \in SUBSET Keys, stale'[o] = Outdated(K)[o],
           stale[o] \subseteq Keys, Wrote(o) \cap K = {},
           \A k \in Keys \ K : db'[k] = db[k],
           \A c \in Chains : Chain(c) \in K \/ MonitorsOf(db', c) \subseteq MonitorsOf(db, c),
           \A i \in Ids, b \in Blocks : Result(i, b) \in K => Monitor(i) \in K,
           DatabaseOK(db'), NextId(db) <= NextId(db'),
           snapshot[o] # <<>> => DatabaseOK(snapshot[o])
    PROVE  MongoOf(o)'
<1>1. Open(o)' <=> Open(o)
  BY DEF Open, SameMongo
<1>2. stale'[o] = IF snapshot[o] = <<>> THEN {} ELSE stale[o] \cup K
  BY DEF Outdated
<1>3. ASSUME ~ Open(o) PROVE MongoOf(o)'
  BY <1>1, <1>2, <1>3 DEF MongoOf, SameMongo
<1>4. ASSUME Open(o) PROVE MongoOf(o)'
  <2>1. SnapshotValid(o) /\ WritesOfCall(o)
    BY <1>4 DEF MongoOf
  <2>2. stale'[o] = stale[o] \cup K /\ snapshot'[o] = snapshot[o] /\ Wrote(o)' = Wrote(o)
    BY <1>2, <2>1 DEF SnapshotValid, SameMongo, Wrote
  <2>3. Whole(snapshot[o])' /\ snapshot'[o] # <<>>
    BY <2>1, <2>2 DEF SnapshotValid, Whole
  <2>4. \A k \in Keys : k \in stale'[o] \/ db'[k] = snapshot'[o][k]
    BY <2>1, <2>2 DEF SnapshotValid
  <2>5. Wrote(o)' \cap stale'[o] = {}
    BY <2>1, <2>2 DEF SnapshotValid
  <2>6. \A c \in Chains : Chain(c) \in stale'[o] \/ MonitorsOf(db', c) \subseteq MonitorsOf(snapshot'[o], c)
    BY <2>1, <2>2 DEF SnapshotValid
  <2>7. \A i \in Ids, b \in Blocks : Result(i, b) \in stale'[o] => Monitor(i) \in stale'[o]
    BY <2>1, <2>2 DEF SnapshotValid
  <2>8. NextId(snapshot[o])' <= NextId(db)'
    <3>1. NextId(snapshot[o]) \in Nat /\ NextId(db) \in Nat /\ NextId(db') \in Nat
      BY <2>1, DatabaseRows DEF SnapshotValid
    <3>2. NextId(snapshot'[o]) <= NextId(db')
      BY <2>1, <2>2, <3>1 DEF SnapshotValid
    <3>3. QED
      BY <3>2
  <2>9. SnapshotValid(o)'
    BY <2>3, <2>4, <2>5, <2>6, <2>7, <2>8 DEF SnapshotValid
  <2>10. QED
    BY <1>1, <1>4, <2>1, <2>9, WritesFrame DEF MongoOf, SameMongo
<1>5. QED
  BY <1>3, <1>4

-----------------------------------------------------------------------------
(* Steps that leave the database alone.                                    *)

\* The transaction of s is gone, or it had none.
LEMMA EndedStep ==
    ASSUME IInv, adapter = "mongodb", NEW s \in Sessions, UNCHANGED <<adapter, db, postgres>>,
           DOMAIN own' = Sessions, own'[s] = <<>>, DOMAIN snapshot' = Sessions, snapshot'[s] = <<>>,
           stale' \in [Sessions -> SUBSET Keys], stale'[s] = {}, pc'[s] \notin Requests \cup {"commit"},
           \A o \in Sessions \ {s} : /\ own'[o] = own[o] /\ snapshot'[o] = snapshot[o]
                                     /\ stale'[o] = stale[o]
                                     /\ pc'[o] = pc[o] /\ call'[o] = call[o],
           Control', Supply'
    PROVE  IInv'
<1>1. \A o \in Sessions \ {s} : SameMongo(o)
  BY DEF SameMongo, postgres
<1>2. \A o \in Sessions \ {s} : MongoOf(o)'
  BY <1>1, MongoFacts, MongoFrame
<1>3. MongoOf(s)'
  BY MongoFacts DEF MongoOf, Open, postgres
<1>4. Disjoint'
  <2>1. Wrote(s)' = {} /\ \A o \in Sessions \ {s} : Wrote(o)' = Wrote(o)
    BY NoRows DEF Wrote
  <2>2. QED
    BY <2>1, MongoFacts DEF Disjoint
<1>5. Data'
  BY MongoFacts, NoRows DEF Data, postgres
<1>6. Below' /\ NoOrphans'
  BY MongoFacts DEF Below, NoOrphans, Whole
<1>7. QED
  BY <1>2, <1>3, <1>4, <1>5, <1>6, MongoStep

LEMMA EndedEffect ==
    ASSUME IInv, adapter = "mongodb", NEW s \in Sessions, Ended(s), Forgotten(s)
    PROVE  /\ DOMAIN own' = Sessions /\ own'[s] = <<>>
           /\ DOMAIN snapshot' = Sessions /\ snapshot'[s] = <<>>
           /\ stale' \in [Sessions -> SUBSET Keys] /\ stale'[s] = {}
           /\ \A o \in Sessions \ {s} : /\ own'[o] = own[o] /\ snapshot'[o] = snapshot[o]
                                        /\ stale'[o] = stale[o]
BY MongoFacts DEF Ended, Forgotten, Data

\* The transaction is given up and begun again.
LEMMA RestartInv ==
    ASSUME IInv, adapter = "mongodb", NEW s \in Sessions, pc[s] \in Requests \cup {"start", "commit"},
           Aborted(s, "start"), Forgotten(s), UNCHANGED <<adapter, db, applied, postgres>>
    PROVE  IInv'
<1>1. Control /\ pc[s] \in Underway
  BY MongoFacts DEF Underway
<1>2. pc' = [pc EXCEPT ![s] = "start"] /\ Ended(s) /\ UNCHANGED <<call, answer>>
  BY DEF Aborted
<1>3. "start" \notin Requests \cup {"commit"} \cup Holding /\ "start" \in Underway
  BY DEF Requests, Holding, Underway
<1>4. Control'
  BY <1>1, <1>2, <1>3, AtWork, GotoControl
<1>5. /\ pc'[s] = "start" /\ call'[s] = call[s]
      /\ \A o \in Sessions \ {s} : pc'[o] = pc[o] /\ call'[o] = call[o]
  BY <1>1, <1>2 DEF Control, ControlTypes
<1>6. Supply'
  <2>1. pc[s] \notin {"committed", "create_table", "pg_commit"}
    BY DEF Requests
  <2>2. Ungiven' \subseteq Ungiven
    BY <1>1, <1>4, <1>5, <2>1, UngivenFrame
  <2>3. QED
    BY <2>2, MongoFacts, SupplyKept DEF Data
<1>7. QED
  BY <1>2, <1>3, <1>4, <1>5, <1>6, EndedEffect, EndedStep

\* The call ends without an effect.
LEMMA GivenUpInv ==
    ASSUME IInv, adapter = "mongodb", NEW s \in Sessions, NEW what \in {"refused", "error"},
           Returned(s, "idle", what), Ended(s), Forgotten(s),
           UNCHANGED <<adapter, db, applied, postgres>>, what = "refused" => applied[s] = 0
    PROVE  IInv'
<1>1. Control /\ applied \in [Sessions -> 0 .. 1]
  BY MongoFacts DEF Control, ControlTypes
<1>2. Control'
  BY <1>1, ReturnControl
<1>3. /\ pc'[s] = "idle" /\ call'[s] = NoCall
      /\ \A o \in Sessions \ {s} : pc'[o] = pc[o] /\ call'[o] = call[o]
  BY <1>1 DEF Control, ControlTypes, Returned
<1>4. "idle" \notin Requests \cup {"commit"}
  BY DEF Requests
<1>5. Ungiven' \subseteq Ungiven
  BY <1>1, <1>2, <1>3, NoCallValid, UngivenFrame
<1>6. Supply'
  BY <1>5, MongoFacts, SupplyKept DEF Data
<1>7. QED
  BY <1>2, <1>3, <1>4, <1>6, EndedEffect, EndedStep

LEMMA StartTransactionInv ==
    ASSUME IInv, NEW s \in Sessions, StartTransaction(s)
    PROVE  IInv'
<1> DEFINE at == FirstRequest(call[s].op)
<1>1. /\ adapter = "mongodb" /\ pc[s] = "start" /\ pc' = [pc EXCEPT ![s] = at]
      /\ snapshot' = [snapshot EXCEPT ![s] = db]
      /\ UNCHANGED <<adapter, db, call, own, applied, answer, stale, postgres>>
  BY DEF StartTransaction
<1>2. Control /\ pc[s] \in Underway
  BY <1>1, MongoFacts DEF Underway
<1>3. /\ at \in {"owner", "chain", "monitor", "cursors"} /\ call[s].op \in OpsAt(at)
      /\ at = "owner" <=> call[s].op = "create_monitor"
      /\ at = "chain" <=> call[s].op = "delete_chain"
      /\ at = "monitor" <=> call[s].op = "delete_monitor"
      /\ at = "cursors" <=> call[s].op = "commit_block"
  <2>1. call[s].op \in {"create_monitor", "delete_chain", "delete_monitor", "commit_block"}
    BY <1>2, AtWork
  <2>2. QED
    BY <2>1 DEF FirstRequest, OpsAt
<1> HIDE DEF at
<1>4. at \in Requests /\ at \in Underway /\ at \notin Holding
  BY <1>3 DEF Requests, Underway, Holding
<1>5. Control'
  BY <1>1, <1>2, <1>3, <1>4, GotoControl
<1>6. /\ pc'[s] = at /\ call'[s] = call[s] /\ own'[s] = own[s] /\ stale'[s] = stale[s]
      /\ snapshot'[s] = db /\ DOMAIN snapshot' = Sessions
      /\ \A o \in Sessions \ {s} : pc'[o] = pc[o] /\ call'[o] = call[o] /\ snapshot'[o] = snapshot[o]
  BY <1>1, <1>2, MongoFacts DEF Control, ControlTypes, Data
<1>7. \A o \in Sessions \ {s} : MongoOf(o)'
  <2>1. \A o \in Sessions \ {s} : SameMongo(o)
    BY <1>1, <1>6 DEF SameMongo, postgres
  <2>2. QED
    BY <1>1, <2>1, MongoFacts, MongoFrame
<1>8. ~ Open(s) /\ own[s] = <<>> /\ stale[s] = {} /\ locks[s] = {} /\ todo[s] = {} /\ Wrote(s) = {}
      /\ DatabaseOK(db)
  <2>1. ~ Open(s)
    BY <1>1 DEF Open, Requests
  <2>2. QED
    BY <1>1, <2>1, MongoFacts, NoRows DEF MongoOf, Wrote, Data
<1>9. SnapshotValid(s)'
  <2>1. Whole(db)' /\ db # <<>> /\ NextId(db)' <= NextId(db)'
    BY <1>1, <1>8, MongoFacts, DatabaseRows DEF NoOrphans, Whole
  <2>2. Wrote(s)' = {}
    BY <1>6, <1>8 DEF Wrote
  <2>3. QED
    BY <1>1, <1>6, <1>8, <2>1, <2>2 DEF SnapshotValid
<1>10. WritesOfCall(s)'
  <2>1. Wrote(s)' = {}
    BY <1>6, <1>8 DEF Wrote
  <2>2. QED
    BY <1>3, <1>6, <2>1 DEF WritesOfCall, CreateWrites, DeleteChainWrites, DeleteMonitorWrites,
                             CommitBlockWrites
<1>11. MongoOf(s)'
  BY <1>1, <1>4, <1>6, <1>8, <1>9, <1>10 DEF MongoOf, Open, postgres
<1>12. Disjoint'
  BY <1>1, MongoFacts DEF Disjoint, Wrote
<1>13. Data'
  BY <1>1, <1>6, MongoFacts DEF Data, postgres
<1>14. Supply'
  <2>1. Ungiven' \subseteq Ungiven
    BY <1>1, <1>2, <1>5, <1>6, UngivenFrame
  <2>2. QED
    BY <1>1, <2>1, MongoFacts, SupplyKept DEF Data
<1>15. Below' /\ NoOrphans'
  BY <1>1, MongoFacts DEF Below, NoOrphans, Whole
<1>16. \A o \in Sessions : MongoOf(o)'
  BY <1>7, <1>11
<1>17. QED
  BY <1>1, <1>5, <1>12, <1>13, <1>14, <1>15, <1>16, MongoStep

LEMMA CommitAgainInv ==
    ASSUME IInv, NEW s \in Sessions, CommitAgain(s)
    PROVE  IInv'
<1>1. /\ pc[s] = "committed" /\ Returned(s, "idle", "ok")
      /\ UNCHANGED <<adapter, db, own, applied, mongo, postgres>>
  BY DEF CommitAgain
<1>2. Control /\ applied \in [Sessions -> 0 .. 1] /\ adapter = "mongodb" /\ applied[s] = 1
  BY <1>1, InvariantParts DEF Control, ControlTypes, ControlOf
<1>3. Control'
  BY <1>1, <1>2, ReturnControl
<1>4. /\ pc'[s] = "idle" /\ call'[s] = NoCall
      /\ \A o \in Sessions \ {s} : pc'[o] = pc[o] /\ call'[o] = call[o]
  BY <1>1, <1>2 DEF Control, ControlTypes, Returned
<1>5. "idle" \notin Requests \cup {"commit"} /\ ~ Open(s)
  BY <1>1 DEF Requests, Open
<1>6. Supply'
  <2>1. Ungiven' \subseteq Ungiven
    BY <1>2, <1>3, <1>4, NoCallValid, UngivenFrame
  <2>2. QED
    BY <1>1, <1>2, <2>1, MongoFacts, SupplyKept DEF Data
<1>7. /\ own[s] = <<>> /\ snapshot[s] = <<>> /\ stale[s] = {}
      /\ DOMAIN own = Sessions /\ DOMAIN snapshot = Sessions /\ stale \in [Sessions -> SUBSET Keys]
  BY <1>2, <1>5, MongoFacts DEF MongoOf, Data
<1>8. QED
  BY <1>1, <1>2, <1>3, <1>4, <1>5, <1>6, <1>7, EndedStep DEF mongo

-----------------------------------------------------------------------------
(* Commits.                                                                *)

LEMMA InstallStep ==
    ASSUME IInv, adapter = "mongodb", NEW s \in Sessions, pc[s] = "commit", Install(s), Ended(s),
           UNCHANGED <<adapter, postgres>>, Control', pc'[s] \notin Requests \cup {"commit"},
           \A o \in Sessions \ {s} : pc'[o] = pc[o] /\ call'[o] = call[o],
           call'[s].op # "create_monitor" \/ (call'[s] = call[s] /\ pc'[s] = "committed")
    PROVE  IInv'
<1>1. /\ db' = Over(db, own[s]) /\ stale' = [Outdated(Wrote(s)) EXCEPT ![s] = {}]
      /\ own' = [own EXCEPT ![s] = <<>>] /\ snapshot' = [snapshot EXCEPT ![s] = <<>>]
  BY DEF Install, Ended
<1>2. /\ DatabaseOK(db') /\ Whole(db')
      /\ \A c \in Chains : Chain(c) \in Wrote(s) \/ MonitorsOf(db', c) \subseteq MonitorsOf(db, c)
      /\ \A i \in Ids, b \in Blocks : Result(i, b) \in Wrote(s) => Monitor(i) \in Wrote(s)
      /\ NextId(db') = IF call[s].op = "create_monitor" THEN NextId(db) + 1 ELSE NextId(db)
      /\ \A i \in Ids : db'[Monitor(i)] # None => i < NextId(db')
  BY <1>1, CommitFacts
<1>3. Control /\ Data /\ Supply /\ Disjoint /\ Open(s) /\ \A o \in Sessions : MongoOf(o)
  BY MongoFacts DEF Open
<1>4. /\ own'[s] = <<>> /\ snapshot'[s] = <<>> /\ stale'[s] = {}
      /\ DOMAIN own' = Sessions /\ DOMAIN snapshot' = Sessions /\ DOMAIN stale' = Sessions
      /\ \A o \in Sessions \ {s} : /\ own'[o] = own[o] /\ snapshot'[o] = snapshot[o]
                                   /\ stale'[o] = Outdated(Wrote(s))[o]
  BY <1>1, <1>3 DEF Data, Outdated
<1>5. Wrote(s) \subseteq Keys /\ \A k \in Keys \ Wrote(s) : db'[k] = db[k]
  BY <1>1, <1>3, OpenFacts, OverRows DEF Wrote
<1>6. stale' \in [Sessions -> SUBSET Keys]
  <2>1. \A o \in Sessions : stale'[o] \subseteq Keys
    BY <1>3, <1>4, <1>5 DEF Outdated, Data
  <2>2. stale' = [o \in Sessions |-> stale'[o]]
    BY <1>1 DEF Outdated
  <2>3. QED
    BY <2>1, <2>2
<1>7. ASSUME NEW o \in Sessions \ {s} PROVE MongoOf(o)'
  <2>1. SameMongo(o) /\ MongoOf(o)
    BY <1>3, <1>4 DEF SameMongo, postgres
  <2>2. Wrote(o) \cap Wrote(s) = {} /\ stale[o] \subseteq Keys /\ DatabaseOK(db)
        /\ (snapshot[o] # <<>> => DatabaseOK(snapshot[o]))
    BY <1>3 DEF Disjoint, Data
  <2>3. NextId(db) <= NextId(db')
    BY <1>2, <2>2, DatabaseRows
  <2>4. QED
    BY <1>2, <1>4, <1>5, <2>1, <2>2, <2>3, MongoOutdated
<1>8. MongoOf(s)'
  BY <1>3, <1>4 DEF MongoOf, Open, postgres
<1>9. Disjoint'
  <2>1. Wrote(s)' = {} /\ \A o \in Sessions \ {s} : Wrote(o)' = Wrote(o)
    BY <1>4, NoRows DEF Wrote
  <2>2. QED
    BY <1>3, <2>1 DEF Disjoint
<1>10. Data'
  BY <1>2, <1>3, <1>4, <1>6, NoRows DEF Data, postgres
<1>11. Supply'
  <2>1. CASE call[s].op = "create_monitor"
    <3>1. s \in Ungiven /\ Ungiven' \subseteq Ungiven \ {s}
      BY <2>1 DEF Ungiven
    <3>2. NextId(db)' = NextId(db) + 1
      BY <1>2, <2>1
    <3>3. QED
      BY <1>3, <3>1, <3>2, SupplyTaken DEF Data
  <2>2. CASE call[s].op # "create_monitor"
    <3>1. Ungiven' \subseteq Ungiven
      BY <1>3, <2>2, UngivenFrame
    <3>2. NextId(db)' = NextId(db)
      BY <1>2, <2>2
    <3>3. QED
      BY <1>3, <3>1, <3>2, SupplyKept DEF Data
  <2>3. QED
    BY <2>1, <2>2
<1>12. Below' /\ NoOrphans'
  <2>1. Whole(db)'
    BY <1>2 DEF Whole
  <2>2. QED
    BY <1>2, <2>1 DEF Below, NoOrphans
<1>13. \A o \in Sessions : MongoOf(o)'
  BY <1>7, <1>8
<1>14. QED
  BY <1>9, <1>10, <1>11, <1>12, <1>13, MongoStep

LEMMA InstallControl ==
    ASSUME IInv, adapter = "mongodb", NEW s \in Sessions, pc[s] = "commit", Install(s)
    PROVE  applied' = [applied EXCEPT ![s] = 1]
<1>1. applied[s] = 0
  BY MongoFacts, AtWork DEF Underway
<1>2. QED
  BY <1>1 DEF Install

\* The commit is answered, or takes effect without an answer that reaches the caller.
LEMMA CommitReturnInv ==
    ASSUME IInv, NEW s \in Sessions, pc[s] = "commit", NEW what \in {"ok", "error"},
           Install(s), Returned(s, "idle", what), Ended(s), UNCHANGED <<adapter, postgres>>
    PROVE  IInv'
<1>1. Control /\ adapter = "mongodb"
  BY InvariantParts DEF Control, ControlOf
<1>2. Control'
  BY <1>1, InstallControl, ReturnControl
<1>3. /\ pc'[s] = "idle" /\ call'[s] = NoCall
      /\ \A o \in Sessions \ {s} : pc'[o] = pc[o] /\ call'[o] = call[o]
  BY <1>1 DEF Control, ControlTypes, Returned
<1>4. "idle" \notin Requests \cup {"commit"} /\ NoCall.op # "create_monitor"
  BY NoCallValid DEF Requests
<1>5. QED
  BY <1>1, <1>2, <1>3, <1>4, InstallStep

LEMMA CommitUnknownInv ==
    ASSUME IInv, NEW s \in Sessions, CommitUnknown(s)
    PROVE  IInv'
<1>1. /\ pc[s] = "commit" /\ Install(s) /\ Ended(s)
      /\ pc' = [pc EXCEPT ![s] = "committed"] /\ UNCHANGED <<adapter, call, answer, postgres>>
  BY DEF CommitUnknown, Aborted
<1>2. Control /\ adapter = "mongodb" /\ ControlOf(s)
  BY <1>1, InvariantParts DEF Control, ControlOf
<1>3. applied' = [applied EXCEPT ![s] = 1]
  BY <1>1, <1>2, InstallControl
<1>4. /\ pc'[s] = "committed" /\ call'[s] = call[s] /\ applied'[s] = 1 /\ answer'[s] = answer[s]
      /\ \A o \in Sessions \ {s} : SameControl(o)
      /\ ControlTypes'
  BY <1>1, <1>2, <1>3 DEF Control, ControlTypes, SameControl, Places
<1>5. "committed" \notin Requests \cup {"commit"} \cup Holding /\ OpsAt("committed") = OpsAt("commit")
  BY DEF Requests, Holding, OpsAt
<1>6. ControlOf(s)'
  BY <1>1, <1>2, <1>4, <1>5 DEF ControlOf
<1>7. Control'
  BY <1>1, <1>2, <1>4, <1>6, ControlStep
<1>8. QED
  BY <1>1, <1>2, <1>4, <1>5, <1>7, InstallStep DEF SameControl

-----------------------------------------------------------------------------
(* Requests.                                                               *)

RequestKeys(s) == Touched(pc[s], View(s), call[s])

LEMMA RequestFacts ==
    ASSUME IInv, NEW s \in Sessions, Request(s)
    PROVE  /\ adapter = "mongodb" /\ Open(s) /\ pc[s] \in Requests
           /\ ~ Refused(pc[s], View(s), call[s])
           /\ UNCHANGED <<adapter, db, call, applied, answer, mongo, postgres>>
           /\ pc' = [pc EXCEPT ![s] = NextRequest(pc[s])] /\ pc'[s] = NextRequest(pc[s])
           /\ \A o \in Sessions \ {s} : pc'[o] = pc[o] /\ own'[o] = own[o]
           /\ DOMAIN own' = Sessions
           /\ Wrote(s)' = Wrote(s) \cup RequestKeys(s)
           /\ \A k \in RequestKeys(s) : own'[s][k] = Value(pc[s], View(s), call[s], k)
           /\ \A k \in Wrote(s) \ RequestKeys(s) : own'[s][k] = own[s][k]
           /\ \A k \in RequestKeys(s) : k \notin stale[s]
           /\ \A k \in RequestKeys(s), o \in Sessions \ {s} : k \notin Wrote(o)
<1> DEFINE K == RequestKeys(s)
           v == [k \in K |-> Value(pc[s], View(s), call[s], k)]
<1>1. /\ pc[s] \in Requests /\ ~ Conflict(s) /\ ~ Refused(pc[s], View(s), call[s])
      /\ own' = [own EXCEPT ![s] = With(own[s], v)]
      /\ pc' = [pc EXCEPT ![s] = NextRequest(pc[s])]
      /\ UNCHANGED <<adapter, db, call, applied, answer, mongo, postgres>>
  BY DEF Request, RequestKeys
<1>2. adapter = "mongodb" /\ Open(s) /\ pc \in [Sessions -> Places] /\ DOMAIN own = Sessions
  BY <1>1, InvariantParts DEF Control, ControlOf, ControlTypes, Open, Data
<1>3. /\ \A k \in K : k \notin stale[s]
      /\ \A k \in K, o \in Sessions \ {s} : k \notin Wrote(o)
  BY <1>1 DEF Conflict, RequestKeys
<1>4. own'[s] = With(own[s], v) /\ \A o \in Sessions \ {s} : own'[o] = own[o]
  BY <1>1, <1>2
<1>5. /\ DOMAIN own'[s] = DOMAIN own[s] \cup K
      /\ \A k \in DOMAIN own[s] \cup K : own'[s][k] = IF k \in K THEN v[k] ELSE own[s][k]
  BY <1>4 DEF With
<1>6. \A k \in K : own'[s][k] = Value(pc[s], View(s), call[s], k)
  BY <1>5
<1>7. QED
  BY <1>1, <1>2, <1>3, <1>4, <1>5, <1>6 DEF Wrote

LEMMA RequestCreates ==
    ASSUME IInv, NEW s \in Sessions, Request(s), call[s].op = "create_monitor"
    PROVE  /\ RequestKeys(s) \subseteq Keys
           /\ \A k \in RequestKeys(s) : own'[s][k] \in RowType(k)
           /\ CreateWrites(s, call[s].chain, pc[s], snapshot[s])'
<1> DEFINE c == call[s].chain
           d == snapshot[s]
           K == RequestKeys(s)
           V == View(s)
           n == NextId(d)
<1>1. adapter = "mongodb" /\ Open(s)
  BY RequestFacts
<1>2. /\ pc[s] \in {"owner", "counter", "insert"} /\ c \in Chains
      /\ CreateWrites(s, c, pc[s], d) /\ DatabaseOK(V) /\ DatabaseOK(d)
      /\ \A k \in Keys : V[k] = IF k \in Wrote(s) THEN own[s][k] ELSE d[k]
  <2>1. call[s].op \in OpsAt(pc[s]) /\ pc[s] \in Requests
    BY <1>1, OpenFacts, RequestFacts
  <2>2. pc[s] \in {"owner", "counter", "insert"}
    BY <2>1 DEF OpsAt, Requests
  <2>3. QED
    BY <1>1, <2>2, OpenFacts DEF WritesOfCall, ValidCall
<1>3. /\ ~ Refused(pc[s], V, call[s]) /\ UNCHANGED <<call, snapshot>>
      /\ Wrote(s)' = Wrote(s) \cup K /\ pc'[s] = NextRequest(pc[s])
      /\ \A k \in K : own'[s][k] = Value(pc[s], V, call[s], k)
      /\ \A k \in Wrote(s) \ K : own'[s][k] = own[s][k]
  BY RequestFacts DEF mongo
<1>4. n \in Ids
  <2>1. s \in Ungiven
    BY <1>2 DEF Ungiven
  <2>2. NextId(db) \in Ids /\ n <= NextId(db) /\ n \in 1 .. MaxId + 1
    BY <1>1, <1>2, <2>1, MongoFacts, OpenFacts, IdToTake, DatabaseRows DEF SnapshotValid
  <2>3. QED
    BY <2>2 DEF Ids
<1>5. K = Touched(pc[s], V, call[s])
  BY DEF RequestKeys
<1> HIDE DEF K, V, d, n
<1>6. CASE pc[s] = "owner"
  <2>1. Wrote(s) = {}
    BY <1>2, <1>6 DEF CreateWrites
  <2>2. V[Chain(c)] # None /\ V[Chain(c)] = d[Chain(c)]
    BY <1>2, <1>3, <1>6, <2>1, KeysAre DEF Refused
  <2>3. K = {Chain(c)}
    BY <1>5, <1>6, <2>2 DEF Touched, Existing
  <2>4. own'[s][Chain(c)] = d[Chain(c)]
    BY <1>3, <1>6, <2>2, <2>3 DEF Value
  <2>5. d[Chain(c)] \in RowType(Chain(c))
    BY <1>2, KeysAre DEF DatabaseOK, RowsOK
  <2>6. CreateWrites(s, c, "counter", d)'
    BY <1>3, <2>1, <2>2, <2>3, <2>4 DEF CreateWrites, c, d
  <2>7. QED
    BY <1>2, <1>3, <1>6, <2>3, <2>4, <2>5, <2>6, KeysAre DEF NextRequest, K, c, d
<1>7. CASE pc[s] = "counter"
  <2>1. Wrote(s) = {Chain(c)} /\ d[Chain(c)] # None /\ own[s][Chain(c)] = d[Chain(c)]
    BY <1>2, <1>7 DEF CreateWrites
  <2>2. K = {Counter}
    BY <1>5, <1>7 DEF Touched
  <2>3. V[Counter] = d[Counter]
    BY <1>2, <2>1, KeysAre, KeysDiffer
  <2>4. own'[s][Counter] = n
    BY <1>3, <1>7, <2>2, <2>3 DEF Value, NextId, n
  <2>5. own'[s][Chain(c)] = d[Chain(c)]
    BY <1>3, <2>1, <2>2, KeysDiffer
  <2>6. CreateWrites(s, c, "insert", d)'
    BY <1>3, <2>1, <2>2, <2>4, <2>5 DEF CreateWrites, c, d, n
  <2>7. QED
    BY <1>3, <1>4, <1>7, <2>2, <2>4, <2>6, KeysAre, RowTypes DEF NextRequest, K, c, d
<1>8. CASE pc[s] = "insert"
  <2>1. /\ Wrote(s) = {Chain(c), Counter} /\ d[Chain(c)] # None /\ own[s][Chain(c)] = d[Chain(c)]
        /\ own[s][Counter] = n
    BY <1>2, <1>8 DEF CreateWrites, n
  <2>2. V[Counter] = n /\ V[Monitor(n)] = d[Monitor(n)]
    BY <1>2, <1>4, <2>1, KeysAre, KeysDiffer
  <2>3. K = {Monitor(n)}
    BY <1>5, <1>8, <2>2 DEF Touched
  <2>4. own'[s][Monitor(n)] = NewMonitor(c)
    BY <1>3, <1>8, <2>3 DEF Value, c
  <2>5. d[Monitor(n)] = None
    BY <1>3, <1>5, <1>8, <2>2, <2>3 DEF Refused
  <2>6. own'[s][Chain(c)] = d[Chain(c)] /\ own'[s][Counter] = n
    BY <1>3, <2>1, <2>3, KeysDiffer
  <2>7. CreateWrites(s, c, "commit", d)'
    BY <1>3, <1>4, <2>1, <2>3, <2>4, <2>5, <2>6 DEF CreateWrites, c, d, n
  <2>8. QED
    BY <1>2, <1>3, <1>4, <1>8, <2>3, <2>4, <2>7, KeysAre, RowTypes, NewMonitorType DEF NextRequest, K, c, d
<1>9. QED
  BY <1>2, <1>6, <1>7, <1>8

LEMMA RequestDeletesChain ==
    ASSUME IInv, NEW s \in Sessions, Request(s), call[s].op = "delete_chain"
    PROVE  /\ RequestKeys(s) \subseteq Keys
           /\ \A k \in RequestKeys(s) : own'[s][k] \in RowType(k)
           /\ DeleteChainWrites(s, call[s].chain, pc[s], snapshot[s])'
<1> DEFINE c == call[s].chain
           d == snapshot[s]
           K == RequestKeys(s)
           V == View(s)
<1>1. adapter = "mongodb" /\ Open(s)
  BY RequestFacts
<1>2. /\ pc[s] \in {"chain", "monitors", "sweep"} /\ c \in Chains /\ call[s].ids = {}
      /\ DeleteChainWrites(s, c, pc[s], d) /\ DatabaseOK(V) /\ DatabaseOK(d)
      /\ \A k \in Keys : V[k] = IF k \in Wrote(s) THEN own[s][k] ELSE d[k]
  <2>1. call[s].op \in OpsAt(pc[s]) /\ pc[s] \in Requests
    BY <1>1, OpenFacts, RequestFacts
  <2>2. pc[s] \in {"chain", "monitors", "sweep"}
    BY <2>1 DEF OpsAt, Requests
  <2>3. QED
    BY <1>1, <2>2, OpenFacts DEF WritesOfCall, ValidCall
<1>3. /\ ~ Refused(pc[s], V, call[s]) /\ UNCHANGED <<call, snapshot>>
      /\ Wrote(s)' = Wrote(s) \cup K /\ pc'[s] = NextRequest(pc[s])
      /\ \A k \in K : own'[s][k] = Value(pc[s], V, call[s], k)
      /\ \A k \in Wrote(s) \ K : own'[s][k] = own[s][k]
  BY RequestFacts DEF mongo
<1>4. K = Touched(pc[s], V, call[s])
  BY DEF RequestKeys
<1> HIDE DEF K, V, d
<1>5. \A k \in K : own'[s][k] = None
  BY <1>2, <1>3 DEF Value
<1>6. \A k \in Wrote(s)' : own'[s][k] = None
  BY <1>2, <1>3, <1>5 DEF DeleteChainWrites
<1>7. CASE pc[s] = "chain"
  <2>1. Wrote(s) = {}
    BY <1>2, <1>7 DEF DeleteChainWrites
  <2>2. V[Chain(c)] # None /\ V[Chain(c)] = d[Chain(c)]
    BY <1>2, <1>3, <1>7, <2>1, KeysAre DEF Refused
  <2>3. K = {Chain(c)}
    BY <1>4, <1>7, <2>2 DEF Touched, Existing
  <2>4. DeleteChainWrites(s, c, "monitors", d)'
    BY <1>3, <1>6, <2>1, <2>2, <2>3 DEF DeleteChainWrites, c, d
  <2>5. QED
    BY <1>2, <1>3, <1>5, <1>7, <2>3, <2>4, KeysAre, RowTypes DEF NextRequest, K, c, d
<1>8. CASE pc[s] = "monitors"
  <2>1. Wrote(s) = {Chain(c)} /\ d[Chain(c)] # None
    BY <1>2, <1>8 DEF DeleteChainWrites
  <2>2. \A i \in Ids : V[Monitor(i)] = d[Monitor(i)]
    BY <1>2, <2>1, KeysAre, KeysDiffer
  <2>3. MonitorsOf(V, c) = MonitorsOf(d, c) /\ MonitorsOf(d, c) \subseteq Ids
    BY <2>2 DEF MonitorsOf
  <2>4. K = {Monitor(i) : i \in MonitorsOf(d, c)}
    BY <1>4, <1>8, <2>3 DEF Touched, c
  <2>5. DeleteChainWrites(s, c, "sweep", d)'
    BY <1>3, <1>6, <2>1, <2>4 DEF DeleteChainWrites, c, d
  <2>6. K \subseteq Keys
    BY <2>3, <2>4, KeysAre
  <2>7. QED
    BY <1>3, <1>5, <1>8, <2>5, <2>6, RowTypes DEF NextRequest, K, c, d
<1>9. CASE pc[s] = "sweep"
  <2>1. /\ Wrote(s) = {Chain(c)} \cup {Monitor(i) : i \in MonitorsOf(d, c)} /\ d[Chain(c)] # None
    BY <1>2, <1>9 DEF DeleteChainWrites
  <2>2. \A k \in ResultKeys : k \notin Wrote(s)
    BY <2>1, KeysAre, KeysDiffer
  <2>3. \A k \in ResultKeys : V[k] = d[k]
    BY <1>2, <2>2, KeysAre
  <2>4. K = {k \in ResultKeys : d[k] = c}
    <3>1. K = Existing(V, {k \in ResultKeys : V[k] = c})
      BY <1>2, <1>4, <1>9 DEF Touched, c
    <3>2. QED
      BY <1>2, <2>3, <3>1 DEF Existing
  <2>5. Wrote(s)' = {Chain(c)} \cup {Monitor(i) : i \in MonitorsOf(d, c)} \cup {k \in ResultKeys : d[k] = c}
    BY <1>3, <2>1, <2>4
  <2>6. DeleteChainWrites(s, c, "commit", d)'
    BY <1>3, <1>6, <2>1, <2>5 DEF DeleteChainWrites, c, d
  <2>7. K \subseteq Keys
    BY <2>4, KeysAre
  <2>8. QED
    BY <1>3, <1>5, <1>9, <2>6, <2>7, RowTypes DEF NextRequest, K, c, d
<1>10. QED
  BY <1>2, <1>7, <1>8, <1>9

LEMMA RequestDeletesMonitor ==
    ASSUME IInv, NEW s \in Sessions, Request(s), call[s].op = "delete_monitor"
    PROVE  /\ RequestKeys(s) \subseteq Keys
           /\ \A k \in RequestKeys(s) : own'[s][k] \in RowType(k)
           /\ DeleteMonitorWrites(s, call[s].ids, pc[s], snapshot[s])'
<1> DEFINE M == call[s].ids
           d == snapshot[s]
           K == RequestKeys(s)
           V == View(s)
<1>1. adapter = "mongodb" /\ Open(s)
  BY RequestFacts
<1>2. /\ pc[s] \in {"monitor", "sweep"} /\ M \subseteq Ids /\ M # {}
      /\ DeleteMonitorWrites(s, M, pc[s], d) /\ DatabaseOK(V) /\ DatabaseOK(d)
      /\ \A k \in Keys : V[k] = IF k \in Wrote(s) THEN own[s][k] ELSE d[k]
  <2>1. call[s].op \in OpsAt(pc[s]) /\ pc[s] \in Requests
    BY <1>1, OpenFacts, RequestFacts
  <2>2. pc[s] \in {"monitor", "sweep"}
    BY <2>1 DEF OpsAt, Requests
  <2>3. QED
    BY <1>1, <2>2, OpenFacts DEF WritesOfCall, ValidCall
<1>3. /\ ~ Refused(pc[s], V, call[s]) /\ UNCHANGED <<call, snapshot>>
      /\ Wrote(s)' = Wrote(s) \cup K /\ pc'[s] = NextRequest(pc[s])
      /\ \A k \in K : own'[s][k] = Value(pc[s], V, call[s], k)
      /\ \A k \in Wrote(s) \ K : own'[s][k] = own[s][k]
  BY RequestFacts DEF mongo
<1>4. K = Touched(pc[s], V, call[s])
  BY DEF RequestKeys
<1> HIDE DEF K, V, d
<1>5. \A k \in K : own'[s][k] = None
  BY <1>2, <1>3 DEF Value
<1>6. \A k \in Wrote(s)' : own'[s][k] = None
  BY <1>2, <1>3, <1>5 DEF DeleteMonitorWrites
<1>7. CASE pc[s] = "monitor"
  <2>1. Wrote(s) = {}
    BY <1>2, <1>7 DEF DeleteMonitorWrites
  <2>2. \A i \in M : V[Monitor(i)] # None /\ V[Monitor(i)] = d[Monitor(i)]
    BY <1>2, <1>3, <1>7, <2>1, KeysAre DEF Refused
  <2>3. K = {Monitor(i) : i \in M}
    BY <1>4, <1>7, <2>2 DEF Touched, Existing
  <2>4. DeleteMonitorWrites(s, M, "sweep", d)'
    BY <1>3, <1>6, <2>1, <2>2, <2>3 DEF DeleteMonitorWrites, M, d
  <2>5. K \subseteq Keys
    BY <1>2, <2>3, KeysAre
  <2>6. QED
    BY <1>3, <1>5, <1>7, <2>4, <2>5, RowTypes DEF NextRequest, K, M, d
<1>8. CASE pc[s] = "sweep"
  <2>1. Wrote(s) = {Monitor(i) : i \in M} /\ \A i \in M : d[Monitor(i)] # None
    BY <1>2, <1>8 DEF DeleteMonitorWrites
  <2>2. \A k \in ResultKeys : k \notin Wrote(s)
    BY <2>1, KeysAre, KeysDiffer
  <2>3. \A k \in ResultKeys : V[k] = d[k]
    BY <1>2, <2>2, KeysAre
  <2>4. K = {k \in ResultKeys : k[2] \in M /\ d[k] # None}
    <3>1. K = Existing(V, {k \in ResultKeys : k[2] \in M})
      BY <1>2, <1>4, <1>8 DEF Touched, M
    <3>2. QED
      BY <2>3, <3>1 DEF Existing
  <2>5. Wrote(s)' = {Monitor(i) : i \in M} \cup {k \in ResultKeys : k[2] \in M /\ d[k] # None}
    BY <1>3, <2>1, <2>4
  <2>6. DeleteMonitorWrites(s, M, "commit", d)'
    BY <1>3, <1>6, <2>1, <2>5 DEF DeleteMonitorWrites, M, d
  <2>7. K \subseteq Keys
    BY <2>4, KeysAre
  <2>8. QED
    BY <1>3, <1>5, <1>8, <2>6, <2>7, RowTypes DEF NextRequest, K, M, d
<1>9. QED
  BY <1>2, <1>7, <1>8

LEMMA RequestMoves ==
    ASSUME IInv, NEW s \in Sessions, Request(s), call[s].op = "commit_block"
    PROVE  /\ RequestKeys(s) \subseteq Keys
           /\ \A k \in RequestKeys(s) : own'[s][k] \in RowType(k)
           /\ CommitBlockWrites(s, call[s], pc[s], snapshot[s])'
<1> DEFINE c == call[s].chain
           S == call[s].ids
           D == call[s].decoded
           b == call[s].block
           d == snapshot[s]
           K == RequestKeys(s)
           V == View(s)
<1>1. adapter = "mongodb" /\ Open(s)
  BY RequestFacts
<1>2. /\ pc[s] \in {"cursors", "results"} /\ c \in Chains /\ S \subseteq Ids /\ D \subseteq S /\ b \in Blocks
      /\ CommitBlockWrites(s, call[s], pc[s], d) /\ DatabaseOK(V) /\ DatabaseOK(d)
      /\ \A k \in Keys : V[k] = IF k \in Wrote(s) THEN own[s][k] ELSE d[k]
  <2>1. call[s].op \in OpsAt(pc[s]) /\ pc[s] \in Requests
    BY <1>1, OpenFacts, RequestFacts
  <2>2. pc[s] \in {"cursors", "results"}
    BY <2>1 DEF OpsAt, Requests
  <2>3. QED
    BY <1>1, <2>2, OpenFacts DEF WritesOfCall, ValidCall, Job
<1>3. /\ ~ Refused(pc[s], V, call[s]) /\ UNCHANGED <<call, snapshot>>
      /\ Wrote(s)' = Wrote(s) \cup K /\ pc'[s] = NextRequest(pc[s])
      /\ \A k \in K : own'[s][k] = Value(pc[s], V, call[s], k)
      /\ \A k \in Wrote(s) \ K : own'[s][k] = own[s][k]
  BY RequestFacts DEF mongo
<1>4. K = Touched(pc[s], V, call[s])
  BY DEF RequestKeys
<1> HIDE DEF K, V, d
<1>5. CASE pc[s] = "cursors"
  <2>1. Wrote(s) = {}
    BY <1>2, <1>5 DEF CommitBlockWrites
  <2>2. \A i \in Ids : V[Monitor(i)] = d[Monitor(i)]
    BY <1>2, <2>1, KeysAre
  <2>3. MonitorsOf(V, c) = MonitorsOf(d, c)
    BY <2>2 DEF MonitorsOf
  <2>4. S \subseteq MonitorsOf(d, c)
    BY <1>3, <1>5, <2>3 DEF Refused
  <2>5. K = {Monitor(i) : i \in S}
    <3>1. S \cap MonitorsOf(V, c) = S
      BY <2>3, <2>4
    <3>2. QED
      BY <1>4, <1>5, <3>1 DEF Touched
  <2>6. \A i \in S : own'[s][Monitor(i)] = [d[Monitor(i)] EXCEPT !.cursor = b]
    BY <1>2, <1>3, <1>5, <2>2, <2>5 DEF Value
  <2>7. \A i \in S : own'[s][Monitor(i)] \in RowType(Monitor(i))
    <3>1. ASSUME NEW i \in S PROVE [d[Monitor(i)] EXCEPT !.cursor = b] \in MonitorRow
      <4>1. d[Monitor(i)] \in MonitorRow
        BY <1>2, <2>4, DatabaseRows DEF MonitorsOf
      <4>2. QED
        BY <1>2, <4>1, MovedType
    <3>2. \A i \in S : own'[s][Monitor(i)] \in MonitorRow
      BY <2>6, <3>1
    <3>3. QED
      BY <3>2, RowTypes
  <2>8. CommitBlockWrites(s, call[s], "results", d)'
    BY <1>3, <2>1, <2>4, <2>5, <2>6 DEF CommitBlockWrites, c, d
  <2>9. K \subseteq Keys /\ \A k \in K : own'[s][k] \in RowType(k)
    BY <1>2, <2>5, <2>7, KeysAre
  <2>10. QED
    BY <1>3, <1>5, <2>8, <2>9 DEF NextRequest, K, d
<1>6. CASE pc[s] = "results"
  <2>1. /\ Wrote(s) = {Monitor(i) : i \in S} /\ S \subseteq MonitorsOf(d, c)
        /\ \A i \in S : own[s][Monitor(i)] = [d[Monitor(i)] EXCEPT !.cursor = b]
    BY <1>2, <1>6 DEF CommitBlockWrites
  <2>2. K = {Result(i, b) : i \in D}
    BY <1>4, <1>6 DEF Touched
  <2>3. \A i \in D : V[Result(i, b)] = None
    BY <1>3, <1>4, <1>6, <2>2 DEF Refused
  <2>4. \A i \in D : d[Result(i, b)] = None
    BY <1>2, <2>1, <2>3, KeysAre, KeysDiffer
  <2>5. \A i \in D : own'[s][Result(i, b)] = c
    BY <1>3, <1>6, <2>2 DEF Value
  <2>6. \A i \in S : own'[s][Monitor(i)] = [d[Monitor(i)] EXCEPT !.cursor = b]
    BY <1>3, <2>1, <2>2, KeysDiffer
  <2>7. CommitBlockWrites(s, call[s], "commit", d)'
    BY <1>3, <2>1, <2>2, <2>4, <2>5, <2>6 DEF CommitBlockWrites, c, d
  <2>8. K \subseteq Keys /\ \A k \in K : own'[s][k] \in RowType(k)
    BY <1>2, <2>2, <2>5, KeysAre, RowTypes
  <2>9. QED
    BY <1>3, <1>6, <2>7, <2>8 DEF NextRequest, K, d
<1>7. QED
  BY <1>2, <1>5, <1>6

LEMMA RequestInv ==
    ASSUME IInv, NEW s \in Sessions, Request(s)
    PROVE  IInv'
<1> DEFINE K == RequestKeys(s)
           at == NextRequest(pc[s])
<1>1. /\ adapter = "mongodb" /\ Open(s) /\ pc[s] \in Requests
      /\ UNCHANGED <<adapter, db, call, applied, answer, mongo, postgres>>
      /\ pc' = [pc EXCEPT ![s] = at] /\ pc'[s] = at
      /\ \A o \in Sessions \ {s} : pc'[o] = pc[o] /\ own'[o] = own[o]
      /\ DOMAIN own' = Sessions
      /\ Wrote(s)' = Wrote(s) \cup K
      /\ \A k \in Wrote(s) \ K : own'[s][k] = own[s][k]
      /\ \A k \in K : k \notin stale[s]
      /\ \A k \in K, o \in Sessions \ {s} : k \notin Wrote(o)
  BY RequestFacts
<1>2. Control /\ Data /\ Supply /\ Disjoint /\ \A o \in Sessions : MongoOf(o)
  BY <1>1, MongoFacts
<1>3. /\ SnapshotValid(s) /\ RowsOK(own[s]) /\ call[s].op \in OpsAt(pc[s])
      /\ call[s].op \in {"create_monitor", "delete_chain", "delete_monitor", "commit_block"}
  BY <1>1, <1>2, OpenFacts, AtWork DEF Underway
<1>4. /\ K \subseteq Keys /\ \A k \in K : own'[s][k] \in RowType(k)
      /\ WritesOfCall(s)'
  <2>1. call'[s] = call[s]
    BY <1>1
  <2>2. CASE call[s].op = "create_monitor"
    BY <2>1, <2>2, RequestCreates DEF WritesOfCall
  <2>3. CASE call[s].op = "delete_chain"
    BY <2>1, <2>3, RequestDeletesChain DEF WritesOfCall
  <2>4. CASE call[s].op = "delete_monitor"
    BY <2>1, <2>4, RequestDeletesMonitor DEF WritesOfCall
  <2>5. CASE call[s].op = "commit_block"
    BY <2>1, <2>5, RequestMoves DEF WritesOfCall
  <2>6. QED
    BY <1>3, <2>2, <2>3, <2>4, <2>5
<1>5. at \in Requests \cup {"commit"} /\ call[s].op \in OpsAt(at)
  BY <1>1, <1>3 DEF NextRequest, OpsAt, Requests
<1> HIDE DEF K, at
<1>6. /\ at \in Underway /\ pc[s] \in Underway /\ at \notin Holding
      /\ pc[s] \notin {"committed", "create_table", "pg_commit"}
  BY <1>1, <1>5 DEF Underway, Requests, Holding
<1>7. Control'
  BY <1>1, <1>2, <1>5, <1>6, GotoControl
<1>8. \A o \in Sessions \ {s} : MongoOf(o)'
  <2>1. \A o \in Sessions \ {s} : SameMongo(o) /\ stale'[o] = stale[o]
    BY <1>1 DEF SameMongo, mongo, postgres
  <2>2. QED
    BY <1>1, <1>2, <2>1, MongoFrame
<1>9. SnapshotValid(s)'
  <2>1. snapshot' = snapshot /\ stale' = stale /\ db' = db /\ adapter' = adapter
    BY <1>1 DEF mongo
  <2>2. Wrote(s)' \cap stale'[s] = {}
    BY <1>1, <1>3, <2>1 DEF SnapshotValid
  <2>3. Whole(snapshot[s])'
    BY <1>3, <2>1 DEF SnapshotValid, Whole
  <2>4. QED
    BY <1>3, <2>1, <2>2, <2>3 DEF SnapshotValid
<1>10. MongoOf(s)'
  BY <1>1, <1>2, <1>4, <1>5, <1>9 DEF MongoOf, Open, postgres
<1>11. Disjoint'
  <2>1. \A o \in Sessions \ {s} : Wrote(o)' = Wrote(o)
    BY <1>1 DEF Wrote
  <2>2. ASSUME NEW o \in Sessions \ {s} PROVE Wrote(s)' \cap Wrote(o)' = {}
    BY <1>1, <1>2, <2>1 DEF Disjoint
  <2>3. ASSUME NEW o \in Sessions, NEW p \in Sessions, o # p PROVE Wrote(o)' \cap Wrote(p)' = {}
    BY <1>2, <2>1, <2>2, <2>3 DEF Disjoint
  <2>4. QED
    BY <2>3 DEF Disjoint
<1>12. Data'
  <2>1. RowsOK(own'[s])
    BY <1>1, <1>3, <1>4 DEF RowsOK, Wrote
  <2>2. \A o \in Sessions : RowsOK(own[o])'
    BY <1>1, <1>2, <2>1 DEF Data, RowsOK
  <2>3. QED
    BY <1>1, <1>2, <2>2 DEF Data, mongo, postgres
<1>13. Supply'
  <2>1. Ungiven' \subseteq Ungiven
    BY <1>1, <1>2, <1>6, <1>7, UngivenFrame
  <2>2. QED
    BY <1>1, <1>2, <2>1, SupplyKept DEF Data
<1>14. Below' /\ NoOrphans'
  BY <1>1, MongoFacts DEF Below, NoOrphans, Whole
<1>15. \A o \in Sessions : MongoOf(o)'
  BY <1>8, <1>10
<1>16. QED
  BY <1>1, <1>7, <1>11, <1>12, <1>13, <1>14, <1>15, MongoStep

LEMMA RequestConflictsInv ==
    ASSUME IInv, NEW s \in Sessions, RequestConflicts(s)
    PROVE  IInv'
<1>1. adapter = "mongodb"
  BY InvariantParts DEF Control, ControlOf, RequestConflicts
<1>2. QED
  BY <1>1, RestartInv DEF RequestConflicts

LEMMA RequestRefusedInv ==
    ASSUME IInv, NEW s \in Sessions, RequestRefused(s)
    PROVE  IInv'
<1>1. adapter = "mongodb" /\ Control /\ pc[s] \in Underway
  BY InvariantParts DEF Control, ControlOf, RequestRefused, Underway
<1>2. applied[s] = 0
  BY <1>1, AtWork
<1>3. QED
  BY <1>1, <1>2, GivenUpInv DEF RequestRefused

LEMMA RequestFailsInv ==
    ASSUME IInv, NEW s \in Sessions, RequestFails(s)
    PROVE  IInv'
<1>1. CASE Aborted(s, "start")
  BY <1>1, RestartInv DEF RequestFails
<1>2. CASE Returned(s, "idle", "error") /\ Ended(s)
  BY <1>2, GivenUpInv DEF RequestFails
<1>3. QED
  BY <1>1, <1>2 DEF RequestFails

LEMMA CommitInv ==
    ASSUME IInv, NEW s \in Sessions, Commit(s)
    PROVE  IInv'
BY CommitReturnInv DEF Commit

LEMMA CommitTransientInv ==
    ASSUME IInv, NEW s \in Sessions, CommitTransient(s)
    PROVE  IInv'
<1>1. adapter = "mongodb"
  BY InvariantParts DEF Control, ControlOf, CommitTransient
<1>2. QED
  BY <1>1, RestartInv DEF CommitTransient

LEMMA CommitFailsInv ==
    ASSUME IInv, NEW s \in Sessions, CommitFails(s)
    PROVE  IInv'
<1>1. adapter = "mongodb"
  BY InvariantParts DEF Control, ControlOf, CommitFails
<1>2. CASE Forgotten(s) /\ UNCHANGED <<db, applied>>
  BY <1>1, <1>2, GivenUpInv DEF CommitFails
<1>3. CASE pc[s] = "commit" /\ Install(s)
  BY <1>3, CommitReturnInv DEF CommitFails
<1>4. QED
  BY <1>2, <1>3 DEF CommitFails

-----------------------------------------------------------------------------
(* The steps together.                                                     *)

LEMMA MongoCallInv ==
    ASSUME IInv, adapter = "mongodb", NEW s \in Sessions, Call(s)
    PROVE  IInv'
<1>1. Control /\ Data /\ Supply /\ MongoOf(s)
  BY MongoFacts
<1>2. PICK j : Begin(s, j) /\ Control' /\ Supply'
  BY <1>1, CallFacts DEF Data
<1>3. /\ pc[s] = "idle" /\ pc' = [pc EXCEPT ![s] = "start"] /\ call' = [call EXCEPT ![s] = j]
      /\ UNCHANGED <<adapter, db, own, mongo, postgres>>
  BY <1>2 DEF Begin
<1>4. ~ Open(s) /\ "start" \notin Requests \cup {"commit"}
  BY <1>3 DEF Open, Requests
<1>5. own[s] = <<>> /\ snapshot[s] = <<>> /\ stale[s] = {}
  BY <1>1, <1>4 DEF MongoOf
<1>6. /\ pc'[s] = "start" /\ \A o \in Sessions \ {s} : pc'[o] = pc[o] /\ call'[o] = call[o]
      /\ DOMAIN own = Sessions /\ DOMAIN snapshot = Sessions /\ stale \in [Sessions -> SUBSET Keys]
  BY <1>1, <1>3 DEF Control, ControlTypes, Data
<1>7. QED
  BY <1>2, <1>3, <1>4, <1>5, <1>6, EndedStep DEF mongo

LEMMA MongoSingleInv ==
    ASSUME IInv, adapter = "mongodb", Single
    PROVE  IInv'
<1>1. Control /\ Data /\ Supply /\ Below /\ NoOrphans /\ Disjoint /\ \A s \in Sessions : MongoOf(s)
  BY MongoFacts
<1>2. PICK k \in Keys : \E v : SingleWrite(k, v)
  BY <1>1, SingleFacts DEF Data
<1>3. /\ \A s \in Sessions : k \notin Wrote(s)
      /\ stale' = Outdated({k}) /\ UNCHANGED <<adapter, session, snapshot, postgres>>
      /\ DatabaseOK(db') /\ NoOrphans' /\ Below' /\ NextId(db') = NextId(db)
      /\ \A x \in Keys \ {k} : db'[x] = db[x]
      /\ \A i \in Ids : db'[Monitor(i)] # None <=> db[Monitor(i)] # None
      /\ \A i \in Ids : db[Monitor(i)] # None => db'[Monitor(i)].chain = db[Monitor(i)].chain
      /\ \A i \in Ids, b \in Blocks : k # Result(i, b)
  BY <1>2 DEF SingleWrite, WriteOne
<1>4. \A c \in Chains : MonitorsOf(db', c) \subseteq MonitorsOf(db, c)
  BY <1>3 DEF MonitorsOf
<1>5. ASSUME NEW o \in Sessions PROVE MongoOf(o)'
  <2>1. SameMongo(o) /\ stale'[o] = Outdated({k})[o]
    BY <1>3 DEF SameMongo, session, postgres
  <2>2. /\ stale[o] \subseteq Keys /\ DatabaseOK(db) /\ NextId(db) \in Nat
        /\ (snapshot[o] # <<>> => DatabaseOK(snapshot[o]))
    BY <1>1, DatabaseRows DEF Data
  <2>3. Wrote(o) \cap {k} = {} /\ NextId(db) <= NextId(db') /\ {k} \in SUBSET Keys
    BY <1>3, <2>2
  <2>4. QED
    BY <1>1, <1>3, <1>4, <2>1, <2>2, <2>3, MongoOutdated
<1>6. Disjoint'
  BY <1>1, <1>3 DEF Disjoint, Wrote, session
<1>7. Control'
  BY <1>1, <1>3, ControlFrame
<1>8. Data'
  <2>1. stale' \in [Sessions -> SUBSET Keys]
    BY <1>1, <1>3 DEF Data, Outdated
  <2>2. QED
    BY <1>1, <1>3, <2>1 DEF Data, session, postgres
<1>9. Supply'
  <2>1. Ungiven' \subseteq Ungiven
    BY <1>3 DEF Ungiven, session
  <2>2. QED
    BY <1>1, <1>3, <2>1, SupplyKept DEF Data
<1>10. QED
  BY <1>3, <1>5, <1>6, <1>7, <1>8, <1>9, MongoStep

LEMMA MongoStutter == ASSUME IInv, adapter = "mongodb", UNCHANGED vars PROVE IInv'
<1>1. UNCHANGED <<adapter, db, pc, call, own, applied, answer, snapshot, stale, locks, todo>>
  BY DEF vars, session, mongo, postgres
<1>2. Control'
  BY <1>1, MongoFacts, ControlFrame DEF session
<1>3. \A s \in Sessions : MongoOf(s)'
  BY <1>1, MongoFacts, MongoFrame DEF SameMongo
<1>4. Data' /\ Disjoint' /\ Below' /\ NoOrphans'
  BY <1>1, MongoFacts DEF Data, Disjoint, Wrote, Below, NoOrphans, Whole
<1>5. Supply'
  BY <1>1, MongoFacts DEF Supply, Ungiven
<1>6. QED
  BY <1>1, <1>2, <1>3, <1>4, <1>5, MongoStep

LEMMA MongoNext ==
    ASSUME IInv, adapter = "mongodb", [Next]_vars
    PROVE  IInv'
<1>1. ASSUME NEW s \in Sessions, RunMongo(s) \/ FailMongo(s) PROVE IInv'
  BY <1>1, StartTransactionInv, RequestInv, RequestConflictsInv, RequestRefusedInv, RequestFailsInv,
     CommitInv, CommitUnknownInv, CommitAgainInv, CommitTransientInv, CommitFailsInv
     DEF RunMongo, FailMongo
<1>2. ASSUME NEW s \in Sessions, RunPostgres(s) \/ FailPostgres(s) PROVE IInv'
  <2>1. pc[s] \notin Holding \cup {"rollback", "in_doubt"}
    BY InvariantParts DEF Control, ControlOf
  <2>2. QED
    BY <1>2, <2>1 DEF RunPostgres, FailPostgres, Holding, At, BeginTransaction, ShareChain,
       InsertMonitor, CreateTable, LockChain, FindRows, LockRow, DropTables, DeleteRows, MoveCursors,
       InsertResults, StatementRefused, PgCommit, Rollback, LateCommit, StatementFails, PgCommitFails
<1>3. QED
  BY <1>1, <1>2, MongoCallInv, MongoSingleInv, MongoStutter DEF Next, Run, Failure

-----------------------------------------------------------------------------
(* The steps of the PostgreSQL adapter.                                    *)

\* The sessions of PostgreSQL, one by one.
PgOf(s) ==
    /\ snapshot[s] = <<>> /\ stale[s] = {}
    /\ pc[s] \in {"idle", "start"} => own[s] = <<>> /\ locks[s] = {} /\ todo[s] = {}
    /\ pc[s] \in Holding => Holds(s, call[s], pc[s])
    /\ pc[s] = "in_doubt" => \E j \in Job : /\ ValidCall(j) /\ j.op # "none"
                                            /\ Holds(s, j, "pg_commit")

Exclusive ==
    \A s, o \in Sessions : s # o =>
       \A l \in locks[s], m \in locks[o] : l[1] = m[1] => l[2] = "share" /\ m[2] = "share"

LockedStay == \A s \in Sessions : \A l \in locks[s] : db[l[1]] # None

WrittenValid(s) ==
    \A i \in Ids : Monitor(i) \in Wrote(s) =>
       /\ i < NextId(db)
       /\ i \in Rows(s) \/ db[Monitor(i)] = None
       /\ \A o \in Sessions : /\ o # s => Monitor(i) \notin Wrote(o)
                              /\ i \in todo[o] => db[Monitor(i)] # None

TodoBelow == \A s \in Sessions : \A i \in todo[s] : i < NextId(db)

LEMMA LockParts ==
    /\ LocksValid <=> /\ Exclusive /\ LockedStay /\ TodoBelow /\ \A s \in Sessions : WrittenValid(s)
    /\ LocksValid' <=> /\ Exclusive' /\ LockedStay' /\ TodoBelow'
                       /\ \A s \in Sessions : WrittenValid(s)'
<1>1. LocksValid <=> /\ Exclusive /\ LockedStay /\ TodoBelow /\ \A s \in Sessions : WrittenValid(s)
  BY Zenon DEF LocksValid, Exclusive, LockedStay, TodoBelow, WrittenValid
<1>2. LocksValid' <=> /\ Exclusive' /\ LockedStay' /\ TodoBelow'
                      /\ \A s \in Sessions : WrittenValid(s)'
  BY Zenon DEF LocksValid, Exclusive, LockedStay, TodoBelow, WrittenValid
<1>3. QED
  BY <1>1, <1>2

LEMMA PgStep ==
    ASSUME IInv, adapter = "postgres", UNCHANGED adapter, Control', Data', Supply', Below',
           NoOrphans', LocksValid', \A s \in Sessions : PgOf(s)'
    PROVE  IInv'
<1>1. PostgresValid'
  BY DEF PostgresValid, PgOf
<1>2. QED
  BY <1>1, InvariantParts DEF IdsValid, Supply, Below

LEMMA PgFacts ==
    ASSUME IInv, adapter = "postgres"
    PROVE  /\ Control /\ Data /\ Supply /\ Below /\ NoOrphans /\ LocksValid
           /\ \A s \in Sessions : PgOf(s)
<1>1. PostgresValid
  BY InvariantParts
<1>2. \A s \in Sessions : PgOf(s)
  BY <1>1 DEF PostgresValid, PgOf
<1>3. QED
  BY <1>1, <1>2, InvariantParts DEF IdsValid, Supply, Below, PostgresValid

LEMMA RowsAre ==
    ASSUME NEW s \in Sessions
    PROVE  /\ Rows(s) \subseteq Ids
           /\ \A i \in Ids : i \in Rows(s) <=> <<Monitor(i), "update">> \in locks[s]
BY DEF Rows

\* Locked rows are there, and nobody else has locked or written them.
LEMMA LockedRows ==
    ASSUME LocksValid, NEW s \in Sessions
    PROVE  /\ \A i \in Rows(s) : db[Monitor(i)] # None
           /\ \A c : <<Chain(c), "update">> \in locks[s] \/ <<Chain(c), "share">> \in locks[s] =>
                 db[Chain(c)] # None
           /\ \A o \in Sessions \ {s} : /\ Rows(s) \cap Rows(o) = {}
                                        /\ \A i \in Rows(s) : Monitor(i) \notin Wrote(o)
<1>1. \A i \in Rows(s) : db[Monitor(i)] # None
  BY LockParts DEF LockedStay, Rows
<1>2. \A c : <<Chain(c), "update">> \in locks[s] \/ <<Chain(c), "share">> \in locks[s] =>
                 db[Chain(c)] # None
  BY LockParts DEF LockedStay
<1>3. ASSUME NEW o \in Sessions \ {s} PROVE Rows(s) \cap Rows(o) = {}
  BY LockParts DEF Exclusive, Rows
<1>4. ASSUME NEW o \in Sessions \ {s}, NEW i \in Rows(s) PROVE Monitor(i) \notin Wrote(o)
  BY <1>1, <1>3, LockParts, RowsAre DEF WrittenValid
<1>5. QED
  BY <1>1, <1>2, <1>3, <1>4

LEMMA NextRowIs ==
    ASSUME NEW s \in Sessions, todo[s] \subseteq Ids, todo[s] # {}
    PROVE  NextRow(s) \in todo[s]
<1>1. todo[s] \subseteq Nat
  BY DEF Ids
<1>2. PICK x \in todo[s] : \A y \in todo[s] : ~ (<<y, x>> \in OpToRel(<, Nat))
  BY <1>1, NatLessThanWellFounded, WFMin
<1>3. \A y \in todo[s] : ~ (y < x)
  BY <1>1, <1>2 DEF OpToRel
<1>4. \A y \in todo[s] : x <= y
  BY <1>1, <1>3
<1>5. QED
  BY <1>4 DEF NextRow, Min

-----------------------------------------------------------------------------
(* Other sessions.                                                         *)

SamePg(o) == /\ pc'[o] = pc[o] /\ call'[o] = call[o] /\ own'[o] = own[o]
             /\ locks'[o] = locks[o] /\ todo'[o] = todo[o]
             /\ snapshot'[o] = snapshot[o] /\ stale'[o] = stale[o]

\* What the others may not do to the rows a session o relies on.
Respected(o) ==
    /\ \A i \in Rows(o) : /\ db'[Monitor(i)] = db[Monitor(i)]
                          /\ \A b \in Blocks : db'[Result(i, b)] = db[Result(i, b)]
    /\ \A i \in todo[o] : db'[Monitor(i)] # None =>
          db[Monitor(i)] # None /\ db'[Monitor(i)].chain = db[Monitor(i)].chain
    /\ \A c \in Chains : <<Chain(c), "update">> \in locks[o] =>
          MonitorsOf(db', c) \subseteq MonitorsOf(db, c)
    /\ \A i \in Ids : Monitor(i) \in Wrote(o) /\ db[Monitor(i)] = None => db'[Monitor(i)] = None

LEMMA HoldsKept ==
    ASSUME NEW o \in Sessions, own'[o] = own[o], locks'[o] = locks[o], todo'[o] = todo[o],
           Respected(o), NEW j, ValidCall(j), j.op # "none", NEW at,
           Holds(o, j, at)
    PROVE  Holds(o, j, at)'
<1>1. /\ Rows(o)' = Rows(o) /\ Wrote(o)' = Wrote(o) /\ own'[o] = own[o] /\ locks'[o] = locks[o]
      /\ todo'[o] = todo[o]
  BY DEF Rows, Wrote
<1>2. j.chain \in Chains /\ j.ids \subseteq Ids
      /\ (j.op = "commit_block" => j.block \in Blocks /\ j.decoded \subseteq j.ids)
  BY DEF ValidCall, Job
<1>3. \A i \in Rows(o) \cup todo[o] : db'[Monitor(i)] # None => db'[Monitor(i)].chain = j.chain
  BY DEF Holds, Respected
<1>4. CreateHolds(o, j.chain, at) => CreateHolds(o, j.chain, at)'
  BY <1>1 DEF CreateHolds, Respected
<1>5. DeleteHolds(o, j, at) => DeleteHolds(o, j, at)'
  <2> SUFFICES ASSUME DeleteHolds(o, j, at) PROVE DeleteHolds(o, j, at)'
    OBVIOUS
  <2>1. j.op = "delete_chain" /\ at \notin {"lock_chain", "find_rows"} =>
           MonitorsOf(db', j.chain) \subseteq Rows(o) \cup todo[o]
    BY <1>2 DEF DeleteHolds, Respected
  <2>2. TablesOf(Rows(o))' = TablesOf(Rows(o))
    BY <1>1 DEF TablesOf
  <2>3. QED
    BY <1>1, <2>1, <2>2 DEF DeleteHolds
<1>6. j.op = "commit_block" /\ CommitHolds(o, j, at) => CommitHolds(o, j, at)'
  BY <1>1, <1>2 DEF CommitHolds, Respected
<1>7. QED
  BY <1>1, <1>3, <1>4, <1>5, <1>6 DEF Holds

LEMMA HoldingCalls ==
    ASSUME Control, NEW s \in Sessions, pc[s] \in Holding
    PROVE  ValidCall(call[s]) /\ call[s].op # "none" /\ call[s].op \in OpsAt(pc[s])
BY AtWork DEF Underway

LEMMA PgKept ==
    ASSUME Control, NEW o \in Sessions, PgOf(o), SamePg(o), Respected(o)
    PROVE  PgOf(o)'
<1>1. pc'[o] = pc[o] /\ call'[o] = call[o]
  BY DEF SamePg
<1>2. pc[o] \in Holding => Holds(o, call[o], pc[o])'
  <2>1. ASSUME pc[o] \in Holding PROVE Holds(o, call[o], pc[o])'
    <3> DEFINE j == call[o]
               at == pc[o]
    <3>1. ValidCall(j) /\ j.op # "none" /\ Holds(o, j, at) /\ j' = j /\ at' = at
      BY <1>1, <2>1, HoldingCalls DEF PgOf
    <3> HIDE DEF j, at
    <3>2. \A x, y : ValidCall(x) /\ x.op # "none" /\ Holds(o, x, y) => Holds(o, x, y)'
      BY HoldsKept DEF SamePg
    <3>3. QED
      BY <3>1, <3>2 DEF j, at
  <2>2. QED
    BY <2>1
<1>3. pc[o] = "in_doubt" => (\E j \in Job : /\ ValidCall(j) /\ j.op # "none"
                                           /\ Holds(o, j, "pg_commit")')
  BY HoldsKept DEF PgOf, SamePg
<1>4. QED
  BY <1>1, <1>2, <1>3 DEF PgOf, SamePg

\* A step of s that neither removes a row nor makes a monitor.
LEMMA LocksStep ==
    ASSUME LocksValid, NEW s \in Sessions, \A o \in Sessions \ {s} : SamePg(o),
           \A k \in Keys : db[k] # None => db'[k] # None,
           \A i \in Ids : db'[Monitor(i)] = None <=> db[Monitor(i)] = None,
           NextId(db) \in Nat, NextId(db') \in Nat, NextId(db) <= NextId(db'),
           locks \in [Sessions -> SUBSET (Lockable \X {"share", "update"})],
           todo \in [Sessions -> SUBSET Ids],
           todo'[s] \subseteq Ids,
           \A l \in locks'[s] :
              /\ l[1] \in Keys /\ db[l[1]] # None
              /\ \A o \in Sessions \ {s} : \A m \in locks[o] :
                    l[1] = m[1] => l[2] = "share" /\ m[2] = "share",
           \A i \in Ids : Monitor(i) \in Wrote(s)' =>
              /\ i < NextId(db')
              /\ i \in Rows(s)' \/ db[Monitor(i)] = None
              /\ \A o \in Sessions \ {s} : Monitor(i) \notin Wrote(o)
              /\ \A o \in Sessions \ {s} : i \in todo[o] => db[Monitor(i)] # None
              /\ i \in todo'[s] => db[Monitor(i)] # None,
           \A i \in todo'[s] :
              /\ i < NextId(db')
              /\ \A o \in Sessions \ {s} : Monitor(i) \in Wrote(o) => db[Monitor(i)] # None
    PROVE  LocksValid'
<1>1. \A o \in Sessions \ {s} : locks'[o] = locks[o] /\ todo'[o] = todo[o] /\ Wrote(o)' = Wrote(o)
                                /\ Rows(o)' = Rows(o)
  BY DEF SamePg, Wrote, Rows
<1>2. Exclusive /\ LockedStay /\ TodoBelow /\ \A o \in Sessions : WrittenValid(o)
  BY LockParts
<1>3. Exclusive'
  <2>1. ASSUME NEW o \in Sessions, NEW p \in Sessions, o # p, NEW l \in locks'[o], NEW m \in locks'[p],
               l[1] = m[1]
        PROVE  l[2] = "share" /\ m[2] = "share"
    <3>1. CASE o = s
      BY <1>1, <2>1, <3>1
    <3>2. CASE p = s
      BY <1>1, <2>1, <3>2
    <3>3. CASE o # s /\ p # s
      BY <1>1, <1>2, <2>1, <3>3 DEF Exclusive
    <3>4. QED
      BY <3>1, <3>2, <3>3
  <2>2. QED
    BY <2>1 DEF Exclusive
<1>4. LockedStay'
  <2>1. ASSUME NEW o \in Sessions \ {s}, NEW l \in locks[o] PROVE db'[l[1]] # None
    BY <1>2, KeysAre DEF LockedStay
  <2>2. QED
    BY <1>1, <2>1 DEF LockedStay
<1>5. TodoBelow'
  <2>1. ASSUME NEW o \in Sessions \ {s}, NEW i \in todo[o] PROVE i < NextId(db')
    <3>1. i < NextId(db) /\ i \in Nat
      BY <1>2 DEF TodoBelow, Ids
    <3>2. QED
      BY <3>1
  <2>2. QED
    BY <1>1, <2>1 DEF TodoBelow
<1>6. WrittenValid(s)'
  BY <1>1 DEF WrittenValid
<1>7. ASSUME NEW o \in Sessions \ {s} PROVE WrittenValid(o)'
  <2>1. ASSUME NEW i \in Ids, Monitor(i) \in Wrote(o)
        PROVE  /\ i < NextId(db)'
               /\ i \in Rows(o)' \/ db'[Monitor(i)] = None
               /\ \A p \in Sessions : /\ p # o => Monitor(i) \notin Wrote(p)'
                                      /\ i \in todo'[p] => db'[Monitor(i)] # None
    <3>1. /\ i < NextId(db) /\ (i \in Rows(o) \/ db[Monitor(i)] = None)
          /\ \A p \in Sessions : /\ p # o => Monitor(i) \notin Wrote(p)
                                 /\ i \in todo[p] => db[Monitor(i)] # None
      BY <1>2, <2>1 DEF WrittenValid
    <3>2. i < NextId(db')
      BY <3>1 DEF Ids
    <3>3. \A p \in Sessions : /\ p # o => Monitor(i) \notin Wrote(p)'
                              /\ i \in todo'[p] => db'[Monitor(i)] # None
      BY <1>1, <2>1, <3>1
    <3>4. QED
      BY <1>1, <3>1, <3>2, <3>3
  <2>2. QED
    BY <1>1, <2>1 DEF WrittenValid
<1>8. QED
  BY <1>3, <1>4, <1>5, <1>6, <1>7, LockParts

-----------------------------------------------------------------------------
(* Statements.                                                             *)

\* A step of s that leaves the rows alone.
LEMMA StatementStep ==
    ASSUME IInv, adapter = "postgres", NEW s \in Sessions, UNCHANGED <<adapter, db, mongo>>,
           \A o \in Sessions \ {s} : SamePg(o),
           DOMAIN own' = Sessions, RowsOK(own'[s]),
           locks' \in [Sessions -> SUBSET (Lockable \X {"share", "update"})],
           todo' \in [Sessions -> SUBSET Ids],
           Control', LocksValid', Ungiven' \subseteq Ungiven, PgOf(s)'
    PROVE  IInv'
<1>1. Control /\ Data /\ Supply /\ Below /\ NoOrphans /\ \A o \in Sessions : PgOf(o)
  BY PgFacts
<1>2. Data'
  <2>1. \A o \in Sessions : RowsOK(own[o])'
    BY <1>1 DEF Data, SamePg, RowsOK
  <2>2. QED
    BY <1>1, <2>1 DEF Data, mongo
<1>3. \A o \in Sessions \ {s} : PgOf(o)'
  <2>1. \A o \in Sessions \ {s} : Respected(o)
    BY DEF Respected
  <2>2. QED
    BY <1>1, <2>1, PgKept
<1>4. Supply'
  BY <1>1, SupplyKept DEF Data
<1>5. Below' /\ NoOrphans'
  BY <1>1 DEF Below, NoOrphans, Whole
<1>6. \A o \in Sessions : PgOf(o)'
  BY <1>3
<1>7. QED
  BY <1>2, <1>4, <1>5, <1>6, PgStep

\* s holds what it held, and has written monitors only among those it has locked.
LEMMA LocksOwn ==
    ASSUME IInv, adapter = "postgres", NEW s \in Sessions, UNCHANGED <<db, postgres>>,
           \A o \in Sessions \ {s} : SamePg(o),
           \A i \in Ids : Monitor(i) \in Wrote(s)' => Monitor(i) \in Wrote(s) \/ i \in Rows(s)
    PROVE  LocksValid'
<1>1. Data /\ LocksValid /\ Below /\ NextId(db) \in Nat
  BY PgFacts, DatabaseRows DEF Data
<1>2. Rows(s)' = Rows(s) /\ locks' = locks /\ todo' = todo
  BY DEF Rows, postgres
<1>3. Exclusive /\ LockedStay /\ TodoBelow /\ \A o \in Sessions : WrittenValid(o)
  BY <1>1, LockParts
<1>4. ASSUME NEW i \in Ids, Monitor(i) \in Wrote(s)'
      PROVE  /\ i < NextId(db)
             /\ i \in Rows(s) \/ db[Monitor(i)] = None
             /\ \A o \in Sessions \ {s} : Monitor(i) \notin Wrote(o)
             /\ \A o \in Sessions : i \in todo[o] => db[Monitor(i)] # None
  <2>1. CASE Monitor(i) \in Wrote(s)
    BY <1>3, <2>1 DEF WrittenValid
  <2>2. CASE i \in Rows(s)
    BY <1>1, <2>2, LockedRows DEF Below
  <2>3. QED
    BY <1>4, <2>1, <2>2
<1>5. ASSUME NEW l \in locks[s]
      PROVE  /\ l[1] \in Keys /\ db[l[1]] # None
             /\ \A o \in Sessions \ {s} : \A m \in locks[o] :
                   l[1] = m[1] => l[2] = "share" /\ m[2] = "share"
  BY <1>1, <1>3, KeysAre DEF Data, LockedStay, Exclusive
<1>6. \A i \in todo[s] : /\ i < NextId(db)
                         /\ \A o \in Sessions \ {s} : Monitor(i) \in Wrote(o) => db[Monitor(i)] # None
  BY <1>1, <1>3 DEF TodoBelow, WrittenValid, Data
<1>7. QED
  BY <1>1, <1>2, <1>4, <1>5, <1>6, LocksStep DEF Data

\* A session inside its transaction.
LEMMA HoldingFacts ==
    ASSUME IInv, NEW s \in Sessions, pc[s] \in Holding
    PROVE  /\ adapter = "postgres" /\ Control /\ Data /\ LocksValid
           /\ ValidCall(call[s]) /\ call[s].op # "none" /\ call[s].op \in OpsAt(pc[s])
           /\ call[s].chain \in Chains /\ call[s].ids \subseteq Ids
           /\ Holds(s, call[s], pc[s])
           /\ RowsOK(own[s]) /\ DatabaseOK(db) /\ Wrote(s) \subseteq Keys
           /\ DOMAIN own = Sessions /\ pc \in [Sessions -> Places]
           /\ applied[s] = 0
<1>1. adapter = "postgres"
  BY InvariantParts DEF Control, ControlOf
<1>2. Control /\ Data /\ LocksValid /\ PgOf(s)
  BY <1>1, PgFacts
<1>3. ValidCall(call[s]) /\ call[s].op # "none" /\ call[s].op \in OpsAt(pc[s]) /\ applied[s] = 0
  BY <1>2, HoldingCalls, AtWork DEF Underway
<1>4. QED
  BY <1>1, <1>2, <1>3 DEF PgOf, Data, Control, ControlTypes, RowsOK, Wrote, ValidCall, Job

\* A statement writes the rows w.
LEMMA WriteStep ==
    ASSUME IInv, NEW s \in Sessions, pc[s] \in Holding, pc[s] # "pg_commit", NEW at \in Holding,
           Goto(s, at), call[s].op \in OpsAt(at),
           pc[s] = "create_table" => at = "pg_commit",
           SameCall, UNCHANGED <<db, postgres>>, NEW w, Writes(s, w), RowsOK(w),
           \A i \in Ids : Monitor(i) \in DOMAIN w => i \in Rows(s),
           Holds(s, call[s], at)'
    PROVE  IInv'
<1>1. /\ adapter = "postgres" /\ Control /\ Data /\ RowsOK(own[s]) /\ DOMAIN own = Sessions
      /\ pc \in [Sessions -> Places]
  BY HoldingFacts
<1>2. /\ pc' = [pc EXCEPT ![s] = at] /\ own' = [own EXCEPT ![s] = With(own[s], w)]
      /\ UNCHANGED <<adapter, db, call, applied, answer, mongo, postgres>>
  BY DEF Goto, Writes, SameCall
<1>3. /\ pc'[s] = at /\ own'[s] = With(own[s], w) /\ DOMAIN own' = Sessions
      /\ \A o \in Sessions \ {s} : SamePg(o)
  BY <1>1, <1>2 DEF SamePg, mongo, postgres
<1>4. RowsOK(own'[s]) /\ Wrote(s)' = Wrote(s) \cup DOMAIN w
  BY <1>1, <1>3, WithRows DEF Wrote
<1>5. LocksValid'
  <2>1. \A i \in Ids : Monitor(i) \in Wrote(s)' => Monitor(i) \in Wrote(s) \/ i \in Rows(s)
    BY <1>4
  <2>2. QED
    BY <1>1, <1>2, <1>3, <2>1, LocksOwn
<1>6. at \notin {"idle", "start", "in_doubt"} /\ at \in Underway /\ pc[s] \in Underway
      /\ at \notin Requests \cup {"commit"}
  BY DEF Holding, Underway, Requests
<1>7. Control'
  BY <1>1, <1>2, <1>6, GotoControl
<1>8. Ungiven' \subseteq Ungiven
  BY <1>1, <1>2, <1>3, <1>7, UngivenFrame DEF SamePg, Holding
<1>9. PgOf(s)'
  <2>1. snapshot'[s] = <<>> /\ stale'[s] = {}
    BY <1>1, <1>2, PgFacts DEF PgOf, mongo
  <2>2. Holds(s, call[s], pc[s])'
    BY <1>3
  <2>3. QED
    BY <1>3, <1>6, <2>1, <2>2 DEF PgOf
<1>10. locks' \in [Sessions -> SUBSET (Lockable \X {"share", "update"})] /\ todo' \in [Sessions -> SUBSET Ids]
  BY <1>1, <1>2 DEF Data, postgres
<1>11. QED
  BY <1>1, <1>2, <1>3, <1>4, <1>5, <1>7, <1>8, <1>9, <1>10, StatementStep

LEMMA WriteFacts ==
    ASSUME IInv, NEW s \in Sessions, pc[s] \in Holding, NEW w, Writes(s, w), SameCall,
           UNCHANGED <<db, postgres>>
    PROVE  /\ Wrote(s)' = Wrote(s) \cup DOMAIN w
           /\ \A k \in DOMAIN w : own'[s][k] = w[k]
           /\ \A k \in Wrote(s) \ DOMAIN w : own'[s][k] = own[s][k]
           /\ call'[s] = call[s] /\ locks'[s] = locks[s] /\ todo'[s] = todo[s] /\ Rows(s)' = Rows(s)
           /\ db' = db
<1>1. own'[s] = With(own[s], w)
  BY HoldingFacts DEF Writes
<1>2. /\ DOMAIN own'[s] = DOMAIN own[s] \cup DOMAIN w
      /\ \A k \in DOMAIN own[s] \cup DOMAIN w : own'[s][k] = IF k \in DOMAIN w THEN w[k] ELSE own[s][k]
  BY <1>1 DEF With
<1>3. QED
  BY <1>2 DEF Wrote, SameCall, postgres, Rows

LEMMA CreateTableInv ==
    ASSUME IInv, NEW s \in Sessions, CreateTable(s)
    PROVE  IInv'
<1> DEFINE c == call[s].chain
           K == {Table(i) : i \in {j \in Ids : Monitor(j) \in Wrote(s)}}
           w == [k \in K |-> c]
<1>1. /\ pc[s] = "create_table" /\ pc[s] \in Holding /\ Writes(s, w) /\ Goto(s, "pg_commit")
      /\ SameCall /\ UNCHANGED <<db, postgres>>
  BY DEF CreateTable, At, Holding
<1>2. call[s].op = "create_monitor" /\ Holds(s, call[s], "create_table") /\ c \in Chains
  BY <1>1, HoldingFacts DEF OpsAt
<1>3. PICK i \in Ids : /\ Wrote(s) = {Monitor(i)} /\ own[s][Monitor(i)] = NewMonitor(c)
                       /\ db[Monitor(i)] = None /\ locks[s] = {<<Chain(c), "share">>} /\ todo[s] = {}
  BY <1>2 DEF Holds, CreateHolds
<1>4. K = {Table(i)}
  BY <1>3, KeysDiffer
<1>5. /\ Wrote(s)' = Wrote(s) \cup K
      /\ \A k \in K : own'[s][k] = c
      /\ \A k \in Wrote(s) \ K : own'[s][k] = own[s][k]
      /\ call'[s] = call[s] /\ locks'[s] = locks[s] /\ todo'[s] = todo[s] /\ Rows(s)' = Rows(s)
      /\ db' = db
  BY <1>1, WriteFacts
<1>6. Rows(s) = {}
  BY <1>3, KeysDiffer DEF Rows
<1> HIDE DEF c, K
<1>7. CreateHolds(s, c, "pg_commit")'
  <2>1. /\ Wrote(s)' = {Monitor(i)} \cup {Table(i)}
        /\ own'[s][Monitor(i)] = NewMonitor(c) /\ own'[s][Table(i)] = c
    BY <1>3, <1>4, <1>5, KeysDiffer
  <2>2. QED
    BY <1>3, <1>5, <2>1 DEF CreateHolds, c
<1>8. Holds(s, call[s], "pg_commit")'
  BY <1>2, <1>3, <1>5, <1>6, <1>7 DEF Holds, c
<1>9. RowsOK(w) /\ \A x \in Ids : Monitor(x) \notin DOMAIN w
  BY <1>2, <1>4, KeysDiffer, KeysAre, RowTypes DEF RowsOK
<1>10. "pg_commit" \in Holding /\ call[s].op \in OpsAt("pg_commit")
  BY <1>2 DEF Holding, OpsAt
<1> HIDE DEF w
<1>11. QED
  BY <1>1, <1>8, <1>9, <1>10, WriteStep

LEMMA DropTablesInv ==
    ASSUME IInv, NEW s \in Sessions, DropTables(s)
    PROVE  IInv'
<1> DEFINE j == call[s]
           K == TablesOf(Rows(s))
           w == [k \in K |-> None]
<1>1. /\ pc[s] = "drop_tables" /\ pc[s] \in Holding /\ Writes(s, w) /\ Goto(s, "delete_rows")
      /\ SameCall /\ UNCHANGED <<db, postgres>>
      /\ j.op = "delete_monitor" => Rows(s) # {}
  BY DEF DropTables, At, Holding, TablesOf
<1>2. /\ j.op \in {"delete_chain", "delete_monitor"} /\ Holds(s, j, "drop_tables")
      /\ ValidCall(j)
  BY <1>1, HoldingFacts DEF OpsAt
<1>3. /\ DeleteHolds(s, j, "drop_tables") /\ todo[s] = {}
      /\ \A i \in Rows(s) : db[Monitor(i)] # None => db[Monitor(i)].chain = j.chain
      /\ j.op = "delete_monitor" => Rows(s) \subseteq j.ids
  BY <1>2 DEF Holds
<1>4. /\ Wrote(s)' = Wrote(s) \cup K
      /\ \A k \in K : own'[s][k] = None
      /\ call'[s] = j /\ locks'[s] = locks[s] /\ todo'[s] = todo[s] /\ Rows(s)' = Rows(s)
      /\ db' = db
  BY <1>1, WriteFacts
<1>5. Wrote(s) = {}
  BY <1>3 DEF DeleteHolds
<1>6. j.op = "delete_monitor" => Rows(s) = j.ids
  BY <1>1, <1>2, <1>3 DEF ValidCall
<1>7. K' = K
  BY <1>4 DEF TablesOf
<1> HIDE DEF j, K
<1>8. DeleteHolds(s, j, "delete_rows")'
  BY <1>3, <1>4, <1>5, <1>6, <1>7 DEF DeleteHolds, j, K
<1>9. Holds(s, call[s], "delete_rows")'
  BY <1>2, <1>3, <1>4, <1>8 DEF Holds, j
<1>10. RowsOK(w) /\ \A x \in Ids : Monitor(x) \notin DOMAIN w
  <2>1. \A k \in K : k \in Keys /\ \A x : k # Monitor(x)
    BY RowsAre, KeysAre, KeysDiffer DEF K, TablesOf
  <2>2. QED
    BY <2>1, RowTypes DEF RowsOK
<1>11. "delete_rows" \in Holding /\ call[s].op \in OpsAt("delete_rows")
  BY <1>2 DEF Holding, OpsAt, j
<1> HIDE DEF w
<1>12. QED
  BY <1>1, <1>9, <1>10, <1>11, WriteStep

\* delete_chain has locked every monitor of its chain, and no other.
LEMMA RowsOfChain ==
    ASSUME LocksValid, NEW s \in Sessions, NEW j, j.op = "delete_chain", NEW at,
           at \notin {"lock_chain", "find_rows", "lock_rows"}, Holds(s, j, at)
    PROVE  Rows(s) = MonitorsOf(db, j.chain) /\ <<Chain(j.chain), "update">> \in locks[s]
<1>1. /\ MonitorsOf(db, j.chain) \subseteq Rows(s) /\ <<Chain(j.chain), "update">> \in locks[s]
      /\ \A i \in Rows(s) : db[Monitor(i)] # None => db[Monitor(i)].chain = j.chain
  BY DEF Holds, DeleteHolds
<1>2. Rows(s) \subseteq MonitorsOf(db, j.chain)
  BY <1>1, LockedRows, RowsAre DEF MonitorsOf
<1>3. QED
  BY <1>1, <1>2

LEMMA DeleteRowsInv ==
    ASSUME IInv, NEW s \in Sessions, DeleteRows(s)
    PROVE  IInv'
<1> DEFINE j == call[s]
           c == call[s].chain
           C == IF j.op = "delete_chain" THEN {Chain(c)} ELSE {}
           K == C \cup {Monitor(i) : i \in Rows(s)}
           w == [k \in K |-> None]
<1>1. /\ pc[s] = "delete_rows" /\ pc[s] \in Holding /\ Goto(s, "pg_commit")
      /\ SameCall /\ UNCHANGED <<db, postgres>>
      /\ Writes(s, [k \in IF j.op = "delete_chain"
                            THEN {Chain(c)} \cup {Monitor(i) : i \in MonitorsOf(db, c)}
                            ELSE {Monitor(i) : i \in Rows(s)} |-> None])
  BY DEF DeleteRows, At, Holding
<1>2. /\ j.op \in {"delete_chain", "delete_monitor"} /\ Holds(s, j, "delete_rows")
      /\ ValidCall(j) /\ c \in Chains /\ LocksValid
  BY <1>1, HoldingFacts DEF OpsAt
<1>3. /\ DeleteHolds(s, j, "delete_rows") /\ todo[s] = {}
      /\ \A i \in Rows(s) : db[Monitor(i)] # None => db[Monitor(i)].chain = c
      /\ j.op = "delete_monitor" => Rows(s) \subseteq j.ids
  BY <1>2 DEF Holds
<1>4. j.op = "delete_chain" => Rows(s) = MonitorsOf(db, c)
  BY <1>2, RowsOfChain
<1>5. Writes(s, w)
  <2>1. (IF j.op = "delete_chain" THEN {Chain(c)} \cup {Monitor(i) : i \in MonitorsOf(db, c)}
                                  ELSE {Monitor(i) : i \in Rows(s)}) = K
    BY <1>4
  <2>2. QED
    BY <1>1, <2>1
<1>6. /\ Wrote(s)' = Wrote(s) \cup K
      /\ \A k \in K : own'[s][k] = None
      /\ \A k \in Wrote(s) \ K : own'[s][k] = own[s][k]
      /\ call'[s] = j /\ locks'[s] = locks[s] /\ todo'[s] = todo[s] /\ Rows(s)' = Rows(s)
      /\ db' = db
  <2> HIDE DEF K
  <2>1. QED
    BY <1>1, <1>5, WriteFacts
<1>7. Wrote(s) = TablesOf(Rows(s)) /\ \A k \in Wrote(s) : own[s][k] = None
  BY <1>3 DEF DeleteHolds
<1>8. TablesOf(Rows(s))' = TablesOf(Rows(s))
  BY <1>6 DEF TablesOf
<1>9. K = {Monitor(i) : i \in Rows(s)} \cup C /\ K \subseteq Keys
      /\ \A i \in Ids : Monitor(i) \in K => i \in Rows(s)
  BY <1>2, RowsAre, KeysAre, KeysDiffer
<1> HIDE DEF K
<1>10. DeleteHolds(s, j, "pg_commit")'
  <2>1. \A k \in Wrote(s)' : own'[s][k] = None
    BY <1>6, <1>7
  <2>2. Wrote(s)' = TablesOf(Rows(s)) \cup {Monitor(i) : i \in Rows(s)} \cup C
    BY <1>6, <1>7, <1>9
  <2> HIDE DEF j
  <2>3. QED
    BY <1>3, <1>6, <1>8, <2>1, <2>2 DEF DeleteHolds, j
<1> HIDE DEF j, c
<1>11. Holds(s, call[s], "pg_commit")'
  BY <1>2, <1>3, <1>6, <1>10 DEF Holds, j, c
<1>12. RowsOK(w) /\ \A i \in Ids : Monitor(i) \in DOMAIN w => i \in Rows(s)
  BY <1>9, RowTypes DEF RowsOK
<1>13. "pg_commit" \in Holding /\ call[s].op \in OpsAt("pg_commit")
  BY <1>2 DEF Holding, OpsAt, j
<1> HIDE DEF w
<1>14. QED
  BY <1>1, <1>5, <1>11, <1>12, <1>13, WriteStep

LEMMA MoveCursorsInv ==
    ASSUME IInv, NEW s \in Sessions, MoveCursors(s)
    PROVE  IInv'
<1> DEFINE j == call[s]
           K == {Monitor(i) : i \in Rows(s)}
           w == [k \in K |-> [db[k] EXCEPT !.cursor = j.block]]
<1>1. /\ pc[s] = "move_cursors" /\ pc[s] \in Holding /\ Writes(s, w) /\ Goto(s, "insert_results")
      /\ SameCall /\ UNCHANGED <<db, postgres>> /\ Rows(s) = j.ids
  BY DEF MoveCursors, At, Holding
<1>2. /\ j.op = "commit_block" /\ Holds(s, j, "move_cursors") /\ ValidCall(j) /\ LocksValid
      /\ DatabaseOK(db)
  BY <1>1, HoldingFacts DEF OpsAt
<1>3. /\ CommitHolds(s, j, "move_cursors") /\ todo[s] = {} /\ j.block \in Blocks
      /\ \A i \in Rows(s) : db[Monitor(i)] # None => db[Monitor(i)].chain = j.chain
  BY <1>2 DEF Holds, ValidCall
<1>4. /\ Wrote(s)' = Wrote(s) \cup K
      /\ \A k \in K : own'[s][k] = [db[k] EXCEPT !.cursor = j.block]
      /\ call'[s] = j /\ locks'[s] = locks[s] /\ todo'[s] = todo[s] /\ Rows(s)' = Rows(s)
      /\ db' = db
  BY <1>1, WriteFacts
<1>5. Wrote(s) = {}
  BY <1>3 DEF CommitHolds
<1> HIDE DEF j
<1>6. CommitHolds(s, j, "insert_results")'
  <2>1. /\ Wrote(s)' = {Monitor(i) : i \in j.ids} /\ Rows(s)' = j.ids /\ j' = j
    BY <1>1, <1>4, <1>5 DEF j
  <2>2. Rows(s) = j.ids
    BY <1>1
  <2>3. \A i \in Rows(s) : own'[s][Monitor(i)] = [db'[Monitor(i)] EXCEPT !.cursor = j.block]
    BY <1>4
  <2>4. QED
    BY <2>1, <2>2, <2>3 DEF CommitHolds
<1>7. Holds(s, call[s], "insert_results")'
  BY <1>1, <1>2, <1>3, <1>4, <1>6 DEF Holds, j
<1>8. RowsOK(w) /\ \A i \in Ids : Monitor(i) \in DOMAIN w => i \in Rows(s)
  <2>1. ASSUME NEW i \in Rows(s) PROVE [db[Monitor(i)] EXCEPT !.cursor = j.block] \in MonitorRow
    <3>1. db[Monitor(i)] \in MonitorRow
      BY <1>2, LockedRows, RowsAre, DatabaseRows
    <3>2. QED
      BY <1>3, <3>1, MovedType
  <2>2. K \subseteq Keys /\ \A i \in Ids : Monitor(i) \in K => i \in Rows(s)
    BY RowsAre, KeysAre, KeysDiffer
  <2>3. \A k \in K : w[k] \in RowType(k)
    BY <2>1, RowTypes
  <2>4. QED
    BY <2>2, <2>3 DEF RowsOK
<1>9. "insert_results" \in Holding /\ call[s].op \in OpsAt("insert_results")
  BY <1>2 DEF Holding, OpsAt, j
<1> HIDE DEF w
<1>10. QED
  BY <1>1, <1>7, <1>8, <1>9, WriteStep

LEMMA InsertResultsInv ==
    ASSUME IInv, NEW s \in Sessions, InsertResults(s)
    PROVE  IInv'
<1> DEFINE j == call[s]
           K == {Result(i, j.block) : i \in j.decoded}
           w == [k \in K |-> j.chain]
<1>1. /\ pc[s] = "insert_results" /\ pc[s] \in Holding /\ Writes(s, w) /\ Goto(s, "pg_commit")
      /\ SameCall /\ UNCHANGED <<db, postgres>>
      /\ \A i \in j.decoded : db[Result(i, j.block)] = None
  BY DEF InsertResults, At, Holding, CanInsert
<1>2. /\ j.op = "commit_block" /\ Holds(s, j, "insert_results") /\ ValidCall(j) /\ j.chain \in Chains
      /\ j.ids \subseteq Ids
  BY <1>1, HoldingFacts DEF OpsAt
<1>3. /\ CommitHolds(s, j, "insert_results") /\ todo[s] = {} /\ j.block \in Blocks
      /\ j.decoded \subseteq j.ids
      /\ \A i \in Rows(s) : db[Monitor(i)] # None => db[Monitor(i)].chain = j.chain
  BY <1>2 DEF Holds, ValidCall
<1>4. /\ Wrote(s)' = Wrote(s) \cup K
      /\ \A k \in K : own'[s][k] = j.chain
      /\ \A k \in Wrote(s) \ K : own'[s][k] = own[s][k]
      /\ call'[s] = j /\ locks'[s] = locks[s] /\ todo'[s] = todo[s] /\ Rows(s)' = Rows(s)
      /\ db' = db
  BY <1>1, WriteFacts
<1>5. /\ Wrote(s) = {Monitor(i) : i \in j.ids} /\ Rows(s) = j.ids
      /\ \A i \in j.ids : own[s][Monitor(i)] = [db[Monitor(i)] EXCEPT !.cursor = j.block]
  BY <1>3 DEF CommitHolds
<1> HIDE DEF j
<1>6. \A i \in j.ids : Monitor(i) \in Wrote(s) \ K
  BY <1>5, KeysDiffer
<1>7. CommitHolds(s, j, "pg_commit")'
  <2>1. \A i \in j.ids : own'[s][Monitor(i)] = [db[Monitor(i)] EXCEPT !.cursor = j.block]
    BY <1>4, <1>5, <1>6
  <2>2. \A i \in j.decoded : own'[s][Result(i, j.block)] = j.chain
    BY <1>4
  <2>3. QED
    BY <1>1, <1>4, <1>5, <2>1, <2>2 DEF CommitHolds, j
<1>8. Holds(s, call[s], "pg_commit")'
  BY <1>2, <1>3, <1>4, <1>5, <1>7 DEF Holds, j
<1>9. RowsOK(w) /\ \A x \in Ids : Monitor(x) \notin DOMAIN w
  <2>1. \A k \in K : k \in Keys /\ RowType(k) = {None} \cup Chains /\ \A x : k # Monitor(x)
    BY <1>2, <1>3, KeysAre, KeysDiffer, RowTypes
  <2>2. QED
    BY <1>2, <2>1 DEF RowsOK
<1>10. "pg_commit" \in Holding /\ call[s].op \in OpsAt("pg_commit")
  BY <1>2 DEF Holding, OpsAt, j
<1> HIDE DEF w
<1>11. QED
  BY <1>1, <1>8, <1>9, <1>10, WriteStep

\* A statement takes locks, or finds the rows it will lock.
LEMMA LockStep ==
    ASSUME IInv, adapter = "postgres", NEW s \in Sessions, pc[s] \in Holding \cup {"start"},
           pc[s] \notin {"create_table", "pg_commit"}, NEW at \in Holding, Goto(s, at),
           call[s].op \in OpsAt(at), SameCall, UNCHANGED <<db, own>>, Wrote(s) = {},
           NEW L \in SUBSET (Lockable \X {"share", "update"}), locks' = [locks EXCEPT ![s] = L],
           NEW T \in SUBSET Ids, todo' = [todo EXCEPT ![s] = T],
           \A l \in L : l \in locks[s] \/ (l \in Needs(s) /\ WaitsFor(s) = {} /\ db[l[1]] # None),
           \A i \in T : i \in todo[s] \/ db[Monitor(i)] # None,
           Holds(s, call[s], at)'
    PROVE  IInv'
<1>1. Control /\ Data /\ LocksValid /\ Below /\ NextId(db) \in Nat /\ pc \in [Sessions -> Places]
  BY PgFacts, DatabaseRows DEF Data, Control, ControlTypes
<1>2. /\ pc' = [pc EXCEPT ![s] = at] /\ UNCHANGED <<adapter, db, call, own, applied, answer, mongo>>
  BY DEF Goto, SameCall
<1>3. /\ pc'[s] = at /\ locks'[s] = L /\ todo'[s] = T
      /\ \A o \in Sessions \ {s} : SamePg(o)
      /\ locks' \in [Sessions -> SUBSET (Lockable \X {"share", "update"})]
      /\ todo' \in [Sessions -> SUBSET Ids]
  BY <1>1, <1>2 DEF Data, SamePg, mongo
<1>4. Exclusive /\ LockedStay /\ TodoBelow /\ \A o \in Sessions : WrittenValid(o)
  BY <1>1, LockParts
<1>5. ASSUME NEW l \in L
      PROVE  /\ l[1] \in Keys /\ db[l[1]] # None
             /\ \A o \in Sessions \ {s} : \A m \in locks[o] :
                   l[1] = m[1] => l[2] = "share" /\ m[2] = "share"
  <2>1. l[1] \in Keys /\ l[2] \in {"share", "update"}
    BY <1>5, KeysAre
  <2>2. CASE l \in locks[s]
    BY <1>4, <2>1, <2>2 DEF LockedStay, Exclusive
  <2>3. CASE l \in Needs(s) /\ WaitsFor(s) = {} /\ db[l[1]] # None
    <3>1. ASSUME NEW o \in Sessions \ {s}, NEW m \in locks[o], l[1] = m[1]
          PROVE  l[2] = "share" /\ m[2] = "share"
      <4>1. l[2] # "update" /\ m[2] # "update"
        BY <2>3, <3>1 DEF WaitsFor
      <4>2. m[2] \in {"share", "update"}
        BY <1>1 DEF Data
      <4>3. QED
        BY <2>1, <4>1, <4>2
    <3>2. QED
      BY <2>1, <2>3, <3>1
  <2>4. QED
    BY <2>2, <2>3
<1>6. Wrote(s)' = {}
  BY <1>2 DEF Wrote
<1>7. ASSUME NEW i \in T
      PROVE  /\ i < NextId(db)
             /\ \A o \in Sessions \ {s} : Monitor(i) \in Wrote(o) => db[Monitor(i)] # None
  BY <1>1, <1>4 DEF Below, TodoBelow, WrittenValid
<1>8. LocksValid'
  BY <1>1, <1>2, <1>3, <1>5, <1>6, <1>7, LocksStep DEF Data
<1>9. at \notin {"idle", "start", "in_doubt"} /\ at \in Underway /\ pc[s] \in Underway
      /\ at \notin Requests \cup {"commit"} /\ pc[s] \notin {"committed"}
  BY DEF Holding, Underway, Requests
<1>10. Control'
  BY <1>1, <1>2, <1>9, GotoControl
<1>11. Ungiven' \subseteq Ungiven
  BY <1>1, <1>2, <1>3, <1>9, <1>10, UngivenFrame DEF SamePg
<1>12. PgOf(s)'
  <2>1. snapshot'[s] = <<>> /\ stale'[s] = {}
    BY <1>1, <1>2, PgFacts DEF PgOf, mongo
  <2>2. Holds(s, call[s], pc[s])'
    BY <1>3
  <2>3. QED
    BY <1>3, <1>9, <2>1, <2>2 DEF PgOf
<1>13. DOMAIN own' = Sessions /\ RowsOK(own'[s])
  BY <1>1, <1>2 DEF Data
<1>14. QED
  BY <1>2, <1>3, <1>8, <1>10, <1>11, <1>12, <1>13, StatementStep

LEMMA BeginTransactionInv ==
    ASSUME IInv, NEW s \in Sessions, BeginTransaction(s)
    PROVE  IInv'
<1>0. PICK at : at = FirstStatement(call[s].op)
  OBVIOUS
<1>1. /\ adapter = "postgres" /\ pc[s] = "start" /\ Goto(s, at) /\ SameCall
      /\ UNCHANGED <<db, own, postgres>>
  BY <1>0 DEF BeginTransaction
<1>2. Control /\ PgOf(s) /\ pc[s] \in Underway /\ Data
  BY <1>1, PgFacts DEF Underway
<1>3. /\ ValidCall(call[s])
      /\ call[s].op \in {"create_monitor", "delete_chain", "delete_monitor", "commit_block"}
  BY <1>2, AtWork
<1>4. own[s] = <<>> /\ locks[s] = {} /\ todo[s] = {} /\ Wrote(s) = {}
  BY <1>1, <1>2, NoRows DEF PgOf, Wrote
<1>5. /\ call[s].op = "create_monitor" => at = "share_chain"
      /\ call[s].op = "delete_chain" => at = "lock_chain"
      /\ call[s].op \in {"delete_monitor", "commit_block"} => at = "find_rows"
  BY <1>0 DEF FirstStatement
<1>6. at \in Holding /\ call[s].op \in OpsAt(at)
  BY <1>3, <1>5 DEF Holding, OpsAt
<1>7. /\ call'[s] = call[s] /\ own'[s] = <<>> /\ locks'[s] = {} /\ todo'[s] = {}
      /\ Rows(s)' = {} /\ Wrote(s)' = {} /\ db' = db
  BY <1>1, <1>4, NoRows DEF SameCall, postgres, Rows, Wrote
<1>8. Holds(s, call[s], at)'
  BY <1>3, <1>5, <1>7 DEF Holds, CreateHolds, DeleteHolds, CommitHolds
<1>9. locks' = [locks EXCEPT ![s] = {}] /\ todo' = [todo EXCEPT ![s] = {}]
  BY <1>1, <1>2, <1>4 DEF Data, postgres
<1>10. QED
  BY <1>1, <1>4, <1>6, <1>8, <1>9, LockStep

LEMMA ShareChainInv ==
    ASSUME IInv, NEW s \in Sessions, ShareChain(s)
    PROVE  IInv'
<1> DEFINE c == call[s].chain
<1>0. PICK L : L = {<<Chain(c), "share">>}
  OBVIOUS
<1>1. /\ pc[s] = "share_chain" /\ pc[s] \in Holding /\ WaitsFor(s) = {} /\ db[Chain(c)] # None
      /\ locks' = [locks EXCEPT ![s] = locks[s] \cup Needs(s)]
      /\ Goto(s, "insert_monitor") /\ SameCall /\ UNCHANGED <<db, own, todo>>
  BY DEF ShareChain, At, Holding
<1>2. /\ adapter = "postgres" /\ call[s].op = "create_monitor" /\ c \in Chains /\ Data
      /\ Holds(s, call[s], "share_chain")
  BY <1>1, HoldingFacts DEF OpsAt
<1>3. own[s] = <<>> /\ locks[s] = {} /\ todo[s] = {} /\ Wrote(s) = {}
  BY <1>2, NoRows DEF Holds, CreateHolds, Wrote
<1>4. Needs(s) = L
  BY <1>0, <1>1 DEF Needs
<1>5. /\ locks' = [locks EXCEPT ![s] = L] /\ todo' = [todo EXCEPT ![s] = {}]
      /\ locks'[s] = L /\ L \in SUBSET (Lockable \X {"share", "update"})
  BY <1>0, <1>1, <1>2, <1>3, <1>4, KeysAre DEF Data
<1>6. call'[s] = call[s] /\ own'[s] = <<>> /\ todo'[s] = {} /\ Rows(s)' = {} /\ db' = db
  BY <1>1, <1>3, <1>0, <1>5, KeysDiffer DEF SameCall, Rows
<1> HIDE DEF c
<1>7. Holds(s, call[s], "insert_monitor")'
  BY <1>2, <1>5, <1>6, <1>0 DEF Holds, CreateHolds, c
<1>8. "insert_monitor" \in Holding /\ call[s].op \in OpsAt("insert_monitor")
  BY <1>2 DEF Holding, OpsAt
<1>9. \A l \in L : l \in Needs(s) /\ WaitsFor(s) = {} /\ db[l[1]] # None
  BY <1>0, <1>1, <1>4 DEF c
<1>10. /\ pc[s] \in Holding \cup {"start"} /\ pc[s] \notin {"create_table", "pg_commit"}
       /\ Goto(s, "insert_monitor") /\ SameCall /\ UNCHANGED <<db, own>>
  BY <1>1
<1>11. QED
  BY <1>10, <1>2, <1>3, <1>5, <1>7, <1>8, <1>9, LockStep

LEMMA LockChainInv ==
    ASSUME IInv, NEW s \in Sessions, LockChain(s)
    PROVE  IInv'
<1> DEFINE c == call[s].chain
<1>0. PICK L : L = locks[s] \cup {<<Chain(c), "update">>}
  OBVIOUS
<1>1. /\ pc[s] = "lock_chain" /\ pc[s] \in Holding /\ WaitsFor(s) = {} /\ db[Chain(c)] # None
      /\ locks' = [locks EXCEPT ![s] = locks[s] \cup Needs(s)]
      /\ Goto(s, "find_rows") /\ SameCall /\ UNCHANGED <<db, own, todo>>
  BY DEF LockChain, At, Holding
<1>2. /\ adapter = "postgres" /\ call[s].op = "delete_chain" /\ c \in Chains /\ Data
      /\ Holds(s, call[s], "lock_chain")
  BY <1>1, HoldingFacts DEF OpsAt
<1>3. todo[s] = {} /\ Wrote(s) = {}
  BY <1>2 DEF Holds, DeleteHolds
<1>4. Needs(s) = {<<Chain(c), "update">>}
  BY <1>1 DEF Needs
<1>5. /\ locks' = [locks EXCEPT ![s] = L] /\ todo' = [todo EXCEPT ![s] = {}]
      /\ locks'[s] = L /\ L \in SUBSET (Lockable \X {"share", "update"})
  BY <1>0, <1>1, <1>2, <1>3, <1>4, KeysAre DEF Data
<1>6. call'[s] = call[s] /\ own'[s] = own[s] /\ todo'[s] = {} /\ Rows(s)' = Rows(s) /\ db' = db
      /\ Wrote(s)' = {}
  BY <1>1, <1>3, <1>0, <1>5, KeysDiffer DEF SameCall, Rows, Wrote
<1> HIDE DEF c
<1>7. Holds(s, call[s], "find_rows")'
  BY <1>2, <1>3, <1>5, <1>6, <1>0 DEF Holds, DeleteHolds, c
<1>8. "find_rows" \in Holding /\ call[s].op \in OpsAt("find_rows")
  BY <1>2 DEF Holding, OpsAt
<1>9. \A l \in L : l \in locks[s] \/ (l \in Needs(s) /\ WaitsFor(s) = {} /\ db[l[1]] # None)
  BY <1>0, <1>1, <1>4 DEF c
<1>10. /\ pc[s] \in Holding \cup {"start"} /\ pc[s] \notin {"create_table", "pg_commit"}
       /\ Goto(s, "find_rows") /\ SameCall /\ UNCHANGED <<db, own>>
  BY <1>1
<1>11. QED
  BY <1>10, <1>2, <1>3, <1>5, <1>7, <1>8, <1>9, LockStep

LEMMA FindRowsInv ==
    ASSUME IInv, NEW s \in Sessions, FindRows(s)
    PROVE  IInv'
<1> DEFINE j == call[s]
<1>1. PICK F, at :
         /\ F = IF j.op = "delete_chain" THEN MonitorsOf(db, j.chain) ELSE j.ids \cap MonitorsOf(db, j.chain)
         /\ at = IF F = {} THEN AfterRows(j.op) ELSE "lock_rows"
         /\ todo' = [todo EXCEPT ![s] = F] /\ Goto(s, at)
  BY DEF FindRows
<1>2. /\ pc[s] = "find_rows" /\ pc[s] \in Holding /\ SameCall /\ UNCHANGED <<db, own, locks>>
  BY DEF FindRows, At, Holding
<1>3. /\ adapter = "postgres" /\ j.op \in {"delete_chain", "delete_monitor", "commit_block"}
      /\ Data /\ Holds(s, j, "find_rows")
  BY <1>2, HoldingFacts DEF OpsAt
<1>4. Wrote(s) = {} /\ todo[s] = {}
  BY <1>3 DEF Holds, DeleteHolds, CommitHolds
<1>5. \A i \in F : i \in Ids /\ db[Monitor(i)] # None /\ db[Monitor(i)].chain = j.chain
  BY <1>1 DEF MonitorsOf
<1>6. /\ F = {} => at = IF j.op = "commit_block" THEN "move_cursors" ELSE "drop_tables"
      /\ F # {} => at = "lock_rows"
  BY <1>1 DEF AfterRows
<1>7. /\ call'[s] = j /\ own'[s] = own[s] /\ locks'[s] = locks[s] /\ todo'[s] = F
      /\ Rows(s)' = Rows(s) /\ Wrote(s)' = {} /\ db' = db
      /\ locks' = [locks EXCEPT ![s] = locks[s]] /\ locks[s] \in SUBSET (Lockable \X {"share", "update"})
  BY <1>1, <1>2, <1>3, <1>4 DEF SameCall, Rows, Wrote, Data
<1>8. at \in Holding /\ call[s].op \in OpsAt(at)
  BY <1>3, <1>6 DEF Holding, OpsAt
<1> HIDE DEF j
<1>9. j.op \in {"delete_chain", "delete_monitor"} => DeleteHolds(s, j, at)'
  BY <1>1, <1>3, <1>6, <1>7 DEF Holds, DeleteHolds, j
<1>10. j.op = "commit_block" => CommitHolds(s, j, at)'
  BY <1>6, <1>7 DEF CommitHolds, j
<1>11. Holds(s, call[s], at)'
  <2>1. \A i \in Rows(s)' \cup todo'[s] : db'[Monitor(i)] # None => db'[Monitor(i)].chain = j.chain
    BY <1>3, <1>5, <1>7 DEF Holds
  <2>2. j.op # "delete_chain" => Rows(s)' \cup todo'[s] \subseteq j.ids
    BY <1>1, <1>3, <1>7 DEF Holds
  <2>3. at = "lock_rows" <=> todo'[s] # {}
    BY <1>6, <1>7
  <2>4. QED
    BY <1>3, <1>7, <1>9, <1>10, <2>1, <2>2, <2>3 DEF Holds, j
<1>12. F \in SUBSET Ids /\ todo' = [todo EXCEPT ![s] = F] /\ Goto(s, at)
       /\ \A i \in F : i \in todo[s] \/ db[Monitor(i)] # None
  BY <1>1, <1>5
<1>13. /\ pc[s] \in Holding \cup {"start"} /\ pc[s] \notin {"create_table", "pg_commit"}
       /\ SameCall /\ UNCHANGED <<db, own>>
  BY <1>2
<1>14. PICK L \in SUBSET (Lockable \X {"share", "update"}) :
          locks' = [locks EXCEPT ![s] = L] /\ \A l \in L : l \in locks[s]
  BY <1>7
<1>15. QED
  BY <1>3, <1>4, <1>8, <1>11, <1>12, <1>13, <1>14, LockStep

LEMMA LockRowInv ==
    ASSUME IInv, NEW s \in Sessions, LockRow(s)
    PROVE  IInv'
<1> DEFINE j == call[s]
<1>1. PICK r, L, T, at :
         /\ r = NextRow(s)
         /\ L = IF db[Monitor(r)] = None THEN locks[s] ELSE locks[s] \cup {<<Monitor(r), "update">>}
         /\ T = todo[s] \ {r}
         /\ at = IF todo[s] = {r} THEN AfterRows(j.op) ELSE "lock_rows"
  OBVIOUS
<1>2. /\ pc[s] = "lock_rows" /\ pc[s] \in Holding /\ WaitsFor(s) = {} /\ SameCall /\ UNCHANGED <<db, own>>
  BY DEF LockRow, At, Holding
<1>3. Needs(s) = {<<Monitor(r), "update">>}
  BY <1>1, <1>2 DEF Needs
<1>4. locks' = [locks EXCEPT ![s] = L] /\ todo' = [todo EXCEPT ![s] = T] /\ Goto(s, at)
  BY <1>1, <1>3 DEF LockRow
<1>5. /\ adapter = "postgres" /\ j.op \in {"delete_chain", "delete_monitor", "commit_block"}
      /\ Data /\ Holds(s, j, "lock_rows")
  BY <1>2, HoldingFacts DEF OpsAt
<1>6. Wrote(s) = {} /\ todo[s] # {} /\ todo[s] \subseteq Ids
  BY <1>5 DEF Holds, DeleteHolds, CommitHolds, Data
<1>7. r \in todo[s] /\ r \in Ids
  BY <1>1, <1>6, NextRowIs
<1>8. /\ T = {} => at = IF j.op = "commit_block" THEN "move_cursors" ELSE "drop_tables"
      /\ T # {} => at = "lock_rows"
  BY <1>1, <1>7 DEF AfterRows
<1>9. /\ call'[s] = j /\ own'[s] = own[s] /\ locks'[s] = L /\ todo'[s] = T /\ Wrote(s)' = {} /\ db' = db
      /\ L \in SUBSET (Lockable \X {"share", "update"}) /\ T \in SUBSET Ids /\ locks[s] \subseteq L
  <2>1. <<Monitor(r), "update">> \in Lockable \X {"share", "update"}
    BY <1>7, KeysAre
  <2>2. QED
    BY <1>1, <1>2, <1>4, <1>5, <1>6, <2>1 DEF SameCall, Wrote, Data
<1>10. Rows(s)' = Rows(s) \cup (IF db[Monitor(r)] = None THEN {} ELSE {r})
  BY <1>1, <1>7, <1>9, KeysDiffer DEF Rows
<1>11. at \in Holding /\ call[s].op \in OpsAt(at)
  BY <1>5, <1>8 DEF Holding, OpsAt
<1> HIDE DEF j
<1>12. j.op \in {"delete_chain", "delete_monitor"} => DeleteHolds(s, j, at)'
  <2>1. j.op = "delete_chain" => MonitorsOf(db, j.chain) \subseteq Rows(s)' \cup T
    <3>1. j.op = "delete_chain" => MonitorsOf(db, j.chain) \subseteq Rows(s) \cup todo[s]
      BY <1>5 DEF Holds, DeleteHolds
    <3>2. db[Monitor(r)] = None => r \notin MonitorsOf(db, j.chain)
      BY DEF MonitorsOf
    <3>3. QED
      BY <1>1, <1>10, <3>1, <3>2
  <2>2. j.op = "delete_chain" => <<Chain(j.chain), "update">> \in L
    BY <1>5, <1>9 DEF Holds, DeleteHolds
  <2>3. QED
    BY <1>8, <1>9, <2>1, <2>2 DEF DeleteHolds, j
<1>13. j.op = "commit_block" => CommitHolds(s, j, at)'
  BY <1>8, <1>9 DEF CommitHolds, j
<1>14. Holds(s, call[s], at)'
  <2>1. Rows(s)' \cup T \subseteq Rows(s) \cup todo[s]
    BY <1>1, <1>7, <1>10
  <2>2. \A i \in Rows(s)' \cup todo'[s] : db'[Monitor(i)] # None => db'[Monitor(i)].chain = j.chain
    BY <1>5, <1>9, <2>1 DEF Holds
  <2>3. j.op # "delete_chain" => Rows(s)' \cup todo'[s] \subseteq j.ids
    BY <1>5, <1>9, <2>1 DEF Holds
  <2>4. at = "lock_rows" <=> todo'[s] # {}
    BY <1>8, <1>9
  <2>5. QED
    BY <1>5, <1>9, <1>12, <1>13, <2>2, <2>3, <2>4 DEF Holds, j
<1>15. /\ \A l \in L : l \in locks[s] \/ (l \in Needs(s) /\ WaitsFor(s) = {} /\ db[l[1]] # None)
       /\ \A i \in T : i \in todo[s] \/ db[Monitor(i)] # None
  BY <1>1, <1>2, <1>3
<1>16. /\ pc[s] \in Holding \cup {"start"} /\ pc[s] \notin {"create_table", "pg_commit"}
       /\ SameCall /\ UNCHANGED <<db, own>>
  BY <1>2
<1>17. QED
  BY <1>4, <1>5, <1>6, <1>9, <1>11, <1>14, <1>15, <1>16, LockStep

-----------------------------------------------------------------------------
(* Transactions that nobody waits for any more.                            *)

\* The caller has its answer, or is gone; the server still has the transaction.
LEMMA LeftInv ==
    ASSUME IInv, adapter = "postgres", NEW s \in Sessions, pc[s] \in Holding \cup {"start"},
           NEW at \in {"rollback", "in_doubt"}, NEW what \in {"refused", "error"}, Returned(s, at, what),
           at = "in_doubt" => pc[s] = "pg_commit" /\ what = "error",
           UNCHANGED <<adapter, db, own, applied, mongo, postgres>>
    PROVE  IInv'
<1>1. Control /\ Data /\ PgOf(s) /\ LocksValid /\ pc[s] \in Underway
  BY PgFacts DEF Underway
<1>2. applied[s] = 0 /\ ValidCall(call[s]) /\ call[s].op # "none"
  BY <1>1, AtWork
<1>3. applied' = [applied EXCEPT ![s] = 0]
  BY <1>1, <1>2 DEF Control, ControlTypes
<1>4. Control'
  <2>0. 0 \in 0 .. 1
    OBVIOUS
  <2>1. Control /\ applied' = [applied EXCEPT ![s] = 0] /\ adapter' = adapter /\ Returned(s, at, what)
    BY <1>1, <1>3
  <2>2. CASE at = "rollback" /\ what = "refused"
    <3>1. Returned(s, "rollback", "refused")
      BY <2>1, <2>2
    <3>2. QED
      BY <2>0, <2>1, <3>1, ReturnControl
  <2>3. CASE at = "rollback" /\ what = "error"
    <3>1. Returned(s, "rollback", "error")
      BY <2>1, <2>3
    <3>2. QED
      BY <2>0, <2>1, <3>1, ReturnControl
  <2>4. CASE at = "in_doubt" /\ what = "error"
    <3>1. Returned(s, "in_doubt", "error")
      BY <2>1, <2>4
    <3>2. QED
      BY <2>0, <2>1, <3>1, ReturnControl
  <2>5. QED
    BY <2>2, <2>3, <2>4
<1>5. /\ pc'[s] = at /\ call'[s] = NoCall
      /\ \A o \in Sessions \ {s} : SamePg(o)
  BY <1>1 DEF Control, ControlTypes, Returned, SamePg, mongo, postgres
<1>6. LocksValid'
  <2>1. Wrote(s)' = Wrote(s)
    BY DEF Wrote
  <2>2. QED
    BY <1>5, <2>1, LocksOwn
<1>7. Ungiven' \subseteq Ungiven
  BY <1>1, <1>4, <1>5, NoCallValid, UngivenFrame DEF SamePg
<1>8. PgOf(s)'
  <2>1. snapshot'[s] = <<>> /\ stale'[s] = {} /\ at \notin Holding \cup {"idle", "start"}
    BY <1>1 DEF PgOf, mongo, Holding
  <2>2. CASE at = "rollback"
    BY <1>5, <2>1, <2>2 DEF PgOf
  <2>3. CASE at = "in_doubt"
    <3>1. PICK j : j = call[s]
      OBVIOUS
    <3>2. ValidCall(j) /\ j.op # "none" /\ j \in Job /\ Holds(s, j, "pg_commit")
      BY <1>1, <1>2, <2>3, <3>1 DEF PgOf, Holding, ValidCall
    <3>3. Respected(s)
      BY DEF Respected
    <3>4. Holds(s, j, "pg_commit")'
      BY <3>2, <3>3, HoldsKept DEF postgres
    <3>5. QED
      BY <1>5, <2>1, <2>3, <3>2, <3>4 DEF PgOf
  <2>4. QED
    BY <2>2, <2>3
<1>9. /\ DOMAIN own' = Sessions /\ RowsOK(own'[s])
      /\ locks' \in [Sessions -> SUBSET (Lockable \X {"share", "update"})] /\ todo' \in [Sessions -> SUBSET Ids]
  BY <1>1 DEF Data, postgres
<1>10. QED
  BY <1>4, <1>5, <1>6, <1>7, <1>8, <1>9, StatementStep

LEMMA StatementRefusedInv ==
    ASSUME IInv, NEW s \in Sessions, StatementRefused(s)
    PROVE  IInv'
<1>1. /\ pc[s] \in Holding /\ Returned(s, "rollback", "refused")
      /\ UNCHANGED <<adapter, db, own, applied, mongo, postgres>>
  BY DEF StatementRefused, Holding
<1>2. QED
  BY <1>1, HoldingFacts, LeftInv

LEMMA StatementFailsInv ==
    ASSUME IInv, NEW s \in Sessions, StatementFails(s)
    PROVE  IInv'
BY LeftInv DEF StatementFails

LEMMA PgCommitFailsInv ==
    ASSUME IInv, NEW s \in Sessions, PgCommitFails(s)
    PROVE  IInv'
<1>1. /\ pc[s] = "pg_commit" /\ pc[s] \in Holding /\ Returned(s, "in_doubt", "error")
      /\ UNCHANGED <<adapter, db, own, applied, mongo, postgres>>
  BY DEF PgCommitFails, Holding
<1>2. QED
  BY <1>1, HoldingFacts, LeftInv

LEMMA ReleasedFacts ==
    ASSUME IInv, adapter = "postgres", NEW s \in Sessions, Released(s), UNCHANGED mongo
    PROVE  /\ own'[s] = <<>> /\ Wrote(s)' = {} /\ locks'[s] = {} /\ todo'[s] = {} /\ RowsOK(own'[s])
           /\ snapshot'[s] = <<>> /\ stale'[s] = {} /\ DOMAIN own' = Sessions
           /\ \A o \in Sessions \ {s} : own'[o] = own[o] /\ locks'[o] = locks[o] /\ todo'[o] = todo[o]
                                        /\ snapshot'[o] = snapshot[o] /\ stale'[o] = stale[o]
           /\ locks' \in [Sessions -> SUBSET (Lockable \X {"share", "update"})]
           /\ todo' \in [Sessions -> SUBSET Ids]
<1>1. Data /\ PgOf(s)
  BY PgFacts
<1>2. own'[s] = <<>>
  BY <1>1 DEF Data, Released
<1>3. Wrote(s)' = {} /\ RowsOK(own'[s])
  BY <1>2, NoRows DEF Wrote
<1>4. QED
  BY <1>1, <1>2, <1>3 DEF Data, PgOf, Released, mongo

LEMMA RollbackInv ==
    ASSUME IInv, NEW s \in Sessions, Rollback(s)
    PROVE  IInv'
<1>1. /\ pc[s] \in {"rollback", "in_doubt"} /\ Released(s) /\ pc' = [pc EXCEPT ![s] = "idle"]
      /\ UNCHANGED <<adapter, db, call, applied, answer, mongo>>
  BY DEF Rollback, Goto
<1>2. adapter = "postgres" /\ Control /\ ControlOf(s)
  BY <1>1, InvariantParts DEF Control, ControlOf
<1>3. Data /\ LocksValid /\ NextId(db) \in Nat
  BY <1>2, PgFacts, DatabaseRows DEF Data
<1>4. /\ ControlTypes' /\ pc'[s] = "idle" /\ \A o \in Sessions \ {s} : SameControl(o)
  BY <1>1, <1>2 DEF Control, ControlTypes, SameControl, Places
<1>5. call[s].op = "none" /\ "none" \in OpsAt("idle") /\ "idle" \notin Requests \cup Holding
  BY <1>1, <1>2 DEF ControlOf, OpsAt, Requests, Holding
<1>6. ControlOf(s)'
  BY <1>1, <1>2, <1>4, <1>5 DEF ControlOf
<1>7. Control'
  BY <1>1, <1>2, <1>4, <1>6, ControlStep
<1>8. \A o \in Sessions \ {s} : SamePg(o)
  BY <1>1, <1>2, <1>4, ReleasedFacts DEF SamePg, SameControl
<1>9. LocksValid'
  BY <1>1, <1>2, <1>3, <1>8, ReleasedFacts, LocksStep DEF Data
<1>10. Ungiven' \subseteq Ungiven
  BY <1>1, <1>2, <1>4, <1>5, <1>7, <1>8, UngivenFrame DEF SamePg
<1>11. PgOf(s)'
  BY <1>1, <1>2, <1>4, <1>5, ReleasedFacts DEF PgOf
<1>12. QED
  BY <1>1, <1>2, <1>7, <1>8, <1>9, <1>10, <1>11, ReleasedFacts, StatementStep

-----------------------------------------------------------------------------
(* Steps that change the database.                                         *)

LEMMA InsertMonitorInv ==
    ASSUME IInv, NEW s \in Sessions, InsertMonitor(s)
    PROVE  IInv'
<1> DEFINE c == call[s].chain
<1>0. PICK n : n = NextId(db)
  OBVIOUS
<1>1. /\ pc[s] = "insert_monitor" /\ pc[s] \in Holding
      /\ db' = [db EXCEPT ![Counter] = n]
      /\ own' = [own EXCEPT ![s] = With(own[s], [k \in {Monitor(n)} |-> NewMonitor(c)])]
      /\ pc' = [pc EXCEPT ![s] = "create_table"]
      /\ UNCHANGED <<adapter, call, applied, answer, mongo, postgres>>
  BY <1>0 DEF InsertMonitor, At, Holding, Writes, Goto, SameCall
<1>2. /\ adapter = "postgres" /\ Control /\ Data /\ LocksValid /\ call[s].op = "create_monitor"
      /\ c \in Chains /\ Holds(s, call[s], "insert_monitor") /\ DatabaseOK(db)
      /\ DOMAIN own = Sessions /\ pc \in [Sessions -> Places]
  BY <1>1, HoldingFacts DEF OpsAt
<1>3. Supply /\ Below /\ NoOrphans /\ (\A o \in Sessions : PgOf(o))
  BY <1>2, PgFacts
<1>4. own[s] = <<>> /\ locks[s] = {<<Chain(c), "share">>} /\ todo[s] = {} /\ Rows(s) = {}
  BY <1>2, KeysDiffer DEF Holds, CreateHolds, Rows
<1>5. s \in Ungiven /\ n \in Ids /\ n \in Nat
  <2>1. s \in Ungiven
    BY <1>1, <1>2 DEF Ungiven
  <2>2. QED
    BY <1>0, <1>2, <1>3, <2>1, IdToTake DEF Ids
<1>6. db[Monitor(n)] = None
  BY <1>0, <1>3, <1>5 DEF Below
<1>7. /\ \A k \in Keys \ {Counter} : db'[k] = db[k]
      /\ db'[Counter] = n /\ DOMAIN db' = Keys /\ n # None
  BY <1>1, <1>2, <1>5, KeysAre DEF DatabaseOK
<1>8. NextId(db') = n + 1
  BY <1>7 DEF NextId
<1>9. /\ \A c1 \in Chains : db'[Chain(c1)] = db[Chain(c1)]
      /\ \A i \in Ids : db'[Monitor(i)] = db[Monitor(i)] /\ db'[Table(i)] = db[Table(i)]
      /\ \A i \in Ids, b \in Blocks : db'[Result(i, b)] = db[Result(i, b)]
  BY <1>7, KeysAre, KeysDiffer
<1>10. /\ pc'[s] = "create_table" /\ call'[s] = call[s]
       /\ own'[s] = With(own[s], [k \in {Monitor(n)} |-> NewMonitor(c)])
       /\ DOMAIN own' = Sessions
       /\ locks'[s] = locks[s] /\ todo'[s] = {} /\ Rows(s)' = {}
       /\ \A o \in Sessions \ {s} : SamePg(o)
  BY <1>1, <1>2, <1>4 DEF SamePg, mongo, postgres, Rows
<1>11. Wrote(s)' = {Monitor(n)} /\ own'[s][Monitor(n)] = NewMonitor(c) /\ RowsOK(own'[s])
  <2> DEFINE w == [k \in {Monitor(n)} |-> NewMonitor(c)]
  <2>1. RowsOK(w) /\ DOMAIN w = {Monitor(n)} /\ w[Monitor(n)] = NewMonitor(c)
    BY <1>2, <1>5, NewMonitorType, KeysAre, RowTypes DEF RowsOK
  <2> HIDE DEF w
  <2>2. /\ RowsOK(With(<<>>, w)) /\ DOMAIN With(<<>>, w) = {Monitor(n)}
        /\ With(<<>>, w)[Monitor(n)] = NewMonitor(c)
    BY <2>1, NoRows, WithRows
  <2>3. own'[s] = With(<<>>, w)
    BY <1>4, <1>10 DEF w
  <2>4. QED
    BY <2>2, <2>3 DEF Wrote
<1> HIDE DEF c
<1>12. Holds(s, call[s], "create_table")'
  <2>1. CreateHolds(s, c, "create_table")'
    BY <1>4, <1>5, <1>6, <1>9, <1>10, <1>11 DEF CreateHolds, c
  <2>2. QED
    BY <1>2, <1>10, <2>1 DEF Holds, c
<1>13. Control'
  <2>1. "create_table" \in Holding /\ call[s].op \in OpsAt("create_table")
        /\ "create_table" \notin Requests \cup {"commit"}
    BY <1>2 DEF Holding, OpsAt, Requests
  <2>2. QED
    BY <1>1, <1>2, <2>1, GotoControl DEF Underway
<1>14. LocksValid'
  <2>1. Exclusive /\ LockedStay /\ TodoBelow /\ \A o \in Sessions : WrittenValid(o)
    BY <1>2, LockParts
  <2>2. \A l \in locks'[s] :
           /\ l[1] \in Keys /\ db[l[1]] # None
           /\ \A o \in Sessions \ {s} : \A m \in locks[o] :
                 l[1] = m[1] => l[2] = "share" /\ m[2] = "share"
    BY <1>2, <1>10, <2>1, KeysAre DEF Data, LockedStay, Exclusive
  <2>3. \A i \in Ids : Monitor(i) \in Wrote(s)' => i = n
    BY <1>11, KeysDiffer
  <2>4. \A o \in Sessions : Monitor(n) \notin Wrote(o) /\ n \notin todo[o]
    BY <1>0, <1>5, <2>1 DEF WrittenValid, TodoBelow
  <2>5. \A k \in Keys : db[k] # None => db'[k] # None
    BY <1>7
  <2>6. NextId(db) \in Nat /\ NextId(db') \in Nat /\ NextId(db) <= NextId(db') /\ n < NextId(db')
    BY <1>0, <1>5, <1>8
  <2>7. \A i \in Ids : Monitor(i) \in Wrote(s)' =>
           /\ i < NextId(db')
           /\ db[Monitor(i)] = None
           /\ \A o \in Sessions \ {s} : Monitor(i) \notin Wrote(o)
           /\ \A o \in Sessions \ {s} : i \notin todo[o]
    BY <1>6, <2>3, <2>4, <2>6
  <2>8. \A i \in Ids : db'[Monitor(i)] = None <=> db[Monitor(i)] = None
    BY <1>9
  <2>9. todo'[s] \subseteq Ids /\ (\A i \in todo'[s] : FALSE)
    BY <1>10
  <2>10. QED
    BY <1>2, <1>10, <2>2, <2>5, <2>6, <2>7, <2>8, <2>9, LocksStep DEF Data
<1>15. \A o \in Sessions \ {s} : PgOf(o)'
  <2>1. \A o \in Sessions \ {s} : Respected(o)
    <3>1. \A x \in Chains : MonitorsOf(db', x) = MonitorsOf(db, x)
      BY <1>9 DEF MonitorsOf
    <3>2. \A o \in Sessions : todo[o] \subseteq Ids /\ Rows(o) \subseteq Ids
      BY <1>2 DEF Data, Rows
    <3>3. QED
      BY <1>9, <3>1, <3>2 DEF Respected
  <2>2. QED
    BY <1>2, <1>3, <1>10, <2>1, PgKept
<1>16. PgOf(s)'
  <2>1. snapshot'[s] = <<>> /\ stale'[s] = {}
    BY <1>1, <1>3 DEF PgOf, mongo
  <2>2. Holds(s, call[s], pc[s])'
    BY <1>10, <1>12
  <2>3. QED
    BY <1>10, <2>1, <2>2 DEF PgOf
<1>17. Data'
  <2>1. DatabaseOK(db')
    BY <1>2, <1>5, <1>7, RowTypes, KeysAre DEF DatabaseOK, RowsOK
  <2>2. \A o \in Sessions : RowsOK(own[o])'
    BY <1>2, <1>10, <1>11 DEF Data, SamePg, RowsOK
  <2>3. QED
    BY <1>1, <1>2, <1>10, <2>1, <2>2 DEF Data, mongo, postgres
<1>18. Supply'
  <2>1. Ungiven' \subseteq Ungiven \ {s}
    BY <1>10 DEF Ungiven, SamePg
  <2>2. QED
    BY <1>0, <1>2, <1>3, <1>5, <1>8, <2>1, SupplyTaken
<1>19. Below'
  BY <1>0, <1>3, <1>5, <1>8, <1>9 DEF Below, Ids
<1>20. NoOrphans'
  <2>1. \A i \in Ids : db[Monitor(i)] # None => db[Monitor(i)].chain \in Chains
    BY <1>2, DatabaseRows
  <2>2. QED
    BY <1>1, <1>3, <1>9, <2>1 DEF NoOrphans, Whole
<1>21. \A o \in Sessions : PgOf(o)'
  BY <1>15, <1>16
<1>22. QED
  BY <1>1, <1>2, <1>13, <1>14, <1>17, <1>18, <1>19, <1>20, <1>21, PgStep

\* What a transaction of PostgreSQL makes of the database when it is committed, and
\* that it has written nothing but what it has locked or what nobody else sees.
Guarded(s) ==
    /\ \A c \in Chains : Chain(c) \in Wrote(s) => <<Chain(c), "update">> \in locks[s]
    /\ \A i \in Ids, b \in Blocks : Result(i, b) \in Wrote(s) => i \in Rows(s)
    /\ Counter \notin Wrote(s)

LEMMA PgCreates ==
    ASSUME IInv, adapter = "postgres", NEW s \in Sessions, NEW j, ValidCall(j),
           j.op = "create_monitor", Holds(s, j, "pg_commit"), NEW e, e = Over(db, own[s])
    PROVE  /\ Effect(j, db, e) /\ Guarded(s) /\ <<Chain(j.chain), "share">> \in locks[s]
           /\ Rows(s) = {}
<1>1. LocksValid /\ DatabaseOK(db) /\ RowsOK(own[s]) /\ j.chain \in Chains
  BY PgFacts DEF Data, ValidCall
<1>2. locks[s] = {<<Chain(j.chain), "share">>}
  BY DEF Holds, CreateHolds
<1>3. PICK i \in Ids : /\ Wrote(s) = {Monitor(i), Table(i)} /\ own[s][Monitor(i)] = NewMonitor(j.chain)
                       /\ db[Monitor(i)] = None /\ own[s][Table(i)] = j.chain
  BY DEF Holds, CreateHolds
<1>4. \A k \in Keys : e[k] = IF k \in Wrote(s) THEN own[s][k] ELSE db[k]
  BY <1>1, OverRows DEF Wrote
<1>5. db[Chain(j.chain)] # None
  BY <1>1, <1>2, LockedRows
<1>6. /\ \A x \in Ids : (Monitor(x) \in Wrote(s) <=> x = i) /\ (Table(x) \in Wrote(s) <=> x = i)
      /\ \A x \in Chains : Chain(x) \notin Wrote(s)
      /\ \A x \in Ids, b \in Blocks : Result(x, b) \notin Wrote(s)
      /\ Counter \notin Wrote(s)
  BY <1>3, KeysDiffer
<1>7. Creates(db, e, i, j.chain)
  BY <1>3, <1>4, <1>5, <1>6, KeysAre DEF Creates
<1>8. Rows(s) = {}
  BY <1>2, KeysDiffer DEF Rows
<1>9. QED
  BY <1>2, <1>6, <1>7, <1>8 DEF Effect, Guarded

LEMMA PgDeletes ==
    ASSUME IInv, adapter = "postgres", NEW s \in Sessions, NEW j, ValidCall(j),
           j.op \in {"delete_chain", "delete_monitor"}, Holds(s, j, "pg_commit"),
           NEW e, e = Over(db, own[s])
    PROVE  Effect(j, db, e) /\ Guarded(s)
<1> DEFINE R == Rows(s)
           C == IF j.op = "delete_chain" THEN {j.chain} ELSE {}
<1>1. LocksValid /\ DatabaseOK(db) /\ RowsOK(own[s]) /\ j.chain \in Chains /\ R \subseteq Ids
  BY PgFacts, RowsAre DEF Data, ValidCall
<1>2. /\ Wrote(s) = TablesOf(R) \cup {Monitor(i) : i \in R} \cup {Chain(x) : x \in C}
      /\ \A k \in Wrote(s) : own[s][k] = None
  BY DEF Holds, DeleteHolds
<1>3. /\ j.op = "delete_chain" => R = MonitorsOf(db, j.chain) /\ <<Chain(j.chain), "update">> \in locks[s]
      /\ j.op = "delete_monitor" => R = j.ids
  BY <1>1, RowsOfChain DEF Holds, DeleteHolds
<1>4. \A k \in Keys : e[k] = IF k \in Wrote(s) THEN own[s][k] ELSE db[k]
  BY <1>1, OverRows DEF Wrote
<1> HIDE DEF R, C
<1>5. \A k \in Wrote(s) : \/ \E i \in R : k = Table(i) \/ k = Monitor(i) \/ \E b \in Blocks : k = Result(i, b)
                          \/ \E x \in C : k = Chain(x)
  BY <1>2 DEF TablesOf
<1>6. /\ \A i \in R : Table(i) \in Wrote(s) /\ Monitor(i) \in Wrote(s)
      /\ \A i \in R, b \in Blocks : Result(i, b) \in Wrote(s)
      /\ \A x \in C : Chain(x) \in Wrote(s)
  BY <1>2 DEF TablesOf
<1>7. /\ \A i \in Ids : (Monitor(i) \in Wrote(s) <=> i \in R) /\ (Table(i) \in Wrote(s) <=> i \in R)
      /\ \A i \in Ids, b \in Blocks : Result(i, b) \in Wrote(s) <=> i \in R
      /\ \A x \in Chains : Chain(x) \in Wrote(s) <=> x \in C
      /\ Counter \notin Wrote(s)
  BY <1>5, <1>6, KeysDiffer
<1>8. Deletes(db, e, C, R)
  BY <1>2, <1>4, <1>7, KeysAre DEF Deletes
<1>9. \A i \in R : db[Monitor(i)] # None
  BY <1>1, LockedRows DEF R
<1>10. j.op = "delete_chain" => db[Chain(j.chain)] # None
  BY <1>1, <1>3, LockedRows
<1>11. Guarded(s)
  BY <1>3, <1>7 DEF Guarded, R, C
<1>12. QED
  BY <1>3, <1>8, <1>9, <1>10, <1>11 DEF Effect, C

LEMMA PgMoves ==
    ASSUME IInv, adapter = "postgres", NEW s \in Sessions, NEW j, ValidCall(j),
           j.op = "commit_block", Holds(s, j, "pg_commit"), NEW e, e = Over(db, own[s])
    PROVE  Effect(j, db, e) /\ Guarded(s)
<1>1. /\ LocksValid /\ DatabaseOK(db) /\ RowsOK(own[s]) /\ j.ids \subseteq Ids /\ j.block \in Blocks
      /\ j.decoded \subseteq j.ids
  BY PgFacts DEF Data, ValidCall, Job
<1>2. /\ Wrote(s) = {Monitor(i) : i \in j.ids} \cup {Result(i, j.block) : i \in j.decoded}
      /\ Rows(s) = j.ids
      /\ \A i \in j.ids : own[s][Monitor(i)] = [db[Monitor(i)] EXCEPT !.cursor = j.block]
      /\ \A i \in j.decoded : own[s][Result(i, j.block)] = j.chain /\ db[Result(i, j.block)] = None
      /\ \A i \in Rows(s) : db[Monitor(i)] # None => db[Monitor(i)].chain = j.chain
  BY DEF Holds, CommitHolds
<1>3. \A k \in Keys : e[k] = IF k \in Wrote(s) THEN own[s][k] ELSE db[k]
  BY <1>1, OverRows DEF Wrote
<1>4. j.ids \subseteq MonitorsOf(db, j.chain)
  BY <1>1, <1>2, LockedRows DEF MonitorsOf
<1>5. /\ \A i \in Ids : (Monitor(i) \in Wrote(s) <=> i \in j.ids) /\ Table(i) \notin Wrote(s)
      /\ \A i \in Ids, b \in Blocks : Result(i, b) \in Wrote(s) <=> i \in j.decoded /\ b = j.block
      /\ \A x \in Chains : Chain(x) \notin Wrote(s)
      /\ Counter \notin Wrote(s)
  BY <1>1, <1>2, KeysDiffer
<1>6. \A i \in Ids : e[Monitor(i)] = IF i \in j.ids THEN [db[Monitor(i)] EXCEPT !.cursor = j.block]
                                                     ELSE db[Monitor(i)]
  BY <1>2, <1>3, <1>5, KeysAre
<1>7. \A i \in Ids, b \in Blocks : e[Result(i, b)] = IF i \in j.decoded /\ b = j.block THEN j.chain
                                                                                     ELSE db[Result(i, b)]
  BY <1>2, <1>3, <1>5, KeysAre
<1>8. Moves(db, e, j.chain, j.ids, j.decoded, j.block)
  BY <1>1, <1>2, <1>3, <1>4, <1>5, <1>6, <1>7, KeysAre DEF Moves
<1>9. QED
  BY <1>1, <1>2, <1>5, <1>8 DEF Effect, Guarded

LEMMA PgEffect ==
    ASSUME IInv, adapter = "postgres", NEW s \in Sessions, NEW j, ValidCall(j), j.op # "none",
           Holds(s, j, "pg_commit"), NEW e, e = Over(db, own[s])
    PROVE  /\ DatabaseOK(e) /\ Effect(j, db, e) /\ Whole(e) /\ Guarded(s)
           /\ \A x \in Chains : \/ <<Chain(x), "share">> \in locks[s]
                                \/ MonitorsOf(e, x) \subseteq MonitorsOf(db, x)
           /\ \A i \in Rows(s) : e[Monitor(i)] # None => e[Monitor(i)].chain = db[Monitor(i)].chain
           /\ NextId(e) = NextId(db)
           /\ \A i \in Ids : e[Monitor(i)] # None => i < NextId(db)
           /\ \A k \in Keys \ Wrote(s) : e[k] = db[k]
<1>1. /\ DatabaseOK(db) /\ RowsOK(own[s]) /\ Whole(db) /\ Below /\ LocksValid
      /\ j.op \in {"create_monitor", "delete_chain", "delete_monitor", "commit_block"}
  BY PgFacts DEF Data, NoOrphans, ValidCall, Job
<1>2. Effect(j, db, e) /\ Guarded(s)
  BY <1>1, PgCreates, PgDeletes, PgMoves
<1>3. DatabaseOK(e) /\ \A k \in Keys : e[k] = IF k \in Wrote(s) THEN own[s][k] ELSE db[k]
  BY <1>1, OverRows DEF Wrote
<1>4. /\ Whole(e)
      /\ \A x \in Chains : \/ j.op = "create_monitor" /\ x = j.chain
                           \/ MonitorsOf(e, x) \subseteq MonitorsOf(db, x)
  BY <1>1, <1>2, EffectWhole
<1>5. j.op = "create_monitor" => <<Chain(j.chain), "share">> \in locks[s]
  BY PgCreates
<1>6. NextId(e) = NextId(db)
  BY <1>2, <1>3, KeysAre DEF Guarded, NextId
<1>7. \A i \in Ids : e[Monitor(i)] # None => i < NextId(db)
  BY <1>1, <1>3, LockParts, KeysAre DEF Below, WrittenValid
<1>8. ASSUME NEW i \in Rows(s), e[Monitor(i)] # None
      PROVE  e[Monitor(i)].chain = db[Monitor(i)].chain
  <2>1. j.op # "create_monitor" /\ i \in Ids
    BY PgCreates, RowsAre
  <2>2. e[Monitor(i)].chain \in Chains /\ i \in MonitorsOf(e, e[Monitor(i)].chain)
    BY <1>3, <1>8, <2>1, DatabaseRows DEF MonitorsOf
  <2>3. QED
    BY <1>4, <2>1, <2>2 DEF MonitorsOf
<1>9. QED
  BY <1>2, <1>3, <1>4, <1>5, <1>6, <1>7, <1>8

\* A transaction is committed.
LEMMA DurableStep ==
    ASSUME IInv, adapter = "postgres", NEW s \in Sessions, NEW j, ValidCall(j), j.op # "none",
           Holds(s, j, "pg_commit"), db' = Over(db, own[s]), Released(s), UNCHANGED <<adapter, mongo>>,
           Control', \A o \in Sessions \ {s} : pc'[o] = pc[o] /\ call'[o] = call[o],
           pc'[s] = "idle", call'[s].op # "create_monitor"
    PROVE  IInv'
<1>1. /\ Control /\ Data /\ Supply /\ Below /\ LocksValid /\ \A o \in Sessions : PgOf(o)
      /\ Exclusive /\ LockedStay /\ TodoBelow /\ \A o \in Sessions : WrittenValid(o)
  BY PgFacts, LockParts
<1>2. /\ DatabaseOK(db') /\ Whole(db') /\ Guarded(s)
      /\ \A x \in Chains : \/ <<Chain(x), "share">> \in locks[s]
                           \/ MonitorsOf(db', x) \subseteq MonitorsOf(db, x)
      /\ \A i \in Rows(s) : db'[Monitor(i)] # None => db'[Monitor(i)].chain = db[Monitor(i)].chain
      /\ NextId(db') = NextId(db)
      /\ \A i \in Ids : db'[Monitor(i)] # None => i < NextId(db)
      /\ \A k \in Keys \ Wrote(s) : db'[k] = db[k]
  BY PgEffect
<1>3. \A o \in Sessions \ {s} : SamePg(o)
  BY ReleasedFacts DEF SamePg
<1>4. ASSUME NEW o \in Sessions \ {s}
      PROVE  /\ \A i \in Rows(o) : Monitor(i) \notin Wrote(s) /\ i \notin Rows(s) /\ i \in Ids
             /\ todo[o] \subseteq Ids
             /\ \A c \in Chains : <<Chain(c), "update">> \in locks[o] => <<Chain(c), "share">> \notin locks[s]
             /\ \A i \in Ids : Monitor(i) \in Wrote(o) => Monitor(i) \notin Wrote(s)
             /\ \A i \in todo[o] : Monitor(i) \in Wrote(s) => i \in Rows(s) /\ db[Monitor(i)] # None
  <2>1. \A i \in Rows(o) : Monitor(i) \notin Wrote(s) /\ i \notin Rows(s) /\ i \in Ids
    BY <1>1, LockedRows, RowsAre
  <2>2. \A c \in Chains : <<Chain(c), "update">> \in locks[o] => <<Chain(c), "share">> \notin locks[s]
    BY <1>1 DEF Exclusive
  <2>3. \A i \in Ids : Monitor(i) \in Wrote(o) => Monitor(i) \notin Wrote(s)
    BY <1>1 DEF WrittenValid
  <2>4. todo[o] \subseteq Ids
    BY <1>1 DEF Data
  <2>5. \A i \in todo[o] : Monitor(i) \in Wrote(s) => i \in Rows(s) /\ db[Monitor(i)] # None
    BY <1>1, <2>4 DEF WrittenValid
  <2>6. QED
    BY <2>1, <2>2, <2>3, <2>4, <2>5
<1>5. ASSUME NEW o \in Sessions \ {s} PROVE Respected(o)
  <2>1. \A i \in Rows(o) : /\ db'[Monitor(i)] = db[Monitor(i)]
                           /\ \A b \in Blocks : db'[Result(i, b)] = db[Result(i, b)]
    BY <1>2, <1>4, KeysAre DEF Guarded
  <2>2. \A i \in todo[o] : db'[Monitor(i)] # None =>
           db[Monitor(i)] # None /\ db'[Monitor(i)].chain = db[Monitor(i)].chain
    BY <1>2, <1>4, KeysAre
  <2>3. \A c \in Chains : <<Chain(c), "update">> \in locks[o] =>
           MonitorsOf(db', c) \subseteq MonitorsOf(db, c)
    BY <1>2, <1>4
  <2>4. \A i \in Ids : Monitor(i) \in Wrote(o) /\ db[Monitor(i)] = None => db'[Monitor(i)] = None
    BY <1>2, <1>4, KeysAre
  <2>5. QED
    BY <2>1, <2>2, <2>3, <2>4 DEF Respected
<1>6. \A o \in Sessions \ {s} : PgOf(o)'
  BY <1>1, <1>3, <1>5, PgKept
<1>7. PgOf(s)'
  <2>1. "idle" \notin Holding
    BY DEF Holding
  <2>2. QED
    BY <2>1, ReleasedFacts DEF PgOf
<1>8. /\ locks'[s] = {} /\ todo'[s] = {} /\ Wrote(s)' = {}
      /\ \A o \in Sessions \ {s} : /\ locks'[o] = locks[o] /\ todo'[o] = todo[o] /\ Wrote(o)' = Wrote(o)
                                   /\ Rows(o)' = Rows(o)
  BY ReleasedFacts DEF Wrote, Rows
<1>9. LocksValid'
  <2>1. Exclusive'
    BY <1>1, <1>8 DEF Exclusive
  <2>2. LockedStay'
    <3>1. ASSUME NEW o \in Sessions \ {s}, NEW l \in locks[o] PROVE db'[l[1]] # None
      <4>1. db[l[1]] # None /\ l[1] \in Lockable /\ l[1] \in Keys /\ l[2] \in {"share", "update"}
        BY <1>1, KeysAre DEF LockedStay, Data
      <4>2. l[1] \notin Wrote(s)
        <5>1. ASSUME NEW c \in Chains, l[1] = Chain(c) PROVE l[1] \notin Wrote(s)
          <6>1. <<Chain(c), "update">> \notin locks[s]
            BY <1>1, <5>1 DEF Exclusive
          <6>2. QED
            BY <1>2, <5>1, <6>1 DEF Guarded
        <5>2. ASSUME NEW i \in Ids, l[1] = Monitor(i) PROVE l[1] \notin Wrote(s)
          <6>1. i \notin Rows(s)
            BY <1>1, <5>2 DEF Exclusive, Rows
          <6>2. QED
            BY <1>1, <4>1, <5>2, <6>1 DEF WrittenValid
        <5>3. QED
          BY <4>1, <5>1, <5>2 DEF Lockable
      <4>3. QED
        BY <1>2, <4>1, <4>2
    <3>2. QED
      BY <1>8, <3>1 DEF LockedStay
  <2>3. TodoBelow'
    BY <1>1, <1>2, <1>8 DEF TodoBelow
  <2>4. WrittenValid(s)'
    BY <1>8 DEF WrittenValid
  <2>5. ASSUME NEW o \in Sessions \ {s} PROVE WrittenValid(o)'
    <3>1. ASSUME NEW i \in Ids, Monitor(i) \in Wrote(o)
          PROVE  /\ i < NextId(db') /\ db'[Monitor(i)] = db[Monitor(i)]
                 /\ i \in Rows(o) \/ db[Monitor(i)] = None
                 /\ \A p \in Sessions : /\ p # o => Monitor(i) \notin Wrote(p)
                                        /\ i \in todo[p] => db[Monitor(i)] # None
      BY <1>1, <1>2, <1>4, <3>1, KeysAre DEF WrittenValid
    <3>2. QED
      BY <1>8, <3>1 DEF WrittenValid
  <2>6. QED
    BY <2>1, <2>2, <2>3, <2>4, <2>5, LockParts
<1>10. Data'
  <2>1. \A o \in Sessions : RowsOK(own[o])'
    BY <1>1, <1>3, ReleasedFacts DEF Data, SamePg, RowsOK
  <2>2. QED
    BY <1>1, <1>2, <2>1, ReleasedFacts DEF Data, mongo
<1>11. Supply'
  <2>1. Ungiven' \subseteq Ungiven
    BY <1>1, UngivenFrame
  <2>2. QED
    BY <1>1, <1>2, <2>1, SupplyKept DEF Data
<1>12. Below' /\ NoOrphans'
  <2>1. Whole(db)'
    BY <1>2 DEF Whole
  <2>2. QED
    BY <1>2, <2>1 DEF Below, NoOrphans
<1>13. \A o \in Sessions : PgOf(o)'
  BY <1>6, <1>7
<1>14. QED
  BY <1>9, <1>10, <1>11, <1>12, <1>13, PgStep

LEMMA PgCommitInv ==
    ASSUME IInv, NEW s \in Sessions, PgCommit(s)
    PROVE  IInv'
<1>1. /\ pc[s] = "pg_commit" /\ pc[s] \in Holding /\ db' = Over(db, own[s])
      /\ applied' = [applied EXCEPT ![s] = @ + 1]
      /\ Released(s) /\ Returned(s, "idle", "ok") /\ UNCHANGED <<adapter, mongo>>
  BY DEF PgCommit, At, Durable, Holding
<1>2. /\ adapter = "postgres" /\ Control /\ applied[s] = 0 /\ Holds(s, call[s], "pg_commit")
      /\ ValidCall(call[s]) /\ call[s].op # "none"
  BY <1>1, HoldingFacts
<1>3. applied' = [applied EXCEPT ![s] = 1]
  BY <1>1, <1>2
<1>4. Control'
  <2>1. 1 \in 0 .. 1 /\ Returned(s, "idle", "ok") /\ adapter' = adapter
    BY <1>1
  <2>2. QED
    BY <1>2, <1>3, <2>1, ReturnControl
<1>5. /\ pc'[s] = "idle" /\ call'[s] = NoCall /\ NoCall.op # "create_monitor"
      /\ \A o \in Sessions \ {s} : pc'[o] = pc[o] /\ call'[o] = call[o]
  BY <1>1, <1>2, NoCallValid DEF Control, ControlTypes, Returned
<1>6. PICK j : j = call[s]
  OBVIOUS
<1>7. QED
  BY <1>1, <1>2, <1>4, <1>5, <1>6, DurableStep

LEMMA LateCommitInv ==
    ASSUME IInv, NEW s \in Sessions, LateCommit(s)
    PROVE  IInv'
<1>1. /\ pc[s] = "in_doubt" /\ db' = Over(db, own[s])
      /\ applied' = [applied EXCEPT ![s] = @ + 1] /\ pc' = [pc EXCEPT ![s] = "idle"]
      /\ Released(s) /\ UNCHANGED <<adapter, call, answer, mongo>>
  BY DEF LateCommit, Durable, Goto
<1>2. adapter = "postgres" /\ Control /\ ControlOf(s) /\ applied \in [Sessions -> 0 .. 1]
  BY <1>1, InvariantParts DEF Control, ControlOf, ControlTypes
<1>3. applied[s] = 0 /\ answer[s] = "error" /\ call[s].op = "none" /\ ValidCall(call[s])
  BY <1>1, <1>2 DEF ControlOf, OpsAt
<1>4. /\ ControlTypes' /\ pc'[s] = "idle" /\ applied'[s] = 1 /\ answer'[s] = "error" /\ call'[s] = call[s]
      /\ \A o \in Sessions \ {s} : SameControl(o)
  BY <1>1, <1>2, <1>3 DEF Control, ControlTypes, SameControl, Places
<1>5. "none" \in OpsAt("idle") /\ "idle" \notin Requests \cup Holding
  BY DEF OpsAt, Requests, Holding
<1>6. ControlOf(s)'
  BY <1>1, <1>2, <1>3, <1>4, <1>5 DEF ControlOf
<1>7. Control'
  BY <1>1, <1>2, <1>4, <1>6, ControlStep
<1>8. PICK j \in Job : ValidCall(j) /\ j.op # "none" /\ Holds(s, j, "pg_commit")
  BY <1>1, <1>2, PgFacts DEF PgOf
<1>9. QED
  BY <1>1, <1>2, <1>3, <1>4, <1>7, <1>8, DurableStep DEF SameControl

LEMMA PgSingleInv ==
    ASSUME IInv, adapter = "postgres", Single
    PROVE  IInv'
<1>1. Control /\ Data /\ Supply /\ Below /\ NoOrphans /\ LocksValid /\ \A o \in Sessions : PgOf(o)
  BY PgFacts
<1>2. PICK k \in Keys : \E v : SingleWrite(k, v)
  BY <1>1, SingleFacts DEF Data
<1>3. /\ \A s \in Sessions : k \notin Wrote(s) /\ <<k, "update">> \notin locks[s]
      /\ stale' = Outdated({k}) /\ UNCHANGED <<adapter, session, snapshot, postgres>>
      /\ DatabaseOK(db') /\ NoOrphans' /\ Below' /\ NextId(db') = NextId(db)
      /\ \A x \in Keys \ {k} : db'[x] = db[x]
      /\ db'[k] # None
      /\ \A i \in Ids : db'[Monitor(i)] # None <=> db[Monitor(i)] # None
      /\ \A i \in Ids : db[Monitor(i)] # None => db'[Monitor(i)].chain = db[Monitor(i)].chain
      /\ \A i \in Ids, b \in Blocks : k # Result(i, b)
  BY <1>2 DEF SingleWrite, WriteOne
<1>4. \A o \in Sessions : stale'[o] = {} /\ stale[o] = {}
  BY <1>1, <1>3 DEF Outdated, PgOf
<1>5. \A o \in Sessions : SamePg(o)
  BY <1>3, <1>4 DEF SamePg, session, postgres
<1>6. ASSUME NEW o \in Sessions PROVE Respected(o)
  <2>1. \A i \in Rows(o) : i \in Ids /\ k # Monitor(i)
    BY <1>3, RowsAre
  <2>2. \A i \in Rows(o) : /\ db'[Monitor(i)] = db[Monitor(i)]
                           /\ \A b \in Blocks : db'[Result(i, b)] = db[Result(i, b)]
    BY <1>3, <2>1, KeysAre
  <2>3. todo[o] \subseteq Ids
    BY <1>1 DEF Data
  <2>4. \A c \in Chains : MonitorsOf(db', c) \subseteq MonitorsOf(db, c)
    BY <1>3 DEF MonitorsOf
  <2>5. QED
    BY <1>3, <2>2, <2>3, <2>4 DEF Respected
<1>7. \A o \in Sessions : PgOf(o)'
  BY <1>1, <1>5, <1>6, PgKept
<1>8. LocksValid'
  <2>1. Exclusive /\ LockedStay /\ TodoBelow /\ \A o \in Sessions : WrittenValid(o)
    BY <1>1, LockParts
  <2>2. locks' = locks /\ todo' = todo /\ \A o \in Sessions : Wrote(o)' = Wrote(o) /\ Rows(o)' = Rows(o)
    BY <1>3 DEF session, postgres, Wrote, Rows
  <2>3. \A x \in Keys : db[x] # None => db'[x] # None
    BY <1>3
  <2>4. LockedStay'
    <3>1. \A o \in Sessions : \A l \in locks[o] : l[1] \in Keys
      BY <1>1, KeysAre DEF Data
    <3>2. QED
      BY <2>1, <2>2, <2>3, <3>1 DEF LockedStay
  <2>5. Exclusive'
    BY <2>1, <2>2 DEF Exclusive
  <2>6. TodoBelow'
    BY <1>3, <2>1, <2>2 DEF TodoBelow
  <2>7. ASSUME NEW o \in Sessions PROVE WrittenValid(o)'
    BY <1>3, <2>1, <2>2 DEF WrittenValid
  <2>8. QED
    BY <2>4, <2>5, <2>6, <2>7, LockParts
<1>9. Control'
  BY <1>1, <1>3, ControlFrame
<1>10. Data'
  <2>1. stale' \in [Sessions -> SUBSET Keys]
    BY <1>1, <1>3 DEF Data, Outdated
  <2>2. QED
    BY <1>1, <1>3, <2>1 DEF Data, session, postgres
<1>11. Supply'
  <2>1. Ungiven' \subseteq Ungiven
    BY <1>3 DEF Ungiven, session
  <2>2. QED
    BY <1>1, <1>3, <2>1, SupplyKept DEF Data
<1>12. QED
  BY <1>3, <1>7, <1>8, <1>9, <1>10, <1>11, PgStep

-----------------------------------------------------------------------------
(* The steps together.                                                     *)

\* Steps that leave the transactions alone.
LEMMA PgQuietInv ==
    ASSUME IInv, adapter = "postgres", UNCHANGED <<adapter, db, own, mongo, postgres>>, Control', Supply',
           \A s \in Sessions : \/ pc'[s] = pc[s] /\ call'[s] = call[s]
                               \/ pc[s] = "idle" /\ pc'[s] = "start"
    PROVE  IInv'
<1>1. Control /\ Data /\ Below /\ NoOrphans /\ LocksValid /\ \A o \in Sessions : PgOf(o)
  BY PgFacts
<1>2. ASSUME NEW s \in Sessions PROVE PgOf(s)'
  <2>1. own'[s] = own[s] /\ locks'[s] = locks[s] /\ todo'[s] = todo[s]
        /\ snapshot'[s] = snapshot[s] /\ stale'[s] = stale[s]
    BY DEF mongo, postgres
  <2>2. CASE pc'[s] = pc[s] /\ call'[s] = call[s]
    <3>1. SamePg(s) /\ Respected(s)
      BY <2>1, <2>2 DEF SamePg, Respected
    <3>2. QED
      BY <1>1, <3>1, PgKept
  <2>3. CASE pc[s] = "idle" /\ pc'[s] = "start"
    BY <1>1, <2>1, <2>3 DEF PgOf, Holding
  <2>4. QED
    BY <2>2, <2>3
<1>3. LocksValid'
  BY <1>1, LockParts DEF Exclusive, LockedStay, TodoBelow, WrittenValid, Rows, Wrote, postgres
<1>4. Data' /\ Below' /\ NoOrphans'
  BY <1>1 DEF Data, mongo, postgres, Below, NoOrphans, Whole
<1>5. QED
  BY <1>2, <1>3, <1>4, PgStep

LEMMA PgCallInv ==
    ASSUME IInv, adapter = "postgres", NEW s \in Sessions, Call(s)
    PROVE  IInv'
<1>1. Control /\ Data /\ Supply
  BY PgFacts
<1>2. PICK j : Begin(s, j) /\ Control' /\ Supply'
  BY <1>1, CallFacts DEF Data
<1>3. QED
  BY <1>1, <1>2, PgQuietInv DEF Begin, Control, ControlTypes

LEMMA PgStutter == ASSUME IInv, adapter = "postgres", UNCHANGED vars PROVE IInv'
<1>1. Control' /\ Supply'
  <2>1. Control'
    BY PgFacts, ControlFrame DEF vars
  <2>2. Supply'
    BY PgFacts DEF Supply, Ungiven, vars, session
  <2>3. QED
    BY <2>1, <2>2
<1>2. QED
  BY <1>1, PgQuietInv DEF vars, session, mongo, postgres

LEMMA PgNext ==
    ASSUME IInv, adapter = "postgres", [Next]_vars
    PROVE  IInv'
<1>1. ASSUME NEW s \in Sessions, RunPostgres(s) \/ FailPostgres(s) PROVE IInv'
  BY <1>1, BeginTransactionInv, ShareChainInv, InsertMonitorInv, CreateTableInv, LockChainInv,
     FindRowsInv, LockRowInv, DropTablesInv, DeleteRowsInv, MoveCursorsInv, InsertResultsInv,
     StatementRefusedInv, StatementFailsInv, PgCommitInv, PgCommitFailsInv, RollbackInv, LateCommitInv
     DEF RunPostgres, FailPostgres
<1>2. ASSUME NEW s \in Sessions, RunMongo(s) \/ FailMongo(s) PROVE IInv'
  <2>1. pc[s] \notin Requests \cup {"commit", "committed"}
    BY InvariantParts DEF Control, ControlOf
  <2>2. QED
    BY <1>2, <2>1 DEF RunMongo, FailMongo, StartTransaction, Request, RequestConflicts,
       RequestRefused, RequestFails, Commit, CommitUnknown, CommitAgain, CommitTransient, CommitFails
<1>3. QED
  BY <1>1, <1>2, PgCallInv, PgSingleInv, PgStutter DEF Next, Run, Failure

-----------------------------------------------------------------------------
(* The invariant holds at the start and is kept.                           *)

LEMMA NextInv == ASSUME IInv, [Next]_vars PROVE IInv'
<1>1. adapter \in {"mongodb", "postgres"}
  BY InvariantParts DEF Control, ControlTypes
<1>2. QED
  BY <1>1, MongoNext, PgNext

LEMMA StoredRows ==
    ASSUME NEW c \in Chains, NEW n \in 0 .. MaxStored, db = Stored(c, n)
    PROVE  /\ DatabaseOK(db)
           /\ \A x \in Chains : db[Chain(x)] = IF x = c THEN TRUE ELSE None
           /\ \A i \in Ids : db[Monitor(i)] = IF i <= n THEN NewMonitor(c) ELSE None
           /\ \A i \in Ids : db[Table(i)] = IF i <= n /\ adapter = "postgres" THEN c ELSE None
           /\ \A i \in Ids, b \in Blocks : db[Result(i, b)] = None
           /\ NextId(db) = n + 1
<1>1. /\ \A x \in Chains : Stored(c, n)[Chain(x)] = IF x = c THEN TRUE ELSE None
      /\ Stored(c, n)[Counter] = IF n > 0 THEN n ELSE None
  BY KeysAre DEF Stored, Chain, Counter
<1>2. /\ \A i \in Ids : Stored(c, n)[Monitor(i)] = IF i <= n THEN NewMonitor(c) ELSE None
      /\ \A i \in Ids : Stored(c, n)[Table(i)] = IF i <= n /\ adapter = "postgres" THEN c ELSE None
      /\ \A i \in Ids, b \in Blocks : Stored(c, n)[Result(i, b)] = None
  BY KeysAre DEF Stored, Chain, Counter, Monitor, Table, Result
<1>3. n \in Nat /\ (n > 0 => n \in Ids)
  BY DEF Ids
<1>4. NextId(db) = n + 1
  BY <1>1, <1>3 DEF NextId
<1>5. DOMAIN db = Keys
  BY DEF Stored
<1>6. \A k \in Keys : db[k] \in RowType(k)
  <2>1. ASSUME NEW k \in ResultKeys PROVE db[k] \in RowType(k)
    BY <1>2, KeysAre, RowTypes
  <2>2. ASSUME NEW x \in Chains PROVE db[Chain(x)] \in RowType(Chain(x))
    BY <1>1, RowTypes
  <2>3. ASSUME NEW i \in Ids PROVE db[Monitor(i)] \in RowType(Monitor(i)) /\ db[Table(i)] \in RowType(Table(i))
    BY <1>2, NewMonitorType, RowTypes
  <2>4. db[Counter] \in RowType(Counter)
    BY <1>1, <1>3, RowTypes
  <2>5. QED
    BY <2>1, <2>2, <2>3, <2>4, KeysAre
<1>7. QED
  BY <1>1, <1>2, <1>4, <1>5, <1>6 DEF DatabaseOK, RowsOK

LEMMA InitInv == ASSUME Init PROVE IInv
<1>1. DatabaseOK(db) /\ NoOrphans /\ Below
  <2>1. CASE db = [k \in Keys |-> None]
    <3>1. /\ \A x \in Chains : db[Chain(x)] = None
          /\ \A i \in Ids : db[Monitor(i)] = None /\ db[Table(i)] = None
          /\ \A i \in Ids, b \in Blocks : db[Result(i, b)] = None
      BY <2>1, KeysAre
    <3>2. DatabaseOK(db)
      BY <2>1, RowTypes DEF DatabaseOK, RowsOK
    <3>3. QED
      BY <3>1, <3>2 DEF NoOrphans, Whole, Below
  <2>2. ASSUME NEW c \in Chains, NEW n \in 0 .. MaxStored, db = Stored(c, n)
        PROVE  DatabaseOK(db) /\ NoOrphans /\ Below
    <3>1. /\ DatabaseOK(db)
          /\ \A x \in Chains : db[Chain(x)] = IF x = c THEN TRUE ELSE None
          /\ \A i \in Ids : db[Monitor(i)] = IF i <= n THEN NewMonitor(c) ELSE None
          /\ \A i \in Ids : db[Table(i)] = IF i <= n /\ adapter = "postgres" THEN c ELSE None
          /\ \A i \in Ids, b \in Blocks : db[Result(i, b)] = None
          /\ NextId(db) = n + 1
      BY <2>2, StoredRows
    <3>2. NoOrphans
      <4>1. db[Chain(c)] # None /\ NewMonitor(c) # None /\ NewMonitor(c).chain = c
        BY <3>1, NewMonitorType
      <4>2. QED
        BY <3>1, <4>1 DEF NoOrphans, Whole
    <3>3. Below
      BY <3>1, NewMonitorType DEF Below, Ids
    <3>4. QED
      BY <3>1, <3>2, <3>3
  <2>3. QED
    BY <2>1, <2>2 DEF Init
<1>2. /\ adapter \in {"mongodb", "postgres"}
      /\ \A s \in Sessions : /\ pc[s] = "idle" /\ call[s] = NoCall /\ own[s] = <<>> /\ applied[s] = 0
                             /\ answer[s] = "none" /\ snapshot[s] = <<>> /\ stale[s] = {}
                             /\ locks[s] = {} /\ todo[s] = {} /\ Wrote(s) = {} /\ Rows(s) = {}
  BY NoRows DEF Init, Wrote, Rows
<1>3. "idle" \notin Requests \cup Holding /\ "none" \in OpsAt("idle")
  BY DEF Requests, Holding, OpsAt
<1>4. Control
  <2>1. ControlTypes
    BY DEF Init, ControlTypes, Places
  <2>2. \A s \in Sessions : ControlOf(s)
    BY <1>2, <1>3, NoCallValid DEF ControlOf
  <2>3. QED
    BY <2>1, <2>2 DEF Control
<1>5. Data
  <2>1. \A s \in Sessions : RowsOK(own[s]) /\ snapshot[s] = <<>>
    BY <1>2, NoRows
  <2>2. QED
    BY <1>1, <2>1 DEF Init, Data
<1>6. IdsValid
  <2>1. Ungiven = {}
    BY <1>2, NoCallValid DEF Ungiven
  <2>2. Cardinality(Ungiven) = 0 /\ NextId(db) \in 1 .. MaxId + 1
    BY <1>1, <2>1, FS_EmptySet, DatabaseRows
  <2>3. QED
    BY <1>1, <2>2 DEF IdsValid, Below
<1>7. MongoValid
  BY <1>2, <1>3, MongoParts DEF MongoOf, Disjoint, Open
<1>8. PostgresValid
  <2>1. LocksValid
    BY <1>2, LockParts DEF Exclusive, LockedStay, TodoBelow, WrittenValid
  <2>2. QED
    BY <1>2, <1>3, <2>1 DEF PostgresValid
<1>9. QED
  BY <1>1, <1>4, <1>5, <1>6, <1>7, <1>8, InvariantParts

-----------------------------------------------------------------------------
(* Theorems.                                                               *)

\* The invariant holds between any two requests of any number of concurrent callers, of
\* either adapter: what an open transaction has written is what its operation makes of the
\* snapshot (MongoDB) or of the rows it has locked (PostgreSQL).
THEOREM Invariance == Spec => []IInv
<1>1. Init => IInv
  BY InitInv
<1>2. IInv /\ [Next]_vars => IInv'
  BY NextInv
<1>3. QED
  BY <1>1, <1>2, PTL DEF Spec

\* Every variable keeps its type, and no call takes effect twice.
THEOREM TypeCorrect == Spec => []TypeOK
<1>1. IInv => TypeOK
  BY DEF IInv
<1>2. QED
  BY <1>1, Invariance, PTL

\* No monitor outlives its chain and no result its monitor, with snapshots and with row
\* locks, whatever fails; and PostgreSQL has a table of results for each monitor and no other.
THEOREM NothingOrphaned == Spec => []NoOrphans
<1>1. IInv => NoOrphans
  BY DEF IInv
<1>2. QED
  BY <1>1, Invariance, PTL

\* A call succeeds only if its transaction took effect, and is refused only if it did not.
THEOREM ReportsAreHonest == Spec => []ReportIsHonest
<1>1. IInv => ReportIsHonest
  BY DEF IInv
<1>2. QED
  BY <1>1, Invariance, PTL

-----------------------------------------------------------------------------
(* What a step does to the database.                                       *)

\* A transaction takes effect.
Commits(s) ==
    /\ pc[s] \in {"commit", "pg_commit", "in_doubt"}
    /\ db' = Over(db, own[s]) /\ own' = [own EXCEPT ![s] = <<>>]
    /\ applied' = [applied EXCEPT ![s] = @ + 1] /\ UNCHANGED adapter

Quiet == UNCHANGED <<adapter, db>> /\ \A s \in Sessions : applied'[s] <= applied[s]

LEMMA Steps ==
    ASSUME IInv, Next
    PROVE  \/ Single \/ Quiet
           \/ \E s \in Sessions : InsertMonitor(s) \/ Commits(s)
<1>1. applied \in [Sessions -> 0 .. 1] /\ Control /\ DatabaseOK(db) /\ Supply
  BY InvariantParts DEF Control, ControlTypes, Data, IdsValid, Supply
<1>2. (UNCHANGED <<adapter, db, applied>>) => Quiet
  BY <1>1 DEF Quiet
<1>3. ASSUME NEW s \in Sessions, Call(s) PROVE Quiet
  <2>1. PICK j : Begin(s, j)
    BY <1>1, <1>3, CallFacts
  <2>2. QED
    BY <1>1, <2>1 DEF Begin, Quiet
<1>4. ASSUME NEW s \in Sessions, RunMongo(s) PROVE Quiet \/ Commits(s)
  <2>1. CASE Commit(s)
    BY <2>1 DEF Commit, Install, Ended, Commits
  <2>2. CASE ~ Commit(s)
    BY <1>2, <1>4, <2>2 DEF RunMongo, StartTransaction, Request, RequestConflicts, RequestRefused,
       CommitAgain
  <2>3. QED
    BY <2>1, <2>2
<1>5. ASSUME NEW s \in Sessions, FailMongo(s) PROVE Quiet \/ Commits(s)
  <2>1. CASE RequestFails(s) \/ CommitTransient(s)
    BY <1>2, <2>1 DEF RequestFails, CommitTransient
  <2>2. CASE CommitUnknown(s)
    BY <2>2 DEF CommitUnknown, Install, Aborted, Ended, Commits
  <2>3. CASE CommitFails(s)
    BY <1>2, <2>3 DEF CommitFails, Install, Ended, Commits
  <2>4. QED
    BY <1>5, <2>1, <2>2, <2>3 DEF FailMongo
<1>6. ASSUME NEW s \in Sessions, RunPostgres(s) PROVE Quiet \/ InsertMonitor(s) \/ Commits(s)
  <2>1. CASE PgCommit(s)
    BY <2>1 DEF PgCommit, At, Durable, Released, Commits
  <2>2. CASE LateCommit(s)
    BY <2>2 DEF LateCommit, Durable, Released, Commits
  <2>3. CASE ~ (PgCommit(s) \/ LateCommit(s) \/ InsertMonitor(s))
    BY <1>2, <1>6, <2>3 DEF RunPostgres, SameCall, BeginTransaction, ShareChain, CreateTable, LockChain,
       FindRows, LockRow, DropTables, DeleteRows, MoveCursors, InsertResults, StatementRefused, Rollback
  <2>4. QED
    BY <2>1, <2>2, <2>3
<1>7. ASSUME NEW s \in Sessions, FailPostgres(s) PROVE Quiet
  BY <1>2, <1>7 DEF FailPostgres, StatementFails, PgCommitFails
<1>8. QED
  BY <1>3, <1>4, <1>5, <1>6, <1>7 DEF Next, Run, Failure

LEMMA AdapterStays == ASSUME IInv, [Next]_vars PROVE adapter' = adapter
<1>1. CASE UNCHANGED vars
  BY <1>1 DEF vars
<1>2. CASE Single
  BY <1>2 DEF Single, CreateChain, UpdateChain, SetEnabled, WriteOne
<1>3. CASE Next /\ ~ Single
  BY <1>3, Steps DEF Quiet, Commits, InsertMonitor, SameCall
<1>4. QED
  BY <1>1, <1>2, <1>3

LEMMA CommitEffect ==
    ASSUME IInv, NEW s \in Sessions, Commits(s)
    PROVE  \E j : /\ ValidCall(j) /\ j.op # "none" /\ Effect(j, db, db')
                  /\ call[s].op # "none" => j = call[s]
<1>1. pc[s] \in Underway \cup {"in_doubt"} /\ Control
  BY InvariantParts DEF Commits, Underway, Holding
<1>2. CASE pc[s] = "commit"
  <2>1. adapter = "mongodb" /\ ValidCall(call[s]) /\ call[s].op # "none"
    BY <1>1, <1>2, AtWork DEF Control, ControlOf, Underway
  <2>2. QED
    BY <1>2, <2>1, CommitFacts DEF Commits
<1>3. CASE pc[s] = "pg_commit"
  <2>1. pc[s] \in Holding
    BY <1>3 DEF Holding
  <2>2. adapter = "postgres" /\ ValidCall(call[s]) /\ call[s].op # "none" /\ Holds(s, call[s], "pg_commit")
    BY <1>3, <2>1, HoldingFacts
  <2>3. PICK j : j = call[s]
    OBVIOUS
  <2>4. QED
    BY <2>2, <2>3, PgEffect DEF Commits
<1>4. CASE pc[s] = "in_doubt"
  <2>1. adapter = "postgres" /\ call[s].op = "none"
    BY <1>1, <1>4 DEF Control, ControlOf, OpsAt
  <2>2. PICK j \in Job : ValidCall(j) /\ j.op # "none" /\ Holds(s, j, "pg_commit")
    BY <1>4, <2>1, PgFacts DEF PgOf
  <2>3. QED
    BY <2>1, <2>2, PgEffect DEF Commits
<1>5. QED
  BY <1>2, <1>3, <1>4 DEF Commits

-----------------------------------------------------------------------------
\* A block commit that takes effect moves every monitor of its block and stores every
\* result of it, whatever else was committed since the block was planned.
THEOREM CommitsAreWhole == Spec => CommitIsWhole
<1>1. ASSUME IInv, [Next]_vars, NEW s \in Sessions, call[s].op = "commit_block", applied'[s] > applied[s]
      PROVE  \A i \in call[s].ids :
                /\ db'[Monitor(i)] # None /\ db'[Monitor(i)].cursor = call[s].block
                /\ i \in call[s].decoded => db'[Result(i, call[s].block)] # None
  <2>1. /\ applied \in [Sessions -> 0 .. 1] /\ DatabaseOK(db)
        /\ applied' \in [Sessions -> 0 .. 1]
    BY <1>1, NextInv, InvariantParts DEF Control, ControlTypes, Data
  <2>2. Next /\ ~ Quiet /\ ~ (UNCHANGED applied)
    BY <1>1, <2>1 DEF vars, session, Quiet
  <2>3. ~ Single /\ \A o \in Sessions : ~ InsertMonitor(o)
    BY <2>2 DEF Single, CreateChain, UpdateChain, SetEnabled, WriteOne, session, InsertMonitor, SameCall
  <2>4. PICK o \in Sessions : Commits(o)
    BY <1>1, <2>2, <2>3, Steps
  <2>5. o = s
    BY <1>1, <2>1, <2>4 DEF Commits
  <2>6. ValidCall(call[s]) /\ Effect(call[s], db, db')
    BY <1>1, <2>4, <2>5, CommitEffect
  <2>7. PICK j, e : j = call[s] /\ e = db'
    OBVIOUS
  <2>8. QED
    BY <1>1, <2>1, <2>6, <2>7, EffectOfCommit
<1>2. IInv /\ [Next]_vars =>
         [\A s \in Sessions :
             call[s].op = "commit_block" /\ applied'[s] > applied[s] =>
                \A i \in call[s].ids :
                   /\ db'[Monitor(i)] # None /\ db'[Monitor(i)].cursor = call[s].block
                   /\ i \in call[s].decoded => db'[Result(i, call[s].block)] # None]_vars
  BY <1>1
<1>3. QED
  BY <1>2, Invariance, PTL DEF Spec, CommitIsWhole

-----------------------------------------------------------------------------
(* The ids of monitors.                                                    *)

\* The new monitors of a transaction.
Fresh(s) == {i \in Ids : /\ Monitor(i) \in Wrote(s) /\ own[s][Monitor(i)] # None
                         /\ db[Monitor(i)] = None}

\* A transaction has one at most.
OneNew == adapter = "postgres" => \A s \in Sessions : \A i, j \in Fresh(s) : i = j

Used == (1 .. NextId(db) - 1) \ Pending

LEMMA PendingIs ==
    /\ \A i : i \in Pending <=> \E s \in Sessions : i \in Fresh(s)
    /\ \A i : i \in Pending' <=> \E s \in Sessions : i \in Fresh(s)'
BY DEF Pending, Fresh

\* Only create_monitor has a new monitor.
NoneNew == \A s \in Sessions : pc[s] \in Holding /\ call[s].op # "create_monitor" => Fresh(s) = {}

LEMMA NoneNewInv == IInv => NoneNew
<1> SUFFICES ASSUME IInv, NEW s \in Sessions, pc[s] \in Holding, call[s].op # "create_monitor",
                    NEW i \in Ids, Monitor(i) \in Wrote(s), own[s][Monitor(i)] # None
             PROVE  db[Monitor(i)] # None
  BY DEF Fresh, NoneNew
<1>1. /\ Holds(s, call[s], pc[s]) /\ LocksValid /\ RowsOK(own[s])
      /\ ValidCall(call[s]) /\ call[s].op # "none" /\ call[s].ids \subseteq Ids
  BY HoldingFacts
<1>2. call[s].op \in {"delete_chain", "delete_monitor", "commit_block"}
  BY <1>1 DEF ValidCall, Job
<1>3. call[s].op = "commit_block"
  BY <1>1, <1>2 DEF Holds, DeleteHolds
<1>4. /\ Wrote(s) = (IF pc[s] \in {"insert_results", "pg_commit"} THEN {Monitor(x) : x \in call[s].ids} ELSE {})
                    \cup (IF pc[s] = "pg_commit" THEN {Result(x, call[s].block) : x \in call[s].decoded} ELSE {})
      /\ pc[s] \in {"insert_results", "pg_commit"} => Rows(s) = call[s].ids
  BY <1>1, <1>3 DEF Holds, CommitHolds
<1>5. i \in Rows(s)
  BY <1>4, KeysDiffer
<1>6. QED
  BY <1>1, <1>5, LockParts, RowsAre DEF LockedStay

LEMMA NoneNewNext == IInv' => NoneNew'
BY NoneNewInv, PTL

\* MongoDB's transactions take the id with the commit.
MongoUsed == adapter = "mongodb" => Used = 1 .. NextId(db) - 1

LEMMA MongoUsedInv == IInv => MongoUsed
<1> SUFFICES ASSUME IInv, adapter = "mongodb", NEW i \in Pending PROVE ~ i < NextId(db)
  BY DatabaseRows, InvariantParts DEF Used, Data, MongoUsed
<1>1. PICK s \in Sessions : /\ i \in Ids /\ db[Monitor(i)] = None
                            /\ Monitor(i) \in Wrote(s) /\ own[s][Monitor(i)] # None
  BY DEF Pending
<1>2. Open(s)
  BY <1>1, MongoFacts, NoRows DEF MongoOf, Wrote
<1>3. /\ \A k \in Wrote(s) : db[k] = snapshot[s][k]
      /\ ValidCall(call[s]) /\ call[s].op # "none" /\ WritesOfCall(s)
      /\ DatabaseOK(db) /\ DatabaseOK(snapshot[s])
  BY <1>2, OpenFacts, Unchanged
<1>4. call[s].op \in {"create_monitor", "delete_chain", "delete_monitor", "commit_block"}
      /\ call[s].ids \subseteq Ids
  BY <1>3 DEF ValidCall, Job
<1>5. call[s].op \notin {"delete_chain", "delete_monitor"}
  BY <1>1, <1>3 DEF WritesOfCall, DeleteChainWrites, DeleteMonitorWrites
<1>6. call[s].op # "commit_block"
  <2> SUFFICES ASSUME call[s].op = "commit_block" PROVE FALSE
    OBVIOUS
  <2>1. CommitBlockWrites(s, call[s], pc[s], snapshot[s])
    BY <1>3 DEF WritesOfCall
  <2>2. i \in call[s].ids /\ pc[s] # "cursors"
    BY <1>1, <2>1, KeysDiffer DEF CommitBlockWrites
  <2>3. snapshot[s][Monitor(i)] # None
    BY <2>1, <2>2 DEF CommitBlockWrites, MonitorsOf
  <2>4. QED
    BY <1>1, <1>3, <2>3
<1>7. CreateWrites(s, call[s].chain, pc[s], snapshot[s])
  BY <1>3, <1>4, <1>5, <1>6 DEF WritesOfCall
<1>8. i = NextId(snapshot[s]) /\ Counter \in Wrote(s)
  BY <1>1, <1>7, KeysDiffer DEF CreateWrites
<1>9. NextId(snapshot[s]) = NextId(db)
  BY <1>3, <1>8 DEF NextId
<1>10. QED
  BY <1>3, <1>8, <1>9, DatabaseRows

LEMMA MongoUsedNext == IInv' => MongoUsed'
BY MongoUsedInv, PTL

-----------------------------------------------------------------------------
(* What a step of PostgreSQL's does to the new monitors.                   *)

Kept(S) == \A o \in S : Fresh(o)' = Fresh(o)

\* The transaction s is over, with its new monitors or without.
Ends(s) ==
    /\ Fresh(s)' = {} /\ Kept(Sessions \ {s}) /\ NextId(db)' = NextId(db)
    /\ Commits(s) \/ UNCHANGED db

LEMMA InsertFresh ==
    ASSUME IInv, NEW s \in Sessions, InsertMonitor(s)
    PROVE  /\ Fresh(s) = {} /\ Fresh(s)' = {NextId(db)} /\ Kept(Sessions \ {s})
           /\ NextId(db) \in Ids /\ NextId(db)' = NextId(db) + 1
           /\ \A k \in Keys \ {Counter} : db'[k] = db[k]
<1>1. pc[s] = "insert_monitor" /\ pc[s] \in Holding
  BY DEF InsertMonitor, At, Holding
<1>2. /\ adapter = "postgres" /\ DatabaseOK(db) /\ Holds(s, call[s], pc[s])
      /\ call[s].op = "create_monitor" /\ call[s].chain \in Chains
      /\ DOMAIN own = Sessions
  BY <1>1, HoldingFacts DEF OpsAt
<1>3. own[s] = <<>>
  BY <1>1, <1>2 DEF Holds, CreateHolds
<1>4. NextId(db) \in Ids
  <2>1. s \in Ungiven
    BY <1>1, <1>2 DEF Ungiven
  <2>2. QED
    BY <1>2, <2>1, PgFacts, IdToTake
<1>5. /\ db' = [db EXCEPT ![Counter] = NextId(db)] /\ DOMAIN db = Keys /\ Counter \in Keys
      /\ \A k \in Keys \ {Counter} : db'[k] = db[k] /\ db'[Counter] = NextId(db)
  BY <1>2, KeysAre DEF InsertMonitor, DatabaseOK
<1>6. NextId(db') = NextId(db) + 1
  BY <1>4, <1>5, StorageAssumption DEF NextId
<1>7. /\ Wrote(s)' = {Monitor(NextId(db))} /\ own'[s][Monitor(NextId(db))] = NewMonitor(call[s].chain)
      /\ \A o \in Sessions \ {s} : own'[o] = own[o]
  BY <1>2, <1>3, NoRows DEF InsertMonitor, Writes, With, Wrote
<1>8. db[Monitor(NextId(db))] = None
  BY <1>2, <1>4, PgFacts DEF Below, Ids
<1>9. \A i \in Ids : db'[Monitor(i)] = db[Monitor(i)]
  BY <1>5, KeysAre, KeysDiffer
<1>10. Fresh(s) = {}
  BY <1>3, NoRows DEF Fresh, Wrote
<1>11. Fresh(s)' = {NextId(db)}
  BY <1>2, <1>4, <1>7, <1>8, <1>9, NewMonitorType, KeysDiffer DEF Fresh
<1>12. Kept(Sessions \ {s})
  BY <1>7, <1>9 DEF Kept, Fresh, Wrote
<1>13. QED
  BY <1>4, <1>5, <1>6, <1>10, <1>11, <1>12

LEMMA CommitFresh ==
    ASSUME IInv, adapter = "postgres", NEW s \in Sessions, Commits(s)
    PROVE  Ends(s)
<1>1. /\ Data /\ LocksValid /\ DOMAIN own = Sessions
      /\ \A o \in Sessions \ {s} : own'[o] = own[o] /\ own'[s] = <<>>
  BY PgFacts DEF Data, Commits
<1>2. PICK j : ValidCall(j) /\ j.op # "none" /\ Holds(s, j, "pg_commit")
  <2>1. CASE pc[s] = "pg_commit"
    BY <2>1, HoldingFacts DEF Holding
  <2>2. CASE pc[s] = "in_doubt"
    BY <2>2, PgFacts DEF PgOf
  <2>3. pc[s] # "commit"
    BY PgFacts DEF Control, ControlOf
  <2>4. QED
    BY <2>1, <2>2, <2>3 DEF Commits
<1>3. NextId(db') = NextId(db) /\ \A k \in Keys \ Wrote(s) : db'[k] = db[k]
  BY <1>2, PgEffect DEF Commits
<1>4. \A o \in Sessions \ {s}, i \in Ids : Monitor(i) \in Wrote(o) => db'[Monitor(i)] = db[Monitor(i)]
  BY <1>1, <1>3, LockParts, KeysAre DEF WrittenValid
<1>5. Kept(Sessions \ {s})
  BY <1>1, <1>4 DEF Kept, Fresh, Wrote
<1>6. Fresh(s)' = {}
  BY <1>1, NoRows DEF Fresh, Wrote, Commits
<1>7. QED
  BY <1>3, <1>5, <1>6 DEF Ends

LEMMA PgSteps ==
    ASSUME IInv, IInv', adapter = "postgres", Next
    PROVE  \/ Kept(Sessions) /\ (Single \/ UNCHANGED db)
           \/ \E s \in Sessions : InsertMonitor(s) \/ Ends(s)
<1>1. ASSUME UNCHANGED <<db, own>> PROVE Kept(Sessions) /\ UNCHANGED db
  BY <1>1 DEF Kept, Fresh, Wrote
<1>2. Control /\ Data /\ Supply /\ NoOrphans /\ Below
  BY PgFacts
<1>3. ASSUME NEW s \in Sessions, Call(s) PROVE UNCHANGED <<db, own>>
  <2>1. PICK j : Begin(s, j)
    BY <1>2, <1>3, CallFacts DEF Data
  <2>2. QED
    BY <2>1 DEF Begin
<1>4. ASSUME Single PROVE Kept(Sessions)
  <2>1. PICK k \in Keys : \E v : SingleWrite(k, v)
    BY <1>2, <1>4, SingleFacts DEF Data
  <2>2. \A s \in Sessions : k \notin Wrote(s) /\ own'[s] = own[s] /\ \A x \in Keys \ {k} : db'[x] = db[x]
    BY <2>1 DEF SingleWrite, WriteOne, session
  <2>3. QED
    BY <2>2, KeysAre DEF Kept, Fresh, Wrote
<1>5. ASSUME NEW s \in Sessions, CreateTable(s) PROVE Kept(Sessions) /\ UNCHANGED db
  <2>1. pc[s] = "create_table" /\ pc[s] \in Holding /\ UNCHANGED db
    BY <1>5 DEF CreateTable, At, Holding
  <2>2. PICK w : DOMAIN w = {Table(i) : i \in {j \in Ids : Monitor(j) \in Wrote(s)}} /\ Writes(s, w)
    BY <1>5 DEF CreateTable
  <2>3. /\ \A o \in Sessions \ {s} : own'[o] = own[o]
        /\ own'[s] = With(own[s], w)
    BY <1>2, <2>2 DEF Writes, Data
  <2>4. \A i \in Ids : /\ Monitor(i) \in DOMAIN own'[s] <=> Monitor(i) \in Wrote(s)
                       /\ Monitor(i) \in Wrote(s) => own'[s][Monitor(i)] = own[s][Monitor(i)]
    BY <2>2, <2>3, KeysDiffer DEF With, Wrote
  <2>5. QED
    BY <2>1, <2>3, <2>4 DEF Kept, Fresh, Wrote
<1>6. ASSUME NEW s \in Sessions, DropTables(s) \/ DeleteRows(s) \/ MoveCursors(s) \/ InsertResults(s)
      PROVE  Kept(Sessions) /\ UNCHANGED db
  <2>1. /\ pc[s] \in {"drop_tables", "delete_rows", "move_cursors", "insert_results"}
        /\ UNCHANGED <<db, call>> /\ \E at \in Holding : pc' = [pc EXCEPT ![s] = at]
        /\ \E w : Writes(s, w)
    BY <1>6 DEF DropTables, DeleteRows, MoveCursors, InsertResults, At, Goto, SameCall, Holding
  <2>2. /\ call[s].op # "create_monitor" /\ pc[s] \in Holding /\ pc'[s] \in Holding
        /\ \A o \in Sessions \ {s} : own'[o] = own[o]
    BY <1>2, <2>1 DEF Control, ControlTypes, ControlOf, OpsAt, Holding, Data, Writes
  <2>3. Fresh(s) = {} /\ Fresh(s)' = {}
    BY <2>1, <2>2, NoneNewInv, NoneNewNext DEF NoneNew
  <2>4. QED
    BY <2>1, <2>2, <2>3 DEF Kept, Fresh, Wrote
<1>7. ASSUME NEW s \in Sessions, Rollback(s) PROVE Ends(s)
  <2>1. UNCHANGED db /\ own' = [own EXCEPT ![s] = <<>>]
    BY <1>7 DEF Rollback, Released
  <2>2. own'[s] = <<>> /\ \A o \in Sessions \ {s} : own'[o] = own[o]
    BY <1>2, <2>1 DEF Data
  <2>3. Fresh(s)' = {}
    BY <2>2, NoRows DEF Fresh, Wrote
  <2>4. Kept(Sessions \ {s})
    BY <2>1, <2>2 DEF Kept, Fresh, Wrote
  <2>5. QED
    BY <2>1, <2>3, <2>4 DEF Ends, NextId
<1>8. ASSUME NEW s \in Sessions, PgCommit(s) \/ LateCommit(s) PROVE Ends(s)
  <2>1. Commits(s)
    BY <1>8 DEF PgCommit, LateCommit, At, Durable, Released, Commits
  <2>2. QED
    BY <2>1, CommitFresh
<1>9. ASSUME NEW s \in Sessions, RunPostgres(s),
             ~ (\/ InsertMonitor(s) \/ CreateTable(s) \/ DropTables(s) \/ DeleteRows(s)
                \/ MoveCursors(s) \/ InsertResults(s) \/ PgCommit(s) \/ LateCommit(s) \/ Rollback(s))
      PROVE  UNCHANGED <<db, own>>
  BY <1>9 DEF RunPostgres, BeginTransaction, ShareChain, LockChain, FindRows, LockRow, StatementRefused
<1>10. ASSUME NEW s \in Sessions, FailPostgres(s) PROVE UNCHANGED <<db, own>>
  BY <1>10 DEF FailPostgres, StatementFails, PgCommitFails
<1>11. ASSUME NEW s \in Sessions PROVE ~ RunMongo(s) /\ ~ FailMongo(s)
  <2>1. pc[s] \notin Requests \cup {"commit", "committed"}
    BY InvariantParts DEF Control, ControlOf
  <2>2. QED
    BY <2>1 DEF RunMongo, FailMongo, StartTransaction, Request, RequestConflicts,
       RequestRefused, RequestFails, Commit, CommitUnknown, CommitAgain, CommitTransient, CommitFails
<1>12. QED
  <2>1. CASE Single
    BY <1>4, <2>1
  <2>2. ASSUME NEW s \in Sessions, Call(s) \/ FailPostgres(s) PROVE Kept(Sessions) /\ UNCHANGED db
    BY <1>1, <1>3, <1>10, <2>2
  <2>3. ASSUME NEW s \in Sessions, RunPostgres(s)
        PROVE  (Kept(Sessions) /\ UNCHANGED db) \/ InsertMonitor(s) \/ Ends(s)
    BY <1>1, <1>5, <1>6, <1>7, <1>8, <1>9, <2>3
  <2>4. QED
    BY <1>11, <2>1, <2>2, <2>3 DEF Next, Run, Failure

LEMMA OneNewStep ==
    ASSUME IInv, IInv', OneNew, [Next]_vars
    PROVE  OneNew'
<1> SUFFICES ASSUME adapter = "postgres", NEW s \in Sessions,
                    NEW i \in Fresh(s)', NEW j \in Fresh(s)'
             PROVE  i = j
  <2>1. adapter' = adapter
    BY AdapterStays
  <2>2. QED
    BY <2>1 DEF OneNew
<1>1. CASE UNCHANGED vars
  BY <1>1 DEF OneNew, Fresh, Wrote, vars, session
<1>2. CASE Next
  <2>1. CASE Kept(Sessions)
    BY <2>1 DEF OneNew, Kept
  <2>2. ASSUME NEW o \in Sessions, InsertMonitor(o) PROVE i = j
    BY <2>2, InsertFresh DEF OneNew, Kept
  <2>3. ASSUME NEW o \in Sessions, Ends(o) PROVE i = j
    BY <2>3 DEF OneNew, Kept, Ends
  <2>4. QED
    BY <1>2, <2>1, <2>2, <2>3, PgSteps
<1>3. QED
  BY <1>1, <1>2

-----------------------------------------------------------------------------
(* The refinement.                                                         *)

\* The new monitors of the step, whose ids were not used.
NewIds == {i \in Ids : db[Monitor(i)] = None /\ db'[Monitor(i)] # None}

Same ==
    /\ \A c \in Chains : db'[Chain(c)] = db[Chain(c)]
    /\ \A i \in Ids : db'[Monitor(i)] = db[Monitor(i)]
    /\ \A i \in Ids, b \in Blocks : db'[Result(i, b)] = db[Result(i, b)]

LEMMA SameRefines ==
    ASSUME Same, Used' = Used
    PROVE  UNCHANGED Atomic!vars
<1>1. [c \in Chains |-> db[Chain(c)]]' = [c \in Chains |-> db[Chain(c)]]
  BY DEF Same
<1>2. [i \in Ids |-> db[Monitor(i)]]' = [i \in Ids |-> db[Monitor(i)]]
  BY DEF Same
<1>3. {r \in Ids \X Blocks : db[Result(r[1], r[2])] # None}' = {r \in Ids \X Blocks : db[Result(r[1], r[2])] # None}
  BY DEF Same
<1>4. QED
  BY <1>1, <1>2, <1>3 DEF Atomic!vars, Used

\* The id of a monitor that is not created is lost.
LEMMA SkipRefines ==
    ASSUME Same, NEW i \in Ids, i \notin Used, Used' = Used \cup {i}
    PROVE  Atomic!Next
<1>1. [c \in Chains |-> db[Chain(c)]]' = [c \in Chains |-> db[Chain(c)]]
  BY DEF Same
<1>2. [x \in Ids |-> db[Monitor(x)]]' = [x \in Ids |-> db[Monitor(x)]]
  BY DEF Same
<1>3. {r \in Ids \X Blocks : db[Result(r[1], r[2])] # None}' = {r \in Ids \X Blocks : db[Result(r[1], r[2])] # None}
  BY DEF Same
<1>4. Atomic!SkipId(i)
  BY <1>1, <1>2, <1>3 DEF Atomic!SkipId, Used
<1>5. QED
  BY <1>4 DEF Atomic!Next

LEMMA CreateRefines ==
    ASSUME NEW c \in Chains, NEW i \in Ids, Creates(db, db', i, c), i \notin Used, Used' = Used \cup {i}
    PROVE  Atomic!Next
<1>1. [x \in Chains |-> db[Chain(x)]]' = [x \in Chains |-> db[Chain(x)]]
  BY DEF Creates
<1>2. [x \in Ids |-> db[Monitor(x)]]' = [[x \in Ids |-> db[Monitor(x)]] EXCEPT ![i] = NewMonitor(c)]
  BY DEF Creates
<1>3. {r \in Ids \X Blocks : db[Result(r[1], r[2])] # None}' = {r \in Ids \X Blocks : db[Result(r[1], r[2])] # None}
  BY DEF Creates
<1>4. [x \in Chains |-> db[Chain(x)]][c] # None
  BY DEF Creates
<1>5. Atomic!CreateMonitor(i, c)
  BY <1>1, <1>2, <1>3, <1>4 DEF Atomic!CreateMonitor, Used, NewMonitor
<1>6. QED
  BY <1>5 DEF Atomic!Next

LEMMA BelowIs ==
    ASSUME NEW c
    PROVE  Atomic!Below(c) = MonitorsOf(db, c)
BY DEF Atomic!Below, MonitorsOf

LEMMA DeleteChainRefines ==
    ASSUME NEW c \in Chains, db[Chain(c)] # None, Deletes(db, db', {c}, MonitorsOf(db, c)), Used' = Used
    PROVE  Atomic!Next
<1> DEFINE S == MonitorsOf(db, c)
<1>0. Deletes(db, db', {c}, S) /\ Atomic!Below(c) = S
  BY BelowIs
<1> HIDE DEF S
<1>1. [x \in Chains |-> db[Chain(x)]]' = [[x \in Chains |-> db[Chain(x)]] EXCEPT ![c] = None]
  BY <1>0 DEF Deletes
<1>2. [x \in Ids |-> db[Monitor(x)]]' =
         [x \in Ids |-> IF x \in S THEN None ELSE [y \in Ids |-> db[Monitor(y)]][x]]
  BY <1>0 DEF Deletes
<1>3. {r \in Ids \X Blocks : db[Result(r[1], r[2])] # None}' =
         {r \in {q \in Ids \X Blocks : db[Result(q[1], q[2])] # None} : r[1] \notin S}
  BY <1>0 DEF Deletes
<1>4. [x \in Chains |-> db[Chain(x)]][c] # None
  OBVIOUS
<1>5. Atomic!DeleteChain(c)
  BY <1>0, <1>1, <1>2, <1>3, <1>4 DEF Atomic!DeleteChain, Used
<1>6. QED
  BY <1>5 DEF Atomic!Next

LEMMA DeleteMonitorRefines ==
    ASSUME NEW i \in Ids, db[Monitor(i)] # None, Deletes(db, db', {}, {i}), Used' = Used
    PROVE  Atomic!Next
<1>1. [x \in Chains |-> db[Chain(x)]]' = [x \in Chains |-> db[Chain(x)]]
  BY DEF Deletes
<1>2. [x \in Ids |-> db[Monitor(x)]]' = [[x \in Ids |-> db[Monitor(x)]] EXCEPT ![i] = None]
  BY DEF Deletes
<1>3. {r \in Ids \X Blocks : db[Result(r[1], r[2])] # None}' =
         {r \in {q \in Ids \X Blocks : db[Result(q[1], q[2])] # None} : r[1] # i}
  BY DEF Deletes
<1>4. [x \in Ids |-> db[Monitor(x)]][i] # None
  OBVIOUS
<1>5. Atomic!DeleteMonitor(i)
  BY <1>1, <1>2, <1>3, <1>4 DEF Atomic!DeleteMonitor, Used
<1>6. QED
  BY <1>5 DEF Atomic!Next

LEMMA CommitRefines ==
    ASSUME NEW c \in Chains, NEW S \in SUBSET Ids, NEW D \in SUBSET S, NEW b \in Blocks,
           Moves(db, db', c, S, D, b), Used' = Used
    PROVE  Atomic!Next
<1>1. [x \in Chains |-> db[Chain(x)]]' = [x \in Chains |-> db[Chain(x)]]
  BY DEF Moves
<1>2. [x \in Ids |-> db[Monitor(x)]]' =
         [x \in Ids |-> IF x \in S THEN [[y \in Ids |-> db[Monitor(y)]][x] EXCEPT !.cursor = b]
                                   ELSE [y \in Ids |-> db[Monitor(y)]][x]]
  BY DEF Moves
<1>3. {r \in Ids \X Blocks : db[Result(r[1], r[2])] # None}' =
         {r \in Ids \X Blocks : db[Result(r[1], r[2])] # None} \cup {<<i, b>> : i \in D}
  <2>1. c # None
    BY StorageAssumption
  <2>2. QED
    BY <2>1 DEF Moves
<1>4. S \subseteq Atomic!Below(c) /\ \A i \in D : <<i, b>> \notin {r \in Ids \X Blocks : db[Result(r[1], r[2])] # None}
  BY BelowIs DEF Moves
<1>5. Atomic!CommitBlock(c, S, D, b)
  BY <1>1, <1>2, <1>3, <1>4 DEF Atomic!CommitBlock, Used
<1>6. QED
  BY <1>5 DEF Atomic!Next

LEMMA EffectRefines ==
    ASSUME DatabaseOK(db), DatabaseOK(db'), NoOrphans, NEW j, ValidCall(j), j.op # "none",
           Effect(j, db, db'), NewIds \cap Used = {}, Used' = Used \cup NewIds
    PROVE  Atomic!Next
<1>1. /\ j.op \in {"create_monitor", "delete_chain", "delete_monitor", "commit_block"}
      /\ j.chain \in Chains /\ j.ids \in SUBSET Ids
  BY DEF ValidCall, Job
<1>2. CASE j.op = "create_monitor"
  <2>1. PICK i \in Ids : Creates(db, db', i, j.chain)
    BY <1>2 DEF Effect
  <2>2. NewIds = {i}
    BY <1>1, <2>1, NewMonitorType DEF NewIds, Creates
  <2>3. QED
    BY <1>1, <2>1, <2>2, CreateRefines
<1>3. ASSUME j.op # "create_monitor" PROVE Used' = Used
  <2>1. \A x \in Chains : MonitorsOf(db', x) \subseteq MonitorsOf(db, x)
    BY <1>3, EffectWhole DEF NoOrphans
  <2>2. NewIds = {}
    BY <2>1, DatabaseRows DEF NewIds, MonitorsOf
  <2>3. QED
    BY <2>2
<1>4. CASE j.op = "delete_chain"
  BY <1>1, <1>3, <1>4, DeleteChainRefines DEF Effect
<1>5. CASE j.op = "delete_monitor"
  <2>1. PICK i \in Ids : j.ids = {i}
    BY <1>5 DEF ValidCall
  <2>2. QED
    BY <1>3, <1>5, <2>1, DeleteMonitorRefines DEF Effect
<1>6. CASE j.op = "commit_block"
  <2>1. j.block \in Blocks /\ j.decoded \in SUBSET j.ids
    BY <1>6 DEF ValidCall
  <2>2. QED
    BY <1>1, <1>3, <1>6, <2>1, CommitRefines DEF Effect
<1>7. QED
  BY <1>1, <1>2, <1>4, <1>5, <1>6

\* CreateChain and UpdateChain are PutChain, whatever was there.
LEMMA SingleRefines ==
    ASSUME DatabaseOK(db), Single, Used' = Used
    PROVE  Atomic!Next
<1>1. ASSUME NEW c \in Chains, NEW en \in BOOLEAN, db' = [db EXCEPT ![Chain(c)] = en]
      PROVE  Atomic!Next
  <2>0. /\ \A x \in Chains : db'[Chain(x)] = IF x = c THEN en ELSE db[Chain(x)]
        /\ \A x \in Ids : db'[Monitor(x)] = db[Monitor(x)]
        /\ \A x \in Ids, b \in Blocks : db'[Result(x, b)] = db[Result(x, b)]
    BY <1>1, KeysAre, KeysDiffer DEF DatabaseOK
  <2>1. [x \in Chains |-> db[Chain(x)]]' = [[x \in Chains |-> db[Chain(x)]] EXCEPT ![c] = en]
    BY <2>0
  <2>2. [x \in Ids |-> db[Monitor(x)]]' = [x \in Ids |-> db[Monitor(x)]]
    BY <2>0
  <2>3. {r \in Ids \X Blocks : db[Result(r[1], r[2])] # None}' = {r \in Ids \X Blocks : db[Result(r[1], r[2])] # None}
    BY <2>0
  <2>4. Atomic!PutChain(c, en)
    BY <2>1, <2>2, <2>3 DEF Atomic!PutChain, Used
  <2>5. QED
    BY <2>4 DEF Atomic!Next
<1>2. ASSUME NEW i \in Ids, NEW en \in BOOLEAN, SetEnabled(i, en)
      PROVE  Atomic!Next
  <2>0. /\ \A x \in Chains : db'[Chain(x)] = db[Chain(x)]
        /\ \A x \in Ids : db'[Monitor(x)] = IF x = i THEN [db[Monitor(x)] EXCEPT !.enabled = en]
                                                     ELSE db[Monitor(x)]
        /\ \A x \in Ids, b \in Blocks : db'[Result(x, b)] = db[Result(x, b)]
        /\ db[Monitor(i)] # None
    BY <1>2, KeysAre, KeysDiffer DEF DatabaseOK, SetEnabled, WriteOne
  <2>1. [x \in Chains |-> db[Chain(x)]]' = [x \in Chains |-> db[Chain(x)]]
    BY <2>0
  <2>2. [x \in Ids |-> db[Monitor(x)]]' = [[x \in Ids |-> db[Monitor(x)]] EXCEPT ![i].enabled = en]
    BY <2>0
  <2>3. {r \in Ids \X Blocks : db[Result(r[1], r[2])] # None}' = {r \in Ids \X Blocks : db[Result(r[1], r[2])] # None}
    BY <2>0
  <2>4. [x \in Ids |-> db[Monitor(x)]][i] # None
    BY <2>0
  <2>5. Atomic!SetEnabled(i, en)
    BY <2>1, <2>2, <2>3, <2>4 DEF Atomic!SetEnabled, Used
  <2>6. QED
    BY <2>5 DEF Atomic!Next
<1>3. QED
  BY <1>1, <1>2, StorageAssumption DEF Single, CreateChain, UpdateChain, WriteOne

LEMMA MongoRefines ==
    ASSUME IInv, IInv', adapter = "mongodb", Next
    PROVE  Atomic!Next \/ UNCHANGED Atomic!vars
<1>1. /\ DatabaseOK(db) /\ DatabaseOK(db') /\ NoOrphans /\ Below /\ Control
      /\ NextId(db) \in Nat /\ NextId(db') \in Nat
  <2>1. DatabaseOK(db) /\ DatabaseOK(db') /\ NoOrphans /\ Below /\ Control
    BY MongoFacts, InvariantParts DEF Data
  <2>2. QED
    BY <2>1, DatabaseRows
<1>2. Used = 1 .. NextId(db) - 1 /\ Used' = 1 .. NextId(db') - 1
  BY MongoUsedInv, MongoUsedNext, AdapterStays DEF MongoUsed
<1>3. CASE Single
  <2>1. NextId(db') = NextId(db)
    BY <1>1, <1>3, SingleFacts DEF SingleWrite
  <2>2. QED
    BY <1>1, <1>2, <1>3, <2>1, SingleRefines
<1>4. CASE Quiet
  <2>1. db' = db
    BY <1>4 DEF Quiet
  <2>2. QED
    BY <1>2, <2>1, SameRefines DEF Same
<1>5. ASSUME NEW s \in Sessions, Commits(s) PROVE Atomic!Next
  <2>1. pc[s] = "commit"
    BY <1>1, <1>5 DEF Commits, Control, ControlOf, Holding
  <2>2. PICK e : e = db'
    OBVIOUS
  <2>3. /\ Effect(call[s], db, e) /\ e = Over(db, own[s])
        /\ NextId(e) = IF call[s].op = "create_monitor" THEN NextId(db) + 1 ELSE NextId(db)
        /\ ValidCall(call[s]) /\ call[s].op # "none"
    BY <1>1, <1>5, <2>1, <2>2, CommitFacts, AtWork DEF Commits, Underway
  <2>4. NewIds = IF call[s].op = "create_monitor" THEN {NextId(db)} ELSE {}
    <3>1. CASE call[s].op = "create_monitor"
      <4>1. NextId(db) \in Ids /\ Creates(db, e, NextId(db), call[s].chain) /\ call[s].chain \in Chains
        BY <2>1, <2>3, <3>1, CommitCreates DEF ValidCall
      <4>2. QED
        BY <2>2, <3>1, <4>1, NewMonitorType DEF NewIds, Creates
    <3>2. CASE call[s].op # "create_monitor"
      <4>1. PICK j : j = call[s]
        OBVIOUS
      <4>2. \A x \in Chains : MonitorsOf(e, x) \subseteq MonitorsOf(db, x)
        BY <1>1, <2>3, <3>2, <4>1, EffectWhole DEF NoOrphans
      <4>3. QED
        BY <1>1, <2>2, <3>2, <4>2, DatabaseRows DEF NewIds, MonitorsOf
    <3>3. QED
      BY <3>1, <3>2
  <2>5. NewIds \cap Used = {} /\ Used' = Used \cup NewIds
    <3>1. NextId(db) >= 1
      BY <1>1, DatabaseRows
    <3>2. QED
      BY <1>1, <1>2, <2>2, <2>3, <2>4, <3>1
  <2>6. PICK j : j = call[s]
    OBVIOUS
  <2>7. QED
    BY <1>1, <2>2, <2>3, <2>5, <2>6, EffectRefines
<1>6. ASSUME NEW s \in Sessions PROVE ~ InsertMonitor(s)
  BY <1>1 DEF InsertMonitor, At, Control, ControlOf, Holding
<1>7. QED
  BY <1>3, <1>4, <1>5, <1>6, Steps

LEMMA PgRefines ==
    ASSUME IInv, IInv', OneNew, adapter = "postgres", Next
    PROVE  Atomic!Next \/ UNCHANGED Atomic!vars
<1>1. /\ DatabaseOK(db) /\ DatabaseOK(db') /\ NoOrphans /\ Below /\ LocksValid /\ Data
      /\ NextId(db) \in Nat /\ NextId(db') \in Nat /\ NextId(db) >= 1
  <2>1. DatabaseOK(db) /\ DatabaseOK(db') /\ NoOrphans /\ Below /\ LocksValid /\ Data
    BY PgFacts, InvariantParts DEF Data
  <2>2. QED
    BY <2>1, DatabaseRows
<1>2. ASSUME Kept(Sessions), NextId(db') = NextId(db) PROVE Used' = Used
  <2>1. Pending' = Pending
    BY <1>2, PendingIs DEF Kept
  <2>2. QED
    BY <1>2, <2>1 DEF Used
<1>3. CASE Kept(Sessions) /\ Single
  <2>1. NextId(db') = NextId(db)
    BY <1>1, <1>3, SingleFacts DEF SingleWrite
  <2>2. QED
    BY <1>1, <1>2, <1>3, <2>1, SingleRefines
<1>4. CASE Kept(Sessions) /\ UNCHANGED db
  BY <1>2, <1>4, SameRefines DEF Same
<1>5. ASSUME NEW s \in Sessions, InsertMonitor(s) PROVE UNCHANGED Atomic!vars
  <2>1. /\ Fresh(s) = {} /\ Fresh(s)' = {NextId(db)} /\ Kept(Sessions \ {s})
        /\ NextId(db') = NextId(db) + 1
        /\ \A k \in Keys \ {Counter} : db'[k] = db[k]
    BY <1>5, InsertFresh
  <2>2. \A i : i \in Pending' <=> i \in Pending \/ i = NextId(db)
    BY <2>1, PendingIs DEF Kept
  <2>3. Used' = Used
    BY <1>1, <2>1, <2>2 DEF Used
  <2>4. Same
    BY <2>1, KeysAre, KeysDiffer DEF Same
  <2>5. QED
    BY <2>3, <2>4, SameRefines
<1>6. ASSUME NEW s \in Sessions, Ends(s) PROVE Atomic!Next \/ UNCHANGED Atomic!vars
  <2>1. /\ Fresh(s)' = {} /\ Kept(Sessions \ {s}) /\ NextId(db') = NextId(db)
        /\ Commits(s) \/ UNCHANGED db
    BY <1>6 DEF Ends
  <2>2. /\ \A i \in Fresh(s) : i \in Ids /\ i < NextId(db) /\ i \in Pending /\ i \notin Used
        /\ \A o \in Sessions \ {s} : Fresh(s) \cap Fresh(o) = {}
    BY <1>1, LockParts, PendingIs DEF Fresh, WrittenValid, Used
  <2>3. \A i : i \in Pending' <=> i \in Pending /\ i \notin Fresh(s)
    BY <2>1, <2>2, PendingIs DEF Kept
  <2>4. Used' = Used \cup Fresh(s)
    BY <1>1, <2>1, <2>2, <2>3 DEF Used, Ids
  <2>5. CASE Commits(s)
    <3>1. NewIds = Fresh(s)
      <4>1. \A k \in Keys : db'[k] = IF k \in Wrote(s) THEN own[s][k] ELSE db[k]
        BY <1>1, <2>5, OverRows DEF Commits, Data, Wrote
      <4>2. QED
        BY <4>1, KeysAre DEF NewIds, Fresh
    <3>2. PICK j : ValidCall(j) /\ j.op # "none" /\ Effect(j, db, db')
      BY <2>5, CommitEffect
    <3>3. QED
      BY <1>1, <2>2, <2>4, <3>1, <3>2, EffectRefines
  <2>6. CASE UNCHANGED db
    <3>1. Same
      BY <2>6 DEF Same
    <3>2. CASE Fresh(s) = {}
      BY <2>4, <3>1, <3>2, SameRefines
    <3>3. CASE Fresh(s) # {}
      <4>1. PICK i \in Fresh(s) : Fresh(s) = {i}
        BY <3>3 DEF OneNew
      <4>2. QED
        BY <2>2, <2>4, <3>1, <4>1, SkipRefines
    <3>4. QED
      BY <3>2, <3>3
  <2>7. QED
    BY <2>1, <2>5, <2>6
<1>7. QED
  BY <1>3, <1>4, <1>5, <1>6, PgSteps

LEMMA InitRefines == Init => Atomic!Init /\ OneNew
<1> SUFFICES ASSUME Init PROVE Atomic!Init /\ OneNew
  OBVIOUS
<1>1. /\ DatabaseOK(db) /\ Whole(db) /\ Below /\ NextId(db) \in 1 .. MaxId + 1
  <2>1. DatabaseOK(db) /\ NoOrphans /\ Below
    BY InitInv, InvariantParts DEF Data, IdsValid, Below
  <2>2. QED
    BY <2>1, DatabaseRows DEF NoOrphans
<1>2. \A s \in Sessions : Wrote(s) = {} /\ Fresh(s) = {}
  BY NoRows DEF Init, Wrote, Fresh
<1>3. Pending = {}
  BY <1>2, PendingIs
<1>4. [c \in Chains |-> db[Chain(c)]] \in [Chains -> BOOLEAN \cup {None}]
  BY <1>1, DatabaseRows
<1>5. Used \subseteq Ids
  BY <1>1, StorageAssumption DEF Used, Ids
<1>6. ASSUME NEW i \in Ids, db[Monitor(i)] # None
      PROVE  i \in Used /\ db[Monitor(i)].chain \in Chains /\ db[Chain(db[Monitor(i)].chain)] # None
  BY <1>1, <1>3, <1>6, DatabaseRows DEF Used, Whole, Below, Ids
<1>7. \A r \in {q \in Ids \X Blocks : db[Result(q[1], q[2])] # None} : db[Monitor(r[1])] # None /\ r[1] \in Ids
  BY <1>1 DEF Whole
<1>8. Atomic!Init
  BY <1>4, <1>5, <1>6, <1>7 DEF Atomic!Init, Used
<1>9. QED
  BY <1>2, <1>8 DEF OneNew

\* However transactions interleave, wait, conflict, fail and are repeated, in either adapter
\* and with any number of callers, the database changes as if every operation had happened
\* at once: each step of the adapters is a step of StorageAtomic or none.
THEOREM Implements == Spec => ImplementsAtomic
<1>1. IInv /\ IInv' /\ OneNew /\ [Next]_vars => OneNew'
  BY OneNewStep
<1>2. IInv /\ IInv' /\ OneNew /\ [Next]_vars => [Atomic!Next]_(Atomic!vars)
  <2> SUFFICES ASSUME IInv, IInv', OneNew, [Next]_vars PROVE Atomic!Next \/ UNCHANGED Atomic!vars
    OBVIOUS
  <2>1. CASE Next
    <3>1. adapter \in {"mongodb", "postgres"}
      BY InvariantParts DEF Control, ControlTypes
    <3>2. QED
      BY <2>1, <3>1, MongoRefines, PgRefines
  <2>2. CASE UNCHANGED vars
    <3>1. db' = db /\ own' = own
      BY <2>2 DEF vars, session
    <3>2. Used' = Used /\ Same
      BY <3>1 DEF Used, Pending, Wrote, Same
    <3>3. QED
      BY <3>2, SameRefines
  <2>3. QED
    BY <2>1, <2>2
<1>3. QED
  BY <1>1, <1>2, InitRefines, Invariance, PTL DEF Spec, ImplementsAtomic, Atomic!Spec
=============================================================================
