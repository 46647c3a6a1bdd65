------------------------------- MODULE Storage -------------------------------
(***************************************************************************)
(* The storage of a process, with either adapter (a build has exactly one), *)
(* under concurrent callers: what both promise.                             *)
(***************************************************************************)
EXTENDS MongoStorage, PostgresStorage

\* A database from an earlier run: at most one chain, with the monitors 1 .. n.
Stored(c, n) ==
    [k \in Keys |->
        CASE k = Chain(c) -> TRUE
          [] k[1] = "monitor" /\ k[2] <= n -> NewMonitor(c)
          [] k = Counter /\ n > 0 -> n
          [] k[1] = "table" /\ k[2] <= n /\ adapter = "postgres" -> c
          [] OTHER -> None]

Init ==
    /\ adapter \in {"mongodb", "postgres"}
    /\ \/ db = [k \in Keys |-> None]
       \/ \E c \in Chains, n \in 0 .. MaxStored : db = Stored(c, n)
    /\ pc = [s \in Sessions |-> "idle"]
    /\ call = [s \in Sessions |-> NoCall]
    /\ own = [s \in Sessions |-> <<>>]
    /\ applied = [s \in Sessions |-> 0]
    /\ answer = [s \in Sessions |-> "none"]
    /\ calls = 0 /\ faults = 0
    /\ snapshot = [s \in Sessions |-> <<>>]
    /\ stale = [s \in Sessions |-> {}]
    /\ locks = [s \in Sessions |-> {}]
    /\ todo = [s \in Sessions |-> {}]

Call(s) ==
    \/ \E c \in Chains :
          \/ CreateMonitor(s, c) \/ DeleteChain(s, c)
          \/ \E S, D \in SUBSET Ids, b \in Blocks : CommitBlock(s, c, S, D, b)
    \/ \E i \in Ids : DeleteMonitor(s, i)

Run(s) == RunMongo(s) \/ RunPostgres(s)

Failure(s) == FailMongo(s) \/ FailPostgres(s)

Single ==
    \E en \in Flags :
       \/ \E c \in Chains : CreateChain(c, en) \/ UpdateChain(c, en)
       \/ \E i \in Ids : SetEnabled(i, en)

Next == Single \/ \E s \in Sessions : Call(s) \/ Run(s) \/ Failure(s)

Spec == Init /\ [][Next]_vars

\* The runtime polls every caller and the server answers.
FairSpec == Spec /\ \A s \in Sessions : WF_vars(Run(s))

-----------------------------------------------------------------------------
(* Correctness.                                                            *)

\* What a row may hold; a row that is not there is None.
RowType(k) ==
    {None} \cup
    CASE k[1] = "chain"   -> BOOLEAN
      [] k[1] = "monitor" -> [chain : Chains, cursor : Blocks \cup {None}, enabled : BOOLEAN]
      [] k[1] = "counter" -> Ids
      [] OTHER            -> Chains

RowsOK(w) == DOMAIN w \subseteq Keys /\ \A k \in DOMAIN w : w[k] \in RowType(k)

DatabaseOK(d) == RowsOK(d) /\ DOMAIN d = Keys

Lockable == {Chain(c) : c \in Chains} \cup {Monitor(i) : i \in Ids}

\* Every variable has its type, and no call takes effect twice.
TypeOK ==
    /\ adapter \in {"mongodb", "postgres"}
    /\ DatabaseOK(db)
    /\ pc \in [Sessions -> Requests \cup {"idle", "start", "commit", "committed"}
                           \cup Holding \cup {"rollback", "in_doubt"}]
    /\ DOMAIN own = Sessions /\ DOMAIN snapshot = Sessions
    /\ \A s \in Sessions : /\ RowsOK(own[s])
                           /\ snapshot[s] # <<>> => DatabaseOK(snapshot[s])
    /\ stale \in [Sessions -> SUBSET Keys]
    /\ locks \in [Sessions -> SUBSET (Lockable \X {"share", "update"})]
    /\ todo \in [Sessions -> SUBSET Ids]
    /\ applied \in [Sessions -> 0 .. 1]
    /\ answer \in [Sessions -> {"none", "ok", "refused", "error"}]

\* Nothing in d hangs in the air.
Whole(d) ==
    /\ \A i \in Ids : d[Monitor(i)] # None => d[Chain(d[Monitor(i)].chain)] # None
    /\ \A i \in Ids, b \in Blocks :
          d[Result(i, b)] # None => d[Monitor(i)] # None /\ d[Monitor(i)].chain = d[Result(i, b)]
    /\ adapter = "postgres" => \A i \in Ids : d[Table(i)] # None <=> d[Monitor(i)] # None

\* A monitor never outlives its chain, nor a result its monitor, although
\* MongoDB's transactions see snapshots (create_monitor writes its chain, and
\* commit_block the monitors whose results it stores); and PostgreSQL, where the
\* tables of results hang on nothing, has one for each monitor and no other.
NoOrphans == Whole(db)

\* What a call returns is true: it succeeds only if its transaction took effect,
\* and is refused only if it did not, so that no repetition (of requests, of
\* transactions, of commits) meets the effect of the call itself.
ReportIsHonest ==
    \A s \in Sessions :
       /\ answer[s] = "ok" => applied[s] = 1
       /\ answer[s] = "refused" => applied[s] = 0

\* A block commit that takes effect moves every monitor of its block, however many
\* were deleted since the block was planned: if one is gone, nothing is committed
\* and the block is planned again.
CommitIsWhole ==
    [][\A s \in Sessions :
          call[s].op = "commit_block" /\ applied'[s] > applied[s] =>
             \A i \in call[s].ids :
                /\ db'[Monitor(i)] # None /\ db'[Monitor(i)].cursor = call[s].block
                /\ i \in call[s].decoded => db'[Result(i, call[s].block)] # None]_vars

\* The ids an open transaction has taken from PostgreSQL's sequence.
Pending == {i \in Ids : \E s \in Sessions : db[Monitor(i)] = None /\ Monitor(i) \in Wrote(s)
                                            /\ own[s][Monitor(i)] # None}

Atomic == INSTANCE StorageAtomic WITH
    chains <- [c \in Chains |-> db[Chain(c)]],
    monitors <- [i \in Ids |-> db[Monitor(i)]],
    results <- {r \in Ids \X Blocks : db[Result(r[1], r[2])] # None},
    used <- (1 .. NextId(db) - 1) \ Pending

\* However transactions interleave, wait, conflict, fail and are repeated, the
\* database changes as if every operation had happened at once: a deletion leaves
\* nothing behind, a block commit moves all its cursors with all its results or
\* none, and a monitor id is never used twice.
ImplementsAtomic == Atomic!Spec

\* Every call ends.  Conflicts do not make MongoDB's sessions abort each other for
\* ever, although nothing delays or bounds the retries (writes from outside a
\* transaction that never stop coming would).  PostgreSQL's never wait for each other
\* in a circle, which the server would break by killing a call that nobody repeats:
\* the chain is locked before its monitors, these in the order of their ids, and the
\* locks of a transaction whose client is gone are released.
CallsReturn == \A s \in Sessions : pc[s] # "idle" ~> pc[s] = "idle"

-----------------------------------------------------------------------------
(* The inductive invariant: what the adapters have in common.              *)

Job == [op : {"none", "create_monitor", "delete_chain", "delete_monitor", "commit_block"},
        chain : Chains \cup {None}, ids : SUBSET Ids, block : Blocks \cup {None},
        decoded : SUBSET Ids]

ValidCall(j) ==
    /\ j \in Job
    /\ j.op # "none" => j.chain \in Chains
    /\ j.op \in {"create_monitor", "delete_chain"} => j.ids = {}
    /\ j.op = "delete_monitor" => \E i \in Ids : j.ids = {i}
    /\ j.op = "commit_block" => j.ids # {} /\ j.block \in Blocks /\ j.decoded \subseteq j.ids

\* What a session may be doing where it is.
OpsAt(at) ==
    CASE at \in {"owner", "counter", "insert", "share_chain", "insert_monitor", "create_table"} ->
              {"create_monitor"}
      [] at \in {"chain", "monitors", "lock_chain"} -> {"delete_chain"}
      [] at = "monitor" -> {"delete_monitor"}
      [] at \in {"sweep", "drop_tables", "delete_rows"} -> {"delete_chain", "delete_monitor"}
      [] at \in {"find_rows", "lock_rows"} -> {"delete_chain", "delete_monitor", "commit_block"}
      [] at \in {"cursors", "results", "move_cursors", "insert_results"} -> {"commit_block"}
      [] at \in {"start", "commit", "committed", "pg_commit"} ->
              {"create_monitor", "delete_chain", "delete_monitor", "commit_block"}
      [] OTHER -> {"none"}

CallsValid ==
    /\ DOMAIN call = Sessions
    /\ \A s \in Sessions : /\ ValidCall(call[s]) /\ call[s].op \in OpsAt(pc[s])
                           /\ pc[s] \in Requests \cup {"commit", "committed"} => adapter = "mongodb"
                           /\ pc[s] \in Holding \cup {"rollback", "in_doubt"} => adapter = "postgres"

\* A call has no effect and no answer before its commit.
Unreported ==
    \A s \in Sessions :
       /\ applied[s] = 1 => pc[s] \in {"idle", "committed"}
       /\ pc[s] = "committed" => applied[s] = 1
       /\ pc[s] \notin {"idle", "rollback", "in_doubt"} => answer[s] = "none"
       /\ pc[s] = "in_doubt" => answer[s] = "error"

\* The sessions that have still to take the id of a new monitor.
Ungiven == {s \in Sessions : /\ call[s].op = "create_monitor"
                             /\ pc[s] \notin {"committed", "create_table", "pg_commit"}}

\* There is an id for each of them, and none that a monitor has.
IdsValid ==
    /\ NextId(db) + Cardinality(Ungiven) <= MaxId + 1
    /\ \A i \in Ids : db[Monitor(i)] # None => i < NextId(db)

-----------------------------------------------------------------------------
(* The inductive invariant: MongoDB.  What a transaction has written is     *)
(* what its operation makes of the snapshot.                                *)

Open(s) == pc[s] \in Requests \cup {"commit"}

CreateWrites(s, c, at, d) ==
    /\ Wrote(s) = (IF at = "owner" THEN {} ELSE {Chain(c)})
                  \cup (IF at \in {"insert", "commit"} THEN {Counter} ELSE {})
                  \cup (IF at = "commit" THEN {Monitor(NextId(d))} ELSE {})
    /\ at # "owner" => d[Chain(c)] # None /\ own[s][Chain(c)] = d[Chain(c)]
    /\ at \in {"insert", "commit"} => own[s][Counter] = NextId(d)
    /\ at = "commit" => /\ own[s][Monitor(NextId(d))] = NewMonitor(c)
                        /\ NextId(d) \in Ids /\ d[Monitor(NextId(d))] = None

DeleteChainWrites(s, c, at, d) ==
    /\ Wrote(s) = (IF at = "chain" THEN {} ELSE {Chain(c)})
                  \cup (IF at \in {"sweep", "commit"} THEN {Monitor(i) : i \in MonitorsOf(d, c)} ELSE {})
                  \cup (IF at = "commit" THEN {k \in ResultKeys : d[k] = c} ELSE {})
    /\ \A k \in Wrote(s) : own[s][k] = None
    /\ at # "chain" => d[Chain(c)] # None

DeleteMonitorWrites(s, S, at, d) ==
    /\ Wrote(s) = (IF at = "monitor" THEN {} ELSE {Monitor(i) : i \in S})
                  \cup (IF at = "commit" THEN {k \in ResultKeys : k[2] \in S /\ d[k] # None} ELSE {})
    /\ \A k \in Wrote(s) : own[s][k] = None
    /\ at # "monitor" => \A i \in S : d[Monitor(i)] # None

CommitBlockWrites(s, j, at, d) ==
    /\ Wrote(s) = (IF at = "cursors" THEN {} ELSE {Monitor(i) : i \in j.ids})
                  \cup (IF at = "commit" THEN {Result(i, j.block) : i \in j.decoded} ELSE {})
    /\ at # "cursors" =>
          /\ j.ids \subseteq MonitorsOf(d, j.chain)
          /\ \A i \in j.ids : own[s][Monitor(i)] = [d[Monitor(i)] EXCEPT !.cursor = j.block]
    /\ at = "commit" => \A i \in j.decoded : /\ own[s][Result(i, j.block)] = j.chain
                                             /\ d[Result(i, j.block)] = None

WritesOfCall(s) ==
    LET j == call[s] at == pc[s] d == snapshot[s]
    IN  /\ j.op = "create_monitor" => CreateWrites(s, j.chain, at, d)
        /\ j.op = "delete_chain" => DeleteChainWrites(s, j.chain, at, d)
        /\ j.op = "delete_monitor" => DeleteMonitorWrites(s, j.ids, at, d)
        /\ j.op = "commit_block" => CommitBlockWrites(s, j, at, d)

\* What the database still has in common with a snapshot.  A new monitor makes its
\* chain stale and a new result its monitor, so that who writes the chain or the
\* monitor has seen everything below.
SnapshotValid(s) ==
    /\ snapshot[s] # <<>> /\ Whole(snapshot[s])
    /\ \A k \in Keys : k \in stale[s] \/ db[k] = snapshot[s][k]
    /\ Wrote(s) \cap stale[s] = {}
    /\ \A c \in Chains : Chain(c) \in stale[s] \/ MonitorsOf(db, c) \subseteq MonitorsOf(snapshot[s], c)
    /\ \A i \in Ids, b \in Blocks : Result(i, b) \in stale[s] => Monitor(i) \in stale[s]
    /\ NextId(snapshot[s]) <= NextId(db)

MongoValid ==
    /\ \A s \in Sessions :
          /\ locks[s] = {} /\ todo[s] = {}
          /\ Open(s) => SnapshotValid(s) /\ WritesOfCall(s)
          /\ ~ Open(s) => own[s] = <<>> /\ snapshot[s] = <<>> /\ stale[s] = {}
    /\ \A s, o \in Sessions : s # o => Wrote(s) \cap Wrote(o) = {}

-----------------------------------------------------------------------------
(* The inductive invariant: PostgreSQL.  A transaction in doubt has         *)
(* forgotten its call, so what it holds is said of some call j at `at`.     *)

CreateHolds(s, c, at) ==
    /\ locks[s] = IF at = "share_chain" THEN {} ELSE {<<Chain(c), "share">>}
    /\ at \in {"share_chain", "insert_monitor"} => own[s] = <<>>
    /\ at \in {"create_table", "pg_commit"} =>
          \E i \in Ids : /\ Wrote(s) = {Monitor(i)} \cup (IF at = "pg_commit" THEN {Table(i)} ELSE {})
                         /\ own[s][Monitor(i)] = NewMonitor(c) /\ db[Monitor(i)] = None
                         /\ at = "pg_commit" => own[s][Table(i)] = c

\* The tables of results of some monitors, with what is in them.
TablesOf(S) == {Table(i) : i \in S} \cup {Result(i, b) : i \in S, b \in Blocks}

DeleteHolds(s, j, at) ==
    /\ Wrote(s) = (IF at \in {"delete_rows", "pg_commit"} THEN TablesOf(Rows(s)) ELSE {})
                  \cup (IF at = "pg_commit" THEN {Monitor(i) : i \in Rows(s)} ELSE {})
                  \cup (IF at = "pg_commit" /\ j.op = "delete_chain" THEN {Chain(j.chain)} ELSE {})
    /\ \A k \in Wrote(s) : own[s][k] = None
    /\ j.op = "delete_chain" /\ at # "lock_chain" => <<Chain(j.chain), "update">> \in locks[s]
    /\ j.op = "delete_chain" /\ at \notin {"lock_chain", "find_rows"} =>
          MonitorsOf(db, j.chain) \subseteq Rows(s) \cup todo[s]
    /\ j.op = "delete_monitor" /\ at \in {"delete_rows", "pg_commit"} => Rows(s) = j.ids

CommitHolds(s, j, at) ==
    /\ Wrote(s) = (IF at \in {"insert_results", "pg_commit"} THEN {Monitor(i) : i \in j.ids} ELSE {})
                  \cup (IF at = "pg_commit" THEN {Result(i, j.block) : i \in j.decoded} ELSE {})
    /\ at \in {"insert_results", "pg_commit"} =>
          /\ Rows(s) = j.ids
          /\ \A i \in j.ids : own[s][Monitor(i)] = [db[Monitor(i)] EXCEPT !.cursor = j.block]
    /\ at = "pg_commit" => \A i \in j.decoded : /\ own[s][Result(i, j.block)] = j.chain
                                                /\ db[Result(i, j.block)] = None

Holds(s, j, at) ==
    /\ \A i \in Rows(s) \cup todo[s] : db[Monitor(i)] # None => db[Monitor(i)].chain = j.chain
    /\ j.op # "delete_chain" => Rows(s) \cup todo[s] \subseteq j.ids
    /\ at = "lock_rows" <=> todo[s] # {}
    /\ j.op = "create_monitor" => CreateHolds(s, j.chain, at)
    /\ j.op \in {"delete_chain", "delete_monitor"} => DeleteHolds(s, j, at)
    /\ j.op = "commit_block" => CommitHolds(s, j, at)

\* Locks exclude, a locked row stays, and a monitor that a transaction has written
\* is one that it has locked or a new one that nobody else knows of.
LocksValid ==
    /\ \A s, o \in Sessions : s # o =>
          \A l \in locks[s], m \in locks[o] : l[1] = m[1] => l[2] = "share" /\ m[2] = "share"
    /\ \A s \in Sessions : \A l \in locks[s] : db[l[1]] # None
    /\ \A s \in Sessions, i \in Ids : Monitor(i) \in Wrote(s) =>
          /\ i < NextId(db)
          /\ i \in Rows(s) \/ db[Monitor(i)] = None
          /\ \A o \in Sessions : /\ o # s => Monitor(i) \notin Wrote(o)
                                 /\ i \in todo[o] => db[Monitor(i)] # None
    /\ \A s \in Sessions : \A i \in todo[s] : i < NextId(db)

PostgresValid ==
    /\ LocksValid
    /\ \A s \in Sessions :
          /\ snapshot[s] = <<>> /\ stale[s] = {}
          /\ pc[s] \in {"idle", "start"} => own[s] = <<>> /\ locks[s] = {} /\ todo[s] = {}
          /\ pc[s] \in Holding => Holds(s, call[s], pc[s])
          /\ pc[s] = "in_doubt" => \E j \in Job : /\ ValidCall(j) /\ j.op # "none"
                                                  /\ Holds(s, j, "pg_commit")

\* What the promises of the adapters rest on between any two requests.
IInv ==
    /\ TypeOK /\ CallsValid /\ Unreported /\ IdsValid
    /\ NoOrphans /\ ReportIsHonest
    /\ adapter = "mongodb" => MongoValid
    /\ adapter = "postgres" => PostgresValid
=============================================================================
