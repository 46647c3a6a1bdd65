-------------------------- MODULE PostgresStorage --------------------------
(***************************************************************************)
(* The PostgreSQL adapter (parseon-postgres): every operation is one        *)
(* transaction of several statements, without a retry.                      *)
(*                                                                          *)
(* The server (external) runs at READ COMMITTED: each statement sees what   *)
(* was committed when it started and what its own transaction wrote.  Row   *)
(* locks, held to the end of the transaction, are all that protects one     *)
(* operation from another.  A locking SELECT takes them one row at a time   *)
(* and looks at a row again after it waited for it.  A transaction whose    *)
(* client is gone holds its locks until the server has rolled it back.      *)
(***************************************************************************)
EXTENDS StorageCalls, FiniteSetsExt

Holding == {"share_chain", "insert_monitor", "create_table", "lock_chain", "find_rows",
            "lock_rows", "drop_tables", "delete_rows", "move_cursors", "insert_results",
            "pg_commit"}

\* The monitors a locking SELECT has returned.
Rows(s) == {i \in Ids : <<Monitor(i), "update">> \in locks[s]}

FirstStatement(op) ==
    CASE op = "create_monitor" -> "share_chain"
      [] op = "delete_chain"   -> "lock_chain"
      [] OTHER                 -> "find_rows"

AfterRows(op) == IF op = "commit_block" THEN "move_cursors" ELSE "drop_tables"

\* ORDER BY id
NextRow(s) == Min(todo[s])

\* The locks the statement the session is at takes next.
Needs(s) ==
    CASE pc[s] = "share_chain" -> {<<Chain(call[s].chain), "share">>}
      [] pc[s] = "lock_chain"  -> {<<Chain(call[s].chain), "update">>}
      [] pc[s] = "lock_rows"   -> {<<Monitor(NextRow(s)), "update">>}
      [] pc[s] = "delete_rows" -> IF call[s].op = "delete_chain"
                                    THEN {<<Chain(call[s].chain), "update">>} ELSE {}
      [] OTHER                 -> {}

\* "update" conflicts with every lock, "share" (FOR KEY SHARE) with "update".
WaitsFor(s) ==
    {o \in Sessions \ {s} : \E n \in Needs(s), l \in locks[o] :
        n[1] = l[1] /\ (n[2] = "update" \/ l[2] = "update")}

-----------------------------------------------------------------------------
(* Statements.                                                             *)

At(s, statement) == pc[s] = statement /\ WaitsFor(s) = {}

Goto(s, statement) == pc' = [pc EXCEPT ![s] = statement]

Writes(s, w) == own' = [own EXCEPT ![s] = With(@, w)]

SameCall == UNCHANGED <<adapter, call, applied, answer, calls, faults, mongo>>

\* pool.begin()
BeginTransaction(s) ==
    /\ adapter = "postgres"
    /\ pc[s] = "start"
    /\ Goto(s, FirstStatement(call[s].op))
    /\ SameCall /\ UNCHANGED <<db, own, postgres>>

\* SELECT chain_id FROM chains ... FOR KEY SHARE
ShareChain(s) ==
    /\ At(s, "share_chain")
    /\ db[Chain(call[s].chain)] # None
    /\ locks' = [locks EXCEPT ![s] = @ \cup Needs(s)]
    /\ Goto(s, "insert_monitor")
    /\ SameCall /\ UNCHANGED <<db, own, todo>>

\* The sequence is not part of the transaction: an id is used up whatever follows.
InsertMonitor(s) ==
    /\ At(s, "insert_monitor")
    /\ db' = [db EXCEPT ![Counter] = NextId(db)]
    /\ Writes(s, [k \in {Monitor(NextId(db))} |-> NewMonitor(call[s].chain)])
    /\ Goto(s, "create_table")
    /\ SameCall /\ UNCHANGED postgres

CreateTable(s) ==
    /\ At(s, "create_table")
    /\ Writes(s, [k \in {Table(i) : i \in {j \in Ids : Monitor(j) \in Wrote(s)}} |-> call[s].chain])
    /\ Goto(s, "pg_commit")
    /\ SameCall /\ UNCHANGED <<db, postgres>>

\* Mutant: delete_chain looks at the chain without locking it.
LockChainOnlyReads(s) ==
    /\ At(s, "lock_chain")
    /\ db[Chain(call[s].chain)] # None
    /\ Goto(s, "find_rows")
    /\ SameCall /\ UNCHANGED <<db, own, postgres>>

\* SELECT chain_id FROM chains ... FOR UPDATE
LockChain(s) ==
    /\ At(s, "lock_chain")
    /\ db[Chain(call[s].chain)] # None
    /\ locks' = [locks EXCEPT ![s] = @ \cup Needs(s)]
    /\ Goto(s, "find_rows")
    /\ SameCall /\ UNCHANGED <<db, own, todo>>

\* SELECT ... FROM monitors ... ORDER BY id FOR UPDATE starts: the rows it sees.
FindRows(s) ==
    /\ At(s, "find_rows")
    /\ LET found == IF call[s].op = "delete_chain" THEN MonitorsOf(db, call[s].chain)
                                                   ELSE call[s].ids \cap MonitorsOf(db, call[s].chain)
       IN  /\ todo' = [todo EXCEPT ![s] = found]
           /\ Goto(s, IF found = {} THEN AfterRows(call[s].op) ELSE "lock_rows")
    /\ SameCall /\ UNCHANGED <<db, own, locks>>

\* The next row, unless it was deleted while the statement waited for it.
LockRow(s) ==
    /\ At(s, "lock_rows")
    /\ locks' = [locks EXCEPT ![s] =
                    IF db[Monitor(NextRow(s))] = None THEN @ ELSE @ \cup Needs(s)]
    /\ todo' = [todo EXCEPT ![s] = @ \ {NextRow(s)}]
    /\ Goto(s, IF todo[s] = {NextRow(s)} THEN AfterRows(call[s].op) ELSE "lock_rows")
    /\ SameCall /\ UNCHANGED <<db, own>>

\* DROP TABLE IF EXISTS, for every monitor found; the results go with the table.
DropTables(s) ==
    /\ At(s, "drop_tables")
    /\ call[s].op = "delete_monitor" => Rows(s) # {}
    /\ Writes(s, [k \in {Table(i) : i \in Rows(s)} \cup {Result(i, b) : i \in Rows(s), b \in Blocks} |-> None])
    /\ Goto(s, "delete_rows")
    /\ SameCall /\ UNCHANGED <<db, postgres>>

\* DELETE FROM chains, which cascades to every monitor the chain has by now, or
\* DELETE FROM monitors.
DeleteRows(s) ==
    /\ At(s, "delete_rows")
    /\ LET c == call[s].chain
       IN  Writes(s, [k \in IF call[s].op = "delete_chain"
                              THEN {Chain(c)} \cup {Monitor(i) : i \in MonitorsOf(db, c)}
                              ELSE {Monitor(i) : i \in Rows(s)} |-> None])
    /\ Goto(s, "pg_commit")
    /\ SameCall /\ UNCHANGED <<db, postgres>>

\* Mutant: commit_block goes on with the monitors it could lock.
MoveCursorsOfSome(s) ==
    /\ At(s, "move_cursors")
    /\ Writes(s, [k \in {Monitor(i) : i \in Rows(s)} |-> [db[k] EXCEPT !.cursor = call[s].block]])
    /\ Goto(s, "insert_results")
    /\ SameCall /\ UNCHANGED <<db, postgres>>

\* UPDATE monitors SET cursor of the locked rows, which must be all of them.
MoveCursors(s) ==
    /\ At(s, "move_cursors")
    /\ Rows(s) = call[s].ids
    /\ Writes(s, [k \in {Monitor(i) : i \in Rows(s)} |-> [db[k] EXCEPT !.cursor = call[s].block]])
    /\ Goto(s, "insert_results")
    /\ SameCall /\ UNCHANGED <<db, postgres>>

\* INSERT INTO monitor_<id>_results: the table is there and the keys are new.
CanInsert(s) ==
    \A i \in call[s].decoded : db[Table(i)] # None /\ db[Result(i, call[s].block)] = None

InsertResults(s) ==
    /\ At(s, "insert_results")
    /\ CanInsert(s)
    /\ Writes(s, [k \in {Result(i, call[s].block) : i \in call[s].decoded} |-> call[s].chain])
    /\ Goto(s, "pg_commit")
    /\ SameCall /\ UNCHANGED <<db, postgres>>

\* "not found", "monitor set changed", a duplicate key: the operation ends with an
\* error of its own, and its transaction is dropped.
StatementRefused(s) ==
    /\ \/ pc[s] \in {"share_chain", "lock_chain"} /\ db[Chain(call[s].chain)] = None
       \/ pc[s] = "drop_tables" /\ call[s].op = "delete_monitor" /\ Rows(s) = {}
       \/ pc[s] = "move_cursors" /\ Rows(s) # call[s].ids
       \/ pc[s] = "insert_results" /\ ~ CanInsert(s)
    /\ Returned(s, "rollback", "refused")
    /\ UNCHANGED <<adapter, db, own, applied, calls, faults, mongo, postgres>>

\* A statement fails, or the caller's future is dropped at it.
StatementFails(s) ==
    /\ adapter = "postgres"
    /\ pc[s] \in Holding \cup {"start"}
    /\ pc[s] # "pg_commit"
    /\ Fault
    /\ Returned(s, "rollback", "error")
    /\ UNCHANGED <<adapter, db, own, applied, calls, mongo, postgres>>

-----------------------------------------------------------------------------
(* The end of a transaction.                                               *)

Released(s) ==
    /\ own' = [own EXCEPT ![s] = <<>>]
    /\ locks' = [locks EXCEPT ![s] = {}]
    /\ todo' = [todo EXCEPT ![s] = {}]

Durable(s) ==
    /\ db' = Over(db, own[s])
    /\ applied' = [applied EXCEPT ![s] = @ + 1]

PgCommit(s) ==
    /\ At(s, "pg_commit")
    /\ Durable(s) /\ Released(s)
    /\ Returned(s, "idle", "ok")
    /\ UNCHANGED <<adapter, calls, faults, mongo>>

\* The answer to COMMIT is lost, or nobody waits for it any more.
PgCommitFails(s) ==
    /\ pc[s] = "pg_commit"
    /\ Fault
    /\ Returned(s, "in_doubt", "error")
    /\ UNCHANGED <<adapter, db, own, applied, calls, mongo, postgres>>

\* The server ends a transaction nobody waits for.
Rollback(s) ==
    /\ pc[s] \in {"rollback", "in_doubt"}
    /\ Released(s)
    /\ Goto(s, "idle")
    /\ UNCHANGED <<adapter, db, call, applied, answer, calls, faults, mongo>>

LateCommit(s) ==
    /\ pc[s] = "in_doubt"
    /\ Durable(s) /\ Released(s)
    /\ Goto(s, "idle")
    /\ UNCHANGED <<adapter, call, answer, calls, faults, mongo>>

RunPostgres(s) ==
    \/ BeginTransaction(s) \/ ShareChain(s) \/ InsertMonitor(s) \/ CreateTable(s)
    \/ LockChain(s) \/ FindRows(s) \/ LockRow(s) \/ DropTables(s) \/ DeleteRows(s)
    \/ MoveCursors(s) \/ InsertResults(s) \/ StatementRefused(s)
    \/ PgCommit(s) \/ Rollback(s) \/ LateCommit(s)

FailPostgres(s) == StatementFails(s) \/ PgCommitFails(s)
=============================================================================
