---------------------------- MODULE StorageCalls ----------------------------
(***************************************************************************)
(* What the two storage adapters share: the tables, the calls of the        *)
(* storage ports (parseon-core/src/ports/storage.rs) that sessions make of  *)
(* them, and the writes of one row that need no transaction of their own.   *)
(*                                                                          *)
(* A row is a key of db: a chain, a monitor, the id counter, a monitor's    *)
(* result table (PostgreSQL), or the results of one monitor in one block.   *)
(* Field values are reduced to what the operations set; `completed` is set  *)
(* with the cursor and left out.                                            *)
(***************************************************************************)
EXTENDS Naturals, FiniteSets

CONSTANTS
    Sessions,   \* concurrent callers of the adapter
    Chains,     \* chain ids
    MaxId,      \* bound on the ids handed out
    MaxStored,  \* bound on the monitors there at the start
    Blocks,     \* block numbers that are committed
    Flags,      \* the values users give to `enabled`
    MaxCalls,   \* bound on calls
    MaxFaults,  \* bound on failed, unanswered or dropped requests
    None        \* absence

Ids == 1 .. MaxId

ASSUME StorageAssumption ==
    /\ MaxId \in Nat /\ MaxCalls \in Nat /\ MaxFaults \in Nat
    /\ MaxStored \in 0 .. MaxId
    /\ Flags \subseteq BOOLEAN
    /\ None \notin BOOLEAN /\ None \notin Chains /\ None \notin Blocks /\ None \notin Ids
    /\ None \notin [chain : Chains, cursor : Blocks \cup {None}, enabled : BOOLEAN]
    /\ IsFiniteSet(Sessions)

VARIABLES
    \* The database and who uses it.
    adapter,  \* "mongodb" or "postgres", for the life of the process
    db,       \* the committed rows
    pc,       \* where each session is
    call,     \* the call it works on
    own,      \* the rows its transaction has written, and what it wrote
    applied,  \* how often a transaction of this call was committed
    answer,   \* what the last call returned: "none", "ok", "refused", "error"
    calls, faults,
    \* MongoDB.
    snapshot, \* the database as the session's transaction found it
    stale,    \* the documents committed by others since then
    \* PostgreSQL.
    locks,    \* the row locks a session holds: <<row, "share" or "update">>
    todo      \* the monitors its statement has still to lock

session == <<pc, call, own, applied, answer>>
mongo == <<snapshot, stale>>
postgres == <<locks, todo>>
vars == <<adapter, db, session, calls, faults, mongo, postgres>>

-----------------------------------------------------------------------------
(* Rows.                                                                   *)

Chain(c) == <<"chain", c>>
Monitor(i) == <<"monitor", i>>
Counter == <<"counter", None>>
Table(i) == <<"table", i>>
Result(i, b) == <<"result", i, b>>

ResultKeys == {Result(i, b) : i \in Ids, b \in Blocks}

Keys == {Chain(c) : c \in Chains} \cup {Monitor(i) : i \in Ids} \cup {Counter}
        \cup {Table(i) : i \in Ids} \cup ResultKeys

MonitorsOf(d, c) == {i \in Ids : d[Monitor(i)] # None /\ d[Monitor(i)].chain = c}

NextId(d) == IF d[Counter] = None THEN 1 ELSE d[Counter] + 1

NewMonitor(c) == [chain |-> c, cursor |-> None, enabled |-> TRUE]

Wrote(s) == DOMAIN own[s]

\* d with the rows a transaction has written, w.
Over(d, w) == [k \in Keys |-> IF k \in DOMAIN w THEN w[k] ELSE d[k]]

\* The rows w a transaction has written, when it has written v too.
With(w, v) == [k \in DOMAIN w \cup DOMAIN v |-> IF k \in DOMAIN v THEN v[k] ELSE w[k]]

-----------------------------------------------------------------------------
(* The calls a session may make.  Monitors are named by somebody who saw    *)
(* them.                                                                    *)

NoCall == [op |-> "none", chain |-> None, ids |-> {}, block |-> None, decoded |-> {}]

Begin(s, j) ==
    /\ pc[s] = "idle"
    /\ calls < MaxCalls
    /\ calls' = calls + 1
    /\ pc' = [pc EXCEPT ![s] = "start"]
    /\ call' = [call EXCEPT ![s] = j]
    /\ applied' = [applied EXCEPT ![s] = 0]
    /\ answer' = [answer EXCEPT ![s] = "none"]
    /\ UNCHANGED <<adapter, db, own, faults, mongo, postgres>>

Creating == {s \in Sessions : call[s].op = "create_monitor"}

CreateMonitor(s, c) ==
    /\ NextId(db) + Cardinality(Creating) <= MaxId
    /\ Begin(s, [NoCall EXCEPT !.op = "create_monitor", !.chain = c])

DeleteChain(s, c) == Begin(s, [NoCall EXCEPT !.op = "delete_chain", !.chain = c])

DeleteMonitor(s, i) ==
    /\ db[Monitor(i)] # None
    /\ Begin(s, [NoCall EXCEPT !.op = "delete_monitor", !.chain = db[Monitor(i)].chain, !.ids = {i}])

CommitBlock(s, c, S, D, b) ==
    /\ S # {} /\ S \subseteq MonitorsOf(db, c)
    /\ D \subseteq S
    /\ Begin(s, [op |-> "commit_block", chain |-> c, ids |-> S, block |-> b, decoded |-> D])

\* The call is over for its caller.
Returned(s, at, what) ==
    /\ pc' = [pc EXCEPT ![s] = at]
    /\ call' = [call EXCEPT ![s] = NoCall]
    /\ answer' = [answer EXCEPT ![s] = what]

Fault == faults < MaxFaults /\ faults' = faults + 1

-----------------------------------------------------------------------------
(* Writes of one row, without a transaction of their own: the server makes  *)
(* them wait for a transaction that has written the row or locked it for    *)
(* update.  (The key-share lock of a PostgreSQL transaction that creates a  *)
(* monitor does not delay an update of the chain.)                          *)

\* Transactions of MongoDB that see older documents cannot write them any more.
Outdated(K) == [s \in Sessions |-> IF snapshot[s] = <<>> THEN {} ELSE stale[s] \cup K]

WriteOne(k, v) ==
    /\ \A s \in Sessions : k \notin Wrote(s) /\ <<k, "update">> \notin locks[s]
    /\ calls < MaxCalls
    /\ calls' = calls + 1
    /\ db' = [db EXCEPT ![k] = v]
    /\ stale' = Outdated({k})
    /\ UNCHANGED <<adapter, session, faults, snapshot, postgres>>

CreateChain(c, en) == db[Chain(c)] = None /\ WriteOne(Chain(c), en)

UpdateChain(c, en) == db[Chain(c)] # None /\ WriteOne(Chain(c), en)

SetEnabled(i, en) ==
    /\ db[Monitor(i)] # None
    /\ WriteOne(Monitor(i), [db[Monitor(i)] EXCEPT !.enabled = en])
=============================================================================
