---------------------------- MODULE MongoStorage ----------------------------
(***************************************************************************)
(* The MongoDB adapter (parseon-mongodb/src/storage.rs): its operations run *)
(* in multi-document transactions which a retry loop drives.                *)
(*                                                                          *)
(* The server (external) gives a transaction a snapshot of the database.  A *)
(* write to a document that another open transaction has written, or that   *)
(* was committed since the snapshot, is a write conflict, which is          *)
(* transient.  Nothing else protects the operations from each other: what a *)
(* transaction only read may change under it.                               *)
(***************************************************************************)
EXTENDS StorageCalls

\* What the session's transaction sees.
View(s) == Over(snapshot[s], own[s])

-----------------------------------------------------------------------------
(* The operations, as the requests each sends inside its transaction: the   *)
(* documents of d that a request of call j writes, what it writes to them,  *)
(* and when it ends the operation with an error of its own.                 *)

FirstRequest(op) ==
    CASE op = "create_monitor" -> "owner"
      [] op = "delete_chain"   -> "chain"
      [] op = "delete_monitor" -> "monitor"
      [] op = "commit_block"   -> "cursors"

NextRequest(at) ==
    CASE at = "owner"    -> "counter"
      [] at = "counter"  -> "insert"
      [] at = "chain"    -> "monitors"
      [] at \in {"monitors", "monitor"} -> "sweep"
      [] at = "cursors"  -> "results"
      [] OTHER           -> "commit"

Requests == {"owner", "counter", "insert", "chain", "monitors", "monitor", "sweep",
             "cursors", "results"}

Existing(d, K) == {k \in K : d[k] # None}

\* create_monitor increments the chain's monitor_revision: it writes a document
\* it would only have to read.  The sweep is by chain or by monitor.
Touched(at, d, j) ==
    CASE at \in {"owner", "chain"} -> Existing(d, {Chain(j.chain)})
      [] at = "counter"  -> {Counter}
      [] at = "insert"   -> {Monitor(d[Counter])}
      [] at = "monitors" -> {Monitor(i) : i \in MonitorsOf(d, j.chain)}
      [] at = "monitor"  -> Existing(d, {Monitor(i) : i \in j.ids})
      [] at = "sweep"    -> Existing(d, IF j.ids = {} THEN {k \in ResultKeys : d[k] = j.chain}
                                                      ELSE {k \in ResultKeys : k[2] \in j.ids})
      [] at = "cursors"  -> {Monitor(i) : i \in j.ids \cap MonitorsOf(d, j.chain)}
      [] at = "results"  -> {Result(i, j.block) : i \in j.decoded}

Value(at, d, j, k) ==
    CASE at = "owner"   -> d[k]
      [] at = "counter" -> NextId(d)
      [] at = "insert"  -> NewMonitor(j.chain)
      [] at = "cursors" -> [d[k] EXCEPT !.cursor = j.block]
      [] at = "results" -> j.chain
      [] OTHER          -> None

\* Mutant: commit_block does not compare the number of monitors it moved.
RefusedNotCursors(at, d, j) ==
    \/ at \in {"owner", "chain"} /\ d[Chain(j.chain)] = None
    \/ at = "monitor" /\ \E i \in j.ids : d[Monitor(i)] = None
    \/ at \in {"insert", "results"} /\ \E k \in Touched(at, d, j) : d[k] # None

\* "not found", "monitor set changed", or a duplicate key.
Refused(at, d, j) ==
    \/ at \in {"owner", "chain"} /\ d[Chain(j.chain)] = None
    \/ at = "monitor" /\ \E i \in j.ids : d[Monitor(i)] = None
    \/ at = "cursors" /\ ~ j.ids \subseteq MonitorsOf(d, j.chain)
    \/ at \in {"insert", "results"} /\ \E k \in Touched(at, d, j) : d[k] # None

-----------------------------------------------------------------------------
(* The retry loop of `transaction`.                                        *)

\* The snapshot is taken by the first request.
StartTransaction(s) ==
    /\ adapter = "mongodb"
    /\ pc[s] = "start"
    /\ pc' = [pc EXCEPT ![s] = FirstRequest(call[s].op)]
    /\ snapshot' = [snapshot EXCEPT ![s] = db]
    /\ UNCHANGED <<adapter, db, call, own, applied, answer, calls, faults, stale, postgres>>

\* The server lets go of the transaction.
Ended(s) ==
    /\ own' = [own EXCEPT ![s] = <<>>]
    /\ snapshot' = [snapshot EXCEPT ![s] = <<>>]

Forgotten(s) == stale' = [stale EXCEPT ![s] = {}]

Aborted(s, at) ==
    /\ pc' = [pc EXCEPT ![s] = at]
    /\ UNCHANGED <<call, answer>>
    /\ Ended(s)

Conflict(s) ==
    \E k \in Touched(pc[s], View(s), call[s]) :
       k \in stale[s] \/ \E o \in Sessions \ {s} : k \in Wrote(o)

Request(s) ==
    /\ pc[s] \in Requests
    /\ ~ Conflict(s)
    /\ ~ Refused(pc[s], View(s), call[s])
    /\ LET K == Touched(pc[s], View(s), call[s])
           Written == [k \in K |-> Value(pc[s], View(s), call[s], k)]
       IN  own' = [own EXCEPT ![s] = With(@, Written)]
    /\ pc' = [pc EXCEPT ![s] = NextRequest(pc[s])]
    /\ UNCHANGED <<adapter, db, call, applied, answer, calls, faults, mongo, postgres>>

\* Mutant: the request is repeated in the same transaction.
RequestConflictsRepeats(s) ==
    /\ pc[s] \in Requests
    /\ Conflict(s)
    /\ UNCHANGED vars

\* A transient error: abort, and run the operation again from its start.
RequestConflicts(s) ==
    /\ pc[s] \in Requests
    /\ Conflict(s)
    /\ Aborted(s, "start") /\ Forgotten(s)
    /\ UNCHANGED <<adapter, db, applied, calls, faults, postgres>>

RequestRefused(s) ==
    /\ pc[s] \in Requests
    /\ ~ Conflict(s)
    /\ Refused(pc[s], View(s), call[s])
    /\ Returned(s, "idle", "refused") /\ Ended(s) /\ Forgotten(s)
    /\ UNCHANGED <<adapter, db, applied, calls, faults, postgres>>

\* A request fails in a way that is worth a retry (a failover, a lost
\* connection), or not, or the caller's future is dropped.
RequestFails(s) ==
    /\ adapter = "mongodb"
    /\ pc[s] \in Requests \cup {"start"}
    /\ Fault
    /\ \/ Aborted(s, "start")
       \/ Returned(s, "idle", "error") /\ Ended(s)
    /\ Forgotten(s)
    /\ UNCHANGED <<adapter, db, applied, calls, postgres>>

\* The server commits: the written documents are replaced.
Install(s) ==
    /\ db' = Over(db, own[s])
    /\ stale' = [Outdated(Wrote(s)) EXCEPT ![s] = {}]
    /\ applied' = [applied EXCEPT ![s] = @ + 1]

Commit(s) ==
    /\ pc[s] = "commit"
    /\ Install(s)
    /\ Returned(s, "idle", "ok") /\ Ended(s)
    /\ UNCHANGED <<adapter, calls, faults, postgres>>

\* Mutant: a commit whose result is unknown is run again as a whole.
CommitUnknownRestarts(s) ==
    /\ pc[s] = "commit"
    /\ Fault
    /\ Install(s)
    /\ Aborted(s, "start")
    /\ UNCHANGED <<adapter, calls, postgres>>

\* UnknownTransactionCommitResult: the commit is sent again.  Here the first one
\* was durable; if it was not, the second is the one that counts.
CommitUnknown(s) ==
    /\ pc[s] = "commit"
    /\ Fault
    /\ Install(s)
    /\ Aborted(s, "committed")
    /\ UNCHANGED <<adapter, calls, postgres>>

CommitAgain(s) ==
    /\ pc[s] = "committed"
    /\ Returned(s, "idle", "ok")
    /\ UNCHANGED <<adapter, db, own, applied, calls, faults, mongo, postgres>>

\* TransientTransactionError: the transaction is gone.
CommitTransient(s) ==
    /\ pc[s] = "commit"
    /\ Fault
    /\ Aborted(s, "start") /\ Forgotten(s)
    /\ UNCHANGED <<adapter, db, applied, calls, postgres>>

\* Any other error, or a dropped caller: the transaction is gone or durable.
CommitFails(s) ==
    /\ pc[s] \in {"commit", "committed"}
    /\ Fault
    /\ Returned(s, "idle", "error") /\ Ended(s)
    /\ \/ Forgotten(s) /\ UNCHANGED <<db, applied>>
       \/ pc[s] = "commit" /\ Install(s)
    /\ UNCHANGED <<adapter, calls, postgres>>

RunMongo(s) ==
    \/ StartTransaction(s) \/ Request(s) \/ RequestConflicts(s) \/ RequestRefused(s)
    \/ Commit(s) \/ CommitAgain(s)

FailMongo(s) == RequestFails(s) \/ CommitUnknown(s) \/ CommitTransient(s) \/ CommitFails(s)
=============================================================================
