---------------------------- MODULE IndexWorker ----------------------------
(***************************************************************************)
(* The worker of one chain (parseon-core/src/worker) over the transactional *)
(* storage it commits to (parseon-postgres/src/storage.rs), beside the API  *)
(* calls that change monitors while it runs.                                *)
(*                                                                          *)
(* A poll reads the finalized head, loads the monitors, plans blocks, then  *)
(* prepares the blocks of each window concurrently and commits them one by  *)
(* one.  Everything the poll knows about the monitors (snap, progress) is a *)
(* copy: rows change under it.  A storage transaction is visible at         *)
(* ServerCommit and holds its row locks before that; a connection that      *)
(* breaks leaves an orphan transaction which the server still commits or    *)
(* rolls back, at any later time, perhaps after the process restarted.      *)
(*                                                                          *)
(* Data is abstracted to what the properties tell apart: Matches[m] is the  *)
(* set of finalized blocks with at least one result for m, and results[m]   *)
(* counts, per block, the copies of its result rows that are stored (their  *)
(* primary key makes a second insertion fail).  The block cache and the     *)
(* metrics are left out: a cached block and a fetched one are the same.     *)
(***************************************************************************)
EXTENDS Monitor

CONSTANTS
    Monitors,          \* monitor ids of this chain
    Kind,              \* Kind[m]: "call" or "event", from the monitor's target
    Matches,           \* Matches[m]: the blocks that hold a result for m
    MaxBlock,          \* bound on the height of the finalized chain
    Ranges,            \* the <<start_block, end_block>> pairs users ask for
    BatchSize,         \* SupervisorConfig.batch_size
    BlockConcurrency,  \* SupervisorConfig.block_concurrency
    SinkEnabled,       \* whether a post-commit sink is configured
    MaxFaults          \* bound on faults, stale heads, cancellations, crashes

Height == 0 .. MaxBlock

ASSUME SizeAssumption ==
    /\ MaxBlock \in Nat /\ MaxBlock < MaxU64
    /\ BatchSize \in Nat \ {0}
    /\ BlockConcurrency \in Nat \ {0}
    /\ MaxFaults \in Nat

ASSUME ChainAssumption ==
    /\ Ranges \subseteq Height \X (Height \cup {None})
    /\ Kind \in [Monitors -> {"call", "event"}]
    /\ Matches \in [Monitors -> SUBSET Height]
    /\ SinkEnabled \in BOOLEAN

VARIABLES
    finalized, \* height of the finalized chain
    used,      \* monitor ids handed out so far
    live,      \* monitor ids whose row exists
    row,       \* the committed rows
    results,   \* results[m][b]: committed copies of m's result rows of block b
    orphans,   \* transactions that hold row locks and lost their client
    pc,        \* where the worker task is
    cancel,    \* the worker's CancellationToken
    status,    \* worker_state of the chain's status
    head,      \* this poll's finalized head
    snap,      \* this poll's active monitors, as loaded
    progress,  \* this poll's in-memory cursors
    lo, hi,    \* the current window of planned blocks
    blk,       \* the next block to commit
    logs,      \* "none", "calls" (no log query), or the log query's state
    prepared,  \* blocks of the window prepared without error
    failed,    \* blocks of the window whose preparation failed
    sunk,      \* sunk[m]: blocks whose results of m were given to the sink
    faults     \* faults so far

store == <<used, live, row, results>>
poll == <<head, snap, progress, lo, hi, blk, logs, prepared, failed>>
vars == <<finalized, store, orphans, pc, cancel, status, poll, sunk, faults>>

Tx == [block : Height, mons : SUBSET Monitors, decoded : SUBSET Monitors]
BlankRow == [NewRow(0, None) EXCEPT !.enabled = FALSE]
NoResults == [b \in Height |-> 0]
NoMonitors == [m \in {} |-> BlankRow]
Active == DOMAIN snap

-----------------------------------------------------------------------------
(* Planning, from the poll's own copy of the rows.                         *)

PlannedAt(b) == {m \in Active : b \in PlanRange(snap[m], head, BatchSize)}

PlannedBlocks == {b \in Height : PlannedAt(b) # {}}

\* plan_windows: the next maximal run of consecutive planned blocks, cut at
\* BatchSize blocks.
IsNextWindow(l, h) ==
    /\ \A b \in PlannedBlocks : b >= blk => b >= l
    /\ l >= blk
    /\ l <= h
    /\ l .. h \subseteq PlannedBlocks
    /\ h - l < BatchSize
    /\ h - l + 1 < BatchSize => h + 1 \notin PlannedBlocks

\* log_query: whether the window needs its logs fetched.
WindowHasEvents(l, h) ==
    \E b \in l .. h : \E m \in PlannedAt(b) : Kind[m] = "event"

\* decode_calls, decode_events: the monitors that get a result from block b.
DecodedAt(b) ==
    {m \in PlannedAt(b) : needs_block(snap[m], b) /\ b \in Matches[m]}

-----------------------------------------------------------------------------
(* Outcomes of a poll.                                                     *)

ForgetPoll ==
    /\ head' = 0
    /\ snap' = NoMonitors
    /\ progress' = NoMonitors
    /\ lo' = 0 /\ hi' = 0 /\ blk' = 0
    /\ logs' = "none"
    /\ prepared' = {} /\ failed' = {}

\* run: an error is recorded on the status and the worker sleeps.
PollFailed ==
    /\ status' = "degraded"
    /\ pc' = "sleep"
    /\ ForgetPoll

PollCompleted ==
    /\ status' = "running"
    /\ pc' = "sleep"
    /\ ForgetPoll

Fault ==
    /\ faults < MaxFaults
    /\ faults' = faults + 1

-----------------------------------------------------------------------------
(* The API: monitor rows change while the worker runs.  A row locked by a  *)
(* transaction cannot be changed by another until that one ends.           *)

LockedByOrphan(m) == \E o \in orphans : m \in o.mons

Locked(m) == LockedByOrphan(m) \/ (pc = "locked" /\ m \in PlannedAt(blk))

CreateMonitor(m, s, e) ==
    /\ m \notin used
    /\ e # None => s <= e
    /\ used' = used \cup {m}
    /\ live' = live \cup {m}
    /\ row' = [row EXCEPT ![m] = NewRow(s, e)]
    /\ UNCHANGED <<finalized, results, orphans, pc, cancel, status, poll, sunk, faults>>

SetEnabled(m, flag) ==
    /\ m \in live
    /\ ~ Locked(m)
    /\ row' = [row EXCEPT ![m].enabled = flag]
    /\ UNCHANGED <<finalized, used, live, results, orphans, pc, cancel, status, poll, sunk, faults>>

DeleteMonitor(m) ==
    /\ m \in live
    /\ ~ Locked(m)
    /\ live' = live \ {m}
    /\ row' = [row EXCEPT ![m] = BlankRow]
    /\ results' = [results EXCEPT ![m] = NoResults]
    /\ UNCHANGED <<finalized, used, orphans, pc, cancel, status, poll, sunk, faults>>

-----------------------------------------------------------------------------
(* The task's life, as the supervisor and the operating system decide it.  *)

Start ==
    /\ pc = "stopped"
    /\ pc' = "poll"
    /\ cancel' = FALSE
    /\ status' = "starting"
    /\ UNCHANGED <<finalized, store, orphans, poll, sunk, faults>>

Cancel ==
    /\ pc # "stopped"
    /\ ~ cancel
    /\ Fault
    /\ cancel' = TRUE
    /\ UNCHANGED <<finalized, store, orphans, pc, status, poll, sunk>>

\* The transaction of a client that is gone.
OrphanTx == {[block |-> blk, mons |-> PlannedAt(blk), decoded |-> DecodedAt(blk)]}

Crash ==
    /\ pc # "stopped"
    /\ Fault
    /\ pc' = "stopped"
    /\ cancel' = FALSE
    /\ status' = "none"
    /\ orphans' = IF pc = "locked" THEN orphans \cup OrphanTx ELSE orphans
    /\ ForgetPoll
    /\ UNCHANGED <<finalized, store, sunk>>

\* Each tokio::select! that looks at the token first, and the loop's own test.
\* The event path looks again only before a commit; storage is never abandoned.
CancelPoint ==
    \/ pc \in {"poll", "load", "empty", "permit", "sleep"}
    \/ pc = "prepare" /\ (logs = "calls" \/ blk = lo)
    \/ pc = "window" /\ logs = "calls"

\* Mutant: a cancelled poll ends, and the worker polls again.
StopOnCancelContinues ==
    /\ cancel
    /\ CancelPoint
    /\ pc' = "poll"
    /\ ForgetPoll
    /\ UNCHANGED <<finalized, store, orphans, cancel, status, sunk, faults>>

StopOnCancel ==
    /\ cancel
    /\ CancelPoint
    /\ pc' = "stopped"
    /\ cancel' = FALSE
    /\ status' = "none"
    /\ ForgetPoll
    /\ UNCHANGED <<finalized, store, orphans, sunk, faults>>

-----------------------------------------------------------------------------
(* One poll.                                                               *)

FetchHead(h) ==
    /\ pc = "poll" /\ ~ cancel
    /\ \/ h = finalized /\ UNCHANGED faults
       \/ h < finalized /\ Fault      \* an endpoint that lags behind
    /\ head' = h
    /\ pc' = "load"
    /\ UNCHANGED <<finalized, store, orphans, cancel, status, sunk,
                   snap, progress, lo, hi, blk, logs, prepared, failed>>

LoadMonitors ==
    /\ pc = "load" /\ ~ cancel
    /\ LET active == {m \in live : IsActive(row[m])} IN
         /\ snap' = [m \in active |-> row[m]]
         /\ progress' = [m \in active |-> row[m].cursor]
         /\ pc' = IF active = {} THEN "empty" ELSE "window"
    /\ UNCHANGED <<finalized, store, orphans, cancel, status, sunk, faults,
                   head, lo, hi, blk, logs, prepared, failed>>

\* finalized_head or load_monitors returns an error.
RequestFailed ==
    /\ pc \in {"poll", "load"} /\ ~ cancel
    /\ Fault
    /\ PollFailed
    /\ UNCHANGED <<finalized, store, orphans, cancel, sunk>>

FinishEmptyPoll ==
    /\ pc = "empty" /\ ~ cancel
    /\ PollCompleted
    /\ UNCHANGED <<finalized, store, orphans, cancel, sunk, faults>>

NextWindow ==
    /\ pc = "window"
    /\ logs = "calls" => ~ cancel
    /\ \E l, h \in PlannedBlocks :
         /\ IsNextWindow(l, h)
         /\ lo' = l /\ hi' = h /\ blk' = l
         /\ logs' = IF WindowHasEvents(l, h) THEN "pending" ELSE "calls"
    /\ prepared' = {} /\ failed' = {}
    /\ pc' = "prepare"
    /\ UNCHANGED <<finalized, store, orphans, cancel, status, sunk, faults,
                   head, snap, progress>>

FinishPoll ==
    /\ pc = "window"
    /\ logs = "calls" => ~ cancel
    /\ \A b \in PlannedBlocks : b < blk
    /\ PollCompleted
    /\ UNCHANGED <<finalized, store, orphans, cancel, sunk, faults>>

\* pipeline::ordered admits a block once the one BlockConcurrency places before
\* it has left the buffer; the event path collects every outcome first.
LeftBuffer(b) ==
    IF logs = "calls" THEN b < blk
    ELSE \A c \in lo .. b : c \in prepared \cup failed

InFlight(b) ==
    /\ b \in blk .. hi
    /\ b \notin prepared \cup failed
    /\ b - BlockConcurrency >= lo => LeftBuffer(b - BlockConcurrency)

PrepareBlock(b) ==
    /\ pc = "prepare" /\ InFlight(b)
    /\ prepared' = prepared \cup {b}
    /\ UNCHANGED <<finalized, store, orphans, pc, cancel, status, sunk, faults,
                   head, snap, progress, lo, hi, blk, logs, failed>>

\* A fetch, a receipt, a decoding or a filter of this block fails.
PrepareFailed(b) ==
    /\ pc = "prepare" /\ InFlight(b)
    /\ Fault
    /\ failed' = failed \cup {b}
    /\ UNCHANGED <<finalized, store, orphans, pc, cancel, status, sunk,
                   head, snap, progress, lo, hi, blk, logs, prepared>>

FetchLogs ==
    /\ pc = "prepare" /\ logs = "pending"
    /\ logs' = "ready"
    /\ UNCHANGED <<finalized, store, orphans, pc, cancel, status, sunk, faults,
                   head, snap, progress, lo, hi, blk, prepared, failed>>

FetchLogsFailed ==
    /\ pc = "prepare" /\ logs = "pending"
    /\ Fault
    /\ PollFailed
    /\ UNCHANGED <<finalized, store, orphans, cancel, sunk>>

\* The next block in order is handed out: as soon as it is prepared when the
\* window holds calls only, when the whole window is prepared otherwise.
Handed ==
    \/ logs = "calls" /\ ~ cancel
    \/ logs = "ready" /\ lo .. hi \subseteq prepared \cup failed

\* Mutant: blocks are handed out as they complete (buffer_unordered).
TakeBlockUnordered ==
    /\ pc = "prepare" /\ Handed
    /\ blk' \in prepared
    /\ pc' = "permit"
    /\ UNCHANGED <<finalized, store, orphans, cancel, status, sunk, faults,
                   head, snap, progress, lo, hi, logs, prepared, failed>>

TakeBlock ==
    /\ pc = "prepare" /\ Handed
    /\ blk \in prepared
    /\ pc' = "permit"
    /\ UNCHANGED <<finalized, store, orphans, cancel, status, poll, sunk, faults>>

\* Mutant: a block that failed is skipped and the poll goes on.
TakeFailedBlockSkips ==
    /\ pc = "prepare" /\ Handed
    /\ blk \in failed
    /\ blk' = blk + 1
    /\ pc' = IF blk = hi THEN "window" ELSE "prepare"
    /\ UNCHANGED <<finalized, store, orphans, cancel, status, sunk, faults,
                   head, snap, progress, lo, hi, logs, prepared, failed>>

TakeFailedBlock ==
    /\ pc = "prepare" /\ Handed
    /\ blk \in failed
    /\ PollFailed
    /\ UNCHANGED <<finalized, store, orphans, cancel, sunk, faults>>

-----------------------------------------------------------------------------
(* commit_prepared and commit_block.                                       *)

\* SinkBatch::new has a batch only when the block has results; an encoding
\* error drops the batch.
Submitted ==
    [m \in Monitors |-> IF m \in DecodedAt(blk) THEN sunk[m] \cup {blk} ELSE sunk[m]]

\* Mutant: the sink gets the block before it is committed.
AcquirePermitAndSubmit ==
    /\ pc = "permit" /\ ~ cancel
    /\ pc' = "begin"
    /\ sunk' = Submitted
    /\ UNCHANGED <<finalized, store, orphans, cancel, status, poll, faults>>

AcquirePermit ==
    /\ pc = "permit" /\ ~ cancel
    /\ pc' = "begin"
    /\ UNCHANGED <<finalized, store, orphans, cancel, status, poll, sunk, faults>>

\* Mutant: the transaction does not wait for another one's row locks.
RowsFreeIgnored == TRUE

RowsFree == \A m \in PlannedAt(blk) : ~ LockedByOrphan(m)

\* Mutant: a result row that is there already is no error.
AcceptableTwice == PlannedAt(blk) \subseteq live

\* Every row is still there, and no result row is there already.
Acceptable ==
    /\ PlannedAt(blk) \subseteq live
    /\ \A m \in DecodedAt(blk) : results[m][blk] = 0

LockRows ==
    /\ pc = "begin"
    /\ RowsFree
    /\ Acceptable
    /\ pc' = "locked"
    /\ UNCHANGED <<finalized, store, orphans, cancel, status, poll, sunk, faults>>

\* "monitor set changed before block ...", or a duplicate result key.
CommitRejected ==
    /\ pc = "begin"
    /\ RowsFree
    /\ ~ Acceptable
    /\ PollFailed
    /\ UNCHANGED <<finalized, store, orphans, cancel, sunk, faults>>

\* The server applies the transaction: rows and results become visible at once.
Apply(b, mons, decoded) ==
    /\ row' = [m \in Monitors |-> IF m \in mons THEN AdvanceRow(row[m], b) ELSE row[m]]
    /\ results' = [m \in Monitors |-> IF m \in decoded
                                    THEN [results[m] EXCEPT ![b] = @ + 1] ELSE results[m]]
    /\ UNCHANGED <<used, live>>

ServerCommit ==
    /\ pc = "locked"
    /\ Apply(blk, PlannedAt(blk), DecodedAt(blk))
    /\ pc' = "committed"
    /\ UNCHANGED <<finalized, orphans, cancel, status, poll, sunk, faults>>

\* The transaction fails and is rolled back, before or after it took its locks;
\* or it is durable and only the answer is lost.  The worker sees an error.
CommitFailed ==
    /\ pc \in {"begin", "locked", "committed"}
    /\ Fault
    /\ PollFailed
    /\ UNCHANGED <<finalized, store, orphans, cancel, sunk>>

\* The connection breaks while COMMIT is on its way.
CommitInDoubt ==
    /\ pc = "locked"
    /\ Fault
    /\ orphans' = orphans \cup OrphanTx
    /\ PollFailed
    /\ UNCHANGED <<finalized, store, cancel, sunk>>

OrphanCommit(o) ==
    /\ Apply(o.block, o.mons, o.decoded)
    /\ orphans' = orphans \ {o}
    /\ UNCHANGED <<finalized, pc, cancel, status, poll, sunk, faults>>

OrphanAbort(o) ==
    /\ orphans' = orphans \ {o}
    /\ UNCHANGED <<finalized, store, pc, cancel, status, poll, sunk, faults>>

CommitAcknowledged ==
    /\ pc = "committed"
    /\ sunk' \in IF SinkEnabled THEN {Submitted, sunk} ELSE {sunk}
    /\ progress' = [m \in Active |-> IF m \in PlannedAt(blk) THEN blk ELSE progress[m]]
    /\ blk' = blk + 1
    /\ pc' = IF blk = hi THEN "window" ELSE "prepare"
    /\ UNCHANGED <<finalized, store, orphans, cancel, status, faults,
                   head, snap, lo, hi, logs, prepared, failed>>

\* The poll interval passes.
Wake ==
    /\ pc = "sleep" /\ ~ cancel
    /\ pc' = "poll"
    /\ UNCHANGED <<finalized, store, orphans, cancel, status, poll, sunk, faults>>

Finalize ==
    /\ finalized < MaxBlock
    /\ finalized' = finalized + 1
    /\ UNCHANGED <<store, orphans, pc, cancel, status, poll, sunk, faults>>

-----------------------------------------------------------------------------
Init ==
    /\ finalized = 0
    /\ used = {} /\ live = {}
    /\ row = [m \in Monitors |-> BlankRow]
    /\ results = [m \in Monitors |-> NoResults]
    /\ orphans = {}
    /\ pc = "stopped" /\ cancel = FALSE /\ status = "none"
    /\ head = 0 /\ snap = NoMonitors /\ progress = NoMonitors
    /\ lo = 0 /\ hi = 0 /\ blk = 0 /\ logs = "none"
    /\ prepared = {} /\ failed = {}
    /\ sunk = [m \in Monitors |-> {}]
    /\ faults = 0

Api ==
    \E m \in Monitors :
       \/ \E r \in Ranges : CreateMonitor(m, r[1], r[2])
       \/ \E flag \in BOOLEAN : SetEnabled(m, flag)
       \/ DeleteMonitor(m)

Lifecycle == Start \/ Cancel \/ Crash

\* What the worker task does when nothing goes wrong.
WorkerStep ==
    \/ StopOnCancel
    \/ \E h \in Height : FetchHead(h)
    \/ LoadMonitors
    \/ FinishEmptyPoll
    \/ NextWindow
    \/ FinishPoll
    \/ \E b \in Height : PrepareBlock(b)
    \/ FetchLogs
    \/ TakeBlock
    \/ TakeFailedBlock
    \/ AcquirePermit
    \/ LockRows
    \/ CommitRejected
    \/ ServerCommit
    \/ CommitAcknowledged
    \/ Wake

WorkerFault ==
    \/ RequestFailed
    \/ \E b \in Height : PrepareFailed(b)
    \/ FetchLogsFailed
    \/ CommitFailed
    \/ CommitInDoubt

OrphanStep == \E o \in orphans : OrphanCommit(o) \/ OrphanAbort(o)

Next == Finalize \/ Api \/ Lifecycle \/ WorkerStep \/ WorkerFault \/ OrphanStep

Spec == Init /\ [][Next]_vars

(* Tokio keeps polling a spawned task, the source and the storage answer    *)
(* (with a value or an error), a broken connection is noticed, and a        *)
(* process that stopped is started again.  Nothing is assumed of the API,   *)
(* of the chain, or of the faults, which are finitely many.                 *)
Fairness == WF_vars(WorkerStep) /\ WF_vars(Start) /\ WF_vars(OrphanStep)

FairSpec == Spec /\ Fairness
-----------------------------------------------------------------------------
(* Correctness.                                                            *)

PC == {"stopped", "poll", "load", "empty", "window", "prepare", "permit",
       "begin", "locked", "committed", "sleep"}

StoreTypeOK ==
    /\ finalized \in Height
    /\ used \in SUBSET Monitors /\ live \in SUBSET used
    /\ row \in [Monitors -> Row]
    /\ results \in [Monitors -> [Height -> Nat]]
    /\ orphans \in SUBSET Tx
    /\ sunk \in [Monitors -> SUBSET Height]

TaskTypeOK ==
    /\ pc \in PC /\ cancel \in BOOLEAN
    /\ status \in {"none", "starting", "running", "degraded"}
    /\ faults \in 0 .. MaxFaults

PollTypeOK ==
    /\ head \in Height
    /\ Active \in SUBSET Monitors
    /\ snap \in [Active -> Row]
    /\ progress \in [Active -> Height \cup {None}]
    /\ lo \in Height /\ hi \in Height /\ blk \in 0 .. MaxBlock + 1
    /\ logs \in {"none", "calls", "pending", "ready"}
    /\ prepared \in SUBSET Height /\ failed \in SUBSET Height

\* Every variable has its type: what the poll works on are rows of known
\* monitors, and no block number leaves the height of the chain.
TypeOK == StoreTypeOK /\ TaskTypeOK /\ PollTypeOK

\* The blocks a row's cursor says are indexed.
Indexed(r) == IF r.cursor = None THEN {} ELSE r.start_block .. r.cursor

\* ports/storage.rs: a commit writes results and cursors in one transaction "so
\* that crashes between writes cannot leave gaps or duplicates".  For every
\* registered monitor the stored results are exactly those of the blocks from
\* its start to its cursor, one copy each, whatever crashed, was cancelled, failed, was left in
\* doubt, or was paused in between.
StoredExactly ==
    \A m \in live : \A b \in Height :
       results[m][b] = IF b \in Matches[m] \cap Indexed(row[m]) THEN 1 ELSE 0

\* A cursor never passes the finalized chain or the monitor's end, and the
\* monitor is completed exactly when its cursor is on the end (the flag is
\* recomputed from the block by every commit, also by one that repeats a block).
CursorInRange ==
    \A m \in live : LET r == row[m] IN
       /\ r.cursor # None =>
            /\ r.start_block <= r.cursor
            /\ r.cursor <= finalized
            /\ r.end_block # None => r.cursor <= r.end_block
       /\ r.completed <=> (r.end_block # None /\ r.cursor = r.end_block)

SinkStored == \A m \in live : \A b \in sunk[m] : results[m][b] > 0

\* commit_prepared submits to the sink after the commit only: what the sink got
\* of a registered monitor is stored, and a batch about to be submitted was not
\* submitted before, although polls repeat blocks after errors and restarts.
SinkOncePerBlock ==
    /\ SinkStored
    /\ pc = "committed" => \A m \in DecodedAt(blk) : blk \notin sunk[m]

\* A poll that run records as a success has committed every block it planned:
\* the stored cursor of each monitor it loaded (and that still exists) reached
\* the last block planned for it.
SuccessMeansCommitted ==
    [][(pc = "window" /\ pc' = "sleep") =>
          \A m \in Active \cap live :
             PlanTo(snap[m], head, BatchSize) < next_block(row[m])]_vars

-----------------------------------------------------------------------------
(* The inductive strengthening of the invariants above.                    *)

Polling == pc \in {"window", "prepare", "permit", "begin", "locked", "committed"}

\* The block the poll expects next for m.
NextOf(m) == CursorNext(progress[m], snap[m].start_block)

\* A transaction for block b may be applied to m: b is the block the row waits
\* for, or the block it is on already when that block has no result for m.
CanApply(m, b, decoded) ==
    /\ m \in live
    /\ b <= finalized
    /\ row[m].end_block # None => b <= row[m].end_block
    /\ decoded <=> b \in Matches[m]
    /\ \/ b = next_block(row[m])
       \/ b = row[m].cursor /\ b \notin Matches[m]

OrphansApplicable ==
    /\ \A o \in orphans : \A m \in o.mons : CanApply(m, o.block, m \in o.decoded)
    /\ \A o \in orphans : o.decoded \subseteq o.mons
    /\ \A o, p \in orphans : o # p => o.mons \cap p.mons = {}

\* The copies a poll works on were rows once, and can be stale in one way only:
\* a transaction in doubt moved the row one block ahead of the poll.
SnapshotValid ==
    Polling => \A m \in Active : LET s == snap[m] IN
       /\ m \in used
       /\ IsActive(s)
       /\ s.start_block <= next_block(s)
       /\ s.cursor # None => s.cursor <= finalized
       /\ m \in live =>
            /\ row[m].start_block = s.start_block
            /\ row[m].end_block = s.end_block
            /\ \/ row[m].cursor = progress[m]
               \/ row[m].cursor = NextOf(m) /\ ~ LockedByOrphan(m)

\* What is committed of a monitor's plan is exactly what lies before blk.
ProgressValid ==
    Polling => \A m \in Active :
       /\ next_block(snap[m]) <= NextOf(m)
       /\ progress[m] # None => progress[m] <= finalized
       /\ \A b \in PlanRange(snap[m], head, BatchSize) : b < blk <=> b < NextOf(m)
       /\ \A b \in sunk[m] : b < NextOf(m)

PositionValid ==
    /\ head <= finalized
    /\ pc \in {"stopped", "poll", "load", "sleep"} => blk = 0
    /\ Polling /\ pc # "window" => blk \in lo .. hi

TransactionValid ==
    /\ pc = "locked" => \A m \in PlannedAt(blk) : CanApply(m, blk, m \in DecodedAt(blk))
    /\ pc = "committed" => \A m \in PlannedAt(blk) \cap live : row[m].cursor = blk
    /\ pc \in {"locked", "committed"} => \A m \in PlannedAt(blk) : ~ LockedByOrphan(m)

FreshEmpty == \A m \in Monitors \ used : sunk[m] = {} /\ results[m] = NoResults

\* What the database and the sink hold, and what the worker task knows.
StoreInv ==
    /\ StoreTypeOK
    /\ StoredExactly
    /\ CursorInRange
    /\ SinkStored
    /\ FreshEmpty
    /\ OrphansApplicable

PollInv ==
    /\ PollTypeOK
    /\ SnapshotValid
    /\ ProgressValid
    /\ PositionValid
    /\ TransactionValid

WorkerInv == StoreInv /\ TaskTypeOK /\ PollInv

-----------------------------------------------------------------------------
Abstract == INSTANCE IndexAbstract

\* The worker, its polls, transactions and failures implement the indexer of
\* IndexAbstract: whatever happens, a cursor moves by exactly one block, with
\* that block's results, and only over a finalized block.
ImplementsAbstract == Abstract!Spec

\* A monitor that stays registered and enabled while its end is finalized is
\* completed at last, once faults cease: no failed, cancelled or crashed poll
\* leaves a state from which the next one cannot go on.
Serviceable(m) ==
    /\ m \in live
    /\ row[m].enabled
    /\ row[m].end_block # None /\ row[m].end_block <= finalized

BackfillCompletes ==
    \A m \in Monitors : <>[]Serviceable(m) => <>(m \in live /\ row[m].completed)

\* A cancelled worker stops: every wait on its way looks at the token or ends
\* by itself, so stop_worker's join returns.
CancelStops == cancel ~> pc = "stopped"
=============================================================================
