# A TLA+ verification of parseon

parseon indexes finalized EVM blocks. Users register *monitors* (a contract
call or an event, a block range, a filter); for each chain a worker polls an RPC
endpoint, decodes the calls and events the monitors ask for, and commits the
results together with the monitors' cursors to PostgreSQL or MongoDB. This
directory holds TLA+ models of that program, the TLC configurations that check
them on small instances, and theorems with TLAPS proofs. `PROJECT.json` maps each
definition to the source lines it models.

    tlc -workers 4 -config MCIndexWorker.cfg MCIndexWorker
    tlapm IndexWorkerProofs.tla

## 1. Inventory

| Part (source) | State | Operations | Hard behaviour | What makes it correct |
|---|---|---|---|---|
| Chain worker (`parseon-core/src/worker`, `scheduler.rs`, `monitor.rs`, `pipeline.rs`) | the copies one poll works on: head, monitors, in-memory cursors, windows, prepared blocks | poll, plan, prepare concurrently, commit in order, sleep, cancel | monitors change under the poll; blocks become ready in any order; stale heads; crash or broken connection during COMMIT; cancellation between any two awaits | cursors move block by block with the block's results, never twice, never past the finalized head; after failures it goes on |
| PostgreSQL storage (`parseon-postgres`) | chains, monitors, one result table per monitor, a sequence | block commit, monitor and chain CRUD, chunked inserts, pages | READ COMMITTED statements that wait for rows others delete; row locks; transactions whose client is gone; columns named after what users chose; the bind limit | as if each call were atomic, no deadlock, no table without its monitor; what is read is what was decoded |
| MongoDB storage (`parseon-mongodb`) | documents of the same shape, an id counter | the same, in retried transactions | snapshot isolation, write skew, transient conflicts, commits with unknown result | behaves as if each call were atomic; retry loops end |
| Chain supervisor and chain service (`supervisor.rs`, `services.rs`, `status.rs`) | two mutexes, worker map, status per chain, closed flag | create, update, delete, apply, retire, reconcile, shutdown | handlers interleave at every await; handlers are dropped; a write or a probe fails; shutdown races with everything | one worker per chain, none lost, workers agree with the registry, shutdown is final, no deadlock |
| Process (`parseon-server/src/main.rs`) | phase of the process | start, serve, signal, stop supervisor, server and sink in turn, restart | the startup snapshot against early requests; a shutdown while clients read and deliveries hang | it ends, and what is restarted goes on |
| Log fetching (`parseon-rpc/src/provider.rs`, `fetch.rs`) | stack of ranges per filter | group targets, ask, bisect, fail | providers that refuse ranges; concurrent filters | each wanted (block, target) exactly once |
| Receipt fetching and rotation (`provider.rs`, `transport.rs`) | endpoint, two capability atomics, permits | block receipts, batches, single requests, `set_rpc_url` | capability fallback shared by concurrent calls, an endpoint that changes meanwhile | outcomes complete and in order; a missing capability is no error |
| Indexer and decoding (`indexer.rs`, `abi.rs`) | a per-poll index of monitors | group by layout, find candidates, decode, fan out | outcomes paired by position | each covering monitor gets its results, nobody else |
| Filters (`filter.rs`, `abi.rs`) | the definition stored with a monitor | validate, type, rewrite, store, recompile, evaluate, preview | accepted once, compiled again at every poll; positions in decoded values; limits | accepted by its parts, applied by its meaning, always loadable, preview agrees |
| Monitor service (`services.rs`) | none of its own | create, enable, delete, query results | default start block, paging with an offset under commits and deletions | a client that pages to the end misses nothing |
| Webhook sink (`parseon-webhook-sink`, `ports/sink.rs`) | permits, cancellation | submit, attempt, shut down | a receiver that never answers, a full pool, a crash around the commit | at most once, only committed results, holds up nothing |
| Block cache (`parseon-memory-cache`) | bounded map | get, put, evict | shared by concurrent preparations | a hit equals a fetch |
| HTTP API, metrics, configuration, migrations | none that affects indexing | conversions | | |

How they interact: the API handlers call the chain and monitor services; the
chain service writes storage and calls the supervisor under the mutation mutex;
the supervisor spawns and joins one worker task per chain under the control
mutex; a worker calls the block source (RPC), the cache, the storage and, after a
commit, the sink; all workers share the storage-write permits; storage rows are
the only state that survives the process.

The hazards of this code, each with its line and the properties aimed at it, are
listed in `PROJECT.json` under `hazards`.

## 2. Modules

| Module | Models |
|---|---|
| `Monitor` | a monitor's row and the arithmetic on it (`next_block`, `covers`, `needs_block`, the planned range, the cursor UPDATE), with saturating u64 addition |
| `IndexAbstract` | what one chain's indexer promises: a cursor moves one finalized block at a time, with that block's results |
| `IndexWorker` | the worker of one chain over the transactional storage, beside API calls, faults and crashes |
| `IndexWorkerProofs` | its theorems |
| `Supervisor`, `SupervisorProofs` | control plane, chain service, process life, and its theorems |
| `LogFetch`, `LogFetchProofs` | `adaptive_logs` and its theorems |
| `RpcReceipts`, `RpcReceiptsProofs` | `optimized_receipts`, the capability cache and `set_rpc_url`, and its theorems |
| `StorageAtomic` | what callers expect of a storage adapter: every call happens at once |
| `StorageCalls` | what the adapters share: rows, calls, single-row writes |
| `MongoStorage` | the MongoDB adapter, request by request |
| `PostgresStorage` | the PostgreSQL adapter, statement by statement |
| `Storage` | either adapter under concurrent callers, and what both promise |
| `StorageProofs` | the theorems of `Storage`: the lemmas both adapters use, the steps of MongoDB, the steps of PostgreSQL, the results and the refinement |
| `ResultValues` | columns, types and chunks of PostgreSQL, documents of MongoDB, and the JSON made of a value along each way |
| `MonitorResults` | the life of one monitor's results: creation, commits, webhook, paging clients, shutdown, crash, restart |
| `MonitorResultsProofs` | its theorems, with the lemmas on `ResultValues` |
| `BlockDecode`, `BlockDecodeProofs` | how the blocks of a window become results: index by target and layout, candidates, outcomes, logs, fan-out; and its theorems |
| `Filters`, `FiltersProofs` | a monitor's signature and filter from the request to the verdict on a call or an event, and `preview`; and its theorems |
| `MC*` | constants for TLC |

### IndexWorker

`pc` follows `ChainWorker::run` and `poll_once`: `poll` (finalized head), `load`
(monitors), `empty` (nothing planned), `window`/`prepare` (windows of consecutive
blocks, prepared by up to `BlockConcurrency` concurrent futures, in any order),
`permit` (storage-write semaphore), `begin`/`locked`/`committed` (the storage
transaction), `sleep`. `snap` and `progress` are the poll's copies of the rows and
cursors; rows change under it through `CreateMonitor`, `SetEnabled` and
`DeleteMonitor`. A transaction holds row locks from `LockRows` and takes effect at
`ServerCommit`. If the process crashes or the connection breaks in between, the
transaction becomes an *orphan* that the server commits or rolls back at any later
time. `Matches[m]` is the set of blocks with a result for `m`; `results[m][b]`
counts stored copies, of which the primary key forbids a second one. `StopOnCancel` is enabled
exactly where the code selects on, or tests, the token.

### Supervisor

One program counter per HTTP request and one for the startup reconciliation
(`Boot`). Each await is a step: the mutation mutex, the storage write, the
control mutex, joining a cancelled worker, probing an endpoint. A worker task is
reduced to what the control plane can tell: its chain, endpoint, whether it is
cancelled and whether it is inside a commit. `Disconnect` drops a handler at any
of its awaits, with the guards it holds and the handle it joins. `unsettled`
records chains whose last mutation was cut short by a failure or a dropped
handler, so that agreement is claimed for the others only.

### BlockDecode

The inner side of `IndexWorker`'s preparation, which takes its outcome as
`Matches`. Monitors, transactions and logs are inputs chosen in `Init`; a payload is
the set of ABI layouts that decode it and a tag for filters. The index groups
monitors by target and layout as `MonitorIndex::new` does, each block asks for its
candidates' outcomes, the window for its logs, and `DecodeItem` decodes once per
layout and hands the result to the planned monitors whose filter accepts it. The
source may lose, repeat and reorder outcomes in any way and return flawed logs. The
results of a block are a set whose members tell where they come from (item, layout,
place in the answer): nothing rests on their order, and one that is handed out twice
counts twice. `PreparedExact`
compares the result with `Deserves`, a definition that looks at one monitor and
one item only.

### Filters

Follows one monitor: `Create` parses the signature and prepares the expression
(limits, then types, then canonical literals), `LoadMonitor` compiles the stored form as
every poll does, `IndexItem` decodes a call or an event and evaluates. Another
release may change the stored version in between. An expression is a tree of records,
a text what its readers tell apart: a decimal with sign and leading zeros,
hexadecimal bytes with case and a stray digit, or a word. JSON sizes count a node as
one byte. How alloy decodes a single value, and which decimals it takes for a
width, is external. The reference definitions (`Meaning`, `Nodes`, `IsFault`) speak
of names, values on chain and sets of nodes, not of positions, decoders, canonical
forms or traversal. What the code does by recursion on an expression (`visit`,
`compile_expression`, `evaluate`) is a recursive function on `Expressions`, the trees
with at most `MaxNesting` levels, so that it can be reasoned about; a path that the code
passes down is put together on the way back (`Inside`).

### LogFetch

Each filter has a stack of ranges; an answer pops the top, a refusal replaces it by
its two halves. The endpoint refuses whatever range of more than one block it
likes, and may fail any request. The error texts by which a refusal is recognised
are abstracted.

### RpcReceipts

Each caller walks through the strategies (whole block, batches, single requests);
requests take permits from the shared semaphore, go to the endpoint that is
current when they are sent (an endpoint is what it serves, so that settles the
answer unless the request fails), and are answered in any order; the answers are taken
in order. `capability` are the two atomics. `SetUrl` replaces the endpoint and
`ResetCapability` resets the atomics one at a time, as the code does.

### StorageCalls, MongoStorage, PostgresStorage, Storage

`db` holds the committed rows, `call` and `pc` what each session works on, `own`
what its open transaction wrote. Chain creation, chain updates and enabling are
single writes (`Single`) without a transaction. A process has one adapter, chosen
in `Init`.

MongoDB's server (external) is modelled as snapshot isolation: `snapshot` is the
database as the transaction found it, `stale` what others committed since. A write
to a document that another open transaction wrote, or that is `stale`, is a transient
conflict. The adapter's requests are separate steps; the retry loop begins the
transaction again after a transient error and repeats only the commit when its
result is unknown.

PostgreSQL's server (external) is modelled as READ COMMITTED with row locks: a
statement sees what is committed when it starts, `FOR UPDATE` and `FOR KEY SHARE`
take `locks` and wait for those of others, and a row that was deleted while a
statement waited for it is skipped. Rows are locked one at a time (`todo`). A failed
statement or a dropped caller leaves a transaction that is rolled back; a COMMIT
whose answer is lost (`in_doubt`) may take effect later. The id sequence is outside
the transaction, so ids are lost and never given twice.

`applied` counts how often a call took effect, which the code does not know; the
properties compare it with the `answer`.

### ResultValues, MonitorResults

`ResultValues` is pure: the three ways of a decoded value (into a column or
document, back from it to JSON, straight to the webhook's JSON), the columns
`postgres_params` names, and the chunks of an insert. A name is the sequence of its
parts (`tx_hash_param_1` is three), because the question is whether a name the adapter
makes up can meet one a user chose. A datum is named by its position on the chain, so
two data are never confused with each other.

`MonitorResults` follows one monitor, one worker, one client and the sink. What
`IndexWorker` and `Storage` take apart is one step here: a commit, a creation (on
a registered chain whose endpoint answers). `attempts` are the spawned deliveries, which
hold the permits; the receiver (external) may keep a request for ever. The client
reads the monitor and then a page, as `MonitorService::results` does, and goes on from
the rows it got until a page is empty; the server may return rows in any order that
agrees with `ORDER BY`. `missing` and `received` are for the properties.

## 3. Runs

| Run | Checks |
|---|---|
| `worker_safety` | `StoredExactly`, `SinkOncePerBlock`, `SuccessMeansCommitted`, refinement of `IndexAbstract`, and `WorkerInv`, the inductive invariant of the proofs (types and `CursorInRange` are parts of it) |
| `worker_liveness` | `BackfillCompletes`: a bounded monitor completes after faults cease; `CancelStops` |
| `supervisor_faults` | `OneWorkerPerChain`, `NoLostWorker`, `DeleteWaitsForCommit`, `ShutdownIsFinal`, `SettledAgrees` and the inductive `IInv` with two requests, a failed write, a dropped handler, a restart |
| `supervisor_liveness` | `RequestsFinish`, `ShutdownCompletes` with two chains that share one storage permit |
| `delete_during_shutdown` | finding 1, a violation |
| `block_decode` | `PreparedExact`: each monitor gets exactly what it deserves; `ErrorHasCause`: nothing on the chain fails a block |
| `log_fetch` | `StackValid`, `ExactLogs`, `Terminates` for every set of targets and pattern of refusals |
| `storage` | `NoOrphans`, `ReportIsHonest`, `CommitIsWhole`, refinement of `StorageAtomic` for both adapters; `CallsReturn`: retry loops end, row locks never wait in a circle; the inductive `IInv` |
| `monitor_results` | `ReadsBackAsSent`, `RowsAreComplete`, `DeliveredOnce`, `PagesMissNothing`; `IndexingGoesOn`, `ShutdownEnds`: whatever the receiver does |
| `filters` | `RejectedWhereWrong`, `LoadsWhatWasAccepted`, `StoredByMeaning`, `PreviewAgrees` over every comparison and nested joins |
| `receipts` | `OutcomesInOrder`, `ErrorNeedsFault`, the inductive `IInv`; `CallsEnd` |
| `receipts_rotation` | finding 2, a violation |

Every property of a passing run has a mutant in `PROJECT.json`: a plausible bug in
a mapped definition under which TLC finds the property violated.

### Bounds and why they are enough

- *Worker*: a call and an event monitor (windows with and without a log query),
  blocks 0..2 with batches of 2 (two windows in a poll, a full and a partial one,
  overlapping and disjoint plans), an ended and an open range, blocks with and
  without results, two faults (so that a crash leaves an orphan and a second fault
  hits the poll that meets it). The theorems remove these bounds for safety. For
  liveness: blocks 0..1 and batches of 1, the same faults.
- *Supervisor*: two requests suffice for every pair of interleaved handlers, plus
  boot, shutdown and workers; three task identities allow a replaced, a replacing
  and a detached worker at once. The fault run has one chain, since faults act on one
  chain at a time; the liveness run has two, whose workers wait for one write permit,
  with one request that may be dropped.
- *BlockDecode*: two blocks with the same items in opposite orders, up to two
  transactions and two logs each, every choice of up to three of six monitors that
  share a target and layout, a target only, or nothing, some planned for one block
  only, some filtering; one failed or flawed answer.
- *LogFetch*: six blocks give three levels of bisection with odd and even ranges;
  three addresses by two topics reach both groupings and ties.
- *Storage*: two sessions and three calls, the single writes counted (two calls that
  race, with a third before, between or after: commit against deletion, creation
  against chain deletion, two commits, a retried transaction against an update), from
  an empty database or one with up to two monitors (so that row locks have an order),
  two ids, one chain, one block, one fault. A second block is not needed: results are
  addressed by monitor and block and no request reads another block's.
- *MonitorResults*: a block with three results, one with one and one with none; a bind
  limit of 13 cuts the three into a full and a shorter statement; names that are the
  adapter's own columns, that are what the adapter makes of those, and that collide
  once more; a name that PostgreSQL refuses, and one parameter more than the column limit
  of 6 allows; every form of value, an indexed string among them; pages of at most two,
  asked for with limits 0 and 3 (below and above what is served); one webhook permit,
  so that the second block meets a full pool; two faults, so that a crash and a
  restart, or an unanswered commit and a crash, happen in one behaviour.
- *RpcReceipts*: three candidates in batches of two (a full and a partial chunk),
  two callers, two permits, two calls (by one caller after the other's, or at the
  same time), one rotation, one failed request; three calls for finding 2.
- *Filters*: widths, word, address and limits are scaled down (2 bits, 2 bytes, 1
  byte, 5 nodes, depth 3, 3 children) so that literals and trees lie on both sides of
  each limit; `MaxNesting` is 5, more than the levels of the deepest tree that is tried
  (the JSON reader has a limit far beyond `MaxDepth` too); seven signatures cover the ABI types, indexed and not, in both orders,
  and unnamed parameters; every comparison of eleven fields, six operators and fifteen
  literals is tried against each.

Symmetry is used where identities are interchangeable and only in runs without
temporal properties other than refinement. Deadlock is not checked where the
system may rest: a finished query, exhausted call bounds, a process that is off.

### Fairness

tokio polls every spawned task and handler that can make progress, requests to the
endpoint and the storage end with an answer or a timeout, and a process that
stopped is started again by its environment: weak fairness of the task's own
steps. `tokio::sync::Mutex` is a FIFO queue, so a waiting handler is served although
the mutex is taken and released by others in between: strong fairness of each
request and of the reconciliation in `Supervisor`. A cancelled worker's end is
assumed there (`EndTask`) and shown in `IndexWorker` (`CancelStops`). Nothing is
assumed of users, the chain, workers beginning commits, or faults, which are
bounded in number. `Storage` assumes weak fairness of each session (the server
answers, and ends transactions whose client is gone), `MonitorResults` of the worker,
the request handlers and the shutdown sequence, and nothing of the webhook's
receiver. `CallsReturn` of the MongoDB adapter holds once single writes
from outside cease: a stream of updates to a chain could restart a transaction
for ever, since the retry loop has no bound.

## 4. Proofs

**IndexWorkerProofs**, for every set of monitors, chain height, batch
size, concurrency, number of faults, kinds and matches, from `MonitorAssumption`,
`SizeAssumption` and `ChainAssumption` alone (`MaxBlock < MaxU64`, i.e. the chain
does not reach the largest u64):

- `Invariance`: `Spec => []WorkerInv`, and from it `TypeCorrect`,
  `StoredExactlyHolds`, `CursorInRangeHolds`, `SinkOncePerBlockHolds`;
- `SuccessMeansCommittedHolds`: a poll recorded as a success committed its plan;
- `WorkerImplementsAbstract`: every step is a step of `IndexAbstract` or a stutter.

`StoredExactly` is not inductive. A commit sets the cursor to its block
whatever it was and inserts the rows that the poll decoded from a copy of the
monitors, so its correctness depends on what that copy can be. `WorkerInv` adds:
`SnapshotValid` (the copy differs from the row in one way only: an orphan moved the
row one block ahead of the poll), `ProgressValid` (the part of a monitor's plan
before `blk` is exactly what lies before its next block), `OrphansApplicable` (every
transaction in doubt still fits the rows it has locked, and no two lock the same row)
and `TransactionValid` (the same of the worker's own transaction). The key step is
that a poll overtaken by an orphan either fails on the primary key (a block with
results) or repeats an update that changes nothing (a block without).

**LogFetchProofs**, for every window, set of addresses and topics, and concurrency:
`TypeCorrect`, `StackValidHolds`, `ExactLogsHolds`. The invariant is `StackValid`:
the pending ranges are the contiguous rest of the window and everything before
the top was returned once; with the lemma that each grouping into filters selects
each wanted pair by exactly one filter, `ExactLogs` follows.

**SupervisorProofs**, for every set of chains, endpoints, requests and tasks and any
number of failures, dropped handlers and restarts (assumed: `None` is none of the
values it stands beside): `Invariance`, `TypeCorrect`, `NoLostWorkerHolds`,
`OneWorkerPerChainHolds`, `DeleteWaitsForCommitHolds`, `ShutdownIsFinalHolds`,
`SettledAgreesHolds`. None of these is inductive, since each depends on what a handler
remembers across its awaits. `IInv` adds `Excluded` (who is past a mutex holds it),
`JobsValid` (the record a handler is about to apply is the one in the registry),
`WorkersValid` (the map holds exactly the tasks that were not cancelled, and none for a
chain that is being joined or probed), `Awaited` (a cancelled task is joined by the
handler that stopped it or by the shutdown, unless a handler was dropped),
`RemovedHasNoTask` (what `DeleteWaitsForCommit` needs at the moment of the
deletion) and `ReconciledAgrees` (`SettledAgrees` for the chains that startup has been
through). Finding 1 shows as the hypothesis `~ closed` of `RemovedHasNoTask`.

**RpcReceiptsProofs**, for every batch size, number of permits, finite set of callers,
number of transactions and sequence of endpoints: `Invariance`, `TypeCorrect` (requests
in flight never exceed the permits), `OutcomesInOrderHolds`, `ErrorNeedsFaultHolds`.
`Collecting` is the strengthening: the answers taken are those of the first t
requests, and the outcomes held are those that t requests of the current strategy
cover, in order. The arithmetic is that a last, shorter batch ends exactly at
the number of transactions asked for. Callers are finite because permits are counted.

**StorageProofs**, for every finite set of sessions, and any chains,
blocks, ids, calls and faults: `Invariance`, `TypeCorrect`, `NothingOrphaned`,
`ReportsAreHonest`, `CommitsAreWhole`, `Implements`.

- *MongoDB* (`MongoValid`): what an open transaction has written is what its operation,
  as far as it got, makes of its snapshot; it has written nothing stale; and two open
  transactions have written nothing in common. `NoOrphans` needs that writers who read
  a set are in conflict with whoever extends it: a new monitor makes its chain stale
  and a new result its monitor (the adapter touches the parent for that reason), so
  that a deletion that commits has seen everything below.
- *PostgreSQL* (`PostgresValid`): `Holds` says for each statement what is locked and
  written, `LocksValid` that locks exclude, that a locked row stays and that a monitor
  written is locked or new. A transaction in doubt has lost its caller; it still holds
  what some valid call would have held before its COMMIT. Each commit changes
  only rows that no other session's `Holds` speaks of.
- *Refinement* (`Implements`): `Effect` describes what a commit makes of the
  database; it is shown to be one operation of `StorageAtomic`, every other step a
  stutter. The ids in use are those below the counter but for the ones that open
  transactions hold; a PostgreSQL transaction takes its id before it commits, a MongoDB
  transaction with the commit.

**MonitorResultsProofs**, for every target and schema, content of the chain, bind and
column limit, page size, number of permits and number of faults (assumed: block numbers start at 0
without gaps; a block has finitely many results; a parameter has one of the supported
ABI types and a name): `Invariance`, `RowsStayComplete`,
`ReadsBackHolds`, `DeliveredOnceHolds`, `PagesMissNothingHolds`.

- `WorkValid`: the block in hand is the monitor's next, and after the commit its
  cursor; what restarts from storage alone is in the same place.
- `DeliveryValid`: a block that was delivered or is being delivered is committed, and
  a block just committed was not submitted before.
- `PageValid`: each row a reading client still misses comes after at least as many rows
  as its offset says. Rows arrive at the end of the order only, so an
  offset stays right; with an empty page nothing can be missing.
- `StoredValid`: a creation fails where it must (`Impossible`) and nowhere else, and a
  row is what the adapter makes of the decoded values, so that
  `ReadsBackAsSent` is a matter of `ResultValues` alone: no two parameters share a
  column, and a column has the name of a system column of PostgreSQL only where a
  parameter has (`ColumnsDiffer`: a free suffix always exists, as names are finitely
  many, and the columns given so far differ, by taking the smallest position where they
  would not), every value fits its column's type, and the chunks of an insert cover all
  rows of a block.

TLC checked this `IInv` on the instance of `monitor_results` as well.

**BlockDecodeProofs**, for every window, list of monitors, content of the blocks and
number of flawed answers (assumed: a target has a selector or topic; a log's
transaction succeeded): `Invariance`, `PreparedExactHolds`, `ErrorHasCauseHolds`.
`LogsValid` says that the logs received are those the window asked for and that a
flawed one is on record, `ResultsValid` that each block holds what the *right*
outcomes make of it, whatever the source answered: outcomes that match the
candidates hash by hash are the right ones, because no transaction is a candidate
twice (`MatchIsRight`). The rest is that what a monitor deserves is always asked for
(`DueIsWanted`, `DueIsReturned`) and reaches it along one layout and one place only.
TLC checked this `IInv` on the instance of `block_decode` as well.

**FiltersProofs**, for every set of requests, values on chain, limits and widths
(assumed: the limits are numbers and the widths positive; a request is what serde and
alloy let through, with sizes that Solidity has, functions without indexed parameters,
and values on chain that fit their type; `None` is none of the values it stands
beside): `Invariance`, `RejectsWhereWrong`, `LoadsAccepted`, `StoredMeans`,
`PreviewsAgree`. `Inv` ties each part of the state to the request: the answer to what
`prepare` gives, the row to the accepted definition with some version, the compiled
filter to the one that was accepted, the outcome to its verdict. The properties are then
about functions on trees.

- *Recursion*: that a recursive function exists, and is what its definition says, has to
  be shown for the provers; it is, level by level of the trees (`SizeIs`, `VisitIs`,
  `CompileIs`, `EvaluateIs`, `MeaningIs`, `NodesIs`), and loops have a state after every
  round (`Rounds`). `TreeInduction` takes a set where induction schemes take an operator.
- *Loading* (`Recompiled`): the stored form compiles to what the original compiled to, is
  no longer, and is visited alike, because a canonical literal is canonical, means the
  same and is no longer than what it was made from (`CanonicalIs`).
- *Meaning* (`TreeMeans`): the decoded parameter at the position that compilation chose
  is the value on chain of the parameter of that name (`LogDecoded`: topics and data,
  taken by the indexed flag, give back the values in order); compilation leaves ordering
  to integers and gives both sides one type, so no comparison fails, and the first part
  that decides a join gives its value.
- *Preview* (`PreviewIs`, `JsonRead`): the JSON that describes a value is read as what
  decoding makes of it.
- *Rejection* (`VisitSees`, `CompileFaults`): `visit` counts the nodes it has read;
  where it stops at the limit, as many nodes as the limit come before that
  place (`BeforeCounts`).

TLC checked this `Inv` on the instance of `filters` too, on 70000 states; evaluating it
throughout takes longer than a run should.

**Only model-checked**: liveness (`BackfillCompletes`, `CancelStops`, `RequestsFinish`,
`ShutdownCompletes`, `Terminates`, `CallsReturn`, `CallsEnd`, `IndexingGoesOn`,
`ShutdownEnds`), which is out of the prover's reach. Every safety invariant and action
property that a passing run checks is a theorem.

## 5. Findings

1. *A chain deletion can race a commit during shutdown* (`delete_during_shutdown`).
   `retire` stops only a worker that is still in the map. Once `shutdown` has
   taken the workers, a deletion that waited for the control mutex finds none and
   deletes while the cancelled worker still commits, contrary to the comments at
   `supervisor.rs:178-180` and `services.rs:137-138`. The storage transactions keep
   the data consistent. `DeleteWaitsForCommit` shows the promise holds otherwise.
2. *A late answer of the old endpoint rules out a capability of the new one*
   (`receipts_rotation`). `optimized_receipts` stores "unsupported" when it takes an
   answer, whichever endpoint gave it; `provider.rs:389-391` says capabilities are
   probed again on the new URL. Results stay right; the source stays on slower
   requests until the next rotation or restart.

Also seen, without a run of its own:

- PostgreSQL refuses a column named `ctid`, `xmin`, `xmax`, `cmin`, `cmax` or `tableoid`.
  `CALL_RESERVED` and `EVENT_RESERVED` (`dyn_table.rs:26-27`) list only the adapter's own
  columns, so a monitor of `f(uint256 xmin)` passes validation, its `CREATE TABLE` fails
  and the request is answered as an internal error, where MongoDB takes the monitor. The
  same goes for more parameters than a table takes columns. `ReadsBackAsSent` says that
  no other names or numbers of parameters fail a creation.
- A handler dropped while it joins a worker leaves that worker detached and still
  able to finish its commit beside a replacement; `OneWorkerPerChain` is therefore
  claimed only while no handler was dropped, `NoLostWorker` always. Two such workers
  could rewind a cursor over blocks without results.
- `ports/sink.rs:31` says `shutdown` flushes pending deliveries; `WebhookSink` cancels
  them.
- `filter.rs:19` calls `MAX_BYTES` a limit on the canonical encoding; on creation the
  encoding is measured before the literals are rewritten (`filter.rs:147-148`), when
  loading after.
- `ports/storage.rs:40` says `load_monitors` returns monitors whatever their state; the
  MongoDB adapter leaves out disabled and completed ones. The worker filters them
  anyway.

## 6. Not modelled

Decoding of single ABI values (alloy); the layout of HTTP requests and responses and
status codes; metrics and configuration; migrations, and the indexes MongoDB is
given at connect; the connection pool; PostgreSQL's limits on identifiers (63 bytes)
and text (NUL), its limit on the size of a row (a table of very many columns may take
no row), and the ranges of i64 columns; a database write of a dropped or unanswered
handler that lands after a later mutation of its chain (in `Supervisor` it lands by the
time the handler ends, or never); what a read sees of a table that is
dropped at that moment, beyond "no table"; the no-op sink. The block cache is
transparent in `IndexWorker` and reduced to hit, miss and admission in `BlockDecode`;
eviction is left out, since a cached block and a fetched one are the same finalized
block.

## 7. Plan

Done: all modules of section 2 and the theorems of section 4.

Next, in order:

1. Two overlapping workers of a chain (after a dropped handler) over one storage:
   whether a slower one rewinds a cursor, composing `Supervisor`'s detached task
   with `IndexWorker`'s commits.
2. Facts about what is proved in parts: that a window prepared by `BlockDecode` is what
   `IndexWorker` takes as `Matches`.
