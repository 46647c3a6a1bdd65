--------------------------- MODULE MonitorResults ---------------------------
(***************************************************************************)
(* The life of one monitor's results: the service creates the monitor, the  *)
(* worker commits its blocks and hands each to the webhook sink, clients    *)
(* page through the rows over the HTTP API, and the process stops, or dies  *)
(* and is started again, while they do.                                     *)
(*                                                                          *)
(* How blocks are planned, prepared and committed together with other       *)
(* monitors is IndexWorker's subject, how the storage isolates writers      *)
(* Storage's: here a commit is one step, what is stored of a value and in   *)
(* which order rows come out is not.                                        *)
(***************************************************************************)
EXTENDS ResultValues

CONSTANTS
    Targets,      \* what users monitor: records [kind, schema]
    Found,        \* Found[b]: the positions in block b of what the monitor matches
    Starts,       \* the blocks users name as a start or an end
    Permits,      \* WEBHOOK_CONCURRENCY
    Limits,       \* the page sizes users ask for
    MaxPage,      \* the largest page (200)
    MaxFaults,    \* bound on unanswered commits, crashes and restarts
    None, Deleted

Blocks == DOMAIN Found
Adapters == {"mongodb", "postgres"}
MonitorRecord == [start : Nat, end : Nat \cup {None}, cursor : Nat \cup {None}]

ASSUME ResultsAssumption ==
    /\ Permits \in Nat \ {0} /\ MaxPage \in Nat \ {0} /\ MaxFaults \in Nat
    /\ Limits \subseteq Nat /\ Starts \subseteq Nat
    /\ 0 \in Blocks /\ \A b \in Blocks : b \in Nat /\ 0 .. b \subseteq Blocks
    /\ \A b \in Blocks : IsFiniteSet(Found[b]) /\ Found[b] \subseteq Nat
    /\ \A t \in Targets : t.kind \in {"call", "event"} /\ t.schema \in Seq(ToSet(t.schema))
    /\ \A t \in Targets : \A i \in DOMAIN t.schema : IsParam(t.schema[i])
    /\ None \notin Nat /\ Deleted # None /\ {None, Deleted} \cap MonitorRecord = {}

VARIABLES
    adapter,   \* "mongodb" or "postgres"
    target,    \* what the monitor watches
    head,      \* the finalized head
    monitor,   \* a record [start, end, cursor], None before, Deleted after
    rows,      \* the stored rows, by <<block, position>>
    answer,    \* what the request to create the monitor was answered
    \* The process.
    phase,     \* "up", "stopping" (cancelled), "closing" (sink shut down), "down"
    work,      \* the worker: [at, block], at is "idle", "commit" or "submit"
    cancelled, \* the sink's token
    attempts,  \* the attempts that hold a permit: block |-> "sent" or "received"
    faults,
    \* The world.
    received,  \* how often the receiver was given a block
    client     \* a client: [at, limit, offset, missing]

fixed == <<adapter, target>>
store == <<monitor, rows>>
process == <<phase, work, cancelled, attempts>>
vars == <<fixed, head, store, answer, process, faults, received, client>>

Idle == [at |-> "idle", block |-> None]
Away == [at |-> "away", limit |-> 1, offset |-> 0, missing |-> {}]

Exists == monitor \notin {None, Deleted}

\* The values decoded from what is at a position; a datum is named by where it is.
Values(t, row) == [i \in DOMAIN t.schema |-> Decoded(t.schema[i], <<row, i>>)]

-----------------------------------------------------------------------------
(* The monitor service.                                                    *)

\* MonitorService::create: no start means the finalized head; a range that ends
\* before it starts is the caller's mistake; PostgreSQL must make the table.  (Signature
\* and filter are Filters' subject; the chain is registered and its endpoint answers.)
CreateMonitor(start, end) ==
    /\ phase = "up" /\ monitor = None /\ answer = "none"
    /\ LET first == IF start = None THEN head ELSE start
           valid == end = None \/ end >= first
           fits  == adapter = "postgres" => CanCreateTable(target.kind, target.schema)
       IN  /\ monitor' = IF valid /\ fits THEN [start |-> first, end |-> end, cursor |-> None]
                                          ELSE None
           /\ answer' = IF ~ valid THEN "bad_request" ELSE IF fits THEN "created" ELSE "error"
    /\ UNCHANGED <<fixed, head, rows, process, faults, received, client>>

\* Another request, after a refused or failed one.
AskAgain ==
    /\ answer \in {"bad_request", "error"}
    /\ answer' = "none"
    /\ UNCHANGED <<fixed, head, store, process, faults, received, client>>

DeleteMonitor ==
    /\ phase = "up" /\ Exists
    /\ monitor' = Deleted
    /\ rows' = <<>>
    /\ UNCHANGED <<fixed, head, answer, process, faults, received, client>>

Finalize ==
    /\ head + 1 \in Blocks
    /\ head' = head + 1
    /\ UNCHANGED <<fixed, store, answer, process, faults, received, client>>

-----------------------------------------------------------------------------
(* The worker and its commits.                                             *)

NextBlock == IF monitor.cursor = None THEN monitor.start ELSE monitor.cursor + 1

Due == Exists /\ NextBlock <= head /\ (monitor.end # None => NextBlock <= monitor.end)

\* SinkBatch::new, and WebhookSink::submit's early returns: nothing to send, shut
\* down, every permit taken.
Sent(b) == Found[b] # {} /\ ~ cancelled /\ Cardinality(DOMAIN attempts) < Permits

Started(b) == [k \in DOMAIN attempts \cup {b} |-> IF k = b THEN "sent" ELSE attempts[k]]

Decode ==
    /\ phase = "up" /\ work.at = "idle"
    /\ Due
    /\ work' = [at |-> "commit", block |-> NextBlock]
    /\ UNCHANGED <<fixed, head, store, answer, phase, cancelled, attempts, faults, received, client>>

InOrder(S) == CHOOSE q \in SetToSeqs(S) : \A i, j \in DOMAIN q : i < j => q[i] < q[j]

\* What a block holds for a target, in the order of the block.
Inputs(t, b) ==
    LET positions == InOrder(Found[b]) IN
    [n \in DOMAIN positions |->
        [key |-> <<b, positions[n]>>, params |-> Values(t, <<b, positions[n]>>)]]

\* How the rows of a block are addressed.
KeysOf(b) == {<<b, n>> : n \in Found[b]}

\* The adapters' commit_block for this monitor: whether the rows are accepted, and
\* what they are.
Insertable ==
    [a \in Adapters |-> [t \in Targets |-> [b \in Blocks |->
        a = "postgres" => CanInsert(t.kind, t.schema, Inputs(t, b))]]]

NewRows ==
    [a \in Adapters |-> [t \in Targets |-> [b \in Blocks |->
        IF a = "postgres"
        THEN LET inserted == Inserted(t.kind, t.schema, Inputs(t, b)) IN
             [k \in {i.key : i \in inserted} |->
                 PgRow(t.kind, t.schema, (CHOOSE i \in inserted : i.key = k).params)]
        ELSE [k \in KeysOf(b) |-> bson_params(t.schema, Values(t, k))]]]]

Accepted(b) == Exists /\ Insertable[adapter][target][b]

Durable(b) ==
    LET new == NewRows[adapter][target][b] IN
    /\ monitor' = [monitor EXCEPT !.cursor = b]
    /\ rows' = [k \in DOMAIN rows \cup DOMAIN new |-> IF k \in DOMAIN rows THEN rows[k] ELSE new[k]]

Commit ==
    /\ work.at = "commit"
    /\ Accepted(work.block)
    /\ Durable(work.block)
    /\ work' = [work EXCEPT !.at = "submit"]
    /\ UNCHANGED <<fixed, head, answer, phase, cancelled, attempts, faults, received, client>>

\* The storage refuses, or the worker is cancelled before its turn to write.
CommitNot ==
    /\ work.at = "commit"
    /\ ~ Accepted(work.block) \/ phase = "stopping"
    /\ work' = Idle
    /\ UNCHANGED <<fixed, head, store, answer, phase, cancelled, attempts, faults, received, client>>

Fault == faults < MaxFaults /\ faults' = faults + 1

\* The commit is durable and its answer lost: for the worker it has failed.
CommitUnanswered ==
    /\ work.at = "commit"
    /\ Accepted(work.block)
    /\ Fault
    /\ Durable(work.block)
    /\ work' = Idle
    /\ UNCHANGED <<fixed, head, answer, phase, cancelled, attempts, received, client>>

-----------------------------------------------------------------------------
(* The webhook sink.                                                       *)

\* Mutant: submit waits for a permit.
SubmitWaits ==
    /\ work.at = "submit"
    /\ Found[work.block] # {} /\ ~ cancelled => Cardinality(DOMAIN attempts) < Permits
    /\ attempts' = IF Sent(work.block) THEN Started(work.block) ELSE attempts
    /\ work' = Idle
    /\ UNCHANGED <<fixed, head, store, answer, phase, cancelled, faults, received, client>>

Submit ==
    /\ work.at = "submit"
    /\ attempts' = IF Sent(work.block) THEN Started(work.block) ELSE attempts
    /\ work' = Idle
    /\ UNCHANGED <<fixed, head, store, answer, phase, cancelled, faults, received, client>>

Without(b) == [k \in DOMAIN attempts \ {b} |-> attempts[k]]

\* The receiver (external) gets the request, and may take its time to answer.
Receive(b) ==
    /\ b \in DOMAIN attempts /\ attempts[b] = "sent"
    /\ attempts' = [attempts EXCEPT ![b] = "received"]
    /\ received' = [received EXCEPT ![b] = @ + 1]
    /\ UNCHANGED <<fixed, head, store, answer, phase, work, cancelled, faults, client>>

\* Mutant: a failed attempt is made again.
EndsRetrying(b) ==
    /\ b \in DOMAIN attempts /\ ~ cancelled
    /\ attempts' = [attempts EXCEPT ![b] = "sent"]
    /\ UNCHANGED <<fixed, head, store, answer, phase, work, cancelled, faults, received, client>>

\* Any answer, or none because the connection failed: the attempt ends.
Ends(b) ==
    /\ b \in DOMAIN attempts /\ ~ cancelled
    /\ attempts' = Without(b)
    /\ UNCHANGED <<fixed, head, store, answer, phase, work, cancelled, faults, received, client>>

CancelAttempt(b) ==
    /\ b \in DOMAIN attempts /\ cancelled
    /\ attempts' = Without(b)
    /\ UNCHANGED <<fixed, head, store, answer, phase, work, cancelled, faults, received, client>>

-----------------------------------------------------------------------------
(* The process.                                                            *)

\* A signal, or the end of the supervisor or the server: everything is cancelled.
Stop ==
    /\ phase = "up"
    /\ phase' = "stopping"
    /\ UNCHANGED <<fixed, head, store, answer, work, cancelled, attempts, faults, received, client>>

Serving == client.at \in {"get_monitor", "query_results"}

\* Mutant: shutdown waits for the last delivery to end.
ShutdownSinkWaits ==
    /\ phase = "stopping"
    /\ work.at = "idle" /\ ~ Serving /\ attempts = <<>>
    /\ cancelled' = TRUE
    /\ phase' = "closing"
    /\ UNCHANGED <<fixed, head, store, answer, work, attempts, faults, received, client>>

\* The worker is gone, and the server has answered its last request.
ShutdownSink ==
    /\ phase = "stopping"
    /\ work.at = "idle" /\ ~ Serving
    /\ cancelled' = TRUE
    /\ phase' = "closing"
    /\ UNCHANGED <<fixed, head, store, answer, work, attempts, faults, received, client>>

\* main returns, and takes with it what is still spawned.
Exit ==
    /\ phase = "closing"
    /\ phase' = "down"
    /\ attempts' = <<>>
    /\ UNCHANGED <<fixed, head, store, answer, work, cancelled, faults, received, client>>

Crash ==
    /\ phase # "down"
    /\ Fault
    /\ phase' = "down"
    /\ work' = Idle
    /\ attempts' = <<>>
    /\ client' = Away
    /\ UNCHANGED <<fixed, head, store, answer, cancelled, received>>

Restart ==
    /\ phase = "down"
    /\ Fault
    /\ phase' = "up"
    /\ cancelled' = FALSE
    /\ UNCHANGED <<fixed, head, store, answer, work, attempts, received, client>>

-----------------------------------------------------------------------------
(* Reading.  A client (external) reads page after page, each after as many  *)
(* rows as it has got, until a page is empty.  missing is for the property: *)
(* the rows there when it began that it has not got.                        *)

ReadFirst(limit) ==
    /\ phase = "up" /\ client = Away /\ Exists
    /\ client' = [at |-> "between", limit |-> limit, offset |-> 0, missing |-> DOMAIN rows]
    /\ UNCHANGED <<fixed, head, store, answer, process, faults, received>>

AskForPage ==
    /\ phase = "up" /\ client.at = "between"
    /\ client' = [client EXCEPT !.at = "get_monitor"]
    /\ UNCHANGED <<fixed, head, store, answer, process, faults, received>>

LosesServer ==
    /\ phase # "up" /\ client.at = "between"
    /\ client' = Away
    /\ UNCHANGED <<fixed, head, store, answer, process, faults, received>>

\* MonitorService::results reads the monitor, then its rows.
GetMonitor ==
    /\ client.at = "get_monitor"
    /\ client' = IF Exists THEN [client EXCEPT !.at = "query_results"] ELSE Away
    /\ UNCHANGED <<fixed, head, store, answer, process, faults, received>>

PageLimit(limit) == Max({1, Min({limit, MaxPage})})

\* Mutant: ORDER BY block_number DESC, and nothing for rows of one block.
BeforeByBlock(x, y) == x[1] > y[1]

\* ORDER BY block_number DESC, then tx_hash (calls) or log_index (events) DESC
Before(x, y) == x[1] > y[1] \/ (x[1] = y[1] /\ x[2] > y[2])

\* The server may return rows in any order that agrees with ORDER BY.
Ordered == {q \in SetToSeqs(DOMAIN rows) : \A i, j \in DOMAIN q : i < j => ~ Before(q[j], q[i])}

Page(q) == SubSeq(q, client.offset + 1, Min({client.offset + PageLimit(client.limit), Len(q)}))

\* A monitor deleted in between: PostgreSQL has no table, MongoDB finds nothing.
QueryResults ==
    /\ client.at = "query_results"
    /\ UNCHANGED <<fixed, head, store, answer, process, faults, received>>
    /\ \E q \in Ordered :
          client' = IF ~ Exists /\ adapter = "postgres" THEN Away
                    ELSE IF Page(q) = <<>> THEN [client EXCEPT !.at = "done"]
                    ELSE [client EXCEPT !.at = "between",
                                        !.offset = @ + Len(Page(q)),
                                        !.missing = @ \ ToSet(Page(q))]

Leave ==
    /\ client.at = "done"
    /\ client' = Away
    /\ UNCHANGED <<fixed, head, store, answer, process, faults, received>>

-----------------------------------------------------------------------------
Init ==
    /\ adapter \in Adapters
    /\ target \in Targets
    /\ head = Min(Blocks)
    /\ monitor = None
    /\ rows = <<>>
    /\ answer = "none"
    /\ phase = "up" /\ work = Idle /\ cancelled = FALSE /\ attempts = <<>>
    /\ faults = 0
    /\ received = [b \in Blocks |-> 0]
    /\ client = Away

Worker == Decode \/ Commit \/ CommitNot \/ Submit

Service == GetMonitor \/ QueryResults

Shutdown == ShutdownSink \/ Exit

User ==
    \/ \E s, e \in Starts \cup {None} : CreateMonitor(s, e)
    \/ AskAgain \/ DeleteMonitor \/ Stop
    \/ \E limit \in Limits : ReadFirst(limit)
    \/ AskForPage \/ LosesServer \/ Leave

World ==
    \/ Finalize \/ CommitUnanswered \/ Crash \/ Restart
    \/ \E b \in Blocks : Receive(b) \/ Ends(b) \/ CancelAttempt(b)

Next == Worker \/ Service \/ Shutdown \/ User \/ World

Spec == Init /\ [][Next]_vars

\* The process polls its tasks and the storage answers.  Nothing is assumed of the
\* receiver: it may keep every request it is given.
FairSpec == Spec /\ WF_vars(Worker) /\ WF_vars(Service) /\ WF_vars(Shutdown)

-----------------------------------------------------------------------------
(* Correctness.                                                            *)

ReadBack(k) ==
    IF adapter = "postgres" THEN read_params(target.kind, target.schema, rows[k])
                            ELSE bson_params_to_json(rows[k])

\* What PostgreSQL cannot make a table for: a parameter has the very name of one of
\* its system columns, or there are too many.  The code does not look for either.
Impossible(t) ==
    \/ \E i \in DOMAIN t.schema : t.schema[i].name \in SystemColumns
    \/ Width(t.kind, t.schema) > MAX_COLUMNS

\* MongoDB never fails to create a monitor, and PostgreSQL fails exactly for those.
Answered ==
    /\ answer = "error" => adapter = "postgres" /\ Impossible(target)
    /\ answer = "created" => adapter = "mongodb" \/ ~ Impossible(target)

\* A user may call the parameters of a target as the adapter's own columns, or as the
\* columns it makes up for others: names fail a creation only where one is the name of
\* a system column of PostgreSQL.  And whatever their names and types, both adapters
\* return, for each parameter of each result, the very JSON the webhook was sent: no
\* column meets another one or one of the adapter's own, and no value changes its form
\* on the way.  (Names are shorter than 63 bytes, where PostgreSQL cuts them.)
ReadsBackAsSent ==
    /\ Answered
    /\ \A k \in DOMAIN rows : ReadBack(k) = canonical_params(target.schema, Values(target, k))

Committed(b) == monitor.cursor # None /\ monitor.start <= b /\ b <= monitor.cursor

\* The rows are exactly what the chain holds between the monitor's first block and
\* its cursor, through unanswered commits, crashes and restarts, and however many
\* statements PostgreSQL's limit on bound values cuts a block into.
RowsAreComplete == Exists => DOMAIN rows = UNION {KeysOf(b) : b \in {c \in Blocks : Committed(c)}}

\* The receiver is given a block at most once, however the process dies around the
\* commit, and is given only what is stored, or was deleted with its monitor later: a
\* block is submitted after its commit, and a committed block never again.
DeliveredOnce ==
    \A b \in Blocks :
       /\ received[b] <= 1
       /\ received[b] > 0 =>
             monitor = Deleted \/ \A n \in Found[b] : <<b, n>> \in DOMAIN rows

\* A client that goes on from page to page until one is empty gets every row that
\* was there when it began, although commits push rows to later offsets meanwhile:
\* the order is total, newer rows come first, and a page asked for is never empty
\* by its own limit.  (It may get rows twice.)
PagesMissNothing ==
    client.at = "done" => client.missing = {} \/ monitor = Deleted

-----------------------------------------------------------------------------
(* The inductive invariant: what the parts above rest on.                  *)

Types ==
    /\ adapter \in Adapters /\ target \in Targets /\ head \in Blocks
    /\ monitor \in MonitorRecord \cup {None, Deleted}
    /\ IsFiniteSet(DOMAIN rows)
    /\ phase \in {"up", "stopping", "closing", "down"}
    /\ work \in [at : {"idle", "commit", "submit"}, block : Blocks \cup {None}]
    /\ work.at # "idle" => work.block \in Blocks
    /\ attempts = [b \in DOMAIN attempts |-> attempts[b]]
    /\ \A b \in DOMAIN attempts : b \in Blocks /\ attempts[b] \in {"sent", "received"}
    /\ received \in [Blocks -> Nat]
    /\ client \in [at : {"away", "between", "get_monitor", "query_results", "done"},
                   limit : Nat, offset : Nat, missing : SUBSET (Nat \X Nat)]

\* The worker writes the monitor's next block, or has just written its last.
WorkValid ==
    /\ Exists /\ monitor.cursor # None => monitor.start <= monitor.cursor /\ monitor.cursor <= head
    /\ work.at # "idle" => monitor # None
    /\ Exists /\ work.at = "commit" =>
          work.block = NextBlock /\ monitor.start <= work.block /\ work.block <= head
    /\ Exists /\ work.at = "submit" => work.block = monitor.cursor

\* What the adapter makes of the result with key k.
RowOf(a, t, k) ==
    IF a = "postgres" THEN PgRow(t.kind, t.schema, Values(t, k))
                      ELSE bson_params(t.schema, Values(t, k))

StoredValid ==
    /\ Answered
    /\ \A k \in DOMAIN rows : rows[k] = RowOf(adapter, target, k)

\* A block on its way to the receiver is committed, and nowhere else on that way.
DeliveryValid ==
    \A b \in Blocks :
       /\ b \in DOMAIN attempts \/ received[b] > 0 =>
             monitor = Deleted \/ (Exists /\ Committed(b))
       /\ work.at = "submit" /\ work.block = b => b \notin DOMAIN attempts /\ received[b] = 0
       /\ b \in DOMAIN attempts /\ attempts[b] = "sent" => received[b] = 0
       /\ received[b] <= 1

\* What a reading client still misses comes, in the order of the pages, after as many
\* rows as it has got.
PageValid ==
    client.at # "away" =>
       /\ monitor # None
       /\ Exists => /\ client.missing \subseteq DOMAIN rows
                    /\ \A r \in client.missing :
                          client.offset <= Cardinality({x \in DOMAIN rows : Before(x, r)})
                    /\ client.at = "done" => client.missing = {}

FlowValid ==
    /\ Types /\ WorkValid /\ DeliveryValid /\ PageValid
    /\ RowsAreComplete
    /\ ~ Exists => DOMAIN rows = {}

IInv == FlowValid /\ StoredValid

-----------------------------------------------------------------------------
(* Progress.                                                               *)

\* A receiver that never answers does not hold up indexing: the monitor reaches the
\* head, or its end, unless it is deleted or the process stops.
IndexingGoesOn == []<>(~ Due \/ phase # "up")

\* Once the process is told to stop it ends, whatever the receiver does with its
\* requests and wherever a client is.
ShutdownEnds == phase = "stopping" ~> phase = "down"
=============================================================================
