---------------------------- MODULE BlockDecode ----------------------------
(***************************************************************************)
(* How the blocks of one window become results: the index of the monitors   *)
(* by target and ABI layout (parseon-core/src/indexer.rs), the candidates,  *)
(* execution outcomes and logs asked for, and the decoding                  *)
(* (worker/prepare.rs).  A payload is decoded once per layout and handed to *)
(* every monitor of that layout; outcomes are paired with candidates by     *)
(* position.  IndexWorker takes the outcome of all this as Matches.         *)
(*                                                                          *)
(* A target (address and selector, or address and topic0) is a key; None is *)
(* the key of calldata without a selector and of a log without topics.  A   *)
(* payload is the set of layouts that decode it and a tag for what filters  *)
(* look at.  A transaction or log is named by its position in its block.    *)
(* The results of a block are a set, since nothing rests on their order;    *)
(* each tells where it comes from, so that one handed out twice counts twice. *)
(***************************************************************************)
EXTENDS Naturals, Sequences, FiniteSets, SequencesExt

CONSTANTS
    RangeStart, RangeEnd,       \* the window
    MonitorLists,      \* the sequences of active monitors a poll may load
    TransactionLists,  \* what the transactions of the window may be
    LogLists,          \* what its logs may be
    CachedBlocks,      \* what the block cache may hold already
    None,              \* no selector, no topic
    MaxFaults          \* bound on failed requests and flawed answers

Blocks == RangeStart .. RangeEnd

ASSUME DecodeAssumption ==
    /\ RangeStart \in Nat /\ RangeEnd \in Nat /\ RangeStart <= RangeEnd
    /\ MaxFaults \in Nat
    /\ CachedBlocks \subseteq SUBSET Blocks
    /\ \A list \in MonitorLists : \A i \in DOMAIN list :
          list[i].kind \in {"call", "event"} /\ list[i].key # None
    /\ \A list \in TransactionLists \cup LogLists : \A b \in Blocks :
          list[b] \in Seq(ToSet(list[b]))
    /\ \A list \in LogLists : \A b \in Blocks :
          \A k \in DOMAIN list[b] : list[b][k].succeeded

VARIABLES
    monitors,  \* MonitorIndex.monitors, with the range planned for each
    chain,     \* chain[b]: the transactions of block b
    emitted,   \* emitted[b]: the logs of block b
    cache,     \* the blocks in the cache
    step,      \* how far the preparation of each block is
    results,   \* results[b]: what was decoded from it
    logs,      \* the log query: "none", "pending", "ready" or "failed"
    received,  \* received[b]: the logs it returned for block b
    faults

inputs == <<monitors, chain, emitted>>
vars == <<inputs, cache, step, results, logs, received, faults>>

Fault ==
    /\ faults < MaxFaults
    /\ faults' = faults + 1

-----------------------------------------------------------------------------
(* The index.                                                              *)

Layouts(kind, key) ==
    {monitors[i].layout : i \in {j \in DOMAIN monitors :
                                    monitors[j].kind = kind /\ monitors[j].key = key}}

\* monitor_indices of a group.
Group(kind, key, layout) ==
    {i \in DOMAIN monitors : /\ monitors[i].kind = kind /\ monitors[i].key = key
                             /\ monitors[i].layout = layout}

\* The plan of block b holds monitor i, which it does only if the monitor needs the
\* block (PlanRange and needs_block of Monitor).
monitor_is_planned(i, b) == monitors[i].from <= b /\ b <= monitors[i].to

IsWanted(kind, key, b) ==
    \E layout \in Layouts(kind, key) :
       \E i \in Group(kind, key, layout) : monitor_is_planned(i, b)

-----------------------------------------------------------------------------
(* Decoding.                                                               *)

\* One layout's group: nothing if the payload does not decode, otherwise a result
\* for every planned monitor whose filter accepts it.  `at` is where in the answer of
\* the source the item was.
DecodeGroup(kind, b, item, k, at, layout) ==
    IF layout \notin item.decodes THEN {}
    ELSE {[kind |-> kind, monitor |-> i, item |-> k, at |-> at, layout |-> layout] :
            i \in {j \in Group(kind, item.key, layout) :
                      monitor_is_planned(j, b) /\ item.tag \in monitors[j].accepts}}

DecodeItem(kind, b, item, k, at) ==
    UNION {DecodeGroup(kind, b, item, k, at, layout) : layout \in Layouts(kind, item.key)}

Wanted(b) == {k \in DOMAIN chain[b] : chain[b][k].key # None /\ IsWanted("call", chain[b][k].key, b)}

InOrder(S) == CHOOSE q \in SetToSeqs(S) : \A i, j \in DOMAIN q : i < j => q[i] < q[j]

Candidates(b) == InOrder(Wanted(b))

\* Mutant: outcomes are counted, not compared with the candidates.
OutcomesCounted(b, outcomes) == Len(outcomes) = Len(Candidates(b))

OutcomesMatch(b, outcomes) ==
    /\ Len(outcomes) = Len(Candidates(b))
    /\ \A j \in DOMAIN outcomes : outcomes[j].hash = Candidates(b)[j]

decode_calls(b, outcomes) ==
    UNION {DecodeItem("call", b, chain[b][Candidates(b)[j]], Candidates(b)[j], j) :
             j \in {n \in DOMAIN outcomes : outcomes[n].succeeded}}

\* Mutant: a log that does not decode under some layout is an error.
EventsRefusedUndecoded(b) ==
    \E log \in received[b] :
       LET item == emitted[b][log.item]
       IN  /\ item.key # None /\ IsWanted("event", item.key, b)
           /\ log.flaw = "unnamed" \/ ~ Layouts("event", item.key) \subseteq item.decodes

\* A log that some planned monitor wants, without transaction hash or log index.
EventsRefused(b) ==
    \E log \in received[b] :
       LET key == emitted[b][log.item].key
       IN  key # None /\ IsWanted("event", key, b) /\ log.flaw = "unnamed"

decode_events(b) ==
    UNION {DecodeItem("event", b, emitted[b][k], k, k) :
             k \in {log.item : log \in {l \in received[b] : emitted[b][l.item].key # None}}}

-----------------------------------------------------------------------------
(* prepare_calls, for each block concurrently.                             *)

HasCalls(b) == \E i \in DOMAIN monitors : monitors[i].kind = "call" /\ monitor_is_planned(i, b)

Moved(b, at) == step' = [step EXCEPT ![b] = at]

SkipBlock(b) ==
    /\ step[b] = "start" /\ ~ HasCalls(b)
    /\ Moved(b, "calls")
    /\ UNCHANGED <<inputs, cache, results, logs, received, faults>>

CacheHit(b) ==
    /\ step[b] = "start" /\ HasCalls(b)
    /\ b \in cache
    /\ Moved(b, "block")
    /\ UNCHANGED <<inputs, cache, results, logs, received, faults>>

\* The cache may be disabled, or not admit the block.
FetchBlock(b) ==
    /\ step[b] = "start" /\ HasCalls(b)
    /\ b \notin cache
    /\ cache' \in {cache, cache \cup {b}}
    /\ Moved(b, "block")
    /\ UNCHANGED <<inputs, results, logs, received, faults>>

NoCandidates(b) ==
    /\ step[b] = "block" /\ Wanted(b) = {}
    /\ Moved(b, "calls")
    /\ UNCHANGED <<inputs, cache, results, logs, received, faults>>

RightOutcomes(b) ==
    [j \in DOMAIN Candidates(b) |->
        [hash |-> Candidates(b)[j], succeeded |-> chain[b][Candidates(b)[j]].succeeded]]

\* A source that loses, repeats or reorders outcomes.
FlawedOutcomes(b) ==
    LET right == RightOutcomes(b) IN BoundedSeq(ToSet(right), Len(right) + 1) \ {right}

TakeOutcomes(b) ==
    /\ step[b] = "block" /\ Wanted(b) # {}
    /\ \E outcomes \in {RightOutcomes(b)} \cup FlawedOutcomes(b) :
         /\ IF outcomes = RightOutcomes(b) THEN UNCHANGED faults ELSE Fault
         /\ IF OutcomesMatch(b, outcomes)
            THEN Moved(b, "calls") /\ results' = [results EXCEPT ![b] = decode_calls(b, outcomes)]
            ELSE Moved(b, "failed") /\ UNCHANGED results
    /\ UNCHANGED <<inputs, cache, logs, received>>

\* The block is not found or is another one, or its outcomes cannot be fetched.
FetchFails(b) ==
    /\ \/ step[b] = "start" /\ HasCalls(b) /\ b \notin cache
       \/ step[b] = "block" /\ Wanted(b) # {}
    /\ Fault
    /\ Moved(b, "failed")
    /\ UNCHANGED <<inputs, cache, results, logs, received>>

-----------------------------------------------------------------------------
(* log_query and the logs of the window.                                   *)

LogTargets ==
    {monitors[i].key : i \in {j \in DOMAIN monitors :
        monitors[j].kind = "event" /\ \E b \in Blocks : monitor_is_planned(j, b)}}

Returned(b) == {k \in DOMAIN emitted[b] : emitted[b][k].key \in LogTargets}

\* The answer, all logs sound but the flawed ones of block f.
Answer(f, flaw) ==
    [b \in Blocks |-> {[item |-> k, flaw |-> IF b = f THEN flaw ELSE "none"] : k \in Returned(b)}]

\* A removed log, a log without a block or of a block outside the range ends the
\* preparation of the whole window; a log without a name only that of its block.
WindowFlaws == {"removed", "no_block", "outside"}

TakeLogs(f, flaw) ==
    /\ logs = "pending"
    /\ IF flaw = "none" THEN f = RangeStart /\ UNCHANGED faults ELSE Returned(f) # {} /\ Fault
    /\ IF flaw \in WindowFlaws
       THEN logs' = "failed" /\ UNCHANGED received
       ELSE logs' = "ready" /\ received' = Answer(f, flaw)
    /\ UNCHANGED <<inputs, cache, step, results>>

LogsFail ==
    /\ logs = "pending"
    /\ Fault
    /\ logs' = "failed"
    /\ UNCHANGED <<inputs, cache, step, results, received>>

\* finish_prepared: at once in a window without a log query, otherwise when all
\* blocks and the logs are there.
FinishBlock(b) ==
    /\ step[b] = "calls"
    /\ \/ logs = "none"
       \/ logs = "ready" /\ \A c \in Blocks : step[c] \notin {"start", "block"}
    /\ IF EventsRefused(b)
       THEN Moved(b, "failed") /\ results' = [results EXCEPT ![b] = {}]
       ELSE Moved(b, "prepared") /\ results' = [results EXCEPT ![b] = @ \cup decode_events(b)]
    /\ UNCHANGED <<inputs, cache, logs, received, faults>>

-----------------------------------------------------------------------------
Init ==
    /\ monitors \in MonitorLists
    /\ chain \in TransactionLists
    /\ emitted \in LogLists
    /\ cache \in CachedBlocks
    /\ step = [b \in Blocks |-> "start"]
    /\ results = [b \in Blocks |-> {}]
    /\ logs = IF LogTargets = {} THEN "none" ELSE "pending"
    /\ received = [b \in Blocks |-> {}]
    /\ faults = 0

PrepareCalls(b) ==
    SkipBlock(b) \/ CacheHit(b) \/ FetchBlock(b) \/ NoCandidates(b) \/ TakeOutcomes(b) \/ FetchFails(b)

\* Once the log query failed the other futures are dropped.
Next ==
    /\ logs # "failed"
    /\ \/ \E b \in Blocks : PrepareCalls(b) \/ FinishBlock(b)
       \/ \E f \in Blocks, flaw \in WindowFlaws \cup {"none", "unnamed"} : TakeLogs(f, flaw)
       \/ LogsFail

Spec == Init /\ [][Next]_vars

-----------------------------------------------------------------------------
(* Correctness.                                                            *)

\* (A log exists only if its transaction succeeded.)
\* The meaning of a monitor, looked at alone: it gets a transaction or log of its
\* target in its range that took effect, decodes under its ABI and passes its
\* filter.
Deserves(m, b, item) ==
    /\ m.from <= b /\ b <= m.to
    /\ item.key = m.key
    /\ item.succeeded
    /\ m.layout \in item.decodes
    /\ item.tag \in m.accepts

Items(kind, b) == IF kind = "call" THEN chain[b] ELSE emitted[b]

Copies(b, kind, i, k) == {r \in results[b] : r.kind = kind /\ r.monitor = i /\ r.item = k}

\* A prepared block holds, for every monitor, exactly what the monitor deserves,
\* once each: neither the sharing of decoders, nor other monitors of the same
\* target, nor an answer that is incomplete or out of order makes a difference.
PreparedExact ==
    \A b \in Blocks : step[b] = "prepared" =>
       /\ \A r \in results[b] :
             r.monitor \in DOMAIN monitors /\ r.item \in DOMAIN Items(r.kind, b)
       /\ \A i \in DOMAIN monitors, kind \in {"call", "event"} :
             \A k \in DOMAIN Items(kind, b) :
                Cardinality(Copies(b, kind, i, k)) =
                   IF monitors[i].kind = kind /\ Deserves(monitors[i], b, Items(kind, b)[k])
                   THEN 1 ELSE 0

\* No transaction or log of the chain can stop the indexer: a payload that does
\* not decode, a reverted or foreign call, an unmatched filter are not errors, a
\* block fails only after a request failed or an answer was flawed.
ErrorHasCause ==
    (logs = "failed" \/ \E b \in Blocks : step[b] = "failed") => faults > 0

-----------------------------------------------------------------------------
(* The inductive invariant.                                                *)

Types ==
    /\ monitors \in MonitorLists /\ chain \in TransactionLists /\ emitted \in LogLists
    /\ step \in [Blocks -> {"start", "block", "calls", "prepared", "failed"}]
    /\ DOMAIN results = Blocks /\ DOMAIN received = Blocks
    /\ logs \in {"none", "pending", "ready", "failed"}
    /\ faults \in Nat

\* The logs of a block are those the window asked for; a flawed one is on record.
LogsValid ==
    \A b \in Blocks :
       /\ logs \in {"none", "ready"} => {log.item : log \in received[b]} = Returned(b)
       /\ \A log \in received[b] : log.flaw # "none" => faults > 0

\* Each block has decoded what the right outcomes and the logs make of it, as far as
\* it got.
ResultsValid ==
    \A b \in Blocks :
       LET calls == decode_calls(b, RightOutcomes(b))
       IN  /\ step[b] \in {"start", "block"} => results[b] = {}
           /\ step[b] = "calls" => results[b] = calls
           /\ step[b] = "prepared" => /\ logs \in {"none", "ready"}
                                      /\ results[b] = calls \cup decode_events(b)

IInv == Types /\ LogsValid /\ ResultsValid /\ ErrorHasCause
=============================================================================
