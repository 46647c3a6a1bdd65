---------------------------- MODULE RpcReceipts ----------------------------
(***************************************************************************)
(* Execution outcomes from an endpoint whose abilities are found out on the *)
(* way (parseon-rpc/src/provider.rs, optimized_receipts): one request for   *)
(* the whole block, batches of receipts, or one request per transaction.    *)
(* What an endpoint turns out not to serve is remembered in two atomics;    *)
(* set_rpc_url moves a running source to another endpoint and forgets them, *)
(* while blocks are being prepared concurrently.                            *)
(*                                                                          *)
(* The candidate transactions of a block are 1 .. n, in block order.  All   *)
(* endpoints serve the same chain, so a receipt is named by its transaction,*)
(* and an endpoint is what it can serve.                                    *)
(***************************************************************************)
EXTENDS Naturals, Sequences, FiniteSets

CONSTANTS
    Callers,             \* blocks under preparation
    MaxHashes,           \* bound on the candidates of a block
    BatchSize,           \* RpcConfig.batch_size
    RequestConcurrency,  \* RpcConfig.request_concurrency
    MaxCalls,            \* bound on calls
    MaxRotations,        \* bound on set_rpc_url calls
    MaxFaults            \* bound on requests that fail

ASSUME ReceiptsAssumption ==
    /\ MaxHashes \in Nat /\ MaxCalls \in Nat /\ MaxRotations \in Nat /\ MaxFaults \in Nat
    /\ BatchSize \in Nat \ {0} /\ RequestConcurrency \in Nat \ {0}
    /\ IsFiniteSet(Callers)

Optional == {"block", "batch"}
Strategies == Optional \cup {"single"}

VARIABLES
    serves,      \* the optional strategies that the transport's endpoint serves
    capability,  \* the two atomics: "unknown", "supported" or "unsupported"
    rotating,    \* the capabilities set_rpc_url has yet to reset, in order
    strategy,    \* what each caller is doing: "idle" or a strategy
    asked,       \* how many transactions it asked for
    parts,       \* its requests, in order: "waiting", in flight, or an answer
    out,         \* the outcomes it has collected
    result,      \* what its last call returned: "none", "ok" or "error"
    hit,         \* whether a request of that call failed
    calls, rotations, faults

caller == <<strategy, asked, parts, out, result, hit>>
vars == <<serves, capability, rotating, caller, calls, rotations, faults>>

\* A request in flight, to an endpoint that serves it or to one that does not.
Sent == {"served", "refused"}
Answers == {"ok", "unsupported", "failed"}

-----------------------------------------------------------------------------
(* How a strategy divides n transactions into requests.                    *)

NumParts(how, n) ==
    CASE how = "block"  -> 1
      [] how = "batch"  -> (n + BatchSize - 1) \div BatchSize
      [] how = "single" -> n

\* Mutant: a chunk starts with the last transaction of the one before.
PartOverlap(how, n, i) ==
    CASE how = "block"  -> [k \in 1 .. n |-> k]
      [] how = "batch"  -> LET from == IF i = 1 THEN 0 ELSE (i - 1) * BatchSize - 1
                               to == IF i * BatchSize < n THEN i * BatchSize ELSE n
                           IN  [k \in 1 .. to - from |-> from + k]
      [] how = "single" -> <<i>>

Part(how, n, i) ==
    CASE how = "block"  -> [k \in 1 .. n |-> k]
      [] how = "batch"  -> LET from == (i - 1) * BatchSize
                               to == IF from + BatchSize < n THEN from + BatchSize ELSE n
                           IN  [k \in 1 .. to - from |-> from + k]
      [] how = "single" -> <<i>>

-----------------------------------------------------------------------------
(* optimized_receipts.                                                     *)

\* The strategy after those in `tried`; the atomics are read when it is chosen.
Choice(n, tried) ==
    IF n = 1 THEN "single"
    ELSE IF n > BatchSize /\ tried = {} /\ capability.block # "unsupported" THEN "block"
    ELSE IF "batch" \notin tried /\ capability.batch # "unsupported" THEN "batch"
    ELSE "single"

Ask(c, how, n) ==
    /\ strategy' = [strategy EXCEPT ![c] = how]
    /\ parts' = [parts EXCEPT ![c] = [i \in 1 .. NumParts(how, n) |-> "waiting"]]
    /\ out' = [out EXCEPT ![c] = <<>>]

\* What the caller has collected is gone unless the call succeeds.
Discard(c) ==
    /\ asked' = [asked EXCEPT ![c] = 0]
    /\ out' = [out EXCEPT ![c] = <<>>]

Return(c, what) ==
    /\ strategy' = [strategy EXCEPT ![c] = "idle"]
    /\ parts' = [parts EXCEPT ![c] = <<>>]
    /\ result' = [result EXCEPT ![c] = what]

Fetch(c, n) ==
    /\ strategy[c] = "idle"
    /\ calls < MaxCalls
    /\ calls' = calls + 1
    /\ asked' = [asked EXCEPT ![c] = n]
    /\ hit' = [hit EXCEPT ![c] = FALSE]
    /\ \/ n = 0 /\ Return(c, "ok") /\ out' = [out EXCEPT ![c] = <<>>]
       \/ n > 0 /\ Ask(c, Choice(n, {}), n) /\ result' = [result EXCEPT ![c] = "none"]
    /\ UNCHANGED <<serves, capability, rotating, rotations, faults>>

\* A request holds a permit of the source while it is in flight.
Flying(c, i) == i \in DOMAIN parts[c] /\ parts[c][i] \in Sent

InFlight == {r \in Callers \X (1 .. MaxHashes) : Flying(r[1], r[2])}

\* The number of requests whose answers the caller has already taken.
Taken(c) == CHOOSE t \in 0 .. Len(parts[c]) : \A i \in DOMAIN parts[c] : (parts[c][i] = "taken") <=> (i <= t)

\* `buffered` starts a request once fewer than RequestConcurrency of this call
\* are ahead of the answer taken last, and the transport reads its url.
Send(c, i) ==
    /\ parts[c][i] = "waiting"
    /\ i <= Taken(c) + RequestConcurrency
    /\ Cardinality(InFlight) < RequestConcurrency
    /\ parts' = [parts EXCEPT ![c][i] =
                   IF strategy[c] \in serves \cup {"single"} THEN "served" ELSE "refused"]
    /\ UNCHANGED <<serves, capability, rotating, strategy, asked, out, result, hit,
                   calls, rotations, faults>>

Answer(c, i) ==
    /\ parts[c][i] \in Sent
    /\ parts' = [parts EXCEPT ![c][i] = IF @ = "served" THEN "ok" ELSE "unsupported"]
    /\ UNCHANGED <<serves, capability, rotating, strategy, asked, out, result, hit,
                   calls, rotations, faults>>

\* A request fails, or the block's receipts are not all there: the source then
\* takes the endpoint for one that does not serve them.
AnswerFails(c, i) ==
    /\ parts[c][i] \in Sent
    /\ faults < MaxFaults
    /\ faults' = faults + 1
    /\ \E a \in {"failed"} \cup (IF strategy[c] = "block" THEN {"unsupported"} ELSE {}) :
         parts' = [parts EXCEPT ![c][i] = a]
    /\ hit' = [hit EXCEPT ![c] = TRUE]
    /\ UNCHANGED <<serves, capability, rotating, strategy, asked, out, result,
                   calls, rotations>>

\* The answers are taken in the order of the requests.
HasNext(c) == strategy[c] # "idle" /\ Taken(c) < Len(parts[c])
NextAnswer(c) == parts[c][Taken(c) + 1]
Last(c) == Taken(c) + 1 = Len(parts[c])

\* Mutant: the answers are appended as they arrive.
TakePartUnordered(c) ==
    /\ HasNext(c)
    /\ \E i \in DOMAIN parts[c] :
         /\ parts[c][i] = "ok"
         /\ out' = [out EXCEPT ![c] = @ \o Part(strategy[c], asked[c], i)]
         /\ parts' = [parts EXCEPT ![c][i] = NextAnswer(c), ![c][Taken(c) + 1] = "taken"]
    /\ ~ Last(c)
    /\ UNCHANGED <<serves, capability, rotating, strategy, asked, result, hit,
                   calls, rotations, faults>>

TakePart(c) ==
    /\ HasNext(c)
    /\ NextAnswer(c) = "ok"
    /\ ~ Last(c)
    /\ out' = [out EXCEPT ![c] = @ \o Part(strategy[c], asked[c], Taken(c) + 1)]
    /\ parts' = [parts EXCEPT ![c][Taken(c) + 1] = "taken"]
    /\ UNCHANGED <<serves, capability, rotating, strategy, asked, result, hit,
                   calls, rotations, faults>>

Learned(how, what) ==
    capability' = IF how \in Optional THEN [capability EXCEPT ![how] = what] ELSE capability

TakeLast(c) ==
    /\ HasNext(c)
    /\ NextAnswer(c) = "ok"
    /\ Last(c)
    /\ out' = [out EXCEPT ![c] = @ \o Part(strategy[c], asked[c], Taken(c) + 1)]
    /\ Learned(strategy[c], "supported")
    /\ Return(c, "ok")
    /\ UNCHANGED <<serves, rotating, asked, hit, calls, rotations, faults>>

\* Mutant: the error ends the call.
FallBackNever(c) ==
    /\ HasNext(c)
    /\ NextAnswer(c) = "unsupported"
    /\ Learned(strategy[c], "unsupported")
    /\ Return(c, "error")
    /\ UNCHANGED <<serves, rotating, asked, out, hit, calls, rotations, faults>>

\* Mutant: what the endpoint did not serve is asked for again.
FallBackRepeats(c) ==
    /\ HasNext(c)
    /\ NextAnswer(c) = "unsupported"
    /\ Learned(strategy[c], "unsupported")
    /\ Ask(c, strategy[c], asked[c])
    /\ UNCHANGED <<serves, rotating, asked, result, hit, calls, rotations, faults>>

\* The first error in order drops the other requests, whatever became of them.
FallBack(c) ==
    /\ HasNext(c)
    /\ NextAnswer(c) = "unsupported"
    /\ Learned(strategy[c], "unsupported")
    /\ Ask(c, IF strategy[c] = "block" THEN Choice(asked[c], {"block"}) ELSE "single", asked[c])
    /\ UNCHANGED <<serves, rotating, asked, result, hit, calls, rotations, faults>>

TakeFailure(c) ==
    /\ HasNext(c)
    /\ NextAnswer(c) = "failed"
    /\ Return(c, "error")
    /\ Discard(c)
    /\ UNCHANGED <<serves, capability, rotating, hit, calls, rotations, faults>>

\* The worker is cancelled, or another block of its poll failed.
Dropped(c) ==
    /\ strategy[c] # "idle"
    /\ Return(c, "none")
    /\ Discard(c)
    /\ hit' = [hit EXCEPT ![c] = FALSE]
    /\ UNCHANGED <<serves, capability, rotating, calls, rotations, faults>>

-----------------------------------------------------------------------------
(* set_rpc_url, one shared write at a time: it runs in an HTTP handler's    *)
(* thread.  The supervisor's lock keeps rotations apart.                    *)

SetUrl(abilities) ==
    /\ rotating = <<>>
    /\ rotations < MaxRotations
    /\ rotations' = rotations + 1
    /\ serves' = abilities
    /\ rotating' = <<"batch", "block">>
    /\ UNCHANGED <<capability, caller, calls, faults>>

ResetCapability ==
    /\ rotating # <<>>
    /\ capability' = [capability EXCEPT ![Head(rotating)] = "unknown"]
    /\ rotating' = Tail(rotating)
    /\ UNCHANGED <<serves, caller, calls, rotations, faults>>

-----------------------------------------------------------------------------
Init ==
    /\ serves \in SUBSET Optional
    /\ capability = [o \in Optional |-> "unknown"]
    /\ rotating = <<>>
    /\ strategy = [c \in Callers |-> "idle"]
    /\ asked = [c \in Callers |-> 0]
    /\ parts = [c \in Callers |-> <<>>]
    /\ out = [c \in Callers |-> <<>>]
    /\ result = [c \in Callers |-> "none"]
    /\ hit = [c \in Callers |-> FALSE]
    /\ calls = 0 /\ rotations = 0 /\ faults = 0

Step(c) ==
    \/ \E i \in DOMAIN parts[c] : Send(c, i) \/ Answer(c, i)
    \/ TakePart(c) \/ TakeLast(c) \/ FallBack(c) \/ TakeFailure(c)

Next ==
    \/ \E c \in Callers :
          \/ \E n \in 0 .. MaxHashes : Fetch(c, n)
          \/ Step(c)
          \/ \E i \in DOMAIN parts[c] : AnswerFails(c, i)
          \/ Dropped(c)
    \/ \E abilities \in SUBSET Optional : SetUrl(abilities)
    \/ ResetCapability

Spec == Init /\ [][Next]_vars

\* Requests are answered or time out, and the runtime polls every caller.
FairSpec == Spec /\ \A c \in Callers : WF_vars(Step(c))

-----------------------------------------------------------------------------
(* Correctness.                                                            *)

\* Every variable has its type, and no more requests are in flight than there
\* are permits, whoever started them.
TypeOK ==
    /\ serves \in SUBSET Optional
    /\ capability \in [Optional -> {"unknown", "supported", "unsupported"}]
    /\ rotating \in {<<>>, <<"block">>, <<"batch", "block">>}
    /\ strategy \in [Callers -> Strategies \cup {"idle"}]
    /\ asked \in [Callers -> 0 .. MaxHashes]
    /\ parts \in [Callers -> Seq({"waiting", "taken"} \cup Answers \cup Sent)]
    /\ out \in [Callers -> Seq(1 .. MaxHashes)]
    /\ \A c \in Callers : /\ Len(out[c]) <= asked[c]
                          /\ strategy[c] = "idle" <=> parts[c] = <<>>
    /\ result \in [Callers -> {"none", "ok", "error"}] /\ hit \in [Callers -> BOOLEAN]
    /\ Cardinality(InFlight) <= RequestConcurrency

\* A successful call returns exactly one outcome per transaction it was asked
\* about, in that order (the indexer pairs them by position), whatever mixture of
\* strategies and endpoints served it and in whatever order the answers came.
OutcomesInOrder ==
    \A c \in Callers : result[c] = "ok" => out[c] = [k \in 1 .. asked[c] |-> k]

\* A call fails only if one of its requests did: that an endpoint lacks an
\* optional strategy never fails it, even if the endpoint is replaced, or
\* another call rewrites what is known of it, between two of its requests.
ErrorNeedsFault == \A c \in Callers : result[c] = "error" => hit[c]

\* A strategy that the current endpoint serves is not ruled out once set_rpc_url
\* has returned, provided that no answer was incomplete: this is what the
\* re-probing after a rotation is for.
ReprobedAfterRotation ==
    rotating = <<>> =>
       \A o \in Optional : capability[o] = "unsupported" => o \notin serves

\* Every call ends, however its requests share the permits with others.
CallsEnd == \A c \in Callers : strategy[c] # "idle" ~> strategy[c] = "idle"

-----------------------------------------------------------------------------
(* The inductive invariant.                                                *)

\* How many transactions the first t requests of a strategy cover.
Covered(how, n, t) ==
    CASE how = "block"  -> IF t = 0 THEN 0 ELSE n
      [] how = "batch"  -> IF t * BatchSize < n THEN t * BatchSize ELSE n
      [] how = "single" -> t

Upto(n) == [k \in 1 .. n |-> k]

\* The answers of the first t requests are taken, and those of no others.
TakenAre(c, t) ==
    /\ t \in 0 .. Len(parts[c])
    /\ \A i \in DOMAIN parts[c] : (parts[c][i] = "taken") <=> (i <= t)

\* A call under way has one request for each part, and holds the outcomes of the
\* transactions its taken answers cover, in order; some request is left to take.
Collecting(c) ==
    /\ asked[c] > 0 /\ result[c] = "none"
    /\ Len(parts[c]) = NumParts(strategy[c], asked[c])
    /\ \E t \in 0 .. Len(parts[c]) - 1 :
          TakenAre(c, t) /\ out[c] = Upto(Covered(strategy[c], asked[c], t))

\* What the results rest on while the calls run: each has exactly the outcomes its
\* answers cover, and an answer that failed is on record.
IInv ==
    /\ TypeOK
    /\ \A c \in Callers :
          /\ strategy[c] # "idle" => Collecting(c)
          /\ \A i \in DOMAIN parts[c] : parts[c][i] = "failed" => hit[c]
    /\ OutcomesInOrder /\ ErrorNeedsFault
=============================================================================
