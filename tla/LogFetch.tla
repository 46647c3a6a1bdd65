------------------------------ MODULE LogFetch ------------------------------
(***************************************************************************)
(* Fetching a window's logs from an endpoint that limits its answers        *)
(* (parseon-rpc/src/provider.rs, adaptive_logs).  The targets are grouped   *)
(* into filters, the filters run concurrently, and a filter whose range is  *)
(* refused as too large is split in the middle and tried again.             *)
(*                                                                          *)
(* An answer for a range holds the logs of all its blocks, so the model     *)
(* counts per filter and block how often that block's logs were returned.   *)
(* The final sort by (block, log index) orders what is counted here.        *)
(***************************************************************************)
EXTENDS Integers, Sequences, FiniteSets

CONSTANTS
    Addresses, Topics,     \* what a log target is made of
    First, Last,           \* the window of the log query
    RequestConcurrency     \* RpcConfig.request_concurrency

ASSUME LogFetchAssumption ==
    /\ First \in Nat /\ Last \in Nat /\ First <= Last
    /\ RequestConcurrency \in Nat \ {0}

VARIABLES
    targets,   \* the (address, topic0) pairs asked for
    state,     \* state[f] of a filter: "queued", "running" or "done"
    pending,   \* pending[f]: stack of ranges still to ask for; its end is the top
    returned,  \* returned[f][b]: how often f's logs of block b were returned
    outcome    \* "running", "ok" or "error"

vars == <<targets, state, pending, returned, outcome>>

Blocks == First .. Last
BlockRange == {r \in Blocks \X Blocks : r[1] <= r[2]}

-----------------------------------------------------------------------------
(* exact_log_filters: one filter per address, or one per topic if these are *)
(* fewer.  A filter selects every pair of its addresses and topics.         *)

AddressesOf(T) == {a \in Addresses : \E t \in Topics : <<a, t>> \in T}
TopicsOf(T) == {t \in Topics : \E a \in Addresses : <<a, t>> \in T}

ByAddress(T) == {[addresses |-> {a}, topics |-> {t \in Topics : <<a, t>> \in T}] : a \in AddressesOf(T)}
ByTopic(T) == {[addresses |-> {a \in Addresses : <<a, t>> \in T}, topics |-> {t}] : t \in TopicsOf(T)}

\* Mutant: one filter for everything.
OneFilter(T) == {[addresses |-> AddressesOf(T), topics |-> TopicsOf(T)]}

exact_log_filters(T) ==
    IF Cardinality(AddressesOf(T)) <= Cardinality(TopicsOf(T)) THEN ByAddress(T) ELSE ByTopic(T)

Selects(f, a, t) == a \in f.addresses /\ t \in f.topics

Filters == exact_log_filters(targets)

-----------------------------------------------------------------------------
Top(f) == pending[f][Len(pending[f])]
Popped(f) == SubSeq(pending[f], 1, Len(pending[f]) - 1)

Running == {f \in Filters : state[f] = "running"}
Asking(f) == outcome = "running" /\ state[f] = "running" /\ pending[f] # <<>>

\* buffer_unordered starts a filter when fewer than the limit are running.
StartFilter(f) ==
    /\ outcome = "running" /\ state[f] = "queued"
    /\ Cardinality(Running) < RequestConcurrency
    /\ state' = [state EXCEPT ![f] = "running"]
    /\ UNCHANGED <<targets, pending, returned, outcome>>

Answered(f) ==
    /\ Asking(f)
    /\ returned' = [returned EXCEPT ![f] = [b \in Blocks |->
                       IF Top(f)[1] <= b /\ b <= Top(f)[2] THEN @[b] + 1 ELSE @[b]]]
    /\ pending' = [pending EXCEPT ![f] = Popped(f)]
    /\ UNCHANGED <<targets, state, outcome>>

Middle(s, e) == s + (e - s) \div 2

\* Mutant: both halves contain the middle.
HalvesOverlap(s, e) == <<<<Middle(s, e), e>>, <<s, Middle(s, e)>>>>

\* The right half is pushed first, so that the left one is asked for next.
Halves(s, e) == <<<<Middle(s, e) + 1, e>>, <<s, Middle(s, e)>>>>

\* The endpoint refuses the range as too large.
RangeLimited(f) ==
    /\ Asking(f)
    /\ Top(f)[1] < Top(f)[2]
    /\ pending' = [pending EXCEPT ![f] = Popped(f) \o Halves(Top(f)[1], Top(f)[2])]
    /\ UNCHANGED <<targets, state, returned, outcome>>

\* A single block is refused as too large, or the request fails otherwise.
QueryFailed(f) ==
    /\ Asking(f)
    /\ outcome' = "error"
    /\ UNCHANGED <<targets, state, pending, returned>>

FinishFilter(f) ==
    /\ outcome = "running" /\ state[f] = "running"
    /\ pending[f] = <<>>
    /\ state' = [state EXCEPT ![f] = "done"]
    /\ UNCHANGED <<targets, pending, returned, outcome>>

\* Mutant: a query without targets waits for a first answer.
FinishQueryNonEmpty ==
    /\ outcome = "running" /\ Filters # {}
    /\ \A f \in Filters : state[f] = "done"
    /\ outcome' = "ok"
    /\ UNCHANGED <<targets, state, pending, returned>>

\* All filters are done (at once when there are no targets).
FinishQuery ==
    /\ outcome = "running"
    /\ \A f \in Filters : state[f] = "done"
    /\ outcome' = "ok"
    /\ UNCHANGED <<targets, state, pending, returned>>

-----------------------------------------------------------------------------
Init ==
    /\ targets \in SUBSET (Addresses \X Topics)
    /\ state = [f \in Filters |-> "queued"]
    /\ pending = [f \in Filters |-> <<<<First, Last>>>>]
    /\ returned = [f \in Filters |-> [b \in Blocks |-> 0]]
    /\ outcome = "running"

Step(f) == StartFilter(f) \/ Answered(f) \/ RangeLimited(f) \/ QueryFailed(f) \/ FinishFilter(f)

Next == FinishQuery \/ \E f \in Filters : Step(f)

Spec == Init /\ [][Next]_vars

\* Every request is answered, and the worker polls the query.
FairSpec == Spec /\ WF_vars(Next)

-----------------------------------------------------------------------------
(* Correctness.                                                            *)

\* Every variable has its type; no split leaves an empty or reversed range.
TypeOK ==
    /\ targets \in SUBSET (Addresses \X Topics)
    /\ state \in [Filters -> {"queued", "running", "done"}]
    /\ pending \in [Filters -> Seq(BlockRange)]
    /\ returned \in [Filters -> [Blocks -> Nat]]
    /\ outcome \in {"running", "ok", "error"}

\* The stack of a filter is the rest of the window, in order: its ranges touch,
\* the bottom one ends the window, and what lies before the top was returned
\* exactly once.
TopStart(f) == IF pending[f] = <<>> THEN Last + 1 ELSE Top(f)[1]

Contiguous(s) ==
    /\ s # <<>> => s[1][2] = Last
    /\ \A i \in 1 .. Len(s) - 1 : s[i + 1][2] + 1 = s[i][1]

StackValid ==
    \A f \in Filters :
       /\ Contiguous(pending[f])
       /\ \A b \in Blocks : returned[f][b] = IF b < TopStart(f) THEN 1 ELSE 0
       /\ state[f] = "queued" => pending[f] = <<<<First, Last>>>>
       /\ state[f] = "done" => pending[f] = <<>>

\* fetch_logs that succeeds returns the logs of every requested target and block
\* exactly once and nothing else, however the endpoint split the window: the
\* events of a block are neither lost nor decoded twice.
ExactLogs ==
    outcome = "ok" =>
       \A a \in Addresses, t \in Topics :
          IF <<a, t>> \in targets
          THEN \E f \in Filters :
                  /\ Selects(f, a, t)
                  /\ \A b \in Blocks : returned[f][b] = 1
                  /\ \A g \in Filters : Selects(g, a, t) => g = f
          ELSE \A f \in Filters : ~ Selects(f, a, t)

\* Splitting ends: a query is answered or fails, it is not split for ever.
Terminates == <>(outcome # "running")
=============================================================================
