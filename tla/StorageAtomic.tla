--------------------------- MODULE StorageAtomic ---------------------------
(***************************************************************************)
(* What the services and workers expect of a storage adapter (the ports of  *)
(* parseon-core/src/ports/storage.rs): every operation happens at once, a   *)
(* deletion takes everything below with it, and an id is never used twice.  *)
(***************************************************************************)
EXTENDS Naturals

CONSTANTS
    Chains,   \* chain ids
    Ids,      \* monitor ids
    Blocks,   \* block numbers
    None      \* absence

VARIABLES
    chains,   \* chains[c]: the chain's `enabled`, or None
    monitors, \* monitors[i]: a record [chain, cursor, enabled], or None
    results,  \* the <<monitor, block>> pairs whose results are stored
    used      \* the ids given to monitors so far

vars == <<chains, monitors, results, used>>

Below(c) == {i \in Ids : monitors[i] # None /\ monitors[i].chain = c}

\* A database a process may find: nothing hangs in the air.
Init ==
    /\ chains \in [Chains -> BOOLEAN \cup {None}]
    /\ used \subseteq Ids
    /\ \A i \in Ids : monitors[i] # None => i \in used /\ chains[monitors[i].chain] # None
    /\ \A r \in results : monitors[r[1]] # None

PutChain(c, en) ==
    /\ chains' = [chains EXCEPT ![c] = en]
    /\ UNCHANGED <<monitors, results, used>>

DeleteChain(c) ==
    /\ chains[c] # None
    /\ chains' = [chains EXCEPT ![c] = None]
    /\ monitors' = [i \in Ids |-> IF i \in Below(c) THEN None ELSE monitors[i]]
    /\ results' = {r \in results : r[1] \notin Below(c)}
    /\ UNCHANGED used

CreateMonitor(i, c) ==
    /\ chains[c] # None
    /\ i \notin used
    /\ used' = used \cup {i}
    /\ monitors' = [monitors EXCEPT ![i] = [chain |-> c, cursor |-> None, enabled |-> TRUE]]
    /\ UNCHANGED <<chains, results>>

\* An attempt to create a monitor fails and its id is lost.
SkipId(i) ==
    /\ i \notin used
    /\ used' = used \cup {i}
    /\ UNCHANGED <<chains, monitors, results>>

SetEnabled(i, en) ==
    /\ monitors[i] # None
    /\ monitors' = [monitors EXCEPT ![i].enabled = en]
    /\ UNCHANGED <<chains, results, used>>

DeleteMonitor(i) ==
    /\ monitors[i] # None
    /\ monitors' = [monitors EXCEPT ![i] = None]
    /\ results' = {r \in results : r[1] # i}
    /\ UNCHANGED <<chains, used>>

\* Every monitor of S exists, all move, and the results D of the block, none of
\* which is stored yet, appear with the cursors.
CommitBlock(c, S, D, b) ==
    /\ S \subseteq Below(c)
    /\ \A i \in D : <<i, b>> \notin results
    /\ monitors' = [i \in Ids |-> IF i \in S THEN [monitors[i] EXCEPT !.cursor = b] ELSE monitors[i]]
    /\ results' = results \cup {<<i, b>> : i \in D}
    /\ UNCHANGED <<chains, used>>

Next ==
    \/ \E c \in Chains :
          \/ \E en \in BOOLEAN : PutChain(c, en)
          \/ DeleteChain(c)
          \/ \E i \in Ids : CreateMonitor(i, c)
          \/ \E S \in SUBSET Ids, b \in Blocks : \E D \in SUBSET S : CommitBlock(c, S, D, b)
    \/ \E i \in Ids : SkipId(i) \/ DeleteMonitor(i) \/ \E en \in BOOLEAN : SetEnabled(i, en)

Spec == Init /\ [][Next]_vars
=============================================================================
