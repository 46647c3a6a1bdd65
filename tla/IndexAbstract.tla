--------------------------- MODULE IndexAbstract ---------------------------
(***************************************************************************)
(* What the indexer of one chain promises its users, with no worker, no    *)
(* poll, no transaction and no failure in sight: every registered monitor  *)
(* moves through its own range one block at a time, in order, never past   *)
(* the finalized head, and the results of a block become visible in the    *)
(* same step that moves the cursor over it.                                *)
(***************************************************************************)
EXTENDS Monitor

CONSTANTS
    Monitors,   \* monitor ids
    Matches,    \* Matches[m]: the blocks that hold a result for m
    MaxBlock    \* bound on the height of the finalized chain

VARIABLES
    finalized,  \* height of the finalized chain
    used,       \* ids handed out so far (an id is never reused)
    live,       \* ids whose row exists
    row,        \* the stored rows
    results     \* results[m][b]: stored copies of m's results of block b

vars == <<finalized, used, live, row, results>>

NoResults == [b \in 0 .. MaxBlock |-> 0]
BlankRow == [NewRow(0, None) EXCEPT !.enabled = FALSE]

Init ==
    /\ finalized = 0
    /\ used = {}
    /\ live = {}
    /\ row = [m \in Monitors |-> BlankRow]
    /\ results = [m \in Monitors |-> NoResults]

Finalize ==
    /\ finalized < MaxBlock
    /\ finalized' = finalized + 1
    /\ UNCHANGED <<used, live, row, results>>

Create(m, s, e) ==
    /\ m \notin used
    /\ e # None => s <= e
    /\ used' = used \cup {m}
    /\ live' = live \cup {m}
    /\ row' = [row EXCEPT ![m] = NewRow(s, e)]
    /\ UNCHANGED <<finalized, results>>

SetEnabled(m, flag) ==
    /\ m \in live
    /\ row' = [row EXCEPT ![m].enabled = flag]
    /\ UNCHANGED <<finalized, used, live, results>>

Delete(m) ==
    /\ m \in live
    /\ live' = live \ {m}
    /\ row' = [row EXCEPT ![m] = BlankRow]
    /\ results' = [results EXCEPT ![m] = NoResults]
    /\ UNCHANGED <<finalized, used>>

\* One finalized block is indexed for every monitor of S, all of which are
\* waiting for exactly this block.
Index(S, b) ==
    /\ S \subseteq live
    /\ b <= finalized
    /\ \A m \in S : /\ b = next_block(row[m])
                    /\ row[m].end_block # None => b <= row[m].end_block
    /\ row' = [m \in Monitors |->
                 IF m \in S THEN AdvanceRow(row[m], b) ELSE row[m]]
    /\ results' = [m \in Monitors |->
                     IF m \in S /\ b \in Matches[m]
                     THEN [results[m] EXCEPT ![b] = @ + 1] ELSE results[m]]
    /\ UNCHANGED <<finalized, used, live>>

Next ==
    \/ Finalize
    \/ \E m \in Monitors :
          \/ \E s \in BlockNumber, e \in BlockNumber \cup {None} : Create(m, s, e)
          \/ \E flag \in BOOLEAN : SetEnabled(m, flag)
          \/ Delete(m)
    \/ \E S \in SUBSET Monitors, b \in BlockNumber : Index(S, b)

Spec == Init /\ [][Next]_vars
=============================================================================
