------------------------------ MODULE Monitor ------------------------------
(***************************************************************************)
(* A monitor's stored row and the arithmetic the indexer does on it:       *)
(* parseon-core/src/monitor.rs, the Cursor type of model.rs, and the range *)
(* one poll plans for a monitor (scheduler.rs).  Block numbers are u64 in  *)
(* the code; MaxU64 is their largest value, so that the saturating         *)
(* additions of the code keep their meaning on a small instance.           *)
(***************************************************************************)
EXTENDS Integers

CONSTANTS
    None,    \* Rust's Option::None, for `cursor` and `end_block`
    MaxU64   \* the largest block number the integer type holds

ASSUME MonitorAssumption ==
    /\ MaxU64 \in Nat \ {0}
    /\ None \notin Int

BlockNumber == 0 .. MaxU64

saturating_add(a, b) == IF a + b > MaxU64 THEN MaxU64 ELSE a + b

\* A row of the `monitors` table: the immutable range and the mutable progress.
Row == [start_block : BlockNumber,
        end_block   : BlockNumber \cup {None},
        cursor      : BlockNumber \cup {None},
        completed   : BOOLEAN,
        enabled     : BOOLEAN]

NewRow(s, e) == [start_block |-> s, end_block |-> e, cursor |-> None,
                 completed |-> FALSE, enabled |-> TRUE]

\* Cursor::next: the start block until something is committed, then one past.
CursorNext(cursor, start) ==
    IF cursor = None THEN start ELSE saturating_add(cursor, 1)

next_block(r) == CursorNext(r.cursor, r.start_block)

covers(r, b) ==
    /\ r.enabled
    /\ ~ r.completed
    /\ b >= r.start_block
    /\ r.end_block # None => b <= r.end_block

needs_block(r, b) ==
    /\ covers(r, b)
    /\ r.cursor # None => r.cursor < b

\* MonitorIndex::new keeps these monitors of the loaded ones.
IsActive(r) == r.enabled /\ ~ r.completed

AtMost(a, b) == IF a <= b THEN a ELSE b

\* The last block one poll plans for a monitor: not past its end, not past the
\* finalized head, and at most `batch` blocks from the first.
PlanTo(r, head, batch) ==
    LET capped == IF r.end_block = None THEN head ELSE AtMost(r.end_block, head)
    IN  AtMost(capped, saturating_add(next_block(r), batch - 1))

\* Mutant: the planned range without its last block.
PlanRangeExclusive(r, head, batch) == next_block(r) .. PlanTo(r, head, batch) - 1

PlanRange(r, head, batch) == next_block(r) .. PlanTo(r, head, batch)

\* The UPDATE of a block commit: cursor and completed are set from the block
\* alone, whatever they were.
AdvanceRow(r, b) ==
    [r EXCEPT !.cursor = b,
              !.completed = r.end_block # None /\ r.end_block <= b]
=============================================================================
