--------------------------- MODULE MCIndexWorker ---------------------------
(* Small instances of IndexWorker for TLC.                                 *)
EXTENDS IndexWorker, TLC

CONSTANTS c1, e1

\* A call monitor and an event monitor: windows of both kinds occur.
MCKind == (c1 :> "call") @@ (e1 :> "event")
MCMatches == (c1 :> {0, 2}) @@ (e1 :> {1, 2})
\* A monitor that ends and one that follows the chain from block 1.
MCRanges == {<<0, 2>>, <<1, None>>}
\* For liveness: the whole chain, or its last block.  Backfills overlap.
MCLiveRanges == {<<0, 1>>, <<1, 1>>}
MCLiveMatches == (c1 :> {0, 1}) @@ (e1 :> {1})
=============================================================================
