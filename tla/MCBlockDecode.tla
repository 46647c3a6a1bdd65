--------------------------- MODULE MCBlockDecode ---------------------------
(* A small instance of BlockDecode for TLC: blocks 1 and 2.                *)
EXTENDS BlockDecode, TLC

CONSTANTS k1, k2, l1, l2, x, y

Monitor(kind, key, layout, from, to, accepts) ==
    [kind |-> kind, key |-> key, layout |-> layout, from |-> from, to |-> to, accepts |-> accepts]

\* Monitors that share a target and layout, a target only, or nothing; some are
\* planned for one block of the window, some filter.
MCMonitors ==
    <<Monitor("call", k1, l1, 1, 2, {x, y}), Monitor("event", k1, l1, 1, 2, {x, y}),
      Monitor("call", k1, l1, 2, 2, {x}), Monitor("call", k1, l2, 1, 1, {x, y}),
      Monitor("event", k1, l2, 2, 2, {x}), Monitor("call", k2, l2, 1, 2, {x, y})>>

\* Every choice of at most three of them, in this order.
MCMonitorLists ==
    {[n \in DOMAIN s |-> MCMonitors[s[n]]] :
        s \in {t \in BoundedSeq(1 .. 6, 3) : \A i, j \in DOMAIN t : i < j => t[i] < t[j]}}

Item(key, decodes, tag, succeeded) ==
    [key |-> key, decodes |-> decodes, tag |-> tag, succeeded |-> succeeded]

\* Both blocks hold the same items, in opposite orders.
BothWays(S) == {1 :> s @@ 2 :> Reverse(s) : s \in S}

MCTransactionLists ==
    BothWays(BoundedSeq({Item(k1, {l1, l2}, x, TRUE), Item(k1, {l1}, y, TRUE),
                         Item(k1, {l1, l2}, x, FALSE), Item(None, {}, x, TRUE),
                         Item(k2, {}, x, TRUE)}, 2))

MCLogLists ==
    BothWays(BoundedSeq({Item(k1, {l1, l2}, x, TRUE), Item(k1, {l2}, y, TRUE),
                         Item(None, {}, x, TRUE)}, 2))

\* One block is cached, the other is fetched.
MCCachedBlocks == {{1}}
=============================================================================
