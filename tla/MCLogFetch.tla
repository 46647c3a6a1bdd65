----------------------------- MODULE MCLogFetch -----------------------------
(* Small instances of LogFetch for TLC.                                    *)
EXTENDS LogFetch

CONSTANTS a1, a2, a3, p1, p2
=============================================================================
