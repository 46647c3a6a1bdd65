--------------------------- MODULE MCRpcReceipts ---------------------------
(* Small instances of RpcReceipts for TLC.                                 *)
EXTENDS RpcReceipts

CONSTANTS c1, c2
=============================================================================
