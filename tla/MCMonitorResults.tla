-------------------------- MODULE MCMonitorResults --------------------------
(* A small instance of MonitorResults for TLC.                             *)
EXTENDS MonitorResults

Param(name, ty, indexed) == [name |-> name, ty |-> ty, indexed |-> indexed]

\* Names that are the adapter's own, that look like the ones it makes up, and
\* every form of value; then a name of PostgreSQL's own (beside one such as the adapter
\* makes up), and one parameter more than a table takes.
MCTargets ==
    {[kind |-> "call",
      schema |-> <<Param(<<"tx_hash", "param">>, "uint", FALSE),
                   Param(<<"tx_hash", "param", 1>>, "string", FALSE),
                   Param(<<"tx_hash">>, "address", FALSE),
                   Param(<<"log_index">>, "bool", FALSE)>>],
     [kind |-> "event",
      schema |-> <<Param(<<"log_index">>, "string", TRUE),
                   Param(<<"log_index", "param">>, "bytes", FALSE),
                   Param(<<"value">>, "int", TRUE)>>],
     [kind |-> "call",
      schema |-> <<Param(<<"xmin", 1>>, "uint", FALSE), Param(<<"xmin">>, "uint", FALSE)>>],
     [kind |-> "event",
      schema |-> <<Param(<<"a">>, "bool", FALSE), Param(<<"b">>, "int", TRUE),
                   Param(<<"c">>, "fixed_bytes", FALSE), Param(<<"d">>, "function", FALSE)>>]}

\* A block with several results, one with one, one with none.
MCFound == 0 :> {0, 1, 2} @@ 1 :> {1} @@ 2 :> {}
=============================================================================
