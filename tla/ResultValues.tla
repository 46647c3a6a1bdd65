---------------------------- MODULE ResultValues ----------------------------
(***************************************************************************)
(* A decoded result on its way into either database and out of it again:    *)
(* the columns PostgreSQL gives a target's parameters, the statements that  *)
(* insert rows, what each adapter stores of a value, and the JSON the API   *)
(* makes of it.  The sink makes its JSON from the decoded value itself.     *)
(*                                                                          *)
(* A name is the sequence of its parts ("tx_hash_param_1" has three), so    *)
(* that a name made by the code may meet one a user chose.  A JSON value is *)
(* a form and the datum written in it.                                      *)
(***************************************************************************)
EXTENDS Naturals, Sequences, FiniteSets, FiniteSetsExt, SequencesExt

CONSTANTS
    BIND_LIMIT,    \* bound values in one statement
    MAX_COLUMNS    \* columns PostgreSQL gives a table at most (1600)

ASSUME BindAssumption == BIND_LIMIT \in Nat /\ MAX_COLUMNS \in Nat

-----------------------------------------------------------------------------
(* Values.  A parameter is a record [name, ty, indexed].                   *)

AbiTypes == {"uint", "int", "bool", "address", "string", "bytes", "fixed_bytes", "function"}

IsParam(p) ==
    /\ p.ty \in AbiTypes /\ p.indexed \in BOOLEAN
    /\ Len(p.name) \in Nat \ {0} /\ p.name = [i \in 1 .. Len(p.name) |-> p.name[i]]

\* The topic of an indexed string or bytes is a hash.
Decoded(p, datum) ==
    [kind |-> IF p.indexed /\ p.ty \in {"string", "bytes"} THEN "Bytes"
              ELSE CASE p.ty = "uint"    -> "Uint"
                     [] p.ty = "int"     -> "Int"
                     [] p.ty = "bool"    -> "Bool"
                     [] p.ty = "address" -> "Address"
                     [] p.ty = "string"  -> "String"
                     [] p.ty \in {"bytes", "fixed_bytes", "function"} -> "Bytes",
     datum |-> datum]

Json(v) ==
    CASE v.kind \in {"Uint", "Int"}      -> <<"decimal", v.datum>>
      [] v.kind = "Bool"                 -> <<"bool", v.datum>>
      [] v.kind \in {"Address", "Bytes"} -> <<"hex", v.datum>>
      [] v.kind = "String"               -> <<"text", v.datum>>

\* The object the sink sends: every parameter under its name.
canonical_params(schema, values) ==
    [n \in {p.name : p \in ToSet(schema)} |->
        Json(values[CHOOSE i \in DOMAIN schema : schema[i].name = n])]

-----------------------------------------------------------------------------
(* PostgreSQL.                                                             *)

ColumnType(p) ==
    IF p.indexed /\ p.ty \in {"string", "bytes"} THEN "BYTEA"
    ELSE CASE p.ty \in {"uint", "int"} -> "NUMERIC"
           [] p.ty = "bool"            -> "BOOLEAN"
           [] p.ty = "string"          -> "TEXT"
           [] OTHER                    -> "BYTEA"

\* The column type a bound value has.
BoundType(v) ==
    CASE v.kind \in {"Uint", "Int"}      -> "NUMERIC"
      [] v.kind = "Bool"                 -> "BOOLEAN"
      [] v.kind = "String"               -> "TEXT"
      [] v.kind \in {"Address", "Bytes"} -> "BYTEA"

ColumnJson(type, datum) ==
    CASE type = "NUMERIC" -> <<"decimal", datum>>
      [] type = "BOOLEAN" -> <<"bool", datum>>
      [] type = "TEXT"    -> <<"text", datum>>
      [] type = "BYTEA"   -> <<"hex", datum>>

Reserved(kind) ==
    {<<"tx_hash">>, <<"block_number">>} \cup IF kind = "event" THEN {<<"log_index">>} ELSE {}

BaseName(kind, p) == IF p.name \in Reserved(kind) THEN Append(p.name, "param") ELSE p.name

\* The first of base, base_1, base_2, ... that is free.
FreeName(base, used) ==
    LET Candidate(n) == IF n = 0 THEN base ELSE Append(base, n)
    IN  Candidate(Min({n \in 0 .. Cardinality(used) : Candidate(n) \notin used}))

\* Mutant: a name is used as it comes.
postgres_paramsUnchecked(kind, schema) == [i \in DOMAIN schema |-> BaseName(kind, schema[i])]

\* The columns of the first n parameters, each given its name in turn.
Columns(kind, schema) ==
    LET columns[n \in 0 .. Len(schema)] ==
          IF n = 0 THEN <<>>
          ELSE Append(columns[n - 1],
                      FreeName(BaseName(kind, schema[n]), ToSet(columns[n - 1])))
    IN  columns

\* The column of each parameter, in their order.
postgres_params(kind, schema) == Columns(kind, schema)[Len(schema)]

Width(kind, schema) == Len(schema) + IF kind = "event" THEN 3 ELSE 2

\* The columns PostgreSQL gives every table itself (external).
SystemColumns == {<<"ctid">>, <<"xmin">>, <<"xmax">>, <<"cmin">>, <<"cmax">>, <<"tableoid">>}

\* CREATE TABLE refuses two columns of one name, a column named like one of
\* PostgreSQL's own, and too many columns.
CanCreateTable(kind, schema) ==
    LET columns == postgres_params(kind, schema)
    IN  /\ IsInjective(columns)
        /\ ToSet(columns) \cap (Reserved(kind) \cup SystemColumns) = {}
        /\ Width(kind, schema) <= MAX_COLUMNS

\* Mutant: the rows after the last full statement are forgotten.
ChunksWhole(inputs, size) ==
    [k \in 1 .. Len(inputs) \div size |-> SubSeq(inputs, (k - 1) * size + 1, k * size)]

\* slice::chunks
Chunks(inputs, size) ==
    [k \in 1 .. (Len(inputs) + size - 1) \div size |->
        SubSeq(inputs, (k - 1) * size + 1, Min({k * size, Len(inputs)}))]

\* insert_calls and insert_events: the statements for inputs, and when they fail.
\* Each input is a record [key, params].
Statements(kind, schema, inputs) == Chunks(inputs, BIND_LIMIT \div Width(kind, schema))

CanInsert(kind, schema, inputs) ==
    /\ Width(kind, schema) <= BIND_LIMIT
    /\ \A i \in DOMAIN inputs : \A j \in DOMAIN schema :
          BoundType(inputs[i].params[j]) = ColumnType(schema[j])
    /\ \A chunk \in ToSet(Statements(kind, schema, inputs)) :
          Len(chunk) * Width(kind, schema) <= BIND_LIMIT

Inserted(kind, schema, inputs) ==
    UNION {ToSet(chunk) : chunk \in ToSet(Statements(kind, schema, inputs))}

\* The row of an input, and what read_params makes of it.
PgRow(kind, schema, params) ==
    LET columns == postgres_params(kind, schema) IN
    [c \in ToSet(columns) |->
        params[CHOOSE i \in DOMAIN schema : columns[i] = c].datum]

read_params(kind, schema, row) ==
    LET columns == postgres_params(kind, schema)
        At(n) == CHOOSE i \in DOMAIN schema : schema[i].name = n
    IN  [n \in {p.name : p \in ToSet(schema)} |->
            ColumnJson(ColumnType(schema[At(n)]), row[columns[At(n)]])]

-----------------------------------------------------------------------------
(* MongoDB.                                                                *)

Bson(v) ==
    CASE v.kind \in {"Uint", "Int"} -> <<"String", <<"decimal", v.datum>>>>
      [] v.kind = "Bool"            -> <<"Boolean", v.datum>>
      [] v.kind = "Address"         -> <<"String", <<"hex", v.datum>>>>
      [] v.kind = "String"          -> <<"String", <<"text", v.datum>>>>
      [] v.kind = "Bytes"           -> <<"Binary", v.datum>>

BsonJson(b) ==
    CASE b[1] = "String"  -> b[2]
      [] b[1] = "Boolean" -> <<"bool", b[2]>>
      [] b[1] = "Binary"  -> <<"hex", b[2]>>

bson_params(schema, values) ==
    [n \in {p.name : p \in ToSet(schema)} |->
        Bson(values[CHOOSE i \in DOMAIN schema : schema[i].name = n])]

bson_params_to_json(document) == [n \in DOMAIN document |-> BsonJson(document[n])]
=============================================================================
