------------------------------ MODULE Filters ------------------------------
(***************************************************************************)
(* The filter of a monitor, from the request that creates it to the results *)
(* it lets through: the signature is parsed (parseon-core/src/abi.rs), the  *)
(* expression is bounded, typed against the signature and rewritten with    *)
(* canonical literals (filter.rs); that form is stored, compiled again from *)
(* storage at every poll, and evaluated on what the decoders make of        *)
(* calldata and logs.  preview answers for a sample what the worker would.  *)
(*                                                                          *)
(* An expression is a tree of records; a path in it is the sequence of the  *)
(* positions that lead to a node.  A byte string is a sequence of bytes.    *)
(* A text is a decimal (sign, leading zeros, magnitude), hexadecimal bytes  *)
(* (perhaps with a stray digit, perhaps in capitals) or a word.  What the   *)
(* code does by recursion on expressions is written as recursive functions  *)
(* on the set of expressions.                                               *)
(***************************************************************************)
EXTENDS Integers, Sequences, FiniteSets, SequencesExt

CONSTANTS
    Requests,     \* the [signature, filter] a monitor may be created with
    AbiValues(_), \* the values a parameter may have on chain
    Contexts,     \* block number, hashes, addresses and log index of a call or an event
    None,
    MaxNesting,   \* of the JSON that serde_json reads (128)
    MaxBytes, MaxNodes, MaxDepth, MaxChildren,  \* the limits of filter.rs
    U64Bits, WordLen, AddressLen, FunctionLen   \* 64 bits; 32, 20 and 24 bytes

ASSUME LimitAssumption ==
    /\ {MaxNesting, MaxBytes, MaxNodes, MaxDepth, MaxChildren} \subseteq Nat
    /\ {U64Bits, WordLen, AddressLen, FunctionLen} \subseteq Nat \ {0}

FILTER_VERSION == 1

VARIABLES
    request,   \* what the monitor was created with, or None
    row,       \* its row: target and filter, or None
    filter,    \* the filter compiled at the last poll; None matches everything
    item,      \* the call or event handled last, or None
    outcome    \* what became of the last step

vars == <<request, row, filter, item, outcome>>

Ok(v) == [ok |-> TRUE, v |-> v]
Err(path) == [ok |-> FALSE, path |-> path]

\* collect::<Result<Vec<_>, _>>: all the values, or the first error.
Collect(results) ==
    LET bad == {i \in DOMAIN results : ~ results[i].ok}
    IN  IF bad # {} THEN results[Min(bad)] ELSE Ok([i \in DOMAIN results |-> results[i].v])

\* The result for the i-th part of an expression, seen from the whole.
Inside(i, result) == IF result.ok THEN result ELSE Err(<<i>> \o result.path)

\* A loop over 1 .. n: step gives the state after a round from the one before it.
Loop(n, start, step(_, _)) ==
    LET after[i \in 0 .. n] == IF i = 0 THEN start ELSE step(after[i - 1], i)
    IN  after[n]

-----------------------------------------------------------------------------
(* The values the rest is about.                                           *)

Byte == 0 .. 255
Bytes(n) == {s \in Seq(Byte) : Len(s) = n}

Texts ==
    [form : {"dec"}, neg : BOOLEAN, zeros : Nat, mag : Nat]
    \cup [form : {"hex"}, bytes : Seq(Byte), odd : BOOLEAN, upper : BOOLEAN]
    \cup [form : {"word"}, s : STRING]

\* A number is never a literal, whatever it is.
Json == [json : {"string"}, text : Texts] \cup [json : {"bool"}, b : BOOLEAN] \cup [json : {"number"}]

\* Trees with at most n levels.
Levels(leaves) ==
    LET level[n \in 0 .. MaxNesting] ==
          IF n = 0 THEN {}
          ELSE leaves \cup [k : {"not"}, args : [1 .. 1 -> level[n - 1]]]
                      \cup [k : {"and", "or"}, args : Seq(level[n - 1])]
    IN  level

Trees(leaves) == Levels(leaves)[MaxNesting]

Ops == {"eq", "ne", "gt", "gte", "lt", "lte"}

\* A field is a name and whether it is one of the parameters.
Comparisons ==
    [k : {"compare"}, field : [param : BOOLEAN, name : STRING], op : Ops, value : Json]

\* FilterExpression.
Expressions == Trees(Comparisons)

FilterValues ==
    ({"Uint", "Int"} \X Int) \cup ({"Bool"} \X BOOLEAN)
    \cup ({"Address", "Bytes"} \X Seq(Byte)) \cup ({"String"} \X Texts)

\* The index is the position of a parameter (0: metadata).
CompiledComparisons ==
    [k : {"compare"}, name : STRING, index : Nat, op : Ops, value : FilterValues]

CompiledExpressions == Trees(CompiledComparisons)

-----------------------------------------------------------------------------
(* abi.rs: signatures.                                                     *)

Scalars == {"bool", "int", "uint", "fixed", "address", "function", "bytes", "string"}

ensure_supported_type(ty) == ty.t \in Scalars

\* Unnamed parameters are called arg0, arg1, ...
ParamName(param, i) == IF param.name = "" THEN "arg" \o ToString(i - 1) ELSE param.name

Params(inputs) ==
    [i \in DOMAIN inputs |-> [inputs[i] EXCEPT !.name = ParamName(inputs[i], i)]]

WellNamed(inputs) == IsInjective([i \in DOMAIN inputs |-> Params(inputs)[i].name])

parse_target_signature(signature) ==
    LET params == Params(signature.inputs)
        rejected ==
           \/ signature.kind \notin {"function", "event"}
           \/ signature.kind = "function" /\ params = <<>>
           \/ signature.kind = "event" /\ signature.anonymous
           \/ signature.kind = "event" /\ Cardinality({i \in DOMAIN params : params[i].indexed}) > 3
           \/ ~ WellNamed(signature.inputs)
           \/ \E i \in DOMAIN params : ~ ensure_supported_type(params[i].ty)
    IN  IF rejected THEN Err(<<>>)
        ELSE Ok([kind |-> IF signature.kind = "event" THEN "event" ELSE "call",
                 params |-> params])

-----------------------------------------------------------------------------
(* abi.rs: decoding.  Calldata is the values in order; a log is the indexed *)
(* values (topics) and the others (data).  A string or bytes value that is  *)
(* indexed appears as its hash; a fixed-size one fills a word.              *)

IsHashed(param, event) == event /\ param.indexed /\ param.ty.t \in {"string", "bytes"}

\* External: the values of a parameter on chain.
ChainValues(param) ==
    IF IsHashed(param, TRUE) THEN Bytes(WordLen)
    ELSE CASE param.ty.t = "fixed"    -> Bytes(WordLen)
           [] param.ty.t = "uint"     -> {v \in Nat : v < 2 ^ param.ty.n}
           [] param.ty.t = "int"      -> {v \in Int : -(2 ^ (param.ty.n - 1)) <= v
                                                     /\ v < 2 ^ (param.ty.n - 1)}
           [] param.ty.t = "bool"     -> BOOLEAN
           [] param.ty.t = "address"  -> Bytes(AddressLen)
           [] param.ty.t = "string"   -> Texts
           [] param.ty.t = "bytes"    -> Seq(Byte)
           [] param.ty.t = "function" -> Bytes(FunctionLen)

\* External: what the chain makes of an event.
EncodeLog(params, values) ==
    LET at(indexed) == {i \in DOMAIN params : params[i].indexed = indexed}
        nth(s, n) == CHOOSE i \in s : Cardinality({j \in s : j <= i}) = n
    IN  [topics |-> [n \in 1 .. Cardinality(at(TRUE)) |-> values[nth(at(TRUE), n)]],
         data |-> [n \in 1 .. Cardinality(at(FALSE)) |-> values[nth(at(FALSE), n)]]]

decode_value(param, event, value) ==
    IF IsHashed(param, event) THEN <<"Bytes", value>>
    ELSE CASE param.ty.t = "fixed"     -> <<"Bytes", SubSeq(value, 1, param.ty.n)>>
           [] param.ty.t = "uint"      -> <<"Uint", value>>
           [] param.ty.t = "int"       -> <<"Int", value>>
           [] param.ty.t = "bool"      -> <<"Bool", value>>
           [] param.ty.t = "address"   -> <<"Address", value>>
           [] param.ty.t = "string"    -> <<"String", value>>
           [] param.ty.t \in {"bytes", "function"} -> <<"Bytes", value>>

CallDecode(params, calldata) ==
    [i \in DOMAIN params |-> decode_value(params[i], FALSE, calldata[i])]

\* Mutant: the indexed values come first, whatever the order of the parameters.
EventDecodeTopicsFirst(params, log) ==
    LET values == log.topics \o log.data
    IN  [i \in DOMAIN params |-> decode_value(params[i], TRUE, values[i])]

\* The parameters draw from the topics and from the data by their indexed flag.
EventDecode(params, log) ==
    LET nth(i) == Cardinality({j \in 1 .. i : params[j].indexed = params[i].indexed})
    IN  [i \in DOMAIN params |->
           decode_value(params[i], TRUE,
                        IF params[i].indexed THEN log.topics[nth(i)] ELSE log.data[nth(i)])]

-----------------------------------------------------------------------------
(* filter.rs: limits.  MAX_BYTES counts JSON bytes; here a node is one byte *)
(* and a literal as long as its text.                                      *)

TextSize(text) ==
    CASE text.form = "dec"  -> (IF text.neg THEN 1 ELSE 0) + text.zeros + 1
      [] text.form = "hex"  -> 2 + 2 * Len(text.bytes) + (IF text.odd THEN 1 ELSE 0)
      [] text.form = "word" -> 1

Size[e \in Expressions] ==
    IF e.k = "compare" THEN 1 + (IF e.value.json = "string" THEN TextSize(e.value.text) ELSE 1)
    ELSE LET sizes == [i \in DOMAIN e.args |-> Size[e.args[i]]]
         IN  Loop(Len(sizes), 1, LAMBDA sum, i : sum + sizes[i])

\* Mutant: a negation does not count as a level.
VisitFlatNot(e, visits, depth, nodes) ==
    IF nodes + 1 > MaxNodes \/ depth > MaxDepth THEN Err(<<>>)
    ELSE IF e.k = "compare" THEN Ok(nodes + 1)
    ELSE IF e.k # "not" /\ Len(e.args) \notin 2 .. MaxChildren THEN Err(<<>>)
    ELSE Loop(Len(e.args), Ok(nodes + 1),
              LAMBDA seen, i :
                 IF seen.ok
                 THEN Inside(i, visits[i][IF e.k = "not" THEN depth ELSE depth + 1][seen.v])
                 ELSE seen)

\* nodes counts the nodes seen so far in the whole expression; visits[i] is what
\* visit does with the i-th child.
Visit(e, visits, depth, nodes) ==
    IF nodes + 1 > MaxNodes \/ depth > MaxDepth THEN Err(<<>>)
    ELSE IF e.k = "compare" THEN Ok(nodes + 1)
    ELSE IF e.k # "not" /\ Len(e.args) \notin 2 .. MaxChildren THEN Err(<<>>)
    ELSE Loop(Len(e.args), Ok(nodes + 1),
              LAMBDA seen, i :
                 IF seen.ok THEN Inside(i, visits[i][depth + 1][seen.v]) ELSE seen)

visit[e \in Expressions] ==
    LET visits == IF e.k = "compare" THEN <<>> ELSE [i \in DOMAIN e.args |-> visit[e.args[i]]]
    IN  [depth \in Nat |-> [nodes \in Nat |-> Visit(e, visits, depth, nodes)]]

validate_limits(e) == IF Size[e] > MaxBytes THEN Err(<<>>) ELSE visit[e][1][0]

-----------------------------------------------------------------------------
(* filter.rs: compilation against a target.                                *)

ordered(op) == op \in {"gt", "gte", "lt", "lte"}

\* A bytes type of size 0 is one of any size.
value_type(param, event) ==
    IF IsHashed(param, event) THEN [t |-> "bytes", n |-> WordLen]
    ELSE CASE param.ty.t = "fixed"    -> [t |-> "bytes", n |-> param.ty.n]
           [] param.ty.t = "function" -> [t |-> "bytes", n |-> FunctionLen]
           [] param.ty.t = "bytes"    -> [t |-> "bytes", n |-> 0]
           [] OTHER                   -> param.ty

Address == [t |-> "address", n |-> 0]
U64 == [t |-> "uint", n |-> U64Bits]

\* The metadata fields of a kind of target, and their types.
Metadata(kind) ==
    {"block_number", "tx_hash"}
    \cup (IF kind = "call" THEN {"from", "to"} ELSE {"emitter", "log_index"})

MetadataType(name) ==
    CASE name \in {"block_number", "log_index"}  -> U64
      [] name = "tx_hash"                        -> [t |-> "bytes", n |-> WordLen]
      [] name \in {"from", "to", "emitter"}      -> Address

\* The position of the parameter (0: metadata) and the type.
resolve_field(target, field) ==
    LET at == {i \in DOMAIN target.params : target.params[i].name = field.name}
    IN  IF ~ field.param
        THEN IF field.name \in Metadata(target.kind)
             THEN Ok([index |-> 0, ty |-> MetadataType(field.name)])
             ELSE Err(<<>>)
        ELSE IF at # {}
        THEN Ok([index |-> Min(at),
                 ty |-> value_type(target.params[Min(at)], target.kind = "event")])
        ELSE Err(<<>>)

Decimal(v) ==
    [json |-> "string",
     text |-> [form |-> "dec", neg |-> v < 0, zeros |-> 0, mag |-> IF v < 0 THEN -v ELSE v]]

Hex(bytes) ==
    [json |-> "string", text |-> [form |-> "hex", bytes |-> bytes, odd |-> FALSE, upper |-> FALSE]]

IsText(json, form) == json.json = "string" /\ json.text.form = form

Signed(text) == IF text.neg THEN -text.mag ELSE text.mag

\* The text is bytes, of the given size unless that is 0.
IsBytes(json, size) ==
    /\ IsText(json, "hex") /\ ~ json.text.odd
    /\ size \in {0, Len(json.text.bytes)}

\* External: DynSolType::coerce_str takes the decimals of the type's width.
Fits(ty, text) ==
    IF ty.t = "uint" THEN ~ text.neg /\ text.mag < 2 ^ ty.n
    ELSE -(2 ^ (ty.n - 1)) <= Signed(text) /\ Signed(text) < 2 ^ (ty.n - 1)

IsTyped(ty, json) ==
    CASE ty.t \in {"uint", "int"} -> IsText(json, "dec") /\ Fits(ty, json.text)
      [] ty.t = "bool"            -> json.json = "bool"
      [] ty.t = "address"         -> IsBytes(json, AddressLen)
      [] ty.t = "string"          -> json.json = "string"
      [] ty.t = "bytes"           -> IsBytes(json, ty.n)

Literal(ty, json) ==
    CASE ty.t = "uint"    -> <<"Uint", json.text.mag>>
      [] ty.t = "int"     -> <<"Int", Signed(json.text)>>
      [] ty.t = "bool"    -> <<"Bool", json.b>>
      [] ty.t = "address" -> <<"Address", json.text.bytes>>
      [] ty.t = "string"  -> <<"String", json.text>>
      [] ty.t = "bytes"   -> <<"Bytes", json.text.bytes>>

\* Mutant: the canonical form of bytes lacks the prefix that parsing requires.
CanonicalBare(ty, json) ==
    CASE ty.t \in {"uint", "int"}      -> Decimal(Signed(json.text))
      [] ty.t = "address"              -> Hex(json.text.bytes)
      [] ty.t = "bytes"                -> [json |-> "string", text |-> [form |-> "word", s |-> "00"]]
      [] OTHER                         -> json

Canonical(ty, json) ==
    CASE ty.t \in {"uint", "int"}      -> Decimal(Signed(json.text))
      [] ty.t \in {"address", "bytes"} -> Hex(json.text.bytes)
      [] OTHER                         -> json

\* The typed literal and its canonical JSON.
parse_value(ty, json) ==
    IF IsTyped(ty, json)
    THEN Ok([literal |-> Literal(ty, json), canonical |-> Canonical(ty, json)])
    ELSE Err(<<>>)

CompileComparison(e, target) ==
    LET field == resolve_field(target, e.field)
        value == parse_value(field.v.ty, e.value)
    IN  IF ~ field.ok \/ (ordered(e.op) /\ field.v.ty.t \notin {"uint", "int"}) \/ ~ value.ok
        THEN Err(<<>>)
        ELSE Ok([source |-> [e EXCEPT !.value = value.v.canonical],
                 compiled |-> [k |-> "compare", name |-> e.field.name, index |-> field.v.index,
                               op |-> e.op, value |-> value.v.literal]])

CompileParts(k, results) ==
    LET parts == Collect([i \in DOMAIN results |-> Inside(i, results[i])])
    IN  IF ~ parts.ok THEN parts
        ELSE Ok([source |-> [k |-> k, args |-> [i \in DOMAIN parts.v |-> parts.v[i].source]],
                 compiled |-> [k |-> k, args |-> [i \in DOMAIN parts.v |-> parts.v[i].compiled]]])

compile_expression(target) ==
    LET result[e \in Expressions] ==
          IF e.k = "compare" THEN CompileComparison(e, target)
          ELSE CompileParts(e.k, [i \in DOMAIN e.args |-> result[e.args[i]]])
    IN  result

prepare(e, target) ==
    LET limits == validate_limits(e)
        result == compile_expression(target)[e]
    IN  IF ~ limits.ok THEN limits
        ELSE IF ~ result.ok THEN result
        ELSE Ok([definition |-> [version |-> FILTER_VERSION, expression |-> result.v.source],
                 filter |-> result.v.compiled])

\* FilterDefinition::compile.
compile(definition, target) ==
    LET limits == validate_limits(definition.expression)
        result == compile_expression(target)[definition.expression]
    IN  IF definition.version # FILTER_VERSION THEN Err(<<>>)
        ELSE IF ~ limits.ok THEN limits
        ELSE IF ~ result.ok THEN result
        ELSE Ok(result.v.compiled)

-----------------------------------------------------------------------------
(* filter.rs: evaluation in the context of a call or an event.             *)

\* Fields of the context that the expression may name; its parameters.
resolve_value(leaf, ctx) ==
    IF leaf.index # 0
    THEN IF leaf.index \in DOMAIN ctx.params THEN Ok(ctx.params[leaf.index]) ELSE Err(<<>>)
    ELSE IF leaf.name \notin Metadata(ctx.kind) THEN Err(<<>>)
    ELSE Ok(CASE leaf.name \in {"block_number", "log_index"} -> <<"Uint", ctx.meta[leaf.name]>>
              [] leaf.name = "tx_hash"                       -> <<"Bytes", ctx.meta[leaf.name]>>
              [] leaf.name \in {"from", "to", "emitter"}     -> <<"Address", ctx.meta[leaf.name]>>)

\* Compilation leaves ordering to integers.
Apply(left, op, right) ==
    CASE op = "eq"  -> left = right
      [] op = "ne"  -> left # right
      [] op = "gt"  -> left > right
      [] op = "gte" -> left >= right
      [] op = "lt"  -> left < right
      [] op = "lte" -> left <= right

compare(left, op, right) ==
    IF left[1] = right[1] THEN Ok(Apply(left[2], op, right[2])) ELSE Err(<<>>)

EvaluateComparison(leaf, ctx) ==
    LET left == resolve_value(leaf, ctx)
    IN  IF left.ok THEN compare(left.v, leaf.op, leaf.value) ELSE left

\* The parts are evaluated in order up to the first that decides, or fails.
EvaluateParts(k, parts) ==
    LET stops == {i \in DOMAIN parts : ~ parts[i].ok \/ parts[i].v = (k = "or")}
    IN  IF k = "not" THEN IF parts[1].ok THEN Ok(~ parts[1].v) ELSE parts[1]
        ELSE IF stops # {} THEN parts[Min(stops)]
        ELSE Ok(k = "and")

EvaluateExpression(ctx) ==
    LET result[f \in CompiledExpressions] ==
          IF f.k = "compare" THEN EvaluateComparison(f, ctx)
          ELSE EvaluateParts(f.k, [i \in DOMAIN f.args |-> result[f.args[i]]])
    IN  result

\* Filter::evaluate.
evaluate(f, ctx) == IF f = None THEN Ok(TRUE) ELSE EvaluateExpression(ctx)[f]

\* Mutant: the sample of an event is read as if nothing were indexed.
decode_sample_params_plain(params, event, values) ==
    IF Cardinality(DOMAIN values) # Len(params) THEN Err(<<>>)
    ELSE Collect([i \in DOMAIN params |->
            IF params[i].name \notin DOMAIN values THEN Err(<<>>)
            ELSE LET parsed == parse_value(value_type(params[i], FALSE), values[params[i].name])
                 IN  IF parsed.ok THEN Ok(parsed.v.literal) ELSE parsed])

\* values maps the names in a sample to JSON.
decode_sample_params(params, event, values) ==
    IF Cardinality(DOMAIN values) # Len(params) THEN Err(<<>>)
    ELSE Collect([i \in DOMAIN params |->
            IF params[i].name \notin DOMAIN values THEN Err(<<>>)
            ELSE LET parsed == parse_value(value_type(params[i], event), values[params[i].name])
                 IN  IF parsed.ok THEN Ok(parsed.v.literal) ELSE parsed])

preview(target, expression, sample) ==
    LET prepared == prepare(expression, target)
        values == decode_sample_params(target.params, target.kind = "event", sample.params)
    IN  IF ~ prepared.ok THEN prepared
        ELSE IF sample.kind # target.kind THEN Err(<<>>)
        ELSE IF ~ values.ok THEN values
        ELSE evaluate(prepared.v.filter,
                      [kind |-> sample.kind, meta |-> sample.meta, params |-> values.v])

\* Nothing is stored.
preview_filter(signature, expression, sample) ==
    LET target == parse_target_signature(signature)
    IN  IF target.ok THEN preview(target.v, expression, sample) ELSE target

-----------------------------------------------------------------------------
(* The life of a monitor.                                                  *)

\* What serde and alloy let through: the JSON of a filter, the parameters of a
\* function or an event, with sizes that Solidity has.
ASSUME RequestAssumption ==
    /\ Requests \subseteq
          [signature : [kind : STRING, anonymous : BOOLEAN,
                        inputs : Seq([name : STRING, ty : [t : STRING, n : Nat], indexed : BOOLEAN])],
           filter : Expressions \cup {None}]
    /\ \A r \in Requests : \A i \in DOMAIN r.signature.inputs :
          LET param == r.signature.inputs[i]
          IN  /\ param.ty.t = "fixed" => param.ty.n \in 1 .. WordLen
              /\ r.signature.kind = "function" => ~ param.indexed
              /\ ensure_supported_type(param.ty) =>
                    AbiValues(Params(r.signature.inputs)[i]) \subseteq ChainValues(param)

\* None is neither a request, nor a filter, nor a version.
ASSUME NoneAssumption ==
    None \notin Requests \cup Expressions \cup CompiledExpressions \cup {FILTER_VERSION}

\* MonitorService::create.
Create(r) ==
    LET target == parse_target_signature(r.signature)
        prepared == prepare(r.filter, target.v)
        rejected == ~ target.ok \/ (r.filter # None /\ ~ prepared.ok)
    IN  /\ request' = r
        /\ row' = IF rejected THEN None
                  ELSE [target |-> target.v,
                        expression |-> IF r.filter = None THEN None
                                       ELSE prepared.v.definition.expression,
                        version |-> IF r.filter = None THEN None ELSE FILTER_VERSION]
        /\ outcome' = IF ~ rejected THEN [what |-> "created"]
                      ELSE IF ~ target.ok THEN [what |-> "bad signature"]
                      ELSE [what |-> "bad filter", path |-> prepared.path]
        /\ UNCHANGED <<filter, item>>

\* Another release, or a hand, changes the version beside the expression.
ChangeVersion(version) ==
    /\ row # None
    /\ row.version = FILTER_VERSION
    /\ row' = [row EXCEPT !.version = version]
    /\ UNCHANGED <<request, filter, item, outcome>>

\* to_monitor, at the start of every poll: an error fails the poll.
LoadMonitor ==
    LET loaded == IF row.expression = None /\ row.version = None THEN Ok(None)
                  ELSE IF row.expression # None /\ row.version # None
                  THEN compile([version |-> row.version, expression |-> row.expression], row.target)
                  ELSE Err(<<>>)
    IN  /\ row # None
        /\ filter' = IF loaded.ok THEN loaded.v ELSE None
        /\ outcome' = [what |-> IF loaded.ok THEN "loaded" ELSE "unloadable"]
        /\ item' = None
        /\ UNCHANGED <<request, row>>

ItemValues(params) ==
    Loop(Len(params), {<<>>},
         LAMBDA lists, i : {Append(values, v) : values \in lists, v \in AbiValues(params[i])})

\* decode_calls and decode_events for one monitor: what does not decode is skipped.
IndexItem(meta, values) ==
    LET params == row.target.params
        event == row.target.kind = "event"
        verdict == evaluate(filter,
            [kind |-> row.target.kind, meta |-> meta,
             params |-> IF event THEN EventDecode(params, EncodeLog(params, values))
                                 ELSE CallDecode(params, values)])
    IN  /\ outcome.what = "loaded"
        /\ item' = [meta |-> meta, values |-> values]
        /\ outcome' = [what |-> IF values = None THEN "skipped"
                                ELSE IF ~ verdict.ok THEN "failed"
                                ELSE IF verdict.v THEN "stored" ELSE "dropped"]
        /\ UNCHANGED <<request, row, filter>>

Init ==
    /\ request = None /\ row = None /\ filter = None /\ item = None
    /\ outcome = [what |-> "new"]

Next ==
    \/ request = None /\ \E r \in Requests : Create(r)
    \/ \E version \in {FILTER_VERSION + 1, None} : ChangeVersion(version)
    \/ LoadMonitor
    \/ /\ row # None
       /\ \E meta \in Contexts :
             \/ IndexItem(meta, None)
             \/ \E values \in ItemValues(row.target.params) : IndexItem(meta, values)

Spec == Init /\ [][Next]_vars

-----------------------------------------------------------------------------
(* Correctness.                                                            *)

\* The nodes of an expression, with their paths.
Nodes[e \in Expressions] ==
    IF e.k = "compare" THEN {<<<<>>, e>>}
    ELSE LET parts == [i \in DOMAIN e.args |-> Nodes[e.args[i]]]
             lifted(i) == {<<<<i>> \o n[1], n[2]>> : n \in parts[i]}
         IN  {<<<<>>, e>>} \cup UNION {lifted(i) : i \in DOMAIN parts}

\* In the order in which an expression is read.
Before(p, q) ==
    \/ Len(p) < Len(q) /\ \A j \in DOMAIN p : p[j] = q[j]
    \/ \E i \in DOMAIN p \cap DOMAIN q : p[i] < q[i] /\ \A j \in 1 .. i - 1 : p[j] = q[j]

\* The node is wrong by itself, wherever it stands, or stands too deep.
IsFault(path, node, target) ==
    \/ Len(path) >= MaxDepth
    \/ node.k \in {"and", "or"} /\ Len(node.args) \notin 2 .. MaxChildren
    \/ node.k = "compare" /\ ~ CompileComparison(node, target).ok

\* A filter is accepted exactly if it is within the limits and every comparison
\* in it would be accepted on its own; otherwise the path in the error leads to a
\* node that is at fault, or to the first node beyond the limit.
RejectedWhereWrong ==
    (request # None /\ request.filter # None /\ outcome.what \in {"created", "bad filter"}) =>
       LET e == request.filter
           target == parse_target_signature(request.signature).v
           faults == {n[1] : n \in {m \in Nodes[e] : IsFault(m[1], m[2], target)}}
           large == Size[e] > MaxBytes
           many == Cardinality(Nodes[e]) > MaxNodes
       IN  /\ outcome.what = "created" <=> (faults = {} /\ ~ large /\ ~ many)
           /\ outcome.what = "bad filter" =>
                 \/ large /\ outcome.path = <<>>
                 \/ outcome.path \in faults
                 \/ /\ \E n \in Nodes[e] : n[1] = outcome.path
                    /\ Cardinality({n \in Nodes[e] : Before(n[1], outcome.path)}) = MaxNodes

\* What the worker compiles from storage is what was accepted when the monitor was
\* created: rewriting the literals neither changes the filter nor makes it one that
\* is refused later, and a monitor fails a poll only if its version was changed.
\* Its parameters have distinct names (fields of filters, columns of tables), those
\* the service made up for unnamed ones included.
LoadsWhatWasAccepted ==
    /\ row # None =>
          Cardinality({row.target.params[i].name : i \in DOMAIN row.target.params})
             = Len(row.target.params)
    /\ (outcome.what = "loaded" /\ request.filter # None) =>
          filter = prepare(request.filter, row.target).v.filter
    /\ outcome.what = "unloadable" => row.version # FILTER_VERSION

\* The values that comparisons are about, as the author of the filter means them:
\* of the parameter of that name on chain, and of the literal.
FieldMeaning(params, field) ==
    IF ~ field.param THEN item.meta[field.name]
    ELSE LET i == CHOOSE j \in DOMAIN params : params[j].name = field.name
         IN  IF params[i].ty.t = "fixed" THEN SubSeq(item.values[i], 1, params[i].ty.n)
             ELSE item.values[i]

IsPlainText(params, event, field) ==
    field.param /\ \E i \in DOMAIN params : /\ params[i].name = field.name
                                           /\ params[i].ty.t = "string"
                                           /\ ~ IsHashed(params[i], event)

LiteralMeaning(json, asText) ==
    IF json.json = "bool" THEN json.b
    ELSE IF asText THEN json.text
    ELSE IF json.text.form = "dec" THEN Signed(json.text) ELSE json.text.bytes

Connective(k, parts) ==
    CASE k = "and" -> \A i \in DOMAIN parts : parts[i]
      [] k = "or"  -> \E i \in DOMAIN parts : parts[i]
      [] k = "not" -> ~ parts[1]

Meaning(params, event) ==
    LET holds[e \in Expressions] ==
          IF e.k = "compare"
          THEN Apply(FieldMeaning(params, e.field), e.op,
                     LiteralMeaning(e.value, IsPlainText(params, event, e.field)))
          ELSE Connective(e.k, [i \in DOMAIN e.args |-> holds[e.args[i]]])
    IN  holds

\* A call or an event that decodes is stored exactly if the filter that was asked
\* for, read as a formula about the values on chain, holds of it; evaluating a
\* stored filter never fails (an error would fail every poll from then on).
StoredByMeaning ==
    item # None =>
       outcome.what =
          IF item.values = None THEN "skipped"
          ELSE IF \/ request.filter = None
                  \/ Meaning(Params(request.signature.inputs),
                             request.signature.kind = "event")[request.filter]
          THEN "stored" ELSE "dropped"

\* The sample that describes an item.
JsonOf(param, event, value) ==
    IF IsHashed(param, event) THEN Hex(value)
    ELSE CASE param.ty.t \in {"uint", "int"} -> Decimal(value)
           [] param.ty.t = "bool"   -> [json |-> "bool", b |-> value]
           [] param.ty.t = "string" -> [json |-> "string", text |-> value]
           [] param.ty.t = "fixed"  -> Hex(SubSeq(value, 1, param.ty.n))
           [] OTHER                 -> Hex(value)

SampleOf(target, names) ==
    LET at(name) == CHOOSE i \in DOMAIN target.params : target.params[i].name = name
    IN  [kind |-> target.kind, meta |-> item.meta,
         params |-> [name \in names |->
                       JsonOf(target.params[at(name)], target.kind = "event", item.values[at(name)])]]

\* preview gives, for a sample that describes a call or an event, the verdict of the
\* worker on that call or event, and refuses a sample that lacks a parameter or is
\* of the other kind.
PreviewAgrees ==
    (item # None /\ item.values # None /\ request.filter # None) =>
       LET target == row.target
           names == {target.params[i].name : i \in DOMAIN target.params}
           shown(sample) == preview_filter(request.signature, request.filter, sample)
       IN  /\ shown(SampleOf(target, names)) = Ok(outcome.what = "stored")
           /\ \A name \in names : ~ shown(SampleOf(target, names \ {name})).ok
           /\ ~ shown([SampleOf(target, names) EXCEPT
                          !.kind = IF @ = "call" THEN "event" ELSE "call"]).ok

=============================================================================
