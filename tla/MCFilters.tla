----------------------------- MODULE MCFilters -----------------------------
(* A small instance of Filters for TLC: words of two bytes, addresses of    *)
(* one, integers of two bits.                                               *)
EXTENDS Filters

Ty(t, n) == [t |-> t, n |-> n]
P(name, ty, indexed) == [name |-> name, ty |-> ty, indexed |-> indexed]
Sig(kind, inputs) == [kind |-> kind, anonymous |-> FALSE, inputs |-> inputs]

Dec(neg, zeros, mag) ==
    [json |-> "string", text |-> [form |-> "dec", neg |-> neg, zeros |-> zeros, mag |-> mag]]
HexText(bytes, odd, upper) ==
    [json |-> "string", text |-> [form |-> "hex", bytes |-> bytes, odd |-> odd, upper |-> upper]]
Word == [json |-> "string", text |-> [form |-> "word", s |-> "x"]]

\* Between them: every type, indexed and not, parameters that are indexed after
\* ones that are not, and unnamed ones.
GoodSignatures == {
    Sig("function", <<P("a", Ty("uint", 2), FALSE), P("b", Ty("int", 2), FALSE)>>),
    Sig("function", <<P("", Ty("bool", 0), FALSE), P("a", Ty("string", 0), FALSE)>>),
    Sig("function", <<P("a", Ty("address", 0), FALSE), P("", Ty("bytes", 0), FALSE)>>),
    Sig("event", <<P("b", Ty("bytes", 0), FALSE), P("a", Ty("string", 0), TRUE)>>),
    Sig("event", <<P("a", Ty("fixed", 1), FALSE), P("b", Ty("function", 0), TRUE)>>),
    Sig("event", <<P("", Ty("uint", 1), FALSE), P("a", Ty("uint", 2), TRUE)>>),
    Sig("event", <<>>) }

\* An unnamed parameter beside one with its generated name, no parameters, four
\* indexed ones, an anonymous event, an array, an error.
BadSignatures == {
    Sig("function", <<P("arg1", Ty("bool", 0), FALSE), P("", Ty("bool", 0), FALSE)>>),
    Sig("function", <<>>),
    Sig("event", [i \in 1 .. 4 |-> P("", Ty("bool", 0), TRUE)]),
    [Sig("event", <<>>) EXCEPT !.anonymous = TRUE],
    Sig("function", <<P("a", Ty("array", 0), FALSE)>>),
    Sig("error", <<P("a", Ty("bool", 0), FALSE)>>) }

Literals ==
    {Dec(FALSE, 0, m) : m \in {0, 1, 2, 4}} \cup {Dec(FALSE, 1, 1), Dec(TRUE, 0, 0), Dec(TRUE, 0, 1)}
    \cup {HexText(<<1>>, FALSE, u) : u \in BOOLEAN}
    \cup {HexText(<<>>, FALSE, FALSE), HexText(<<1>>, TRUE, FALSE), HexText(<<1, 0>>, FALSE, TRUE)}
    \cup {Word, [json |-> "bool", b |-> TRUE], [json |-> "number"]}

Fields ==
    {[param |-> FALSE, name |-> n] :
        n \in {"block_number", "tx_hash", "from", "to", "emitter", "log_index", "gas"}}
    \cup {[param |-> TRUE, name |-> n] : n \in {"a", "b", "arg0", "arg1"}}

Leaf(param, name, op, value) ==
    [k |-> "compare", field |-> [param |-> param, name |-> name], op |-> op, value |-> value]

Leaves == {[k |-> "compare", field |-> f, op |-> o, value |-> v] : f \in Fields, o \in Ops, v \in Literals}

FewLeaves == {
    Leaf(FALSE, "block_number", "gte", Dec(FALSE, 0, 1)),
    Leaf(FALSE, "tx_hash", "ne", HexText(<<1, 0>>, FALSE, TRUE)),
    Leaf(TRUE, "a", "eq", Dec(FALSE, 1, 1)) }

Not(e) == [k |-> "not", args |-> <<e>>]
Join(k, args) == [k |-> k, args |-> args]

\* Joins of up to four parts, and what contains them.
Flat ==
    UNION {{Join(k, args) : args \in UNION {[1 .. n -> FewLeaves] : n \in 0 .. 3}} : k \in {"and", "or"}}
    \cup {Join("or", [i \in 1 .. 4 |-> e]) : e \in FewLeaves}
    \cup {Not(e) : e \in FewLeaves}

Nested ==
    {Not(e) : e \in Flat} \cup {Not(Not(Not(e))) : e \in FewLeaves}
    \cup UNION {{Join(k, <<e, l>>), Join(k, <<l, e>>)} : k \in {"and", "or"}, e \in Flat, l \in FewLeaves}

MCRequests ==
    {[signature |-> s, filter |-> e] : s \in GoodSignatures, e \in Leaves \cup Flat \cup Nested}
    \cup {[signature |-> s, filter |-> None] : s \in GoodSignatures \cup BadSignatures}

MCAbiValues(param) ==
    CASE param.indexed /\ param.ty.t \in {"string", "bytes"} -> {<<1, 0>>, <<1, 1>>}
      [] param.ty.t = "fixed" -> {<<0, 0>>, <<1, 0>>}
      [] param.ty.t = "function" -> {<<1, 0>>, <<0, 1>>}
      [] param.ty.t = "uint" -> {0, 1, 2 ^ param.ty.n - 1}
      [] param.ty.t = "int" -> {-1, 0, 1}
      [] param.ty.t = "bool" -> BOOLEAN
      [] param.ty.t = "address" -> {<<0>>, <<1>>}
      [] param.ty.t = "string" -> {Word.text, Dec(FALSE, 1, 1).text}
      [] param.ty.t = "bytes" -> {<<>>, <<1>>}

MCContexts == {
    [block_number |-> 0, tx_hash |-> <<1, 0>>, from |-> <<1>>, to |-> <<0>>, emitter |-> <<0>>, log_index |-> 3],
    [block_number |-> 2, tx_hash |-> <<1, 1>>, from |-> <<0>>, to |-> <<0>>, emitter |-> <<1>>, log_index |-> 1] }
=============================================================================
