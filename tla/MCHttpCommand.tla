------------------------------ MODULE MCHttpCommand ------------------------------
(***************************************************************************)
(* Requests for TLC: every header block of up to four lines with a simple  *)
(* query, and every query of up to three parameters behind a good block.   *)
(***************************************************************************)
EXTENDS HttpCommand, SequencesExt

MCValues == {"", "secret", "guess", "10.0.0.1", "10.0.0.2", "oven", "http://10.0.0.1", "null", "long",
             "start", "stop", "clear", "profile", "1", "2", "70000"}

MCIpv4 == {"10.0.0.1", "10.0.0.2"}

MCTooLong == {"long"}

MCAuthority == [v \in MCValues |-> IF v = "http://10.0.0.1" THEN "10.0.0.1" ELSE ""]

MCIndex == [v \in MCValues |->
    CASE v = "1" -> 1 [] v = "2" -> 2 [] v = "70000" -> 70000 [] OTHER -> NotANumber]

H(name, value) == [name |-> name, value |-> value]
P(key, value) == [key |-> key, value |-> value]

GoodBlock == <<H("host", "10.0.0.1"), H("token", "secret")>>
Lines == Range(GoodBlock)
             \cup {H("host", "10.0.0.2"), H("host", "oven"), H("host", ""), H("token", "guess"),
                   H("token", "long"), H("origin", "http://10.0.0.1"), H("origin", "null"),
                   H("other", ""), H("malformed", "")}

Parameters == {P("id", "start"), P("id", "stop"), P("id", "clear"), P("id", "profile"), P("id", ""),
               P("id", "missing"), P("arg", "1"), P("arg", "2"), P("arg", "70000"),
               P("other", ""), P("other", "missing"), P("missing", "stop")}

\* The ways a request line is written, and the ways it arrives.
Shapes == {[method |-> m, target |-> t, version |-> v, arrived |-> a] :
               m \in {"GET", "POST", "OPTIONS"}, t \in {Target, "page", "unknown"}, v \in BOOLEAN,
               a \in {"word", "line", "block", "all"}}

Plain == [method |-> "POST", target |-> Target, version |-> TRUE, arrived |-> "all"]

Of(shape, headers, asks, query) ==
    [method |-> shape.method, target |-> shape.target, version |-> shape.version,
     arrived |-> shape.arrived, headers |-> headers, asks |-> asks, query |-> query]

MCRequests ==
    {Of(Plain, block, TRUE, <<P("id", "start")>>) : block \in SeqOf(Lines, 4)}
        \cup {Of([Plain EXCEPT !.version = v], GoodBlock, TRUE, query) :
                  v \in BOOLEAN, query \in SeqOf(Parameters, 3)}
        \cup {Of(shape, block, asks, IF asks THEN <<P("id", "stop")>> ELSE <<>>) :
                  shape \in Shapes, block \in {GoodBlock, <<>>}, asks \in BOOLEAN}
================================================================================
