----------------------------- MODULE MCDispatch -----------------------------
(***************************************************************************)
(* Dispatch with the two admin APIs of the node, which share a namespace   *)
(* and a method, a service with methods and subscriptions of every kind of *)
(* signature and awkward names, and a service without suitable methods.    *)
(***************************************************************************)
EXTENDS Dispatch, TLC

Sig(in, out) == [in |-> in, out |-> out, variadic |-> FALSE]
Variadic(in, out) == [in |-> in, out |-> out, variadic |-> TRUE]
Api(namespace, public, methods) ==
    [namespace |-> namespace, exported |-> TRUE, public |-> public, methods |-> methods]

MCApis == <<
    Api(<<"admin">>, FALSE,
        <<"StopWS">> :> Sig(<< >>, <<"val", "error">>)
        @@ <<"Version">> :> Sig(<<"int">>, <<"val">>)),
    Api(<<"admin">>, TRUE, <<"Version">> :> Sig(<< >>, <<"val">>)),
    Api(<<"svc">>, TRUE,
        <<"Get">> :> Sig(<<"ctx", "int", "*int">>, <<"val", "error">>)
        @@ <<"Put">> :> Sig(<<"string">>, << >>)
        @@ <<"Results">> :> Sig(<<"ctx">>, <<"*sub", "error">>)
        @@ <<"Feed">> :> Sig(<<"ctx", "int">>, <<"*sub", "error">>)
        @@ <<"Subscribe">> :> Sig(<< >>, <<"val">>)
        @@ <<"Two", "words">> :> Sig(<< >>, <<"error">>)
        @@ <<"X", "unsubscribe">> :> Sig(<<"ctx">>, <<"*sub", "error">>)
        @@ <<"ErrFirst">> :> Sig(<< >>, <<"error", "val">>)
        @@ <<"Hidden">> :> Sig(<<"hidden">>, <<"val">>)
        @@ <<"Three">> :> Sig(<< >>, <<"val", "val", "error">>)),
    Api(<<"odd">>, FALSE,
        <<"Results">> :> Sig(<<"*ctx">>, <<"*sub", "error">>)
        @@ <<"Feed">> :> Sig(<<"ctx">>, <<"sub", "error">>)
        @@ <<"Get">> :> Sig(<<"*ctx">>, <<"errstruct">>)
        @@ <<"Fail">> :> Sig(<<"[]int">>, <<"val", "*error">>)
        @@ <<"Many">> :> Variadic(<<"[]int">>, <<"val">>)
        @@ <<"All">> :> Variadic(<<"ctx", "[]any">>, <<"val">>)
        @@ <<"X">> :> Variadic(<<"ctx", "[]int">>, <<"*sub", "*error">>)),
    Api(<<"my", "svc">>, TRUE, <<"Get">> :> Sig(<< >>, <<"val">>)),
    Api(<<"bare">>, FALSE, <<"Hidden">> :> Sig(<<"hidden">>, <<"val">>)) >>

MCWhitelists == {{}, {<<"admin">>}, {<<"svc">>, <<"odd">>}, {<<"admin">>, <<"svc">>}, {<<"bare">>}}

MCLowerFirst ==
    "StopWS" :> "stopWS" @@ "Version" :> "version" @@ "Get" :> "get" @@ "Put" :> "put"
    @@ "Results" :> "results" @@ "Feed" :> "feed" @@ "Subscribe" :> "subscribe"
    @@ "Two" :> "two" @@ "X" :> "x" @@ "ErrFirst" :> "errFirst" @@ "Hidden" :> "hidden"
    @@ "Three" :> "three" @@ "Fail" :> "fail" @@ "Many" :> "many" @@ "All" :> "all"

MCFronts == [ws : {TRUE}, verb : {"GET"}, length : {"unknown"}, json : {FALSE}, query : {FALSE}]
            \cup [ws : {FALSE}, verb : {"GET", "POST", "PUT", "OPTIONS"},
                  length : {"declared", "unknown"}, json : BOOLEAN, query : {FALSE}]
            \cup [ws : {FALSE}, verb : {"GET"}, length : {"declared"}, json : {TRUE}, query : {TRUE}]

Number == [kind |-> "number", text |-> << >>]
List == [kind |-> "list", text |-> << >>]
Text(name) == [kind |-> "string", text |-> name]
Absent == [kind |-> "none"]

Params == {Absent, [kind |-> "null"], [kind |-> "object"]}
          \cup {Array(v) : v \in {<< >>, <<Number>>, <<Null>>, <<List>>, <<Number, Number>>,
                <<Text(<<"x">>), List>>,
                <<Number, Number, Number>>, <<Text(<<"results">>)>>,
                <<Text(<<"feed">>), Number>>, <<Text(<<"x", "unsubscribe">>)>>}}
Methods == {<<"svc", "get">>, <<"svc", "put">>, <<"svc", "subscribe">>, <<"svc", "unsubscribe">>,
            <<"odd", "subscribe">>, <<"odd", "get">>, <<"odd", "fail">>, <<"odd", "many">>,
            <<"odd", "all">>, <<"my", "svc", "get">>, <<"svc">>,
            <<"svc", "results">>, <<"admin", "version">>, <<"rpc", "modules">>}

Wide == {Request(m, p) : m \in Methods, p \in Params}
        \cup {[Request(<<"svc", "get">>, Absent) EXCEPT !.id = i] : i \in {"missing", "other", "null"}}
        \cup {[Request(<<"svc", "get">>, Absent) EXCEPT !.object = FALSE]}

\* Elements of the batches of two.
Narrow == {r \in Wide :
    \/ r.id # "number" \/ ~r.object
    \/ r.method \in {<<"svc", "subscribe">>, <<"svc", "unsubscribe">>, <<"svc">>}
       /\ r.params \in {Absent, Array(<<Number>>), Array(<<Text(<<"results">>)>>)}
    \/ r.method = <<"svc", "get">> /\ r.params = Array(<<Number>>)}

Of(size, isBatch, reqs) == [size |-> size, isBatch |-> isBatch, reqs |-> reqs]
MCMessages ==
    {Single(r) : r \in Wide}
    \cup {Of("small", TRUE, <<r>>) : r \in Wide}
    \cup {Of("small", TRUE, <<r1, r2>>) : r1, r2 \in Narrow}
    \cup {Of("small", TRUE, << >>), Of("empty", FALSE, << >>)}
    \cup {Of("large", b, <<Request(<<"svc", "get">>, Array(<<Number>>))>>) : b \in BOOLEAN}
=============================================================================
