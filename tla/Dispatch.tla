------------------------------ MODULE Dispatch ------------------------------
(***************************************************************************)
(* How a request finds the Go method that answers it: which methods an     *)
(* endpoint exposes (pkg/server/endpoint.go, utils.go, RegisterName of     *)
(* server.go), what the HTTP and websocket front ends let through          *)
(* (http.go, websocket.go), how the codec parses a message                 *)
(* (pkg/codec/jsonc.go), and how readRequest and handle of server.go route *)
(* it to a call by reflection.                                             *)
(*                                                                         *)
(* A name is the sequence of its parts between underscores, as             *)
(* strings.Split returns them: "ns_get" is <<"ns", "get">>.  A Go type is  *)
(* one of the names below; "*int" stands for any pointer to an exported or *)
(* builtin type, "hidden" for a type that is neither, "[]int" for a slice  *)
(* and "[]any" for one of empty interfaces.  A result that implements      *)
(* error once its pointers are taken off is an "error" if it does so as it *)
(* is and can be nil, an "errstruct" if it can not be nil, a "*error" if   *)
(* it does not as it is.  "sub" is a Subscription or a pointer to a        *)
(* pointer to one.  A JSON value keeps its kind, and its text if it is a   *)
(* string; a "list" is an array of numbers.                                *)
(***************************************************************************)
EXTENDS Integers, Sequences, SequencesExt, FiniteSetsExt

CONSTANTS
    Apis,        \* the APIs of the node and its services, in order
    Whitelists,  \* the module lists an endpoint may be configured with
    LowerFirst,  \* lower case of the first character of a part of a name
    Fronts,      \* ways a message can arrive
    Messages

Slices == {"[]int", "[]any"}
InTypes == {"ctx", "*ctx", "string", "int", "*int", "hidden"} \cup Slices
OutTypes == {"val", "hidden", "error", "errstruct", "*error", "sub", "*sub"}
Signature == [in : Seq(InTypes), out : Seq(OutTypes), variadic : BOOLEAN]

Tables == {"callbacks", "subscriptions"}   \* the method tables of a Service
Names == Seq(STRING)

\* Identifiers of Go are not empty; the last parameter of a variadic method
\* is a slice.
ASSUME ApisAssumption ==
    /\ Apis \in Seq(Range(Apis))
    /\ \A i \in DOMAIN Apis :
         /\ Apis[i].namespace \in Names
         /\ Apis[i].exported \in BOOLEAN /\ Apis[i].public \in BOOLEAN
         /\ \A m \in DOMAIN Apis[i].methods :
              /\ m \in Names \ {<< >>} /\ LowerFirst[m[1]] \in STRING
              /\ Apis[i].methods[m] \in Signature
              /\ Apis[i].methods[m].variadic =>
                   /\ Apis[i].methods[m].in # << >>
                   /\ Last(Apis[i].methods[m].in) \in Slices
ASSUME FrontsAssumption ==
    Fronts \subseteq [ws : BOOLEAN, verb : {"GET", "POST", "PUT", "OPTIONS"},
                      length : {"declared", "unknown"}, json : BOOLEAN, query : BOOLEAN]
\* The codec has lexed a message: an array is a batch, anything else is not.
ASSUME MessagesAssumption ==
    \A msg \in Messages :
        /\ msg.size \in {"empty", "small", "large"} /\ msg.isBatch \in BOOLEAN
        /\ msg.reqs \in Seq(Range(msg.reqs))
        /\ ~msg.isBatch /\ msg.size # "empty" => Len(msg.reqs) = 1
        /\ \A i \in DOMAIN msg.reqs : msg.reqs[i].object \in BOOLEAN /\ msg.reqs[i].method \in Names

VARIABLES
    whitelist,  \* modules of the endpoint
    state,      \* "down", "up" or "failed"
    at,         \* number of the API that the start is to register next
    services,   \* Server.Services
    last        \* the message being served, how it arrived, what comes of it

vars == <<whitelist, state, at, services, last>>

-----------------------------------------------------------------------------
(* Suitable methods *)

isExportedOrBuiltinType(t) == t # "hidden"
isContextType(t) == t \in {"ctx", "*ctx"}
isErrorType(t) == t \in {"error", "errstruct", "*error"}
isSubscriptionType(t) == t \in {"sub", "*sub"}

isPubSub(sig) ==
    /\ Len(sig.in) >= 1
    /\ Len(sig.out) = 2
    /\ isContextType(sig.in[1])
    /\ isSubscriptionType(sig.out[1])
    /\ isErrorType(sig.out[2])

HasCtx(sig) == Len(sig.in) >= 1 /\ sig.in[1] = "ctx"

ArgTypes(sig) == IF HasCtx(sig) THEN Tail(sig.in) ELSE sig.in

ErrPos(sig) ==
    LET errors == {i \in DOMAIN sig.out : isErrorType(sig.out[i])}
    IN IF errors = {} THEN -1 ELSE Min(errors)

\* What suitableCallbacks accepts as a subscription, and what as a method.
IsSubscription(sig) ==
    isPubSub(sig) /\ \A t \in Range(ArgTypes(sig)) : isExportedOrBuiltinType(t)

IsCallback(sig) ==
    /\ ~isPubSub(sig)
    /\ \A t \in Range(ArgTypes(sig)) \cup Range(sig.out) : isExportedOrBuiltinType(t)
    /\ ErrPos(sig) \in {-1, Len(sig.out)}
    /\ Len(sig.out) <= 2
    /\ Len(sig.out) = 2 => ErrPos(sig) = 2

formatName(name) == [name EXCEPT ![1] = LowerFirst[@]]

Suits(table, sig) == IF table = "callbacks" THEN IsCallback(sig) ELSE IsSubscription(sig)

\* The callbacks of API number i that belong into a table, by exposed name.
Collect(i, table) ==
    LET methods == Apis[i].methods
        names == {m \in DOMAIN methods : Suits(table, methods[m])}
    IN [n \in {formatName(m) : m \in names} |->
          [api |-> i, sig |-> methods[CHOOSE m \in names : formatName(m) = n]]]

suitableCallbacks(i) == [table \in Tables |-> Collect(i, table)]

-----------------------------------------------------------------------------
(* Registration *)

NoMethods == [n \in {} |-> {}]
RpcModules == [api |-> 0, sig |-> [in |-> << >>, out |-> <<"val">>, variadic |-> FALSE]]

\* NewServer registers the metadata service "rpc".
NewServer ==
    [n \in {<<"rpc">>} |-> [callbacks |-> [m \in {<<"modules">>} |-> RpcModules],
                            subscriptions |-> NoMethods]]

\* Entries of a map written over those of another.
Merge(new, old) ==
    [n \in DOMAIN new \cup DOMAIN old |-> IF n \in DOMAIN new THEN new[n] ELSE old[n]]

\* RegisterName returns an error: no name, unexported receiver, no methods.
Unregistrable(i) ==
    \/ Apis[i].namespace = << >>
    \/ ~Apis[i].exported
    \/ \A table \in Tables : suitableCallbacks(i)[table] = NoMethods

\* Faulty variant: the second API of a namespace replaces the first.
BadRegisterName(s, i) == Merge([n \in {Apis[i].namespace} |-> suitableCallbacks(i)], s)
RegisterName(s, i) ==
    LET name == Apis[i].namespace
        new == suitableCallbacks(i)
        svc == IF name \in DOMAIN s
               THEN [table \in Tables |-> Merge(new[table], s[name][table])]
               ELSE new
    IN Merge([n \in {name} |-> svc], s)

Listed(w, i) == Apis[i].namespace \in w \/ (w = {} /\ Apis[i].public)

Nothing == [msg |-> << >>, ws |-> FALSE, out |-> << >>]

Init ==
    /\ whitelist \in Whitelists
    /\ state = "down"
    /\ at = 1
    /\ services = NewServer
    /\ last = Nothing

\* One round of the loop of StartHTTPEndpoint or StartWSEndpoint over the
\* APIs: the first that cannot be registered makes the start fail.
Register ==
    /\ state = "down" /\ at \in DOMAIN Apis
    /\ \/ /\ ~Listed(whitelist, at)
          /\ at' = at + 1
          /\ UNCHANGED <<state, services>>
       \/ /\ Listed(whitelist, at) /\ Unregistrable(at)
          /\ state' = "failed"
          /\ UNCHANGED <<at, services>>
       \/ /\ Listed(whitelist, at) /\ ~Unregistrable(at)
          /\ services' = RegisterName(services, at)
          /\ at' = at + 1
          /\ UNCHANGED state
    /\ UNCHANGED <<whitelist, last>>

\* The rest of StartHTTPEndpoint and StartWSEndpoint: net.Listen may fail.
Listen ==
    /\ state = "down" /\ at \notin DOMAIN Apis
    /\ state' \in {"up", "failed"}
    /\ UNCHANGED <<whitelist, at, services, last>>

-----------------------------------------------------------------------------
(* The codec *)

Suffix(name, part) == Len(name) >= 2 /\ Last(name) = part

\* A request as the codec returns it, and the refusal of a whole message.
Header(isPubSub_, service, method, params, err) ==
    [isPubSub |-> isPubSub_, service |-> service, method |-> method,
     params |-> params, err |-> err]
Parsed(reqs) == [err |-> "", reqs |-> reqs]
Refused(code) == [err |-> code, reqs |-> << >>]

checkReqId(r) == r.id \in {"number", "string", "null"}

\* Unmarshal of the params into [1]string: null and a missing element leave
\* the empty string, further elements are ignored.
SubscribeMethod(p) ==
    CASE p.kind = "null" -> <<"">>
      [] p.kind = "array" -> IF p.vals = << >> \/ p.vals[1].kind = "null"
                             THEN <<"">> ELSE p.vals[1].text
IsSubscribeMethod(p) ==
    \/ p.kind = "null"
    \/ p.kind = "array" /\ (p.vals = << >> \/ p.vals[1].kind \in {"null", "string"})

parseRequest(r) ==
    CASE ~r.object \/ ~checkReqId(r) -> Refused("InvalidMessage")
      [] r.object /\ checkReqId(r) /\ Suffix(r.method, "subscribe") ->
           IF IsSubscribeMethod(r.params)
           THEN Parsed(<<Header(TRUE, Front(r.method), SubscribeMethod(r.params), r.params, "")>>)
           ELSE Refused("InvalidRequest")
      [] r.object /\ checkReqId(r) /\ Suffix(r.method, "unsubscribe") ->
           Parsed(<<Header(TRUE, << >>, r.method, r.params, "")>>)
      [] OTHER ->
           IF Len(r.method) # 2
           THEN Refused("MethodNotFound")
           ELSE Parsed(<<Header(FALSE, <<r.method[1]>>, <<r.method[2]>>, r.params, "")>>)

\* One element of a batch; the err of a Refused one is that of the batch.
\* Faulty variant: a subscription keeps the name of its request.
BadBatchElement(r) ==
    CASE Suffix(r.method, "subscribe") ->
           Header(TRUE, Front(r.method), r.method, r.params, "")
      [] Suffix(r.method, "unsubscribe") -> Header(TRUE, << >>, r.method, r.params, "")
      [] OTHER -> IF Len(r.method) = 2
                  THEN Header(FALSE, <<r.method[1]>>, <<r.method[2]>>, r.params, "")
                  ELSE Header(FALSE, << >>, << >>, r.params, "MethodNotFound")
BatchElement(r) ==
    CASE Suffix(r.method, "subscribe") ->
           Header(TRUE, Front(r.method), SubscribeMethod(r.params), r.params, "")
      [] Suffix(r.method, "unsubscribe") -> Header(TRUE, << >>, r.method, r.params, "")
      [] OTHER -> IF Len(r.method) = 2
                  THEN Header(FALSE, <<r.method[1]>>, <<r.method[2]>>, r.params, "")
                  ELSE Header(FALSE, << >>, << >>, r.params, "MethodNotFound")

\* parseBatchRequest: the elements in order, until one rejects the batch.
parseBatchRequest(rs) ==
    LET badId(i) == ~checkReqId(rs[i])
        badSub(i) == Suffix(rs[i].method, "subscribe") /\ ~IsSubscribeMethod(rs[i].params)
        bad == {i \in DOMAIN rs : badId(i) \/ badSub(i)}
    IN CASE \E i \in DOMAIN rs : ~rs[i].object -> Refused("InvalidMessage")
         [] (\A i \in DOMAIN rs : rs[i].object) /\ bad # {} ->
              Refused(IF badId(Min(bad)) THEN "InvalidMessage" ELSE "InvalidRequest")
         [] OTHER -> Parsed([i \in DOMAIN rs |-> BatchElement(rs[i])])

\* ReadRequestHeaders of a message the transport cut off or never completed
\* is a decoding error.
ReadRequestHeaders(msg, cut) ==
    CASE cut \/ msg.size = "empty" -> Refused("InvalidRequest")
      [] ~cut /\ msg.size # "empty" /\ msg.isBatch -> parseBatchRequest(msg.reqs)
      [] OTHER -> parseRequest(msg.reqs[1])

\* Decode of a JSON value into a Go type; null leaves the zero value.
Decodes(v, t) ==
    \/ v.kind = "null"
    \/ v.kind = "string" /\ t = "string"
    \/ v.kind = "number" /\ t \in {"int", "*int"}
    \/ v.kind = "list" /\ t \in Slices
Optional(t) == t \in {"*int", "*ctx"}

\* parsePositionalArguments succeeds; the arguments it then returns have
\* exactly the types asked for, missing ones being nil pointers.
Parses(p, types) ==
    /\ p.kind = "array"
    /\ Len(p.vals) <= Len(types)
    /\ \A i \in DOMAIN p.vals : Decodes(p.vals[i], types[i])
    /\ \A i \in Len(p.vals) + 1 .. Len(types) : Optional(types[i])

-----------------------------------------------------------------------------
(* The server *)

Failed(code) == [kind |-> "error", err |-> code]
NoCallback == [api |-> -1, sig |-> << >>]
Unsubscribe(args) == [kind |-> "unsubscribe", callb |-> NoCallback, args |-> args]
Routed(kind, callb, args) == [kind |-> kind, callb |-> callb, args |-> args]

\* Arguments for a callback with the given parsed types, of which the first
\* skip are not its own.  No argument is parsed for a method that has none.
Arguments(kind, callb, p, types, skip) ==
    CASE p.kind = "none" \/ ArgTypes(callb.sig) = << >> -> Routed(kind, callb, << >>)
      [] p.kind # "none" /\ ArgTypes(callb.sig) # << >> /\ Parses(p, types) ->
           Routed(kind, callb, SubSeq(types, skip + 1, Len(types)))
      [] OTHER -> Failed("InvalidParams")

\* One request of readRequest: an error, or what to call with which types.
\* Faulty variant: subscriptions are looked up among the methods.
BadReadRequest(s, h) ==
    IF h.err = "" /\ h.service \in DOMAIN s /\ h.method \in DOMAIN s[h.service].callbacks
    THEN LET callb == s[h.service].callbacks[h.method]
         IN Arguments("call", callb, h.params, ArgTypes(callb.sig), 0)
    ELSE Failed("MethodNotFound")
readRequest(s, h) ==
    CASE h.err # "" -> Failed(h.err)
      [] h.err = "" /\ h.isPubSub /\ Suffix(h.method, "unsubscribe") ->
           IF Parses(h.params, <<"string">>) THEN Unsubscribe(<<"string">>)
                                             ELSE Failed("InvalidParams")
      [] OTHER ->
           IF h.service \notin DOMAIN s THEN Failed("MethodNotFound")
           ELSE LET table == IF h.isPubSub THEN s[h.service].subscriptions
                                           ELSE s[h.service].callbacks
                    callb == table[h.method]
                IN IF h.method \notin DOMAIN table THEN Failed("MethodNotFound")
                   ELSE IF h.isPubSub
                   THEN Arguments("subscribe", callb, h.params,
                                  <<"string">> \o ArgTypes(callb.sig), 1)
                   ELSE Arguments("call", callb, h.params, ArgTypes(callb.sig), 0)

\* handle: the answer to an error, the call of the notifier, or the types of
\* the arguments that Func.Call gets after the receiver.
\* Faulty variant: the number of arguments is not compared.
BadHandle(q, notifier) ==
    IF q.kind \in {"error", "unsubscribe"} THEN q
    ELSE Routed(q.kind, q.callb, (IF HasCtx(q.callb.sig) THEN <<"ctx">> ELSE << >>) \o q.args)
handle(q, notifier) ==
    CASE q.kind = "error" -> q
      [] q.kind = "unsubscribe" -> IF notifier THEN q ELSE Failed("Callback")
      [] q.kind = "subscribe" -> Routed(q.kind, q.callb, <<"ctx">> \o q.args)
      [] q.kind = "call" ->
           IF Len(q.args) # Len(ArgTypes(q.callb.sig)) THEN Failed("InvalidParams")
           ELSE Routed(q.kind, q.callb,
                       (IF HasCtx(q.callb.sig) THEN <<"ctx">> ELSE << >>) \o q.args)

\* exec and execBatch: one outcome per request, in order.
Outcomes(s, hs, notifier) ==
    [i \in DOMAIN hs |-> handle(readRequest(s, hs[i]), notifier)]

-----------------------------------------------------------------------------
(* The front ends *)

\* ServeHTTP answers a health check with nothing, validateRequest refuses.
HealthCheck(f, msg) ==
    f.verb = "GET" /\ f.length = "declared" /\ msg.size = "empty" /\ ~f.query
validateRequest(f, msg) ==
    /\ f.verb # "PUT"
    /\ ~(f.length = "declared" /\ msg.size = "large")
    /\ f.verb = "OPTIONS" \/ f.json

\* The body is read through a LimitReader, a websocket frame is limited by
\* MaxPayloadBytes.
Cut(f, msg) == msg.size = "large"

\* A message that is served: over HTTP by ServeSingleRequest without a
\* notifier, over a websocket by ServeCodec with one.
Serve(f, msg) ==
    LET headers == ReadRequestHeaders(msg, Cut(f, msg))
    IN /\ state = "up"
       /\ last = Nothing
       /\ f.ws \/ (~HealthCheck(f, msg) /\ validateRequest(f, msg))
       /\ last' = [msg |-> msg, ws |-> f.ws,
                   out |-> IF headers.err # "" THEN <<Failed(headers.err)>>
                           ELSE Outcomes(services, headers.reqs, f.ws)]
       /\ UNCHANGED <<whitelist, state, at, services>>

\* The answer has been written and the next message can be read.
Answered ==
    /\ last # Nothing
    /\ last' = Nothing
    /\ UNCHANGED <<whitelist, state, at, services>>

Next ==
    \/ Register
    \/ Listen
    \/ \E f \in Fronts, msg \in Messages : Serve(f, msg)
    \/ Answered

Spec == Init /\ [][Next]_vars

-----------------------------------------------------------------------------
(* Properties *)

Invoked(o) == o.kind \in {"call", "subscribe"}

\* A signature that suitableCallbacks accepts although the server cannot call
\* it or take its results apart: a subscription that wants a pointer to a
\* context or returns a Subscription by value; an error that cannot be nil, so
\* that IsNil panics, or that is no error as it is, so that the conversion
\* panics; variadic parameters whose slice is not one of its own elements.
Uncallable(sig) ==
    \/ isPubSub(sig) /\ (sig.in[1] = "*ctx" \/ sig.out[1] = "sub")
    \/ sig.out # << >> /\ Last(sig.out) \in {"errstruct", "*error"}
    \/ sig.variadic /\ Last(sig.in) # "[]any"

\* Func.Call (external): a variadic method takes every argument from its last
\* parameter on as one element of that slice.
Elem(t) == IF t = "[]any" THEN "any" ELSE "int"
Wanted(sig, i) ==
    IF sig.variadic /\ i >= Len(sig.in) THEN Elem(Last(sig.in)) ELSE sig.in[i]
AssignableTo(t, u) == t = u \/ u = "any"
Call(sig, args) ==
    /\ IF sig.variadic THEN Len(args) >= Len(sig.in) - 1 ELSE Len(args) = Len(sig.in)
    /\ \A i \in DOMAIN args : AssignableTo(args[i], Wanted(sig, i))

\* Func.Call and what the server does with its results do not panic, whatever
\* results of their types the method returns.
Fits(o) ==
    /\ Call(o.callb.sig, o.args)
    /\ o.kind = "subscribe" => o.callb.sig.out = <<"*sub", "error">>
    /\ o.kind = "call" /\ ErrPos(o.callb.sig) > 0 => Last(o.callb.sig.out) = "error"

\* Whatever arguments a client sends, a method gets arguments it can be called
\* with and has results the server can take apart, unless its signature is
\* one of the five uncallable kinds that registration lets through, and those
\* panic (handle, createSubscription).
CallsFit ==
    \A i \in DOMAIN last.out :
        Invoked(last.out[i]) => (Fits(last.out[i]) <=> ~Uncallable(last.out[i].callb.sig))

\* The APIs an endpoint lists with a method for the name m of a table.
Owners(n, table, m) ==
    {i \in DOMAIN Apis :
        /\ Listed(whitelist, i) /\ Apis[i].namespace = n
        /\ \E g \in DOMAIN Apis[i].methods : formatName(g) = m /\ Suits(table, Apis[i].methods[g])}

\* What the name m of a table stands for: the method of the last of its owners.
Exposed(n, table) == IF n \in DOMAIN services THEN services[n][table] ELSE NoMethods
ExposesLast(n, table, m) ==
    LET callbs == Exposed(n, table)
    IN /\ m \in DOMAIN callbs <=> Owners(n, table, m) # {}
       /\ m \in DOMAIN callbs =>
            /\ callbs[m].api = Max(Owners(n, table, m))
            /\ \E g \in DOMAIN Apis[callbs[m].api].methods :
                 formatName(g) = m /\ callbs[m].sig = Apis[callbs[m].api].methods[g]

\* An endpoint that is up exposes every suitable method of every API its
\* module list admits, the later of two with the same name, and no other
\* method but those of the metadata service (endpoint.go, RegisterName).
ExposesExactly ==
    state = "up" /\ last = Nothing =>
        LET spaces == DOMAIN services \cup {Apis[i].namespace : i \in DOMAIN Apis}
            names == UNION {{formatName(g) : g \in DOMAIN Apis[i].methods} : i \in DOMAIN Apis}
        IN \A n \in spaces \ {<<"rpc">>}, table \in Tables :
             \A m \in names \cup DOMAIN Exposed(n, table) : ExposesLast(n, table, m)

Single(r) == [size |-> "small", isBatch |-> FALSE, reqs |-> <<r>>]
Request(method, params) ==
    [object |-> TRUE, id |-> "number", method |-> method, params |-> params]
Null == [kind |-> "null", text |-> << >>]
Array(vals) == [kind |-> "array", vals |-> vals]
Ask(r, notifier) ==
    LET h == ReadRequestHeaders(Single(r), FALSE)
    IN IF h.err # "" THEN Failed(h.err) ELSE Outcomes(services, h.reqs, notifier)[1]

\* A request with null for each of k arguments gets through to a method of API
\* number i or of a later one.
Nulls(k) == [j \in 1..k |-> Null]
Answers(r, kind, i) == LET o == Ask(r, TRUE) IN o.kind = kind /\ o.callb.api >= i
CallRequest(n, m, k) == Request(n \o m, Array(Nulls(k)))
SubscribeRequest(n, m, k) ==
    Request(Append(n, "subscribe"), Array(<<[kind |-> "string", text |-> m]>> \o Nulls(k)))
ArgCounts ==
    UNION {{Len(ArgTypes(Apis[i].methods[g])) : g \in DOMAIN Apis[i].methods} : i \in DOMAIN Apis}

\* Every suitable method of an exposed API answers the request made of its
\* namespace and its name in lower case, with null for each argument, and
\* every suitable subscription the request namespace_subscribe with that name
\* as first parameter, if a later API of the namespace has not taken the name
\* over; except what the wire syntax cannot name: a method with an underscore
\* in a name or one called Subscribe or Unsubscribe, a subscription whose name
\* ends in _unsubscribe (RegisterName and formatName against parseRequest and
\* readRequest).
Reachable ==
    state = "up" /\ last = Nothing =>
        \A i \in {i \in DOMAIN Apis : Listed(whitelist, i)} : \A g \in DOMAIN Apis[i].methods :
            LET sig == Apis[i].methods[g]
                n == Apis[i].namespace
                m == <<LowerFirst[g[1]]>> \o Tail(g)
            IN /\ IsCallback(sig) /\ Len(n \o m) = 2 /\ m[1] \notin {"subscribe", "unsubscribe"} =>
                    \E k \in ArgCounts : Answers(CallRequest(n, m, k), "call", i)
               /\ IsSubscription(sig) /\ ~Suffix(m, "unsubscribe") =>
                    \E k \in ArgCounts : Answers(SubscribeRequest(n, m, k), "subscribe", i)

\* What the requests of the message being served would get one by one.
Alone == [i \in DOMAIN last.msg.reqs |-> Ask(last.msg.reqs[i], last.ws)]

\* parseBatchRequest repeats parseRequest: every element of a batch that is
\* served gets what it would get alone, in the same place, and a batch is
\* refused as a whole for what one of its elements is refused for alone.
BatchAgrees ==
    last # Nothing /\ last.msg.isBatch /\ last.msg.size = "small" =>
        \/ last.out = Alone
        \/ /\ Len(last.out) = 1 /\ last.out[1].kind = "error"
           /\ \E i \in DOMAIN Alone : Alone[i] = last.out[1]
           /\ last.out[1].err \in {"InvalidMessage", "InvalidRequest"}
=============================================================================
