--------------------------- MODULE DispatchProofs ---------------------------
(***************************************************************************)
(* Proofs about Dispatch for any APIs, module lists, front ends and        *)
(* messages.                                                               *)
(***************************************************************************)
EXTENDS Dispatch, SequenceTheorems, WellFoundedInduction, TLAPS

-----------------------------------------------------------------------------
(* The operators the model is built from *)

\* The least index of a set.
LEMMA MinIndex ==
    ASSUME NEW S \in SUBSET Nat, S # {}
    PROVE  Min(S) \in S /\ \A n \in S : Min(S) <= n
<1> DEFINE R == OpToRel(<, Nat)
<1>1. IsWellFoundedOn(R, Nat)
  BY NatLessThanWellFounded, Zenon
<1>2. \A m, n \in Nat : <<m, n>> \in R <=> m < n
  BY DEF OpToRel
<1> HIDE DEF R
<1>3. PICK n \in S : \A m \in S : ~ (<<m, n>> \in R)
  BY <1>1, WFMin
<1>4. ASSUME NEW m \in S PROVE n <= m
  <2>1. m \in Nat /\ n \in Nat
    OBVIOUS
  <2>2. ~(m < n)
    BY <1>2, <1>3, <2>1, Zenon
  <2> QED BY <2>1, <2>2
<1> QED BY <1>4 DEF Min

\* The only greatest element of a set is its maximum.
LEMMA MaxIndex ==
    ASSUME NEW S \in SUBSET Nat, NEW n \in S, \A m \in S : m <= n
    PROVE  Max(S) = n
<1>1. \A m \in S : (\A k \in S : m >= k) <=> m = n
  OBVIOUS
<1> QED BY <1>1 DEF Max

\* Where a method returns no error but in the last place, that place decides.
LEMMA ErrPosLast ==
    ASSUME NEW sig \in Signature, ErrPos(sig) \in {-1, Len(sig.out)}
    PROVE  ErrPos(sig) > 0 <=> sig.out # << >> /\ isErrorType(Last(sig.out))
<1> DEFINE errors == {i \in DOMAIN sig.out : isErrorType(sig.out[i])}
<1>1. sig.out \in Seq(OutTypes) /\ DOMAIN sig.out = 1..Len(sig.out) /\ Len(sig.out) \in Nat
  BY DEF Signature
<1>2. errors \in SUBSET Nat
  BY <1>1
<1>3. ErrPos(sig) = IF errors = {} THEN -1 ELSE Min(errors)
  BY DEF ErrPos
<1>4. sig.out # << >> => Last(sig.out) = sig.out[Len(sig.out)] /\ Len(sig.out) \in 1..Len(sig.out)
  BY <1>1 DEF Last
<1>5. CASE errors = {}
  BY <1>1, <1>3, <1>4, <1>5
<1>6. CASE errors # {}
  <2>1. Min(errors) \in errors
    BY <1>2, <1>6, MinIndex
  <2>2. Min(errors) \in 1..Len(sig.out) /\ Min(errors) = Len(sig.out)
    BY <1>1, <1>3, <1>6, <2>1
  <2>3. isErrorType(sig.out[Len(sig.out)])
    BY <2>1, <2>2
  <2>4. sig.out # << >>
    BY <1>1, <2>2
  <2> QED BY <1>3, <1>4, <1>6, <2>2, <2>3, <2>4
<1> QED BY <1>5, <1>6

\* The own arguments of a method, with the context in front of them, are its
\* parameters.
LEMMA ArgTypesOf ==
    ASSUME NEW sig \in Signature
    PROVE  /\ ArgTypes(sig) \in Seq(InTypes)
           /\ HasCtx(sig) => <<"ctx">> \o ArgTypes(sig) = sig.in
           /\ ~HasCtx(sig) => << >> \o ArgTypes(sig) = sig.in
<1>1. sig.in \in Seq(InTypes)
  BY DEF Signature
<1>2. CASE HasCtx(sig)
  <2>1. sig.in # << >> /\ sig.in[1] = "ctx"
    BY <1>1, <1>2 DEF HasCtx
  <2>2. <<sig.in[1]>> \o Tail(sig.in) = sig.in
    BY <1>1, <2>1
  <2> QED BY <1>1, <1>2, <2>1, <2>2 DEF ArgTypes
<1>3. CASE ~HasCtx(sig)
  BY <1>1, <1>3 DEF ArgTypes
<1> QED BY <1>2, <1>3

\* What Arguments returns: an error, or a call with all arguments of the
\* types or, where none were sent or none are wanted, without arguments.
LEMMA ArgumentsResult ==
    ASSUME NEW kind, NEW callb, NEW p, NEW types, NEW skip
    PROVE  LET q == Arguments(kind, callb, p, types, skip) IN
           \/ q = Failed("InvalidParams")
           \/ q = Routed(kind, callb, << >>) /\ (p.kind = "none" \/ ArgTypes(callb.sig) = << >>)
           \/ /\ q = Routed(kind, callb, SubSeq(types, skip + 1, Len(types)))
              /\ p.kind # "none" /\ ArgTypes(callb.sig) # << >>
BY DEF Arguments

-----------------------------------------------------------------------------
(* Calls fit *)

\* The last parameter of a variadic method is a slice.
VariadicOK(sig) == sig.variadic => sig.in # << >> /\ Last(sig.in) \in Slices

\* Func.Call with arguments of exactly the parameter types panics only for
\* a variadic method whose slice is not one of its own elements.
LEMMA CallOwnTypes ==
    ASSUME NEW sig \in Signature, VariadicOK(sig)
    PROVE  Call(sig, sig.in) <=> ~(sig.variadic /\ Last(sig.in) # "[]any")
<1>1. sig.in \in Seq(InTypes) /\ DOMAIN sig.in = 1..Len(sig.in) /\ Len(sig.in) \in Nat
  BY DEF Signature
<1>2. CASE ~sig.variadic
  BY <1>1, <1>2 DEF Call, Wanted, AssignableTo
<1>3. CASE sig.variadic
  <2>1. Len(sig.in) \in 1..Len(sig.in) /\ Last(sig.in) = sig.in[Len(sig.in)]
    BY <1>1, <1>3 DEF VariadicOK, Last
  <2>2. \A i \in 1..Len(sig.in) : i # Len(sig.in) => AssignableTo(sig.in[i], Wanted(sig, i))
    BY <1>1 DEF Wanted, AssignableTo
  <2>3. Wanted(sig, Len(sig.in)) = Elem(Last(sig.in))
    BY <1>1, <1>3 DEF Wanted
  <2>4. AssignableTo(Last(sig.in), Elem(Last(sig.in))) <=> Last(sig.in) = "[]any"
    BY <1>3 DEF VariadicOK, Slices, Elem, AssignableTo
  <2>5. Len(sig.in) >= Len(sig.in) - 1
    BY <1>1
  <2>6. Call(sig, sig.in) <=> \A i \in 1..Len(sig.in) : AssignableTo(sig.in[i], Wanted(sig, i))
    BY <1>1, <1>3, <2>5 DEF Call
  <2> HIDE DEF Wanted, AssignableTo
  <2> QED BY <1>3, <2>1, <2>2, <2>3, <2>4, <2>6
<1> QED BY <1>2, <1>3

\* A method that wants a pointer to a context cannot be called with a context
\* before its own arguments.
LEMMA CallPointer ==
    ASSUME NEW sig \in Signature, VariadicOK(sig), Len(sig.in) >= 1, sig.in[1] = "*ctx"
    PROVE  ~Call(sig, <<"ctx">> \o sig.in)
<1>1. sig.in \in Seq(InTypes) /\ Len(sig.in) \in Nat
  BY DEF Signature
<1> DEFINE args == <<"ctx">> \o sig.in
<1>2. Len(args) = Len(sig.in) + 1 /\ 1 \in DOMAIN args /\ args[1] = "ctx"
  BY <1>1
<1> HIDE DEF args
<1>3. CASE ~sig.variadic
  BY <1>1, <1>2, <1>3 DEF Call, args
<1>4. CASE sig.variadic
  <2>1. Len(sig.in) # 1
    BY <1>4 DEF VariadicOK, Last, Slices
  <2>2. ~(1 >= Len(sig.in))
    <3>1. \A n \in Nat : n >= 1 /\ n # 1 => ~(1 >= n)
      OBVIOUS
    <3> QED BY <1>1, <2>1, <3>1, Zenon
  <2>3. Wanted(sig, 1) = "*ctx"
    BY <2>2, Zenon DEF Wanted
  <2>4. ~AssignableTo(args[1], Wanted(sig, 1))
    BY <1>2, <2>3 DEF AssignableTo
  <2> QED BY <1>2, <2>4 DEF Call, args
<1> QED BY <1>3, <1>4

\* A method that handle calls gets its parameters.
LEMMA CallFits ==
    ASSUME NEW callb, callb.sig \in Signature, VariadicOK(callb.sig), IsCallback(callb.sig),
           NEW p, NEW notifier,
           NEW o, o = handle(Arguments("call", callb, p, ArgTypes(callb.sig), 0), notifier),
           Invoked(o)
    PROVE  Fits(o) <=> ~Uncallable(o.callb.sig)
<1> DEFINE types == ArgTypes(callb.sig)
           q == Arguments("call", callb, p, types, 0)
           ctx == IF HasCtx(callb.sig) THEN <<"ctx">> ELSE << >>
<1>1. types \in Seq(InTypes) /\ ctx \o types = callb.sig.in
  BY ArgTypesOf
<1>2. SubSeq(types, 0 + 1, Len(types)) = types
  BY <1>1
<1>3. \/ q = Failed("InvalidParams")
      \/ q = Routed("call", callb, << >>)
      \/ q = Routed("call", callb, types)
  BY <1>2 DEF Arguments
<1>4. q # Failed("InvalidParams")
  BY DEF handle, Failed, Invoked
<1>5. /\ q.kind = "call" /\ q.callb = callb
      /\ q.args = << >> \/ q.args = types
  BY <1>3, <1>4 DEF Routed
<1>6. Len(q.args) = Len(types) => q.args = types
  BY <1>1, <1>5
<1>7. o = Routed("call", callb, callb.sig.in)
  <2> HIDE DEF q, types
  <2>1. CASE Len(q.args) # Len(types)
    <3>1. o = Failed("InvalidParams")
      BY <1>5, <2>1 DEF handle, q, types
    <3> QED BY <3>1 DEF Failed, Invoked
  <2>2. CASE Len(q.args) = Len(types)
    <3>1. o = Routed("call", callb, ctx \o q.args)
      BY <1>5, <2>2 DEF handle, q, types
    <3> QED BY <1>1, <1>6, <2>2, <3>1
  <2> QED BY <2>1, <2>2
<1>8. o.kind = "call" /\ o.callb = callb /\ o.args = callb.sig.in
  BY <1>7 DEF Routed
<1>9. /\ ~isPubSub(callb.sig)
      /\ ErrPos(callb.sig) > 0
           <=> callb.sig.out # << >> /\ isErrorType(Last(callb.sig.out))
  BY ErrPosLast DEF IsCallback
<1>10. Call(callb.sig, callb.sig.in) <=> ~(callb.sig.variadic /\ Last(callb.sig.in) # "[]any")
  BY CallOwnTypes
<1> QED BY <1>8, <1>9, <1>10 DEF Fits, Uncallable, isErrorType

\* A subscription that handle creates gets its parameters, if the request has
\* some, unless it wants a pointer to a context.
LEMMA SubscribeFits ==
    ASSUME NEW callb, callb.sig \in Signature, VariadicOK(callb.sig), IsSubscription(callb.sig),
           NEW p, p.kind # "none", NEW notifier, NEW o,
           o = handle(Arguments("subscribe", callb, p, <<"string">> \o ArgTypes(callb.sig), 1), notifier),
           Invoked(o)
    PROVE  Fits(o) <=> ~Uncallable(o.callb.sig)
<1> DEFINE sig == callb.sig
           types == ArgTypes(sig)
           q == Arguments("subscribe", callb, p, <<"string">> \o types, 1)
<1>1. types \in Seq(InTypes) /\ sig.in \in Seq(InTypes) /\ sig.out \in Seq(OutTypes)
  BY ArgTypesOf DEF Signature
<1>2. SubSeq(<<"string">> \o types, 1 + 1, Len(<<"string">> \o types)) = types
  BY <1>1
<1>3. q = Failed("InvalidParams") \/ q = Routed("subscribe", callb, types)
  BY <1>2, ArgumentsResult
<1>4. q # Failed("InvalidParams")
  BY DEF handle, Failed, Invoked
<1>5. o = Routed("subscribe", callb, <<"ctx">> \o types)
  <2>1. q.kind = "subscribe" /\ q.callb = callb /\ q.args = types
    BY <1>3, <1>4 DEF Routed
  <2> HIDE DEF q, types
  <2> QED BY <2>1 DEF handle, q, types
<1>6. o.kind = "subscribe" /\ o.callb = callb /\ o.args = <<"ctx">> \o types
  BY <1>5 DEF Routed
<1>7. /\ Len(sig.in) >= 1 /\ Len(sig.out) = 2
      /\ sig.in[1] \in {"ctx", "*ctx"}
      /\ sig.out[1] \in {"sub", "*sub"} /\ sig.out[2] \in {"error", "errstruct", "*error"}
  BY DEF IsSubscription, isPubSub, isContextType, isSubscriptionType, isErrorType
<1>8. Call(sig, o.args)
         <=> sig.in[1] = "ctx" /\ ~(sig.variadic /\ Last(sig.in) # "[]any")
  <2>1. CASE sig.in[1] = "ctx"
    <3>1. o.args = sig.in
      BY <1>6, <1>7, <2>1, ArgTypesOf DEF HasCtx
    <3> QED BY <2>1, <3>1, CallOwnTypes
  <2>2. CASE sig.in[1] = "*ctx"
    <3>1. o.args = <<"ctx">> \o sig.in
      BY <1>6, <2>2 DEF ArgTypes, HasCtx
    <3> QED BY <1>7, <2>2, <3>1, CallPointer
  <2> QED BY <1>7, <2>1, <2>2
<1>9. sig.out = <<"*sub", "error">> <=> sig.out[1] = "*sub" /\ sig.out[2] = "error"
  BY <1>1, <1>7
<1>10. sig.out # << >> /\ Last(sig.out) = sig.out[2]
  BY <1>1, <1>7 DEF Last
<1>11. isPubSub(sig)
  BY DEF IsSubscription
<1> QED BY <1>6, <1>7, <1>8, <1>9, <1>10, <1>11 DEF Fits, Uncallable

\* What the codec guarantees of a request: a subscription has parameters.
HeaderOK(h) ==
    h.err = "" /\ h.isPubSub /\ ~Suffix(h.method, "unsubscribe") => h.params.kind # "none"

\* The tables of the services hold suitable methods only.
SuitedInv ==
    \A n \in DOMAIN services, table \in Tables : \A m \in DOMAIN services[n][table] :
        LET sig == services[n][table][m].sig
        IN  sig \in Signature /\ VariadicOK(sig) /\ Suits(table, sig)

\* Whatever a request says, what comes of it fits.
LEMMA RequestFits ==
    ASSUME SuitedInv, NEW h, h.isPubSub \in BOOLEAN, HeaderOK(h), NEW notifier,
           NEW o, o = handle(readRequest(services, h), notifier), Invoked(o)
    PROVE  Fits(o) <=> ~Uncallable(o.callb.sig)
<1> DEFINE q == readRequest(services, h)
           table == IF h.isPubSub THEN "subscriptions" ELSE "callbacks"
           callb == services[h.service][table][h.method]
<1>1. q.kind \notin {"error", "unsubscribe"}
  BY DEF handle, Failed, Invoked
<1>2. h.err = "" /\ ~(h.isPubSub /\ Suffix(h.method, "unsubscribe"))
  BY <1>1 DEF readRequest, Failed, Unsubscribe
<1>3. h.service \in DOMAIN services
  BY <1>1, <1>2 DEF readRequest, Failed
<1>4. h.method \in DOMAIN services[h.service][table]
  BY <1>1, <1>2, <1>3 DEF readRequest, Failed
<1>5. callb.sig \in Signature /\ VariadicOK(callb.sig) /\ Suits(table, callb.sig)
  BY <1>3, <1>4 DEF SuitedInv, Tables
<1>6. CASE h.isPubSub
  <2>1. q = Arguments("subscribe", callb, h.params, <<"string">> \o ArgTypes(callb.sig), 1)
    BY <1>2, <1>3, <1>4, <1>6 DEF readRequest
  <2>2. IsSubscription(callb.sig)
    BY <1>5, <1>6 DEF Suits
  <2>3. h.params.kind # "none"
    BY <1>2, <1>6 DEF HeaderOK
  <2> QED BY <1>5, <2>1, <2>2, <2>3, SubscribeFits
<1>7. CASE ~h.isPubSub
  <2>1. q = Arguments("call", callb, h.params, ArgTypes(callb.sig), 0)
    BY <1>2, <1>3, <1>4, <1>7 DEF readRequest
  <2>2. IsCallback(callb.sig)
    BY <1>5, <1>7 DEF Suits
  <2> QED BY <1>5, <2>1, <2>2, CallFits
<1> QED BY <1>6, <1>7

\* What the codec makes of a request that it does not refuse.
LEMMA ElementHeader ==
    ASSUME NEW r
    PROVE  /\ BatchElement(r).isPubSub \in BOOLEAN
           /\ BatchElement(r).err \in {"", "MethodNotFound"}
           /\ (Suffix(r.method, "subscribe") => IsSubscribeMethod(r.params))
                => HeaderOK(BatchElement(r))
BY DEF BatchElement, Header, HeaderOK, IsSubscribeMethod

\* What a request is refused for, on its own and in a batch.
BadId(r) == ~r.object \/ ~checkReqId(r)
BadSub(r) == Suffix(r.method, "subscribe") /\ ~IsSubscribeMethod(r.params)
\* What parseRequest makes of a request, in terms of BatchElement.
LEMMA SingleHeader ==
    ASSUME NEW r
    PROVE  /\ BadId(r) => parseRequest(r) = Refused("InvalidMessage")
           /\ ~BadId(r) /\ BadSub(r) => parseRequest(r) = Refused("InvalidRequest")
           /\ ~BadId(r) /\ ~BadSub(r) /\ BatchElement(r).err # "" =>
                parseRequest(r) = Refused("MethodNotFound")
           /\ ~BadId(r) /\ ~BadSub(r) /\ BatchElement(r).err = "" =>
                parseRequest(r) = Parsed(<<BatchElement(r)>>)
<1> USE DEF BadId, BadSub
<1>1. CASE BadId(r)
  BY <1>1 DEF parseRequest
<1>2. CASE ~BadId(r) /\ Suffix(r.method, "subscribe")
  <2>1. BatchElement(r) = Header(TRUE, Front(r.method), SubscribeMethod(r.params), r.params, "")
    BY <1>2 DEF BatchElement, Suffix
  <2>2. BatchElement(r).err = ""
    BY <1>2 DEF BatchElement, Suffix, Header
  <2>3. parseRequest(r) = IF IsSubscribeMethod(r.params)
                          THEN Parsed(<<Header(TRUE, Front(r.method), SubscribeMethod(r.params), r.params, "")>>)
                          ELSE Refused("InvalidRequest")
    BY <1>2 DEF parseRequest, Suffix
  <2> QED BY <1>2, <2>1, <2>2, <2>3
<1>3. CASE ~BadId(r) /\ Suffix(r.method, "unsubscribe")
  <2>1. ~Suffix(r.method, "subscribe")
    BY <1>3 DEF Suffix
  <2>2. BatchElement(r) = Header(TRUE, << >>, r.method, r.params, "")
    BY <1>3, <2>1 DEF BatchElement
  <2>3. BatchElement(r).err = ""
    BY <1>3, <2>1 DEF BatchElement, Header
  <2>4. parseRequest(r) = Parsed(<<Header(TRUE, << >>, r.method, r.params, "")>>)
    BY <1>3, <2>1 DEF parseRequest
  <2> QED BY <1>3, <2>1, <2>2, <2>3, <2>4
<1>4. CASE ~BadId(r) /\ ~Suffix(r.method, "subscribe") /\ ~Suffix(r.method, "unsubscribe")
  <2>1. BatchElement(r) = IF Len(r.method) = 2
                          THEN Header(FALSE, <<r.method[1]>>, <<r.method[2]>>, r.params, "")
                          ELSE Header(FALSE, << >>, << >>, r.params, "MethodNotFound")
    BY <1>4 DEF BatchElement
  <2>2. BatchElement(r).err = IF Len(r.method) = 2 THEN "" ELSE "MethodNotFound"
    BY <1>4 DEF BatchElement, Header
  <2>3. parseRequest(r) = IF Len(r.method) # 2 THEN Refused("MethodNotFound")
          ELSE Parsed(<<Header(FALSE, <<r.method[1]>>, <<r.method[2]>>, r.params, "")>>)
    BY <1>4 DEF parseRequest
  <2> QED BY <1>4, <2>1, <2>2, <2>3
<1> QED BY <1>1, <1>2, <1>3, <1>4

\* A batch is refused for its first bad element, or parsed one by one.
LEMMA BatchHeaders ==
    ASSUME NEW rs, rs \in Seq(Range(rs)), \A i \in DOMAIN rs : rs[i].object \in BOOLEAN
    PROVE  \/ /\ parseBatchRequest(rs) = Refused("InvalidMessage")
              /\ \E i \in DOMAIN rs : BadId(rs[i])
           \/ /\ parseBatchRequest(rs) = Refused("InvalidRequest")
              /\ \E i \in DOMAIN rs : ~BadId(rs[i]) /\ BadSub(rs[i])
           \/ /\ parseBatchRequest(rs) = Parsed([i \in DOMAIN rs |-> BatchElement(rs[i])])
              /\ \A i \in DOMAIN rs : ~BadId(rs[i]) /\ ~BadSub(rs[i])
<1> DEFINE bad == {i \in DOMAIN rs : ~checkReqId(rs[i]) \/ BadSub(rs[i])}
<1>1. CASE \E i \in DOMAIN rs : ~rs[i].object
  BY <1>1 DEF parseBatchRequest, BadId
<1>2. CASE (\A i \in DOMAIN rs : rs[i].object) /\ bad # {}
  <2>1. bad \in SUBSET Nat
    OBVIOUS
  <2>2. Min(bad) \in bad
    BY <1>2, <2>1, MinIndex
  <2>3. parseBatchRequest(rs) =
          Refused(IF ~checkReqId(rs[Min(bad)]) THEN "InvalidMessage" ELSE "InvalidRequest")
    BY <1>2 DEF parseBatchRequest, BadSub
  <2> QED BY <1>2, <2>2, <2>3 DEF BadId
<1>3. CASE (\A i \in DOMAIN rs : rs[i].object) /\ bad = {}
  BY <1>3 DEF parseBatchRequest, BadSub, BadId
<1> QED BY <1>1, <1>2, <1>3

\* The fields of the records that the codec and the server return.
LEMMA ParsedFields == ASSUME NEW x PROVE Parsed(x).err = "" /\ Parsed(x).reqs = x
BY DEF Parsed

\* The error of a refusal.
LEMMA RefusedFields == ASSUME NEW x PROVE Refused(x).err = x
BY DEF Refused

\* The fields of a failed request.
LEMMA FailedFields == ASSUME NEW x PROVE Failed(x).kind = "error" /\ Failed(x).err = x
BY DEF Failed

\* A list of one element.
LEMMA OneElement == ASSUME NEW x PROVE DOMAIN <<x>> = {1} /\ <<x>>[1] = x
OBVIOUS

\* A message is refused as a whole, or its requests are as the codec promises.
HeadersOK(hs) == \A i \in DOMAIN hs : hs[i].isPubSub \in BOOLEAN /\ HeaderOK(hs[i])
Codes == {"InvalidMessage", "InvalidRequest", "MethodNotFound"}

\* A request on its own is refused or parsed to a proper header.
LEMMA SingleMessage ==
    ASSUME NEW r
    PROVE  \/ \E x \in Codes : parseRequest(r) = Refused(x)
           \/ \E hs : parseRequest(r) = Parsed(hs) /\ HeadersOK(hs)
<1>1. CASE BadId(r) \/ BadSub(r) \/ BatchElement(r).err # ""
  <2>1. \/ parseRequest(r) = Refused("InvalidMessage")
        \/ parseRequest(r) = Refused("InvalidRequest")
        \/ parseRequest(r) = Refused("MethodNotFound")
    BY <1>1, SingleHeader, Zenon
  <2> QED BY <2>1 DEF Codes
<1>2. CASE ~BadId(r) /\ ~BadSub(r) /\ BatchElement(r).err = ""
  <2>1. parseRequest(r) = Parsed(<<BatchElement(r)>>)
    BY <1>2, SingleHeader, Zenon
  <2>2. BatchElement(r).isPubSub \in BOOLEAN /\ HeaderOK(BatchElement(r))
    BY <1>2, ElementHeader DEF BadSub
  <2>3. HeadersOK(<<BatchElement(r)>>)
    BY <2>2, OneElement DEF HeadersOK
  <2> QED BY <2>1, <2>3
<1> QED BY <1>1, <1>2

\* A batch is refused or parsed to proper headers.
LEMMA BatchMessage ==
    ASSUME NEW rs, rs \in Seq(Range(rs)), \A i \in DOMAIN rs : rs[i].object \in BOOLEAN
    PROVE  \/ \E x \in Codes : parseBatchRequest(rs) = Refused(x)
           \/ \E hs : parseBatchRequest(rs) = Parsed(hs) /\ HeadersOK(hs)
<1> DEFINE hs == [i \in DOMAIN rs |-> BatchElement(rs[i])]
<1>1. CASE \/ parseBatchRequest(rs) = Refused("InvalidMessage")
           \/ parseBatchRequest(rs) = Refused("InvalidRequest")
  BY <1>1 DEF Codes
<1>2. CASE parseBatchRequest(rs) = Parsed(hs) /\ \A i \in DOMAIN rs : ~BadSub(rs[i])
  <2>1. HeadersOK(hs)
    BY <1>2, ElementHeader DEF HeadersOK, BadSub
  <2> QED BY <1>2, <2>1
<1> QED BY <1>1, <1>2, BatchHeaders

\* Any message is refused or parsed to proper headers.
LEMMA MessageHeaders ==
    ASSUME NEW msg \in Messages, NEW cut \in BOOLEAN
    PROVE  \/ \E x \in Codes : ReadRequestHeaders(msg, cut) = Refused(x)
           \/ \E hs : ReadRequestHeaders(msg, cut) = Parsed(hs) /\ HeadersOK(hs)
<1>1. CASE cut \/ msg.size = "empty"
  <2>1. ReadRequestHeaders(msg, cut) = Refused("InvalidRequest")
    BY <1>1 DEF ReadRequestHeaders
  <2> QED BY <2>1 DEF Codes
<1>2. CASE ~cut /\ msg.size # "empty" /\ msg.isBatch
  <2>1. ReadRequestHeaders(msg, cut) = parseBatchRequest(msg.reqs)
    BY <1>2 DEF ReadRequestHeaders
  <2> QED BY <2>1, BatchMessage, MessagesAssumption
<1>3. CASE ~cut /\ msg.size # "empty" /\ ~msg.isBatch
  <2>1. ReadRequestHeaders(msg, cut) = parseRequest(msg.reqs[1])
    BY <1>3 DEF ReadRequestHeaders
  <2> QED BY <2>1, SingleMessage
<1> QED BY <1>1, <1>2, <1>3

\* What a message leads to fits.
LEMMA ServeFits ==
    ASSUME SuitedInv, NEW f \in Fronts, NEW msg \in Messages, Serve(f, msg)
    PROVE  CallsFit'
<1> DEFINE p == ReadRequestHeaders(msg, Cut(f, msg))
<1>1. Cut(f, msg) \in BOOLEAN
  BY DEF Cut
<1>2. last'.out = IF p.err # "" THEN <<Failed(p.err)>> ELSE Outcomes(services, p.reqs, f.ws)
  BY DEF Serve
<1> HIDE DEF p
<1>3. ASSUME NEW x \in Codes, p = Refused(x) PROVE CallsFit'
  <2>1. p.err = x /\ x # ""
    BY <1>3, RefusedFields DEF Codes
  <2>2. last'.out = <<Failed(x)>>
    BY <1>2, <2>1
  <2>3. DOMAIN last'.out = {1} /\ last'.out[1].kind = "error"
    BY <2>2, FailedFields, OneElement
  <2> QED BY <2>3 DEF CallsFit, Invoked
<1>4. ASSUME NEW hs, p = Parsed(hs), HeadersOK(hs) PROVE CallsFit'
  <2>1. p.err = "" /\ p.reqs = hs
    BY <1>4, ParsedFields
  <2>2. last'.out = [i \in DOMAIN hs |-> handle(readRequest(services, hs[i]), f.ws)]
    BY <1>2, <2>1 DEF Outcomes
  <2>3. ASSUME NEW i \in DOMAIN hs, NEW o, o = handle(readRequest(services, hs[i]), f.ws), Invoked(o)
        PROVE  Fits(o) <=> ~Uncallable(o.callb.sig)
    <3>1. hs[i].isPubSub \in BOOLEAN /\ HeaderOK(hs[i])
      BY <1>4 DEF HeadersOK
    <3> QED BY <2>3, <3>1, RequestFits
  <2> QED BY <2>2, <2>3 DEF CallsFit
<1> QED BY <1>1, <1>3, <1>4, MessageHeaders DEF p

-----------------------------------------------------------------------------
(* Registration *)

\* API number i has a suitable method with the name and the signature.
Offers(i, table, m, sig) ==
    \E g \in DOMAIN Apis[i].methods :
        formatName(g) = m /\ sig = Apis[i].methods[g] /\ Suits(table, sig)

\* The callbacks of an API have the names of its suitable methods, and the
\* signature of one that has the name.
LEMMA CollectEntries ==
    ASSUME NEW i, NEW table
    PROVE  /\ DOMAIN Collect(i, table) =
                {formatName(g) : g \in {g \in DOMAIN Apis[i].methods : Suits(table, Apis[i].methods[g])}}
           /\ \A m \in DOMAIN Collect(i, table) :
                /\ Collect(i, table)[m].api = i
                /\ Offers(i, table, m, Collect(i, table)[m].sig)
<1> DEFINE names == {g \in DOMAIN Apis[i].methods : Suits(table, Apis[i].methods[g])}
           chosen(m) == CHOOSE g \in names : formatName(g) = m
           entry(m) == [api |-> i, sig |-> Apis[i].methods[chosen(m)]]
           exposed == {formatName(g) : g \in names}
<1>1. Collect(i, table) = [m \in exposed |-> entry(m)]
  BY Zenon DEF Collect
<1>2. DOMAIN Collect(i, table) = exposed
  BY <1>1, Zenon
<1>3. ASSUME NEW m \in exposed
      PROVE  /\ Collect(i, table)[m].api = i
             /\ Offers(i, table, m, Collect(i, table)[m].sig)
  <2>1. chosen(m) \in names /\ formatName(chosen(m)) = m
    BY <1>3, Zenon
  <2>2. Collect(i, table)[m] = entry(m)
    BY <1>1, <1>3, Zenon
  <2> HIDE DEF chosen
  <2>3. entry(m).api = i /\ entry(m).sig = Apis[i].methods[chosen(m)]
    OBVIOUS
  <2> HIDE DEF entry
  <2>4. Offers(i, table, m, entry(m).sig)
    BY <2>1, <2>3, Zenon DEF Offers
  <2> QED BY <2>2, <2>3, <2>4
<1> QED BY <1>2, <1>3, Zenon

\* A suitable method is in the table of its API.
LEMMA CollectHas ==
    ASSUME NEW i, NEW table, NEW g \in DOMAIN Apis[i].methods, Suits(table, Apis[i].methods[g])
    PROVE  formatName(g) \in DOMAIN Collect(i, table)
<1>1. g \in {h \in DOMAIN Apis[i].methods : Suits(table, Apis[i].methods[h])}
  OBVIOUS
<1>2. formatName(g) \in {formatName(h) : h \in {h \in DOMAIN Apis[i].methods : Suits(table, Apis[i].methods[h])}}
  BY <1>1
<1> QED BY <1>2, CollectEntries

\* RegisterName adds the namespace of the API, and no other.
LEMMA RegisterSpaces ==
    ASSUME NEW s, NEW i
    PROVE  LET name == Apis[i].namespace IN
           /\ DOMAIN RegisterName(s, i) = DOMAIN s \cup {name}
           /\ \A n \in DOMAIN s : n # name => RegisterName(s, i)[n] = s[n]
           /\ RegisterName(s, i)[name] =
                IF name \in DOMAIN s
                THEN [table \in Tables |-> Merge(suitableCallbacks(i)[table], s[name][table])]
                ELSE suitableCallbacks(i)
<1> DEFINE name == Apis[i].namespace
           svc == IF name \in DOMAIN s
                  THEN [table \in Tables |-> Merge(suitableCallbacks(i)[table], s[name][table])]
                  ELSE suitableCallbacks(i)
           single == [n \in {name} |-> svc]
<1>1. RegisterName(s, i) = Merge(single, s)
  BY Zenon DEF RegisterName
<1> HIDE DEF svc
<1>2. DOMAIN single = {name} /\ single[name] = svc
  BY Zenon
<1> HIDE DEF single
<1>3. DOMAIN RegisterName(s, i) = DOMAIN s \cup {name}
  BY <1>1, <1>2, Zenon DEF Merge
<1>4. \A n \in DOMAIN s : n # name => RegisterName(s, i)[n] = s[n]
  BY <1>1, <1>2, Zenon DEF Merge
<1>5. RegisterName(s, i)[name] = svc
  BY <1>1, <1>2, Zenon DEF Merge
<1> QED BY <1>3, <1>4, <1>5 DEF svc

\* A table after RegisterName: the methods of the API over those before.
LEMMA RegisterTable ==
    ASSUME NEW s, NEW i, NEW table \in Tables
    PROVE  RegisterName(s, i)[Apis[i].namespace][table] =
             IF Apis[i].namespace \in DOMAIN s
             THEN Merge(Collect(i, table), s[Apis[i].namespace][table])
             ELSE Collect(i, table)
<1> DEFINE name == Apis[i].namespace
<1>1. suitableCallbacks(i)[table] = Collect(i, table)
  BY Zenon DEF suitableCallbacks
<1>2. CASE name \in DOMAIN s
  <2>1. RegisterName(s, i)[name] =
          [tab \in Tables |-> Merge(suitableCallbacks(i)[tab], s[name][tab])]
    BY <1>2, RegisterSpaces, Zenon
  <2>2. RegisterName(s, i)[name][table] = Merge(Collect(i, table), s[name][table])
    BY <1>1, <2>1, Zenon
  <2> QED BY <1>2, <2>2
<1>3. CASE name \notin DOMAIN s
  <2>1. RegisterName(s, i)[name] = suitableCallbacks(i)
    BY <1>3, RegisterSpaces, Zenon
  <2> QED BY <1>1, <1>3, <2>1, Zenon
<1> QED BY <1>2, <1>3

-----------------------------------------------------------------------------
(* The invariant of the tables *)

\* The start goes through the APIs in order, and serves only when through.
StartInv ==
    /\ at \in 1 .. Len(Apis) + 1
    /\ state \in {"down", "up", "failed"}
    /\ state = "up" => at \notin DOMAIN Apis
    /\ last # Nothing => state = "up"

\* An entry of a table comes from an API that has been registered.
Owned(n, table, m, c) ==
    /\ c.api \in DOMAIN Apis /\ c.api < at /\ Listed(whitelist, c.api)
    /\ Apis[c.api].namespace = n
    /\ Offers(c.api, table, m, c.sig)

OwnedInv ==
    \A n \in DOMAIN services, table \in Tables : \A m \in DOMAIN services[n][table] :
        \/ n = <<"rpc">> /\ table = "callbacks" /\ services[n][table][m] = RpcModules
        \/ Owned(n, table, m, services[n][table][m])

\* A suitable method of an API that has been registered has its entry, which
\* only a later API can have taken over.
Entered(i, table, g) ==
    LET n == Apis[i].namespace IN
    /\ n # << >> /\ n \in DOMAIN services
    /\ formatName(g) \in DOMAIN services[n][table]
    /\ services[n][table][formatName(g)].api \in Int
    /\ services[n][table][formatName(g)].api >= i

EnteredInv ==
    \A i \in DOMAIN Apis, table \in Tables : i < at /\ Listed(whitelist, i) =>
        \A g \in DOMAIN Apis[i].methods :
            Suits(table, Apis[i].methods[g]) => Entered(i, table, g)

TablesInv == StartInv /\ SuitedInv /\ OwnedInv /\ EnteredInv

\* The numbers of the APIs.
LEMMA ApisDomain == DOMAIN Apis = 1 .. Len(Apis) /\ Len(Apis) \in Nat
BY ApisAssumption, LenProperties

\* The metadata service is suitable.
LEMMA RpcModulesSuits ==
    /\ RpcModules.sig \in Signature /\ VariadicOK(RpcModules.sig)
    /\ Suits("callbacks", RpcModules.sig)
<1> DEFINE sig == RpcModules.sig
<1>1. sig = [in |-> << >>, out |-> <<"val">>, variadic |-> FALSE]
  BY DEF RpcModules
<1>2. sig.in = << >> /\ sig.out = <<"val">>
  BY <1>1
<1>3. sig \in Signature /\ VariadicOK(sig)
  BY <1>1 DEF Signature, InTypes, OutTypes, VariadicOK
<1> HIDE DEF sig
<1>4. ~isPubSub(sig) /\ ArgTypes(sig) = << >>
  BY <1>2 DEF isPubSub, ArgTypes, HasCtx
<1>5. DOMAIN sig.out = {1} /\ sig.out[1] = "val" /\ Len(sig.out) = 1
  BY <1>2
<1>6. ErrPos(sig) = -1
  BY <1>5 DEF ErrPos, isErrorType
<1>7. \A t \in Range(ArgTypes(sig)) \cup Range(sig.out) : isExportedOrBuiltinType(t)
  BY <1>4, <1>5 DEF Range, isExportedOrBuiltinType
<1> QED BY <1>3, <1>4, <1>5, <1>6, <1>7 DEF Suits, IsCallback, sig

\* The tables of a new server have the invariant.
LEMMA TablesInit == Init => TablesInv
<1> SUFFICES ASSUME Init PROVE TablesInv
  OBVIOUS
<1>1. StartInv
  BY ApisDomain DEF Init, StartInv
<1>2. DOMAIN services = {<<"rpc">>}
  BY Zenon DEF Init, NewServer
<1>3. /\ services[<<"rpc">>]["callbacks"] = [m \in {<<"modules">>} |-> RpcModules]
      /\ services[<<"rpc">>]["subscriptions"] = NoMethods
  <2>1. services[<<"rpc">>] = [callbacks |-> [m \in {<<"modules">>} |-> RpcModules],
                               subscriptions |-> NoMethods]
    BY Zenon DEF Init, NewServer
  <2> QED BY <2>1
<1>4. ASSUME NEW n \in DOMAIN services, NEW table \in Tables, NEW m \in DOMAIN services[n][table]
      PROVE  n = <<"rpc">> /\ table = "callbacks" /\ services[n][table][m] = RpcModules
  <2>1. n = <<"rpc">>
    BY <1>2
  <2>2. DOMAIN NoMethods = {}
    BY Zenon DEF NoMethods
  <2>3. table = "callbacks"
    BY <1>3, <2>1, <2>2 DEF Tables
  <2> QED BY <1>3, <2>1, <2>3, Zenon
<1>5. SuitedInv
  BY <1>4, RpcModulesSuits, Zenon DEF SuitedInv
<1>6. OwnedInv
  BY <1>4 DEF OwnedInv
<1>7. EnteredInv
  BY ApisDomain DEF Init, EnteredInv
<1> QED BY <1>1, <1>5, <1>6, <1>7 DEF TablesInv

\* Steps that change no table.
LEMMA TablesKept ==
    TablesInv /\ StartInv' /\ UNCHANGED <<whitelist, at, services>> => TablesInv'
BY DEF TablesInv, SuitedInv, OwnedInv, Owned, EnteredInv, Entered

\* An API that the endpoint does not list is passed over.
LEMMA TablesSkip ==
    TablesInv /\ Register /\ ~Listed(whitelist, at) => TablesInv'
<1> SUFFICES ASSUME TablesInv, Register, ~Listed(whitelist, at) PROVE TablesInv'
  OBVIOUS
<1>1. /\ at \in DOMAIN Apis /\ state = "down" /\ at' = at + 1
      /\ UNCHANGED <<whitelist, state, services, last>>
  BY DEF Register
<1>2. StartInv'
  BY <1>1, ApisDomain DEF TablesInv, StartInv
<1>3. SuitedInv'
  BY <1>1 DEF TablesInv, SuitedInv
<1>4. OwnedInv'
  <2>1. \A k \in DOMAIN Apis : k < at => k < at'
    BY <1>1, ApisDomain
  <2> QED BY <1>1, <2>1 DEF TablesInv, OwnedInv, Owned
<1>5. EnteredInv'
  <2>1. \A k \in DOMAIN Apis : k < at' => k < at \/ k = at
    BY <1>1, ApisDomain
  <2>2. \A i, table, g : Entered(i, table, g) => Entered(i, table, g)'
    BY <1>1 DEF Entered
  <2> QED BY <1>1, <2>1, <2>2, Zenon DEF TablesInv, EnteredInv
<1> QED BY <1>2, <1>3, <1>4, <1>5 DEF TablesInv

\* The names of the services after RegisterName.
LEMMA RegisterDomain ==
    ASSUME NEW s, NEW i PROVE DOMAIN RegisterName(s, i) = DOMAIN s \cup {Apis[i].namespace}
BY RegisterSpaces, Zenon

\* RegisterName leaves the other services alone.
LEMMA RegisterOther ==
    ASSUME NEW s, NEW i, NEW n \in DOMAIN s, n # Apis[i].namespace
    PROVE  RegisterName(s, i)[n] = s[n]
BY RegisterSpaces, ZenonT(60)

\* An entry of a table after RegisterName is a new one or was there before.
LEMMA RegisteredEntry ==
    ASSUME NEW i, NEW s, NEW n \in DOMAIN RegisterName(s, i), NEW table \in Tables,
           NEW m \in DOMAIN RegisterName(s, i)[n][table],
           NEW c, c = RegisterName(s, i)[n][table][m]
    PROVE  \/ n = Apis[i].namespace /\ c.api = i /\ Offers(i, table, m, c.sig)
           \/ n \in DOMAIN s /\ m \in DOMAIN s[n][table] /\ c = s[n][table][m]
<1> DEFINE name == Apis[i].namespace
           col == Collect(i, table)
<1>1. CASE n # name
  <2>2. n \in DOMAIN s
    BY <1>1, RegisterDomain
  <2>3. RegisterName(s, i)[n] = s[n]
    BY <1>1, <2>2, RegisterOther
  <2> QED BY <2>2, <2>3
<1>2. CASE n = name
  <2>1. ASSUME m \in DOMAIN col, c = col[m]
        PROVE  n = name /\ c.api = i /\ Offers(i, table, m, c.sig)
    <3>1. col[m].api = i /\ Offers(i, table, m, col[m].sig)
      BY <2>1, CollectEntries
    <3> QED BY <1>2, <2>1, <3>1
  <2> HIDE DEF col
  <2>2. CASE n \in DOMAIN s
    <3>1. RegisterName(s, i)[n][table] = Merge(col, s[n][table])
      BY <1>2, <2>2, RegisterTable DEF col
    <3>2. m \in DOMAIN Merge(col, s[n][table]) /\ c = Merge(col, s[n][table])[m]
      BY <3>1
    <3>3. \/ m \in DOMAIN col /\ c = col[m]
          \/ m \in DOMAIN s[n][table] /\ c = s[n][table][m]
      BY <3>2 DEF Merge
    <3> QED BY <2>1, <2>2, <3>3
  <2>3. CASE n \notin DOMAIN s
    <3>1. RegisterName(s, i)[n][table] = col
      BY <1>2, <2>3, RegisterTable DEF col
    <3> QED BY <2>1, <3>1
  <2> QED BY <2>2, <2>3
<1> QED BY <1>1, <1>2

\* The suitable methods of the API are entries.
LEMMA RegisteredNew ==
    ASSUME NEW i, NEW s, NEW table \in Tables, NEW m \in DOMAIN Collect(i, table)
    PROVE  /\ Apis[i].namespace \in DOMAIN RegisterName(s, i)
           /\ m \in DOMAIN RegisterName(s, i)[Apis[i].namespace][table]
           /\ RegisterName(s, i)[Apis[i].namespace][table][m].api = i
<1> DEFINE name == Apis[i].namespace
           col == Collect(i, table)
           new == RegisterName(s, i)[name][table]
<1>1. name \in DOMAIN RegisterName(s, i)
  BY RegisterDomain
<1>2. col[m].api = i
  BY CollectEntries
<1>3. new = IF name \in DOMAIN s THEN Merge(col, s[name][table]) ELSE col
  BY RegisterTable
<1> HIDE DEF col, new
<1>4. m \in DOMAIN new /\ new[m] = col[m]
  BY <1>3 DEF Merge, col
<1> QED BY <1>1, <1>2, <1>4 DEF new

\* The names there were are still there, with their entry or a new one.
LEMMA RegisteredOld ==
    ASSUME NEW i, NEW s, NEW n \in DOMAIN s, NEW table \in Tables, NEW m \in DOMAIN s[n][table]
    PROVE  /\ n \in DOMAIN RegisterName(s, i)
           /\ m \in DOMAIN RegisterName(s, i)[n][table]
           /\ \/ RegisterName(s, i)[n][table][m] = s[n][table][m]
              \/ RegisterName(s, i)[n][table][m].api = i
<1> DEFINE name == Apis[i].namespace
           col == Collect(i, table)
           new == RegisterName(s, i)[n][table]
<1>1. n \in DOMAIN RegisterName(s, i)
  BY RegisterDomain
<1>2. CASE n # name
  <2>1. RegisterName(s, i)[n] = s[n]
    BY <1>2, RegisterOther
  <2> QED BY <1>1, <2>1
<1>3. CASE n = name
  <2>1. \A k \in DOMAIN col : col[k].api = i
    BY CollectEntries
  <2>2. new = Merge(col, s[n][table])
    BY <1>3, RegisterTable
  <2> HIDE DEF col, new
  <2>3. /\ m \in DOMAIN new
        /\ new[m] = IF m \in DOMAIN col THEN col[m] ELSE s[n][table][m]
    BY <2>2 DEF Merge
  <2>4. new[m] = s[n][table][m] \/ new[m].api = i
    BY <2>1, <2>3
  <2> QED BY <1>1, <2>3, <2>4 DEF new
<1> QED BY <1>2, <1>3

\* An API that the endpoint lists is registered.
LEMMA TablesRegister ==
    TablesInv /\ Register /\ Listed(whitelist, at) /\ ~Unregistrable(at) => TablesInv'
<1> SUFFICES ASSUME TablesInv, Register, Listed(whitelist, at), ~Unregistrable(at) PROVE TablesInv'
  OBVIOUS
<1>1. /\ at \in DOMAIN Apis /\ state = "down" /\ at' = at + 1
      /\ services' = RegisterName(services, at)
      /\ UNCHANGED <<whitelist, state, last>>
  BY DEF Register
<1>2. Apis[at].namespace # << >>
  BY DEF Unregistrable
<1>3. StartInv'
  BY <1>1, ApisDomain DEF TablesInv, StartInv
<1>4. ASSUME NEW n \in DOMAIN services', NEW table \in Tables, NEW m \in DOMAIN services'[n][table],
             NEW c, c = services'[n][table][m]
      PROVE  \/ n = Apis[at].namespace /\ c.api = at /\ Offers(at, table, m, c.sig)
             \/ n \in DOMAIN services /\ m \in DOMAIN services[n][table] /\ c = services[n][table][m]
  BY <1>1, <1>4, RegisteredEntry
<1>5. SuitedInv'
  <2> SUFFICES ASSUME NEW n \in DOMAIN services', NEW table \in Tables,
                      NEW m \in DOMAIN services'[n][table],
                      NEW c, c = services'[n][table][m]
               PROVE  c.sig \in Signature /\ VariadicOK(c.sig) /\ Suits(table, c.sig)
    BY DEF SuitedInv
  <2>1. CASE Offers(at, table, m, c.sig)
    BY <1>1, <2>1, ApisAssumption DEF Offers, VariadicOK
  <2>2. CASE n \in DOMAIN services /\ m \in DOMAIN services[n][table] /\ c = services[n][table][m]
    BY <2>2 DEF TablesInv, SuitedInv
  <2> QED BY <1>4, <2>1, <2>2
<1>6. OwnedInv'
  <2> SUFFICES ASSUME NEW n \in DOMAIN services', NEW table \in Tables,
                      NEW m \in DOMAIN services'[n][table],
                      NEW c, c = services'[n][table][m]
               PROVE  \/ n = <<"rpc">> /\ table = "callbacks" /\ c = RpcModules
                      \/ Owned(n, table, m, c)'
    BY DEF OwnedInv
  <2>1. CASE n = Apis[at].namespace /\ c.api = at /\ Offers(at, table, m, c.sig)
    <3>1. at < at'
      BY <1>1, ApisDomain
    <3> QED BY <1>1, <2>1, <3>1 DEF Owned
  <2>2. CASE n \in DOMAIN services /\ m \in DOMAIN services[n][table] /\ c = services[n][table][m]
    <3>1. \A k \in DOMAIN Apis : k < at => k < at'
      BY <1>1, ApisDomain
    <3>2. Owned(n, table, m, c) => Owned(n, table, m, c)'
      BY <1>1, <3>1 DEF Owned
    <3> QED BY <2>2, <3>2 DEF TablesInv, OwnedInv
  <2> QED BY <1>4, <2>1, <2>2
<1>7. EnteredInv'
  <2> SUFFICES ASSUME NEW i \in DOMAIN Apis, NEW table \in Tables, i < at', Listed(whitelist, i)',
                      NEW g \in DOMAIN Apis[i].methods, Suits(table, Apis[i].methods[g])
               PROVE  Entered(i, table, g)'
    BY DEF EnteredInv
  <2> DEFINE n == Apis[i].namespace
             m == formatName(g)
  <2>1. CASE i = at
    <3>1. m \in DOMAIN Collect(i, table)
      BY CollectHas
    <3>2. /\ n \in DOMAIN services' /\ m \in DOMAIN services'[n][table]
          /\ services'[n][table][m].api = at
      BY <1>1, <2>1, <3>1, RegisteredNew
    <3>3. at \in Int
      BY <1>1, ApisDomain
    <3> QED BY <1>2, <2>1, <3>2, <3>3 DEF Entered
  <2>2. CASE i < at
    <3>1. Entered(i, table, g)
      BY <1>1, <2>2 DEF TablesInv, EnteredInv
    <3>2. /\ n # << >> /\ n \in DOMAIN services /\ m \in DOMAIN services[n][table]
          /\ services[n][table][m].api \in Int /\ services[n][table][m].api >= i
      BY <3>1 DEF Entered
    <3>3. /\ n \in DOMAIN services' /\ m \in DOMAIN services'[n][table]
          /\ \/ services'[n][table][m] = services[n][table][m]
             \/ services'[n][table][m].api = at
      BY <1>1, <3>2, RegisteredOld
    <3>4. services'[n][table][m].api \in Int /\ services'[n][table][m].api >= i
      BY <1>1, <2>2, <3>2, <3>3, ApisDomain
    <3> QED BY <3>2, <3>3, <3>4 DEF Entered
  <2>3. i = at \/ i < at
    BY <1>1, ApisDomain
  <2> QED BY <2>1, <2>2, <2>3
<1> QED BY <1>3, <1>5, <1>6, <1>7 DEF TablesInv

\* Every step of an endpoint keeps the invariant of the tables.
LEMMA TablesNext == TablesInv /\ [Next]_vars => TablesInv'
<1> SUFFICES ASSUME TablesInv, [Next]_vars PROVE TablesInv'
  OBVIOUS
<1>1. CASE Register
  <2>1. CASE Listed(whitelist, at) /\ Unregistrable(at)
    <3>1. state' = "failed" /\ state = "down" /\ UNCHANGED <<whitelist, at, services, last>>
      BY <1>1, <2>1 DEF Register
    <3>2. StartInv'
      BY <3>1 DEF TablesInv, StartInv
    <3> QED BY <3>1, <3>2, TablesKept
  <2> QED BY <1>1, <2>1, TablesSkip, TablesRegister
<1>2. CASE Listen
  <2>1. StartInv' /\ UNCHANGED <<whitelist, at, services>>
    BY <1>2 DEF Listen, TablesInv, StartInv
  <2> QED BY <2>1, TablesKept
<1>3. ASSUME NEW f \in Fronts, NEW msg \in Messages, Serve(f, msg) PROVE TablesInv'
  <2>1. state = "up" /\ UNCHANGED <<whitelist, state, at, services>>
    BY <1>3 DEF Serve
  <2>2. StartInv'
    BY <2>1 DEF TablesInv, StartInv
  <2> QED BY <2>1, <2>2, TablesKept
<1>4. CASE Answered
  <2>1. StartInv' /\ UNCHANGED <<whitelist, at, services>>
    BY <1>4 DEF Answered, TablesInv, StartInv
  <2> QED BY <2>1, TablesKept
<1>5. CASE UNCHANGED vars
  <2>1. StartInv' /\ UNCHANGED <<whitelist, at, services>>
    BY <1>5 DEF vars, TablesInv, StartInv
  <2> QED BY <2>1, TablesKept
<1> QED BY <1>1, <1>2, <1>3, <1>4, <1>5 DEF Next

\* The tables of an endpoint hold, at every moment of its start and of its
\* service, exactly what the APIs registered so far have put into them
\* (StartHTTPEndpoint, RegisterName, suitableCallbacks).
THEOREM DispatchTables == Spec => []TablesInv
BY TablesInit, TablesNext, PTL DEF Spec

-----------------------------------------------------------------------------
(* What the endpoint exposes and how it answers *)

\* Whatever a client sends, every call gets arguments of exactly the types of
\* its parameters, unless the signature is one the server cannot call (handle,
\* createSubscription, parsePositionalArguments).
THEOREM DispatchCallsFit == Spec => []CallsFit
<1>1. Init => CallsFit
  BY DEF Init, CallsFit, Nothing
<1>2. TablesInv /\ CallsFit /\ [Next]_vars => CallsFit'
  <2> SUFFICES ASSUME TablesInv, CallsFit, [Next]_vars PROVE CallsFit'
    OBVIOUS
  <2>1. CASE Register \/ Listen \/ UNCHANGED vars
    BY <2>1 DEF Register, Listen, vars, CallsFit
  <2>2. CASE Answered
    BY <2>2 DEF Answered, CallsFit, Nothing
  <2>3. ASSUME NEW f \in Fronts, NEW msg \in Messages, Serve(f, msg) PROVE CallsFit'
    BY <2>3, ServeFits DEF TablesInv
  <2> QED BY <2>1, <2>2, <2>3 DEF Next
<1> QED BY <1>1, <1>2, DispatchTables, PTL DEF Spec

\* With the whole list registered, the tables are what is exposed.
LEMMA TablesExpose == TablesInv => ExposesExactly
<1> SUFFICES ASSUME TablesInv, state = "up" PROVE ExposesExactly
  BY DEF ExposesExactly
<1>1. \A i \in DOMAIN Apis : i < at
  BY ApisDomain DEF TablesInv, StartInv
<1> SUFFICES ASSUME NEW n, n # <<"rpc">>, NEW table \in Tables, NEW m PROVE ExposesLast(n, table, m)
  BY DEF ExposesExactly
<1> DEFINE callbs == Exposed(n, table)
<1>2. ASSUME NEW i \in Owners(n, table, m)
      PROVE  /\ n \in DOMAIN services /\ m \in DOMAIN services[n][table]
             /\ services[n][table][m].api \in Int /\ i <= services[n][table][m].api
  <2>1. i \in DOMAIN Apis /\ Listed(whitelist, i) /\ Apis[i].namespace = n
    BY DEF Owners
  <2>2. PICK g \in DOMAIN Apis[i].methods : formatName(g) = m /\ Suits(table, Apis[i].methods[g])
    BY DEF Owners
  <2>3. Entered(i, table, g)
    BY <1>1, <2>1, <2>2 DEF TablesInv, EnteredInv
  <2>4. i \in Int
    BY <2>1, ApisDomain
  <2> QED BY <2>1, <2>2, <2>3, <2>4 DEF Entered
<1>3. ASSUME n \in DOMAIN services, m \in DOMAIN services[n][table], NEW c, c = services[n][table][m]
      PROVE  c.api \in Owners(n, table, m) /\ Offers(c.api, table, m, c.sig)
  <2>1. Owned(n, table, m, c)
    BY <1>3 DEF TablesInv, OwnedInv
  <2> QED BY <2>1 DEF Owned, Owners, Offers
<1>4. CASE n \notin DOMAIN services
  <2>1. DOMAIN callbs = {}
    BY <1>4, Zenon DEF Exposed, NoMethods
  <2> QED BY <1>2, <1>4, <2>1 DEF ExposesLast
<1>5. CASE n \in DOMAIN services
  <2>1. callbs = services[n][table]
    BY <1>5 DEF Exposed
  <2>2. m \in DOMAIN callbs <=> Owners(n, table, m) # {}
    BY <1>2, <1>3, <1>5, <2>1
  <2>3. ASSUME m \in DOMAIN callbs
        PROVE  callbs[m].api = Max(Owners(n, table, m)) /\ Offers(callbs[m].api, table, m, callbs[m].sig)
    <3>1. callbs[m].api \in Owners(n, table, m) /\ Offers(callbs[m].api, table, m, callbs[m].sig)
      BY <1>3, <1>5, <2>1, <2>3
    <3>2. Owners(n, table, m) \in SUBSET Nat
      BY ApisDomain DEF Owners
    <3>3. \A i \in Owners(n, table, m) : i <= callbs[m].api
      BY <1>2, <2>1
    <3> QED BY <3>1, <3>2, <3>3, MaxIndex
  <2> QED BY <2>2, <2>3 DEF ExposesLast, Offers
<1> QED BY <1>4, <1>5

\* An endpoint that is up exposes the suitable methods of the APIs it lists,
\* the last where two have the same name, and no others (RegisterName,
\* StartHTTPEndpoint, StartWSEndpoint).
THEOREM DispatchExposesExactly == Spec => []ExposesExactly
BY DispatchTables, TablesExpose, PTL

\* What a request gets that is sent alone.
LEMMA AskOne ==
    ASSUME NEW r, NEW notifier
    PROVE  /\ BadId(r) => Ask(r, notifier) = Failed("InvalidMessage")
           /\ ~BadId(r) /\ BadSub(r) => Ask(r, notifier) = Failed("InvalidRequest")
           /\ ~BadId(r) /\ ~BadSub(r) =>
                Ask(r, notifier) = handle(readRequest(services, BatchElement(r)), notifier)
<1> DEFINE h == ReadRequestHeaders(Single(r), FALSE)
           e == BatchElement(r)
<1>1. h = parseRequest(r)
  <2>1. Single(r).size = "small" /\ Single(r).isBatch = FALSE /\ Single(r).reqs[1] = r
    BY DEF Single
  <2> QED BY <2>1 DEF ReadRequestHeaders
<1>2. Ask(r, notifier) = IF h.err # "" THEN Failed(h.err) ELSE Outcomes(services, h.reqs, notifier)[1]
  BY DEF Ask
<1> HIDE DEF h
<1>3. ASSUME NEW x, x # "", parseRequest(r) = Refused(x) PROVE Ask(r, notifier) = Failed(x)
  <2>1. h.err = x
    BY <1>1, <1>3, RefusedFields
  <2> QED BY <1>2, <1>3, <2>1
<1>4. CASE BadId(r)
  <2>1. parseRequest(r) = Refused("InvalidMessage")
    BY <1>4, SingleHeader, Zenon
  <2> QED BY <1>3, <1>4, <2>1
<1>5. CASE ~BadId(r) /\ BadSub(r)
  <2>1. parseRequest(r) = Refused("InvalidRequest")
    BY <1>5, SingleHeader, Zenon
  <2> QED BY <1>3, <1>5, <2>1
<1>6. CASE ~BadId(r) /\ ~BadSub(r) /\ e.err # ""
  <2>1. parseRequest(r) = Refused("MethodNotFound")
    BY <1>6, SingleHeader, Zenon
  <2>2. Ask(r, notifier) = Failed("MethodNotFound")
    BY <1>3, <2>1
  <2>3. e.err = "MethodNotFound"
    BY <1>6, ElementHeader
  <2> HIDE DEF e
  <2>4. readRequest(services, e) = Failed("MethodNotFound")
    BY <2>3 DEF readRequest
  <2>5. handle(Failed("MethodNotFound"), notifier) = Failed("MethodNotFound")
    BY FailedFields DEF handle
  <2> QED BY <1>6, <2>2, <2>4, <2>5 DEF e
<1>7. CASE ~BadId(r) /\ ~BadSub(r) /\ e.err = ""
  <2>1. parseRequest(r) = Parsed(<<e>>)
    BY <1>7, SingleHeader, Zenon
  <2>2. h.err = "" /\ h.reqs = <<e>>
    BY <1>1, <2>1, ParsedFields
  <2>3. Ask(r, notifier) = Outcomes(services, <<e>>, notifier)[1]
    BY <1>2, <2>2
  <2> HIDE DEF e
  <2>4. Outcomes(services, <<e>>, notifier)[1] = handle(readRequest(services, e), notifier)
    BY OneElement DEF Outcomes
  <2> QED BY <1>7, <2>3, <2>4 DEF e
<1> QED BY <1>4, <1>5, <1>6, <1>7

\* A batch that has been served.
LEMMA ServeAgrees ==
    ASSUME NEW f \in Fronts, NEW msg \in Messages, Serve(f, msg)
    PROVE  BatchAgrees'
<1> SUFFICES ASSUME msg.isBatch, msg.size = "small" PROVE BatchAgrees'
  <2>1. last'.msg = msg
    BY DEF Serve
  <2> QED BY <2>1 DEF BatchAgrees
<1> DEFINE rs == msg.reqs
           p == parseBatchRequest(rs)
           alone == [i \in DOMAIN rs |-> Ask(rs[i], f.ws)]
<1>1. rs \in Seq(Range(rs)) /\ \A i \in DOMAIN rs : rs[i].object \in BOOLEAN
  BY MessagesAssumption
<1>2. ReadRequestHeaders(msg, Cut(f, msg)) = p
  BY DEF ReadRequestHeaders, Cut
<1>3. /\ last'.msg = msg /\ last'.ws = f.ws /\ services' = services
      /\ last'.out = IF p.err # "" THEN <<Failed(p.err)>> ELSE Outcomes(services, p.reqs, f.ws)
  BY <1>2 DEF Serve
<1>4. Alone' = alone
  BY <1>3 DEF Alone, Ask
<1> HIDE DEF p, alone
<1>5. SUFFICES
        \/ last'.out = alone
        \/ /\ Len(last'.out) = 1 /\ last'.out[1].kind = "error"
           /\ \E i \in DOMAIN alone : alone[i] = last'.out[1]
           /\ last'.out[1].err \in {"InvalidMessage", "InvalidRequest"}
  BY <1>4, <1>5 DEF BatchAgrees
<1>6. DOMAIN alone = DOMAIN rs /\ \A i \in DOMAIN rs : alone[i] = Ask(rs[i], f.ws)
  BY DEF alone
<1>7. ASSUME NEW x \in {"InvalidMessage", "InvalidRequest"}, p = Refused(x),
             NEW i \in DOMAIN rs, Ask(rs[i], f.ws) = Failed(x)
      PROVE  /\ Len(last'.out) = 1 /\ last'.out[1].kind = "error"
             /\ \E j \in DOMAIN alone : alone[j] = last'.out[1]
             /\ last'.out[1].err \in {"InvalidMessage", "InvalidRequest"}
  <2>1. p.err = x
    BY <1>7, RefusedFields
  <2>2. last'.out = <<Failed(x)>>
    BY <1>3, <1>7, <2>1
  <2>3. Len(last'.out) = 1 /\ last'.out[1] = Failed(x)
    BY <2>2
  <2>4. alone[i] = last'.out[1]
    BY <1>6, <1>7, <2>3
  <2>5. last'.out[1].kind = "error" /\ last'.out[1].err = x
    BY <2>3, FailedFields
  <2> QED BY <1>6, <2>3, <2>4, <2>5
<1>8. CASE p = Refused("InvalidMessage") /\ \E i \in DOMAIN rs : BadId(rs[i])
  BY <1>7, <1>8, AskOne
<1>9. CASE p = Refused("InvalidRequest") /\ \E i \in DOMAIN rs : ~BadId(rs[i]) /\ BadSub(rs[i])
  BY <1>7, <1>9, AskOne
<1>10. CASE /\ p = Parsed([i \in DOMAIN rs |-> BatchElement(rs[i])])
            /\ \A i \in DOMAIN rs : ~BadId(rs[i]) /\ ~BadSub(rs[i])
  <2> DEFINE hs == [i \in DOMAIN rs |-> BatchElement(rs[i])]
  <2>1. p.err = "" /\ p.reqs = hs
    BY <1>10, ParsedFields
  <2>2. last'.out = Outcomes(services, hs, f.ws)
    BY <1>3, <2>1
  <2>3. Outcomes(services, hs, f.ws) =
          [i \in DOMAIN rs |-> handle(readRequest(services, BatchElement(rs[i])), f.ws)]
    BY DEF Outcomes
  <2>4. alone = [i \in DOMAIN rs |-> handle(readRequest(services, BatchElement(rs[i])), f.ws)]
    BY <1>10, AskOne DEF alone
  <2> QED BY <2>2, <2>3, <2>4
<1> QED BY <1>1, <1>8, <1>9, <1>10, BatchHeaders DEF p

\* A batch gets what its requests would get alone, or what one of them would
\* be refused for (parseBatchRequest, execBatch).
THEOREM DispatchBatchAgrees == Spec => []BatchAgrees
<1>1. Init => BatchAgrees
  BY DEF Init, BatchAgrees
<1>2. TablesInv /\ BatchAgrees /\ [Next]_vars => BatchAgrees'
  <2> SUFFICES ASSUME TablesInv, BatchAgrees, [Next]_vars PROVE BatchAgrees'
    OBVIOUS
  <2>1. CASE Register \/ Listen
    <3>1. last' = Nothing
      BY <2>1 DEF Register, Listen, TablesInv, StartInv
    <3> QED BY <3>1 DEF BatchAgrees
  <2>2. CASE Answered
    BY <2>2 DEF Answered, BatchAgrees
  <2>3. CASE UNCHANGED vars
    BY <2>3 DEF vars, BatchAgrees, Alone, Ask
  <2>4. ASSUME NEW f \in Fronts, NEW msg \in Messages, Serve(f, msg) PROVE BatchAgrees'
    BY <2>4, ServeAgrees
  <2> QED BY <2>1, <2>2, <2>3, <2>4 DEF Next
<1> QED BY <1>1, <1>2, DispatchTables, PTL DEF Spec

\* The exposed name is the name with its first part in lower case.
LEMMA FormatName ==
    ASSUME NEW g \in Names \ {<< >>}, LowerFirst[g[1]] \in STRING
    PROVE  /\ formatName(g) = <<LowerFirst[g[1]]>> \o Tail(g)
           /\ formatName(g) \in Names /\ Len(formatName(g)) >= 1
<1> DEFINE a == formatName(g)
           b == <<LowerFirst[g[1]]>> \o Tail(g)
<1>1. g \in Seq(STRING) /\ Len(g) \in Nat \ {0} /\ DOMAIN g = 1..Len(g)
  BY DEF Names
<1>2. a \in Seq(STRING) /\ Len(a) = Len(g) /\ \A j \in 1..Len(g) : a[j] = IF j = 1 THEN LowerFirst[g[1]] ELSE g[j]
  BY <1>1 DEF formatName
<1>3. Tail(g) \in Seq(STRING) /\ Len(Tail(g)) = Len(g) - 1 /\ \A j \in 1..Len(g) - 1 : Tail(g)[j] = g[j + 1]
  BY <1>1
<1>4. b \in Seq(STRING) /\ Len(b) = Len(g) /\ \A j \in 1..Len(g) : b[j] = IF j = 1 THEN LowerFirst[g[1]] ELSE g[j]
  BY <1>1, <1>3
<1> HIDE DEF a, b
<1>5. a = b
  BY <1>1, <1>2, <1>4, SeqEqual
<1> QED BY <1>1, <1>2, <1>5 DEF a, b, Names

\* Null decodes into every type.
LEMMA NullsOf ==
    ASSUME NEW k \in Nat
    PROVE  /\ Nulls(k) \in Seq({Null}) /\ Len(Nulls(k)) = k
           /\ \A j \in 1..k : \A t : Decodes(Nulls(k)[j], t)
<1>1. Nulls(k) \in Seq({Null}) /\ Len(Nulls(k)) = k /\ \A j \in 1..k : Nulls(k)[j] = Null
  BY DEF Nulls
<1>2. Null.kind = "null"
  BY DEF Null
<1> QED BY <1>1, <1>2 DEF Decodes

\* The arguments of a call that is sent as many nulls as it has arguments.
LEMMA NullsCall ==
    ASSUME NEW callb, callb.sig \in Signature, NEW notifier, NEW p,
           p = Array(Nulls(Len(ArgTypes(callb.sig)))),
           NEW o, o = handle(Arguments("call", callb, p, ArgTypes(callb.sig), 0), notifier)
    PROVE  o.kind = "call" /\ o.callb = callb
<1> DEFINE types == ArgTypes(callb.sig)
           q == Arguments("call", callb, p, types, 0)
<1>1. types \in Seq(InTypes) /\ Len(types) \in Nat
  BY ArgTypesOf
<1>2. p.kind = "array" /\ p.vals = Nulls(Len(types))
  BY DEF Array
<1>3. DOMAIN Nulls(Len(types)) = 1..Len(types)
  BY <1>1, NullsOf
<1>4. Parses(p, types)
  <2> DEFINE vals == Nulls(Len(types))
  <2>1. Len(vals) = Len(types)
    BY <1>1, NullsOf
  <2>2. \A j \in 1..Len(types) : Decodes(vals[j], types[j])
    BY <1>1, NullsOf
  <2> HIDE DEF vals, types
  <2> QED BY <1>1, <1>2, <1>3, <2>1, <2>2 DEF Parses, vals
<1>5. SubSeq(types, 0 + 1, Len(types)) = types
  BY <1>1
<1>6. q = Routed("call", callb, types)
  <2>1. CASE types = << >>
    BY <2>1 DEF Arguments
  <2>2. CASE types # << >>
    <3> HIDE DEF types
    <3> QED BY <1>2, <1>4, <1>5, <2>2 DEF Arguments, types
  <2> QED BY <2>1, <2>2
<1>7. q.kind = "call" /\ q.callb = callb /\ q.args = types
  BY <1>6 DEF Routed
<1> HIDE DEF q, types
<1>8. \E args : handle(q, notifier) = Routed("call", callb, args)
  BY <1>7 DEF handle, types
<1>9. handle(q, notifier).kind = "call" /\ handle(q, notifier).callb = callb
  BY <1>8 DEF Routed
<1> QED BY <1>9 DEF q, types

\* A name and nulls are parsed for the arguments of a subscription.
LEMMA StringAndNulls ==
    ASSUME NEW v, Decodes(v, "string"), NEW types \in Seq(InTypes)
    PROVE  Parses(Array(<<v>> \o Nulls(Len(types))), <<"string">> \o types)
<1> DEFINE vals == <<v>> \o Nulls(Len(types))
           all == <<"string">> \o types
<1>1. Len(types) \in Nat
  OBVIOUS
<1>2. Array(vals).kind = "array" /\ Array(vals).vals = vals
  BY DEF Array
<1>3. Len(all) = Len(types) + 1 /\ all[1] = "string"
  OBVIOUS
<1> HIDE DEF vals, all
<1>4. /\ DOMAIN vals = 1..Len(types) + 1 /\ Len(vals) = Len(types) + 1
      /\ vals[1] = v /\ \A j \in 2..Len(types) + 1 : vals[j] = Nulls(Len(types))[j - 1]
  <2>1. <<v>> \in Seq({v, Null}) /\ Nulls(Len(types)) \in Seq({v, Null}) /\ Len(Nulls(Len(types))) = Len(types)
    BY <1>1, NullsOf
  <2>2. DOMAIN vals = 1..Len(types) + 1 /\ Len(vals) = Len(types) + 1
    BY <1>1, <2>1 DEF vals
  <2>3. vals[1] = v
    BY <1>1, <2>1 DEF vals
  <2>4. \A j \in 2..Len(types) + 1 : vals[j] = Nulls(Len(types))[j - 1]
    BY <1>1, <2>1 DEF vals
  <2> QED BY <2>2, <2>3, <2>4
<1>5. ASSUME NEW j \in 1..Len(types) + 1 PROVE Decodes(vals[j], all[j])
  <2>1. CASE j = 1
    BY <1>3, <1>4, <2>1
  <2>2. CASE j # 1
    <3>1. j \in 2..Len(types) + 1 /\ j - 1 \in 1..Len(types)
      BY <1>1, <2>2
    <3>2. vals[j] = Nulls(Len(types))[j - 1]
      BY <1>4, <3>1
    <3>3. Decodes(Nulls(Len(types))[j - 1], all[j])
      BY <1>1, <3>1, NullsOf
    <3> QED BY <3>2, <3>3
  <2> QED BY <2>1, <2>2
<1>6. Parses(Array(vals), all)
  BY <1>1, <1>2, <1>3, <1>4, <1>5 DEF Parses
<1> QED BY <1>6 DEF vals, all

\* Nulls are accepted for the arguments of a subscription.
LEMMA NullsSubscribe ==
    ASSUME NEW callb, callb.sig \in Signature, NEW notifier, NEW v, Decodes(v, "string"), NEW p,
           p = Array(<<v>> \o Nulls(Len(ArgTypes(callb.sig)))), NEW o,
           o = handle(Arguments("subscribe", callb, p, <<"string">> \o ArgTypes(callb.sig), 1), notifier)
    PROVE  o.kind = "subscribe" /\ o.callb = callb
<1> DEFINE all == <<"string">> \o ArgTypes(callb.sig)
           q == Arguments("subscribe", callb, p, all, 1)
<1>1. ArgTypes(callb.sig) \in Seq(InTypes)
  BY ArgTypesOf
<1>2. p.kind = "array"
  BY DEF Array
<1>3. Parses(p, all)
  BY <1>1, StringAndNulls
<1> HIDE DEF all
<1>4. \E args : q = Routed("subscribe", callb, args)
  BY <1>2, <1>3 DEF Arguments
<1>5. q.kind = "subscribe" /\ q.callb = callb
  BY <1>4 DEF Routed
<1> HIDE DEF q
<1>6. \E args : handle(q, notifier) = Routed("subscribe", callb, args)
  BY <1>5 DEF handle
<1>7. handle(q, notifier).kind = "subscribe" /\ handle(q, notifier).callb = callb
  BY <1>6 DEF Routed
<1> QED BY <1>7 DEF q, all

\* An entry that is not the metadata service counts its arguments.
LEMMA EntryCounts ==
    ASSUME TablesInv, NEW i \in DOMAIN Apis, Listed(whitelist, i), state = "up",
           NEW table \in Tables, NEW g \in DOMAIN Apis[i].methods, Suits(table, Apis[i].methods[g])
    PROVE  LET n == Apis[i].namespace
               c == services[n][table][formatName(g)]
           IN /\ n # << >> /\ n \in DOMAIN services /\ formatName(g) \in DOMAIN services[n][table]
              /\ c.api >= i /\ c.sig \in Signature /\ Len(ArgTypes(c.sig)) \in ArgCounts
<1> DEFINE n == Apis[i].namespace
           m == formatName(g)
           c == services[n][table][m]
<1>1. i \in Nat \ {0} /\ i < at
  BY ApisDomain DEF TablesInv, StartInv
<1>2. /\ n # << >> /\ n \in DOMAIN services /\ m \in DOMAIN services[n][table]
      /\ c.api \in Int /\ c.api >= i
  BY <1>1 DEF TablesInv, EnteredInv, Entered
<1>3. c.sig \in Signature
  BY <1>2 DEF TablesInv, SuitedInv
<1>4. c # RpcModules
  BY <1>1, <1>2 DEF RpcModules
<1>5. Owned(n, table, m, c)
  BY <1>2, <1>4 DEF TablesInv, OwnedInv
<1>6. PICK h \in DOMAIN Apis[c.api].methods : c.sig = Apis[c.api].methods[h]
  BY <1>5 DEF Owned, Offers
<1>7. c.api \in DOMAIN Apis
  BY <1>5 DEF Owned
<1> HIDE DEF c
<1>8. Len(ArgTypes(c.sig)) \in {Len(ArgTypes(Apis[c.api].methods[x])) : x \in DOMAIN Apis[c.api].methods}
  BY <1>6
<1>9. Len(ArgTypes(c.sig)) \in ArgCounts
  BY <1>7, <1>8, Zenon DEF ArgCounts
<1> QED BY <1>2, <1>3, <1>9 DEF c

\* c is the entry of the name m in a table.
EntryOf(c, n, table, m) ==
    n \in DOMAIN services /\ m \in DOMAIN services[n][table] /\ c = services[n][table][m]

\* A request of two parts names a service and a method.
LEMMA TwoParts ==
    ASSUME NEW n \in Names, NEW m \in Names, n # << >>, m # << >>, Len(n \o m) = 2
    PROVE  Len(n) = 1 /\ Len(m) = 1
<1>1. n \in Seq(STRING) /\ m \in Seq(STRING)
  BY DEF Names
<1>2. Len(n) \in Nat /\ Len(m) \in Nat /\ Len(n) # 0 /\ Len(m) # 0
  BY <1>1, LenProperties, EmptySeq
<1>3. Len(n) + Len(m) = 2
  BY <1>1, ConcatProperties
<1>4. \A x, y \in Nat : x # 0 /\ y # 0 /\ x + y = 2 => x = 1 /\ y = 1
  OBVIOUS
<1> QED BY <1>2, <1>3, <1>4, Zenon

\* A method is called.
LEMMA CallReached ==
    ASSUME NEW n \in Names, NEW m \in Names, n # << >>, m # << >>, Len(n \o m) = 2,
           m[1] \notin {"subscribe", "unsubscribe"},
           NEW c, EntryOf(c, n, "callbacks", m), c.sig \in Signature,
           NEW notifier, NEW o, o = Ask(CallRequest(n, m, Len(ArgTypes(c.sig))), notifier)
    PROVE  o.kind = "call" /\ o.callb = c
<1> DEFINE p == Array(Nulls(Len(ArgTypes(c.sig))))
           r == CallRequest(n, m, Len(ArgTypes(c.sig)))
           e == BatchElement(r)
<1>1. n \in Seq(STRING) /\ m \in Seq(STRING)
  BY DEF Names
<1>2. Len(n) = 1 /\ Len(m) = 1
  BY TwoParts
<1>3. n = <<n[1]>> /\ m = <<m[1]>>
  BY <1>1, <1>2
<1>4. (n \o m)[1] = n[1] /\ (n \o m)[2] = m[1] /\ Last(n \o m) = m[1]
  BY <1>1, <1>2 DEF Last
<1>5. r.object /\ r.id = "number" /\ r.method = n \o m /\ r.params = p
  BY DEF CallRequest, Request
<1> HIDE DEF r, p
<1>6. ~Suffix(r.method, "subscribe") /\ ~Suffix(r.method, "unsubscribe")
  BY <1>4, <1>5 DEF Suffix
<1>7. e = Header(FALSE, <<r.method[1]>>, <<r.method[2]>>, r.params, "")
  BY <1>5, <1>6 DEF BatchElement
<1> HIDE DEF e
<1>8. e.isPubSub = FALSE /\ e.service = n /\ e.method = m /\ e.params = p /\ e.err = ""
  <2>1. e = Header(FALSE, n, m, p, "")
    BY <1>3, <1>4, <1>5, <1>7
  <2> QED BY <2>1 DEF Header
<1>9. ~BadId(r) /\ ~BadSub(r)
  BY <1>5, <1>6 DEF BadId, BadSub, checkReqId
<1>10. o = handle(readRequest(services, e), notifier)
  BY <1>9, AskOne DEF r, e
<1>11. readRequest(services, e) = Arguments("call", c, p, ArgTypes(c.sig), 0)
  BY <1>8 DEF readRequest, EntryOf
<1>12. p = Array(Nulls(Len(ArgTypes(c.sig))))
  BY DEF p
<1>13. o = handle(Arguments("call", c, p, ArgTypes(c.sig), 0), notifier)
  BY <1>10, <1>11
<1> QED BY <1>12, <1>13, NullsCall

\* A subscription is created.
LEMMA SubscribeReached ==
    ASSUME NEW n \in Names, NEW m \in Names, n # << >>, ~Suffix(m, "unsubscribe"),
           NEW c, EntryOf(c, n, "subscriptions", m), c.sig \in Signature,
           NEW notifier, NEW o, o = Ask(SubscribeRequest(n, m, Len(ArgTypes(c.sig))), notifier)
    PROVE  o.kind = "subscribe" /\ o.callb = c
<1> DEFINE v == [kind |-> "string", text |-> m]
           k == Len(ArgTypes(c.sig))
           vals == <<v>> \o Nulls(k)
           p == Array(vals)
           r == SubscribeRequest(n, m, k)
           e == BatchElement(r)
<1>1. n \in Seq(STRING) /\ Len(n) \in Nat \ {0} /\ k \in Nat
  BY ArgTypesOf DEF Names
<1>2. v.kind = "string" /\ v.text = m
  OBVIOUS
<1>3. r.object /\ r.id = "number" /\ r.method = Append(n, "subscribe") /\ r.params = p
  BY DEF SubscribeRequest, Request
<1>4. p.kind = "array" /\ p.vals = vals
  BY DEF Array
<1> HIDE DEF v
<1>5. vals # << >> /\ vals[1] = v
  <2>1. <<v>> \in Seq({v, Null}) /\ Nulls(k) \in Seq({v, Null})
    BY <1>1, NullsOf
  <2> QED BY <2>1
<1> HIDE DEF r, p, vals
<1>6. Suffix(r.method, "subscribe") /\ Front(r.method) = n
  BY <1>1, <1>3 DEF Suffix, Last, Front
<1>7. IsSubscribeMethod(p) /\ SubscribeMethod(p) = m
  BY <1>2, <1>4, <1>5 DEF IsSubscribeMethod, SubscribeMethod
<1>8. e = Header(TRUE, n, m, p, "")
  <2>1. e = Header(TRUE, Front(r.method), SubscribeMethod(r.params), r.params, "")
    BY <1>6 DEF BatchElement, Suffix
  <2> HIDE DEF e
  <2> QED BY <1>3, <1>6, <1>7, <2>1
<1> HIDE DEF e
<1>9. e.isPubSub = TRUE /\ e.service = n /\ e.method = m /\ e.params = p /\ e.err = ""
  BY <1>8 DEF Header
<1>10. ~BadId(r) /\ ~BadSub(r)
  BY <1>3, <1>7 DEF BadId, BadSub, checkReqId
<1>11. o = handle(readRequest(services, e), notifier)
  BY <1>10, AskOne DEF r, e
<1>12. readRequest(services, e) = Arguments("subscribe", c, p, <<"string">> \o ArgTypes(c.sig), 1)
  BY <1>9 DEF readRequest, EntryOf
<1>13. p = Array(<<v>> \o Nulls(Len(ArgTypes(c.sig))))
  BY DEF p, vals
<1>14. o = handle(Arguments("subscribe", c, p, <<"string">> \o ArgTypes(c.sig), 1), notifier)
  BY <1>11, <1>12
<1>15. Decodes(v, "string")
  BY <1>2 DEF Decodes
<1> QED BY <1>13, <1>14, <1>15, NullsSubscribe

\* The request for a method of an API gets through to it.
LEMMA CallAnswered ==
    ASSUME NEW i \in Nat, NEW n \in Names, NEW m \in Names, n # << >>, m # << >>, Len(n \o m) = 2,
           m[1] \notin {"subscribe", "unsubscribe"},
           NEW c, EntryOf(c, n, "callbacks", m), c.sig \in Signature,
           c.api >= i, Len(ArgTypes(c.sig)) \in ArgCounts
    PROVE  \E k \in ArgCounts : Answers(CallRequest(n, m, k), "call", i)
<1> DEFINE r == CallRequest(n, m, Len(ArgTypes(c.sig)))
<1>1. ASSUME NEW notifier, NEW o, o = Ask(r, notifier) PROVE o.kind = "call" /\ o.callb = c
  BY <1>1, CallReached
<1> HIDE DEF r
<1>2. Ask(r, TRUE).kind = "call" /\ Ask(r, TRUE).callb = c
  BY <1>1, Zenon
<1>3. Answers(r, "call", i)
  BY <1>2 DEF Answers
<1> QED BY <1>3 DEF r

\* The request for a subscription of an API gets through to it.
LEMMA SubscribeAnswered ==
    ASSUME NEW i \in Nat, NEW n \in Names, NEW m \in Names, n # << >>, ~Suffix(m, "unsubscribe"),
           NEW c, EntryOf(c, n, "subscriptions", m), c.sig \in Signature,
           c.api >= i, Len(ArgTypes(c.sig)) \in ArgCounts
    PROVE  \E k \in ArgCounts : Answers(SubscribeRequest(n, m, k), "subscribe", i)
<1> DEFINE r == SubscribeRequest(n, m, Len(ArgTypes(c.sig)))
<1>1. ASSUME NEW notifier, NEW o, o = Ask(r, notifier) PROVE o.kind = "subscribe" /\ o.callb = c
  BY <1>1, SubscribeReached
<1> HIDE DEF r
<1>2. Ask(r, TRUE).kind = "subscribe" /\ Ask(r, TRUE).callb = c
  BY <1>1, Zenon
<1>3. Answers(r, "subscribe", i)
  BY <1>2 DEF Answers
<1> QED BY <1>3 DEF r

\* What is in the tables is reached by its request.
LEMMA TablesReach == TablesInv => Reachable
<1> SUFFICES ASSUME TablesInv, state = "up",
                    NEW i \in DOMAIN Apis, Listed(whitelist, i), NEW g \in DOMAIN Apis[i].methods,
                    NEW sig, sig = Apis[i].methods[g], NEW n, n = Apis[i].namespace,
                    NEW m, m = <<LowerFirst[g[1]]>> \o Tail(g)
             PROVE  /\ IsCallback(sig) /\ Len(n \o m) = 2 /\ m[1] \notin {"subscribe", "unsubscribe"} =>
                         \E k \in ArgCounts : Answers(CallRequest(n, m, k), "call", i)
                    /\ IsSubscription(sig) /\ ~Suffix(m, "unsubscribe") =>
                         \E k \in ArgCounts : Answers(SubscribeRequest(n, m, k), "subscribe", i)
  BY DEF Reachable
<1>1. n \in Names /\ m = formatName(g) /\ m \in Names /\ m # << >>
  <2>1. n \in Names /\ g \in Names \ {<< >>} /\ LowerFirst[g[1]] \in STRING
    BY ApisAssumption
  <2>2. m = formatName(g) /\ formatName(g) \in Names /\ Len(formatName(g)) >= 1
    BY <2>1, FormatName
  <2>3. m # << >>
    BY <2>2
  <2> QED BY <2>1, <2>2, <2>3
<1>2. ASSUME IsCallback(sig), Len(n \o m) = 2, m[1] \notin {"subscribe", "unsubscribe"}
      PROVE  \E k \in ArgCounts : Answers(CallRequest(n, m, k), "call", i)
  <2>1. "callbacks" \in Tables /\ Suits("callbacks", sig)
    BY <1>2 DEF Suits, Tables
  <2> DEFINE entry == services[n]["callbacks"][m]
  <2>2. /\ n # << >> /\ EntryOf(entry, n, "callbacks", m)
        /\ entry.api >= i /\ entry.sig \in Signature /\ Len(ArgTypes(entry.sig)) \in ArgCounts
    BY <1>1, <2>1, EntryCounts DEF EntryOf
  <2> HIDE DEF entry
  <2>3. i \in Nat
    BY ApisDomain
  <2> QED BY <1>1, <1>2, <2>2, <2>3, CallAnswered
<1>3. ASSUME IsSubscription(sig), ~Suffix(m, "unsubscribe")
      PROVE  \E k \in ArgCounts : Answers(SubscribeRequest(n, m, k), "subscribe", i)
  <2>1. "subscriptions" \in Tables /\ Suits("subscriptions", sig)
    BY <1>3 DEF Suits, Tables
  <2> DEFINE entry == services[n]["subscriptions"][m]
  <2>2. /\ n # << >> /\ EntryOf(entry, n, "subscriptions", m)
        /\ entry.api >= i /\ entry.sig \in Signature /\ Len(ArgTypes(entry.sig)) \in ArgCounts
    BY <1>1, <2>1, EntryCounts DEF EntryOf
  <2> HIDE DEF entry
  <2>3. i \in Nat
    BY ApisDomain
  <2> QED BY <1>1, <1>3, <2>2, <2>3, SubscribeAnswered
<1> QED BY <1>2, <1>3

\* Every exposed method that the wire syntax can name answers the request for
\* it (RegisterName, formatName, parseRequest, readRequest).
THEOREM DispatchReachable == Spec => []Reachable
BY DispatchTables, TablesReach, PTL
=============================================================================
