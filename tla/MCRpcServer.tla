----------------------------- MODULE MCRpcServer ----------------------------
(* Small instances of RpcServer for TLC. *)
EXTENDS RpcServer, TLC

CONSTANTS w, h, m1, m2, m3, sub1, sub2

Call == [kind |-> "call", id |-> NoSub]
Fail == [kind |-> "err", id |-> NoSub]

OneConnOf == [m \in {m1, m2, m3} |-> w]
OneScript == w :> <<m1, m2, m3>>
OneSubConn == sub1 :> w

\* One websocket client: a batch with a call and a subscription, which is
\* then cancelled twice.
SubsRequests ==
    (m1 :> <<Call, Subscribed(sub1)>>) @@ (m2 :> <<Unsubscribed(sub1)>>)
        @@ (m3 :> <<Unsubscribed(sub1)>>)

\* A websocket client that ends with a message that cannot be parsed, and an
\* HTTP client that asks for a subscription.
StopConnOf == (m1 :> w) @@ (m2 :> w) @@ (m3 :> h)
StopScript == (w :> <<m1, m2>>) @@ (h :> <<m3>>)
StopRequests ==
    (m1 :> <<Fail, Subscribed(sub1)>>) @@ (m2 :> << >>) @@ (m3 :> <<Subscribed(sub2)>>)
StopSubConn == (sub1 :> w) @@ (sub2 :> h)
=============================================================================
