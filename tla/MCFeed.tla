------------------------------- MODULE MCFeed -------------------------------
(* Small instances of Feed for TLC. *)
EXTENDS Feed, TLC

CONSTANTS x1, x2, x3, x4, s1, s2, c1, c2, c3, c4, T, U

\* Two subscriptions share the unbuffered channel c1; c2 has one place.
SharedChanOf == (x1 :> c1) @@ (x2 :> c1) @@ (x3 :> c2)
SharedCap == (c1 :> 0) @@ (c2 :> 1)
OneElemType == (c1 :> T) @@ (c2 :> T)
OneSendType == (s1 :> T) @@ (s2 :> T)

\* Channels of two types and an argument that is no sendable channel; either
\* type may come first.
TypedChanOf == (x1 :> c1) @@ (x2 :> c2) @@ (x3 :> c3) @@ (x4 :> c4)
TypedCap == (c1 :> 1) @@ (c2 :> 0) @@ (c3 :> 1) @@ (c4 :> 0)
TypedElemType == (c1 :> T) @@ (c2 :> T) @@ (c3 :> U) @@ (c4 :> NoType)
TypedSendType == (s1 :> T) @@ (s2 :> U)

\* Two Sends of a type that differs from the channels'.
WrongSendType == (s1 :> U) @@ (s2 :> U)
=============================================================================
