-------------------------- MODULE SubscriptionScope -------------------------
(***************************************************************************)
(* event.SubscriptionScope (pkg/event/subscription.go): a set of wrapped   *)
(* subscriptions that Close cancels together.                              *)
(*                                                                         *)
(* A subscription s \in Subs is tracked by one call of Track, and its      *)
(* wrapper is unsubscribed by one call of scopeSub.Unsubscribe, both made  *)
(* by its user; Close is called by a third party.  The wrapped             *)
(* subscription is a feedSub: the first of its Unsubscribe calls does the  *)
(* work, any other waits for it (errOnce).                                 *)
(***************************************************************************)
CONSTANT Subs

VARIABLES
    subs,     \* sc.subs
    closed,   \* sc.closed
    userPc,   \* where the user of each subscription is
    closePc,  \* where Close is; it holds sc.mu in "closing" and "waiting"
    todo,     \* subscriptions the loop of Close has not come to
    cur,      \* the one whose Unsubscribe Close is waiting for
    inner     \* state of the wrapped subscription and who is cancelling it

vars == <<subs, closed, userPc, closePc, todo, cur, inner>>

MuFree == closePc \notin {"closing", "waiting"}

Init ==
    /\ subs = {}
    /\ closed = FALSE
    /\ userPc = [s \in Subs |-> "new"]
    /\ closePc = "idle"
    /\ todo = {}
    /\ cur = {}
    /\ inner = [s \in Subs |-> "open"]

\* Track; after Close it returns nil and the caller has no wrapper.
Track(s) ==
    /\ userPc[s] = "new"
    /\ MuFree
    /\ IF closed
       THEN /\ userPc' = [userPc EXCEPT ![s] = "refused"]
            /\ UNCHANGED subs
       ELSE /\ userPc' = [userPc EXCEPT ![s] = "tracked"]
            /\ subs' = subs \cup {s}
    /\ UNCHANGED <<closed, closePc, todo, cur, inner>>

\* scopeSub.Unsubscribe calls Unsubscribe of the wrapped subscription ...
Unsubscribe(s) ==
    /\ userPc[s] = "tracked"
    /\ userPc' = [userPc EXCEPT ![s] = "unsubscribing"]
    /\ inner' = [inner EXCEPT ![s] = IF @ = "open" THEN "byUser" ELSE @]
    /\ UNCHANGED <<subs, closed, closePc, todo, cur>>

\* Faulty variants: the wrapper stays in the set; it is only deleted from a
\* scope that is open.
BadForget(s) ==
    /\ userPc[s] = "unsubscribing"
    /\ inner[s] = "closed"
    /\ MuFree
    /\ userPc' = [userPc EXCEPT ![s] = "done"]
    /\ UNCHANGED <<subs, closed, closePc, todo, cur, inner>>
BadForgetOpen(s) ==
    /\ userPc[s] = "unsubscribing"
    /\ inner[s] = "closed"
    /\ MuFree /\ ~closed
    /\ subs' = subs \ {s}
    /\ userPc' = [userPc EXCEPT ![s] = "done"]
    /\ UNCHANGED <<closed, closePc, todo, cur, inner>>

\* ... which has done its work, whoever began it; then the wrapper is deleted
\* under sc.mu.
Forget(s) ==
    /\ userPc[s] = "unsubscribing"
    /\ inner[s] = "closed"
    /\ MuFree
    /\ subs' = subs \ {s}
    /\ userPc' = [userPc EXCEPT ![s] = "done"]
    /\ UNCHANGED <<closed, closePc, todo, cur, inner>>

\* The wrapped Unsubscribe finishes in the call that began it (external: the
\* feed lets it finish whatever its receivers do).
InnerDone(s) ==
    /\ inner[s] \in {"byUser", "byClose"}
    /\ inner' = [inner EXCEPT ![s] = "closed"]
    /\ UNCHANGED <<subs, closed, userPc, closePc, todo, cur>>

\* Close takes sc.mu; a second Close returns at once.
CloseBegin ==
    /\ closePc = "idle"
    /\ closed' = TRUE
    /\ closePc' = "closing"
    /\ todo' = subs
    /\ UNCHANGED <<subs, userPc, cur, inner>>

\* The loop of Close calls Unsubscribe of the next wrapped subscription.
\* Faulty variant first: one that its user is cancelling is skipped.
BadCloseNext(s) ==
    /\ closePc = "closing"
    /\ s \in todo
    /\ todo' = todo \ {s}
    /\ inner' = [inner EXCEPT ![s] = IF @ = "open" THEN "byClose" ELSE @]
    /\ IF inner[s] = "byUser"
       THEN UNCHANGED <<closePc, cur>>
       ELSE closePc' = "waiting" /\ cur' = {s}
    /\ UNCHANGED <<subs, closed, userPc>>

CloseNext(s) ==
    /\ closePc = "closing"
    /\ s \in todo
    /\ todo' = todo \ {s}
    /\ inner' = [inner EXCEPT ![s] = IF @ = "open" THEN "byClose" ELSE @]
    /\ closePc' = "waiting"
    /\ cur' = {s}
    /\ UNCHANGED <<subs, closed, userPc>>

\* That Unsubscribe returns.
CloseWait ==
    /\ closePc = "waiting"
    /\ \A s \in cur : inner[s] = "closed"
    /\ closePc' = "closing"
    /\ cur' = {}
    /\ UNCHANGED <<subs, closed, userPc, todo, inner>>

\* sc.subs = nil and the deferred Unlock.
CloseEnd ==
    /\ closePc = "closing"
    /\ todo = {}
    /\ subs' = {}
    /\ closePc' = "done"
    /\ UNCHANGED <<closed, userPc, todo, cur, inner>>

CloseStep == (\E s \in Subs : CloseNext(s)) \/ CloseWait \/ CloseEnd

\* The scope is closed: nobody need call it again.
Terminated == closePc = "done" /\ UNCHANGED vars

Next ==
    \/ \E s \in Subs : Track(s) \/ Unsubscribe(s) \/ Forget(s) \/ InnerDone(s)
    \/ CloseBegin \/ CloseStep
    \/ Terminated

\* A call that has begun goes on; nobody need call Unsubscribe or Close.
Spec ==
    /\ Init /\ [][Next]_vars
    /\ WF_vars(CloseStep)
    /\ \A s \in Subs : WF_vars(Forget(s)) /\ WF_vars(InnerDone(s))

-----------------------------------------------------------------------------
\* Type invariant of the scope and its users; sc.closed tells whether Close was
\* called, and Close only visits what is tracked.
TypeOK ==
    /\ subs \subseteq Subs
    /\ closed \in BOOLEAN
    /\ userPc \in [Subs -> {"new", "refused", "tracked", "unsubscribing", "done"}]
    /\ closePc \in {"idle", "closing", "waiting", "done"}
    /\ todo \subseteq subs
    /\ cur \subseteq subs
    /\ closed <=> closePc # "idle"
    /\ inner \in [Subs -> {"open", "byUser", "byClose", "closed"}]

\* When Close has returned, every subscription that Track accepted has been
\* cancelled, its Unsubscribe finished and not only begun, also one that was
\* tracked or unsubscribed by its user while Close ran.
CloseCancelsAll ==
    closePc = "done" =>
        \A s \in Subs : userPc[s] \in {"tracked", "unsubscribing", "done"} =>
                           inner[s] = "closed"

\* The set holds no wrapper whose Unsubscribe has returned, and every wrapper
\* whose subscription is open: the scope forgets nothing it must close.
TracksOpen ==
    /\ \A s \in subs : userPc[s] # "done"
    /\ \A s \in Subs : userPc[s] = "tracked" /\ inner[s] # "closed" => s \in subs

\* Close and Unsubscribe return although Close waits for Unsubscribes of
\* users while it holds the lock these need.
CallsReturn ==
    /\ closePc = "closing" ~> closePc = "done"
    /\ \A s \in Subs : userPc[s] = "unsubscribing" ~> userPc[s] = "done"
=============================================================================
