------------------------------ MODULE EventMsg ------------------------------
(***************************************************************************)
(* The result subscriptions of a generated service: the event loop of      *)
(* EventMsg (template/subscribe.go.tpl), the goroutine that                *)
(* ResultsSubscription starts for each client (template/@@@@@.go.tpl) and  *)
(* Manager.Stop, which cancels the loop's context                          *)
(* (template/manager.go.tpl).                                              *)
(*                                                                         *)
(* Results reach the loop through a Feed on which resultsCh is the only    *)
(* subscribed channel.  The module Feed shows that a Send then puts one    *)
(* copy into that channel, waiting while it is full; this is all that is   *)
(* kept of it here.  Nobody unsubscribes resultsSub and nobody closes the  *)
(* Manager's scope, so the loop's case of resultsSub.Err() never fires.    *)
(***************************************************************************)
EXTENDS Integers, Sequences

CONSTANTS
    Subs,       \* client subscriptions, each with its goroutine
    MaxSends,   \* bound: calls of resultsFeed.Send
    EvChanSize, \* resultEvChanSize, the capacity of resultsCh
    ChanSize    \* capacity of the channel a client's goroutine makes

ASSUME SizesArePositive ==
    MaxSends \in Nat /\ EvChanSize \in Nat \ {0} /\ ChanSize \in Nat \ {0}

\* Sends are carried out one at a time; a result is named by its place in that
\* order.
Sends == 1..MaxSends

VARIABLES
    sendPc,    \* where each Send is
    resultsCh, \* contents of resultsCh
    loop,      \* where eventLoop is
    event,     \* the result that broadcast delivers, as a sequence of at most one
    todo,      \* subscriptions that the loop of broadcast has not served yet
    index,     \* es.index[ResultsTaskSubscription]
    pc,        \* where the goroutine of each subscription is
    results,   \* contents of each goroutine's channel
    err,       \* whether a subscription's err channel is closed
    done,      \* whether the context is cancelled
    log,       \* history: results in the order the loop took them
    base,      \* history: length of log when a subscription was installed
    taken      \* history: what a goroutine received, in order

loopVars == <<loop, event, todo, index>>
vars == <<sendPc, resultsCh, loopVars, pc, results, err, done,
          log, base, taken>>

Init ==
    /\ sendPc = [r \in Sends |-> "idle"]
    /\ resultsCh = <<>>
    /\ loop = "select" /\ event = <<>> /\ todo = {} /\ index = {}
    /\ pc = [s \in Subs |-> "new"]
    /\ results = [s \in Subs |-> <<>>]
    /\ err = [s \in Subs |-> FALSE]
    /\ done = FALSE
    /\ log = <<>>
    /\ base = [s \in Subs |-> 0]
    /\ taken = [s \in Subs |-> <<>>]

-----------------------------------------------------------------------------
\* WriteFile and ReadFile announce a result with resultsFeed.Send ...
SendCall(r) ==
    /\ sendPc[r] = "idle"
    /\ \A q \in 1..(r - 1) : sendPc[q] # "idle"
    /\ sendPc' = [sendPc EXCEPT ![r] = "sending"]
    /\ UNCHANGED <<resultsCh, loopVars, pc, results, err, done, log, base, taken>>

\* ... which returns when resultsCh has taken it.
SendDeliver(r) ==
    /\ sendPc[r] = "sending"
    /\ \A q \in 1..(r - 1) : sendPc[q] = "returned"
    /\ Len(resultsCh) < EvChanSize
    /\ resultsCh' = Append(resultsCh, r)
    /\ sendPc' = [sendPc EXCEPT ![r] = "returned"]
    /\ UNCHANGED <<loopVars, pc, results, err, done, log, base, taken>>

-----------------------------------------------------------------------------
\* eventLoop takes a result and begins to broadcast it.
LoopResult ==
    /\ loop = "select"
    /\ resultsCh # <<>>
    /\ resultsCh' = Tail(resultsCh)
    /\ loop' = "broadcast"
    /\ event' = <<Head(resultsCh)>>
    /\ todo' = index
    /\ log' = Append(log, Head(resultsCh))
    /\ UNCHANGED <<sendPc, index, pc, results, err, done, base, taken>>

\* Faulty variant: a full channel is skipped.
BadBroadcast(s) ==
    /\ loop = "broadcast"
    /\ s \in todo
    /\ results' = IF Len(results[s]) < ChanSize
                  THEN [results EXCEPT ![s] = @ \o event] ELSE results
    /\ todo' = todo \ {s}
    /\ UNCHANGED <<sendPc, resultsCh, loop, event, index, pc, err, done,
                   log, base, taken>>

\* broadcast sends the result to the next subscription, waiting while its
\* channel is full.
Broadcast(s) ==
    /\ loop = "broadcast"
    /\ s \in todo
    /\ Len(results[s]) < ChanSize
    /\ results' = [results EXCEPT ![s] = @ \o event]
    /\ todo' = todo \ {s}
    /\ UNCHANGED <<sendPc, resultsCh, loop, event, index, pc, err, done,
                   log, base, taken>>

BroadcastEnd ==
    /\ loop = "broadcast"
    /\ todo = {}
    /\ loop' = "select"
    /\ event' = <<>>
    /\ UNCHANGED <<sendPc, resultsCh, todo, index, pc, results, err, done,
                   log, base, taken>>

\* subscribe meets the install case, and returns when installed is closed.
Install(s) ==
    /\ loop = "select"
    /\ pc[s] = "subscribe"
    /\ index' = index \cup {s}
    /\ pc' = [pc EXCEPT ![s] = "receive"]
    /\ base' = [base EXCEPT ![s] = Len(log)]
    /\ UNCHANGED <<sendPc, resultsCh, loop, event, todo, results, err, done,
                   log, taken>>

\* Faulty variants: the subscription stays in the index; the uninstall case
\* does not wait for the end of a broadcast.
BadUninstall(s) ==
    /\ loop = "select"
    /\ pc[s] = "uninstall"
    /\ err' = [err EXCEPT ![s] = TRUE]
    /\ pc' = [pc EXCEPT ![s] = "waitErr"]
    /\ UNCHANGED <<sendPc, resultsCh, loopVars, results, done,
                   log, base, taken>>
BadUninstallEarly(s) ==
    /\ loop # "stopped"
    /\ pc[s] = "uninstall"
    /\ index' = index \ {s}
    /\ err' = [err EXCEPT ![s] = TRUE]
    /\ pc' = [pc EXCEPT ![s] = "waitErr"]
    /\ UNCHANGED <<sendPc, resultsCh, loop, event, todo, results, done,
                   log, base, taken>>

\* Unsubscribe meets the uninstall case.
Uninstall(s) ==
    /\ loop = "select"
    /\ pc[s] = "uninstall"
    /\ index' = index \ {s}
    /\ err' = [err EXCEPT ![s] = TRUE]
    /\ pc' = [pc EXCEPT ![s] = "waitErr"]
    /\ UNCHANGED <<sendPc, resultsCh, loop, event, todo, results, done,
                   log, base, taken>>

\* The loop sees the cancelled context; select may prefer any other ready case.
LoopStop ==
    /\ loop = "select"
    /\ done
    /\ loop' = "stopped"
    /\ UNCHANGED <<sendPc, resultsCh, event, todo, index, pc, results, err, done,
                   log, base, taken>>

\* Manager.Stop.
Stop ==
    /\ ~done
    /\ done' = TRUE
    /\ UNCHANGED <<sendPc, resultsCh, loopVars, pc, results, err, log, base, taken>>

-----------------------------------------------------------------------------
\* ResultsSubscription starts the goroutine, which calls SubscribeResultTask.
ResultsSubscription(s) ==
    /\ pc[s] = "new"
    /\ pc' = [pc EXCEPT ![s] = "subscribe"]
    /\ UNCHANGED <<sendPc, resultsCh, loopVars, results, err, done, log, base, taken>>

\* The goroutine receives a result and notifies the client.
Receive(s) ==
    /\ pc[s] = "receive"
    /\ results[s] # <<>>
    /\ taken' = [taken EXCEPT ![s] = Append(@, Head(results[s]))]
    /\ results' = [results EXCEPT ![s] = Tail(@)]
    /\ UNCHANGED <<sendPc, resultsCh, loopVars, pc, err, done, log, base>>

\* The client has unsubscribed or its connection has ended, at any time: the
\* goroutine notices and calls Unsubscribe.
Leave(s) ==
    /\ pc[s] = "receive"
    /\ pc' = [pc EXCEPT ![s] = "uninstall"]
    /\ UNCHANGED <<sendPc, resultsCh, loopVars, results, err, done, log, base, taken>>

\* Faulty variant: Unsubscribe does not receive what the loop sends to it.
BadDrain(s) ==
    FALSE /\ UNCHANGED vars

\* Unsubscribe drops results until the loop takes its request.
Drain(s) ==
    /\ pc[s] = "uninstall"
    /\ results[s] # <<>>
    /\ taken' = [taken EXCEPT ![s] = Append(@, Head(results[s]))]
    /\ results' = [results EXCEPT ![s] = Tail(@)]
    /\ UNCHANGED <<sendPc, resultsCh, loopVars, pc, err, done, log, base>>

\* Unsubscribe returns, and the goroutine ends.
UnsubscribeReturn(s) ==
    /\ pc[s] = "waitErr"
    /\ err[s]
    /\ pc' = [pc EXCEPT ![s] = "returned"]
    /\ UNCHANGED <<sendPc, resultsCh, loopVars, results, err, done, log, base, taken>>

-----------------------------------------------------------------------------
LoopStep ==
    \/ LoopResult \/ BroadcastEnd \/ LoopStop
    \/ \E s \in Subs : Broadcast(s) \/ Install(s) \/ Uninstall(s)

SubStep(s) ==
    Receive(s) \/ Leave(s) \/ Drain(s) \/ UnsubscribeReturn(s)

Next ==
    \/ \E r \in Sends : SendCall(r) \/ SendDeliver(r)
    \/ LoopStep
    \/ Stop
    \/ \E s \in Subs : ResultsSubscription(s) \/ SubStep(s)

Spec == Init /\ [][Next]_vars

\* The Go scheduler lets the loop, a Send that was called and every goroutine
\* go on, and a ready case of the loop's select is not passed over for ever.
\* Nobody need call Send, subscribe, leave or stop.
FairSpec ==
    /\ Spec
    /\ WF_vars(LoopResult) /\ WF_vars(BroadcastEnd) /\ WF_vars(LoopStop)
    /\ \A r \in Sends : WF_vars(SendDeliver(r))
    /\ \A s \in Subs :
          /\ WF_vars(Broadcast(s)) /\ WF_vars(Install(s)) /\ WF_vars(Uninstall(s))
          /\ WF_vars(Receive(s) \/ Drain(s))
          /\ WF_vars(UnsubscribeReturn(s))

-----------------------------------------------------------------------------
\* Type invariant: channels within their capacity, and broadcast has something
\* to send to indexed subscriptions only.
TypeOK ==
    /\ sendPc \in [Sends -> {"idle", "sending", "returned"}]
    /\ resultsCh \in Seq(Sends) /\ Len(resultsCh) <= EvChanSize
    /\ loop \in {"select", "broadcast", "stopped"}
    /\ event \in Seq(Sends) /\ Len(event) = IF loop = "broadcast" THEN 1 ELSE 0
    /\ index \subseteq Subs
    /\ todo \subseteq index
    /\ loop # "broadcast" => todo = {}
    /\ pc \in [Subs -> {"new", "subscribe", "receive", "uninstall", "waitErr", "returned"}]
    /\ results \in [Subs -> Seq(Sends)]
    /\ \A s \in Subs : Len(results[s]) <= ChanSize
    /\ err \in [Subs -> BOOLEAN]
    /\ done \in BOOLEAN
    /\ log \in Seq(Sends)
    /\ base \in [Subs -> 0 .. Len(log)]
    /\ taken \in [Subs -> Seq(Sends)]

\* What the goroutine of an installed subscription has received, followed by
\* what waits in its channel, is every result the loop took since Install, in
\* that order and without a gap; only the one being broadcast may be missing.
\* The order of client goroutines, slow channels and Unsubscribes of others
\* makes no difference.
NoGap ==
    \A s \in index :
        taken[s] \o results[s] =
            SubSeq(log, base[s] + 1, Len(log) - IF s \in todo THEN 1 ELSE 0)

\* Once Unsubscribe has returned, the loop never sends to the channel again:
\* its owner may close it.
ChannelUnused ==
    [][\A s \in Subs : pc[s] = "returned" => results'[s] = results[s]]_vars

\* As long as the Manager is not stopped, Unsubscribe returns with its err
\* channel closed, also when it was called while broadcast waits for room in
\* that very channel; and Send returns: clients that leave while their channels
\* are full do not hold back those who announce results.
CallsReturn ==
    /\ \A s \in Subs : pc[s] = "uninstall" ~> done \/ (pc[s] = "returned" /\ err[s])
    /\ \A r \in Sends : sendPc[r] = "sending" ~> done \/ sendPc[r] = "returned"

\* What subscribe.go.tpl:139-144 says of Err and Unsubscribe: the subscription
\* is uninstalled and its err channel closed.
UnsubscribeClosesErr ==
    \A s \in Subs : pc[s] = "uninstall" ~> err[s]
=============================================================================
