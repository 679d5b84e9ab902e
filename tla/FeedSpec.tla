------------------------------ MODULE FeedSpec ------------------------------
(***************************************************************************)
(* What event.Feed promises, without its lists and locks: subscriptions    *)
(* come and go at any time; Sends are carried out one after the other as   *)
(* rounds; a round owes one copy of its value to every subscription that   *)
(* is open when it begins; a debt is settled by a delivery or by the end   *)
(* of a subscription of that channel, and the round ends when none is left.*)
(***************************************************************************)
EXTENDS Integers

CONSTANTS Chans, Senders

VARIABLES
    members,    \* number of open subscriptions of each channel
    round,      \* the Send being carried out, as a set of at most one
    pending,    \* copies the round still owes to each channel
    delivered,  \* copies each Send has put on each channel
    finished    \* Sends that have returned or panicked

vars == <<members, round, pending, delivered, finished>>

Init ==
    /\ members = [ch \in Chans |-> 0]
    /\ round = {}
    /\ pending = [ch \in Chans |-> 0]
    /\ delivered = [s \in Senders |-> [ch \in Chans |-> 0]]
    /\ finished = {}

Join(ch) ==
    /\ members' = [members EXCEPT ![ch] = @ + 1]
    /\ UNCHANGED <<round, pending, delivered, finished>>

\* A subscription ends; if a copy is still owed to the channel, it may be the
\* one this subscription was to get.
Leave(ch) ==
    /\ members[ch] > 0
    /\ members' = [members EXCEPT ![ch] = @ - 1]
    /\ \E d \in {0, 1} :
         /\ pending[ch] - d \in 0..(members[ch] - 1)
         /\ pending' = [pending EXCEPT ![ch] = @ - d]
    /\ UNCHANGED <<round, delivered, finished>>

Begin(s) ==
    /\ round = {}
    /\ s \notin finished
    /\ round' = {s}
    /\ pending' = members
    /\ UNCHANGED <<members, delivered, finished>>

Deliver(s, ch) ==
    /\ s \in round
    /\ pending[ch] > 0
    /\ pending' = [pending EXCEPT ![ch] = @ - 1]
    /\ delivered' = [delivered EXCEPT ![s][ch] = @ + 1]
    /\ UNCHANGED <<members, round, finished>>

End(s) ==
    /\ s \in round
    /\ \A ch \in Chans : pending[ch] = 0
    /\ round' = {}
    /\ finished' = finished \cup {s}
    /\ UNCHANGED <<members, pending, delivered>>

\* A Send whose type does not match delivers nothing.
Abort(s) ==
    /\ round = {}
    /\ s \notin finished
    /\ finished' = finished \cup {s}
    /\ UNCHANGED <<members, round, pending, delivered>>

Next ==
    \/ \E ch \in Chans : Join(ch) \/ Leave(ch)
    \/ \E s \in Senders : Begin(s) \/ End(s) \/ Abort(s)
    \/ \E s \in Senders, ch \in Chans : Deliver(s, ch)

Spec == Init /\ [][Next]_vars

-----------------------------------------------------------------------------
TypeOK ==
    /\ members \in [Chans -> Nat]
    /\ round \in SUBSET Senders
    /\ pending \in [Chans -> Nat]
    /\ delivered \in [Senders -> [Chans -> Nat]]
    /\ finished \in SUBSET Senders

\* A round never owes a channel more copies than it has open subscriptions,
\* owes nothing when there is no round, and a Send is carried out once.
DebtInv ==
    /\ \A ch \in Chans : pending[ch] <= members[ch]
    /\ round = {} => \A ch \in Chans : pending[ch] = 0
    /\ round \cap finished = {}
    /\ \A s, t \in round : s = t

\* What a Send has put on the channels never changes once it has returned.
Kept == \A s \in finished : delivered'[s] = delivered[s] /\ s \in finished'
FinalDeliveries == [][Kept]_vars
=============================================================================
