-------------------------------- MODULE Feed --------------------------------
(***************************************************************************)
(* event.Feed (pkg/event/feed.go): one-to-many delivery of values over Go  *)
(* channels.                                                               *)
(*                                                                         *)
(* Every call is a process: a subscription sub \in Subs is one Subscribe   *)
(* call together with the Unsubscribe of the feedSub it returned, a sender *)
(* s \in Senders is one Send call.  Several subscriptions may use the same *)
(* channel, as the code allows.  A select case is identified by the        *)
(* subscription whose Subscribe created it; find compares channels only,   *)
(* so one subscription may well remove the case of another.                *)
(*                                                                         *)
(* Slot 0 of sendCases (the receive from removeSub) is left out, so index  *)
(* k here is index k of the Go slice, the fast path starts at              *)
(* firstSubSendCase = 1, and Go's -1 of find is 0.                         *)
(*                                                                         *)
(* A step is one operation on state that other goroutines see: a critical  *)
(* section of mu, a receive from or a send to sendLock, one TrySend, one   *)
(* Select.  once.Do(f.init) precedes everything and is part of Init.       *)
(***************************************************************************)
EXTENDS Integers, Sequences, FiniteSets, Functions

CONSTANTS
    Subs,      \* Subscribe calls
    Senders,   \* Send calls
    Chans,     \* channel arguments of Subscribe
    ChanOf,    \* the channel a subscription uses
    Cap,       \* buffer size of a channel
    Types,     \* reflect.Type values
    NoType,    \* nil reflect.Type; as ElemType: not a channel one can send on
    ElemType,  \* element type of a channel
    SendType   \* type of the value a Send is given

ASSUME SubsAssumption == IsFiniteSet(Subs)
ASSUME ChansAssumption ==
    /\ ChanOf \in [Subs -> Chans]
    /\ Cap \in [Chans -> Nat]
ASSUME TypesAssumption ==
    /\ NoType \notin Types
    /\ ElemType \in [Chans -> Types \cup {NoType}]
    /\ SendType \in [Senders -> Types]

VARIABLES
    inbox,      \* f.inbox: cases not yet seen by a Send
    sendCases,  \* f.sendCases without slot 0
    sendLock,   \* the token is in f.sendLock: no Send holds it
    mu,         \* f.mu is held by a call that will never release it
    etype,      \* f.etype
    subState,   \* where each subscription is
    pc,         \* where each Send is
    cases,      \* len(cases) of each Send: the active prefix of sendCases
    i,          \* loop index of each Send's fast path
    nsent,      \* result of each Send
    unread,     \* values in the buffer of each channel
    ready,      \* a receiver is blocked on the channel
    snap,       \* history: subscriptions of the channel when the Send began
    dropped,    \* history: cases of the channel removed during the Send
    delivered   \* history: values of the Send put on the channel

feedVars == <<inbox, sendCases, sendLock, mu, etype>>
subVars == <<subState>>
sendVars == <<pc, cases, i, nsent>>
chanVars == <<unread, ready>>
history == <<snap, dropped, delivered>>
vars == <<feedVars, subVars, sendVars, chanVars, history>>

-----------------------------------------------------------------------------
(* caseList *)

\* The smallest index whose case holds channel ch, 0 if there is none.
find(cs, ch) ==
    IF \E k \in 1..Len(cs) : ChanOf[cs[k]] = ch
    THEN CHOOSE k \in 1..Len(cs) :
            /\ ChanOf[cs[k]] = ch
            /\ \A m \in 1..(k - 1) : ChanOf[cs[m]] # ch
    ELSE 0

\* Faulty variant: keeps the case at index and drops the one after it.
BadDelete(cs, index) ==
    [k \in 1..(Len(cs) - 1) |-> IF k <= index THEN cs[k] ELSE cs[k + 1]]

\* cs without its element at index; defined for 1 <= index <= Len(cs) only,
\* as in Go, where any other index panics.
delete(cs, index) ==
    [k \in 1..(Len(cs) - 1) |-> IF k < index THEN cs[k] ELSE cs[k + 1]]

\* Faulty variant: shrinks the prefix without swapping the case out of it.
BadDeactivate(cs, index, last) == cs

\* The backing array after deactivate(index) on its prefix of length last.
deactivate(cs, index, last) ==
    [cs EXCEPT ![index] = cs[last], ![last] = cs[index]]

\* Length of a Send's prefix of length last once the case at index is deleted.
shrink(index, last) == IF index <= last THEN last - 1 ELSE last

\* Faulty variant: any type matches once the feed has one.
BadTypecheck(typ) == TRUE

typecheck(typ) == etype \in {NoType, typ}

-----------------------------------------------------------------------------
(* State formulae *)

InSend == {"locked", "try", "select"}      \* holds the send lock
Sending == {"try", "select"}               \* and works on its cases

\* Subscriptions of ch that Subscribe has returned and that no Unsubscribe
\* has finished.
Open(ch) == {x \in Subs : ChanOf[x] = ch /\ subState[x] \in {"live", "select"}}

\* The receiver side has room for one more value.
CanSend(ch) == ready[ch] \/ unread[ch] < Cap[ch]

-----------------------------------------------------------------------------
Init ==
    /\ inbox = << >>
    /\ sendCases = << >>
    /\ sendLock = TRUE
    /\ mu = FALSE
    /\ etype = NoType
    /\ subState = [x \in Subs |-> "none"]
    /\ pc = [s \in Senders |-> "idle"]
    /\ cases = [s \in Senders |-> 0]
    /\ i = [s \in Senders |-> 0]
    /\ nsent = [s \in Senders |-> 0]
    /\ unread = [ch \in Chans |-> 0]
    /\ ready = [ch \in Chans |-> FALSE]
    /\ snap = [s \in Senders |-> [ch \in Chans |-> 0]]
    /\ dropped = [s \in Senders |-> [ch \in Chans |-> 0]]
    /\ delivered = [s \in Senders |-> [ch \in Chans |-> 0]]

-----------------------------------------------------------------------------
(* Subscribe *)

\* The argument is not a channel one can send on: panic before any lock.
SubscribeBadChannel(sub) ==
    /\ subState[sub] = "none"
    /\ ElemType[ChanOf[sub]] = NoType
    /\ subState' = [subState EXCEPT ![sub] = "panicked"]
    /\ UNCHANGED <<feedVars, sendVars, chanVars, history>>

\* The critical section of Subscribe; the deferred Unlock runs on the panic.
Subscribe(sub) ==
    LET typ == ElemType[ChanOf[sub]] IN
    /\ subState[sub] = "none"
    /\ typ # NoType
    /\ ~mu
    /\ IF typecheck(typ)
       THEN /\ etype' = typ
            /\ inbox' = Append(inbox, sub)
            /\ subState' = [subState EXCEPT ![sub] = "live"]
       ELSE /\ subState' = [subState EXCEPT ![sub] = "panicked"]
            /\ UNCHANGED <<etype, inbox>>
    /\ UNCHANGED <<sendCases, sendLock, mu, sendVars, chanVars, history>>

-----------------------------------------------------------------------------
(* Unsubscribe and remove.  errOnce makes every call but the first wait for *)
(* it and do nothing, so a subscription takes these steps once.            *)

\* remove's critical section: delete the case from the inbox and return, or
\* go on to the select.
RemoveFromInbox(sub) ==
    LET index == find(inbox, ChanOf[sub]) IN
    /\ subState[sub] = "live"
    /\ ~mu
    /\ IF index # 0
       THEN /\ inbox' = delete(inbox, index)
            /\ subState' = [subState EXCEPT ![sub] = "closed"]
       ELSE /\ subState' = [subState EXCEPT ![sub] = "select"]
            /\ UNCHANGED inbox
    /\ UNCHANGED <<sendCases, sendLock, mu, etype, sendVars, chanVars, history>>

\* The select takes the send lock: delete the case and return the lock.
RemoveWithLock(sub) ==
    /\ subState[sub] = "select"
    /\ sendLock
    /\ sendCases' = delete(sendCases, find(sendCases, ChanOf[sub]))
    /\ subState' = [subState EXCEPT ![sub] = "closed"]
    /\ UNCHANGED <<inbox, sendLock, mu, etype, sendVars, chanVars, history>>

\* Faulty variant: Send does not listen on removeSub.
BadRemoveDuringSend(s, sub) == FALSE

\* The select's send on removeSub meets the Select of Send s (chosen == 0),
\* which deletes the case and shrinks its prefix if the case was active.
RemoveDuringSend(s, sub) ==
    LET ch == ChanOf[sub]
        index == find(sendCases, ch)
    IN
    /\ subState[sub] = "select"
    /\ pc[s] = "select"
    /\ sendCases' = delete(sendCases, index)
    /\ cases' = [cases EXCEPT ![s] = shrink(index, @)]
    /\ i' = [i EXCEPT ![s] = 1]
    /\ pc' = [pc EXCEPT ![s] = "try"]
    /\ subState' = [subState EXCEPT ![sub] = "closed"]
    /\ dropped' = [dropped EXCEPT ![s][ch] = @ + 1]
    /\ UNCHANGED <<inbox, sendLock, mu, etype, nsent, chanVars, snap, delivered>>

-----------------------------------------------------------------------------
(* Send *)

\* <-f.sendLock
SendLock(s) ==
    /\ pc[s] = "idle"
    /\ sendLock
    /\ sendLock' = FALSE
    /\ pc' = [pc EXCEPT ![s] = "locked"]
    /\ UNCHANGED <<inbox, sendCases, mu, etype, subVars, cases, i, nsent,
                   chanVars, history>>

\* The critical section of Send: take over the inbox, check the type.  On a
\* mismatch the token goes back to sendLock and the panic leaves mu locked.
SendMerge(s) ==
    LET all == sendCases \o inbox IN
    /\ pc[s] = "locked"
    /\ ~mu
    /\ sendCases' = all
    /\ inbox' = << >>
    /\ IF typecheck(SendType[s])
       THEN /\ etype' = SendType[s]
            /\ pc' = [pc EXCEPT ![s] = "try"]
            /\ cases' = [cases EXCEPT ![s] = Len(all)]
            /\ i' = [i EXCEPT ![s] = 1]
            /\ snap' = [snap EXCEPT ![s] = [ch \in Chans |-> Cardinality(Open(ch))]]
            /\ UNCHANGED <<sendLock, mu>>
       ELSE /\ sendLock' = TRUE
            /\ mu' = TRUE
            /\ pc' = [pc EXCEPT ![s] = "panicked"]
            /\ UNCHANGED <<etype, cases, i, snap>>
    /\ UNCHANGED <<subVars, nsent, chanVars, dropped, delivered>>

\* The value of s goes to the channel of its case k, which leaves the active
\* prefix: a waiting receiver takes it, otherwise it is buffered.
SendCase(s, k) ==
    LET ch == ChanOf[sendCases[k]] IN
    /\ CanSend(ch)
    /\ IF ready[ch]
       THEN ready' = [ready EXCEPT ![ch] = FALSE] /\ UNCHANGED unread
       ELSE unread' = [unread EXCEPT ![ch] = @ + 1] /\ UNCHANGED ready
    /\ sendCases' = deactivate(sendCases, k, cases[s])
    /\ cases' = [cases EXCEPT ![s] = @ - 1]
    /\ nsent' = [nsent EXCEPT ![s] = @ + 1]
    /\ delivered' = [delivered EXCEPT ![s][ch] = @ + 1]

\* One iteration of the fast path whose TrySend succeeds (i-- then i++).
TrySendOk(s) ==
    /\ pc[s] = "try"
    /\ i[s] <= cases[s]
    /\ SendCase(s, i[s])
    /\ UNCHANGED <<inbox, sendLock, mu, etype, subVars, pc, i, snap, dropped>>

\* One iteration of the fast path whose TrySend finds no room.
TrySendFull(s) ==
    /\ pc[s] = "try"
    /\ i[s] <= cases[s]
    /\ ~CanSend(ChanOf[sendCases[i[s]]])
    /\ i' = [i EXCEPT ![s] = @ + 1]
    /\ UNCHANGED <<feedVars, subVars, pc, cases, nsent, chanVars, history>>

\* The fast path is over: return the lock and the result if no case is
\* left, block in Select otherwise.
FastPathEnd(s) ==
    /\ pc[s] = "try"
    /\ i[s] > cases[s]
    /\ IF cases[s] = 0
       THEN /\ pc' = [pc EXCEPT ![s] = "done"]
            /\ sendLock' = TRUE
       ELSE /\ pc' = [pc EXCEPT ![s] = "select"]
            /\ UNCHANGED sendLock
    /\ UNCHANGED <<inbox, sendCases, mu, etype, subVars, cases, i, nsent,
                   chanVars, history>>

\* The cases given to Select.  Faulty variant first: the last one is left out.
BadSelectable(s) == 1..(cases[s] - 1)
Selectable(s) == 1..cases[s]

\* Select chooses a case whose channel has room.
SelectSend(s) ==
    /\ pc[s] = "select"
    /\ \E k \in Selectable(s) : SendCase(s, k)
    /\ pc' = [pc EXCEPT ![s] = "try"]
    /\ i' = [i EXCEPT ![s] = 1]
    /\ UNCHANGED <<inbox, sendLock, mu, etype, subVars, snap, dropped>>

-----------------------------------------------------------------------------
(* The receiver of a channel (a user of the package): takes a buffered     *)
(* value, or blocks on the empty channel until a Send hands it one.        *)
Recv(ch) ==
    /\ IF unread[ch] > 0
       THEN unread' = [unread EXCEPT ![ch] = @ - 1] /\ UNCHANGED ready
       ELSE ~ready[ch] /\ ready' = [ready EXCEPT ![ch] = TRUE] /\ UNCHANGED unread
    /\ UNCHANGED <<feedVars, subVars, sendVars, history>>

\* Every call has returned or panicked and every receiver waits.
Terminated ==
    /\ \A x \in Subs : subState[x] \in {"closed", "panicked"}
    /\ \A s \in Senders : pc[s] \in {"done", "panicked"}
    /\ UNCHANGED vars

SubStep(sub) ==
    \/ SubscribeBadChannel(sub)
    \/ Subscribe(sub)
    \/ RemoveFromInbox(sub)
    \/ RemoveWithLock(sub)
    \/ \E s \in Senders : RemoveDuringSend(s, sub)

SendStep(s) ==
    \/ SendLock(s)
    \/ SendMerge(s)
    \/ TrySendOk(s)
    \/ TrySendFull(s)
    \/ FastPathEnd(s)
    \/ SelectSend(s)

Next ==
    \/ \E sub \in Subs : SubStep(sub)
    \/ \E s \in Senders : SendStep(s)
    \/ \E ch \in Chans : Recv(ch)
    \/ Terminated

Spec == Init /\ [][Next]_vars

-----------------------------------------------------------------------------
(* Properties *)

\* The cases of channel ch in a list.
EntriesOf(cs, ch) == {x \in Range(cs) : ChanOf[x] = ch}
Selecting(ch) == {x \in Subs : ChanOf[x] = ch /\ subState[x] = "select"}

\* Type invariant: every field of the Feed, of the calls in progress and of
\* the channels has the values the code can give it; a buffer never exceeds
\* its capacity.
TypeOK ==
    /\ inbox \in Seq(Subs)
    /\ sendCases \in Seq(Subs)
    /\ sendLock \in BOOLEAN
    /\ mu \in BOOLEAN
    /\ etype \in Types \cup {NoType}
    /\ subState \in [Subs -> {"none", "panicked", "live", "select", "closed"}]
    /\ pc \in [Senders -> InSend \cup {"idle", "done", "panicked"}]
    /\ cases \in [Senders -> Nat]
    /\ i \in [Senders -> Nat]
    /\ nsent \in [Senders -> Nat]
    /\ unread \in [Chans -> Nat]
    /\ \A ch \in Chans : unread[ch] <= Cap[ch]
    /\ ready \in [Chans -> BOOLEAN]
    /\ snap \in [Senders -> [Chans -> Nat]]
    /\ dropped \in [Senders -> [Chans -> Nat]]
    /\ delivered \in [Senders -> [Chans -> Nat]]

\* The send lock: the token is away exactly while one Send is between its
\* receive from sendLock and its send to it, and never two Sends are.  This
\* is what makes sendCases safe to edit without mu.
LockInv ==
    /\ sendLock <=> \A s \in Senders : pc[s] \notin InSend
    /\ \A s, t \in Senders : pc[s] \in InSend /\ pc[t] \in InSend => s = t

\* A Send's prefix lies inside sendCases and its loop index inside the prefix
\* or just past it, although removals shrink both: no access is out of range.
PrefixInv ==
    \A s \in Senders : pc[s] \in Sending =>
        /\ cases[s] <= Len(sendCases)
        /\ i[s] \in 1..(cases[s] + 1)
        /\ pc[s] = "select" => cases[s] > 0

\* No case is in the lists twice, and every channel has one case for every
\* open subscription of it, whichever subscription's Unsubscribe took which
\* case: Subscribe, Send and Unsubscribe neither lose nor leak a case.
CasesMatchSubs ==
    /\ IsInjective(sendCases)
    /\ IsInjective(inbox)
    /\ Range(sendCases) \cap Range(inbox) = {}
    /\ \A ch \in Chans :
         Cardinality(EntriesOf(sendCases, ch)) + Cardinality(EntriesOf(inbox, ch))
            = Cardinality(Open(ch))

\* An Unsubscribe past the inbox always finds a case to delete: find never
\* yields -1 in remove or in Send, where delete would panic.
CaseFound ==
    \A x \in Subs : subState[x] = "select" => find(sendCases, ChanOf[x]) # 0

\* The values a Send has put on channels, one element for each.
Copies(s) == UNION {{ch} \X (1..delivered[s][ch]) : ch \in Chans}

\* Result of Send: it has put its value on every channel once for each
\* subscription that was open when it began, except for those that were
\* removed meanwhile, never more often, and nsent is the number of these.
SendComplete ==
    \A s \in Senders : pc[s] = "done" =>
        /\ \A ch \in Chans :
             /\ delivered[s][ch] <= snap[s][ch]
             /\ delivered[s][ch] >= snap[s][ch] - dropped[s][ch]
        /\ nsent[s] = Cardinality(Copies(s))

\* A Send only ever meets channels of its own type (TrySend and Select panic
\* otherwise): every case has the feed's type, also after calls that panicked.
TypeSafe ==
    /\ \A x \in Range(sendCases) \cup Range(inbox) : ElemType[ChanOf[x]] = etype
    /\ \A s \in Senders : pc[s] \in Sending => SendType[s] = etype

\* Unsubscribe ends delivery: no Send puts a value on a channel all of whose
\* subscriptions have been cancelled by an Unsubscribe that has returned.
NoDeliveryAfterUnsubscribe ==
    [][\A s \in Senders, ch \in Chans :
          delivered'[s][ch] # delivered[s][ch] => Open(ch) # {}]_vars

-----------------------------------------------------------------------------
(* Refinement: members are the open subscriptions, the round is the Send   *)
(* past its critical section, and what it still owes is its active prefix. *)

Round == {s \in Senders : pc[s] \in Sending}

Owed(ch) ==
    {k \in 1..Len(sendCases) :
        ChanOf[sendCases[k]] = ch /\ \E s \in Round : k <= cases[s]}

Abstract == INSTANCE FeedSpec WITH
    members <- [ch \in Chans |-> Cardinality(Open(ch))],
    round <- Round,
    pending <- [ch \in Chans |-> Cardinality(Owed(ch))],
    finished <- {s \in Senders : pc[s] \in {"done", "panicked"}}

\* The Feed keeps the promise FeedSpec states: each of its steps is a step of
\* the abstract feed or none, however calls interleave and whichever case
\* find picks.
ImplementsFeedSpec == Abstract!Spec

-----------------------------------------------------------------------------
(* Fairness: the Go scheduler runs every runnable goroutine, and a blocked *)
(* channel operation whose partner stays available is completed.  Nothing  *)
(* is assumed of the callers: they need not call Unsubscribe or receive.   *)

\* A call that has begun goes on; Subscribe and Unsubscribe need not be called.
CallsGoOn ==
    /\ \A s \in Senders : WF_vars(SendStep(s))
    /\ \A x \in Subs : WF_vars(RemoveWithLock(x) \/ \E s \in Senders : RemoveDuringSend(s, x))

FairSpec == Spec /\ CallsGoOn

\* Unsubscribe returns even if a Send is blocked on a receiver that never
\* receives again (removeSub interrupts the Send).
UnsubscribeReturns ==
    \A x \in Subs : subState[x] = "select" ~> subState[x] = "closed"

\* Send gets the lock and returns if the receivers keep receiving, whatever
\* subscribes and unsubscribes meanwhile.
SendReturns ==
    (\A ch \in Chans : WF_vars(Recv(ch)))
        => \A s \in Senders : pc[s] = "idle" ~> pc[s] = "done"
=============================================================================
