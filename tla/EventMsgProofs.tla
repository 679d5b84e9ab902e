--------------------------- MODULE EventMsgProofs ---------------------------
(***************************************************************************)
(* Proofs about EventMsg for any number of subscriptions, any number of    *)
(* results and any capacity of the channels.                               *)
(***************************************************************************)
EXTENDS EventMsg, SequenceTheorems, TLAPS

-----------------------------------------------------------------------------
(* The operations on channels and on the log                               *)

\* Taking the head of a channel moves it to the end of what was taken.
LEMMA TakeHead ==
    ASSUME NEW S, NEW t \in Seq(S), NEW r \in Seq(S), r # << >>
    PROVE  /\ Append(t, Head(r)) \in Seq(S)
           /\ Tail(r) \in Seq(S)
           /\ Len(Tail(r)) < Len(r)
           /\ Append(t, Head(r)) \o Tail(r) = t \o r
<1>1. Head(r) \in S /\ Tail(r) \in Seq(S) /\ Len(Tail(r)) = Len(r) - 1
  BY HeadTailProperties
<1>2. Append(t, Head(r)) = t \o <<Head(r)>>
  BY <1>1, AppendIsConcat
<1>3. <<Head(r)>> \in Seq(S) /\ Append(t, Head(r)) \in Seq(S)
  BY <1>1
<1>4. (t \o <<Head(r)>>) \o Tail(r) = t \o (<<Head(r)>> \o Tail(r))
  BY <1>1, <1>3, ConcatAssociative
<1>5. <<Head(r)>> \o Tail(r) = r
  <2> DEFINE u == <<Head(r)>> \o Tail(r)
  <2>1. u \in Seq(S) /\ Len(u) = Len(r)
    BY <1>1, <1>3
  <2>2. \A i \in 1..Len(u) : u[i] = r[i]
    BY <1>1, <1>3
  <2> HIDE DEF u
  <2>3. u = r
    BY <2>1, <2>2, SeqEqual
  <2> QED BY <2>3 DEF u
<1>6. Len(r) \in Nat
  BY LenProperties
<1> QED BY <1>1, <1>2, <1>3, <1>4, <1>5, <1>6

\* A new result at the end leaves the older part of the log as it was.
LEMMA LogGrows ==
    ASSUME NEW S, NEW l \in Seq(S), NEW e \in S, NEW m \in 1..(Len(l) + 1)
    PROVE  SubSeq(Append(l, e), m, Len(l)) = SubSeq(l, m, Len(l))
OBVIOUS

\* What has been taken of the log grows by the result that is broadcast.
LEMMA LogServed ==
    ASSUME NEW S, NEW l \in Seq(S), NEW m \in 1..Len(l)
    PROVE  SubSeq(l, m, Len(l) - 1) \o <<l[Len(l)]>> = SubSeq(l, m, Len(l))
<1>1. Len(l) \in m..Len(l)
  BY LenProperties
<1> QED BY <1>1, SubSeqRecursiveSecond

-----------------------------------------------------------------------------
(* The inductive invariant.  NoGap alone is not inductive: a subscription   *)
(* must come to the index with an empty channel, only its own goroutine may *)
(* leave the index, and what broadcast sends must be the end of the log.    *)

\* The index holds the subscriptions between install and uninstall.
IndexInv == \A s \in Subs : s \in index <=> pc[s] \in {"receive", "uninstall"}

\* A channel that was not installed yet has not been used.
FreshInv ==
    \A s \in Subs : pc[s] \in {"new", "subscribe"} => results[s] = << >> /\ taken[s] = << >>

\* broadcast delivers the newest result of the log, which is newer than any
\* subscription it has still to serve.
EventInv ==
    loop = "broadcast" =>
        /\ Len(log) > 0 /\ event = <<log[Len(log)]>>
        /\ \A s \in index : base[s] < Len(log)

IndInv == TypeOK /\ IndexInv /\ FreshInv /\ EventInv /\ NoGap

LEMMA IndInvInit == Init => IndInv
<1> SUFFICES ASSUME Init PROVE IndInv
  OBVIOUS
<1>1. << >> \in Seq(Sends) /\ Len(<< >>) = 0
  OBVIOUS
<1>2. TypeOK
  <2>1. /\ resultsCh \in Seq(Sends) /\ Len(resultsCh) <= EvChanSize
        /\ event \in Seq(Sends) /\ Len(event) = IF loop = "broadcast" THEN 1 ELSE 0
        /\ log \in Seq(Sends) /\ Len(log) = 0
    BY <1>1, SizesArePositive DEF Init
  <2>2. base \in [Subs -> 0..Len(log)]
    BY <2>1 DEF Init
  <2>3. results \in [Subs -> Seq(Sends)] /\ taken \in [Subs -> Seq(Sends)]
    BY <1>1 DEF Init
  <2>4. ASSUME NEW s \in Subs PROVE Len(results[s]) <= ChanSize
    <3>1. results[s] = << >>
      BY DEF Init
    <3> QED BY <1>1, <3>1, SizesArePositive
  <2> QED BY <2>1, <2>2, <2>3, <2>4 DEF Init, TypeOK
<1>3. IndexInv /\ FreshInv /\ EventInv /\ NoGap
  BY DEF Init, IndexInv, FreshInv, EventInv, NoGap
<1> QED BY <1>2, <1>3 DEF IndInv

\* The steps of those who announce results, of Stop and of the loop that
\* leave the channels of the clients alone.
LEMMA QuietSteps ==
    ASSUME IndInv, (\E r \in Sends : SendCall(r) \/ SendDeliver(r)) \/ Stop \/ LoopStop
    PROVE  IndInv'
<1> USE SizesArePositive DEF IndInv
<1>1. ASSUME NEW r \in Sends, SendCall(r) PROVE IndInv'
  BY <1>1 DEF SendCall, TypeOK, IndexInv, FreshInv, EventInv, NoGap, loopVars
<1>2. ASSUME NEW r \in Sends, SendDeliver(r) PROVE IndInv'
  <2>1. resultsCh' \in Seq(Sends) /\ Len(resultsCh') <= EvChanSize
    BY <1>2, AppendProperties DEF SendDeliver, TypeOK
  <2>2. TypeOK'
    BY <1>2, <2>1 DEF SendDeliver, TypeOK, loopVars
  <2> QED BY <1>2, <2>2 DEF SendDeliver, IndexInv, FreshInv, EventInv, NoGap, loopVars
<1>3. CASE Stop
  BY <1>3 DEF Stop, TypeOK, IndexInv, FreshInv, EventInv, NoGap, loopVars
<1>4. CASE LoopStop
  BY <1>4 DEF LoopStop, TypeOK, IndexInv, FreshInv, EventInv, NoGap
<1> QED BY <1>1, <1>2, <1>3, <1>4

\* eventLoop takes a result: every subscription of the index now lacks it.
LEMMA LoopResultStep == IndInv /\ LoopResult => IndInv'
<1> SUFFICES ASSUME IndInv, LoopResult PROVE IndInv'
  OBVIOUS
<1> USE DEF IndInv, LoopResult
<1> DEFINE e == Head(resultsCh)
<1>1. e \in Sends /\ Tail(resultsCh) \in Seq(Sends) /\ Len(Tail(resultsCh)) < Len(resultsCh)
  BY HeadTailProperties, LenProperties DEF TypeOK
<1>2. /\ log \in Seq(Sends) /\ Len(log) \in Nat /\ log' \in Seq(Sends)
      /\ Len(log') = Len(log) + 1 /\ log'[Len(log')] = e
  BY <1>1, AppendProperties, LenProperties DEF TypeOK
<1>3. TypeOK'
  <2>1. base' \in [Subs -> 0..Len(log')]
    BY <1>2 DEF TypeOK
  <2>2. event' \in Seq(Sends) /\ Len(event') = 1
    BY <1>1
  <2> QED BY <1>1, <1>2, <2>1, <2>2, SizesArePositive, LenProperties DEF TypeOK
<1>4. IndexInv' /\ FreshInv'
  BY DEF IndexInv, FreshInv
<1>5. EventInv'
  BY <1>1, <1>2 DEF EventInv, TypeOK
<1>6. ASSUME NEW s \in index'
      PROVE  taken'[s] \o results'[s] =
               SubSeq(log', base'[s] + 1, Len(log') - IF s \in todo' THEN 1 ELSE 0)
  <2>1. s \in index /\ s \in Subs /\ s \notin todo /\ s \in todo'
    BY DEF TypeOK
  <2>2. base[s] + 1 \in 1..(Len(log) + 1)
    BY <1>2, <2>1 DEF TypeOK
  <2>3. taken[s] \o results[s] = SubSeq(log, base[s] + 1, Len(log))
    <3>1. Len(log) - (IF s \in todo THEN 1 ELSE 0) = Len(log)
      BY <1>2, <2>1
    <3> QED BY <2>1, <3>1 DEF NoGap
  <2>4. SubSeq(log', base[s] + 1, Len(log)) = SubSeq(log, base[s] + 1, Len(log))
    BY <1>1, <1>2, <2>2, LogGrows
  <2>5. Len(log') - 1 = Len(log)
    BY <1>2
  <2> QED BY <2>1, <2>3, <2>4, <2>5
<1> QED BY <1>3, <1>4, <1>5, <1>6 DEF NoGap

\* broadcast serves the next subscription, which then lacks nothing.
LEMMA BroadcastStep == ASSUME IndInv, NEW s \in Subs, Broadcast(s) PROVE IndInv'
<1> USE DEF IndInv, Broadcast
<1>1. /\ s \in index /\ s \in todo /\ log \in Seq(Sends) /\ Len(log) \in Nat
      /\ taken[s] \in Seq(Sends) /\ results[s] \in Seq(Sends)
  BY LenProperties DEF TypeOK
<1>2. event \in Seq(Sends) /\ event = <<log[Len(log)]>> /\ Len(event) = 1
  BY DEF TypeOK, EventInv
<1>3. results[s] \o event \in Seq(Sends) /\ Len(results[s] \o event) = Len(results[s]) + 1
  BY <1>1, <1>2, ConcatProperties
<1>4. TypeOK'
  BY <1>3, SizesArePositive, LenProperties DEF TypeOK
<1>5. IndexInv' /\ FreshInv' /\ EventInv'
  BY <1>1 DEF IndexInv, FreshInv, EventInv, TypeOK
<1>6. taken[s] \o (results[s] \o event) = SubSeq(log, base[s] + 1, Len(log))
  <2>1. base[s] + 1 \in 1..Len(log)
    BY <1>1 DEF TypeOK, EventInv
  <2>2. taken[s] \o results[s] = SubSeq(log, base[s] + 1, Len(log) - 1)
    <3>1. Len(log) - (IF s \in todo THEN 1 ELSE 0) = Len(log) - 1
      BY <1>1
    <3> QED BY <1>1, <3>1 DEF NoGap
  <2>3. (taken[s] \o results[s]) \o event = taken[s] \o (results[s] \o event)
    <3>1. taken[s] \in Seq(Sends) /\ results[s] \in Seq(Sends) /\ event \in Seq(Sends)
      BY <1>1, <1>2
    <3>2. \A t, r, e \in Seq(Sends) : (t \o r) \o e = t \o (r \o e)
      BY ConcatAssociative
    <3> QED BY <3>1, <3>2, Zenon
  <2> QED BY <1>1, <1>2, <2>1, <2>2, <2>3, LogServed
<1>7. ASSUME NEW q \in index'
      PROVE  taken'[q] \o results'[q] =
               SubSeq(log', base'[q] + 1, Len(log') - IF q \in todo' THEN 1 ELSE 0)
  <2>1. CASE q = s
    <3>1. Len(log) - (IF q \in todo' THEN 1 ELSE 0) = Len(log)
      BY <1>1, <2>1
    <3>2. taken'[q] = taken[s] /\ results'[q] = results[s] \o event
      BY <2>1 DEF TypeOK
    <3> QED BY <1>6, <2>1, <3>1, <3>2
  <2>2. CASE q # s
    BY <2>2 DEF TypeOK, NoGap
  <2> QED BY <2>1, <2>2
<1> QED BY <1>4, <1>5, <1>7 DEF NoGap

\* The other steps of the loop: the end of a broadcast, install and uninstall.
LEMMA SelectSteps ==
    ASSUME IndInv, BroadcastEnd \/ \E s \in Subs : Install(s) \/ Uninstall(s)
    PROVE  IndInv'
<1> USE DEF IndInv
<1>1. CASE BroadcastEnd
  BY <1>1, SMTT(30) DEF BroadcastEnd, TypeOK, IndexInv, FreshInv, EventInv, NoGap
<1>2. ASSUME NEW s \in Subs, Install(s) PROVE IndInv'
  <2> USE <1>2 DEF Install
  <2>1. log \in Seq(Sends) /\ Len(log) \in Nat
    BY LenProperties DEF TypeOK
  <2>2. TypeOK'
    BY <2>1 DEF TypeOK
  <2>3. IndexInv' /\ FreshInv' /\ EventInv'
    BY DEF IndexInv, FreshInv, EventInv, TypeOK
  <2>4. ASSUME NEW q \in index'
        PROVE  taken'[q] \o results'[q] =
                 SubSeq(log', base'[q] + 1, Len(log') - IF q \in todo' THEN 1 ELSE 0)
    <3>1. CASE q = s
      <4>1. taken[s] \o results[s] = << >>
        BY ConcatEmptySeq, EmptySeq DEF FreshInv
      <4>2. SubSeq(log, Len(log) + 1, Len(log)) = << >>
        BY <2>1, SubSeqEmpty
      <4>3. base'[s] = Len(log) /\ s \notin todo
        BY DEF TypeOK
      <4> QED BY <2>1, <3>1, <4>1, <4>2, <4>3
    <3>2. CASE q # s
      BY <3>2 DEF TypeOK, NoGap
    <3> QED BY <3>1, <3>2
  <2> QED BY <2>2, <2>3, <2>4 DEF NoGap
<1>3. ASSUME NEW s \in Subs, Uninstall(s) PROVE IndInv'
  BY <1>3, ZenonT(30) DEF Uninstall, TypeOK, IndexInv, FreshInv, EventInv, NoGap
<1> QED BY <1>1, <1>2, <1>3

\* The steps of a client's goroutine.
LEMMA SubSteps ==
    ASSUME IndInv, NEW s \in Subs, ResultsSubscription(s) \/ SubStep(s)
    PROVE  IndInv'
<1> USE DEF IndInv
<1>1. CASE ResultsSubscription(s)
  BY <1>1 DEF ResultsSubscription, loopVars, TypeOK, IndexInv, FreshInv, EventInv, NoGap
<1>2. CASE Leave(s)
  BY <1>2 DEF Leave, loopVars, TypeOK, IndexInv, FreshInv, EventInv, NoGap
<1>3. CASE UnsubscribeReturn(s)
  BY <1>3 DEF UnsubscribeReturn, loopVars, TypeOK, IndexInv, FreshInv, EventInv, NoGap
<1>4. CASE Receive(s) \/ Drain(s)
  <2>1. /\ taken[s] \in Seq(Sends) /\ results[s] \in Seq(Sends) /\ results[s] # << >>
        /\ taken' = [taken EXCEPT ![s] = Append(taken[s], Head(results[s]))]
        /\ results' = [results EXCEPT ![s] = Tail(results[s])]
        /\ pc[s] \in {"receive", "uninstall"}
        /\ UNCHANGED <<sendPc, resultsCh, loop, event, todo, index, pc, err, done, log, base>>
    BY <1>4 DEF Receive, Drain, loopVars, TypeOK
  <2>2. /\ taken'[s] \in Seq(Sends) /\ results'[s] \in Seq(Sends)
        /\ Len(results'[s]) < Len(results[s]) /\ taken'[s] \o results'[s] = taken[s] \o results[s]
    <3>1. taken'[s] = Append(taken[s], Head(results[s])) /\ results'[s] = Tail(results[s])
      BY <2>1 DEF TypeOK
    <3>2. taken[s] \in Seq(Sends) /\ results[s] \in Seq(Sends) /\ results[s] # << >>
      BY <2>1
    <3>3. /\ Append(taken[s], Head(results[s])) \in Seq(Sends)
          /\ Tail(results[s]) \in Seq(Sends)
          /\ Len(Tail(results[s])) < Len(results[s])
          /\ Append(taken[s], Head(results[s])) \o Tail(results[s]) = taken[s] \o results[s]
      BY <3>2, TakeHead, Zenon
    <3> QED BY <3>1, <3>3, Zenon
  <2>3. TypeOK'
    BY <2>1, <2>2, SizesArePositive, LenProperties DEF TypeOK
  <2>4. IndexInv' /\ FreshInv' /\ EventInv'
    BY <2>1 DEF IndexInv, FreshInv, EventInv, TypeOK
  <2>5. \A q \in index : taken'[q] \o results'[q] = taken[q] \o results[q]
    BY <2>1, <2>2 DEF TypeOK
  <2> QED BY <2>1, <2>3, <2>4, <2>5 DEF NoGap
<1> QED BY <1>1, <1>2, <1>3, <1>4 DEF SubStep

LEMMA IndInvNext == IndInv /\ [Next]_vars => IndInv'
<1> SUFFICES ASSUME IndInv, [Next]_vars PROVE IndInv'
  OBVIOUS
<1>1. CASE UNCHANGED vars
  BY <1>1 DEF vars, loopVars, IndInv, TypeOK, IndexInv, FreshInv, EventInv, NoGap
<1>2. CASE Next
  BY <1>2, QuietSteps, LoopResultStep, BroadcastStep, SelectSteps, SubSteps
     DEF Next, LoopStep
<1> QED BY <1>1, <1>2

\* The invariant holds of every behaviour of the event loop, its clients, the
\* announcements and Stop.
THEOREM EventIndInv == Spec => []IndInv
BY IndInvInit, IndInvNext, PTL DEF Spec

\* Channels stay within their capacity and broadcast serves indexed
\* subscriptions only (eventLoop and broadcast, subscribe.go.tpl).
THEOREM EventTypes == Spec => []TypeOK
<1>1. IndInv => TypeOK
  BY DEF IndInv
<1> QED BY <1>1, EventIndInv, PTL

\* A client receives every result from its installation on, in the order of
\* the loop and without a gap, however many clients come and go and however
\* slow they are.
THEOREM EventNoGap == Spec => []NoGap
<1>1. IndInv => NoGap
  BY DEF IndInv
<1> QED BY <1>1, EventIndInv, PTL

\* The loop never sends to the channel of a client whose Unsubscribe has
\* returned: the goroutine may close it (ResultsSubscription, @@@@@.go.tpl).
THEOREM EventChannelUnused == Spec => ChannelUnused
<1>1. IndInv /\ [Next]_vars =>
        [\A s \in Subs : pc[s] = "returned" => results'[s] = results[s]]_vars
  <2> SUFFICES ASSUME IndInv, Next, NEW s \in Subs, pc[s] = "returned"
               PROVE  results'[s] = results[s]
    BY DEF vars, loopVars
  <2>1. s \notin todo
    BY DEF IndInv, TypeOK, IndexInv
  <2>2. ASSUME NEW q \in Subs, Broadcast(q) PROVE results'[s] = results[s]
    BY <2>1, <2>2 DEF Broadcast, IndInv, TypeOK
  <2>3. ASSUME NEW q \in Subs, Receive(q) \/ Drain(q) PROVE results'[s] = results[s]
    BY <2>3 DEF Receive, Drain, IndInv, TypeOK
  <2> QED
    BY <2>2, <2>3 DEF Next, LoopStep, SubStep, SendCall, SendDeliver, LoopResult,
       BroadcastEnd, LoopStop, Install, Uninstall, Stop, ResultsSubscription, Leave,
       UnsubscribeReturn
<1> QED BY <1>1, EventIndInv, PTL DEF Spec, ChannelUnused
=============================================================================
