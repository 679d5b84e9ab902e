----------------------------- MODULE FeedProofs -----------------------------
(***************************************************************************)
(* Proofs about Feed for any number of subscriptions, Sends and channels.  *)
(***************************************************************************)
EXTENDS Feed, FiniteSetTheorems, WellFoundedInduction, TLAPS

-----------------------------------------------------------------------------
(* The operations on case lists *)

\* Every non-empty set of natural numbers has a least element.
LEMMA LeastNat ==
    ASSUME NEW S \in SUBSET Nat, S # {}
    PROVE  \E n \in S : \A m \in S : n <= m
<1> DEFINE R == OpToRel(<, Nat)
<1>1. IsWellFoundedOn(R, Nat)
  BY NatLessThanWellFounded
<1>2. \A m, n \in Nat : <<m, n>> \in R <=> m < n
  BY DEF OpToRel
<1> HIDE DEF R
<1>3. PICK n \in S : \A m \in S : ~ (<<m, n>> \in R)
  BY <1>1, WFMin
<1>4. ASSUME NEW m \in S PROVE n <= m
  <2>1. m \in Nat /\ n \in Nat
    OBVIOUS
  <2>2. ~(m < n)
    BY <1>2, <1>3, <2>1, Zenon
  <2> QED BY <2>1, <2>2
<1> QED BY <1>4

\* find returns an index of the list, or 0 for Go's -1.
LEMMA FindRange ==
    ASSUME NEW cs \in Seq(Subs), NEW ch
    PROVE  /\ find(cs, ch) \in 0..Len(cs)
           /\ find(cs, ch) # 0 => ChanOf[cs[find(cs, ch)]] = ch
           /\ (\E k \in 1..Len(cs) : ChanOf[cs[k]] = ch) => find(cs, ch) # 0
<1> DEFINE P(k) == ChanOf[cs[k]] = ch
           Least(k) == P(k) /\ \A m \in 1..(k - 1) : ~P(m)
<1>1. CASE ~ \E k \in 1..Len(cs) : P(k)
  BY <1>1 DEF find
<1>2. CASE \E k \in 1..Len(cs) : P(k)
  <2>1. \E k \in 1..Len(cs) : Least(k)
    <3> DEFINE S == {k \in 1..Len(cs) : P(k)}
    <3>1. S # {} /\ S \in SUBSET Nat
      BY <1>2
    <3>2. PICK n \in S : \A m \in S : n <= m
      BY <3>1, LeastNat
    <3>3. n \in 1..Len(cs) /\ P(n)
      BY <3>2
    <3>4. \A m \in 1..(n - 1) : ~P(m)
      BY <3>2, <3>3
    <3> QED BY <3>3, <3>4
  <2>2. find(cs, ch) = CHOOSE k \in 1..Len(cs) : Least(k)
    BY <1>2 DEF find
  <2> HIDE DEF Least
  <2>3. find(cs, ch) \in 1..Len(cs) /\ Least(find(cs, ch))
    BY <2>1, <2>2
  <2> QED BY <2>3 DEF Least
<1> QED BY <1>1, <1>2

\* delete drops the element at index and keeps the others.
LEMMA DeleteSeq ==
    ASSUME NEW cs \in Seq(Subs), NEW index \in 0..Len(cs)
    PROVE  /\ delete(cs, index) \in Seq(Subs)
           /\ cs # << >> => Len(delete(cs, index)) = Len(cs) - 1
<1>1. CASE Len(cs) = 0
  <2>1. delete(cs, index) = << >>
    BY <1>1 DEF delete
  <2>2. cs = << >>
    BY <1>1
  <2> QED BY <2>1, <2>2
<1>2. CASE Len(cs) > 0
  <2> DEFINE n == Len(cs) - 1
  <2>1. n \in Nat
    BY <1>2
  <2>2. \A k \in 1..n : (IF k < index THEN cs[k] ELSE cs[k + 1]) \in Subs
    BY <2>1
  <2>3. delete(cs, index) \in [1..n -> Subs]
    BY <2>2 DEF delete
  <2> HIDE DEF n
  <2>4. delete(cs, index) \in Seq(Subs) /\ Len(delete(cs, index)) = n
    BY <2>1, <2>3
  <2> QED BY <2>4 DEF n
<1> QED BY <1>1, <1>2

LEMMA DeleteRange ==
    ASSUME NEW cs \in Seq(Subs), IsInjective(cs), NEW index \in 1..Len(cs)
    PROVE  /\ IsInjective(delete(cs, index))
           /\ Range(delete(cs, index)) = Range(cs) \ {cs[index]}
<1> DEFINE d == delete(cs, index)
<1>1. DOMAIN d = 1..(Len(cs) - 1) /\ DOMAIN cs = 1..Len(cs) /\ Len(cs) \in Nat
  BY DEF delete
<1>2. \A k \in 1..(Len(cs) - 1) : d[k] = IF k < index THEN cs[k] ELSE cs[k + 1]
  BY DEF delete
<1> HIDE DEF d
<1>3. IsInjective(d)
  BY <1>1, <1>2 DEF IsInjective
<1>4. Range(d) \subseteq Range(cs) \ {cs[index]}
  BY <1>1, <1>2 DEF Range, IsInjective
<1>5. ASSUME NEW x \in Range(cs), x # cs[index]
      PROVE  x \in Range(d)
  <2>1. PICK k \in 1..Len(cs) : x = cs[k]
    BY <1>1 DEF Range
  <2>2. CASE k < index
    BY <1>1, <1>2, <2>1, <2>2 DEF Range
  <2>3. CASE k > index
    <3>1. k - 1 \in 1..(Len(cs) - 1) /\ ~(k - 1 < index) /\ (k - 1) + 1 = k
      BY <1>1, <2>3
    <3>2. d[k - 1] = x
      BY <1>2, <2>1, <3>1
    <3> QED BY <1>1, <3>1, <3>2 DEF Range
  <2> QED BY <1>5, <2>1, <2>2, <2>3
<1> QED BY <1>3, <1>4, <1>5 DEF d

\* deactivate permutes the list.
LEMMA DeactivateSeq ==
    ASSUME NEW cs \in Seq(Subs), NEW k \in 1..Len(cs), NEW last \in 1..Len(cs)
    PROVE  /\ deactivate(cs, k, last) \in Seq(Subs)
           /\ Len(deactivate(cs, k, last)) = Len(cs)
           /\ IsInjective(cs) => IsInjective(deactivate(cs, k, last))
           /\ Range(deactivate(cs, k, last)) = Range(cs)
<1> DEFINE d == deactivate(cs, k, last)
<1>1. Len(cs) \in Nat /\ DOMAIN cs = 1..Len(cs) /\ cs \in [1..Len(cs) -> Subs]
  OBVIOUS
<1>2. d \in [1..Len(cs) -> Subs]
  BY <1>1 DEF deactivate
<1>3. \A m \in 1..Len(cs) :
        d[m] = IF m = last THEN cs[k] ELSE IF m = k THEN cs[last] ELSE cs[m]
  BY <1>1 DEF deactivate
<1> HIDE DEF d
<1>4. d \in Seq(Subs) /\ Len(d) = Len(cs) /\ DOMAIN d = 1..Len(cs)
  BY <1>1, <1>2
<1>5. IsInjective(cs) => IsInjective(d)
  BY <1>1, <1>3, <1>4 DEF IsInjective
<1>6. Range(d) = Range(cs)
  BY <1>1, <1>3, <1>4 DEF Range
<1> QED BY <1>4, <1>5, <1>6 DEF d

-----------------------------------------------------------------------------
(* Types, the send lock and the active prefix.  None of the three is       *)
(* inductive alone: the length of the prefix stays a natural number only   *)
(* because a Send in Select has an active case, and another step leaves the *)
(* prefix alone only because the lock keeps other Sends and RemoveWithLock *)
(* out.                                                                    *)

IndInv == TypeOK /\ LockInv /\ PrefixInv

\* The effect of a successful send on everything but the position of the Send.
LEMMA SendCaseType ==
    ASSUME IndInv, NEW s \in Senders, NEW k \in 1..cases[s],
           pc[s] \in Sending, SendCase(s, k)
    PROVE  /\ sendCases' \in Seq(Subs)
           /\ Len(sendCases') = Len(sendCases)
           /\ cases' = [cases EXCEPT ![s] = cases[s] - 1]
           /\ cases' \in [Senders -> Nat]
           /\ nsent' \in [Senders -> Nat]
           /\ unread' \in [Chans -> Nat]
           /\ \A ch \in Chans : unread'[ch] <= Cap[ch]
           /\ ready' \in [Chans -> BOOLEAN]
           /\ delivered' \in [Senders -> [Chans -> Nat]]
<1> USE DEF InSend, Sending
<1> DEFINE ch == ChanOf[sendCases[k]]
<1>0. sendCases \in Seq(Subs) /\ cases \in [Senders -> Nat] /\ cases[s] <= Len(sendCases)
  BY DEF IndInv, TypeOK, PrefixInv
<1>1. /\ cases[s] \in 1..Len(sendCases)
      /\ k \in 1..Len(sendCases)
      /\ sendCases[k] \in Subs
      /\ ch \in Chans
  BY <1>0, ChansAssumption
<1>2. sendCases' \in Seq(Subs) /\ Len(sendCases') = Len(sendCases)
  BY <1>1, DeactivateSeq DEF IndInv, TypeOK, SendCase
<1>3. /\ cases' = [cases EXCEPT ![s] = cases[s] - 1]
      /\ cases' \in [Senders -> Nat]
      /\ nsent' \in [Senders -> Nat]
  <2>1. nsent \in [Senders -> Nat] /\ cases[s] \in Nat /\ cases[s] > 0
    BY <1>0, <1>1 DEF IndInv, TypeOK
  <2>2. /\ cases' = [cases EXCEPT ![s] = cases[s] - 1]
        /\ nsent' = [nsent EXCEPT ![s] = nsent[s] + 1]
    BY DEF SendCase
  <2> QED BY <1>0, <2>1, <2>2
<1>4. /\ unread' \in [Chans -> Nat]
      /\ \A c \in Chans : unread'[c] <= Cap[c]
      /\ ready' \in [Chans -> BOOLEAN]
  <2>1. unread \in [Chans -> Nat] /\ ready \in [Chans -> BOOLEAN]
    BY DEF IndInv, TypeOK
  <2>2. \A c \in Chans : unread[c] <= Cap[c] /\ Cap[c] \in Nat
    BY ChansAssumption DEF IndInv, TypeOK
  <2>3. CASE ready[ch]
    <3>1. ready' = [ready EXCEPT ![ch] = FALSE] /\ unread' = unread
      BY <2>3 DEF SendCase
    <3> QED BY <2>1, <2>2, <3>1
  <2>4. CASE ~ready[ch]
    <3>1. /\ unread' = [unread EXCEPT ![ch] = unread[ch] + 1]
          /\ ready' = ready
          /\ unread[ch] < Cap[ch]
      BY <2>4 DEF SendCase, CanSend
    <3> QED BY <1>1, <2>1, <2>2, <3>1
  <2> QED BY <2>3, <2>4
<1>5. delivered' \in [Senders -> [Chans -> Nat]]
  <2>1. delivered \in [Senders -> [Chans -> Nat]]
    BY DEF IndInv, TypeOK
  <2>2. delivered' = [delivered EXCEPT ![s][ch] = delivered[s][ch] + 1]
    BY DEF SendCase
  <2> QED BY <1>1, <2>1, <2>2
<1> QED BY <1>2, <1>3, <1>4, <1>5

LEMMA IndInvInit == Init => IndInv
<1> SUFFICES ASSUME Init PROVE IndInv
  OBVIOUS
<1>1. TypeOK
  <2>1. sendLock \in BOOLEAN /\ mu \in BOOLEAN /\ ready \in [Chans -> BOOLEAN]
    BY DEF Init
  <2>2. /\ inbox \in Seq(Subs)
        /\ sendCases \in Seq(Subs)
        /\ etype \in Types \cup {NoType}
    BY DEF Init
  <2>3. /\ subState \in [Subs -> {"none", "panicked", "live", "select", "closed"}]
        /\ pc \in [Senders -> InSend \cup {"idle", "done", "panicked"}]
    BY DEF Init
  <2>4. /\ cases \in [Senders -> Nat]
        /\ i \in [Senders -> Nat]
        /\ nsent \in [Senders -> Nat]
    BY DEF Init
  <2>5. unread \in [Chans -> Nat] /\ \A ch \in Chans : unread[ch] <= Cap[ch]
    BY ChansAssumption DEF Init
  <2>6. /\ snap \in [Senders -> [Chans -> Nat]]
        /\ dropped \in [Senders -> [Chans -> Nat]]
        /\ delivered \in [Senders -> [Chans -> Nat]]
    BY DEF Init
  <2> QED BY <2>1, <2>2, <2>3, <2>4, <2>5, <2>6 DEF TypeOK
<1>2. LockInv /\ PrefixInv
  BY DEF Init, LockInv, PrefixInv, InSend, Sending
<1> QED BY <1>1, <1>2 DEF IndInv

LEMMA IndInvNext == IndInv /\ [Next]_vars => IndInv'
<1> SUFFICES ASSUME IndInv, [Next]_vars PROVE IndInv'
  OBVIOUS
<1> USE DEF InSend, Sending
<1>1. ASSUME NEW sub \in Subs, SubscribeBadChannel(sub) PROVE IndInv'
  BY <1>1 DEF SubscribeBadChannel, IndInv, TypeOK, LockInv, PrefixInv,
              feedVars, sendVars, chanVars, history
<1>2. ASSUME NEW sub \in Subs, Subscribe(sub) PROVE IndInv'
  <2>1. /\ inbox' \in Seq(Subs)
        /\ etype' \in Types \cup {NoType}
        /\ subState' \in [Subs -> {"none", "panicked", "live", "select", "closed"}]
    <3>1. ElemType[ChanOf[sub]] \in Types \cup {NoType}
      BY ChansAssumption, TypesAssumption
    <3>2. CASE typecheck(ElemType[ChanOf[sub]])
      <4>1. /\ etype' = ElemType[ChanOf[sub]]
            /\ inbox' = Append(inbox, sub)
            /\ subState' = [subState EXCEPT ![sub] = "live"]
        BY <1>2, <3>2 DEF Subscribe
      <4> QED BY <3>1, <4>1 DEF IndInv, TypeOK
    <3>3. CASE ~typecheck(ElemType[ChanOf[sub]])
      <4>1. /\ subState' = [subState EXCEPT ![sub] = "panicked"]
            /\ UNCHANGED <<etype, inbox>>
        BY <1>2, <3>3 DEF Subscribe
      <4> QED BY <4>1 DEF IndInv, TypeOK
    <3> QED BY <3>2, <3>3
  <2> QED
    BY <1>2, <2>1 DEF Subscribe, IndInv, TypeOK, LockInv, PrefixInv,
                      sendVars, chanVars, history
<1>3. ASSUME NEW sub \in Subs, RemoveFromInbox(sub) PROVE IndInv'
  <2>1. inbox' \in Seq(Subs)
    BY <1>3, FindRange, DeleteSeq DEF RemoveFromInbox, IndInv, TypeOK
  <2> QED
    BY <1>3, <2>1 DEF RemoveFromInbox, IndInv, TypeOK, LockInv, PrefixInv,
                      sendVars, chanVars, history
<1>4. ASSUME NEW sub \in Subs, RemoveWithLock(sub) PROVE IndInv'
  <2>1. sendCases' \in Seq(Subs)
    BY <1>4, FindRange, DeleteSeq DEF RemoveWithLock, IndInv, TypeOK
  <2> QED
    BY <1>4, <2>1 DEF RemoveWithLock, IndInv, TypeOK, LockInv, PrefixInv,
                      sendVars, chanVars, history
<1>5. ASSUME NEW sub \in Subs, NEW s \in Senders, RemoveDuringSend(s, sub)
      PROVE  IndInv'
  <2> DEFINE index == find(sendCases, ChanOf[sub])
  <2>1. index \in 0..Len(sendCases) /\ cases[s] \in 1..Len(sendCases)
    BY <1>5, FindRange DEF RemoveDuringSend, IndInv, TypeOK, PrefixInv
  <2>2. sendCases' \in Seq(Subs) /\ Len(sendCases') = Len(sendCases) - 1
    BY <1>5, <2>1, DeleteSeq DEF RemoveDuringSend, IndInv, TypeOK
  <2>3. shrink(index, cases[s]) \in 0..(Len(sendCases) - 1)
    BY <2>1 DEF shrink
  <2> HIDE DEF index
  <2>4. cases' = [cases EXCEPT ![s] = shrink(index, cases[s])]
    BY <1>5 DEF RemoveDuringSend, index
  <2>5. TypeOK'
    <3>1. ChanOf[sub] \in Chans
      BY ChansAssumption
    <3>2. dropped' \in [Senders -> [Chans -> Nat]]
      BY <1>5, <3>1 DEF RemoveDuringSend, IndInv, TypeOK
    <3>3. cases' \in [Senders -> Nat]
      BY <2>1, <2>3, <2>4 DEF IndInv, TypeOK
    <3>4. /\ i' \in [Senders -> Nat]
          /\ pc' \in [Senders -> InSend \cup {"idle", "done", "panicked"}]
          /\ subState' \in [Subs -> {"none", "panicked", "live", "select", "closed"}]
      BY <1>5 DEF RemoveDuringSend, IndInv, TypeOK
    <3> QED
      BY <1>5, <2>2, <3>2, <3>3, <3>4 DEF RemoveDuringSend, IndInv, TypeOK, chanVars
  <2>6. LockInv'
    BY <1>5 DEF RemoveDuringSend, IndInv, TypeOK, LockInv
  <2>7. PrefixInv'
    BY <1>5, <2>2, <2>3, <2>4
       DEF RemoveDuringSend, IndInv, TypeOK, LockInv, PrefixInv
  <2> QED BY <2>5, <2>6, <2>7 DEF IndInv
<1>6. ASSUME NEW s \in Senders, SendLock(s) PROVE IndInv'
  <2>1. TypeOK'
    BY <1>6 DEF SendLock, IndInv, TypeOK, InSend, subVars, chanVars, history
  <2>2. LockInv'
    BY <1>6 DEF SendLock, IndInv, TypeOK, LockInv, InSend
  <2>3. PrefixInv'
    BY <1>6 DEF SendLock, IndInv, TypeOK, PrefixInv, Sending
  <2> QED BY <2>1, <2>2, <2>3 DEF IndInv
<1>7. ASSUME NEW s \in Senders, SendMerge(s) PROVE IndInv'
  <2>0. sendCases' \in Seq(Subs) /\ Len(sendCases') \in Nat /\ inbox' \in Seq(Subs)
    BY <1>7 DEF SendMerge, IndInv, TypeOK
  <2>1. \A ch \in Chans : Cardinality(Open(ch)) \in Nat
    <3> TAKE ch \in Chans
    <3>1. Open(ch) \in SUBSET Subs
      BY DEF Open
    <3> QED BY <3>1, SubsAssumption, FS_Subset, FS_CardinalityType
  <2>2. TypeOK'
    <3>1. CASE typecheck(SendType[s])
      <4>1. /\ etype' = SendType[s]
            /\ pc' = [pc EXCEPT ![s] = "try"]
            /\ cases' = [cases EXCEPT ![s] = Len(sendCases')]
            /\ i' = [i EXCEPT ![s] = 1]
            /\ snap' = [snap EXCEPT ![s] = [ch \in Chans |-> Cardinality(Open(ch))]]
            /\ UNCHANGED <<sendLock, mu>>
        BY <1>7, <3>1 DEF SendMerge
      <4>2. snap' \in [Senders -> [Chans -> Nat]]
        BY <2>1, <4>1 DEF IndInv, TypeOK
      <4>3. /\ cases' \in [Senders -> Nat]
            /\ i' \in [Senders -> Nat]
            /\ pc' \in [Senders -> InSend \cup {"idle", "done", "panicked"}]
            /\ etype' \in Types \cup {NoType}
        BY <2>0, <4>1, TypesAssumption DEF IndInv, TypeOK
      <4> QED
        BY <1>7, <2>0, <4>1, <4>2, <4>3 DEF SendMerge, IndInv, TypeOK, subVars, chanVars
    <3>2. CASE ~typecheck(SendType[s])
      <4>1. /\ sendLock' = TRUE
            /\ mu' = TRUE
            /\ pc' = [pc EXCEPT ![s] = "panicked"]
            /\ UNCHANGED <<etype, cases, i, snap>>
        BY <1>7, <3>2 DEF SendMerge
      <4>2. sendLock' \in BOOLEAN /\ mu' \in BOOLEAN
        BY <4>1
      <4>3. pc' \in [Senders -> InSend \cup {"idle", "done", "panicked"}]
        BY <4>1 DEF IndInv, TypeOK
      <4> QED
        BY <1>7, <2>0, <4>1, <4>2, <4>3 DEF SendMerge, IndInv, TypeOK, subVars, chanVars
    <3> QED BY <3>1, <3>2
  <2>3. LockInv'
    <3>1. /\ pc[s] = "locked"
          /\ \/ pc' = [pc EXCEPT ![s] = "try"] /\ sendLock' = sendLock
             \/ pc' = [pc EXCEPT ![s] = "panicked"] /\ sendLock' = TRUE
      BY <1>7 DEF SendMerge
    <3>2. pc \in [Senders -> InSend \cup {"idle", "done", "panicked"}] /\ LockInv
      BY DEF IndInv, TypeOK
    <3> QED BY <3>1, <3>2 DEF LockInv
  <2>4. PrefixInv'
    <3>1. \A t \in Senders : t # s => pc[t] \notin Sending /\ pc'[t] = pc[t]
      BY <1>7 DEF SendMerge, IndInv, TypeOK, LockInv
    <3>2. CASE typecheck(SendType[s])
      <4>1. cases'[s] = Len(sendCases') /\ i'[s] = 1 /\ pc'[s] = "try"
        BY <1>7, <3>2 DEF SendMerge, IndInv, TypeOK
      <4> QED BY <2>0, <3>1, <4>1 DEF PrefixInv
    <3>3. CASE ~typecheck(SendType[s])
      <4>1. pc'[s] = "panicked"
        BY <1>7, <3>3 DEF SendMerge, IndInv, TypeOK
      <4> QED BY <3>1, <4>1 DEF PrefixInv
    <3> QED BY <3>2, <3>3
  <2> QED BY <2>2, <2>3, <2>4 DEF IndInv
<1>8. ASSUME NEW s \in Senders, TrySendOk(s) PROVE IndInv'
  <2>1. i[s] \in 1..cases[s] /\ pc[s] \in Sending /\ SendCase(s, i[s])
    BY <1>8 DEF TrySendOk, IndInv, TypeOK, PrefixInv
  <2>2. TypeOK'
    BY <1>8, <2>1, SendCaseType DEF TrySendOk, IndInv, TypeOK, subVars
  <2>3. LockInv'
    BY <1>8 DEF TrySendOk, IndInv, LockInv
  <2>4. PrefixInv'
    BY <1>8, <2>1, SendCaseType DEF TrySendOk, IndInv, TypeOK, LockInv, PrefixInv
  <2> QED BY <2>2, <2>3, <2>4 DEF IndInv
<1>9. ASSUME NEW s \in Senders, TrySendFull(s) PROVE IndInv'
  BY <1>9 DEF TrySendFull, IndInv, TypeOK, LockInv, PrefixInv,
              feedVars, subVars, chanVars, history
<1>10. ASSUME NEW s \in Senders, FastPathEnd(s) PROVE IndInv'
  <2>1. CASE cases[s] = 0
    <3>1. sendLock' = TRUE /\ pc' = [pc EXCEPT ![s] = "done"] /\ sendLock' \in BOOLEAN
      BY <1>10, <2>1 DEF FastPathEnd
    <3>2. TypeOK'
      BY <1>10, <3>1 DEF FastPathEnd, IndInv, TypeOK, subVars, chanVars, history
    <3>3. LockInv' /\ PrefixInv'
      BY <1>10, <3>1 DEF FastPathEnd, IndInv, TypeOK, LockInv, PrefixInv
    <3> QED BY <3>2, <3>3 DEF IndInv
  <2>2. CASE cases[s] # 0
    <3>1. sendLock' = sendLock /\ pc' = [pc EXCEPT ![s] = "select"] /\ pc[s] = "try"
      BY <1>10, <2>2 DEF FastPathEnd
    <3>2. TypeOK'
      BY <1>10, <3>1 DEF FastPathEnd, IndInv, TypeOK, subVars, chanVars, history
    <3>3. LockInv' /\ PrefixInv'
      BY <1>10, <2>2, <3>1 DEF FastPathEnd, IndInv, TypeOK, LockInv, PrefixInv
    <3> QED BY <3>2, <3>3 DEF IndInv
  <2> QED BY <2>1, <2>2
<1>11. ASSUME NEW s \in Senders, SelectSend(s) PROVE IndInv'
  <2>1. PICK k \in 1..cases[s] : SendCase(s, k)
    BY <1>11 DEF SelectSend, Selectable
  <2>2. pc[s] \in Sending
    BY <1>11 DEF SelectSend
  <2>3. TypeOK'
    BY <1>11, <2>1, <2>2, SendCaseType DEF SelectSend, IndInv, TypeOK, subVars
  <2>4. LockInv'
    BY <1>11 DEF SelectSend, IndInv, TypeOK, LockInv
  <2>5. PrefixInv'
    BY <1>11, <2>1, <2>2, SendCaseType, SMTT(30)
       DEF SelectSend, IndInv, TypeOK, LockInv, PrefixInv
  <2> QED BY <2>3, <2>4, <2>5 DEF IndInv
<1>12. ASSUME NEW ch \in Chans, Recv(ch) PROVE IndInv'
  <2>1. /\ unread' \in [Chans -> Nat]
        /\ \A c \in Chans : unread'[c] <= Cap[c]
        /\ ready' \in [Chans -> BOOLEAN]
    <3>1. \A c \in Chans : Cap[c] \in Nat
      BY ChansAssumption
    <3>2. CASE unread[ch] > 0
      <4>1. unread' = [unread EXCEPT ![ch] = unread[ch] - 1] /\ ready' = ready
        BY <1>12, <3>2 DEF Recv
      <4> QED BY <3>1, <3>2, <4>1 DEF IndInv, TypeOK
    <3>3. CASE ~(unread[ch] > 0)
      <4>1. ready' = [ready EXCEPT ![ch] = TRUE] /\ unread' = unread
        BY <1>12, <3>3 DEF Recv
      <4> QED BY <4>1 DEF IndInv, TypeOK
    <3> QED BY <3>2, <3>3
  <2> QED
    BY <1>12, <2>1 DEF Recv, IndInv, TypeOK, LockInv, PrefixInv,
                       feedVars, subVars, sendVars, history
<1>13. CASE UNCHANGED vars
  BY <1>13 DEF IndInv, TypeOK, LockInv, PrefixInv,
               vars, feedVars, subVars, sendVars, chanVars, history
<1> QED
  BY <1>1, <1>2, <1>3, <1>4, <1>5, <1>6, <1>7, <1>8, <1>9, <1>10, <1>11,
     <1>12, <1>13 DEF Next, SubStep, SendStep, Terminated

\* The three invariants together, for any number of concurrent Subscribe,
\* Unsubscribe and Send calls.
THEOREM FeedIndInv == Spec => []IndInv
<1>1. IndInv /\ [Next]_vars => IndInv'
  BY IndInvNext
<1> QED BY <1>1, IndInvInit, PTL DEF Spec

\* All fields keep their types and no buffer exceeds its capacity.
THEOREM FeedTypes == Spec => []TypeOK
<1>1. IndInv => TypeOK
  BY DEF IndInv
<1> QED BY <1>1, FeedIndInv, PTL

\* At most one Send holds the lock, whoever calls.
THEOREM FeedLock == Spec => []LockInv
<1>1. IndInv => LockInv
  BY DEF IndInv
<1> QED BY <1>1, FeedIndInv, PTL

\* The active prefix of a Send stays inside sendCases while Unsubscribes
\* shorten both.
THEOREM FeedPrefix == Spec => []PrefixInv
<1>1. IndInv => PrefixInv
  BY DEF IndInv
<1> QED BY <1>1, FeedIndInv, PTL

-----------------------------------------------------------------------------
(* Cases and subscriptions.  CasesMatchSubs is not inductive: an Unsubscribe *)
(* that looked in the inbox in vain must still find a case in sendCases    *)
(* when it gets there, although other Unsubscribes of the same channel may *)
(* have taken one each.  Hence the third conjunct: sendCases has a case for *)
(* every Unsubscribe of the channel on its way to it.                      *)

CountInv ==
    /\ CasesMatchSubs
    /\ \A x \in Range(sendCases) \cup Range(inbox) :
         subState[x] \in {"live", "select", "closed"}
    /\ \A ch \in Chans :
         Cardinality(EntriesOf(sendCases, ch)) >= Cardinality(Selecting(ch))

\* Range of a sequence over Subs.
LEMMA RangeSubs ==
    ASSUME NEW cs \in Seq(Subs)
    PROVE  /\ DOMAIN cs = 1..Len(cs)
           /\ Range(cs) \in SUBSET Subs
           /\ \A ch : EntriesOf(cs, ch) \in SUBSET Subs
BY DEF Range, EntriesOf

\* Every set of subscriptions is finite.
LEMMA SubsFinite ==
    ASSUME NEW S \in SUBSET Subs
    PROVE  IsFiniteSet(S) /\ Cardinality(S) \in Nat
BY SubsAssumption, FS_Subset, FS_CardinalityType

LEMMA SetsOfSubs ==
    ASSUME TypeOK
    PROVE  \A ch : /\ EntriesOf(sendCases, ch) \in SUBSET Subs
                   /\ EntriesOf(inbox, ch) \in SUBSET Subs
                   /\ Open(ch) \in SUBSET Subs
                   /\ Selecting(ch) \in SUBSET Subs
                   /\ Selecting(ch) \subseteq Open(ch)
BY RangeSubs DEF TypeOK, Open, Selecting

\* The invariant makes find succeed.
LEMMA FindSucceeds ==
    ASSUME TypeOK, CountInv, NEW sub \in Subs, subState[sub] = "select"
    PROVE  /\ find(sendCases, ChanOf[sub]) \in 1..Len(sendCases)
           /\ ChanOf[sendCases[find(sendCases, ChanOf[sub])]] = ChanOf[sub]
<1> DEFINE ch == ChanOf[sub]
<1>1. ch \in Chans /\ sub \in Selecting(ch)
  BY ChansAssumption DEF Selecting
<1>2. Cardinality(Selecting(ch)) # 0 /\ Cardinality(Selecting(ch)) \in Nat
  BY <1>1, SetsOfSubs, SubsFinite, FS_EmptySet
<1>3. /\ Cardinality(EntriesOf(sendCases, ch)) >= Cardinality(Selecting(ch))
      /\ Cardinality(EntriesOf(sendCases, ch)) \in Nat
      /\ IsFiniteSet(EntriesOf(sendCases, ch))
  BY <1>1, SetsOfSubs, SubsFinite DEF CountInv
<1>4. Cardinality(EntriesOf(sendCases, ch)) # 0
  BY <1>2, <1>3
<1>5. EntriesOf(sendCases, ch) # {}
  BY <1>4, FS_EmptySet
<1>6. sendCases \in Seq(Subs)
  BY DEF TypeOK
<1>7. PICK x \in Range(sendCases) : ChanOf[x] = ch
  BY <1>5 DEF EntriesOf
<1>8. PICK k \in 1..Len(sendCases) : sendCases[k] = x
  BY <1>6, <1>7, RangeSubs DEF Range
<1> QED BY <1>6, <1>7, <1>8, FindRange

\* A step that permutes sendCases and leaves the rest alone.
LEMMA CountPermuted ==
    ASSUME CountInv, UNCHANGED <<inbox, subState>>,
           Range(sendCases') = Range(sendCases),
           IsInjective(sendCases) => IsInjective(sendCases')
    PROVE  CountInv'
BY DEF CountInv, CasesMatchSubs, EntriesOf, Open, Selecting

\* Unsubscribe of sub deletes a case of its channel from one of the lists.
LEMMA CountDeleted ==
    ASSUME TypeOK, CountInv, NEW sub \in Subs, NEW cs, NEW index \in 1..Len(cs),
           cs \in {inbox, sendCases},
           ChanOf[cs[index]] = ChanOf[sub],
           subState' = [subState EXCEPT ![sub] = "closed"],
           \/ /\ subState[sub] = "live"
              /\ cs = inbox
              /\ inbox' = delete(cs, index)
              /\ sendCases' = sendCases
           \/ /\ subState[sub] = "select"
              /\ cs = sendCases
              /\ sendCases' = delete(cs, index)
              /\ inbox' = inbox
    PROVE  CountInv'
<1> DEFINE c == ChanOf[sub]
           y == cs[index]
<1>0. /\ cs \in Seq(Subs)
      /\ IsInjective(cs)
      /\ subState \in [Subs -> {"none", "panicked", "live", "select", "closed"}]
  BY DEF TypeOK, CountInv, CasesMatchSubs
<1>1. /\ IsInjective(delete(cs, index))
      /\ Range(delete(cs, index)) = Range(cs) \ {y}
      /\ y \in Range(cs)
  BY <1>0, DeleteRange, RangeSubs DEF Range
<1>2. c \in Chans /\ ChanOf[y] = c
  BY ChansAssumption
<1>3. subState'[sub] = "closed" /\ \A x \in Subs : x # sub => subState'[x] = subState[x]
  BY <1>0
<1>4. \A ch \in Chans : EntriesOf(delete(cs, index), ch) =
         IF ch = c THEN EntriesOf(cs, ch) \ {y} ELSE EntriesOf(cs, ch)
  BY <1>1, <1>2 DEF EntriesOf
<1>5. y \in EntriesOf(cs, c)
  BY <1>1, <1>2 DEF EntriesOf
<1>6. /\ \A ch \in Chans : Open(ch)' = IF ch = c THEN Open(ch) \ {sub} ELSE Open(ch)
      /\ sub \in Open(c)
  BY <1>3 DEF Open
<1>7. \A ch \in Chans : Selecting(ch)' =
         IF ch = c THEN Selecting(ch) \ {sub} ELSE Selecting(ch)
  BY <1>3 DEF Selecting
<1>8. \A ch \in Chans :
         /\ IsFiniteSet(EntriesOf(cs, ch)) /\ IsFiniteSet(Open(ch)) /\ IsFiniteSet(Selecting(ch))
         /\ Cardinality(EntriesOf(sendCases, ch)) \in Nat
         /\ Cardinality(EntriesOf(inbox, ch)) \in Nat
         /\ Cardinality(Open(ch)) \in Nat
         /\ Cardinality(Selecting(ch)) \in Nat
  BY SetsOfSubs, SubsFinite
<1>9. /\ Cardinality(EntriesOf(cs, c) \ {y}) = Cardinality(EntriesOf(cs, c)) - 1
      /\ Cardinality(Open(c) \ {sub}) = Cardinality(Open(c)) - 1
      /\ sub \in Selecting(c) =>
           Cardinality(Selecting(c) \ {sub}) = Cardinality(Selecting(c)) - 1
  BY <1>2, <1>5, <1>6, <1>8, FS_RemoveElement
<1>10. \A x \in (Range(sendCases) \cup Range(inbox))' :
         x \in Subs /\ subState'[x] \in {"live", "select", "closed"}
  BY <1>0, <1>1, <1>3, RangeSubs DEF CountInv, TypeOK
<1>11. CASE cs = inbox /\ subState[sub] = "live" /\ inbox' = delete(cs, index)
             /\ sendCases' = sendCases
  <2>1. sub \notin Selecting(c) /\ Selecting(c) \ {sub} = Selecting(c)
    BY <1>11 DEF Selecting
  <2>2. \A ch \in Chans : Selecting(ch)' = Selecting(ch)
    BY <1>7, <2>1
  <2>3. \A ch \in Chans :
          Cardinality(EntriesOf(sendCases', ch)) + Cardinality(EntriesOf(inbox', ch))
            = Cardinality(Open(ch)')
    <3> TAKE ch \in Chans
    <3>1. CASE ch = c
      <4>1. EntriesOf(inbox', ch) = EntriesOf(inbox, c) \ {y} /\ sendCases' = sendCases
        BY <1>2, <1>4, <1>11, <3>1
      <4>2. Open(ch)' = Open(c) \ {sub}
        BY <1>2, <1>6, <3>1
      <4>3. Cardinality(EntriesOf(sendCases, c)) + Cardinality(EntriesOf(inbox, c))
              = Cardinality(Open(c))
        BY <1>2 DEF CountInv, CasesMatchSubs
      <4>4. Cardinality(EntriesOf(inbox, c) \ {y}) = Cardinality(EntriesOf(inbox, c)) - 1
        BY <1>9, <1>11
      <4> QED BY <1>2, <1>8, <1>9, <3>1, <4>1, <4>2, <4>3, <4>4
    <3>2. CASE ch # c
      BY <1>4, <1>6, <1>8, <1>11, <3>2 DEF CountInv, CasesMatchSubs
    <3> QED BY <3>1, <3>2
  <2>4. CasesMatchSubs'
    BY <1>1, <1>11, <2>3 DEF CountInv, CasesMatchSubs, EntriesOf, Open
  <2>5. \A ch \in Chans :
          Cardinality(EntriesOf(sendCases, ch)') >= Cardinality(Selecting(ch)')
    BY <1>11, <2>2 DEF CountInv, EntriesOf
  <2> QED BY <1>10, <2>4, <2>5 DEF CountInv
<1>12. CASE cs = sendCases /\ subState[sub] = "select"
              /\ sendCases' = delete(cs, index) /\ inbox' = inbox
  <2>1. sub \in Selecting(c)
    BY <1>12 DEF Selecting
  <2>2. \A ch \in Chans :
          Cardinality(EntriesOf(sendCases', ch)) + Cardinality(EntriesOf(inbox', ch))
            = Cardinality(Open(ch)')
    <3> TAKE ch \in Chans
    <3>1. CASE ch = c
      <4>1. EntriesOf(sendCases', ch) = EntriesOf(sendCases, c) \ {y} /\ inbox' = inbox
        BY <1>2, <1>4, <1>12, <3>1
      <4>2. Open(ch)' = Open(c) \ {sub}
        BY <1>2, <1>6, <3>1
      <4>3. Cardinality(EntriesOf(sendCases, c)) + Cardinality(EntriesOf(inbox, c))
              = Cardinality(Open(c))
        BY <1>2 DEF CountInv, CasesMatchSubs
      <4>4. Cardinality(EntriesOf(sendCases, c) \ {y}) = Cardinality(EntriesOf(sendCases, c)) - 1
        BY <1>9, <1>12
      <4> QED BY <1>2, <1>8, <1>9, <3>1, <4>1, <4>2, <4>3, <4>4
    <3>2. CASE ch # c
      BY <1>4, <1>6, <1>8, <1>12, <3>2 DEF CountInv, CasesMatchSubs
    <3> QED BY <3>1, <3>2
  <2>3. \A ch \in Chans :
          Cardinality(EntriesOf(sendCases', ch)) >= Cardinality(Selecting(ch)')
    <3> TAKE ch \in Chans
    <3>1. CASE ch = c
      <4>1. EntriesOf(sendCases', ch) = EntriesOf(sendCases, c) \ {y}
        BY <1>2, <1>4, <1>12, <3>1
      <4>2. Selecting(ch)' = Selecting(c) \ {sub}
        BY <1>2, <1>7, <3>1
      <4>3. Cardinality(EntriesOf(sendCases, c)) >= Cardinality(Selecting(c))
        BY <1>2 DEF CountInv
      <4>4. Cardinality(EntriesOf(sendCases, c) \ {y}) = Cardinality(EntriesOf(sendCases, c)) - 1
        BY <1>9, <1>12
      <4> QED BY <1>2, <1>8, <1>9, <2>1, <4>1, <4>2, <4>3, <4>4
    <3>2. CASE ch # c
      BY <1>4, <1>7, <1>8, <1>12, <3>2 DEF CountInv
    <3> QED BY <3>1, <3>2
  <2>4. CasesMatchSubs'
    BY <1>1, <1>12, <2>2 DEF CountInv, CasesMatchSubs, EntriesOf, Open
  <2> QED BY <1>10, <2>3, <2>4 DEF CountInv, EntriesOf
<1> QED BY <1>11, <1>12

LEMMA CountInvInit == Init => CountInv
<1> SUFFICES ASSUME Init PROVE CountInv
  OBVIOUS
<1>1. Range(sendCases) = {} /\ Range(inbox) = {}
  BY DEF Init, Range
<1>2. IsInjective(sendCases) /\ IsInjective(inbox)
  BY DEF Init, IsInjective
<1>3. \A ch : Open(ch) = {} /\ Selecting(ch) = {}
  BY DEF Init, Open, Selecting
<1>4. \A ch : EntriesOf(sendCases, ch) = {} /\ EntriesOf(inbox, ch) = {}
  BY <1>1 DEF EntriesOf
<1> QED BY <1>1, <1>2, <1>3, <1>4, FS_EmptySet DEF CountInv, CasesMatchSubs

LEMMA CountInvSubscribe ==
    ASSUME IndInv, CountInv, NEW sub \in Subs, Subscribe(sub)
    PROVE  CountInv'
<1> DEFINE c == ChanOf[sub]
<1>0. /\ inbox \in Seq(Subs)
      /\ sendCases \in Seq(Subs)
      /\ subState \in [Subs -> {"none", "panicked", "live", "select", "closed"}]
      /\ subState[sub] = "none"
      /\ sendCases' = sendCases
      /\ c \in Chans
  BY ChansAssumption DEF IndInv, TypeOK, Subscribe
<1>1. \A x \in Range(sendCases) \cup Range(inbox) :
        x \in Subs /\ x # sub /\ subState[x] \in {"live", "select", "closed"}
  BY <1>0, RangeSubs DEF CountInv
<1>2. CASE typecheck(ElemType[c])
  <2>1. inbox' = Append(inbox, sub) /\ subState' = [subState EXCEPT ![sub] = "live"]
    BY <1>2 DEF Subscribe
  <2>2. /\ DOMAIN inbox' = 1..(Len(inbox) + 1)
        /\ \A k \in 1..Len(inbox) : inbox'[k] = inbox[k]
        /\ inbox'[Len(inbox) + 1] = sub
        /\ DOMAIN inbox = 1..Len(inbox)
        /\ Len(inbox) \in Nat
    BY <1>0, <2>1
  <2>3. Range(inbox') = Range(inbox) \cup {sub}
    BY <2>2 DEF Range
  <2>4. IsInjective(inbox')
    <3>1. IsInjective(inbox) /\ \A k \in 1..Len(inbox) : inbox[k] # sub
      BY <1>1, <2>2 DEF CountInv, CasesMatchSubs, Range
    <3> QED BY <2>2, <3>1 DEF IsInjective
  <2>5. \A ch \in Chans :
          /\ EntriesOf(inbox, ch)' =
               IF ch = c THEN EntriesOf(inbox, ch) \cup {sub} ELSE EntriesOf(inbox, ch)
          /\ EntriesOf(sendCases, ch)' = EntriesOf(sendCases, ch)
          /\ Open(ch)' = IF ch = c THEN Open(ch) \cup {sub} ELSE Open(ch)
          /\ Selecting(ch)' = Selecting(ch)
    BY <1>0, <2>1, <2>3 DEF EntriesOf, Open, Selecting
  <2>6. sub \notin EntriesOf(inbox, c) /\ sub \notin Open(c)
    BY <1>0, <1>1 DEF EntriesOf, Open
  <2>7. \A ch \in Chans :
          /\ IsFiniteSet(EntriesOf(inbox, ch)) /\ IsFiniteSet(Open(ch))
          /\ Cardinality(EntriesOf(inbox, ch)) \in Nat
          /\ Cardinality(EntriesOf(sendCases, ch)) \in Nat
          /\ Cardinality(Open(ch)) \in Nat
    BY SetsOfSubs, SubsFinite DEF IndInv
  <2>8. /\ Cardinality(EntriesOf(inbox, c) \cup {sub}) = Cardinality(EntriesOf(inbox, c)) + 1
        /\ Cardinality(Open(c) \cup {sub}) = Cardinality(Open(c)) + 1
    BY <1>0, <2>6, <2>7, FS_AddElement
  <2>9. \A ch \in Chans :
          Cardinality(EntriesOf(sendCases, ch)') + Cardinality(EntriesOf(inbox, ch)')
            = Cardinality(Open(ch)')
    <3> TAKE ch \in Chans
    <3>1. Cardinality(EntriesOf(sendCases, ch)) + Cardinality(EntriesOf(inbox, ch))
            = Cardinality(Open(ch))
      BY DEF CountInv, CasesMatchSubs
    <3>2. CASE ch = c
      <4>1. /\ EntriesOf(inbox, ch)' = EntriesOf(inbox, c) \cup {sub}
            /\ EntriesOf(sendCases, ch)' = EntriesOf(sendCases, c)
            /\ Open(ch)' = Open(c) \cup {sub}
        BY <2>5, <3>2
      <4> QED BY <2>7, <2>8, <3>1, <3>2, <4>1
    <3>3. CASE ch # c
      BY <2>5, <3>1, <3>3
    <3> QED BY <3>2, <3>3
  <2>10. CasesMatchSubs'
    BY <1>0, <1>1, <2>3, <2>4, <2>9 DEF CountInv, CasesMatchSubs
  <2> QED BY <1>0, <1>1, <2>1, <2>3, <2>5, <2>10 DEF CountInv
<1>3. CASE ~typecheck(ElemType[c])
  <2>1. inbox' = inbox /\ subState' = [subState EXCEPT ![sub] = "panicked"]
    BY <1>3 DEF Subscribe
  <2>2. \A ch : Open(ch)' = Open(ch) /\ Selecting(ch)' = Selecting(ch)
    BY <1>0, <2>1 DEF Open, Selecting
  <2>3. \A x \in (Range(sendCases) \cup Range(inbox))' :
          subState'[x] \in {"live", "select", "closed"}
    BY <1>0, <1>1, <2>1
  <2> QED BY <1>0, <2>1, <2>2, <2>3 DEF CountInv, CasesMatchSubs, EntriesOf
<1> QED BY <1>2, <1>3

LEMMA CountInvMerge ==
    ASSUME IndInv, CountInv, NEW s \in Senders, SendMerge(s)
    PROVE  CountInv'
<1>0. /\ inbox \in Seq(Subs)
      /\ sendCases \in Seq(Subs)
      /\ sendCases' = sendCases \o inbox
      /\ inbox' = << >>
      /\ subState' = subState
  BY DEF IndInv, TypeOK, SendMerge, subVars
<1>1. /\ DOMAIN sendCases' = 1..(Len(sendCases) + Len(inbox))
      /\ \A k \in 1..(Len(sendCases) + Len(inbox)) :
           sendCases'[k] = IF k <= Len(sendCases) THEN sendCases[k]
                           ELSE inbox[k - Len(sendCases)]
      /\ DOMAIN sendCases = 1..Len(sendCases)
      /\ DOMAIN inbox = 1..Len(inbox)
      /\ Len(sendCases) \in Nat
      /\ Len(inbox) \in Nat
  BY <1>0
<1>2. Range(sendCases') = Range(sendCases) \cup Range(inbox)
  <2>1. Range(sendCases') \subseteq Range(sendCases) \cup Range(inbox)
    BY <1>1 DEF Range
  <2>2. Range(sendCases) \subseteq Range(sendCases')
    BY <1>1 DEF Range
  <2>3. ASSUME NEW x \in Range(inbox) PROVE x \in Range(sendCases')
    <3>1. PICK k \in 1..Len(inbox) : x = inbox[k]
      BY <1>1 DEF Range
    <3>2. /\ k + Len(sendCases) \in 1..(Len(sendCases) + Len(inbox))
          /\ ~(k + Len(sendCases) <= Len(sendCases))
          /\ (k + Len(sendCases)) - Len(sendCases) = k
      BY <1>1
    <3>3. sendCases'[k + Len(sendCases)] = x
      BY <1>1, <3>1, <3>2
    <3> QED BY <1>1, <3>2, <3>3 DEF Range
  <2> QED BY <2>1, <2>2, <2>3
<1>3. IsInjective(sendCases')
  <2>1. /\ IsInjective(sendCases)
        /\ IsInjective(inbox)
        /\ \A k \in 1..Len(sendCases), m \in 1..Len(inbox) : sendCases[k] # inbox[m]
    BY <1>1 DEF CountInv, CasesMatchSubs, Range
  <2> QED BY <1>1, <2>1 DEF IsInjective
<1>4. Range(inbox') = {} /\ IsInjective(inbox')
  BY <1>0 DEF Range, IsInjective
<1>5. \A ch \in Chans :
        /\ EntriesOf(sendCases, ch)' = EntriesOf(sendCases, ch) \cup EntriesOf(inbox, ch)
        /\ EntriesOf(sendCases, ch) \cap EntriesOf(inbox, ch) = {}
        /\ EntriesOf(inbox, ch)' = {}
        /\ Open(ch)' = Open(ch)
        /\ Selecting(ch)' = Selecting(ch)
  BY <1>0, <1>2, <1>4 DEF EntriesOf, Open, Selecting, CountInv, CasesMatchSubs
<1>6. \A ch \in Chans :
        /\ Cardinality(EntriesOf(sendCases, ch)') =
             Cardinality(EntriesOf(sendCases, ch)) + Cardinality(EntriesOf(inbox, ch))
        /\ Cardinality(EntriesOf(inbox, ch)') = 0
        /\ Cardinality(EntriesOf(sendCases, ch)) \in Nat
        /\ Cardinality(EntriesOf(inbox, ch)) \in Nat
        /\ Cardinality(Selecting(ch)) \in Nat
  <2> TAKE ch \in Chans
  <2>1. /\ IsFiniteSet(EntriesOf(sendCases, ch))
        /\ IsFiniteSet(EntriesOf(inbox, ch))
        /\ Cardinality(EntriesOf(sendCases, ch)) \in Nat
        /\ Cardinality(EntriesOf(inbox, ch)) \in Nat
        /\ Cardinality(Selecting(ch)) \in Nat
    BY SetsOfSubs, SubsFinite DEF IndInv
  <2>2. Cardinality(EntriesOf(sendCases, ch) \cup EntriesOf(inbox, ch)) =
          Cardinality(EntriesOf(sendCases, ch)) + Cardinality(EntriesOf(inbox, ch))
            - Cardinality(EntriesOf(sendCases, ch) \cap EntriesOf(inbox, ch))
    BY <2>1, FS_Union
  <2>3. Cardinality(EntriesOf(sendCases, ch) \cap EntriesOf(inbox, ch)) = 0
    BY <1>5, FS_EmptySet
  <2>4. Cardinality(EntriesOf(inbox, ch)') = 0
    BY <1>5, FS_EmptySet
  <2>5. EntriesOf(sendCases, ch)' = EntriesOf(sendCases, ch) \cup EntriesOf(inbox, ch)
    BY <1>5
  <2> QED BY <2>1, <2>2, <2>3, <2>4, <2>5
<1>7. CasesMatchSubs'
  BY <1>3, <1>4, <1>5, <1>6 DEF CountInv, CasesMatchSubs
<1>8. \A ch \in Chans :
        Cardinality(EntriesOf(sendCases, ch)') >= Cardinality(Selecting(ch)')
  BY <1>5, <1>6 DEF CountInv
<1> QED BY <1>0, <1>2, <1>4, <1>7, <1>8 DEF CountInv

LEMMA CountInvRemoveFromInbox ==
    ASSUME IndInv, CountInv, NEW sub \in Subs, RemoveFromInbox(sub)
    PROVE  CountInv'
<1> DEFINE c == ChanOf[sub]
           index == find(inbox, c)
<1>0. /\ TypeOK
      /\ inbox \in Seq(Subs)
      /\ subState \in [Subs -> {"none", "panicked", "live", "select", "closed"}]
      /\ subState[sub] = "live"
      /\ sendCases' = sendCases
      /\ c \in Chans
  BY ChansAssumption DEF IndInv, TypeOK, RemoveFromInbox
<1>1. CASE index # 0
  <2>1. index \in 1..Len(inbox) /\ ChanOf[inbox[index]] = c
    BY <1>0, <1>1, FindRange
  <2>2. /\ inbox' = delete(inbox, index)
        /\ subState' = [subState EXCEPT ![sub] = "closed"]
    BY <1>1 DEF RemoveFromInbox
  <2> HIDE DEF index
  <2> QED BY <1>0, <2>1, <2>2, CountDeleted
<1>2. CASE index = 0
  <2>1. inbox' = inbox /\ subState' = [subState EXCEPT ![sub] = "select"]
    BY <1>2 DEF RemoveFromInbox
  <2>2. EntriesOf(inbox, c) = {}
    <3>1. ~ \E k \in 1..Len(inbox) : ChanOf[inbox[k]] = c
      BY <1>0, <1>2, FindRange
    <3> QED BY <1>0, <3>1, RangeSubs DEF EntriesOf, Range
  <2>3. /\ \A ch \in Chans : Open(ch)' = Open(ch)
        /\ \A ch \in Chans : ch # c => Selecting(ch)' = Selecting(ch)
        /\ Selecting(c)' \subseteq Open(c)
    BY <1>0, <2>1 DEF Open, Selecting
  <2>4. /\ IsFiniteSet(Open(c))
        /\ Cardinality(EntriesOf(sendCases, c)) \in Nat
        /\ Cardinality(Open(c)) \in Nat
        /\ Open(c) \in SUBSET Subs
    BY <1>0, SetsOfSubs, SubsFinite
  <2>5. Cardinality(Selecting(c)') <= Cardinality(Open(c)) /\ Cardinality(Selecting(c)') \in Nat
    BY <2>3, <2>4, FS_Subset, FS_CardinalityType
  <2>6. Cardinality(EntriesOf(sendCases, c)) = Cardinality(Open(c))
    <3>1. Cardinality(EntriesOf(sendCases, c)) + Cardinality(EntriesOf(inbox, c))
            = Cardinality(Open(c))
      BY <1>0 DEF CountInv, CasesMatchSubs
    <3>2. Cardinality(EntriesOf(inbox, c)) = 0
      BY <2>2, FS_EmptySet
    <3> QED BY <2>4, <3>1, <3>2
  <2>7. \A ch \in Chans :
          Cardinality(EntriesOf(sendCases, ch)) >= Cardinality(Selecting(ch)')
    <3> TAKE ch \in Chans
    <3>1. CASE ch = c
      BY <2>4, <2>5, <2>6, <3>1
    <3>2. CASE ch # c
      BY <2>3, <3>2 DEF CountInv
    <3> QED BY <3>1, <3>2
  <2>8. \A x \in Range(sendCases) \cup Range(inbox) :
          subState'[x] \in {"live", "select", "closed"}
    BY <1>0, <2>1, RangeSubs DEF CountInv, TypeOK
  <2> QED BY <1>0, <2>1, <2>3, <2>7, <2>8 DEF CountInv, CasesMatchSubs, EntriesOf
<1> QED BY <1>1, <1>2

LEMMA CountInvNext == IndInv /\ CountInv /\ [Next]_vars => CountInv'
<1> SUFFICES ASSUME IndInv, CountInv, [Next]_vars PROVE CountInv'
  OBVIOUS
<1> USE DEF InSend, Sending
<1>0. TypeOK
  BY DEF IndInv
<1>1. ASSUME NEW sub \in Subs, SubscribeBadChannel(sub) PROVE CountInv'
  <2>1. /\ UNCHANGED <<inbox, sendCases>>
        /\ subState[sub] = "none"
        /\ subState' = [subState EXCEPT ![sub] = "panicked"]
    BY <1>1 DEF SubscribeBadChannel, feedVars
  <2>2. \A ch : Open(ch)' = Open(ch) /\ Selecting(ch)' = Selecting(ch)
    BY <1>0, <2>1 DEF Open, Selecting, TypeOK
  <2>3. \A x \in Range(sendCases) \cup Range(inbox) :
          subState'[x] \in {"live", "select", "closed"}
    BY <1>0, <2>1, RangeSubs DEF CountInv, TypeOK
  <2> QED BY <2>1, <2>2, <2>3 DEF CountInv, CasesMatchSubs, EntriesOf
<1>2. ASSUME NEW sub \in Subs, Subscribe(sub) PROVE CountInv'
  BY <1>2, CountInvSubscribe
<1>3. ASSUME NEW sub \in Subs, RemoveFromInbox(sub) PROVE CountInv'
  BY <1>3, CountInvRemoveFromInbox
<1>4. ASSUME NEW sub \in Subs,
             RemoveWithLock(sub) \/ \E s \in Senders : RemoveDuringSend(s, sub)
      PROVE  CountInv'
  <2> DEFINE index == find(sendCases, ChanOf[sub])
  <2>1. /\ subState[sub] = "select"
        /\ subState' = [subState EXCEPT ![sub] = "closed"]
        /\ sendCases' = delete(sendCases, index)
        /\ inbox' = inbox
    BY <1>4 DEF RemoveWithLock, RemoveDuringSend
  <2>2. index \in 1..Len(sendCases) /\ ChanOf[sendCases[index]] = ChanOf[sub]
    BY <1>0, <2>1, FindSucceeds
  <2> HIDE DEF index
  <2> QED BY <1>0, <2>1, <2>2, CountDeleted
<1>5. ASSUME NEW s \in Senders, SendMerge(s) PROVE CountInv'
  BY <1>5, CountInvMerge
<1>6. ASSUME NEW s \in Senders, NEW k \in 1..cases[s], pc[s] \in Sending,
             SendCase(s, k), UNCHANGED <<inbox, subState>>
      PROVE  CountInv'
  <2>1. k \in 1..Len(sendCases) /\ cases[s] \in 1..Len(sendCases) /\ sendCases \in Seq(Subs)
    BY <1>6 DEF IndInv, TypeOK, PrefixInv
  <2>2. sendCases' = deactivate(sendCases, k, cases[s])
    BY <1>6 DEF SendCase
  <2> QED BY <1>6, <2>1, <2>2, DeactivateSeq, CountPermuted
<1>7. ASSUME NEW s \in Senders, TrySendOk(s) PROVE CountInv'
  <2>1. i[s] \in 1..cases[s] /\ pc[s] \in Sending
    BY <1>7 DEF TrySendOk, IndInv, TypeOK, PrefixInv
  <2> QED BY <1>6, <1>7, <2>1 DEF TrySendOk, subVars
<1>8. ASSUME NEW s \in Senders, SelectSend(s) PROVE CountInv'
  BY <1>6, <1>8 DEF SelectSend, Selectable, subVars
<1>9. ASSUME UNCHANGED <<inbox, sendCases, subState>> PROVE CountInv'
  BY <1>9 DEF CountInv, CasesMatchSubs, EntriesOf, Open, Selecting
<1>10. ASSUME NEW s \in Senders, SendLock(s) \/ TrySendFull(s) \/ FastPathEnd(s)
       PROVE  CountInv'
  BY <1>9, <1>10 DEF SendLock, TrySendFull, FastPathEnd, feedVars, subVars
<1>11. ASSUME NEW ch \in Chans, Recv(ch) PROVE CountInv'
  BY <1>9, <1>11 DEF Recv, feedVars, subVars
<1>12. CASE UNCHANGED vars
  BY <1>9, <1>12 DEF vars, feedVars, subVars
<1> QED
  BY <1>1, <1>2, <1>3, <1>4, <1>5, <1>7, <1>8, <1>10, <1>11, <1>12
     DEF Next, SubStep, SendStep, Terminated

\* Every channel keeps one case per open subscription, whichever interleaving
\* of Subscribe, Unsubscribe and Send, also on shared channels.
THEOREM FeedCases == Spec => []CasesMatchSubs
<1>1. IndInv /\ CountInv /\ [Next]_vars => (IndInv /\ CountInv)'
  BY IndInvNext, CountInvNext
<1>2. CountInv => CasesMatchSubs
  BY DEF CountInv
<1> QED BY <1>1, <1>2, IndInvInit, CountInvInit, PTL DEF Spec

\* find never yields -1 where delete would panic: an Unsubscribe past the
\* inbox has a case of its channel in sendCases until it removes one.
THEOREM FeedCaseFound == Spec => []CaseFound
<1>1. IndInv /\ CountInv /\ [Next]_vars => (IndInv /\ CountInv)'
  BY IndInvNext, CountInvNext
<1>2. IndInv /\ CountInv => CaseFound
  BY FindSucceeds DEF CaseFound, IndInv, TypeOK
<1> QED BY <1>1, <1>2, IndInvInit, CountInvInit, PTL DEF Spec

\* Both together, for the theorems below.
THEOREM FeedCountInv == Spec => [](IndInv /\ CountInv)
<1>1. IndInv /\ CountInv /\ [Next]_vars => (IndInv /\ CountInv)'
  BY IndInvNext, CountInvNext
<1> QED BY <1>1, IndInvInit, CountInvInit, PTL DEF Spec

-----------------------------------------------------------------------------
(* Element types.  The feed has no type only as long as it has no case,    *)
(* because Subscribe refuses what is not a channel one can send on.        *)

TypeInv ==
    /\ TypeSafe
    /\ \A x \in Range(sendCases) \cup Range(inbox) : ElemType[ChanOf[x]] # NoType

\* The cases after a step are old ones, or the one Subscribe adds.
LEMMA ListsAfter ==
    ASSUME IndInv, CountInv, [Next]_vars,
           NEW x \in (Range(sendCases) \cup Range(inbox))'
    PROVE  \/ x \in Range(sendCases) \cup Range(inbox)
           \/ x \in Subs /\ Subscribe(x) /\ etype' = ElemType[ChanOf[x]]
<1> USE DEF InSend, Sending
<1> DEFINE Old == \/ x \in Range(sendCases) \cup Range(inbox)
                  \/ x \in Subs /\ Subscribe(x) /\ etype' = ElemType[ChanOf[x]]
<1>0. TypeOK /\ inbox \in Seq(Subs) /\ sendCases \in Seq(Subs)
      /\ IsInjective(inbox) /\ IsInjective(sendCases)
  BY DEF IndInv, TypeOK, CountInv, CasesMatchSubs
<1>1. ASSUME NEW sub \in Subs, Subscribe(sub) PROVE Old
  <2>1. CASE typecheck(ElemType[ChanOf[sub]])
    <3>1. inbox' = Append(inbox, sub) /\ sendCases' = sendCases /\ etype' = ElemType[ChanOf[sub]]
      BY <1>1, <2>1 DEF Subscribe
    <3>2. Range(inbox') \subseteq Range(inbox) \cup {sub}
      BY <1>0, <3>1 DEF Range
    <3> QED BY <1>1, <3>1, <3>2
  <2>2. CASE ~typecheck(ElemType[ChanOf[sub]])
    BY <1>1, <2>2 DEF Subscribe
  <2> QED BY <2>1, <2>2
<1>2. ASSUME NEW sub \in Subs, RemoveFromInbox(sub) PROVE Old
  <2> DEFINE index == find(inbox, ChanOf[sub])
  <2>1. CASE index = 0
    BY <1>2, <2>1 DEF RemoveFromInbox
  <2>2. CASE index # 0
    <3>1. inbox' = delete(inbox, index) /\ sendCases' = sendCases /\ index \in 1..Len(inbox)
      BY <1>0, <1>2, <2>2, FindRange DEF RemoveFromInbox
    <3> QED BY <1>0, <3>1, DeleteRange
  <2> QED BY <2>1, <2>2
<1>3. ASSUME NEW sub \in Subs,
             RemoveWithLock(sub) \/ \E s \in Senders : RemoveDuringSend(s, sub)
      PROVE  Old
  <2> DEFINE index == find(sendCases, ChanOf[sub])
  <2>1. sendCases' = delete(sendCases, index) /\ inbox' = inbox /\ subState[sub] = "select"
    BY <1>3 DEF RemoveWithLock, RemoveDuringSend
  <2>2. index \in 1..Len(sendCases)
    BY <1>0, <2>1, FindSucceeds
  <2> QED BY <1>0, <2>1, <2>2, DeleteRange
<1>4. ASSUME NEW s \in Senders, SendMerge(s) PROVE Old
  <2>1. sendCases' = sendCases \o inbox /\ inbox' = << >>
    BY <1>4 DEF SendMerge
  <2>2. Range(sendCases') \subseteq Range(sendCases) \cup Range(inbox) /\ Range(inbox') = {}
    BY <1>0, <2>1 DEF Range
  <2> QED BY <2>2
<1>5. ASSUME NEW s \in Senders, NEW k \in 1..cases[s], pc[s] \in Sending,
             SendCase(s, k), inbox' = inbox
      PROVE  Old
  <2>1. k \in 1..Len(sendCases) /\ cases[s] \in 1..Len(sendCases)
    BY <1>5 DEF IndInv, TypeOK, PrefixInv
  <2>2. sendCases' = deactivate(sendCases, k, cases[s])
    BY <1>5 DEF SendCase
  <2> QED BY <1>0, <1>5, <2>1, <2>2, DeactivateSeq
<1>6. ASSUME NEW s \in Senders, TrySendOk(s) PROVE Old
  <2>1. i[s] \in 1..cases[s] /\ pc[s] \in Sending
    BY <1>6 DEF TrySendOk, IndInv, TypeOK, PrefixInv
  <2> QED BY <1>5, <1>6, <2>1 DEF TrySendOk
<1>7. ASSUME NEW s \in Senders, SelectSend(s) PROVE Old
  BY <1>5, <1>7 DEF SelectSend, Selectable
<1>8. CASE UNCHANGED <<sendCases, inbox>>
  BY <1>8
<1> QED
  BY <1>1, <1>2, <1>3, <1>4, <1>6, <1>7, <1>8
     DEF Next, SubStep, SendStep, Terminated, SubscribeBadChannel, SendLock, TrySendFull,
         FastPathEnd, Recv, vars, feedVars

LEMMA TypeInvInit == Init => TypeInv
<1> SUFFICES ASSUME Init PROVE TypeInv
  OBVIOUS
<1>1. Range(sendCases) = {} /\ Range(inbox) = {}
  BY DEF Init, Range
<1> QED BY <1>1 DEF Init, TypeInv, TypeSafe, Sending

\* A feed that gets a type had none or the same.
LEMMA TypeKept ==
    ASSUME IndInv, CountInv, TypeInv, [Next]_vars
    PROVE  /\ etype' # etype => /\ etype = NoType
                                /\ Range(sendCases) \cup Range(inbox) = {}
                                /\ \A s \in Senders : pc[s] \notin Sending
           /\ \A s \in Senders : pc'[s] \in Sending => pc[s] \in Sending \/ SendType[s] = etype'
<1> USE DEF InSend, Sending
<1>1. etype' # etype => etype = NoType
  BY DEF Next, SubStep, SendStep, Terminated, SubscribeBadChannel, Subscribe, RemoveFromInbox,
     RemoveWithLock, RemoveDuringSend, SendLock, SendMerge, TrySendOk, TrySendFull, FastPathEnd,
     SelectSend, Recv, vars, feedVars, typecheck
<1>2. etype = NoType => /\ Range(sendCases) \cup Range(inbox) = {}
                        /\ \A s \in Senders : pc[s] \notin Sending
  BY TypesAssumption DEF TypeInv, TypeSafe
<1>3. ASSUME NEW s \in Senders, pc'[s] \in Sending
      PROVE  pc[s] \in Sending \/ SendType[s] = etype'
  <2> DEFINE Typed == pc[s] \in Sending \/ SendType[s] = etype'
  <2>0. pc \in [Senders -> InSend \cup {"idle", "done", "panicked"}]
    BY DEF IndInv, TypeOK
  <2>1. ASSUME NEW t \in Senders, SendMerge(t) PROVE Typed
    <3>1. CASE typecheck(SendType[t])
      BY <1>3, <2>0, <2>1, <3>1 DEF SendMerge
    <3>2. CASE ~typecheck(SendType[t])
      BY <1>3, <2>0, <2>1, <3>2 DEF SendMerge
    <3> QED BY <3>1, <3>2
  <2>2. ASSUME NEW t \in Senders,
               SendLock(t) \/ TrySendOk(t) \/ TrySendFull(t) \/ FastPathEnd(t) \/ SelectSend(t)
               \/ \E sub \in Subs : RemoveDuringSend(t, sub)
        PROVE Typed
    BY <1>3, <2>0, <2>2 DEF SendLock, TrySendOk, TrySendFull, FastPathEnd, SelectSend,
       RemoveDuringSend
  <2>3. CASE pc' = pc
    BY <1>3, <2>3
  <2> QED BY <2>1, <2>2, <2>3 DEF Next, SubStep, SendStep, Terminated, SubscribeBadChannel,
          Subscribe, RemoveFromInbox, RemoveWithLock, Recv, vars, sendVars
<1> QED BY <1>1, <1>2, <1>3

LEMMA TypeInvNext == IndInv /\ CountInv /\ TypeInv /\ [Next]_vars => TypeInv'
<1> SUFFICES ASSUME IndInv, CountInv, TypeInv, [Next]_vars PROVE TypeInv'
  OBVIOUS
<1>1. ASSUME NEW x \in (Range(sendCases) \cup Range(inbox))'
      PROVE  ElemType[ChanOf[x]] = etype' /\ ElemType[ChanOf[x]] # NoType
  <2>1. CASE x \in Range(sendCases) \cup Range(inbox)
    BY <2>1, TypeKept DEF TypeInv, TypeSafe
  <2>2. CASE x \in Subs /\ Subscribe(x) /\ etype' = ElemType[ChanOf[x]]
    BY <2>2 DEF Subscribe
  <2> QED BY <1>1, <2>1, <2>2, ListsAfter
<1>2. ASSUME NEW s \in Senders, pc'[s] \in Sending PROVE SendType[s] = etype'
  BY <1>2, TypeKept DEF TypeInv, TypeSafe
<1> QED BY <1>1, <1>2 DEF TypeInv, TypeSafe

\* A Send only ever meets channels of its own type, also after Subscribe or
\* Send calls that panicked on a type that did not match: reflect's TrySend
\* and Select never panic.
THEOREM FeedTypeSafe == Spec => []TypeSafe
<1>1. IndInv /\ CountInv /\ TypeInv /\ [Next]_vars => TypeInv'
  BY TypeInvNext
<1>2. TypeInv => TypeSafe
  BY DEF TypeInv
<1> QED BY <1>1, <1>2, TypeInvInit, FeedCountInv, PTL DEF Spec

-----------------------------------------------------------------------------
(* What a Send owes: the cases of a channel in its active prefix.          *)

PrefixOf(cs, n, ch) == {x \in Subs : ChanOf[x] = ch /\ \E k \in 1..n : cs[k] = x}
Debt(s, ch) == Cardinality(PrefixOf(sendCases, cases[s], ch))

\* Counting positions or cases is the same, as no case is in the list twice.
LEMMA PrefixCard ==
    ASSUME NEW cs \in Seq(Subs), IsInjective(cs), NEW n \in 0..Len(cs), NEW ch
    PROVE  Cardinality({k \in 1..Len(cs) : ChanOf[cs[k]] = ch /\ k <= n})
             = Cardinality(PrefixOf(cs, n, ch))
<1> DEFINE K == {k \in 1..Len(cs) : ChanOf[cs[k]] = ch /\ k <= n}
           S == PrefixOf(cs, n, ch)
           f == [k \in K |-> cs[k]]
<1>1. Len(cs) \in Nat /\ DOMAIN cs = 1..Len(cs) /\ n \in Nat /\ \A k \in 1..Len(cs) : cs[k] \in Subs
  OBVIOUS
<1>2. IsFiniteSet(K)
  <2>1. IsFiniteSet(1..Len(cs)) /\ K \in SUBSET (1..Len(cs))
    BY <1>1, FS_Interval
  <2> QED BY <2>1, FS_Subset
<1>3. f \in [K -> S]
  BY <1>1 DEF PrefixOf
<1>4. \A k, m \in K : f[k] = f[m] => k = m
  BY <1>1 DEF IsInjective
<1>5. \A x \in S : \E k \in K : f[k] = x
  <2> TAKE x \in S
  <2>1. PICK k \in 1..n : cs[k] = x /\ ChanOf[x] = ch
    BY DEF PrefixOf
  <2>2. k \in K
    BY <1>1, <2>1
  <2> QED BY <2>1, <2>2
<1> HIDE DEF f, S, K
<1>6. f \in Bijection(K, S)
  BY <1>3, <1>4, <1>5 DEF Bijection, Injection, Surjection, IsInjective
<1>7. ExistsBijection(K, S)
  BY <1>6 DEF ExistsBijection
<1>8. Cardinality(S) = Cardinality(K)
  BY <1>2, <1>7, FS_Bijection
<1> QED BY <1>8 DEF S, K

LEMMA PrefixFinite ==
    ASSUME NEW cs, NEW n, NEW ch
    PROVE  /\ PrefixOf(cs, n, ch) \in SUBSET Subs
           /\ IsFiniteSet(PrefixOf(cs, n, ch)) /\ Cardinality(PrefixOf(cs, n, ch)) \in Nat
<1>1. PrefixOf(cs, n, ch) \in SUBSET Subs
  BY DEF PrefixOf
<1> QED BY <1>1, SubsFinite

\* An Unsubscribe takes its case out of the prefix, if it is there.
LEMMA PrefixDelete ==
    ASSUME NEW cs \in Seq(Subs), IsInjective(cs), NEW n \in 0..Len(cs), NEW index \in 1..Len(cs),
           NEW ch
    PROVE  /\ PrefixOf(delete(cs, index), shrink(index, n), ch) = PrefixOf(cs, n, ch) \ {cs[index]}
           /\ index > n => cs[index] \notin PrefixOf(cs, n, ch)
<1> DEFINE d == delete(cs, index)
           m == shrink(index, n)
<1>1. Len(cs) \in Nat /\ DOMAIN cs = 1..Len(cs) /\ n \in Nat /\ \A k \in 1..Len(cs) : cs[k] \in Subs
  OBVIOUS
<1>2. \A k \in 1..(Len(cs) - 1) : d[k] = IF k < index THEN cs[k] ELSE cs[k + 1]
  BY DEF delete
<1>3. m = (IF index <= n THEN n - 1 ELSE n) /\ m \in Nat /\ m <= Len(cs) - 1
  BY <1>1 DEF shrink
<1>4. \A j, k \in 1..Len(cs) : cs[j] = cs[k] => j = k
  BY <1>1 DEF IsInjective
<1>5. ASSUME index > n PROVE cs[index] \notin PrefixOf(cs, n, ch)
  BY <1>1, <1>4, <1>5 DEF PrefixOf
<1> HIDE DEF d, m
<1>6. ASSUME NEW k \in 1..m PROVE \E j \in 1..n : j # index /\ d[k] = cs[j]
  <2>1. CASE k < index
    <3>1. k \in 1..n /\ k # index /\ d[k] = cs[k]
      BY <1>1, <1>2, <1>3, <2>1
    <3> QED BY <3>1
  <2>2. CASE ~(k < index)
    <3>1. k + 1 \in 1..n /\ k + 1 # index /\ d[k] = cs[k + 1]
      BY <1>1, <1>2, <1>3, <2>2
    <3> QED BY <3>1
  <2> QED BY <2>1, <2>2
<1>7. ASSUME NEW j \in 1..n, j # index PROVE \E k \in 1..m : d[k] = cs[j]
  <2>1. CASE j < index
    <3>1. j \in 1..m /\ d[j] = cs[j]
      BY <1>1, <1>2, <1>3, <2>1
    <3> QED BY <3>1
  <2>2. CASE j > index
    <3>1. /\ j - 1 \in 1..m /\ j - 1 \in 1..(Len(cs) - 1) /\ ~(j - 1 < index) /\ (j - 1) + 1 = j
      BY <1>1, <1>3, <2>2
    <3>2. d[j - 1] = cs[j]
      BY <1>2, <3>1
    <3> QED BY <3>1, <3>2
  <2> QED BY <1>7, <2>1, <2>2
<1>8. PrefixOf(d, m, ch) \subseteq PrefixOf(cs, n, ch) \ {cs[index]}
  <2> SUFFICES ASSUME NEW x \in PrefixOf(d, m, ch)
               PROVE  x \in PrefixOf(cs, n, ch) /\ x # cs[index]
    OBVIOUS
  <2>1. PICK k \in 1..m : d[k] = x /\ x \in Subs /\ ChanOf[x] = ch
    BY DEF PrefixOf
  <2>2. PICK j \in 1..n : j # index /\ x = cs[j]
    BY <1>6, <2>1
  <2>3. j \in 1..Len(cs)
    BY <1>1
  <2> QED BY <1>4, <2>1, <2>2, <2>3 DEF PrefixOf
<1>9. PrefixOf(cs, n, ch) \ {cs[index]} \subseteq PrefixOf(d, m, ch)
  <2> SUFFICES ASSUME NEW x \in PrefixOf(cs, n, ch), x # cs[index]
               PROVE  x \in PrefixOf(d, m, ch)
    OBVIOUS
  <2>1. PICK j \in 1..n : cs[j] = x /\ x \in Subs /\ ChanOf[x] = ch
    BY DEF PrefixOf
  <2>2. PICK k \in 1..m : d[k] = x
    BY <1>7, <2>1
  <2> QED BY <2>1, <2>2 DEF PrefixOf
<1> QED BY <1>5, <1>8, <1>9 DEF d, m

\* A delivery takes its case out of the prefix.
LEMMA PrefixDeactivate ==
    ASSUME NEW cs \in Seq(Subs), IsInjective(cs), NEW last \in 1..Len(cs), NEW k \in 1..last,
           NEW ch
    PROVE  PrefixOf(deactivate(cs, k, last), last - 1, ch) = PrefixOf(cs, last, ch) \ {cs[k]}
<1> DEFINE d == deactivate(cs, k, last)
<1>1. Len(cs) \in Nat /\ DOMAIN cs = 1..Len(cs) /\ last \in Nat /\ k \in 1..Len(cs)
  OBVIOUS
<1>2. \A m \in 1..Len(cs) :
        d[m] = IF m = last THEN cs[k] ELSE IF m = k THEN cs[last] ELSE cs[m]
  BY <1>1 DEF deactivate
<1>4. \A j, m \in 1..Len(cs) : cs[j] = cs[m] => j = m
  BY <1>1 DEF IsInjective
<1> HIDE DEF d
<1>6. ASSUME NEW m \in 1..(last - 1) PROVE \E j \in 1..last : j # k /\ d[m] = cs[j]
  <2>1. m \in 1..Len(cs) /\ m # last /\ m \in 1..last /\ last \in 1..last
    BY <1>1
  <2> QED BY <1>2, <2>1
<1>7. ASSUME NEW j \in 1..last, j # k PROVE \E m \in 1..(last - 1) : d[m] = cs[j]
  <2>1. CASE j = last
    <3>1. k \in 1..(last - 1)
      BY <1>1, <1>7, <2>1
    <3> QED BY <1>1, <1>2, <1>7, <2>1, <3>1
  <2>2. CASE j # last
    <3>1. j \in 1..(last - 1) /\ j \in 1..Len(cs)
      BY <1>1, <2>2
    <3> QED BY <1>2, <1>7, <2>2, <3>1
  <2> QED BY <2>1, <2>2
<1>8. PrefixOf(d, last - 1, ch) \subseteq PrefixOf(cs, last, ch) \ {cs[k]}
  <2> SUFFICES ASSUME NEW x \in PrefixOf(d, last - 1, ch)
               PROVE  x \in PrefixOf(cs, last, ch) /\ x # cs[k]
    OBVIOUS
  <2>1. PICK m \in 1..(last - 1) : d[m] = x /\ x \in Subs /\ ChanOf[x] = ch
    BY DEF PrefixOf
  <2>2. PICK j \in 1..last : j # k /\ x = cs[j]
    BY <1>6, <2>1
  <2>3. j \in 1..Len(cs)
    BY <1>1
  <2> QED BY <1>1, <1>4, <2>1, <2>2, <2>3 DEF PrefixOf
<1>9. PrefixOf(cs, last, ch) \ {cs[k]} \subseteq PrefixOf(d, last - 1, ch)
  <2> SUFFICES ASSUME NEW x \in PrefixOf(cs, last, ch), x # cs[k]
               PROVE  x \in PrefixOf(d, last - 1, ch)
    OBVIOUS
  <2>1. PICK j \in 1..last : cs[j] = x /\ x \in Subs /\ ChanOf[x] = ch
    BY DEF PrefixOf
  <2>2. PICK m \in 1..(last - 1) : d[m] = x
    BY <1>7, <2>1
  <2> QED BY <2>1, <2>2 DEF PrefixOf
<1> QED BY <1>8, <1>9 DEF d

\* What the three steps that change a debt do to it.
LEMMA DebtSend ==
    ASSUME IndInv, CountInv, NEW s \in Senders, pc[s] \in Sending, NEW k \in 1..cases[s],
           SendCase(s, k)
    PROVE  \E c \in Chans :
             /\ delivered' = [delivered EXCEPT ![s][c] = @ + 1]
             /\ Debt(s, c) > 0 /\ Open(c) # {}
             /\ \A ch \in Chans : Debt(s, ch)' = IF ch = c THEN Debt(s, ch) - 1 ELSE Debt(s, ch)
<1> DEFINE y == sendCases[k]
           c == ChanOf[y]
<1>0. /\ sendCases \in Seq(Subs) /\ IsInjective(sendCases) /\ cases \in [Senders -> Nat]
      /\ cases[s] \in 1..Len(sendCases) /\ k \in 1..Len(sendCases) /\ TypeOK
  BY DEF IndInv, TypeOK, PrefixInv, CountInv, CasesMatchSubs
<1>1. y \in Subs /\ c \in Chans
  BY <1>0, ChansAssumption
<1>2. /\ sendCases' = deactivate(sendCases, k, cases[s])
      /\ cases'[s] = cases[s] - 1
      /\ delivered' = [delivered EXCEPT ![s][c] = @ + 1]
  BY <1>0 DEF SendCase
<1>3. \A ch \in Chans : PrefixOf(sendCases', cases'[s], ch)
                          = PrefixOf(sendCases, cases[s], ch) \ {y}
  BY <1>0, <1>2, PrefixDeactivate
<1>4. y \in PrefixOf(sendCases, cases[s], c)
  BY <1>1 DEF PrefixOf
<1>5. \A ch \in Chans : ch # c => y \notin PrefixOf(sendCases, cases[s], ch)
  BY DEF PrefixOf
<1>6. \A ch \in Chans : /\ IsFiniteSet(PrefixOf(sendCases, cases[s], ch))
                        /\ Debt(s, ch) \in Nat
  BY PrefixFinite DEF Debt
<1>7. \A ch \in Chans : Debt(s, ch)' = IF ch = c THEN Debt(s, ch) - 1 ELSE Debt(s, ch)
  <2> TAKE ch \in Chans
  <2>1. Debt(s, ch)' = Cardinality(PrefixOf(sendCases', cases'[s], ch))
    BY DEF Debt
  <2>2. Cardinality(PrefixOf(sendCases, cases[s], ch) \ {y}) =
          IF y \in PrefixOf(sendCases, cases[s], ch) THEN Debt(s, ch) - 1 ELSE Debt(s, ch)
    BY <1>6, FS_RemoveElement DEF Debt
  <2> QED BY <1>3, <1>4, <1>5, <2>1, <2>2
<1>8. Debt(s, c) > 0
  <2>1. Debt(s, c) # 0
    BY <1>1, <1>4, <1>6, FS_EmptySet DEF Debt
  <2> QED BY <1>1, <1>6, <2>1
<1>9. Open(c) # {}
  <2>1. y \in EntriesOf(sendCases, c)
    BY <1>0, RangeSubs DEF EntriesOf, Range
  <2>2. /\ IsFiniteSet(EntriesOf(sendCases, c)) /\ Cardinality(EntriesOf(sendCases, c)) \in Nat
        /\ Cardinality(EntriesOf(inbox, c)) \in Nat
    BY <1>0, SetsOfSubs, SubsFinite
  <2>3. Cardinality(EntriesOf(sendCases, c)) # 0
    BY <2>1, <2>2, FS_EmptySet
  <2>4. Cardinality(Open(c)) # 0
    BY <1>1, <2>2, <2>3 DEF CountInv, CasesMatchSubs
  <2> QED BY <2>4, FS_EmptySet
<1> HIDE DEF c
<1> QED BY <1>1, <1>2, <1>7, <1>8, <1>9

LEMMA DebtRemove ==
    ASSUME IndInv, CountInv, NEW s \in Senders, NEW sub \in Subs, RemoveDuringSend(s, sub)
    PROVE  \E d \in {0, 1} : \A ch \in Chans :
             /\ Debt(s, ch) \in Nat /\ Debt(s, ch)' \in Nat
             /\ Debt(s, ch)' = IF ch = ChanOf[sub] THEN Debt(s, ch) - d ELSE Debt(s, ch)
<1> DEFINE c == ChanOf[sub]
           index == find(sendCases, c)
           y == sendCases[index]
<1>0. /\ sendCases \in Seq(Subs) /\ IsInjective(sendCases) /\ cases \in [Senders -> Nat]
      /\ cases[s] \in 0..Len(sendCases) /\ TypeOK /\ subState[sub] = "select"
  BY DEF RemoveDuringSend, IndInv, TypeOK, PrefixInv, CountInv, CasesMatchSubs, Sending
<1>1. index \in 1..Len(sendCases) /\ ChanOf[y] = c
  BY <1>0, FindSucceeds
<1>2. sendCases' = delete(sendCases, index) /\ cases'[s] = shrink(index, cases[s])
  BY <1>0 DEF RemoveDuringSend
<1> HIDE DEF index
<1>3. \A ch \in Chans : PrefixOf(sendCases', cases'[s], ch)
                          = PrefixOf(sendCases, cases[s], ch) \ {y}
  BY <1>0, <1>1, <1>2, PrefixDelete
<1>4. \A ch \in Chans : ch # c => y \notin PrefixOf(sendCases, cases[s], ch)
  BY <1>1 DEF PrefixOf
<1>5. \A ch \in Chans : /\ IsFiniteSet(PrefixOf(sendCases, cases[s], ch))
                        /\ Debt(s, ch) \in Nat
                        /\ Cardinality(PrefixOf(sendCases', cases'[s], ch)) \in Nat
  BY PrefixFinite DEF Debt
<1>6. \A ch \in Chans :
        Debt(s, ch)' = IF y \in PrefixOf(sendCases, cases[s], ch) THEN Debt(s, ch) - 1
                       ELSE Debt(s, ch)
  <2> TAKE ch \in Chans
  <2>1. Debt(s, ch)' = Cardinality(PrefixOf(sendCases', cases'[s], ch))
    BY DEF Debt
  <2>2. Cardinality(PrefixOf(sendCases, cases[s], ch) \ {y}) =
          IF y \in PrefixOf(sendCases, cases[s], ch) THEN Debt(s, ch) - 1 ELSE Debt(s, ch)
    BY <1>5, FS_RemoveElement DEF Debt
  <2> QED BY <1>3, <2>1, <2>2
<1>7. \A ch \in Chans : Debt(s, ch)' \in Nat
  BY <1>5 DEF Debt
<1>8. CASE y \in PrefixOf(sendCases, cases[s], c)
  <2> HIDE DEF c
  <2> WITNESS 1 \in {0, 1}
  <2> QED BY <1>4, <1>5, <1>6, <1>7, <1>8 DEF c
<1>9. CASE y \notin PrefixOf(sendCases, cases[s], c)
  <2> HIDE DEF c
  <2> WITNESS 0 \in {0, 1}
  <2> QED BY <1>4, <1>5, <1>6, <1>7, <1>9 DEF c
<1> QED BY <1>8, <1>9

\* A Send begins with one debt for every open subscription.
LEMMA DebtMerge ==
    ASSUME IndInv, CountInv, CountInv', TypeOK', NEW s \in Senders, SendMerge(s),
           cases'[s] = Len(sendCases')
    PROVE  \A ch \in Chans : Debt(s, ch)' = Cardinality(Open(ch))
<1> TAKE ch \in Chans
<1>1. sendCases' \in Seq(Subs) /\ DOMAIN sendCases' = 1..Len(sendCases') /\ inbox' = << >>
  BY DEF TypeOK, SendMerge
<1>2. PrefixOf(sendCases', cases'[s], ch) = EntriesOf(sendCases', ch)
  <2>1. \A x : x \in Range(sendCases') <=> \E k \in 1..Len(sendCases') : sendCases'[k] = x
    BY <1>1 DEF Range
  <2>2. Range(sendCases') \in SUBSET Subs
    BY <1>1, RangeSubs
  <2> QED BY <2>1, <2>2 DEF PrefixOf, EntriesOf
<1>3. EntriesOf(inbox', ch) = {}
  BY <1>1 DEF EntriesOf, Range
<1>4. Open(ch)' = Open(ch)
  BY DEF SendMerge, subVars, Open
<1>5. Cardinality(EntriesOf(sendCases', ch)) + Cardinality(EntriesOf(inbox', ch))
        = Cardinality(Open(ch))
  BY <1>4 DEF CountInv, CasesMatchSubs, EntriesOf
<1>6. Cardinality(EntriesOf(sendCases', ch)) \in Nat /\ Cardinality(EntriesOf(inbox', ch)) = 0
  BY <1>1, <1>3, RangeSubs, SubsFinite, FS_EmptySet
<1> QED BY <1>2, <1>5, <1>6 DEF Debt

-----------------------------------------------------------------------------
(* Deliveries.  Only a successful send changes them, and it is for a case  *)
(* of the active prefix, of which there are no more than open              *)
(* subscriptions of the channel.                                           *)

\* A step is a successful send, or it leaves what is delivered alone.
LEMMA StepDelivers ==
    ASSUME IndInv, [Next]_vars
    PROVE  \/ UNCHANGED <<delivered, nsent>>
           \/ \E s \in Senders : /\ pc[s] \in Sending
                                 /\ TrySendOk(s) \/ SelectSend(s)
                                 /\ \E k \in 1..cases[s] : SendCase(s, k)
<1> USE DEF InSend, Sending
<1>1. ASSUME NEW s \in Senders, TrySendOk(s)
      PROVE  pc[s] \in Sending /\ \E k \in 1..cases[s] : SendCase(s, k)
  <2>1. i[s] \in 1..cases[s] /\ pc[s] \in Sending
    BY <1>1 DEF TrySendOk, IndInv, TypeOK, PrefixInv
  <2> QED BY <1>1, <2>1 DEF TrySendOk
<1>2. ASSUME NEW s \in Senders, SelectSend(s)
      PROVE  pc[s] \in Sending /\ \E k \in 1..cases[s] : SendCase(s, k)
  BY <1>2 DEF SelectSend, Selectable
<1> QED BY <1>1, <1>2
        DEF Next, SubStep, SendStep, Terminated, SubscribeBadChannel, Subscribe, RemoveFromInbox,
            RemoveWithLock, RemoveDuringSend, SendLock, SendMerge, TrySendFull, FastPathEnd, Recv,
            vars, sendVars, history

\* No Send puts a value on a channel all of whose subscriptions have been
\* cancelled by an Unsubscribe that has returned.
THEOREM FeedNoDelivery == Spec => NoDeliveryAfterUnsubscribe
<1> DEFINE Silent == \A s \in Senders, ch \in Chans :
                        delivered'[s][ch] # delivered[s][ch] => Open(ch) # {}
<1>1. IndInv /\ CountInv /\ [Next]_vars => [Silent]_vars
  <2> SUFFICES ASSUME IndInv, CountInv, [Next]_vars PROVE Silent
    OBVIOUS
  <2>1. CASE delivered' = delivered
    BY <2>1
  <2>2. ASSUME NEW s \in Senders, pc[s] \in Sending, NEW k \in 1..cases[s], SendCase(s, k)
        PROVE  Silent
    <3>1. PICK c \in Chans : /\ delivered' = [delivered EXCEPT ![s][c] = @ + 1]
                             /\ Open(c) # {}
      BY <2>2, DebtSend
    <3>2. delivered \in [Senders -> [Chans -> Nat]]
      BY DEF IndInv, TypeOK
    <3> QED BY <3>1, <3>2
  <2> QED BY <2>1, <2>2, StepDelivers
<1> QED BY <1>1, FeedCountInv, PTL DEF Spec, NoDeliveryAfterUnsubscribe

-----------------------------------------------------------------------------
(* The result of Send.  While a Send works on its cases, the copies it has *)
(* delivered, those it still owes and those dropped account for the        *)
(* subscriptions that were open when it began; when it returns, none is    *)
(* owed.                                                                   *)

Accounts(s, ch) ==
    /\ pc[s] \in {"idle", "locked"} => delivered[s][ch] = 0 /\ dropped[s][ch] = 0
    /\ pc[s] \in Sending =>
         /\ delivered[s][ch] + Debt(s, ch) <= snap[s][ch]
         /\ snap[s][ch] <= delivered[s][ch] + Debt(s, ch) + dropped[s][ch]
    /\ pc[s] = "done" =>
         /\ delivered[s][ch] <= snap[s][ch]
         /\ snap[s][ch] <= delivered[s][ch] + dropped[s][ch]

SendInv ==
    \A s \in Senders :
        /\ \A ch \in Chans : Accounts(s, ch)
        /\ IsFiniteSet(Copies(s)) /\ nsent[s] = Cardinality(Copies(s))

LEMMA CopiesMember ==
    ASSUME NEW D, NEW p
    PROVE  p \in UNION {{ch} \X (1..D[ch]) : ch \in Chans}
             <=> \E ch \in Chans : \E n \in 1..D[ch] : p = <<ch, n>>
<1>1. p \in UNION {{ch} \X (1..D[ch]) : ch \in Chans}
        <=> \E ch \in Chans : p \in {ch} \X (1..D[ch])
  OBVIOUS
<1>2. ASSUME NEW ch \in Chans
      PROVE  p \in {ch} \X (1..D[ch]) <=> \E n \in 1..D[ch] : p = <<ch, n>>
  OBVIOUS
<1> QED BY <1>1, <1>2

\* A successful send adds one copy and one to nsent.
LEMMA CopiesSend ==
    ASSUME IndInv, SendInv, NEW s \in Senders, NEW c \in Chans,
           nsent' = [nsent EXCEPT ![s] = @ + 1],
           delivered' = [delivered EXCEPT ![s][c] = @ + 1]
    PROVE  \A t \in Senders : IsFiniteSet(Copies(t)') /\ nsent'[t] = Cardinality(Copies(t)')
<1>0. delivered \in [Senders -> [Chans -> Nat]] /\ nsent \in [Senders -> Nat]
  BY DEF IndInv, TypeOK
<1>1. \A t \in Senders : t # s => Copies(t)' = Copies(t) /\ nsent'[t] = nsent[t]
  BY <1>0 DEF Copies
<1> DEFINE new == <<c, delivered[s][c] + 1>>
<1>2. delivered[s][c] \in Nat /\ delivered'[s][c] = delivered[s][c] + 1
      /\ \A ch \in Chans : ch # c => delivered'[s][ch] = delivered[s][ch]
  BY <1>0
<1>3. Copies(s)' = Copies(s) \cup {new}
  <2>1. \A p : p \in Copies(s)' <=> \E ch \in Chans : \E n \in 1..delivered'[s][ch] : p = <<ch, n>>
    BY CopiesMember DEF Copies
  <2>2. \A p : p \in Copies(s) <=> \E ch \in Chans : \E n \in 1..delivered[s][ch] : p = <<ch, n>>
    BY CopiesMember DEF Copies
  <2>3. ASSUME NEW p \in Copies(s)' PROVE p \in Copies(s) \cup {new}
    <3>1. PICK ch \in Chans : \E n \in 1..delivered'[s][ch] : p = <<ch, n>>
      BY <2>1
    <3>2. PICK n \in 1..delivered'[s][ch] : p = <<ch, n>>
      BY <3>1
    <3>3. CASE n \in 1..delivered[s][ch]
      BY <2>2, <3>2, <3>3
    <3>4. CASE n \notin 1..delivered[s][ch]
      <4>1. ch = c /\ n = delivered[s][c] + 1
        BY <1>2, <3>2, <3>4
      <4> QED BY <3>2, <4>1
    <3> QED BY <3>3, <3>4
  <2>4. ASSUME NEW p \in Copies(s) PROVE p \in Copies(s)'
    <3>1. PICK ch \in Chans : \E n \in 1..delivered[s][ch] : p = <<ch, n>>
      BY <2>2
    <3>2. PICK n \in 1..delivered[s][ch] : p = <<ch, n>>
      BY <3>1
    <3>3. n \in 1..delivered'[s][ch]
      BY <1>2, <3>2
    <3> QED BY <2>1, <3>2, <3>3
  <2>5. new \in Copies(s)'
    <3>1. delivered[s][c] + 1 \in 1..delivered'[s][c]
      BY <1>2
    <3> QED BY <2>1, <3>1
  <2> QED BY <2>3, <2>4, <2>5
<1>4. new \notin Copies(s)
  <2>1. ASSUME NEW ch \in Chans, NEW n \in 1..delivered[s][ch], new = <<ch, n>> PROVE FALSE
    <3>1. ch = c /\ n = delivered[s][c] + 1
      BY <2>1
    <3> QED BY <1>2, <3>1
  <2> QED BY <2>1, CopiesMember DEF Copies
<1>5. IsFiniteSet(Copies(s)) /\ nsent[s] = Cardinality(Copies(s))
  BY DEF SendInv
<1> HIDE DEF new
<1>6. IsFiniteSet(Copies(s) \cup {new}) /\ Cardinality(Copies(s) \cup {new}) = Cardinality(Copies(s)) + 1
  BY <1>4, <1>5, FS_AddElement
<1>7. nsent'[s] = nsent[s] + 1
  BY <1>0
<1> QED BY <1>1, <1>3, <1>5, <1>6, <1>7 DEF SendInv

LEMMA SendInvInit == Init => SendInv
<1> SUFFICES ASSUME Init, NEW s \in Senders
             PROVE  /\ \A ch \in Chans : Accounts(s, ch)
                    /\ IsFiniteSet(Copies(s)) /\ nsent[s] = Cardinality(Copies(s))
  BY DEF SendInv
<1>1. \A ch \in Chans : Accounts(s, ch)
  BY DEF Init, Accounts, Sending
<1>2. Copies(s) = {}
  <2>1. \A ch \in Chans : delivered[s][ch] = 0
    BY DEF Init
  <2>2. ASSUME NEW p \in Copies(s) PROVE FALSE
    BY <2>1, <2>2, CopiesMember DEF Copies
  <2> QED BY <2>2
<1> QED BY <1>1, <1>2, FS_EmptySet DEF Init

\* Everything the account of a Send depends on.
LEMMA AccountsKept ==
    ASSUME NEW s \in Senders, NEW ch \in Chans, Accounts(s, ch),
           pc'[s] = pc[s], delivered'[s] = delivered[s], dropped'[s] = dropped[s],
           snap'[s] = snap[s], pc[s] \in Sending => Debt(s, ch)' = Debt(s, ch)
    PROVE  Accounts(s, ch)'
BY DEF Accounts

LEMMA SendInvNext ==
    IndInv /\ CountInv /\ SendInv /\ IndInv' /\ CountInv' /\ [Next]_vars => SendInv'
<1> SUFFICES ASSUME IndInv, CountInv, SendInv, IndInv', CountInv', [Next]_vars PROVE SendInv'
  OBVIOUS
<1>0. /\ TypeOK /\ LockInv /\ TypeOK'
      /\ pc \in [Senders -> {"locked", "try", "select", "idle", "done", "panicked"}]
      /\ \A s \in Senders, ch \in Chans :
           /\ delivered[s][ch] \in Nat /\ dropped[s][ch] \in Nat /\ snap[s][ch] \in Nat
           /\ Debt(s, ch) \in Nat /\ Debt(s, ch)' \in Nat
  <2>1. \A s \in Senders, ch \in Chans : Debt(s, ch) \in Nat /\ Debt(s, ch)' \in Nat
    BY PrefixFinite DEF Debt
  <2> QED BY <2>1 DEF IndInv, TypeOK, InSend
<1>1. ASSUME UNCHANGED <<delivered, nsent>>
      PROVE  \A s \in Senders : IsFiniteSet(Copies(s)') /\ nsent'[s] = Cardinality(Copies(s)')
  BY <1>1 DEF SendInv, Copies
<1>2. ASSUME UNCHANGED <<sendCases, cases>>
      PROVE  \A s \in Senders, ch \in Chans : Debt(s, ch)' = Debt(s, ch)
  BY <1>2 DEF Debt, PrefixOf
<1> DEFINE Goal == \A s \in Senders, ch \in Chans : Accounts(s, ch)'
<1>3. ASSUME UNCHANGED <<sendCases, cases, pc, delivered, dropped, snap>> PROVE Goal
  BY <1>2, <1>3, AccountsKept DEF SendInv
<1>4. ASSUME NEW sub \in Subs, RemoveWithLock(sub) PROVE Goal
  <2>1. UNCHANGED <<pc, delivered, dropped, snap>> /\ \A s \in Senders : pc[s] \notin Sending
    BY <1>0, <1>4 DEF RemoveWithLock, sendVars, history, LockInv, InSend, Sending
  <2> QED BY <2>1, AccountsKept DEF SendInv
<1>5. ASSUME NEW s \in Senders, NEW sub \in Subs, RemoveDuringSend(s, sub) PROVE Goal
  <2>1. /\ pc[s] = "select" /\ pc' = [pc EXCEPT ![s] = "try"]
        /\ dropped' = [dropped EXCEPT ![s][ChanOf[sub]] = @ + 1]
        /\ UNCHANGED <<delivered, snap>>
        /\ \A t \in Senders : t # s => pc[t] \notin Sending
    BY <1>0, <1>5 DEF RemoveDuringSend, LockInv, InSend, Sending
  <2>2. PICK d \in {0, 1} : \A ch \in Chans :
          Debt(s, ch)' = IF ch = ChanOf[sub] THEN Debt(s, ch) - d ELSE Debt(s, ch)
    BY <1>5, DebtRemove
  <2>3. ASSUME NEW ch \in Chans PROVE Accounts(s, ch)'
    <3>1. /\ delivered[s][ch] + Debt(s, ch) <= snap[s][ch]
          /\ snap[s][ch] <= delivered[s][ch] + Debt(s, ch) + dropped[s][ch]
      BY <2>1 DEF SendInv, Accounts, Sending
    <3>2. dropped'[s][ch] = IF ch = ChanOf[sub] THEN dropped[s][ch] + 1 ELSE dropped[s][ch]
      <4>1. dropped \in [Senders -> [Chans -> Nat]]
        BY DEF IndInv, TypeOK
      <4> QED BY <2>1, <4>1, SMTT(30)
    <3>3. pc'[s] = "try"
      BY <1>0, <2>1
    <3>4. /\ delivered[s][ch] + Debt(s, ch)' <= snap[s][ch]
          /\ snap[s][ch] <= delivered[s][ch] + Debt(s, ch)' + dropped'[s][ch]
      BY <1>0, <2>2, <3>1, <3>2
    <3> QED BY <2>1, <3>3, <3>4 DEF Accounts
  <2>4. ASSUME NEW t \in Senders, t # s, NEW ch \in Chans PROVE Accounts(t, ch)'
    <3>1. pc'[t] = pc[t] /\ dropped'[t] = dropped[t] /\ pc[t] \notin Sending
      BY <2>1, <2>4 DEF IndInv, TypeOK
    <3> QED BY <2>1, <3>1, AccountsKept DEF SendInv
  <2> QED BY <2>3, <2>4
<1>6. ASSUME NEW s \in Senders, SendLock(s) PROVE Goal
  <2>1. /\ pc[s] = "idle" /\ pc' = [pc EXCEPT ![s] = "locked"]
        /\ UNCHANGED <<delivered, dropped, snap, sendCases, cases>>
    BY <1>6 DEF SendLock, history
  <2>2. ASSUME NEW ch \in Chans PROVE Accounts(s, ch)'
    BY <1>0, <2>1 DEF SendInv, Accounts, Sending
  <2>3. ASSUME NEW t \in Senders, t # s, NEW ch \in Chans PROVE Accounts(t, ch)'
    BY <1>0, <1>2, <2>1, <2>3, AccountsKept DEF SendInv
  <2> QED BY <2>2, <2>3
<1>7. ASSUME NEW s \in Senders, SendMerge(s) PROVE Goal
  <2>1. /\ pc[s] = "locked" /\ UNCHANGED <<delivered, dropped>>
        /\ \A t \in Senders : t # s => pc[t] \notin Sending
    BY <1>0, <1>7 DEF SendMerge, LockInv, InSend, Sending
  <2>2. CASE typecheck(SendType[s])
    <3>1. /\ pc' = [pc EXCEPT ![s] = "try"]
          /\ cases'[s] = Len(sendCases')
          /\ snap' = [snap EXCEPT ![s] = [ch \in Chans |-> Cardinality(Open(ch))]]
      BY <1>7, <2>2 DEF SendMerge, IndInv, TypeOK
    <3>2. \A ch \in Chans : Debt(s, ch)' = Cardinality(Open(ch))
      BY <1>0, <1>7, <3>1, DebtMerge
    <3>3. ASSUME NEW ch \in Chans PROVE Accounts(s, ch)'
      <4>1. snap'[s][ch] = Debt(s, ch)'
        BY <3>1, <3>2 DEF IndInv, TypeOK
      <4>2. delivered'[s][ch] = 0 /\ dropped'[s][ch] = 0
        BY <2>1 DEF SendInv, Accounts
      <4>3. pc'[s] = "try"
        BY <1>0, <3>1
      <4> QED BY <1>0, <4>1, <4>2, <4>3 DEF Accounts
    <3>4. ASSUME NEW t \in Senders, t # s, NEW ch \in Chans PROVE Accounts(t, ch)'
      <4>1. pc'[t] = pc[t] /\ snap'[t] = snap[t] /\ pc[t] \notin Sending
        BY <2>1, <3>1, <3>4 DEF IndInv, TypeOK
      <4> QED BY <2>1, <4>1, AccountsKept DEF SendInv
    <3> QED BY <3>3, <3>4
  <2>3. CASE ~typecheck(SendType[s])
    <3>1. pc' = [pc EXCEPT ![s] = "panicked"] /\ snap' = snap
      BY <1>7, <2>3 DEF SendMerge
    <3>2. ASSUME NEW ch \in Chans PROVE Accounts(s, ch)'
      BY <1>0, <3>1 DEF Accounts, Sending
    <3>3. ASSUME NEW t \in Senders, t # s, NEW ch \in Chans PROVE Accounts(t, ch)'
      <4>1. pc'[t] = pc[t] /\ pc[t] \notin Sending
        BY <1>0, <2>1, <3>1, <3>3
      <4> QED BY <2>1, <3>1, <4>1, AccountsKept DEF SendInv
    <3> QED BY <3>2, <3>3
  <2> QED BY <2>2, <2>3
<1>8. ASSUME NEW s \in Senders, pc[s] \in Sending, TrySendOk(s) \/ SelectSend(s),
             NEW k \in 1..cases[s], SendCase(s, k)
      PROVE  SendInv'
  <2>1. /\ pc' \in {pc, [pc EXCEPT ![s] = "try"]}
        /\ UNCHANGED <<dropped, snap>>
        /\ nsent' = [nsent EXCEPT ![s] = @ + 1]
        /\ \A t \in Senders : t # s => pc[t] \notin Sending
    BY <1>0, <1>8 DEF TrySendOk, SelectSend, SendCase, LockInv, InSend, Sending
  <2>2. PICK c \in Chans :
          /\ delivered' = [delivered EXCEPT ![s][c] = @ + 1]
          /\ Debt(s, c) > 0
          /\ \A ch \in Chans : Debt(s, ch)' = IF ch = c THEN Debt(s, ch) - 1 ELSE Debt(s, ch)
    BY <1>8, DebtSend
  <2>3. ASSUME NEW ch \in Chans PROVE Accounts(s, ch)'
    <3>1. /\ delivered[s][ch] + Debt(s, ch) <= snap[s][ch]
          /\ snap[s][ch] <= delivered[s][ch] + Debt(s, ch) + dropped[s][ch]
      BY <1>8 DEF SendInv, Accounts
    <3>2. delivered'[s][ch] = IF ch = c THEN delivered[s][ch] + 1 ELSE delivered[s][ch]
      <4>1. delivered \in [Senders -> [Chans -> Nat]]
        BY DEF IndInv, TypeOK
      <4> QED BY <2>2, <4>1, SMTT(30)
    <3>3. pc'[s] \in Sending
      BY <1>0, <1>8, <2>1 DEF Sending
    <3>4. delivered'[s][ch] + Debt(s, ch)' = delivered[s][ch] + Debt(s, ch)
      BY <1>0, <2>2, <3>2
    <3> QED BY <2>1, <3>1, <3>3, <3>4 DEF Accounts, Sending
  <2>4. ASSUME NEW t \in Senders, t # s, NEW ch \in Chans PROVE Accounts(t, ch)'
    <3>1. pc'[t] = pc[t] /\ delivered'[t] = delivered[t] /\ pc[t] \notin Sending
      BY <2>1, <2>2, <2>4 DEF IndInv, TypeOK
    <3> QED BY <2>1, <3>1, AccountsKept DEF SendInv
  <2>5. \A t \in Senders : IsFiniteSet(Copies(t)') /\ nsent'[t] = Cardinality(Copies(t)')
    BY <2>1, <2>2, CopiesSend
  <2> QED BY <2>3, <2>4, <2>5 DEF SendInv
<1>9. ASSUME NEW s \in Senders, FastPathEnd(s) PROVE Goal
  <2>1. /\ pc[s] = "try" /\ UNCHANGED <<delivered, dropped, snap, sendCases, cases>>
        /\ \/ pc' = [pc EXCEPT ![s] = "select"]
           \/ pc' = [pc EXCEPT ![s] = "done"] /\ cases[s] = 0
    BY <1>9 DEF FastPathEnd, history
  <2>2. ASSUME NEW ch \in Chans PROVE Accounts(s, ch)'
    <3>1. /\ delivered[s][ch] + Debt(s, ch) <= snap[s][ch]
          /\ snap[s][ch] <= delivered[s][ch] + Debt(s, ch) + dropped[s][ch]
      BY <2>1 DEF SendInv, Accounts, Sending
    <3>2. CASE pc' = [pc EXCEPT ![s] = "select"]
      <4>1. pc'[s] = "select" /\ Debt(s, ch)' = Debt(s, ch)
        BY <1>0, <1>2, <2>1, <3>2
      <4> QED BY <2>1, <3>1, <4>1 DEF Accounts, Sending
    <3>3. CASE pc' = [pc EXCEPT ![s] = "done"] /\ cases[s] = 0
      <4>1. Debt(s, ch) = 0
        <5>1. PrefixOf(sendCases, cases[s], ch) = {}
          BY <3>3 DEF PrefixOf
        <5> QED BY <5>1, FS_EmptySet DEF Debt
      <4>2. pc'[s] = "done"
        BY <1>0, <3>3
      <4> QED BY <1>0, <2>1, <3>1, <4>1, <4>2 DEF Accounts, Sending
    <3> QED BY <2>1, <3>2, <3>3
  <2>3. ASSUME NEW t \in Senders, t # s, NEW ch \in Chans PROVE Accounts(t, ch)'
    BY <1>0, <1>2, <2>1, <2>3, AccountsKept DEF SendInv
  <2> QED BY <2>2, <2>3
<1>10. CASE UNCHANGED <<delivered, nsent>>
  <2>1. Goal \/ \E s \in Senders : TrySendOk(s) \/ SelectSend(s)
    BY <1>3, <1>4, <1>5, <1>6, <1>7, <1>9
       DEF Next, SubStep, SendStep, Terminated, SubscribeBadChannel, Subscribe, RemoveFromInbox,
           TrySendFull, Recv, vars, feedVars, sendVars, history
  <2>2. ASSUME NEW s \in Senders, TrySendOk(s) \/ SelectSend(s) PROVE FALSE
    <3>1. nsent[s] \in Nat /\ nsent'[s] = nsent[s] + 1
      BY <1>0, <2>2 DEF TrySendOk, SelectSend, SendCase, TypeOK
    <3> QED BY <1>10, <3>1
  <2> QED BY <1>1, <1>10, <2>1, <2>2 DEF SendInv
<1> QED BY <1>8, <1>10, StepDelivers

\* A Send that has returned has put its value on every channel once for each
\* subscription open when it began, except for those removed meanwhile, never
\* more often, and its result is the number of these.
THEOREM FeedSendComplete == Spec => []SendComplete
<1>1. IndInv /\ CountInv /\ SendInv /\ IndInv' /\ CountInv' /\ [Next]_vars => SendInv'
  BY SendInvNext
<1>2. IndInv /\ SendInv => SendComplete
  <2> SUFFICES ASSUME IndInv, SendInv, NEW s \in Senders, pc[s] = "done"
               PROVE  /\ \A ch \in Chans :
                           /\ delivered[s][ch] <= snap[s][ch]
                           /\ delivered[s][ch] >= snap[s][ch] - dropped[s][ch]
                      /\ nsent[s] = Cardinality(Copies(s))
    BY DEF SendComplete
  <2>1. ASSUME NEW ch \in Chans
        PROVE  /\ delivered[s][ch] <= snap[s][ch]
               /\ delivered[s][ch] >= snap[s][ch] - dropped[s][ch]
    <3>1. delivered[s][ch] \in Nat /\ snap[s][ch] \in Nat /\ dropped[s][ch] \in Nat
      BY DEF IndInv, TypeOK
    <3>2. delivered[s][ch] <= snap[s][ch] /\ snap[s][ch] <= delivered[s][ch] + dropped[s][ch]
      BY DEF SendInv, Accounts
    <3> QED BY <3>1, <3>2
  <2> QED BY <2>1 DEF SendInv
<1> QED BY <1>1, <1>2, SendInvInit, FeedCountInv, PTL DEF Spec

-----------------------------------------------------------------------------
(* Refinement.  A Send past its critical section is the round, its active  *)
(* prefix is what the round owes.                                          *)

Finished == {s \in Senders : pc[s] \in {"done", "panicked"}}

\* The mapped variables in terms of debts and open subscriptions.
RoundInv ==
    /\ \A s \in Senders : pc[s] \in Sending =>
         Round = {s} /\ \A ch \in Chans : Cardinality(Owed(ch)) = Debt(s, ch)
    /\ Round = {} => \A ch \in Chans : Cardinality(Owed(ch)) = 0
    /\ \A ch \in Chans : /\ Cardinality(Open(ch)) \in Nat
                         /\ Cardinality(Owed(ch)) \in 0..Cardinality(Open(ch))

LEMMA RoundMap == IndInv /\ CountInv => RoundInv
<1> SUFFICES ASSUME IndInv, CountInv PROVE RoundInv
  OBVIOUS
<1>0. /\ TypeOK /\ sendCases \in Seq(Subs) /\ IsInjective(sendCases)
      /\ \A s \in Senders : pc[s] \in Sending => cases[s] \in 0..Len(sendCases)
  BY DEF IndInv, TypeOK, PrefixInv, CountInv, CasesMatchSubs
<1>1. ASSUME NEW s \in Senders, pc[s] \in Sending PROVE Round = {s}
  BY <1>1 DEF IndInv, LockInv, InSend, Sending, Round
<1>2. ASSUME NEW s \in Senders, pc[s] \in Sending, NEW ch \in Chans
      PROVE  Cardinality(Owed(ch)) = Debt(s, ch)
  <2>1. Owed(ch) = {k \in 1..Len(sendCases) : ChanOf[sendCases[k]] = ch /\ k <= cases[s]}
    BY <1>1, <1>2 DEF Owed
  <2> QED BY <1>0, <1>2, <2>1, PrefixCard DEF Debt
<1>3. ASSUME Round = {}, NEW ch \in Chans PROVE Cardinality(Owed(ch)) = 0
  <2>1. Owed(ch) = {}
    BY <1>3 DEF Owed
  <2> QED BY <2>1, FS_EmptySet
<1>4. ASSUME NEW ch \in Chans
      PROVE  Cardinality(Open(ch)) \in Nat /\ Cardinality(Owed(ch)) \in 0..Cardinality(Open(ch))
  <2>1. /\ Cardinality(Open(ch)) \in Nat
        /\ IsFiniteSet(EntriesOf(sendCases, ch))
        /\ Cardinality(EntriesOf(sendCases, ch)) \in Nat
        /\ Cardinality(EntriesOf(inbox, ch)) \in Nat
    BY <1>0, SetsOfSubs, SubsFinite
  <2>2. CASE Round = {}
    BY <1>3, <2>1, <2>2
  <2>3. CASE Round # {}
    <3>1. PICK s \in Senders : pc[s] \in Sending
      BY <2>3 DEF Round
    <3>2. PrefixOf(sendCases, cases[s], ch) \subseteq EntriesOf(sendCases, ch)
      BY <1>0, <3>1 DEF PrefixOf, EntriesOf, Range
    <3>3. Debt(s, ch) <= Cardinality(EntriesOf(sendCases, ch)) /\ Debt(s, ch) \in Nat
      BY <2>1, <3>2, FS_Subset, PrefixFinite DEF Debt
    <3>4. Cardinality(EntriesOf(sendCases, ch)) + Cardinality(EntriesOf(inbox, ch))
            = Cardinality(Open(ch))
      BY DEF CountInv, CasesMatchSubs
    <3> QED BY <1>2, <2>1, <3>1, <3>3, <3>4
  <2> QED BY <2>2, <2>3
<1> QED BY <1>1, <1>2, <1>3, <1>4 DEF RoundInv

LEMMA RoundInit == Init => Abstract!Init
<1> SUFFICES ASSUME Init PROVE Abstract!Init
  OBVIOUS
<1>1. \A ch \in Chans : Open(ch) = {} /\ Owed(ch) = {}
  BY DEF Init, Open, Owed, Round, Sending
<1>2. Round = {} /\ {s \in Senders : pc[s] \in {"done", "panicked"}} = {}
  BY DEF Init, Round, Sending
<1> QED BY <1>1, <1>2, FS_EmptySet DEF Init, Abstract!Init

\* The end of a subscription, as a step of the abstract feed.
LEMMA MapLeave ==
    ASSUME RoundInv, RoundInv', TypeOK, NEW sub \in Subs, subState[sub] \in {"live", "select"},
           subState' = [subState EXCEPT ![sub] = "closed"], NEW d \in {0, 1},
           \A ch \in Chans : Cardinality(Owed(ch))' =
              IF ch = ChanOf[sub] THEN Cardinality(Owed(ch)) - d ELSE Cardinality(Owed(ch)),
           UNCHANGED <<Round, delivered, Finished>>
    PROVE  Abstract!Next
<1> DEFINE c == ChanOf[sub]
<1>1. c \in Chans /\ sub \in Open(c)
  BY ChansAssumption DEF Open
<1>2. \A ch \in Chans : Open(ch)' = IF ch = c THEN Open(ch) \ {sub} ELSE Open(ch)
  BY DEF TypeOK, Open
<1>3. \A ch \in Chans : IsFiniteSet(Open(ch)) /\ Cardinality(Open(ch)) \in Nat
  BY SetsOfSubs, SubsFinite
<1>4. Cardinality(Open(c) \ {sub}) = Cardinality(Open(c)) - 1 /\ Cardinality(Open(c)) # 0
  BY <1>1, <1>3, FS_RemoveElement, FS_EmptySet
<1>5. \A ch \in Chans : Cardinality(Open(ch))' =
        IF ch = c THEN Cardinality(Open(ch)) - 1 ELSE Cardinality(Open(ch))
  BY <1>2, <1>4
<1>6. \A ch \in Chans : Cardinality(Owed(ch))' \in 0..Cardinality(Open(ch))'
  BY DEF RoundInv
<1>7. Abstract!Leave(c)
  <2> HIDE DEF c
  <2>1. Cardinality(Open(c)) > 0 /\ Cardinality(Owed(c)) - d \in 0..(Cardinality(Open(c)) - 1)
    BY <1>1, <1>3, <1>4, <1>5, <1>6 DEF c
  <2>2. [ch \in Chans |-> Cardinality(Open(ch))]'
          = [[ch \in Chans |-> Cardinality(Open(ch))] EXCEPT ![c] = @ - 1]
    BY <1>1, <1>5
  <2>3. [ch \in Chans |-> Cardinality(Owed(ch))]'
          = [[ch \in Chans |-> Cardinality(Owed(ch))] EXCEPT ![c] = @ - d]
    BY <1>1 DEF c
  <2> QED BY <1>1, <2>1, <2>2, <2>3 DEF Abstract!Leave, Finished
<1> QED BY <1>1, <1>7 DEF Abstract!Next

\* A step that changes no mapped variable.
LEMMA MapStutter ==
    ASSUME UNCHANGED <<sendCases, cases, delivered, Round, Finished>>,
           \A ch \in Chans : Open(ch)' = Open(ch)
    PROVE  UNCHANGED Abstract!vars
<1>1. \A ch \in Chans : Owed(ch)' = Owed(ch)
  BY DEF Owed
<1>2. /\ [ch \in Chans |-> Cardinality(Open(ch))]' = [ch \in Chans |-> Cardinality(Open(ch))]
      /\ [ch \in Chans |-> Cardinality(Owed(ch))]' = [ch \in Chans |-> Cardinality(Owed(ch))]
  BY <1>1
<1> QED BY <1>2 DEF Abstract!vars, Finished

\* Every step of the Feed is a step of the abstract feed or none.
LEMMA MapStep ==
    IndInv /\ CountInv /\ RoundInv /\ IndInv' /\ CountInv' /\ RoundInv' /\ [Next]_vars
      => [Abstract!Next]_(Abstract!vars)
<1> SUFFICES ASSUME IndInv, CountInv, RoundInv, IndInv', CountInv', RoundInv', [Next]_vars
             PROVE  Abstract!Next \/ UNCHANGED Abstract!vars
  OBVIOUS
<1> DEFINE Goal == Abstract!Next \/ UNCHANGED Abstract!vars
<1>0. /\ TypeOK /\ LockInv /\ TypeOK'
      /\ pc \in [Senders -> {"locked", "try", "select", "idle", "done", "panicked"}]
      /\ subState \in [Subs -> {"none", "panicked", "live", "select", "closed"}]
  BY DEF IndInv, TypeOK, InSend
<1>1. ASSUME UNCHANGED <<subState>> PROVE \A ch \in Chans : Open(ch)' = Open(ch)
  BY <1>1 DEF Open
<1>2. ASSUME UNCHANGED <<pc>> PROVE UNCHANGED <<Round, Finished>>
  BY <1>2 DEF Round, Finished
<1>3. ASSUME UNCHANGED <<sendCases, cases, pc>>
      PROVE  \A ch \in Chans : Cardinality(Owed(ch))' = Cardinality(Owed(ch))
  BY <1>3 DEF Owed, Round
<1>4. ASSUME NEW sub \in Subs, SubscribeBadChannel(sub) PROVE Goal
  <2>1. \A ch \in Chans : Open(ch)' = Open(ch)
    BY <1>0, <1>4 DEF SubscribeBadChannel, Open
  <2>2. UNCHANGED <<sendCases, cases, delivered, pc>>
    BY <1>4 DEF SubscribeBadChannel, feedVars, sendVars, history
  <2> QED BY <1>2, <2>1, <2>2, MapStutter
<1>5. ASSUME NEW sub \in Subs, Subscribe(sub) PROVE Goal
  <2> DEFINE c == ChanOf[sub]
  <2>1. UNCHANGED <<sendCases, cases, delivered, pc>> /\ subState[sub] = "none"
    BY <1>5 DEF Subscribe, sendVars, history
  <2>2. CASE typecheck(ElemType[c])
    <3>1. subState' = [subState EXCEPT ![sub] = "live"] /\ c \in Chans
      BY <1>5, <2>2, ChansAssumption DEF Subscribe
    <3>2. \A ch \in Chans : Open(ch)' = IF ch = c THEN Open(ch) \cup {sub} ELSE Open(ch)
      BY <1>0, <3>1 DEF Open
    <3>3. sub \notin Open(c) /\ IsFiniteSet(Open(c))
      BY <1>0, <2>1, <3>1, SetsOfSubs, SubsFinite DEF Open
    <3>4. Cardinality(Open(c) \cup {sub}) = Cardinality(Open(c)) + 1
      BY <3>3, FS_AddElement
    <3> HIDE DEF c
    <3>5. [ch \in Chans |-> Cardinality(Open(ch))]'
            = [[ch \in Chans |-> Cardinality(Open(ch))] EXCEPT ![c] = @ + 1]
      BY <3>1, <3>2, <3>4
    <3>6. [ch \in Chans |-> Cardinality(Owed(ch))]' = [ch \in Chans |-> Cardinality(Owed(ch))]
      BY <1>3, <2>1
    <3>7. Abstract!Join(c)
      BY <1>2, <2>1, <3>5, <3>6 DEF Abstract!Join, Finished
    <3> QED BY <3>1, <3>7 DEF Abstract!Next
  <2>3. CASE ~typecheck(ElemType[c])
    <3>1. subState' = [subState EXCEPT ![sub] = "panicked"]
      BY <1>5, <2>3 DEF Subscribe
    <3>2. \A ch \in Chans : Open(ch)' = Open(ch)
      BY <1>0, <2>1, <3>1 DEF Open
    <3> QED BY <1>2, <2>1, <3>2, MapStutter
  <2> QED BY <2>2, <2>3
<1>6. ASSUME NEW sub \in Subs, RemoveFromInbox(sub) PROVE Goal
  <2>1. UNCHANGED <<sendCases, cases, delivered, pc>> /\ subState[sub] = "live"
    BY <1>6 DEF RemoveFromInbox, sendVars, history
  <2>2. CASE subState' = [subState EXCEPT ![sub] = "closed"]
    <3>1. \A ch \in Chans : Cardinality(Owed(ch))' =
            IF ch = ChanOf[sub] THEN Cardinality(Owed(ch)) - 0 ELSE Cardinality(Owed(ch))
      BY <1>3, <2>1 DEF RoundInv
    <3> QED BY <1>0, <1>2, <2>1, <2>2, <3>1, MapLeave
  <2>3. CASE subState' = [subState EXCEPT ![sub] = "select"]
    <3>1. \A ch \in Chans : Open(ch)' = Open(ch)
      BY <1>0, <2>1, <2>3 DEF Open
    <3> QED BY <1>2, <2>1, <3>1, MapStutter
  <2> QED BY <1>6, <2>2, <2>3 DEF RemoveFromInbox
<1>7. ASSUME NEW sub \in Subs, RemoveWithLock(sub) PROVE Goal
  <2>1. /\ UNCHANGED <<cases, delivered, pc>> /\ subState[sub] = "select"
        /\ subState' = [subState EXCEPT ![sub] = "closed"]
    BY <1>7 DEF RemoveWithLock, sendVars, history
  <2>2. Round = {} /\ Round' = {}
    BY <1>0, <1>7, <2>1 DEF RemoveWithLock, LockInv, InSend, Sending, Round
  <2>3. \A ch \in Chans : Cardinality(Owed(ch))' =
          IF ch = ChanOf[sub] THEN Cardinality(Owed(ch)) - 0 ELSE Cardinality(Owed(ch))
    BY <2>2 DEF RoundInv
  <2> QED BY <1>0, <1>2, <2>1, <2>3, MapLeave
<1>8. ASSUME NEW s \in Senders, NEW sub \in Subs, RemoveDuringSend(s, sub) PROVE Goal
  <2>1. /\ subState[sub] = "select" /\ subState' = [subState EXCEPT ![sub] = "closed"]
        /\ pc[s] = "select" /\ pc' = [pc EXCEPT ![s] = "try"] /\ UNCHANGED delivered
    BY <1>8 DEF RemoveDuringSend
  <2>2. /\ pc[s] \in Sending /\ pc'[s] \in Sending
        /\ UNCHANGED <<Round, Finished>>
    BY <1>0, <2>1 DEF Sending, Round, Finished
  <2>3. PICK d \in {0, 1} : \A ch \in Chans :
          Debt(s, ch)' = IF ch = ChanOf[sub] THEN Debt(s, ch) - d ELSE Debt(s, ch)
    BY <1>8, DebtRemove
  <2>4. \A ch \in Chans : Cardinality(Owed(ch)) = Debt(s, ch) /\ Cardinality(Owed(ch))' = Debt(s, ch)'
    BY <2>2 DEF RoundInv
  <2>5. \A ch \in Chans : Cardinality(Owed(ch))' =
          IF ch = ChanOf[sub] THEN Cardinality(Owed(ch)) - d ELSE Cardinality(Owed(ch))
    BY <2>3, <2>4
  <2> QED BY <1>0, <2>1, <2>2, <2>5, MapLeave
<1>9. ASSUME NEW s \in Senders, SendLock(s) PROVE Goal
  <2>1. /\ UNCHANGED <<sendCases, cases, delivered, subState>>
        /\ pc[s] = "idle" /\ pc' = [pc EXCEPT ![s] = "locked"]
    BY <1>9 DEF SendLock, subVars, history
  <2>2. UNCHANGED <<Round, Finished>>
    BY <1>0, <2>1 DEF Sending, Round, Finished
  <2> QED BY <1>1, <2>1, <2>2, MapStutter
<1>10. ASSUME NEW s \in Senders, SendMerge(s) PROVE Goal
  <2>1. pc[s] = "locked" /\ UNCHANGED <<delivered, subState>>
    BY <1>10 DEF SendMerge, subVars
  <2>2. Round = {} /\ s \notin Finished
    BY <1>0, <2>1 DEF LockInv, InSend, Sending, Round, Finished
  <2>3. CASE typecheck(SendType[s])
    <3>1. pc' = [pc EXCEPT ![s] = "try"] /\ cases'[s] = Len(sendCases')
      BY <1>10, <2>3 DEF SendMerge, IndInv, TypeOK
    <3>2. pc'[s] \in Sending /\ UNCHANGED Finished
      BY <1>0, <2>1, <3>1 DEF Sending, Finished
    <3>3. Round' = {s} /\ \A ch \in Chans : Cardinality(Owed(ch))' = Cardinality(Open(ch))
      BY <1>0, <1>10, <3>1, <3>2, DebtMerge DEF RoundInv
    <3>4. /\ [ch \in Chans |-> Cardinality(Owed(ch))]' = [ch \in Chans |-> Cardinality(Open(ch))]
          /\ [ch \in Chans |-> Cardinality(Open(ch))]' = [ch \in Chans |-> Cardinality(Open(ch))]
      BY <1>1, <2>1, <3>3
    <3>5. Abstract!Begin(s)
      BY <2>1, <2>2, <3>2, <3>3, <3>4 DEF Abstract!Begin, Finished
    <3> QED BY <3>5 DEF Abstract!Next
  <2>4. CASE ~typecheck(SendType[s])
    <3>1. pc' = [pc EXCEPT ![s] = "panicked"]
      BY <1>10, <2>4 DEF SendMerge
    <3>2. Round' = {} /\ Finished' = Finished \cup {s}
      BY <1>0, <2>2, <3>1 DEF Round, Sending, Finished
    <3>3. /\ [ch \in Chans |-> Cardinality(Owed(ch))]' = [ch \in Chans |-> Cardinality(Owed(ch))]
          /\ [ch \in Chans |-> Cardinality(Open(ch))]' = [ch \in Chans |-> Cardinality(Open(ch))]
      BY <1>1, <2>1, <2>2, <3>2 DEF RoundInv
    <3>4. Abstract!Abort(s)
      BY <2>1, <2>2, <3>2, <3>3 DEF Abstract!Abort, Finished
    <3> QED BY <3>4 DEF Abstract!Next
  <2> QED BY <2>3, <2>4
<1>11. ASSUME NEW s \in Senders, pc[s] \in Sending, TrySendOk(s) \/ SelectSend(s),
              NEW k \in 1..cases[s], SendCase(s, k)
       PROVE  Goal
  <2>1. pc' \in {pc, [pc EXCEPT ![s] = "try"]} /\ UNCHANGED subState
    BY <1>11 DEF TrySendOk, SelectSend, subVars
  <2>2. pc'[s] \in Sending /\ UNCHANGED <<Round, Finished>>
    BY <1>0, <1>11, <2>1 DEF Sending, Round, Finished
  <2>3. PICK c \in Chans :
          /\ delivered' = [delivered EXCEPT ![s][c] = @ + 1]
          /\ Debt(s, c) > 0
          /\ \A ch \in Chans : Debt(s, ch)' = IF ch = c THEN Debt(s, ch) - 1 ELSE Debt(s, ch)
    BY <1>11, DebtSend
  <2>4. \A ch \in Chans : Cardinality(Owed(ch)) = Debt(s, ch) /\ Cardinality(Owed(ch))' = Debt(s, ch)'
    BY <1>11, <2>2 DEF RoundInv
  <2>5. [ch \in Chans |-> Cardinality(Owed(ch))]'
          = [[ch \in Chans |-> Cardinality(Owed(ch))] EXCEPT ![c] = @ - 1]
    BY <2>3, <2>4
  <2>6. [ch \in Chans |-> Cardinality(Open(ch))]' = [ch \in Chans |-> Cardinality(Open(ch))]
    BY <1>1, <2>1
  <2>7. s \in Round /\ Cardinality(Owed(c)) > 0
    BY <1>11, <2>3, <2>4 DEF Round
  <2>8. Abstract!Deliver(s, c)
    BY <2>2, <2>3, <2>5, <2>6, <2>7 DEF Abstract!Deliver, Finished
  <2> QED BY <2>8 DEF Abstract!Next
<1>12. ASSUME NEW s \in Senders, FastPathEnd(s) PROVE Goal
  <2>1. pc[s] = "try" /\ UNCHANGED <<sendCases, cases, delivered, subState>>
    BY <1>12 DEF FastPathEnd, subVars, history
  <2>2. CASE cases[s] = 0
    <3>1. pc' = [pc EXCEPT ![s] = "done"]
      BY <1>12, <2>2 DEF FastPathEnd
    <3>2. Round = {s} /\ \A ch \in Chans : Cardinality(Owed(ch)) = Debt(s, ch)
      BY <2>1 DEF RoundInv, Sending
    <3>3. \A ch \in Chans : PrefixOf(sendCases, cases[s], ch) = {}
      BY <2>2 DEF PrefixOf
    <3>4. \A ch \in Chans : Cardinality(Owed(ch)) = 0
      BY <3>2, <3>3, FS_EmptySet DEF Debt
    <3>5. Round' = {} /\ Finished' = Finished \cup {s}
      BY <1>0, <3>1, <3>2 DEF Round, Sending, Finished
    <3>6. /\ [ch \in Chans |-> Cardinality(Owed(ch))]' = [ch \in Chans |-> Cardinality(Owed(ch))]
          /\ [ch \in Chans |-> Cardinality(Open(ch))]' = [ch \in Chans |-> Cardinality(Open(ch))]
      BY <1>1, <2>1, <3>4, <3>5 DEF RoundInv
    <3>7. Abstract!End(s)
      BY <2>1, <3>2, <3>4, <3>5, <3>6 DEF Abstract!End, Finished
    <3> QED BY <3>7 DEF Abstract!Next
  <2>3. CASE cases[s] # 0
    <3>1. pc' = [pc EXCEPT ![s] = "select"]
      BY <1>12, <2>3 DEF FastPathEnd
    <3>2. UNCHANGED <<Round, Finished>>
      BY <1>0, <2>1, <3>1 DEF Round, Sending, Finished
    <3> QED BY <1>1, <2>1, <3>2, MapStutter
  <2> QED BY <2>2, <2>3
<1>13. CASE UNCHANGED <<sendCases, cases, delivered, pc, subState>>
  BY <1>1, <1>2, <1>13, MapStutter
<1>14. CASE UNCHANGED <<delivered, nsent>>
  <2>1. Goal \/ \E s \in Senders : TrySendOk(s) \/ SelectSend(s)
    BY <1>4, <1>5, <1>6, <1>7, <1>8, <1>9, <1>10, <1>12, <1>13
       DEF Next, SubStep, SendStep, Terminated, TrySendFull, Recv, vars, feedVars, subVars,
           sendVars, history
  <2>2. ASSUME NEW s \in Senders, TrySendOk(s) \/ SelectSend(s) PROVE FALSE
    <3>1. nsent[s] \in Nat /\ nsent'[s] = nsent[s] + 1
      BY <1>0, <2>2 DEF TrySendOk, SelectSend, SendCase, TypeOK
    <3> QED BY <1>14, <3>1
  <2> QED BY <2>1, <2>2
<1> QED BY <1>11, <1>14, StepDelivers

\* The Feed keeps the promise of FeedSpec: however calls interleave and
\* whichever case find picks, Sends are carried out as rounds one after the
\* other, each owing one copy to every subscription open when it begins.
THEOREM FeedImplements == Spec => ImplementsFeedSpec
<1>1. IndInv /\ CountInv => RoundInv
  BY RoundMap
<1>2. IndInv /\ CountInv /\ RoundInv /\ IndInv' /\ CountInv' /\ RoundInv' /\ [Next]_vars
        => [Abstract!Next]_(Abstract!vars)
  BY MapStep
<1> QED BY <1>1, <1>2, RoundInit, FeedCountInv, PTL DEF Spec, ImplementsFeedSpec, Abstract!Spec

-----------------------------------------------------------------------------
(* What the abstract feed promises, and Feed with it *)

LEMMA DebtInit == Abstract!Init => Abstract!TypeOK /\ Abstract!DebtInv
BY DEF Abstract!Init, Abstract!TypeOK, Abstract!DebtInv

LEMMA DebtNext ==
    Abstract!TypeOK /\ Abstract!DebtInv /\ [Abstract!Next]_(Abstract!vars)
        => (Abstract!TypeOK /\ Abstract!DebtInv)'
<1> SUFFICES ASSUME Abstract!TypeOK, Abstract!DebtInv, [Abstract!Next]_(Abstract!vars)
             PROVE  (Abstract!TypeOK /\ Abstract!DebtInv)'
  OBVIOUS
<1> DEFINE M == [ch \in Chans |-> Cardinality(Open(ch))]
           P == [ch \in Chans |-> Cardinality(Owed(ch))]
           Debts == /\ M \in [Chans -> Nat] /\ P \in [Chans -> Nat]
                    /\ \A ch \in Chans : P[ch] <= M[ch]
                    /\ Round = {} => \A ch \in Chans : P[ch] = 0
           Rounds == /\ Round \in SUBSET Senders /\ Finished \in SUBSET Senders
                     /\ delivered \in [Senders -> [Chans -> Nat]]
                     /\ Round \cap Finished = {}
                     /\ \A s, t \in Round : s = t
<1>0. Debts /\ Rounds
  BY DEF Abstract!TypeOK, Abstract!DebtInv, Finished
<1>1. ASSUME Debts', Rounds' PROVE (Abstract!TypeOK /\ Abstract!DebtInv)'
  BY <1>1 DEF Abstract!TypeOK, Abstract!DebtInv, Finished
<1>2. ASSUME NEW ch \in Chans, Abstract!Join(ch) PROVE Debts' /\ Rounds'
  <2>1. M' = [M EXCEPT ![ch] = @ + 1] /\ P' = P /\ UNCHANGED <<Round, delivered, Finished>>
    BY <1>2 DEF Abstract!Join, Finished
  <2> HIDE DEF M, P
  <2> QED BY <1>0, <2>1
<1>3. ASSUME NEW ch \in Chans, Abstract!Leave(ch) PROVE Debts' /\ Rounds'
  <2>1. /\ M[ch] > 0 /\ M' = [M EXCEPT ![ch] = @ - 1]
        /\ \E d \in {0, 1} : P[ch] - d \in 0..(M[ch] - 1) /\ P' = [P EXCEPT ![ch] = @ - d]
        /\ UNCHANGED <<Round, delivered, Finished>>
    BY <1>3 DEF Abstract!Leave, Finished
  <2> HIDE DEF M, P
  <2> QED BY <1>0, <2>1
<1>4. ASSUME NEW s \in Senders, Abstract!Begin(s) PROVE Debts' /\ Rounds'
  <2>1. M' = M /\ P' = M /\ Round' = {s} /\ s \notin Finished /\ UNCHANGED <<delivered, Finished>>
    BY <1>4 DEF Abstract!Begin, Finished
  <2> HIDE DEF M, P
  <2> QED BY <1>0, <2>1
<1>5. ASSUME NEW s \in Senders, Abstract!End(s) PROVE Debts' /\ Rounds'
  <2>1. /\ M' = M /\ P' = P /\ \A ch \in Chans : P[ch] = 0
        /\ Round' = {} /\ Finished' = Finished \cup {s} /\ UNCHANGED delivered
    BY <1>5 DEF Abstract!End, Finished
  <2> HIDE DEF M, P
  <2> QED BY <1>0, <2>1
<1>6. ASSUME NEW s \in Senders, Abstract!Abort(s) PROVE Debts' /\ Rounds'
  <2>1. /\ M' = M /\ P' = P /\ Round = {} /\ Round' = {}
        /\ Finished' = Finished \cup {s} /\ UNCHANGED delivered
    BY <1>6 DEF Abstract!Abort, Finished
  <2> HIDE DEF M, P
  <2> QED BY <1>0, <2>1
<1>7. ASSUME NEW s \in Senders, NEW ch \in Chans, Abstract!Deliver(s, ch) PROVE Debts' /\ Rounds'
  <2>1. /\ M' = M /\ P[ch] > 0 /\ P' = [P EXCEPT ![ch] = @ - 1] /\ s \in Round
        /\ delivered' = [delivered EXCEPT ![s][ch] = @ + 1] /\ UNCHANGED <<Round, Finished>>
    BY <1>7 DEF Abstract!Deliver, Finished
  <2> HIDE DEF M, P
  <2> QED BY <1>0, <2>1
<1>8. CASE UNCHANGED Abstract!vars
  <2>1. M' = M /\ P' = P /\ UNCHANGED <<Round, delivered, Finished>>
    BY <1>8 DEF Abstract!vars, Finished
  <2> HIDE DEF M, P
  <2> QED BY <1>0, <1>1, <2>1
<1> QED BY <1>1, <1>2, <1>3, <1>4, <1>5, <1>6, <1>7, <1>8 DEF Abstract!Next

\* In the abstract feed a round never owes a channel more copies than it has
\* open subscriptions.
THEOREM FeedSpecDebt == Abstract!Spec => []Abstract!DebtInv
BY DebtInit, DebtNext, PTL DEF Abstract!Spec

\* In the abstract feed the deliveries of a Send end with its return, and it
\* never returns twice.
THEOREM FeedSpecFinal == Abstract!Spec => Abstract!FinalDeliveries
<1>1. Abstract!TypeOK /\ Abstract!DebtInv /\ [Abstract!Next]_(Abstract!vars)
        => [Abstract!Kept]_(Abstract!vars)
  <2> SUFFICES ASSUME Abstract!TypeOK, Abstract!DebtInv, Abstract!Next, NEW s \in Finished
               PROVE  delivered'[s] = delivered[s] /\ s \in Finished'
    BY DEF Abstract!Kept, Finished
  <2>1. ASSUME NEW t \in Senders, NEW ch \in Chans, Abstract!Deliver(t, ch)
        PROVE  delivered'[s] = delivered[s] /\ s \in Finished'
    <3>1. t # s
      BY <2>1 DEF Abstract!Deliver, Abstract!DebtInv, Finished
    <3>2. delivered' = [delivered EXCEPT ![t][ch] = @ + 1] /\ Finished' = Finished
      BY <2>1 DEF Abstract!Deliver, Finished
    <3>3. delivered \in [Senders -> [Chans -> Nat]] /\ Finished \subseteq Senders
      BY DEF Abstract!TypeOK, Finished
    <3> QED BY <3>1, <3>2, <3>3
  <2>2. CASE delivered' = delivered /\ Finished \subseteq Finished'
    BY <2>2
  <2> QED BY <2>1, <2>2 DEF Abstract!Next, Abstract!Join, Abstract!Leave, Abstract!Begin,
          Abstract!End, Abstract!Abort, Finished
<1> QED BY <1>1, DebtInit, DebtNext, PTL DEF Abstract!Spec, Abstract!FinalDeliveries

\* What a Send has put on the channels never changes once it has returned or
\* panicked, and it never returns twice: inherited from the abstract feed.
THEOREM FeedFinal == Spec => Abstract!FinalDeliveries
BY FeedImplements, FeedSpecFinal, PTL DEF ImplementsFeedSpec
=============================================================================
