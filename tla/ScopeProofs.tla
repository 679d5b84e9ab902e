---------------------------- MODULE ScopeProofs ----------------------------
(***************************************************************************)
(* The invariants of SubscriptionScope for any set of subscriptions,       *)
(* finite or not.                                                          *)
(***************************************************************************)
EXTENDS SubscriptionScope, TLAPS

\* The loop of Close is over before and after Close, and visits at most one
\* subscription at a time.
LoopInv ==
    /\ closePc \in {"idle", "done"} => todo = {}
    /\ closePc # "waiting" => cur = {}
    /\ closePc = "done" => subs = {}

\* A subscription is untouched until Track accepts it, closed when its
\* wrapper's Unsubscribe has returned, and in the set in between, until it is
\* closed.
UserInv ==
    \A s \in Subs :
        /\ userPc[s] \in {"new", "refused"} => s \notin subs /\ inner[s] = "open"
        /\ userPc[s] = "done" => s \notin subs /\ inner[s] = "closed"
        /\ userPc[s] \in {"tracked", "unsubscribing"} /\ inner[s] # "closed" => s \in subs

\* While Close runs, what it has passed is closed.
PassedInv ==
    closePc \in {"closing", "waiting"} =>
        \A s \in subs : inner[s] = "closed" \/ s \in todo \cup cur

ScopeInv == TypeOK /\ LoopInv /\ UserInv /\ PassedInv

(***************************************************************************)
(* ScopeInv holds of the empty scope.                                      *)
(***************************************************************************)
LEMMA ScopeInvInit == Init => ScopeInv
BY DEF Init, ScopeInv, TypeOK, LoopInv, UserInv, PassedInv

(***************************************************************************)
(* The calls of a user keep ScopeInv: Track, the two halves of             *)
(* scopeSub.Unsubscribe and the wrapped Unsubscribe.                       *)
(***************************************************************************)
LEMMA UserStep ==
    ASSUME ScopeInv, NEW s \in Subs,
           Track(s) \/ Unsubscribe(s) \/ Forget(s) \/ InnerDone(s)
    PROVE  ScopeInv'
<1> USE DEF ScopeInv, TypeOK, LoopInv, UserInv, PassedInv
<1>1. CASE Track(s)
  BY <1>1 DEF Track, MuFree
<1>2. CASE Unsubscribe(s)
  BY <1>2 DEF Unsubscribe
<1>3. CASE Forget(s)
  BY <1>3 DEF Forget, MuFree
<1>4. CASE InnerDone(s)
  BY <1>4 DEF InnerDone
<1> QED
  BY <1>1, <1>2, <1>3, <1>4

(***************************************************************************)
(* The steps of Close keep ScopeInv.                                       *)
(***************************************************************************)
LEMMA ClosingStep ==
    ASSUME ScopeInv, CloseBegin \/ CloseStep
    PROVE  ScopeInv'
<1> USE DEF ScopeInv, TypeOK, LoopInv, UserInv, PassedInv
<1>1. CASE CloseBegin
  BY <1>1 DEF CloseBegin
<1>2. ASSUME NEW s \in Subs, CloseNext(s)
      PROVE  ScopeInv'
  BY <1>2 DEF CloseNext
<1>3. CASE CloseWait
  BY <1>3 DEF CloseWait
<1>4. CASE CloseEnd
  BY <1>4 DEF CloseEnd
<1> QED
  BY <1>1, <1>2, <1>3, <1>4 DEF CloseStep

(***************************************************************************)
(* ScopeInv is an invariant of the scope.                                  *)
(***************************************************************************)
THEOREM ScopeInvHolds == Spec => []ScopeInv
<1>1. ScopeInv /\ [Next]_vars => ScopeInv'
  <2> SUFFICES ASSUME ScopeInv, [Next]_vars
               PROVE  ScopeInv'
    OBVIOUS
  <2>1. CASE UNCHANGED vars
    BY <2>1 DEF vars, ScopeInv, TypeOK, LoopInv, UserInv, PassedInv
  <2>2. CASE Next
    BY <2>1, <2>2, UserStep, ClosingStep DEF Next, Terminated
  <2> QED
    BY <2>1, <2>2
<1> QED
  BY ScopeInvInit, <1>1, PTL DEF Spec

(***************************************************************************)
(* The scope and its users have their types, sc.closed tells whether Close *)
(* was called, and Close only visits what is tracked.                      *)
(***************************************************************************)
THEOREM ScopeTypes == Spec => []TypeOK
<1>1. ScopeInv => TypeOK
  BY DEF ScopeInv
<1> QED
  BY ScopeInvHolds, <1>1, PTL

(***************************************************************************)
(* When Close has returned, every subscription that Track ever accepted is *)
(* cancelled: at the end of its loop nothing is left to visit, and nothing *)
(* was added behind it.                                                    *)
(***************************************************************************)
THEOREM ScopeCloseCancelsAll == Spec => []CloseCancelsAll
<1>1. ScopeInv => CloseCancelsAll
  BY DEF ScopeInv, LoopInv, UserInv, CloseCancelsAll
<1> QED
  BY ScopeInvHolds, <1>1, PTL

(***************************************************************************)
(* The set holds no wrapper whose Unsubscribe has returned and every       *)
(* tracked one whose subscription is not closed.                           *)
(***************************************************************************)
THEOREM ScopeTracksOpen == Spec => []TracksOpen
<1>1. ScopeInv => TracksOpen
  BY DEF ScopeInv, TypeOK, UserInv, TracksOpen
<1> QED
  BY ScopeInvHolds, <1>1, PTL
=============================================================================
