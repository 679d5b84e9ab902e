----------------------------- MODULE NodeProofs -----------------------------
(***************************************************************************)
(* Proofs about Node for any number of callers, admin requests, kinds of   *)
(* service and ports, and any number of calls and failures.                *)
(***************************************************************************)
EXTENDS Node, TLAPS

-----------------------------------------------------------------------------
(* The two locks and the stages of a node call.  UpOrDown speaks of the    *)
(* moments between node calls only; to carry it through a call one needs   *)
(* to know who is at work and what has been done at each of its labels.    *)

WsStart == {"listen", "setListener", "setHandler"}
WsStop == {"testListener", "close", "clear", "testHandler", "stopHandler"}
CallerBusy == {"services", "http", "down"} \cup WsStart \cup WsStop
AdminBusy == WsStart \cup WsStop

\* What the steps need to know of the variables TypeOK leaves out.
LocalTypes ==
    /\ pc \in [Threads -> {"idle", "sent", "again"} \cup CallerBusy]
    /\ port \in [Threads -> Ports \cup {NoPort}]
    /\ todo \subseteq Kinds
    /\ orphans \in Nat

\* The node's lock is held by the caller that is at work, and mu of an API
\* object by the one request to it that is.
LockInv ==
    /\ \A t \in Callers : pc[t] # "sent" /\ (pc[t] \in CallerBusy <=> lock = t)
    /\ \A t \in Admins : /\ pc[t] \notin {"again", "services", "http", "down"}
                         /\ pc[t] \in AdminBusy <=> t \in mu
    /\ \A t, u \in mu : apiOf[t] = apiOf[u] => t = u

\* Every service runs once more than Starts have left behind.
AllUp == \A k \in Kinds : running[k] = orphans + 1

\* What a node call has done, by its label.
StageInv ==
    \A t \in Callers :
        /\ pc[t] = "services" =>
              /\ ~isRunning /\ ~http /\ ~held
              /\ \A k \in Kinds : running[k] = orphans + (IF k \in todo THEN 0 ELSE 1)
        /\ pc[t] = "http" => ~isRunning /\ ~http /\ ~held /\ AllUp
        /\ pc[t] \in WsStart => ~isRunning /\ http /\ ~held /\ AllUp
        /\ pc[t] \in WsStop \cup {"down"} => isRunning /\ http /\ held /\ AllUp

NodeInv == TypeOK /\ LocalTypes /\ LockInv /\ StageInv /\ UpOrDown

\* The admin calls and the node calls exclude each other unless astray, and
\* this is what the endpoint looks like between calls ...
Settled ==
    /\ open = {wsListener} \ {NoPort}
    /\ wsListener = wsHandler
    /\ ~isRunning => wsListener = NoPort

\* ... and at each label of StartWS and StopWS.
WsStage(t) ==
    /\ pc[t] = "listen" => open = {} /\ wsListener = NoPort /\ wsHandler = NoPort
    /\ pc[t] = "setListener" =>
          port[t] # NoPort /\ open = {port[t]} /\ wsListener = NoPort /\ wsHandler = NoPort
    /\ pc[t] = "setHandler" =>
          port[t] # NoPort /\ open = {port[t]} /\ wsListener = port[t] /\ wsHandler = NoPort
    /\ pc[t] = "testListener" => open = {wsListener} \ {NoPort} /\ wsListener = wsHandler
    /\ pc[t] = "close" => wsListener # NoPort /\ open = {wsListener} /\ wsListener = wsHandler
    /\ pc[t] = "clear" => wsListener # NoPort /\ open = {} /\ wsListener = wsHandler
    /\ pc[t] = "testHandler" => open = {} /\ wsListener = NoPort
    /\ pc[t] = "stopHandler" => open = {} /\ wsListener = NoPort /\ wsHandler # NoPort
    /\ pc[t] = "down" => open = {} /\ wsListener = NoPort /\ wsHandler = NoPort

WsInv ==
    ~astray =>
        /\ \A a \in Admins : InWs(a) =>
              isRunning /\ \A u \in Threads : InWs(u) => u \in Admins /\ apiOf[u] = apiOf[a]
        /\ (\A t \in Threads : ~InWs(t)) => Settled
        /\ \A t \in Threads : InWs(t) => WsStage(t)

LEMMA NodeInvInit == Init => NodeInv /\ WsInv
<1> SUFFICES ASSUME Init PROVE NodeInv /\ WsInv
  OBVIOUS
<1> USE NodeAssumption DEF Init
<1>1. TypeOK /\ LocalTypes
  <2>1. apiOf \in [Admins -> 0 .. api] /\ api \in Nat
    OBVIOUS
  <2>2. TypeOK
    BY <2>1 DEF TypeOK
  <2>3. LocalTypes
    BY DEF LocalTypes, CallerBusy, WsStart, WsStop
  <2> QED BY <2>2, <2>3
<1>2. LockInv /\ StageInv
  BY DEF LockInv, StageInv, CallerBusy, AdminBusy, WsStart, WsStop, Threads
<1>3. UpOrDown
  <2>1. \A k \in Kinds : running[k] = orphans + 0
    OBVIOUS
  <2> QED BY <2>1 DEF UpOrDown
<1>4. WsInv
  BY DEF WsInv, InWs, Settled, Threads
<1> QED BY <1>1, <1>2, <1>3, <1>4 DEF NodeInv

\* Start up to the endpoints, and a Restart that finds the node running.
LEMMA StartSteps ==
    ASSUME NodeInv, NEW t \in Threads,
           (t \in Callers /\ Start(t)) \/ (t \in Callers /\ StartRefused(t))
           \/ StartService(t) \/ StartServiceFails(t) \/ StartHTTP(t)
    PROVE  NodeInv'
<1> USE NodeAssumption
    DEF NodeInv, TypeOK, LocalTypes, LockInv, StageInv, UpOrDown, AllUp, CallerBusy, AdminBusy,
        WsStart, WsStop, Threads, Goto, At, fields, apis
<1>1. ASSUME t \in Callers, Start(t) PROVE NodeInv'
  BY <1>1 DEF Start, Begin
<1>2. ASSUME t \in Callers, StartRefused(t) PROVE NodeInv'
  BY <1>2 DEF StartRefused
<1>3. ASSUME StartService(t) PROVE NodeInv'
  BY <1>3 DEF StartService
<1>4. ASSUME StartServiceFails(t) PROVE NodeInv'
  BY <1>4 DEF StartServiceFails, Fault
<1>5. ASSUME StartHTTP(t) PROVE NodeInv'
  <2> USE <1>5
  <2>1. t \in Callers /\ lock = t /\ running \in [Kinds -> Nat] /\ orphans \in Nat
    BY DEF StartHTTP
  <2>0. api' \in Nat /\ apiOf' \in [Admins -> 0 .. api']
    <3>1. api \in Nat /\ apiOf \in [Admins -> 0 .. api] /\ api' = api + 1 /\ apiOf' = apiOf
      BY DEF StartHTTP
    <3> QED BY <3>1
  <2>2. CASE http' = TRUE /\ Goto(t, "listen") /\ UNCHANGED <<lock, faults, orphans>>
    <3>1. /\ pc' = [pc EXCEPT ![t] = "listen"] /\ pc[t] = "http"
          /\ UNCHANGED <<isRunning, held, wsListener, wsHandler, mu, apiOf, overHTTP, running, open, wsPort,
                         todo, port>>
      BY <2>2 DEF StartHTTP
    <3>2. TypeOK'
      BY <2>0, <2>1, <2>2, <3>1
    <3>3. LocalTypes'
      BY <2>1, <2>2, <3>1
    <3>4. LockInv'
      BY <2>1, <2>2, <3>1
    <3>5. StageInv'
      BY <2>1, <2>2, <3>1
    <3>6. UpOrDown'
      BY <2>1, <2>2
    <3> QED BY <3>2, <3>3, <3>4, <3>5, <3>6
  <2>3. CASE Fault /\ orphans' = orphans + 1 /\ lock' = Nobody /\ Goto(t, "idle") /\ UNCHANGED http
    BY <2>0, <2>1, <2>3 DEF StartHTTP
  <2> QED BY <2>2, <2>3 DEF StartHTTP
<1> QED BY <1>1, <1>2, <1>3, <1>4, <1>5

\* StartWS, which completes a Start or an admin call.
LEMMA WsStartSteps ==
    ASSUME NodeInv, NEW t \in Threads,
           Listen(t) \/ ListenFails(t) \/ SetListener(t) \/ SetHandler(t)
    PROVE  NodeInv'
<1> USE NodeAssumption
    DEF NodeInv, TypeOK, LocalTypes, LockInv, StageInv, UpOrDown, AllUp, CallerBusy, AdminBusy,
        WsStart, WsStop, Threads, Goto, At, fields, apis
<1>1. ASSUME Listen(t) PROVE NodeInv'
  BY <1>1 DEF Listen, PortOf
<1>2. ASSUME ListenFails(t) PROVE NodeInv'
  <2> USE <1>2
  <2>1. CASE t \in Callers
    <3>1. /\ lock = t /\ AllUp /\ isRunning = FALSE /\ held = FALSE
          /\ running \in [Kinds -> Nat] /\ orphans \in Nat /\ pc[t] = "listen"
      BY <2>1 DEF ListenFails
    <3>2. /\ running' = running /\ orphans' = orphans + 1 /\ lock' = Nobody /\ http' = FALSE
          /\ UNCHANGED <<isRunning, held, wsListener, wsHandler, api, apiOf, overHTTP, open, wsPort,
                         todo, port>>
          /\ mu' = mu \ {t}
          /\ pc' = [pc EXCEPT ![t] = "idle"]
      BY <2>1 DEF ListenFails
    <3>3. TypeOK' /\ LocalTypes'
      <4>1. TypeOK'
        BY <3>1, <3>2
      <4>2. LocalTypes'
        BY <3>1, <3>2
      <4> QED BY <4>1, <4>2
    <3>4. LockInv' /\ StageInv'
      BY <2>1, <3>1, <3>2
    <3>5. UpOrDown'
      <4>1. isRunning' = FALSE /\ http' = FALSE /\ held' = FALSE
        BY <3>1, <3>2
      <4>2. ASSUME NEW k \in Kinds PROVE running'[k] = orphans' + 0
        BY <3>1, <3>2
      <4> QED BY <4>1, <4>2
    <3> QED BY <3>3, <3>4, <3>5
  <2>2. CASE t \in Admins
    BY <2>2 DEF ListenFails
  <2> QED BY <2>1, <2>2
<1>3. ASSUME SetListener(t) PROVE NodeInv'
  BY <1>3 DEF SetListener
<1>4. ASSUME SetHandler(t) PROVE NodeInv'
  <2> USE <1>4
  <2>1. CASE t \in Callers
    BY <2>1, ZenonT(30) DEF SetHandler
  <2>2. CASE t \in Admins
    BY <2>2 DEF SetHandler
  <2> QED BY <2>1, <2>2
<1> QED BY <1>1, <1>2, <1>3, <1>4

\* StopWS, and Stop around it.
LEMMA WsStopSteps ==
    ASSUME NodeInv, NEW t \in Threads,
           (t \in Callers /\ Stop(t)) \/ TestListener(t) \/ Close(t) \/ Clear(t)
           \/ TestHandler(t) \/ StopHandler(t) \/ Down(t)
    PROVE  NodeInv'
<1> USE NodeAssumption
    DEF NodeInv, TypeOK, LocalTypes, LockInv, StageInv, UpOrDown, AllUp, CallerBusy, AdminBusy,
        WsStart, WsStop, Threads, Goto, At, fields, apis
<1>1. ASSUME t \in Callers, Stop(t) PROVE NodeInv'
  <2>1. pc' = [pc EXCEPT ![t] = "testListener"]
    BY <1>1 DEF Stop, Begin
  <2> QED BY <1>1, <2>1 DEF Stop
<1>2. ASSUME TestListener(t) PROVE NodeInv'
  BY <1>2 DEF TestListener
<1>3. ASSUME Close(t) PROVE NodeInv'
  BY <1>3 DEF Close
<1>4. ASSUME Clear(t) PROVE NodeInv'
  BY <1>4 DEF Clear
<1>5. ASSUME TestHandler(t) PROVE NodeInv'
  BY <1>5 DEF TestHandler, Returns
<1>6. ASSUME StopHandler(t) PROVE NodeInv'
  BY <1>6 DEF StopHandler, Returns
<1>7. ASSUME Down(t) PROVE NodeInv'
  <2> USE <1>7
  <2>1. /\ t \in Callers /\ lock = t /\ AllUp
        /\ running \in [Kinds -> Nat] /\ orphans \in Nat /\ pc[t] = "down"
    BY DEF Down
  <2>2. /\ http' = FALSE /\ held' = FALSE /\ isRunning' = FALSE /\ lock' = Nobody
        /\ UNCHANGED <<wsListener, wsHandler, mu, api, apiOf, overHTTP, open, wsPort, todo, port, orphans>>
        /\ \/ pc' = [pc EXCEPT ![t] = "again"]
           \/ pc' = [pc EXCEPT ![t] = "idle"]
    BY DEF Down
  <2>3. running' \in [Kinds -> Nat] /\ \A k \in Kinds : running'[k] = orphans
    BY <2>1 DEF Down
  <2>4. TypeOK' /\ LocalTypes'
    <3>1. TypeOK'
      BY <2>2, <2>3
    <3>2. LocalTypes'
      BY <2>2
    <3> QED BY <3>1, <3>2
  <2>5. LockInv' /\ StageInv'
    BY <2>1, <2>2
  <2>6. UpOrDown'
    <3>1. \A k \in Kinds : running'[k] = orphans' + 0
      BY <2>1, <2>2, <2>3
    <3> QED BY <2>2, <3>1
  <2> QED BY <2>4, <2>5, <2>6
<1> QED BY <1>1, <1>2, <1>3, <1>4, <1>5, <1>6, <1>7

\* The requests of the admin API.
LEMMA AdminSteps ==
    ASSUME NodeInv, NEW t \in Threads,
           (t \in Admins /\ AdminRequest(t)) \/ (t \in Admins /\ AdminStartWS(t))
           \/ (t \in Admins /\ AdminStopWS(t)) \/ (t \in Admins /\ Recover(t))
    PROVE  NodeInv'
<1> USE NodeAssumption
    DEF NodeInv, TypeOK, LocalTypes, LockInv, StageInv, UpOrDown, AllUp, CallerBusy, AdminBusy,
        WsStart, WsStop, Threads, Goto, At, fields, apis
<1>1. ASSUME t \in Admins, AdminRequest(t) PROVE NodeInv'
  BY <1>1 DEF AdminRequest, Begin
<1>2. ASSUME t \in Admins, AdminStartWS(t) PROVE NodeInv'
  BY <1>2 DEF AdminStartWS, Free
<1>3. ASSUME t \in Admins, AdminStopWS(t) PROVE NodeInv'
  BY <1>3 DEF AdminStopWS, Free
<1>4. ASSUME t \in Admins, Recover(t) PROVE NodeInv'
  BY <1>4 DEF Recover, Panics
<1> QED BY <1>1, <1>2, <1>3, <1>4

LEMMA NodeInvNext == NodeInv /\ [Next]_vars => NodeInv'
<1> SUFFICES ASSUME NodeInv, [Next]_vars PROVE NodeInv'
  OBVIOUS
<1>1. CASE UNCHANGED vars
  BY <1>1 DEF vars, fields, apis, NodeInv, TypeOK, LocalTypes, LockInv, StageInv, UpOrDown, AllUp
<1>2. CASE Next
  BY <1>2, StartSteps, WsStartSteps, WsStopSteps, AdminSteps DEF Next, Step, Threads
<1> QED BY <1>1, <1>2

-----------------------------------------------------------------------------
(* The websocket endpoint.  Together with NodeInv, WsInv says that at most  *)
(* one thread is inside StartWS or StopWS as long as astray is false: the   *)
(* callers exclude each other by the lock, the requests to one API object   *)
(* by its mu, and the rest by the hypothesis.                               *)

\* Start up to the endpoints, and a Restart that finds the node running.
LEMMA StartStepsWs ==
    ASSUME NodeInv, WsInv, ~astray, ~astray', NEW t \in Threads,
           (t \in Callers /\ Start(t)) \/ (t \in Callers /\ StartRefused(t))
           \/ StartService(t) \/ StartServiceFails(t) \/ StartHTTP(t)
    PROVE  WsInv'
<1> USE NodeAssumption
    DEF NodeInv, TypeOK, LocalTypes, LockInv, StageInv, CallerBusy, AdminBusy, WsStart, WsStop,
        Threads, Goto, At, fields, apis, WsInv, InWs, WsStage, Settled, Apart
<1>1. ASSUME t \in Callers, Start(t) PROVE WsInv'
  BY <1>1 DEF Start, Begin
<1>2. ASSUME t \in Callers, StartRefused(t) PROVE WsInv'
  BY <1>2 DEF StartRefused
<1>3. ASSUME StartService(t) PROVE WsInv'
  BY <1>3 DEF StartService
<1>4. ASSUME StartServiceFails(t) PROVE WsInv'
  BY <1>4 DEF StartServiceFails, Fault
<1>5. ASSUME StartHTTP(t) PROVE WsInv'
  BY <1>5 DEF StartHTTP, Fault
<1> QED BY <1>1, <1>2, <1>3, <1>4, <1>5

\* StartWS, which completes a Start or an admin call.
LEMMA WsStartStepsWs ==
    ASSUME NodeInv, WsInv, ~astray, ~astray', NEW t \in Threads,
           Listen(t) \/ ListenFails(t) \/ SetListener(t) \/ SetHandler(t)
    PROVE  WsInv'
<1> USE NodeAssumption
    DEF NodeInv, TypeOK, LocalTypes, LockInv, StageInv, CallerBusy, AdminBusy, WsStart, WsStop,
        Threads, Goto, At, fields, apis, WsInv, InWs, WsStage, Settled, Apart
<1>1. ASSUME Listen(t) PROVE WsInv'
  BY <1>1 DEF Listen, PortOf
<1>2. ASSUME ListenFails(t) PROVE WsInv'
  BY <1>2 DEF ListenFails
<1>3. ASSUME SetListener(t) PROVE WsInv'
  BY <1>3 DEF SetListener
<1>4. ASSUME SetHandler(t) PROVE WsInv'
  BY <1>4 DEF SetHandler
<1> QED BY <1>1, <1>2, <1>3, <1>4

\* StopWS, and Stop around it.
LEMMA WsStopStepsWs ==
    ASSUME NodeInv, WsInv, ~astray, ~astray', NEW t \in Threads,
           (t \in Callers /\ Stop(t)) \/ TestListener(t) \/ Close(t) \/ Clear(t)
           \/ TestHandler(t) \/ StopHandler(t) \/ Down(t)
    PROVE  WsInv'
<1> USE NodeAssumption
    DEF NodeInv, TypeOK, LocalTypes, LockInv, StageInv, CallerBusy, AdminBusy, WsStart, WsStop,
        Threads, Goto, At, fields, apis, WsInv, InWs, WsStage, Settled, Apart
<1>1. ASSUME t \in Callers, Stop(t) PROVE WsInv'
  <2>1. /\ pc' = [pc EXCEPT ![t] = "testListener"] /\ pc[t] = "idle" /\ lock = Nobody
        /\ \/ ~ \E a \in Admins : InWs(a)'
           \/ isRunning /\ \A a \in Admins : InWs(a)' => ~InWs(t)'
    BY <1>1 DEF Stop, Begin
  <2>2. \A a \in Admins : ~InWs(a)' /\ ~InWs(a)
    BY <1>1, <2>1
  <2>3. \A c \in Callers : ~InWs(c) /\ (c # t => ~InWs(c)')
    BY <1>1, <2>1
  <2>4. UNCHANGED <<fields, open, port, apiOf>>
    BY <1>1 DEF Stop
  <2>5. Settled
    BY <2>2, <2>3
  <2>6. WsStage(t)'
    BY <2>1, <2>4, <2>5
  <2> QED BY <2>1, <2>2, <2>3, <2>6
<1>2. ASSUME TestListener(t) PROVE WsInv'
  BY <1>2 DEF TestListener
<1>3. ASSUME Close(t) PROVE WsInv'
  BY <1>3 DEF Close
<1>4. ASSUME Clear(t) PROVE WsInv'
  BY <1>4 DEF Clear
<1>5. ASSUME TestHandler(t) PROVE WsInv'
  BY <1>5 DEF TestHandler, Returns
<1>6. ASSUME StopHandler(t) PROVE WsInv'
  BY <1>6 DEF StopHandler, Returns
<1>7. ASSUME Down(t) PROVE WsInv'
  BY <1>7 DEF Down, Fault
<1> QED BY <1>1, <1>2, <1>3, <1>4, <1>5, <1>6, <1>7

\* The requests of the admin API.
LEMMA AdminStepsWs ==
    ASSUME NodeInv, WsInv, ~astray, ~astray', NEW t \in Threads,
           (t \in Admins /\ AdminRequest(t)) \/ (t \in Admins /\ AdminStartWS(t))
           \/ (t \in Admins /\ AdminStopWS(t)) \/ (t \in Admins /\ Recover(t))
    PROVE  WsInv'
<1> USE NodeAssumption
    DEF NodeInv, TypeOK, LocalTypes, LockInv, StageInv, CallerBusy, AdminBusy, WsStart, WsStop,
        Threads, Goto, At, fields, apis, WsInv, InWs, WsStage, Settled, Apart
<1>1. ASSUME t \in Admins, AdminRequest(t) PROVE WsInv'
  BY <1>1 DEF AdminRequest, Begin
<1>2. ASSUME t \in Admins, AdminStartWS(t) PROVE WsInv'
  <2>1. CASE wsHandler # NoPort
    BY <1>2, <2>1 DEF AdminStartWS
  <2>2. CASE wsHandler = NoPort
    <3>1. /\ pc' = [pc EXCEPT ![t] = "listen"] /\ Free(t) /\ UNCHANGED fields
          /\ open' = open /\ port' = port
      BY <1>2, <2>2 DEF AdminStartWS
    <3>2. isRunning /\ \A c \in Callers : ~InWs(c) /\ ~InWs(c)'
      BY <1>2, <2>2, <3>1 DEF AdminStartWS
    <3>3. \A u \in Threads : ~InWs(u) /\ (u # t => ~InWs(u)')
      <4>1. ASSUME NEW u \in Admins, InWs(u), u # t PROVE FALSE
        <5>1. InWs(u)' /\ InWs(t)'
          BY <1>2, <3>1, <4>1
        <5>2. apiOf[u] = apiOf[t]
          BY <1>2, <2>2, <5>1 DEF AdminStartWS
        <5>3. u \in mu
          BY <4>1
        <5> QED BY <3>1, <5>2, <5>3 DEF Free
      <4>2. ~InWs(t)
        BY <1>2 DEF AdminStartWS
      <4>3. \A u \in Admins : ~InWs(u)
        BY <4>1, <4>2
      <4> QED BY <3>1, <3>2, <4>3
    <3>4. Settled /\ open = {} /\ wsListener = NoPort
      BY <2>2, <3>3
    <3>5. WsStage(t)'
      BY <2>2, <3>1, <3>4
    <3> QED BY <1>2, <3>1, <3>2, <3>3, <3>5
  <2> QED BY <2>1, <2>2
<1>3. ASSUME t \in Admins, AdminStopWS(t) PROVE WsInv'
  BY <1>3 DEF AdminStopWS, Free
<1>4. ASSUME t \in Admins, Recover(t) PROVE WsInv'
  BY <1>4 DEF Recover, Panics
<1> QED BY <1>1, <1>2, <1>3, <1>4

LEMMA WsInvNext == NodeInv /\ WsInv /\ [Next]_vars => WsInv'
<1> SUFFICES ASSUME NodeInv, WsInv, [Next]_vars, ~astray' PROVE WsInv'
  BY DEF WsInv
<1>1. CASE UNCHANGED vars
  BY <1>1 DEF vars, fields, apis, WsInv, InWs, WsStage, Settled
<1>2. CASE Next
  <2>1. ~astray
    BY <1>2 DEF Next, Step, Goto, At, Begin, Start, Stop, StartRefused, AdminRequest,
       AdminStartWS, AdminStopWS,
       StartService, StartServiceFails, StartHTTP, Listen, ListenFails, SetListener, SetHandler,
       TestListener, Close, Clear, TestHandler, StopHandler, Down, Returns, Recover
  <2> QED BY <1>2, <2>1, StartStepsWs, WsStartStepsWs, WsStopStepsWs, AdminStepsWs DEF Next, Step, Threads
<1> QED BY <1>1, <1>2

-----------------------------------------------------------------------------
\* The invariant holds whatever fails and however the calls interleave.
THEOREM NodeInvHolds == Spec => [](NodeInv /\ WsInv)
BY NodeInvInit, NodeInvNext, WsInvNext, PTL DEF Spec

\* Locks are held by the threads that may take them, the count of a service
\* never becomes negative and listeners are on ports of the configuration.
THEOREM NodeTypes == Spec => []TypeOK
<1>1. NodeInv => TypeOK
  BY DEF NodeInv
<1> QED BY <1>1, NodeInvHolds, PTL

\* Between node calls the node is up or down as a whole, but for the services
\* that a Start which failed in startRPC leaves running (node.go.tpl:168-186).
THEOREM NodeUpOrDown == Spec => []UpOrDown
<1>1. NodeInv => UpOrDown
  BY DEF NodeInv
<1> QED BY <1>1, NodeInvHolds, PTL

\* Unless an admin call was at work on a node that was down, or together with a
\* node call or a request to the API object of another Start, no call panics on
\* a field that another has cleared, and the fields describe the endpoint
\* (StartWS and StopWS, node.go.tpl).
THEOREM NodeWsHeld == Spec => []WsHeld
<1>1. NodeInv /\ WsInv => WsHeld
  BY DEF NodeInv, TypeOK, LocalTypes, WsInv, WsHeld, Panics, AtWork, InWs, WsStage, Settled
<1> QED BY <1>1, NodeInvHolds, PTL
=============================================================================
