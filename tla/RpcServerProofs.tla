--------------------------- MODULE RpcServerProofs --------------------------
(***************************************************************************)
(* Proofs about RpcServer for any number of connections, messages,         *)
(* subscriptions and events.  Each invariant is proved with the help of    *)
(* the ones before it.                                                     *)
(***************************************************************************)
EXTENDS RpcServer, SequenceTheorems, TLAPS

-----------------------------------------------------------------------------
(* Types.  The maps of the notifier stay disjoint only because a request   *)
(* to subscribe that was not handled yet has left no trace.                *)

ReadInv ==
    \A c \in Conns : /\ read[c] <= sent[c] /\ sent[c] <= Len(Script[c])
                     /\ servePc[c] = "got" => read[c] > 0

FreshInv ==
    \A m \in Msgs : \A k \in 1..Len(Requests[m]) :
        Requests[m][k].kind = "sub" /\ k > Len(resp[m]) =>
            LET x == Requests[m][k].id IN
            x \notin active \cup inactive \cup errClosed /\ handlerPc[x] = "none"

BaseInv == TypeOK /\ ReadInv /\ FreshInv

\* Stop: a codec that is served is registered, and closed once Stop is done.
Serving == {"loop", "reading", "got", "badRead", "exec", "wait"}
StopInv ==
    /\ run <=> stopPc = "idle"
    /\ \A c \in Conns :
         /\ servePc[c] \in Serving => c \in codecs
         /\ servePc[c] = "returned" => c \in closed
         /\ stopPc = "closing" /\ servePc[c] \in Serving => c \in closed \cup toClose
         /\ stopPc = "done" /\ servePc[c] \in Serving => c \in closed

\* Tasks of a connection served by ServeSingleRequest: the one it executes.
SingleInv ==
    \A c \in Conns :
        /\ c \in Websocket => servePc[c] # "exec"
        /\ c \notin Websocket => \A m \in Msgs : ConnOf[m] = c =>
             /\ servePc[c] \in (Serving \ {"exec"}) \cup {"new"} => taskPc[m] = "none"
             /\ servePc[c] = "exec" /\ m # Script[c][read[c]] => taskPc[m] = "none"

\* Answers.
WasRead(m) == \E n \in 1..read[ConnOf[m]] : Script[ConnOf[m]][n] = m
Responded(m) ==
    \E c \in Conns : \E k \in 1..Len(out[c]) :
        out[c][k].kind = "response" /\ out[c][k].msg = m
TaskInv ==
    \A m \in Msgs :
        /\ taskPc[m] # "none" => WasRead(m)
        /\ taskPc[m] = "none" => resp[m] = << >> /\ callbacks[m] = << >>
        /\ taskPc[m] = "handle" => ~Responded(m)
GotInv ==
    \A c \in Conns : \A m \in Msgs : servePc[c] = "got" /\ m = Script[c][read[c]] =>
        taskPc[m] = "none" /\ ~Responded(m)

\* Unsubscribe.
ClosedInv == \A x \in errClosed : x \notin active \cup inactive /\ handlerPc[x] # "write"
UnsubInv ==
    \A x \in Subs :
        /\ \A m \in Msgs : \A k \in 1..Len(resp[m]) :
             Requests[m][k] = Unsubscribed(x) /\ resp[m][k] = "result" => x \in errClosed
        /\ \A c \in Conns : \A k \in 1..Len(out[c]) :
             Answers(c, k, Unsubscribed(x), "result") => x \in errClosed

\* Ids.
Told(x) == IdSent(x) \/ broken[SubConn[x]]
CallbackInv ==
    \A m \in Msgs : \A n \in 1..Len(callbacks[m]) : \A x \in Subs : x = callbacks[m][n] =>
        /\ \E k \in 1..Len(Requests[m]) :
              /\ Requests[m][k] = Subscribed(x)
              /\ taskPc[m] = "handle" => k <= Len(resp[m]) /\ resp[m][k] = "result"
        /\ taskPc[m] = "callbacks" => Told(x)
ActiveInv == \A x \in Subs : x \in active \/ handlerPc[x] = "write" => Told(x)

-----------------------------------------------------------------------------
(* Facts about the constants and about Write                               *)

LEMMA ScriptFacts ==
    ASSUME NEW c \in Conns
    PROVE  /\ Len(Script[c]) \in Nat
           /\ \A n \in 1..Len(Script[c]) : Script[c][n] \in Msgs /\ ConnOf[Script[c][n]] = c
           /\ \A j, n \in 1..Len(Script[c]) : Script[c][j] = Script[c][n] => j = n
<1>1. Script[c] \in Seq(Msgs) /\ DOMAIN Script[c] = 1..Len(Script[c]) /\ Len(Script[c]) \in Nat
  BY ScriptAssumption, LenProperties
<1>2. \A n \in 1..Len(Script[c]) : Script[c][n] \in Range(Script[c])
  BY <1>1 DEF Range
<1>3. Range(Script[c]) = {m \in Msgs : ConnOf[m] = c} /\ IsInjective(Script[c])
  BY ScriptAssumption
<1> QED BY <1>1, <1>2, <1>3 DEF IsInjective

LEMMA RequestFacts ==
    ASSUME NEW m \in Msgs
    PROVE  /\ Len(Requests[m]) \in Nat
           /\ \A k \in 1..Len(Requests[m]) : Requests[m][k] \in Request
           /\ ConnOf[m] \in Conns
<1>1. Requests[m] \in Seq(Request)
  BY RequestsAssumption
<1> QED BY <1>1, ScriptAssumption, LenProperties, ElementOfSeq

LEMMA ItemTypes ==
    /\ ReadError \in Items
    /\ \A x \in Subs : Notification(x) \in Items
    /\ \A m \in Msgs : \A ans \in Seq({"result", "error"}) : Response(m, ans) \in Items
BY DEF Items, ReadError, Notification, Response

\* A Write that succeeds appends the item; one that fails leaves the wire as
\* it was and, if the item can be encoded, broken.
LEMMA WriteEffect ==
    ASSUME TypeOK, NEW c \in Conns, NEW item \in Items, NEW e \in BOOLEAN, NEW ok \in BOOLEAN,
           Write(c, item, e, ok)
    PROVE  /\ out' \in [Conns -> Seq(Items)] /\ broken' \in [Conns -> BOOLEAN]
           /\ \A d \in Conns : broken[d] => broken'[d]
           /\ \/ ok /\ ~broken[c] /\ out' = [out EXCEPT ![c] = Append(@, item)]
              \/ ~ok /\ out' = out /\ (e => broken'[c])
<1>1. Append(out[c], item) \in Seq(Items)
  BY AppendProperties DEF TypeOK
<1> QED BY <1>1, ZenonT(30) DEF Write, TypeOK

\* The request a task handles.
LEMMA CurrentRequest ==
    ASSUME TypeOK, NEW m \in Msgs, NEW kinds, Handling(m, kinds)
    PROVE  /\ Len(resp[m]) \in Nat
           /\ Len(resp[m]) + 1 \in 1..Len(Requests[m])
           /\ Current(m) = Requests[m][Len(resp[m]) + 1]
           /\ Current(m) \in Request /\ Current(m).kind \in kinds
           /\ taskPc[m] = "handle"
<1>1. resp[m] \in Seq({"result", "error"})
  BY DEF TypeOK
<1>2. Len(resp[m]) \in Nat
  BY <1>1, LenProperties
<1> QED BY <1>2, RequestFacts DEF Handling, Current

LEMMA AnswerType ==
    ASSUME TypeOK, NEW m \in Msgs, NEW a \in {"result", "error"}, Answer(m, a)
    PROVE  /\ resp' \in [Msgs -> Seq({"result", "error"})]
           /\ resp'[m] = Append(resp[m], a)
           /\ Len(resp'[m]) = Len(resp[m]) + 1
           /\ \A k \in 1..Len(resp[m]) : resp'[m][k] = resp[m][k]
           /\ resp'[m][Len(resp[m]) + 1] = a
           /\ \A n \in Msgs : n # m => resp'[n] = resp[n]
           /\ \A n \in Msgs : Len(resp[n]) \in Nat /\ Len(resp'[n]) \in Nat
                              /\ Len(resp'[n]) >= Len(resp[n])
<1>1. resp[m] \in Seq({"result", "error"})
  BY DEF TypeOK
<1>2. /\ Append(resp[m], a) \in Seq({"result", "error"})
      /\ Len(Append(resp[m], a)) = Len(resp[m]) + 1
      /\ \A k \in 1..Len(resp[m]) : Append(resp[m], a)[k] = resp[m][k]
      /\ Append(resp[m], a)[Len(resp[m]) + 1] = a
  BY <1>1, AppendProperties
<1>3. resp'[m] = Append(resp[m], a)
  BY DEF Answer, TypeOK
<1>4. resp' \in [Msgs -> Seq({"result", "error"})] /\ \A n \in Msgs : n # m => resp'[n] = resp[n]
  BY <1>2 DEF Answer, TypeOK
<1>5. \A n \in Msgs : Len(resp[n]) \in Nat /\ Len(resp'[n]) \in Nat
  BY <1>4, LenProperties DEF TypeOK
<1>6. \A n \in Msgs : Len(resp'[n]) >= Len(resp[n])
  BY <1>2, <1>3, <1>4, <1>5
<1> QED BY <1>2, <1>3, <1>4, <1>5, <1>6

-----------------------------------------------------------------------------
(* Types                                                                   *)

LEMMA BaseInit == Init => BaseInv
<1> SUFFICES ASSUME Init PROVE BaseInv
  OBVIOUS
<1>1. \A S : << >> \in Seq(S)
  OBVIOUS
<1>2. TypeOK
  BY <1>1, RequestsAssumption DEF Init, TypeOK
<1>3. ReadInv
  BY ScriptFacts DEF Init, ReadInv
<1>4. FreshInv
  BY IdsAssumption DEF Init, FreshInv
<1> QED BY <1>2, <1>3, <1>4 DEF BaseInv

\* The steps of serveRequest that write nothing, Stop and the client.
LEMMA BaseQuiet ==
    ASSUME BaseInv,
           \/ \E c \in Conns :
                 \/ Register(c) \/ LoopTest(c) \/ ReadMessage(c) \/ ReadEOF(c) \/ PendWait(c)
                 \/ ExecDone(c) \/ Deregister(c) \/ ServeReturn(c) \/ StopClose(c)
                 \/ ClientSend(c) \/ ClientHangUp(c)
           \/ StopFlag \/ StopLock \/ StopDone \/ EventLoopStop
    PROVE  BaseInv'
<1> USE DEF BaseInv
<1>1. /\ UNCHANGED <<taskVars, active, inactive, errClosed, handlerPc, events, out>>
      /\ eventLoop' \in BOOLEAN
  BY DEF TypeOK, Register, LoopTest, ReadMessage, ReadEOF, PendWait, ExecDone, Deregister,
     ServeReturn, StopClose, ClientSend, ClientHangUp, StopFlag, StopLock, StopDone,
     EventLoopStop, connVars, subVars
<1>2. FreshInv'
  BY <1>1 DEF FreshInv, taskVars, subVars
<1>3. ASSUME NEW c \in Conns,
             Register(c) \/ LoopTest(c) \/ ReadEOF(c) \/ PendWait(c) \/ ExecDone(c)
             \/ Deregister(c) \/ ServeReturn(c) \/ StopClose(c) \/ ClientHangUp(c)
      PROVE  TypeOK' /\ ReadInv'
  BY <1>1, <1>3, ZenonT(30) DEF TypeOK, ReadInv, taskVars, subVars, serverVars, Register, LoopTest, ReadEOF,
     PendWait, ExecDone, Deregister, ServeReturn, StopClose, ClientHangUp
<1>4. ASSUME NEW c \in Conns, ReadMessage(c) PROVE TypeOK' /\ ReadInv'
  BY <1>1, <1>4 DEF TypeOK, ReadInv, taskVars, subVars, serverVars, ReadMessage
<1>5. ASSUME NEW c \in Conns, ClientSend(c) PROVE TypeOK' /\ ReadInv'
  <2>1. /\ sent[c] < Len(Script[c])
        /\ sent' = [sent EXCEPT ![c] = @ + 1]
        /\ UNCHANGED <<serverVars, servePc, closed, read, hung, broken>>
    BY <1>5 DEF ClientSend
  <2>2. TypeOK'
    BY <1>1, <2>1 DEF TypeOK, taskVars, subVars, serverVars
  <2>3. ReadInv'
    BY <2>1, ScriptFacts DEF TypeOK, ReadInv
  <2> QED BY <2>2, <2>3
<1>6. CASE StopFlag \/ StopLock \/ StopDone \/ EventLoopStop
  BY <1>1, <1>2, <1>6 DEF TypeOK, ReadInv, taskVars, serverVars, connVars, StopFlag, StopLock,
     StopDone, EventLoopStop
<1> QED BY <1>2, <1>3, <1>4, <1>5, <1>6

\* The steps that write to the wire.
LEMMA BaseWrites ==
    ASSUME BaseInv,
           \/ \E c \in Conns : ReadFailed(c) \/ Refuse(c)
           \/ \E m \in Msgs : WriteResponse(m)
           \/ \E x \in Subs : NotifyWrite(x)
    PROVE  BaseInv'
<1> USE DEF BaseInv
<1>1. ASSUME NEW c \in Conns, ReadFailed(c) PROVE BaseInv'
  <2>1. out' \in [Conns -> Seq(Items)] /\ broken' \in [Conns -> BOOLEAN]
    BY <1>1, WriteEffect, ItemTypes DEF ReadFailed
  <2> QED BY <1>1, <2>1
          DEF ReadFailed, TypeOK, ReadInv, FreshInv, serverVars, taskVars, subVars
<1>2. ASSUME NEW c \in Conns, Refuse(c) PROVE BaseInv'
  <2> DEFINE m == Script[c][read[c]]
             item == Response(m, [n \in 1..Len(Requests[m]) |-> "error"])
  <2>1. m \in Msgs
    BY <1>2, ScriptFacts DEF Refuse, TypeOK, ReadInv
  <2>2. [n \in 1..Len(Requests[m]) |-> "error"] \in Seq({"result", "error"})
    BY <2>1, RequestFacts
  <2>3. item \in Items
    BY <2>1, <2>2, ItemTypes
  <2>4. PICK ok \in BOOLEAN : Write(c, item, TRUE, ok)
    BY <1>2 DEF Refuse
  <2>5. out' \in [Conns -> Seq(Items)] /\ broken' \in [Conns -> BOOLEAN]
    BY <2>3, <2>4, WriteEffect
  <2> QED BY <1>2, <2>5
          DEF Refuse, TypeOK, ReadInv, FreshInv, serverVars, taskVars, subVars
<1>3. ASSUME NEW m \in Msgs, WriteResponse(m) PROVE BaseInv'
  <2>1. Response(m, resp[m]) \in Items /\ ConnOf[m] \in Conns
    BY ItemTypes, RequestFacts DEF TypeOK
  <2>2. PICK ok \in BOOLEAN : Write(ConnOf[m], Response(m, resp[m]), m \notin Unencodable, ok)
    BY <1>3 DEF WriteResponse
  <2>3. out' \in [Conns -> Seq(Items)] /\ broken' \in [Conns -> BOOLEAN]
    BY <2>1, <2>2, WriteEffect
  <2> QED BY <1>3, <2>1, <2>3
          DEF WriteResponse, TypeOK, ReadInv, FreshInv, serverVars, subVars
<1>4. ASSUME NEW x \in Subs, NotifyWrite(x) PROVE BaseInv'
  <2>1. Notification(x) \in Items /\ SubConn[x] \in Conns
    BY ItemTypes, ScriptAssumption
  <2>2. PICK ok \in BOOLEAN : Write(SubConn[x], Notification(x), TRUE, ok)
    BY <1>4 DEF NotifyWrite
  <2>3. out' \in [Conns -> Seq(Items)] /\ broken' \in [Conns -> BOOLEAN]
    BY <2>1, <2>2, WriteEffect
  <2>4. TypeOK' /\ ReadInv'
    BY <1>4, <2>1, <2>3 DEF NotifyWrite, TypeOK, ReadInv, serverVars, taskVars
  <2>5. FreshInv'
    BY <1>4, IdsAssumption DEF NotifyWrite, TypeOK, FreshInv, taskVars
  <2> QED BY <2>4, <2>5
<1> QED BY <1>1, <1>2, <1>3, <1>4

\* The other steps of tasks and handlers.
LEMMA BaseTasks ==
    ASSUME BaseInv,
           \/ \E c \in Conns : Dispatch(c)
           \/ \E m \in Msgs : \/ HandleCall(m) \/ HandleSubscribe(m) \/ HandleUnsubscribe(m)
                              \/ HandleUnsupported(m) \/ Activate(m) \/ TaskDone(m)
           \/ \E x \in Subs : Notify(x) \/ HandlerStep(x)
    PROVE  BaseInv'
<1> USE DEF BaseInv
<1>1. ASSUME NEW c \in Conns, Dispatch(c) PROVE BaseInv'
  BY <1>1 DEF Dispatch, TypeOK, ReadInv, FreshInv, serverVars, subVars
<1>2. ASSUME NEW m \in Msgs, NEW a \in {"result", "error"}, Answer(m, a),
             UNCHANGED <<serverVars, connVars, taskPc, callbacks, subVars>>
      PROVE  BaseInv'
  <2>1. resp' \in [Msgs -> Seq({"result", "error"})] /\ \A n \in Msgs : Len(resp'[n]) >= Len(resp[n])
    BY <1>2, AnswerType
  <2>2. TypeOK' /\ ReadInv'
    BY <1>2, <2>1 DEF TypeOK, ReadInv, serverVars, connVars, subVars
  <2>3. \A n \in Msgs : Len(resp[n]) \in Nat /\ Len(resp'[n]) \in Nat
    BY <1>2, AnswerType
  <2>4. UNCHANGED <<active, inactive, errClosed, handlerPc>>
    BY <1>2 DEF subVars
  <2>5. \A n \in Msgs : \A k \in Nat : k > Len(resp'[n]) => k > Len(resp[n])
    BY <2>1, <2>3
  <2>6. FreshInv'
    BY <2>4, <2>5, RequestFacts DEF FreshInv
  <2> QED BY <2>2, <2>6
<1>3. ASSUME NEW m \in Msgs, HandleCall(m) \/ HandleUnsupported(m) PROVE BaseInv'
  BY <1>2, <1>3 DEF HandleCall, HandleUnsupported
<1>4. ASSUME NEW m \in Msgs, HandleSubscribe(m) PROVE BaseInv'
  <2> DEFINE x == Current(m).id
             k0 == Len(resp[m]) + 1
  <2>1. /\ k0 \in 1..Len(Requests[m]) /\ Current(m) = Requests[m][k0] /\ Current(m).kind = "sub"
        /\ Current(m) \in Request /\ Len(resp[m]) \in Nat
    BY <1>4, CurrentRequest DEF HandleSubscribe
  <2>2. x \in Subs
    BY <2>1, IdsAssumption
  <2>3. x \notin active \cup inactive \cup errClosed /\ handlerPc[x] = "none"
    BY <2>1 DEF FreshInv
  <2>4. /\ resp' \in [Msgs -> Seq({"result", "error"})] /\ Len(resp'[m]) = k0
        /\ \A n \in Msgs : n # m => resp'[n] = resp[n]
    BY <1>4, AnswerType DEF HandleSubscribe
  <2>5. callbacks' \in [Msgs -> Seq(Subs)]
    BY <1>4, <2>2, AppendProperties DEF HandleSubscribe, TypeOK
  <2>6. TypeOK' /\ ReadInv'
    BY <1>4, <2>2, <2>3, <2>4, <2>5 DEF HandleSubscribe, TypeOK, ReadInv, serverVars, connVars
  <2>7. ASSUME NEW n \in Msgs, NEW k \in 1..Len(Requests[n]), Requests[n][k].kind = "sub",
               k > Len(resp'[n])
        PROVE  LET y == Requests[n][k].id IN
               y \notin active' \cup inactive' \cup errClosed' /\ handlerPc'[y] = "none"
    <3> DEFINE y == Requests[n][k].id
    <3>1. k > Len(resp[n]) /\ ~(n = m /\ k = k0)
      BY <2>1, <2>4, <2>7
    <3>2. y # x
      <4>1. Requests[n][k] # Requests[m][k0]
        BY <2>1, <2>7, <3>1, IdsAssumption
      <4>2. Requests[n][k] \in Request
        BY RequestFacts
      <4> QED BY <2>1, <2>7, <4>1, <4>2 DEF Request
    <3>3. y \notin active \cup inactive \cup errClosed /\ handlerPc[y] = "none"
      BY <2>7, <3>1 DEF FreshInv
    <3> QED BY <1>4, <2>2, <3>2, <3>3 DEF HandleSubscribe, TypeOK
  <2> QED BY <2>6, <2>7 DEF FreshInv
<1>5. ASSUME NEW m \in Msgs, HandleUnsubscribe(m) PROVE BaseInv'
  <2> DEFINE x == Current(m).id
  <2>1. CASE ~(x \in active /\ SubConn[x] = ConnOf[m])
    BY <1>2, <1>5, <2>1 DEF HandleUnsubscribe, subVars
  <2>2. CASE x \in active /\ SubConn[x] = ConnOf[m]
    <3>1. /\ Answer(m, "result") /\ errClosed' = errClosed \cup {x} /\ active' = active \ {x}
          /\ UNCHANGED <<serverVars, connVars, taskPc, callbacks, inactive, handlerPc,
                         events, eventLoop>>
      BY <1>5, <2>2 DEF HandleUnsubscribe
    <3>2. resp' \in [Msgs -> Seq({"result", "error"})] /\ \A n \in Msgs : Len(resp'[n]) >= Len(resp[n])
      BY <3>1, AnswerType
    <3>3. TypeOK' /\ ReadInv'
      BY <2>2, <3>1, <3>2 DEF TypeOK, ReadInv, serverVars, connVars
    <3>4. \A n \in Msgs : Len(resp[n]) \in Nat /\ Len(resp'[n]) \in Nat
      BY <3>1, AnswerType
    <3>5. FreshInv'
      BY <2>2, <3>1, <3>2, <3>4 DEF FreshInv
    <3> QED BY <3>3, <3>5
  <2> QED BY <2>1, <2>2
<1>6. ASSUME NEW m \in Msgs, Activate(m) PROVE BaseInv'
  <2>1. callbacks' \in [Msgs -> Seq(Subs)] /\ Head(callbacks[m]) \in Subs
    BY <1>6, HeadTailProperties DEF Activate, TypeOK
  <2>2. TypeOK' /\ ReadInv'
    BY <1>6, <2>1 DEF Activate, TypeOK, ReadInv, serverVars, connVars
  <2>3. FreshInv'
    BY <1>6 DEF Activate, FreshInv
  <2> QED BY <2>2, <2>3
<1>7. ASSUME NEW m \in Msgs, TaskDone(m) PROVE BaseInv'
  BY <1>7 DEF TaskDone, TypeOK, ReadInv, FreshInv, serverVars, connVars, subVars
<1>8. ASSUME NEW x \in Subs, Notify(x) \/ HandlerStep(x) PROVE BaseInv'
  <2>1. events' \in [Subs -> 0..MaxEvents]
    <3>1. events[x] \in 0..MaxEvents /\ MaxEvents \in Nat
      BY RequestsAssumption DEF TypeOK
    <3>2. CASE Notify(x)
      <4>1. events[x] + 1 \in 0..MaxEvents
        BY <3>1, <3>2 DEF Notify
      <4> QED BY <3>2, <4>1 DEF Notify, TypeOK
    <3> QED BY <1>8, <3>2 DEF HandlerStep, HandlerInstalled, HandlerLeave, HandlerReturn, TypeOK
  <2>2. handlerPc' \in [Subs -> {"none", "install", "idle", "write", "uninstall", "stopped"}]
    BY <1>8, ZenonT(30) DEF Notify, HandlerStep, HandlerInstalled, HandlerLeave, HandlerReturn,
       TypeOK
  <2>3. TypeOK' /\ ReadInv'
    BY <1>8, <2>1, <2>2
       DEF Notify, HandlerStep, HandlerInstalled, HandlerLeave, HandlerReturn, TypeOK, ReadInv,
       serverVars, connVars, taskVars
  <2>4. FreshInv'
    BY <1>8, IdsAssumption DEF Notify, HandlerStep, HandlerInstalled, HandlerLeave, HandlerReturn,
       TypeOK, FreshInv, taskVars
  <2> QED BY <2>3, <2>4
<1> QED BY <1>1, <1>3, <1>4, <1>5, <1>6, <1>7, <1>8

\* Which steps there are, in the three groups of the lemmas.
LEMMA NextCases ==
    ASSUME [Next]_vars
    PROVE  \/ UNCHANGED vars
           \/ \/ \E c \in Conns :
                 \/ Register(c) \/ LoopTest(c) \/ ReadMessage(c) \/ ReadEOF(c) \/ PendWait(c)
                 \/ ExecDone(c) \/ Deregister(c) \/ ServeReturn(c) \/ StopClose(c)
                 \/ ClientSend(c) \/ ClientHangUp(c)
              \/ StopFlag \/ StopLock \/ StopDone \/ EventLoopStop
           \/ \/ \E c \in Conns : ReadFailed(c) \/ Refuse(c)
              \/ \E m \in Msgs : WriteResponse(m)
              \/ \E x \in Subs : NotifyWrite(x)
           \/ \/ \E c \in Conns : Dispatch(c)
              \/ \E m \in Msgs : \/ HandleCall(m) \/ HandleSubscribe(m) \/ HandleUnsubscribe(m)
                                 \/ HandleUnsupported(m) \/ Activate(m) \/ TaskDone(m)
              \/ \E x \in Subs : Notify(x) \/ HandlerStep(x)
BY Zenon DEF Next, ServeStep, StopStep, TaskStep, Terminated

LEMMA BaseNext == BaseInv /\ [Next]_vars => BaseInv'
<1> SUFFICES ASSUME BaseInv, [Next]_vars PROVE BaseInv'
  OBVIOUS
<1>1. CASE UNCHANGED vars
  BY <1>1 DEF vars, serverVars, connVars, taskVars, subVars, BaseInv, TypeOK, ReadInv, FreshInv
<1> QED BY <1>1, NextCases, BaseQuiet, BaseWrites, BaseTasks

\* Types, reading and fresh subscriptions hold of every connection (serveRequest,
\* CreateSubscription): the base of the theorems below.
THEOREM RpcBase == Spec => []BaseInv
BY BaseInit, BaseNext, PTL DEF Spec

\* Type invariant of the server, its connections, tasks and subscriptions: no
\* interleaving of handlers, tasks, Stop and clients leaves a variable outside
\* its range or a subscription in both maps of a notifier.
THEOREM RpcTypes == Spec => []TypeOK
<1>1. BaseInv => TypeOK
  BY DEF BaseInv
<1> QED BY <1>1, RpcBase, PTL

-----------------------------------------------------------------------------
(* Stop                                                                    *)

LEMMA StopInit == Init => StopInv
BY DEF Init, StopInv, Serving

LEMMA StopNext == BaseInv /\ StopInv /\ [Next]_vars => StopInv'
<1> SUFFICES ASSUME TypeOK, StopInv, [Next]_vars PROVE StopInv'
  BY DEF BaseInv
<1>1. CASE UNCHANGED vars
  BY <1>1 DEF vars, serverVars, connVars, StopInv
<1>2. ASSUME NEW c \in Conns,
             \/ Register(c) \/ LoopTest(c) \/ ReadMessage(c) \/ ReadEOF(c) \/ PendWait(c)
             \/ ExecDone(c) \/ Deregister(c) \/ ServeReturn(c) \/ ReadFailed(c) \/ Refuse(c)
             \/ Dispatch(c)
      PROVE  StopInv'
  <2>1. CASE Register(c)
    BY <2>1 DEF TypeOK, StopInv, Serving, CodecsMuFree, Register
  <2>2. CASE Deregister(c) \/ ServeReturn(c)
    BY <2>2 DEF TypeOK, StopInv, Serving, serverVars, CodecsMuFree, Deregister, ServeReturn
  <2>3. CASE LoopTest(c) \/ ReadMessage(c) \/ ReadEOF(c) \/ PendWait(c) \/ ExecDone(c)
             \/ ReadFailed(c) \/ Refuse(c) \/ Dispatch(c)
    <3>1. /\ UNCHANGED <<run, stopPc, toClose, codecs, closed>> /\ servePc[c] \in Serving
          /\ \E v \in Serving \cup {"leave"} : servePc' = [servePc EXCEPT ![c] = v]
      BY <2>3 DEF Serving, serverVars, LoopTest, ReadMessage, ReadEOF, PendWait, ExecDone,
         ReadFailed, Refuse, Dispatch
    <3> QED BY <3>1 DEF TypeOK, StopInv, Serving
  <2> QED BY <1>2, <2>1, <2>2, <2>3
<1>3. ASSUME NEW c \in Conns, StopClose(c) \/ ClientSend(c) \/ ClientHangUp(c) PROVE StopInv'
  BY <1>3, SMTT(30) DEF TypeOK, StopInv, serverVars, StopClose, ClientSend, ClientHangUp
<1>4. CASE StopFlag \/ StopLock \/ StopDone \/ EventLoopStop
  BY <1>4 DEF TypeOK, StopInv, serverVars, connVars, StopFlag, StopLock, StopDone, EventLoopStop
<1>5. ASSUME NEW m \in Msgs,
             \/ HandleCall(m) \/ HandleSubscribe(m) \/ HandleUnsubscribe(m)
             \/ HandleUnsupported(m) \/ Activate(m) \/ TaskDone(m)
      PROVE  StopInv'
  BY <1>5 DEF StopInv, serverVars, connVars, HandleCall, HandleSubscribe, HandleUnsubscribe,
     HandleUnsupported, Activate, TaskDone
<1>6. ASSUME NEW m \in Msgs, WriteResponse(m) PROVE StopInv'
  BY <1>6 DEF StopInv, serverVars, WriteResponse
<1>7. ASSUME NEW x \in Subs, Notify(x) \/ NotifyWrite(x) \/ HandlerStep(x) PROVE StopInv'
  <2>1. UNCHANGED <<run, stopPc, toClose, codecs, servePc>> /\ closed \subseteq closed'
    BY <1>7 DEF serverVars, connVars, Notify, NotifyWrite, HandlerStep, HandlerInstalled,
       HandlerLeave, HandlerReturn
  <2> QED BY <2>1 DEF StopInv
<1> QED BY <1>1, <1>2, <1>3, <1>4, <1>5, <1>6, <1>7, NextCases

\* StopInv: Run is the flag Stop takes, a codec is registered while it is
\* served, and Stop has closed or will close every such codec.
THEOREM RpcStopInv == Spec => []StopInv
BY StopInit, StopNext, RpcBase, PTL DEF Spec

\* When Stop has returned every codec that is being served is closed, also
\* one whose handler was at the lock of Codecs while Stop went through them.
THEOREM RpcStopClosesAll == Spec => []StopClosesAll
<1>1. BaseInv /\ StopInv => StopClosesAll
  BY DEF BaseInv, TypeOK, StopInv, Serving, StopClosesAll
<1> QED BY <1>1, RpcBase, RpcStopInv, PTL

-----------------------------------------------------------------------------
(* Tasks of a connection                                                   *)

\* The message a handler has just read.
LEMMA GotMessage ==
    ASSUME BaseInv, NEW c \in Conns, servePc[c] = "got"
    PROVE  /\ read[c] \in 1..Len(Script[c])
           /\ Script[c][read[c]] \in Msgs /\ ConnOf[Script[c][read[c]]] = c
<1>1. read[c] \in Nat /\ sent[c] \in Nat /\ read[c] > 0 /\ read[c] <= Len(Script[c])
  BY ScriptFacts DEF BaseInv, TypeOK, ReadInv
<1>2. read[c] \in 1..Len(Script[c])
  BY <1>1, ScriptFacts
<1> QED BY <1>2, ScriptFacts

\* The steps that leave servePc alone.
ServeQuiet ==
    \/ \E c \in Conns : StopClose(c) \/ ClientSend(c) \/ ClientHangUp(c)
    \/ StopFlag \/ StopLock \/ StopDone \/ EventLoopStop
    \/ \E x \in Subs : Notify(x) \/ NotifyWrite(x) \/ HandlerStep(x)

LEMMA SingleInit == Init => SingleInv
BY DEF Init, SingleInv, Serving

LEMMA SingleNext == BaseInv /\ SingleInv /\ [Next]_vars => SingleInv'
<1> SUFFICES ASSUME BaseInv, SingleInv, [Next]_vars PROVE SingleInv'
  OBVIOUS
<1>0. TypeOK
  BY DEF BaseInv
<1>1. CASE UNCHANGED vars
  BY <1>1 DEF vars, connVars, taskVars, SingleInv
<1>2. ASSUME NEW c \in Conns,
             \/ Register(c) \/ LoopTest(c) \/ ReadEOF(c) \/ PendWait(c)
             \/ ExecDone(c) \/ Deregister(c) \/ ServeReturn(c) \/ ReadFailed(c) \/ Refuse(c)
      PROVE  SingleInv'
  <2>1. UNCHANGED <<read, taskPc>>
    BY <1>2 DEF taskVars, Register, LoopTest, ReadEOF, PendWait, ExecDone, Deregister,
       ServeReturn, ReadFailed, Refuse
  <2>2. \/ /\ servePc[c] \in (Serving \ {"exec"}) \cup {"new"}
           /\ \E v \in {"loop", "reading", "wait", "leave"} : servePc' = [servePc EXCEPT ![c] = v]
        \/ \E v \in {"leave", "closing", "returned"} : servePc' = [servePc EXCEPT ![c] = v]
    BY <1>2 DEF Serving, Register, LoopTest, ReadEOF, PendWait, ExecDone, Deregister,
       ServeReturn, ReadFailed, Refuse
  <2> QED BY <1>0, <2>1, <2>2 DEF TypeOK, SingleInv, Serving
<1>3. ASSUME NEW c \in Conns, ReadMessage(c) PROVE SingleInv'
  BY <1>0, <1>3 DEF TypeOK, SingleInv, Serving, taskVars, ReadMessage
<1>4. ASSUME NEW c \in Conns, Dispatch(c) PROVE SingleInv'
  <2>1. Script[c][read[c]] \in Msgs /\ ConnOf[Script[c][read[c]]] = c
    BY <1>4, GotMessage DEF Dispatch
  <2> QED BY <1>0, <1>4, <2>1 DEF TypeOK, SingleInv, Serving, Dispatch
<1>5. CASE ServeQuiet
  BY <1>5, ZenonT(30) DEF ServeQuiet, SingleInv, connVars, taskVars, StopClose, ClientSend, ClientHangUp,
     StopFlag, StopLock, StopDone, EventLoopStop, Notify, NotifyWrite, HandlerStep,
     HandlerInstalled, HandlerLeave, HandlerReturn
<1>6. ASSUME NEW m \in Msgs,
             \/ HandleCall(m) \/ HandleSubscribe(m) \/ HandleUnsubscribe(m)
             \/ HandleUnsupported(m) \/ Activate(m)
      PROVE  SingleInv'
  BY <1>6 DEF SingleInv, connVars, HandleCall, HandleSubscribe, HandleUnsubscribe,
     HandleUnsupported, Activate
<1>7. ASSUME NEW m \in Msgs, WriteResponse(m) \/ TaskDone(m) PROVE SingleInv'
  BY <1>0, <1>7 DEF TypeOK, SingleInv, connVars, WriteResponse, TaskDone
<1> QED BY <1>1, <1>2, <1>3, <1>4, <1>5, <1>6, <1>7, NextCases DEF ServeQuiet

LEMMA FinishNext ==
    BaseInv /\ StopInv /\ SingleInv /\ TasksFinishFirst /\ [Next]_vars => TasksFinishFirst'
<1> SUFFICES ASSUME BaseInv, StopInv, SingleInv, TasksFinishFirst, [Next]_vars, run'
             PROVE  TasksFinishFirst'
  BY DEF TasksFinishFirst
<1>0. TypeOK /\ run
  <2>1. TypeOK
    BY DEF BaseInv
  <2>2. run' => run
    BY <2>1, NextCases DEF vars, serverVars, Register, LoopTest, ReadMessage, ReadEOF, PendWait,
       ExecDone, Deregister, ServeReturn, StopClose, ClientSend, ClientHangUp, StopFlag, StopLock,
       StopDone, EventLoopStop, ReadFailed, Refuse, WriteResponse, NotifyWrite, Dispatch,
       HandleCall,
       HandleSubscribe, HandleUnsubscribe, HandleUnsupported, Activate, TaskDone, Notify,
       HandlerStep, HandlerInstalled, HandlerLeave, HandlerReturn
  <2> QED BY <2>1, <2>2
<1>1. CASE UNCHANGED vars
  BY <1>0, <1>1 DEF vars, connVars, taskVars, TasksFinishFirst
<1>2. ASSUME NEW c \in Conns,
             \/ Register(c) \/ LoopTest(c) \/ ReadMessage(c) \/ ReadEOF(c) \/ PendWait(c)
             \/ Deregister(c) \/ ServeReturn(c) \/ ReadFailed(c) \/ Refuse(c)
      PROVE  TasksFinishFirst'
  <2>1. taskPc' = taskPc
    BY <1>2 DEF taskVars, Register, LoopTest, ReadMessage, ReadEOF, PendWait, Deregister,
       ServeReturn, ReadFailed, Refuse
  <2>2. CASE PendWait(c)
    BY <1>0, <2>1, <2>2, ScriptAssumption DEF TypeOK, TasksFinishFirst, PendWait
  <2>3. CASE Deregister(c) \/ ServeReturn(c)
    BY <1>0, <2>1, <2>3, ScriptAssumption DEF TypeOK, TasksFinishFirst, Deregister, ServeReturn
  <2>4. CASE Register(c) \/ LoopTest(c) \/ ReadMessage(c) \/ ReadEOF(c) \/ ReadFailed(c)
    <3>1. \E v \in {"loop", "reading", "got", "badRead", "wait"} :
             servePc' = [servePc EXCEPT ![c] = v]
      BY <1>0, <2>4 DEF Register, LoopTest, ReadMessage, ReadEOF, ReadFailed
    <3> QED BY <1>0, <2>1, <3>1, ScriptAssumption DEF TypeOK, TasksFinishFirst
  <2> QED BY <1>0, <1>2, <2>2, <2>3, <2>4 DEF Refuse
<1>3. ASSUME NEW c \in Conns, ExecDone(c) PROVE TasksFinishFirst'
  BY <1>0, <1>3, ScriptAssumption DEF TypeOK, TasksFinishFirst, SingleInv, taskVars, serverVars,
     ExecDone
<1>4. ASSUME NEW c \in Conns, Dispatch(c) PROVE TasksFinishFirst'
  <2>1. Script[c][read[c]] \in Msgs /\ ConnOf[Script[c][read[c]]] = c
    BY <1>4, GotMessage DEF Dispatch
  <2> QED BY <1>0, <1>4, <2>1, ScriptAssumption DEF TypeOK, TasksFinishFirst, Dispatch
<1>5. CASE ServeQuiet
  BY <1>0, <1>5 DEF ServeQuiet, TasksFinishFirst, connVars, taskVars, StopClose, ClientSend,
     ClientHangUp, StopFlag, StopLock, StopDone, EventLoopStop, Notify, NotifyWrite, HandlerStep,
     HandlerInstalled, HandlerLeave, HandlerReturn
<1>6. ASSUME NEW m \in Msgs,
             \/ HandleCall(m) \/ HandleSubscribe(m) \/ HandleUnsubscribe(m)
             \/ HandleUnsupported(m) \/ Activate(m)
      PROVE  TasksFinishFirst'
  BY <1>0, <1>6 DEF TasksFinishFirst, connVars, HandleCall, HandleSubscribe, HandleUnsubscribe,
     HandleUnsupported, Activate
<1>7. ASSUME NEW m \in Msgs, WriteResponse(m) \/ TaskDone(m) PROVE TasksFinishFirst'
  BY <1>0, <1>7 DEF TypeOK, TasksFinishFirst, connVars, WriteResponse, TaskDone
<1> QED BY <1>1, <1>2, <1>3, <1>4, <1>5, <1>6, <1>7, NextCases DEF ServeQuiet

\* SingleInv: over HTTP a connection has one task, the message its handler
\* executes.
THEOREM RpcSingleInv == Spec => []SingleInv
BY SingleInit, SingleNext, RpcBase, PTL DEF Spec

\* While nobody calls Stop, serveRequest gives a connection up only after all
\* its tasks have finished: pend.Wait over a websocket, and over HTTP because
\* the only task is the one the handler has executed.
THEOREM RpcTasksFinishFirst == Spec => []TasksFinishFirst
<1>1. Init => TasksFinishFirst
  BY DEF Init, TasksFinishFirst
<1> QED BY <1>1, FinishNext, RpcBase, RpcStopInv, RpcSingleInv, PTL DEF Spec

-----------------------------------------------------------------------------
(* Answers                                                                 *)

\* What an append to the wire of c leaves and adds.
LEMMA AppendOut ==
    ASSUME TypeOK, NEW c \in Conns, NEW item \in Items,
           out' = [out EXCEPT ![c] = Append(@, item)]
    PROVE  /\ \A d \in Conns : Len(out[d]) \in Nat
           /\ \A d \in Conns : d # c => out'[d] = out[d]
           /\ Len(out'[c]) = Len(out[c]) + 1
           /\ \A k \in 1..Len(out[c]) : out'[c][k] = out[c][k]
           /\ out'[c][Len(out[c]) + 1] = item
<1>1. out[c] \in Seq(Items) /\ out'[c] = Append(out[c], item)
  BY DEF TypeOK
<1>2. \A d \in Conns : Len(out[d]) \in Nat
  BY LenProperties DEF TypeOK
<1>3. /\ Len(out'[c]) = Len(out[c]) + 1
      /\ \A k \in 1..Len(out[c]) : out'[c][k] = out[c][k]
      /\ out'[c][Len(out[c]) + 1] = item
  BY <1>1, AppendProperties
<1>4. \A d \in Conns : d # c => out'[d] = out[d]
  BY DEF TypeOK
<1> QED BY <1>2, <1>3, <1>4

\* An item of a wire after an append is an old one or the one appended.
LEMMA AppendCases ==
    ASSUME TypeOK, NEW c \in Conns, NEW item \in Items,
           out' = [out EXCEPT ![c] = Append(@, item)],
           NEW d \in Conns, NEW k \in 1..Len(out'[d])
    PROVE  \/ k \in 1..Len(out[d]) /\ out'[d][k] = out[d][k]
           \/ d = c /\ k = Len(out[c]) + 1 /\ out'[d][k] = item
<1>1. /\ Len(out[d]) \in Nat
      /\ d # c => out'[d] = out[d]
      /\ Len(out'[c]) = Len(out[c]) + 1
      /\ \A j \in 1..Len(out[c]) : out'[c][j] = out[c][j]
      /\ out'[c][Len(out[c]) + 1] = item
  BY AppendOut
<1>2. CASE d = c
  <2>1. Len(out[c]) \in Nat /\ (k \in 1..Len(out[c]) \/ k = Len(out[c]) + 1)
    BY <1>1, <1>2
  <2> QED BY <1>1, <1>2, <2>1
<1> QED BY <1>1, <1>2

\* The k-th item of the wire w of c is the first answer of a message among
\* the first rd of the script, with one answer per request.
FirstOf(w, rd, c, k) ==
    /\ \E n \in 1..rd : Script[c][n] = w[k].msg
    /\ Len(w[k].ans) = Len(Requests[w[k].msg])
    /\ \A j \in 1..(k - 1) : w[j].kind = "response" => w[j].msg # w[k].msg

LEMMA AnsweredOnceDef ==
    AnsweredOnce <=> \A c \in Conns : \A k \in 1..Len(out[c]) :
                        out[c][k].kind = "response" => FirstOf(out[c], read[c], c, k)
BY Zenon DEF AnsweredOnce, FirstOf

\* It stays so when the wire and the messages read grow.
LEMMA FirstOfGrows ==
    ASSUME NEW w, NEW v, NEW r \in Nat, NEW s \in Nat, r <= s, NEW c, NEW k \in Nat,
           v[k] = w[k], \A j \in 1..(k - 1) : v[j] = w[j], FirstOf(w, r, c, k)
    PROVE  FirstOf(v, s, c, k)
BY DEF FirstOf

\* An item that is no answer changes nothing for the answers.
LEMMA OtherItem ==
    ASSUME TypeOK, AnsweredOnce, NEW c \in Conns, NEW item \in Items, item.kind # "response",
           out' = out \/ out' = [out EXCEPT ![c] = Append(@, item)],
           \A d \in Conns : read'[d] \in Nat /\ read[d] <= read'[d]
    PROVE  AnsweredOnce' /\ \A m \in Msgs : Responded(m)' => Responded(m)
<1>1. \A d \in Conns : Len(out[d]) \in Nat /\ read[d] \in Nat
  BY LenProperties DEF TypeOK
<1>2. ASSUME NEW d \in Conns, NEW k \in 1..Len(out'[d]), out'[d][k].kind = "response"
      PROVE  k \in 1..Len(out[d]) /\ out'[d][k] = out[d][k]
  BY <1>2, AppendCases
<1>3. \A m \in Msgs : Responded(m)' => Responded(m)
  BY <1>2 DEF Responded
<1>4. ASSUME NEW d \in Conns, NEW k \in 1..Len(out[d])
      PROVE  out'[d][k] = out[d][k]
  BY AppendOut
<1>5. ASSUME NEW d \in Conns, NEW k \in 1..Len(out'[d]), out'[d][k].kind = "response"
      PROVE  FirstOf(out'[d], read'[d], d, k)
  <2>1. k \in 1..Len(out[d]) /\ out'[d][k] = out[d][k]
    BY <1>2, <1>5
  <2>2. FirstOf(out[d], read[d], d, k)
    BY <1>5, <2>1, AnsweredOnceDef
  <2>3. \A j \in 1..(k - 1) : out'[d][j] = out[d][j]
    BY <1>1, <1>4, <2>1
  <2>4. k \in Nat /\ read[d] \in Nat
    BY <1>1
  <2> QED BY <2>1, <2>2, <2>3, <2>4, FirstOfGrows
<1>6. AnsweredOnce'
  <2>1. AnsweredOnce' <=> \A d \in Conns : \A k \in 1..Len(out'[d]) :
                           out'[d][k].kind = "response" => FirstOf(out'[d], read'[d], d, k)
    BY Zenon DEF AnsweredOnce, FirstOf
  <2> QED BY <1>5, <2>1
<1> QED BY <1>3, <1>6

\* The first answer of a message that was read.
LEMMA FirstAnswer ==
    ASSUME TypeOK, AnsweredOnce, NEW m \in Msgs, NEW ans \in Seq({"result", "error"}),
           NEW c \in Conns, c = ConnOf[m], WasRead(m), ~Responded(m),
           Len(ans) = Len(Requests[m]),
           out' = out \/ out' = [out EXCEPT ![c] = Append(@, Response(m, ans))],
           read' = read
    PROVE  AnsweredOnce' /\ \A n \in Msgs : n # m /\ Responded(n)' => Responded(n)
<1> DEFINE item == Response(m, ans)
<1>1. item \in Items /\ item.kind = "response" /\ item.msg = m /\ item.ans = ans
  BY ItemTypes DEF Response
<1>2. \A d \in Conns : Len(out[d]) \in Nat /\ read[d] \in Nat
  BY LenProperties DEF TypeOK
<1>3. ASSUME NEW d \in Conns, NEW k \in 1..Len(out'[d])
      PROVE  \/ k \in 1..Len(out[d]) /\ out'[d][k] = out[d][k]
             \/ d = c /\ k = Len(out[c]) + 1 /\ out'[d][k] = item
  <2> HIDE DEF item
  <2>1. CASE out' = out
    BY <2>1
  <2>2. CASE out' = [out EXCEPT ![c] = Append(@, item)]
    BY <1>1, <2>2, AppendCases
  <2> QED BY <2>1, <2>2 DEF item
<1>4. \A n \in Msgs : n # m /\ Responded(n)' => Responded(n)
  <2> HIDE DEF item
  <2> QED BY <1>1, <1>3 DEF Responded
<1>5. ASSUME NEW d \in Conns, NEW k \in 1..Len(out[d])
      PROVE  out'[d][k] = out[d][k]
  <2> HIDE DEF item
  <2>1. CASE out' = out
    BY <2>1
  <2>2. CASE out' = [out EXCEPT ![c] = Append(@, item)]
    BY <1>1, <2>2, AppendOut
  <2> QED BY <2>1, <2>2 DEF item
<1>6. ASSUME NEW d \in Conns, NEW k \in 1..Len(out'[d]), out'[d][k].kind = "response"
      PROVE  FirstOf(out'[d], read'[d], d, k)
  <2> HIDE DEF item
  <2>1. CASE k \in 1..Len(out[d]) /\ out'[d][k] = out[d][k]
    <3>1. FirstOf(out[d], read[d], d, k)
      BY <1>6, <2>1, AnsweredOnceDef
    <3>2. \A j \in 1..(k - 1) : out'[d][j] = out[d][j]
      BY <1>2, <1>5, <2>1
    <3>3. k \in Nat /\ read[d] \in Nat /\ read'[d] \in Nat /\ read[d] <= read'[d]
      BY <1>2
    <3> QED BY <2>1, <3>1, <3>2, <3>3, FirstOfGrows
  <2>2. CASE d = c /\ k = Len(out[c]) + 1 /\ out'[d][k] = item
    <3>1. \A j \in 1..(k - 1) : j \in 1..Len(out[c]) /\ out'[c][j] = out[c][j]
      BY <1>2, <1>5, <2>2
    <3>2. \A j \in 1..(k - 1) : out'[c][j].kind = "response" => out'[c][j].msg # m
      BY <3>1 DEF Responded
    <3>3. \E n \in 1..read[c] : Script[c][n] = m
      BY DEF WasRead
    <3> QED BY <1>1, <2>2, <3>2, <3>3 DEF FirstOf
  <2> QED BY <1>3, <2>1, <2>2
<1>7. AnsweredOnce'
  <2>1. AnsweredOnce' <=> \A d \in Conns : \A k \in 1..Len(out'[d]) :
                           out'[d][k].kind = "response" => FirstOf(out'[d], read'[d], d, k)
    BY Zenon DEF AnsweredOnce, FirstOf
  <2> QED BY <1>6, <2>1
<1> QED BY <1>4, <1>7

\* A message the codec has not read yet has neither task nor answer.
LEMMA NewMessage ==
    ASSUME BaseInv, TaskInv, AnsweredOnce, NEW c \in Conns, read[c] < sent[c]
    PROVE  LET m == Script[c][read[c] + 1] IN
           m \in Msgs /\ taskPc[m] = "none" /\ ~Responded(m)
<1> DEFINE m == Script[c][read[c] + 1]
<1>1. /\ read[c] \in Nat /\ read[c] + 1 \in 1..Len(Script[c])
      /\ Len(Script[c]) \in Nat
  BY ScriptFacts DEF BaseInv, TypeOK, ReadInv
<1>2. m \in Msgs /\ ConnOf[m] = c
  BY <1>1, ScriptFacts
<1>3. \A n \in 1..read[c] : Script[c][n] # m
  <2> TAKE n \in 1..read[c]
  <2>1. n \in 1..Len(Script[c]) /\ n # read[c] + 1
    BY <1>1
  <2> QED BY <1>1, <2>1, ScriptFacts
<1>4. taskPc[m] = "none"
  BY <1>2, <1>3 DEF TaskInv, WasRead
<1>5. ASSUME Responded(m) PROVE FALSE
  <2>0. PICK d \in Conns :
          \E k \in 1..Len(out[d]) : out[d][k].kind = "response" /\ out[d][k].msg = m
    BY <1>5 DEF Responded
  <2>1. PICK k \in 1..Len(out[d]) : out[d][k].kind = "response" /\ out[d][k].msg = m
    BY <2>0
  <2>2. PICK n \in 1..read[d] : Script[d][n] = m
    BY <2>1, AnsweredOnceDef DEF FirstOf
  <2>3. n \in 1..Len(Script[d])
    BY ScriptFacts DEF BaseInv, TypeOK, ReadInv
  <2>4. d = c
    BY <1>2, <2>2, <2>3, ScriptFacts
  <2> QED BY <1>3, <2>2, <2>4
<1> QED BY <1>2, <1>4, <1>5

AnswerInv == TaskInv /\ GotInv /\ AnsweredOnce

LEMMA AnswerInit == Init => AnswerInv
BY DEF Init, AnswerInv, TaskInv, GotInv, AnsweredOnce, WasRead, Responded

\* Steps that touch neither tasks nor the wire.
LEMMA AnswerQuiet ==
    ASSUME BaseInv, AnswerInv,
           \/ \E c \in Conns :
                 \/ Register(c) \/ LoopTest(c) \/ ReadMessage(c) \/ ReadEOF(c) \/ PendWait(c)
                 \/ ExecDone(c) \/ Deregister(c) \/ ServeReturn(c) \/ StopClose(c)
                 \/ ClientSend(c) \/ ClientHangUp(c)
           \/ StopFlag \/ StopLock \/ StopDone \/ EventLoopStop
           \/ \E x \in Subs : Notify(x) \/ HandlerStep(x)
    PROVE  AnswerInv'
<1>1. UNCHANGED <<taskVars, out>>
  BY DEF Register, LoopTest, ReadMessage, ReadEOF, PendWait, ExecDone, Deregister, ServeReturn,
     StopClose, ClientSend, ClientHangUp, StopFlag, StopLock, StopDone, EventLoopStop, Notify,
     HandlerStep, HandlerInstalled, HandlerLeave, HandlerReturn,
     connVars
<1>2. \A m \in Msgs : Responded(m)' <=> Responded(m)
  BY <1>1 DEF Responded
<1>3. ASSUME NEW c \in Conns, ReadMessage(c) PROVE AnswerInv'
  <2> DEFINE m == Script[c][read[c] + 1]
  <2>1. m \in Msgs /\ taskPc[m] = "none" /\ ~Responded(m)
    BY <1>3, NewMessage DEF AnswerInv, ReadMessage
  <2>2. \A d \in Conns : read[d] \in Nat /\ read'[d] \in Nat /\ read'[d] >= read[d]
    BY <1>3 DEF ReadMessage, BaseInv, TypeOK
  <2>3. AnsweredOnce'
    BY <1>1, <2>2 DEF AnswerInv, AnsweredOnce
  <2>4. \A n \in Msgs : WasRead(n) => WasRead(n)'
    BY <2>2, ScriptAssumption DEF WasRead
  <2>5. TaskInv'
    BY <1>1, <1>2, <2>4 DEF AnswerInv, TaskInv, taskVars
  <2>6. read'[c] = read[c] + 1 /\ \A d \in Conns : d # c => servePc'[d] = servePc[d] /\ read'[d] = read[d]
    BY <1>3 DEF ReadMessage, BaseInv, TypeOK
  <2>7. ASSUME NEW d \in Conns, NEW g \in Msgs, servePc'[d] = "got", g = Script[d][read'[d]]
        PROVE  taskPc'[g] = "none" /\ ~Responded(g)'
    <3>1. CASE d = c
      BY <1>1, <1>2, <2>1, <2>6, <2>7, <3>1 DEF taskVars
    <3>2. CASE d # c
      <4>1. servePc[d] = "got" /\ read'[d] = read[d]
        BY <2>6, <2>7, <3>2
      <4> QED BY <1>1, <1>2, <2>7, <4>1 DEF taskVars, AnswerInv, GotInv
    <3> QED BY <3>1, <3>2
  <2> QED BY <2>3, <2>5, <2>7 DEF AnswerInv, GotInv
<1>4. ASSUME read' = read, \A c \in Conns : servePc'[c] = "got" => servePc[c] = "got"
      PROVE  AnswerInv'
  <2>1. TaskInv'
    BY <1>1, <1>2, <1>4 DEF AnswerInv, TaskInv, WasRead, taskVars
  <2>2. AnsweredOnce'
    BY <1>1, <1>4 DEF AnswerInv, AnsweredOnce
  <2>3. GotInv'
    BY <1>1, <1>2, <1>4 DEF AnswerInv, GotInv, taskVars
  <2> QED BY <2>1, <2>2, <2>3 DEF AnswerInv
<1>5. ASSUME NEW c \in Conns,
                 \/ Register(c) \/ LoopTest(c) \/ ReadEOF(c) \/ PendWait(c)
                 \/ ExecDone(c) \/ Deregister(c) \/ ServeReturn(c) \/ StopClose(c)
                 \/ ClientSend(c) \/ ClientHangUp(c)
      PROVE  AnswerInv'
  <2>1. read' = read /\ \A d \in Conns : servePc'[d] = "got" => servePc[d] = "got"
    BY <1>5 DEF BaseInv, TypeOK, Register, LoopTest, ReadEOF, PendWait, ExecDone, Deregister,
       ServeReturn, StopClose, ClientSend, ClientHangUp
  <2> QED BY <1>4, <2>1
<1>6. CASE StopFlag \/ StopLock \/ StopDone \/ EventLoopStop \/ \E x \in Subs : Notify(x) \/ HandlerStep(x)
  <2>1. read' = read /\ servePc' = servePc
    BY <1>6 DEF StopFlag, StopLock, StopDone, EventLoopStop, Notify, HandlerStep, HandlerInstalled,
       HandlerLeave, HandlerReturn, connVars
  <2> QED BY <1>4, <2>1
<1> QED BY <1>3, <1>5, <1>6

\* Steps that write to the wire.
LEMMA AnswerWrites ==
    ASSUME BaseInv, AnswerInv,
           \/ \E c \in Conns : ReadFailed(c) \/ Refuse(c)
           \/ \E m \in Msgs : WriteResponse(m)
           \/ \E x \in Subs : NotifyWrite(x)
    PROVE  AnswerInv'
<1>0. TypeOK /\ TaskInv /\ GotInv /\ AnsweredOnce
  BY DEF BaseInv, AnswerInv
<1>1. ASSUME NEW c \in Conns, NEW item \in Items, item.kind # "response",
             out' = out \/ out' = [out EXCEPT ![c] = Append(@, item)],
             read' = read, UNCHANGED taskVars,
             \A d \in Conns : servePc'[d] = "got" => servePc[d] = "got"
      PROVE  AnswerInv'
  <2>1. AnsweredOnce' /\ \A m \in Msgs : Responded(m)' => Responded(m)
    <3>1. \A d \in Conns : read'[d] \in Nat /\ read[d] <= read'[d]
      BY <1>0, <1>1 DEF TypeOK
    <3> QED BY <1>0, <1>1, <3>1, OtherItem
  <2>2. TaskInv'
    BY <1>0, <1>1, <2>1 DEF TaskInv, WasRead, taskVars
  <2>3. GotInv'
    BY <1>0, <1>1, <2>1 DEF GotInv, taskVars
  <2> QED BY <2>1, <2>2, <2>3 DEF AnswerInv
<1>2. ASSUME NEW c \in Conns, ReadFailed(c) PROVE AnswerInv'
  <2>1. ReadError \in Items /\ ReadError.kind # "response"
    BY ItemTypes DEF ReadError
  <2>2. PICK ok \in BOOLEAN : Write(c, ReadError, TRUE, ok)
    BY <1>2 DEF ReadFailed
  <2>3. out' = out \/ out' = [out EXCEPT ![c] = Append(@, ReadError)]
    BY <1>0, <2>1, <2>2, WriteEffect
  <2>4. read' = read /\ UNCHANGED taskVars /\ \A d \in Conns : servePc'[d] = "got" => servePc[d] = "got"
    BY <1>0, <1>2 DEF ReadFailed, TypeOK
  <2> QED BY <1>1, <2>1, <2>3, <2>4
<1>3. ASSUME NEW x \in Subs, NotifyWrite(x) PROVE AnswerInv'
  <2>1. Notification(x) \in Items /\ Notification(x).kind # "response" /\ SubConn[x] \in Conns
    BY ItemTypes, ScriptAssumption DEF Notification
  <2>2. PICK ok \in BOOLEAN : Write(SubConn[x], Notification(x), TRUE, ok)
    BY <1>3 DEF NotifyWrite
  <2>3. out' = out \/ out' = [out EXCEPT ![SubConn[x]] = Append(@, Notification(x))]
    BY <1>0, <2>1, <2>2, WriteEffect
  <2>4. read' = read /\ UNCHANGED taskVars /\ servePc' = servePc
    BY <1>3 DEF NotifyWrite
  <2> QED BY <1>1, <2>1, <2>3, <2>4
<1>4. ASSUME NEW c \in Conns, Refuse(c) PROVE AnswerInv'
  <2> DEFINE m == Script[c][read[c]]
             ans == [n \in 1..Len(Requests[m]) |-> "error"]
  <2>1. m \in Msgs /\ ConnOf[m] = c /\ read[c] \in 1..Len(Script[c]) /\ servePc[c] = "got"
    BY <1>4, GotMessage DEF Refuse
  <2>2. ans \in Seq({"result", "error"}) /\ Len(ans) = Len(Requests[m])
    BY <2>1, RequestFacts
  <2>3. WasRead(m) /\ ~Responded(m) /\ taskPc[m] = "none"
    <3>1. read[c] \in 1..read[c]
      BY <1>0, <2>1 DEF TypeOK
    <3> QED BY <1>0, <2>1, <3>1 DEF GotInv, WasRead
  <2>4. PICK ok \in BOOLEAN : Write(c, Response(m, ans), TRUE, ok)
    BY <1>4 DEF Refuse
  <2>5. out' = out \/ out' = [out EXCEPT ![c] = Append(@, Response(m, ans))]
    BY <1>0, <2>1, <2>2, <2>4, ItemTypes, WriteEffect
  <2>6. /\ read' = read /\ UNCHANGED taskVars
        /\ \A d \in Conns : servePc'[d] = "got" => d # c /\ servePc[d] = "got"
    BY <1>0, <1>4 DEF Refuse, TypeOK
  <2>7. AnsweredOnce' /\ \A n \in Msgs : n # m /\ Responded(n)' => Responded(n)
    <3> HIDE DEF m, ans
    <3> QED BY <1>0, <2>1, <2>2, <2>3, <2>5, <2>6, FirstAnswer
  <2>8. TaskInv'
    BY <1>0, <2>3, <2>6, <2>7 DEF TaskInv, WasRead, taskVars
  <2>9. GotInv'
    <3> SUFFICES ASSUME NEW d \in Conns, NEW g \in Msgs, servePc'[d] = "got", g = Script[d][read'[d]]
                 PROVE  taskPc'[g] = "none" /\ ~Responded(g)'
      BY DEF GotInv
    <3>1. d # c /\ servePc[d] = "got" /\ read'[d] = read[d]
      BY <2>6
    <3>2. g # m
      BY <2>1, <3>1, GotMessage
    <3> QED BY <1>0, <2>1, <2>6, <2>7, <3>1, <3>2 DEF GotInv, taskVars
  <2> QED BY <2>7, <2>8, <2>9 DEF AnswerInv
<1>5. ASSUME NEW m \in Msgs, WriteResponse(m) PROVE AnswerInv'
  <2>1. /\ ConnOf[m] \in Conns /\ resp[m] \in Seq({"result", "error"}) /\ taskPc[m] = "handle"
        /\ Len(resp[m]) = Len(Requests[m])
    BY <1>0, <1>5, RequestFacts DEF WriteResponse, TypeOK
  <2>2. WasRead(m) /\ ~Responded(m)
    BY <1>0, <2>1 DEF TaskInv
  <2>3. PICK ok \in BOOLEAN : Write(ConnOf[m], Response(m, resp[m]), m \notin Unencodable, ok)
    BY <1>5 DEF WriteResponse
  <2>4. out' = out \/ out' = [out EXCEPT ![ConnOf[m]] = Append(@, Response(m, resp[m]))]
    <3> DEFINE c == ConnOf[m]
               item == Response(m, resp[m])
               e == m \notin Unencodable
    <3>1. item \in Items /\ e \in BOOLEAN /\ c \in Conns /\ Write(c, item, e, ok)
      BY <2>1, <2>3, ItemTypes
    <3> HIDE DEF c, item, e
    <3>2. out' = out \/ out' = [out EXCEPT ![c] = Append(@, item)]
      BY <1>0, <3>1, WriteEffect
    <3> QED BY <3>2 DEF c, item
  <2>5. read' = read /\ servePc' = servePc /\ resp' = resp /\ callbacks' = callbacks
        /\ taskPc' = [taskPc EXCEPT ![m] = "callbacks"]
    BY <1>5 DEF WriteResponse
  <2>6. AnsweredOnce' /\ \A n \in Msgs : n # m /\ Responded(n)' => Responded(n)
    BY <1>0, <2>1, <2>2, <2>4, <2>5, FirstAnswer
  <2>7. TaskInv'
    BY <1>0, <2>1, <2>2, <2>5, <2>6 DEF TaskInv, WasRead, TypeOK
  <2>8. GotInv'
    <3> SUFFICES ASSUME NEW d \in Conns, NEW g \in Msgs, servePc[d] = "got", g = Script[d][read'[d]]
                 PROVE  taskPc'[g] = "none" /\ ~Responded(g)'
      BY <2>5 DEF GotInv
    <3>1. taskPc[g] = "none" /\ ~Responded(g)
      BY <1>0, <2>5 DEF GotInv
    <3> QED BY <1>0, <2>1, <2>5, <2>6, <3>1 DEF TypeOK
  <2> QED BY <2>6, <2>7, <2>8 DEF AnswerInv
<1> QED BY <1>2, <1>3, <1>4, <1>5

\* Steps of the tasks before and after the write.
LEMMA AnswerTasks ==
    ASSUME BaseInv, AnswerInv,
           \/ \E c \in Conns : Dispatch(c)
           \/ \E m \in Msgs : \/ HandleCall(m) \/ HandleSubscribe(m) \/ HandleUnsubscribe(m)
                              \/ HandleUnsupported(m) \/ Activate(m) \/ TaskDone(m)
    PROVE  AnswerInv'
<1>0. TypeOK /\ TaskInv /\ GotInv /\ AnsweredOnce
  BY DEF BaseInv, AnswerInv
<1>1. read' = read /\ out' = out
  BY DEF Dispatch, HandleCall, HandleSubscribe, HandleUnsubscribe, HandleUnsupported, Activate,
     TaskDone, connVars
<1>2. AnsweredOnce' /\ \A m \in Msgs : (Responded(m)' <=> Responded(m)) /\ (WasRead(m)' <=> WasRead(m))
  BY <1>0, <1>1 DEF AnsweredOnce, Responded, WasRead
<1>3. ASSUME NEW c \in Conns, Dispatch(c) PROVE AnswerInv'
  <2> DEFINE m == Script[c][read[c]]
  <2>1. m \in Msgs /\ ConnOf[m] = c /\ read[c] \in 1..Len(Script[c]) /\ servePc[c] = "got"
    BY <1>3, GotMessage DEF Dispatch
  <2>2. WasRead(m) /\ ~Responded(m) /\ taskPc[m] = "none"
    <3>1. read[c] \in 1..read[c]
      BY <1>0, <2>1 DEF TypeOK
    <3> QED BY <1>0, <2>1, <3>1 DEF GotInv, WasRead
  <2>3. /\ taskPc' = [taskPc EXCEPT ![m] = "handle"] /\ resp' = resp /\ callbacks' = callbacks
        /\ \A d \in Conns : servePc'[d] = "got" => d # c /\ servePc[d] = "got"
    BY <1>0, <1>3 DEF Dispatch, TypeOK
  <2>4. TaskInv'
    <3> HIDE DEF m
    <3> QED BY <1>0, <1>2, <2>1, <2>2, <2>3 DEF TaskInv, TypeOK
  <2>5. GotInv'
    <3> SUFFICES ASSUME NEW d \in Conns, NEW g \in Msgs, servePc'[d] = "got", g = Script[d][read'[d]]
                 PROVE  taskPc'[g] = "none" /\ ~Responded(g)'
      BY DEF GotInv
    <3>1. d # c /\ servePc[d] = "got"
      BY <2>3
    <3>2. g # m
      BY <1>1, <2>1, <3>1, GotMessage
    <3> QED BY <1>0, <1>1, <1>2, <2>1, <2>3, <3>1, <3>2 DEF GotInv, TypeOK
  <2> QED BY <1>2, <2>4, <2>5 DEF AnswerInv
<1>4. ASSUME NEW m \in Msgs, taskPc[m] # "none", servePc' = servePc,
             \/ taskPc' = taskPc \/ taskPc' = [taskPc EXCEPT ![m] = "done"],
             \A n \in Msgs : n # m => resp'[n] = resp[n] /\ callbacks'[n] = callbacks[n]
      PROVE  AnswerInv'
  <2>1. TaskInv'
    BY <1>0, <1>2, <1>4 DEF TaskInv, TypeOK
  <2>2. GotInv'
    <3> SUFFICES ASSUME NEW d \in Conns, NEW g \in Msgs, servePc[d] = "got", g = Script[d][read'[d]]
                 PROVE  taskPc'[g] = "none" /\ ~Responded(g)'
      BY <1>4 DEF GotInv
    <3>1. taskPc[g] = "none" /\ ~Responded(g)
      BY <1>0, <1>1 DEF GotInv
    <3> QED BY <1>0, <1>1, <1>2, <1>4, <3>1 DEF TypeOK
  <2> QED BY <1>2, <2>1, <2>2 DEF AnswerInv
<1>5. ASSUME NEW m \in Msgs, HandleCall(m) \/ HandleUnsubscribe(m) \/ HandleUnsupported(m)
      PROVE  AnswerInv'
  <2>1. /\ taskPc[m] = "handle" /\ taskPc' = taskPc /\ servePc' = servePc /\ callbacks' = callbacks
        /\ \E a : Answer(m, a)
    BY <1>5 DEF HandleCall, HandleUnsubscribe, HandleUnsupported, Handling, connVars
  <2>2. \A n \in Msgs : n # m => resp'[n] = resp[n]
    BY <1>0, <2>1 DEF Answer, TypeOK
  <2> QED BY <1>4, <2>1, <2>2
<1>6. ASSUME NEW m \in Msgs, HandleSubscribe(m) PROVE AnswerInv'
  <2>1. taskPc[m] = "handle" /\ taskPc' = taskPc /\ servePc' = servePc
    BY <1>6 DEF HandleSubscribe, Handling, connVars
  <2>2. \A n \in Msgs : n # m => resp'[n] = resp[n] /\ callbacks'[n] = callbacks[n]
    BY <1>0, <1>6 DEF HandleSubscribe, Answer, TypeOK
  <2> QED BY <1>4, <2>1, <2>2
<1>7. ASSUME NEW m \in Msgs, Activate(m) \/ TaskDone(m) PROVE AnswerInv'
  <2>1. /\ taskPc[m] = "callbacks" /\ servePc' = servePc /\ resp' = resp
        /\ \/ taskPc' = taskPc \/ taskPc' = [taskPc EXCEPT ![m] = "done"]
    BY <1>7 DEF Activate, TaskDone, connVars
  <2>2. \A n \in Msgs : n # m => callbacks'[n] = callbacks[n]
    BY <1>0, <1>7 DEF Activate, TaskDone, TypeOK
  <2> QED BY <1>4, <2>1, <2>2
<1> QED BY <1>3, <1>5, <1>6, <1>7

LEMMA AnswerNext == BaseInv /\ AnswerInv /\ [Next]_vars => AnswerInv'
<1> SUFFICES ASSUME BaseInv, AnswerInv, [Next]_vars PROVE AnswerInv'
  OBVIOUS
<1>1. CASE UNCHANGED vars
  BY <1>1 DEF vars, connVars, taskVars, AnswerInv, TaskInv, GotInv, AnsweredOnce, WasRead, Responded
<1> QED BY <1>1, NextCases, AnswerQuiet, AnswerWrites, AnswerTasks

\* AnswerInv: a task exists only for a message that was read, and neither it
\* nor the message the handler has in hand has an answer on the wire.
THEOREM RpcAnswerInv == Spec => []AnswerInv
BY AnswerInit, AnswerNext, RpcBase, PTL DEF Spec

\* Every message is answered at most once, after it was read, with one answer
\* per request: the refusal of Stop and the answer of a task exclude each
\* other, whatever the tasks of the connection do meanwhile.
THEOREM RpcAnsweredOnce == Spec => []AnsweredOnce
<1>1. AnswerInv => AnsweredOnce
  BY DEF AnswerInv
<1> QED BY <1>1, RpcAnswerInv, PTL

-----------------------------------------------------------------------------
(* Unsubscribe                                                             *)

\* What a Write does to the wires, succeeding or not.
LEMMA WireStep ==
    ASSUME TypeOK, NEW c \in Conns, NEW item \in Items,
           out' = out \/ out' = [out EXCEPT ![c] = Append(@, item)]
    PROVE  /\ \A d \in Conns : Len(out[d]) \in Nat /\ Len(out'[d]) \in Nat
           /\ \A d \in Conns : \A k \in 1..Len(out[d]) :
                k \in 1..Len(out'[d]) /\ out'[d][k] = out[d][k]
           /\ \A d \in Conns : \A k \in 1..Len(out'[d]) :
                \/ k \in 1..Len(out[d]) /\ out'[d][k] = out[d][k]
                \/ d = c /\ k = Len(out[c]) + 1 /\ k = Len(out'[c]) /\ out'[d][k] = item
<1>0. \A d \in Conns : Len(out[d]) \in Nat
  BY LenProperties DEF TypeOK
<1>1. CASE out' = out
  BY <1>0, <1>1
<1>2. CASE out' = [out EXCEPT ![c] = Append(@, item)]
  <2>1. /\ \A d \in Conns : d # c => out'[d] = out[d]
        /\ Len(out'[c]) = Len(out[c]) + 1
        /\ \A k \in 1..Len(out[c]) : out'[c][k] = out[c][k]
    BY <1>2, AppendOut
  <2>2. \A d \in Conns : Len(out'[d]) \in Nat /\ Len(out[d]) <= Len(out'[d])
    BY <1>0, <2>1
  <2>3. \A d \in Conns : \A k \in 1..Len(out[d]) :
          k \in 1..Len(out'[d]) /\ out'[d][k] = out[d][k]
    BY <1>0, <2>1, <2>2
  <2> QED BY <1>0, <1>2, <2>1, <2>2, <2>3, AppendCases
<1> QED BY <1>1, <1>2

\* The kinds of item differ.
LEMMA ItemKinds ==
    /\ \A m, ans : /\ Response(m, ans).kind = "response" /\ Response(m, ans).msg = m
                   /\ Response(m, ans).ans = ans
    /\ ReadError.kind = "readError"
    /\ \A x : Notification(x).kind = "notification" /\ Notification(x).sub = x
BY DEF Response, ReadError, Notification

\* The steps that write, with what they write.
LEMMA Writes ==
    ASSUME BaseInv,
           \/ \E c \in Conns : ReadFailed(c) \/ Refuse(c)
           \/ \E m \in Msgs : WriteResponse(m)
           \/ \E x \in Subs : NotifyWrite(x)
    PROVE  \E c \in Conns, item \in Items :
             /\ out' = out \/ out' = [out EXCEPT ![c] = Append(@, item)]
             /\ UNCHANGED <<resp, callbacks, active, inactive, errClosed>>
             /\ \A d \in Conns : broken[d] => broken'[d]
             /\ \/ item.kind = "readError"
                \/ /\ item.kind = "response"
                   /\ \A n \in 1..Len(item.ans) : item.ans[n] = "error"
                \/ \E m \in Msgs : /\ WriteResponse(m) /\ c = ConnOf[m]
                                   /\ item = Response(m, resp[m])
                \/ \E x \in Subs : /\ NotifyWrite(x) /\ c = SubConn[x]
                                   /\ item = Notification(x)
             /\ (out' # out => ~broken[c])
<1>0. TypeOK
  BY DEF BaseInv
<1>1. ASSUME NEW c \in Conns, ReadFailed(c)
      PROVE  /\ out' = out \/ out' = [out EXCEPT ![c] = Append(@, ReadError)]
             /\ UNCHANGED <<resp, callbacks, active, inactive, errClosed>>
             /\ \A d \in Conns : broken[d] => broken'[d]
             /\ out' # out => ~broken[c]
             /\ ReadError \in Items /\ ReadError.kind = "readError"
  <2>1. PICK ok \in BOOLEAN : Write(c, ReadError, TRUE, ok)
    BY <1>1 DEF ReadFailed
  <2>2. UNCHANGED <<resp, callbacks, active, inactive, errClosed>>
    BY <1>1 DEF ReadFailed, taskVars, subVars
  <2>3. ReadError \in Items /\ ReadError.kind = "readError"
    BY ItemTypes, ItemKinds
  <2>4. /\ out' = out \/ out' = [out EXCEPT ![c] = Append(@, ReadError)]
        /\ \A d \in Conns : broken[d] => broken'[d]
        /\ out' # out => ~broken[c]
    BY <1>0, <2>1, <2>3, WriteEffect, ZenonT(30)
  <2> QED BY <2>2, <2>3, <2>4
<1>2. ASSUME NEW c \in Conns, Refuse(c)
      PROVE  \E item \in Items :
             /\ out' = out \/ out' = [out EXCEPT ![c] = Append(@, item)]
             /\ UNCHANGED <<resp, callbacks, active, inactive, errClosed>>
             /\ \A d \in Conns : broken[d] => broken'[d]
             /\ out' # out => ~broken[c]
             /\ item.kind = "response"
             /\ \A n \in 1..Len(item.ans) : item.ans[n] = "error"
  <2> DEFINE m == Script[c][read[c]]
             ans == [n \in 1..Len(Requests[m]) |-> "error"]
             item == Response(m, ans)
  <2>1. m \in Msgs
    BY <1>2, GotMessage DEF Refuse
  <2>2. /\ ans \in Seq({"result", "error"})
        /\ \A n \in 1..Len(ans) : ans[n] = "error"
    BY <2>1, RequestFacts
  <2>3. item \in Items /\ item.kind = "response" /\ item.ans = ans
    BY <2>1, <2>2, ItemTypes, ItemKinds
  <2>4. PICK ok \in BOOLEAN : Write(c, item, TRUE, ok)
    BY <1>2 DEF Refuse
  <2>5. UNCHANGED <<resp, callbacks, active, inactive, errClosed>>
    BY <1>2 DEF Refuse, taskVars, subVars
  <2> HIDE DEF m, ans, item
  <2> QED BY <1>0, <2>2, <2>3, <2>4, <2>5, WriteEffect, ZenonT(30)
<1>3. ASSUME NEW m \in Msgs, WriteResponse(m)
      PROVE  /\ \/ out' = out
                \/ out' = [out EXCEPT ![ConnOf[m]] = Append(@, Response(m, resp[m]))]
             /\ UNCHANGED <<resp, callbacks, active, inactive, errClosed>>
             /\ \A d \in Conns : broken[d] => broken'[d]
             /\ out' # out => ~broken[ConnOf[m]]
             /\ Response(m, resp[m]) \in Items /\ ConnOf[m] \in Conns
  <2> DEFINE c == ConnOf[m]
             item == Response(m, resp[m])
             e == m \notin Unencodable
  <2>1. PICK ok \in BOOLEAN : Write(c, item, e, ok)
    BY <1>3 DEF WriteResponse
  <2>2. item \in Items /\ e \in BOOLEAN /\ c \in Conns
    BY <1>0, ItemTypes, RequestFacts DEF TypeOK
  <2>3. UNCHANGED <<resp, callbacks, active, inactive, errClosed>>
    BY <1>3 DEF WriteResponse, subVars
  <2> HIDE DEF c, item, e
  <2>4. /\ out' = out \/ out' = [out EXCEPT ![c] = Append(@, item)]
        /\ \A d \in Conns : broken[d] => broken'[d]
        /\ out' # out => ~broken[c]
    BY <1>0, <2>1, <2>2, WriteEffect
  <2> QED BY <2>2, <2>3, <2>4 DEF c, item
<1>4. ASSUME NEW x \in Subs, NotifyWrite(x)
      PROVE  /\ \/ out' = out
                \/ out' = [out EXCEPT ![SubConn[x]] = Append(@, Notification(x))]
             /\ UNCHANGED <<resp, callbacks, active, inactive, errClosed>>
             /\ \A d \in Conns : broken[d] => broken'[d]
             /\ out' # out => ~broken[SubConn[x]]
             /\ Notification(x) \in Items /\ SubConn[x] \in Conns
  <2>1. PICK ok \in BOOLEAN : Write(SubConn[x], Notification(x), TRUE, ok)
    BY <1>4 DEF NotifyWrite
  <2>2. Notification(x) \in Items /\ SubConn[x] \in Conns
    BY ItemTypes, ScriptAssumption
  <2>3. UNCHANGED <<resp, callbacks, active, inactive, errClosed>>
    BY <1>4 DEF NotifyWrite, taskVars
  <2>4. /\ out' = out \/ out' = [out EXCEPT ![SubConn[x]] = Append(@, Notification(x))]
        /\ \A d \in Conns : broken[d] => broken'[d]
        /\ out' # out => ~broken[SubConn[x]]
    <3> DEFINE c == SubConn[x]
               item == Notification(x)
    <3>1. c \in Conns /\ item \in Items /\ Write(c, item, TRUE, ok)
      BY <2>1, <2>2
    <3> HIDE DEF c, item
    <3>2. /\ out' = out \/ out' = [out EXCEPT ![c] = Append(@, item)]
          /\ \A d \in Conns : broken[d] => broken'[d]
          /\ out' # out => ~broken[c]
      BY <1>0, <3>1, WriteEffect
    <3> QED BY <3>2 DEF c, item
  <2> QED BY <2>2, <2>3, <2>4
<1>5. ASSUME NEW c \in Conns, ReadFailed(c) \/ Refuse(c)
      PROVE  \E item \in Items :
             /\ out' = out \/ out' = [out EXCEPT ![c] = Append(@, item)]
             /\ UNCHANGED <<resp, callbacks, active, inactive, errClosed>>
             /\ \A d \in Conns : broken[d] => broken'[d]
             /\ out' # out => ~broken[c]
             /\ \/ item.kind = "readError"
                \/ /\ item.kind = "response"
                   /\ \A n \in 1..Len(item.ans) : item.ans[n] = "error"
  BY <1>1, <1>2, <1>5
<1> QED BY <1>3, <1>4, <1>5

UnsubscribeInv == ClosedInv /\ UnsubInv /\ SilentAfterUnsubscribe

LEMMA UnsubscribeInit == Init => UnsubscribeInv
BY ScriptAssumption DEF Init, UnsubscribeInv, ClosedInv, UnsubInv, SilentAfterUnsubscribe

\* A write: only Notify writes notifications, and only an answer that a task
\* has computed confirms an unsubscribe.
LEMMA UnsubscribeWrites ==
    ASSUME BaseInv, UnsubscribeInv,
           \/ \E c \in Conns : ReadFailed(c) \/ Refuse(c)
           \/ \E m \in Msgs : WriteResponse(m)
           \/ \E x \in Subs : NotifyWrite(x)
    PROVE  UnsubscribeInv'
<1>0. TypeOK /\ ClosedInv /\ UnsubInv /\ SilentAfterUnsubscribe
  BY DEF BaseInv, UnsubscribeInv
<1>1. PICK c \in Conns, item \in Items :
             /\ out' = out \/ out' = [out EXCEPT ![c] = Append(@, item)]
             /\ UNCHANGED <<resp, callbacks, active, inactive, errClosed>>
             /\ \/ item.kind = "readError"
                \/ /\ item.kind = "response"
                   /\ \A n \in 1..Len(item.ans) : item.ans[n] = "error"
                \/ \E m \in Msgs : /\ WriteResponse(m) /\ c = ConnOf[m]
                                   /\ item = Response(m, resp[m])
                \/ \E x \in Subs : /\ NotifyWrite(x) /\ c = SubConn[x]
                                   /\ item = Notification(x)
  BY Writes
<1>2. /\ \A d \in Conns : Len(out[d]) \in Nat /\ Len(out'[d]) \in Nat
      /\ \A d \in Conns : \A k \in 1..Len(out[d]) :
           k \in 1..Len(out'[d]) /\ out'[d][k] = out[d][k]
      /\ \A d \in Conns : \A k \in 1..Len(out'[d]) :
           \/ k \in 1..Len(out[d]) /\ out'[d][k] = out[d][k]
           \/ d = c /\ k = Len(out[c]) + 1 /\ k = Len(out'[c]) /\ out'[d][k] = item
  BY <1>0, <1>1, WireStep
<1>3. ASSUME NEW x \in Subs, handlerPc'[x] = "write" PROVE handlerPc[x] = "write"
  BY <1>0, <1>3 DEF ReadFailed, Refuse, WriteResponse, NotifyWrite, subVars, TypeOK
<1>4. ClosedInv'
  BY <1>0, <1>1, <1>3 DEF ClosedInv, TypeOK
<1>5. ASSUME NEW x \in Subs, item.kind = "response",
             NEW n \in 1..Len(item.ans), Requests[item.msg][n] = Unsubscribed(x),
             item.ans[n] = "result"
      PROVE  x \in errClosed
  <2>1. PICK m \in Msgs : item = Response(m, resp[m])
    BY <1>1, <1>5, ItemKinds
  <2>2. item.msg = m /\ item.ans = resp[m]
    BY <2>1, ItemKinds
  <2> QED BY <1>0, <1>5, <2>2 DEF UnsubInv
<1>6. ASSUME NEW x \in Subs, item = Notification(x) PROVE x \notin errClosed
  <2>1. item.kind = "notification" /\ item.sub = x
    BY <1>6, ItemKinds
  <2>2. PICK y \in Subs : NotifyWrite(y) /\ item = Notification(y)
    BY <1>1, <2>1, ItemKinds
  <2>3. y = x
    BY <2>1, <2>2, ItemKinds
  <2> QED BY <1>0, <2>2, <2>3 DEF NotifyWrite, ClosedInv
<1>7. ASSUME NEW x \in Subs, NEW d \in Conns, NEW k \in 1..Len(out'[d]),
             Answers(d, k, Unsubscribed(x), "result")'
      PROVE  /\ x \in errClosed
             /\ \/ k \in 1..Len(out[d]) /\ Answers(d, k, Unsubscribed(x), "result")
                \/ k = Len(out'[d]) /\ item.kind = "response" /\ out'[d][k] = item
  <2>1. CASE k \in 1..Len(out[d]) /\ out'[d][k] = out[d][k]
    <3>1. Answers(d, k, Unsubscribed(x), "result")
      BY <1>7, <2>1 DEF Answers
    <3> QED BY <1>0, <2>1, <3>1 DEF UnsubInv
  <2>2. CASE d = c /\ k = Len(out'[c]) /\ out'[d][k] = item
    BY <1>5, <1>7, <2>2 DEF Answers
  <2> QED BY <1>2, <2>1, <2>2
<1>8. UnsubInv'
  BY <1>0, <1>1, <1>7 DEF UnsubInv
<1>9. ASSUME NEW x \in Subs, NEW j \in 1..Len(out'[SubConn[x]]),
             Answers(SubConn[x], j, Unsubscribed(x), "result")',
             NEW k \in j..Len(out'[SubConn[x]]), out'[SubConn[x]][k] = Notification(x)
      PROVE  FALSE
  <2> DEFINE d == SubConn[x]
  <2>0. d \in Conns
    BY ScriptAssumption
  <2>1. k \in 1..Len(out'[d])
    BY <1>2, <2>0
  <2>2. /\ x \in errClosed
        /\ \/ j \in 1..Len(out[d]) /\ Answers(d, j, Unsubscribed(x), "result")
           \/ j = Len(out'[d]) /\ item.kind = "response" /\ out'[d][j] = item
    BY <1>7, <1>9, <2>0
  <2>3. CASE k \in 1..Len(out[d]) /\ out'[d][k] = out[d][k]
    <3>1. j \in 1..Len(out[d]) /\ Answers(d, j, Unsubscribed(x), "result") /\ k \in j..Len(out[d])
      <4>1. CASE j = Len(out'[d]) /\ item.kind = "response" /\ out'[d][j] = item
        <5>1. k = j
          BY <1>2, <2>0, <4>1
        <5> QED BY <1>9, <4>1, <5>1, ItemKinds
      <4>2. CASE j \in 1..Len(out[d]) /\ Answers(d, j, Unsubscribed(x), "result")
        BY <1>2, <2>0, <2>3, <4>2
      <4> QED BY <2>2, <4>1, <4>2
    <3> QED BY <1>0, <1>9, <2>3, <3>1 DEF SilentAfterUnsubscribe
  <2>4. CASE out'[d][k] = item
    BY <1>6, <1>9, <2>2, <2>4
  <2> QED BY <1>2, <2>0, <2>1, <2>3, <2>4
<1>10. SilentAfterUnsubscribe'
  BY <1>9 DEF SilentAfterUnsubscribe
<1> QED BY <1>4, <1>8, <1>10 DEF UnsubscribeInv

\* Steps that leave the wires alone.
LEMMA SameWire ==
    ASSUME UnsubscribeInv, out' = out, errClosed \subseteq errClosed',
           \A x \in Subs : \A m \in Msgs : \A k \in 1..Len(resp'[m]) :
               Requests[m][k] = Unsubscribed(x) /\ resp'[m][k] = "result" => x \in errClosed'
    PROVE  UnsubInv' /\ SilentAfterUnsubscribe'
<1>1. \A c \in Conns : \A k, x : Answers(c, k, Unsubscribed(x), "result")'
                           <=> Answers(c, k, Unsubscribed(x), "result")
  BY DEF Answers
<1>2. UnsubInv'
  BY <1>1 DEF UnsubscribeInv, UnsubInv
<1>3. SilentAfterUnsubscribe'
  BY <1>1, ScriptAssumption DEF UnsubscribeInv, SilentAfterUnsubscribe
<1> QED BY <1>2, <1>3

LEMMA UnsubscribeTasks ==
    ASSUME BaseInv, UnsubscribeInv,
           \E m \in Msgs : \/ HandleCall(m) \/ HandleSubscribe(m) \/ HandleUnsubscribe(m)
                           \/ HandleUnsupported(m)
    PROVE  UnsubscribeInv'
<1>0. TypeOK /\ ClosedInv /\ UnsubInv /\ SilentAfterUnsubscribe /\ FreshInv
  BY DEF BaseInv, UnsubscribeInv
<1>1. ASSUME NEW m \in Msgs, NEW a \in {"result", "error"}, NEW kinds, Handling(m, kinds),
             Answer(m, a), out' = out, errClosed \subseteq errClosed',
             \A x \in Subs : Current(m) = Unsubscribed(x) /\ a = "result" => x \in errClosed'
      PROVE  UnsubInv' /\ SilentAfterUnsubscribe'
  <2>1. ASSUME NEW x \in Subs, NEW n \in Msgs, NEW k \in 1..Len(resp'[n]),
               Requests[n][k] = Unsubscribed(x), resp'[n][k] = "result"
        PROVE  x \in errClosed'
    <3>1. /\ Len(resp[n]) \in Nat /\ Len(resp'[m]) = Len(resp[m]) + 1
          /\ \A i \in 1..Len(resp[m]) : resp'[m][i] = resp[m][i]
          /\ resp'[m][Len(resp[m]) + 1] = a
          /\ n # m => resp'[n] = resp[n]
      BY <1>0, <1>1, AnswerType
    <3>2. CASE k \in 1..Len(resp[n])
      BY <1>0, <1>1, <2>1, <3>1, <3>2 DEF UnsubInv
    <3>3. CASE n = m /\ k = Len(resp[m]) + 1
      <4>1. Current(m) = Requests[m][Len(resp[m]) + 1]
        BY DEF Current
      <4> QED BY <1>1, <2>1, <3>1, <3>3, <4>1
    <3> QED BY <3>1, <3>2, <3>3
  <2> QED BY <1>1, <2>1, SameWire
<1>2. ASSUME NEW m \in Msgs, HandleCall(m) PROVE UnsubscribeInv'
  <2>1. /\ UNCHANGED <<out, active, inactive, errClosed, handlerPc>>
        /\ Handling(m, {"call", "err"}) /\ \A x \in Subs : Current(m) # Unsubscribed(x)
    BY <1>2 DEF HandleCall, Handling, Unsubscribed, connVars, subVars
  <2>2. \E a \in {"result", "error"} : Answer(m, a)
    BY <1>2 DEF HandleCall
  <2> QED BY <1>0, <1>1, <2>1, <2>2 DEF UnsubscribeInv, ClosedInv
<1>3. ASSUME NEW m \in Msgs, HandleUnsupported(m) PROVE UnsubscribeInv'
  <2>1. /\ UNCHANGED <<out, active, inactive, errClosed, handlerPc>>
        /\ Handling(m, {"sub", "unsub"}) /\ Answer(m, "error")
    BY <1>3 DEF HandleUnsupported, connVars, subVars
  <2> QED BY <1>0, <1>1, <2>1 DEF UnsubscribeInv, ClosedInv
<1>4. ASSUME NEW m \in Msgs, HandleSubscribe(m) PROVE UnsubscribeInv'
  <2> DEFINE x == Current(m).id
  <2>1. /\ UNCHANGED <<out, active, errClosed>> /\ inactive' = inactive \cup {x}
        /\ handlerPc' = [handlerPc EXCEPT ![x] = "install"]
        /\ Handling(m, {"sub"}) /\ Answer(m, "result")
        /\ \A y \in Subs : Current(m) # Unsubscribed(y)
    BY <1>4 DEF HandleSubscribe, Handling, Unsubscribed, connVars
  <2>2. /\ Len(resp[m]) + 1 \in 1..Len(Requests[m]) /\ Current(m) = Requests[m][Len(resp[m]) + 1]
        /\ Current(m).kind = "sub" /\ Len(resp[m]) \in Nat
    BY <1>0, <2>1, CurrentRequest
  <2>3. x \notin errClosed
    BY <1>0, <2>2 DEF FreshInv
  <2>4. ClosedInv'
    BY <1>0, <2>1, <2>3 DEF ClosedInv, TypeOK
  <2> QED BY <1>1, <2>1, <2>4 DEF UnsubscribeInv
<1>5. ASSUME NEW m \in Msgs, HandleUnsubscribe(m) PROVE UnsubscribeInv'
  <2> DEFINE x == Current(m).id
  <2>0. out' = out /\ Handling(m, {"unsub"}) /\ SubMuFree(ConnOf[m])
    BY <1>5 DEF HandleUnsubscribe, connVars
  <2>1. CASE ~(x \in active /\ SubConn[x] = ConnOf[m])
    <3>1. Answer(m, "error") /\ UNCHANGED <<active, inactive, errClosed, handlerPc>>
      BY <1>5, <2>1 DEF HandleUnsubscribe, subVars
    <3> QED BY <1>0, <1>1, <2>0, <3>1 DEF UnsubscribeInv, ClosedInv
  <2>2. CASE x \in active /\ SubConn[x] = ConnOf[m]
    <3>1. /\ Answer(m, "result") /\ errClosed' = errClosed \cup {x} /\ active' = active \ {x}
          /\ UNCHANGED <<inactive, handlerPc>>
      BY <1>5, <2>2 DEF HandleUnsubscribe
    <3>2. x \in Subs /\ x \notin inactive /\ handlerPc[x] # "write"
      BY <1>0, <2>0, <2>2 DEF SubMuFree, TypeOK
    <3>3. ClosedInv'
      BY <1>0, <3>1, <3>2 DEF ClosedInv
    <3>4. \A y \in Subs : Current(m) = Unsubscribed(y) => y = x
      BY DEF Unsubscribed
    <3> QED BY <1>1, <2>0, <3>1, <3>3, <3>4 DEF UnsubscribeInv
  <2> QED BY <2>1, <2>2
<1> QED BY <1>2, <1>3, <1>4, <1>5

LEMMA UnsubscribeNext == BaseInv /\ UnsubscribeInv /\ [Next]_vars => UnsubscribeInv'
<1> SUFFICES ASSUME BaseInv, UnsubscribeInv, [Next]_vars PROVE UnsubscribeInv'
  OBVIOUS
<1>0. TypeOK /\ ClosedInv /\ UnsubInv
  BY DEF BaseInv, UnsubscribeInv
<1>1. ASSUME UNCHANGED <<out, resp, errClosed>>, ClosedInv' PROVE UnsubscribeInv'
  <2>1. UnsubInv' /\ SilentAfterUnsubscribe'
    BY <1>0, <1>1, SameWire DEF UnsubInv
  <2> QED BY <1>1, <2>1 DEF UnsubscribeInv
<1>2. CASE UNCHANGED vars
  BY <1>0, <1>1, <1>2 DEF vars, connVars, taskVars, subVars, ClosedInv
<1>3. CASE \/ \E c \in Conns :
                 \/ Register(c) \/ LoopTest(c) \/ ReadMessage(c) \/ ReadEOF(c) \/ PendWait(c)
                 \/ ExecDone(c) \/ Deregister(c) \/ ServeReturn(c) \/ StopClose(c)
                 \/ ClientSend(c) \/ ClientHangUp(c) \/ Dispatch(c)
           \/ StopFlag \/ StopLock \/ StopDone \/ EventLoopStop
           \/ \E m \in Msgs : TaskDone(m)
  <2>1. UNCHANGED <<out, resp, active, inactive, errClosed, handlerPc>>
    BY <1>3 DEF Register, LoopTest, ReadMessage, ReadEOF, PendWait, ExecDone, Deregister,
       ServeReturn, StopClose, ClientSend, ClientHangUp, Dispatch, StopFlag, StopLock, StopDone,
       EventLoopStop,
       TaskDone, connVars, taskVars, subVars
  <2> QED BY <1>0, <1>1, <2>1 DEF ClosedInv
<1>4. ASSUME NEW m \in Msgs, Activate(m) PROVE UnsubscribeInv'
  <2>1. UNCHANGED <<out, resp, errClosed>> /\ ClosedInv'
    BY <1>0, <1>4 DEF Activate, ClosedInv, connVars
  <2> QED BY <1>1, <2>1
<1>5. ASSUME NEW x \in Subs, Notify(x) \/ HandlerStep(x) PROVE UnsubscribeInv'
  <2>1. UNCHANGED <<out, resp, active, inactive, errClosed>>
    BY <1>5 DEF Notify, HandlerStep, HandlerInstalled, HandlerLeave, HandlerReturn, connVars,
       taskVars
  <2>2. \A y \in Subs : handlerPc'[y] = "write" => handlerPc[y] = "write" \/ y \in active
    BY <1>0, <1>5 DEF Notify, HandlerStep, HandlerInstalled, HandlerLeave, HandlerReturn, TypeOK
  <2> QED BY <1>0, <1>1, <2>1, <2>2 DEF ClosedInv, TypeOK
<1> QED BY <1>2, <1>3, <1>4, <1>5, NextCases, UnsubscribeWrites, UnsubscribeTasks

\* UnsubscribeInv: a subscription whose err channel is closed is in no map of
\* its notifier and its handler is not writing, and a confirmed unsubscribe,
\* computed or written, means that the channel is closed.
THEOREM RpcUnsubscribeInv == Spec => []UnsubscribeInv
BY UnsubscribeInit, UnsubscribeNext, RpcBase, PTL DEF Spec

\* After the answer to a successful unsubscribe the client gets no more
\* notifications of that subscription, although Notify of its handler, the
\* tasks and the writes run concurrently: unsubscribe takes subMu, which
\* Notify holds from its test of the map until its write is done.
THEOREM RpcSilentAfterUnsubscribe == Spec => []SilentAfterUnsubscribe
<1>1. UnsubscribeInv => SilentAfterUnsubscribe
  BY DEF UnsubscribeInv
<1> QED BY <1>1, RpcUnsubscribeInv, PTL

-----------------------------------------------------------------------------
(* Ids.  exec and execBatch run the callbacks that activate subscriptions  *)
(* whether the write of the ids succeeded or not.  A write that fails on   *)
(* the connection breaks it and no notification can follow; one that fails *)
(* because a result cannot be encoded does not, so messages that subscribe *)
(* are assumed to have results that can be.                                *)

EncodableSubs ==
    \A m \in Unencodable : \A k \in 1..Len(Requests[m]) : Requests[m][k].kind # "sub"

IdInv == CallbackInv /\ ActiveInv /\ IdBeforeNotification

LEMMA IdInit == Init => IdInv
BY ScriptAssumption DEF Init, IdInv, CallbackInv, ActiveInv, IdBeforeNotification

\* An id that was sent stays sent.
LEMMA ToldGrows ==
    ASSUME TypeOK, NEW c \in Conns, NEW item \in Items,
           out' = out \/ out' = [out EXCEPT ![c] = Append(@, item)],
           \A d \in Conns : broken[d] => broken'[d]
    PROVE  \A x \in Subs : Told(x) => Told(x)'
<1> SUFFICES ASSUME NEW x \in Subs, Told(x) PROVE Told(x)'
  OBVIOUS
<1>0. SubConn[x] \in Conns
  BY ScriptAssumption
<1>1. CASE broken[SubConn[x]]
  BY <1>0, <1>1 DEF Told
<1>2. CASE IdSent(x)
  <2>1. PICK k \in 1..Len(out[SubConn[x]]) : Answers(SubConn[x], k, Subscribed(x), "result")
    BY <1>2 DEF IdSent
  <2>2. k \in 1..Len(out'[SubConn[x]]) /\ out'[SubConn[x]][k] = out[SubConn[x]][k]
    BY <1>0, WireStep
  <2>3. Answers(SubConn[x], k, Subscribed(x), "result")'
    BY <2>1, <2>2 DEF Answers
  <2> QED BY <2>2, <2>3 DEF Told, IdSent
<1> QED BY <1>1, <1>2 DEF Told

\* A callback is left by a request of its message.
LEMMA CallbackOf ==
    ASSUME TypeOK, CallbackInv, NEW m \in Msgs, NEW n \in 1..Len(callbacks[m])
    PROVE  /\ callbacks[m][n] \in Subs /\ SubConn[callbacks[m][n]] = ConnOf[m]
           /\ \E k \in 1..Len(Requests[m]) : Requests[m][k] = Subscribed(callbacks[m][n])
<1>0. callbacks[m][n] \in Subs
  BY ElementOfSeq DEF TypeOK
<1>1. PICK k \in 1..Len(Requests[m]) : Requests[m][k] = Subscribed(callbacks[m][n])
  BY <1>0 DEF CallbackInv
<1>2. Requests[m][k].kind = "sub" /\ Requests[m][k].id = callbacks[m][n]
  BY <1>1 DEF Subscribed
<1> QED BY <1>0, <1>1, <1>2, IdsAssumption

\* A step that changes neither callbacks nor activity.
LEMMA IdKept ==
    ASSUME TypeOK, CallbackInv, ActiveInv, UNCHANGED <<callbacks, resp, active>>,
           \A x \in Subs : Told(x) => Told(x)',
           \A m \in Msgs : taskPc'[m] = taskPc[m] \/ taskPc'[m] = "done" \/ callbacks[m] = << >>,
           \A x \in Subs : handlerPc'[x] = "write" => handlerPc[x] = "write" \/ x \in active
    PROVE  CallbackInv' /\ ActiveInv'
<1>1. ActiveInv'
  BY DEF ActiveInv, TypeOK
<1>2. CallbackInv'
  BY DEF CallbackInv
<1> QED BY <1>1, <1>2

\* Steps that leave the wires alone.
LEMMA IdSameWire ==
    ASSUME out' = out, IdBeforeNotification,
           \A d \in Conns : broken[d] => broken'[d]
    PROVE  IdBeforeNotification' /\ \A x \in Subs : Told(x) => Told(x)'
<1>1. \A c, k, x : Answers(c, k, Subscribed(x), "result")' <=> Answers(c, k, Subscribed(x), "result")
  BY DEF Answers
<1>2. IdBeforeNotification'
  BY <1>1, ScriptAssumption DEF IdBeforeNotification
<1>3. \A x \in Subs : Told(x) => Told(x)'
  BY <1>1, ScriptAssumption DEF Told, IdSent
<1> QED BY <1>2, <1>3

LEMMA IdQuiet ==
    ASSUME BaseInv, AnswerInv, IdInv,
           \/ \E c \in Conns :
                 \/ Register(c) \/ LoopTest(c) \/ ReadMessage(c) \/ ReadEOF(c) \/ PendWait(c)
                 \/ ExecDone(c) \/ Deregister(c) \/ ServeReturn(c) \/ StopClose(c)
                 \/ ClientSend(c) \/ ClientHangUp(c) \/ Dispatch(c)
           \/ StopFlag \/ StopLock \/ StopDone \/ EventLoopStop
           \/ \E m \in Msgs : TaskDone(m)
           \/ \E x \in Subs : Notify(x) \/ HandlerStep(x)
    PROVE  IdInv'
<1>0. TypeOK /\ CallbackInv /\ ActiveInv /\ IdBeforeNotification /\ TaskInv /\ GotInv
  BY DEF BaseInv, IdInv, AnswerInv
<1>1. UNCHANGED <<out, resp, callbacks, active>>
  BY DEF Register, LoopTest, ReadMessage, ReadEOF, PendWait, ExecDone, Deregister, ServeReturn,
     StopClose, ClientSend, ClientHangUp, Dispatch, StopFlag, StopLock, StopDone, EventLoopStop,
     TaskDone, Notify,
     HandlerStep, HandlerInstalled, HandlerLeave, HandlerReturn, connVars, taskVars, subVars
<1>2. \A d \in Conns : broken[d] => broken'[d]
  BY <1>0, ZenonT(30) DEF Register, LoopTest, ReadMessage, ReadEOF, PendWait, ExecDone, Deregister, ServeReturn,
     StopClose, ClientSend, ClientHangUp, Dispatch, StopFlag, StopLock, StopDone, EventLoopStop,
     TaskDone, Notify,
     HandlerStep, HandlerInstalled, HandlerLeave, HandlerReturn, connVars, TypeOK
<1>3. \A x \in Subs : handlerPc'[x] = "write" => handlerPc[x] = "write" \/ x \in active
  <2>1. ASSUME NEW x \in Subs, Notify(x) PROVE <1>3!:
    BY <1>0, <2>1 DEF Notify, TypeOK
  <2>2. ASSUME NEW x \in Subs, HandlerStep(x) PROVE <1>3!:
    BY <1>0, <2>2 DEF HandlerStep, HandlerInstalled, HandlerLeave, HandlerReturn, TypeOK
  <2>3. CASE handlerPc' = handlerPc
    BY <2>3
  <2> QED BY <2>1, <2>2, <2>3 DEF Register, LoopTest, ReadMessage, ReadEOF, PendWait, ExecDone,
          Deregister, ServeReturn, StopClose, ClientSend, ClientHangUp, Dispatch, StopFlag, StopLock,
          StopDone, EventLoopStop, TaskDone, subVars
<1>4. \A m \in Msgs : taskPc'[m] = taskPc[m] \/ taskPc'[m] = "done" \/ callbacks[m] = << >>
  <2>1. ASSUME NEW c \in Conns, Dispatch(c) PROVE <1>4!:
    <3>1. Script[c][read[c]] \in Msgs /\ taskPc[Script[c][read[c]]] = "none"
      BY <1>0, <2>1, GotMessage DEF Dispatch, GotInv
    <3>2. callbacks[Script[c][read[c]]] = << >>
      BY <1>0, <3>1 DEF TaskInv
    <3> QED BY <1>0, <2>1, <3>2 DEF Dispatch, TypeOK
  <2>2. ASSUME NEW m \in Msgs, TaskDone(m) PROVE <1>4!:
    BY <1>0, <2>2 DEF TaskDone, TypeOK
  <2>3. CASE taskPc' = taskPc
    BY <2>3
  <2> QED BY <2>1, <2>2, <2>3 DEF Register, LoopTest, ReadMessage, ReadEOF, PendWait, ExecDone,
          Deregister, ServeReturn, StopClose, ClientSend, ClientHangUp, StopFlag, StopLock,
          StopDone, EventLoopStop, Notify, HandlerStep, HandlerInstalled, HandlerLeave,
          HandlerReturn, taskVars
<1>5. IdBeforeNotification' /\ \A x \in Subs : Told(x) => Told(x)'
  BY <1>0, <1>1, <1>2, IdSameWire
<1>6. CallbackInv' /\ ActiveInv'
  BY <1>0, <1>1, <1>3, <1>4, <1>5, IdKept
<1> QED BY <1>5, <1>6 DEF IdInv

\* A task handles a request or runs a callback.
LEMMA IdTasks ==
    ASSUME BaseInv, IdInv,
           \E m \in Msgs : \/ HandleCall(m) \/ HandleSubscribe(m) \/ HandleUnsubscribe(m)
                           \/ HandleUnsupported(m) \/ Activate(m)
    PROVE  IdInv'
<1>0. TypeOK /\ CallbackInv /\ ActiveInv /\ IdBeforeNotification
  BY DEF BaseInv, IdInv
<1>1. UNCHANGED <<out, broken, taskPc>>
  BY DEF HandleCall, HandleSubscribe, HandleUnsubscribe, HandleUnsupported, Activate, connVars
<1>2. IdBeforeNotification' /\ \A x \in Subs : Told(x) => Told(x)'
  BY <1>0, <1>1, IdSameWire
<1>3. ASSUME NEW m \in Msgs, NEW a \in {"result", "error"}, Answer(m, a), callbacks' = callbacks
      PROVE  CallbackInv'
  <2>1. \A n \in Msgs : /\ Len(resp[n]) \in Nat /\ Len(resp'[n]) \in Nat
                        /\ Len(resp'[n]) >= Len(resp[n])
                        /\ \A k \in 1..Len(resp[n]) : resp'[n][k] = resp[n][k]
    BY <1>0, <1>3, AnswerType
  <2> QED BY <1>0, <1>1, <1>2, <1>3, <2>1, SMTT(30) DEF CallbackInv
<1>4. ASSUME NEW m \in Msgs, HandleCall(m) \/ HandleUnsubscribe(m) \/ HandleUnsupported(m)
      PROVE  IdInv'
  <2>1. /\ callbacks' = callbacks /\ active' \subseteq active /\ handlerPc' = handlerPc
        /\ \E a \in {"result", "error"} : Answer(m, a)
    BY <1>4 DEF HandleCall, HandleUnsubscribe, HandleUnsupported, subVars
  <2>2. CallbackInv'
    BY <1>3, <2>1
  <2>3. ActiveInv'
    BY <1>0, <1>2, <2>1 DEF ActiveInv
  <2> QED BY <1>2, <2>2, <2>3 DEF IdInv
<1>5. ASSUME NEW m \in Msgs, HandleSubscribe(m) PROVE IdInv'
  <2> DEFINE y == Current(m).id
             k0 == Len(resp[m]) + 1
  <2>1. /\ active' = active /\ handlerPc' = [handlerPc EXCEPT ![y] = "install"]
        /\ callbacks' = [callbacks EXCEPT ![m] = Append(@, y)]
        /\ Answer(m, "result") /\ Handling(m, {"sub"})
    BY <1>5 DEF HandleSubscribe
  <2>2. /\ k0 \in 1..Len(Requests[m]) /\ Current(m) = Requests[m][k0]
        /\ Current(m).kind = "sub" /\ Current(m) \in Request /\ taskPc[m] = "handle"
    BY <1>0, <2>1, CurrentRequest
  <2>3. y \in Subs
    BY <2>2, IdsAssumption
  <2>4. Requests[m][k0] = Subscribed(y)
    BY <2>2 DEF Request, Subscribed
  <2>5. /\ \A n \in Msgs : /\ Len(resp[n]) \in Nat /\ Len(resp'[n]) \in Nat
                           /\ Len(resp'[n]) >= Len(resp[n])
                           /\ \A k \in 1..Len(resp[n]) : resp'[n][k] = resp[n][k]
        /\ Len(resp'[m]) = k0 /\ resp'[m][k0] = "result"
    BY <1>0, <2>1, AnswerType
  <2>6. ActiveInv'
    BY <1>0, <1>2, <2>1 DEF ActiveInv, TypeOK
  <2>7. ASSUME NEW n \in Msgs, NEW i \in 1..Len(callbacks'[n]), NEW x \in Subs,
               x = callbacks'[n][i]
        PROVE  /\ \E k \in 1..Len(Requests[n]) :
                     /\ Requests[n][k] = Subscribed(x)
                     /\ taskPc'[n] = "handle" => k <= Len(resp'[n]) /\ resp'[n][k] = "result"
               /\ taskPc'[n] = "callbacks" => Told(x)'
    <3> HIDE DEF y, k0
    <3>1. callbacks[m] \in Seq(Subs) /\ Len(callbacks[m]) \in Nat
      BY <1>0, LenProperties DEF TypeOK
    <3>2. CASE i \in 1..Len(callbacks[n]) /\ x = callbacks[n][i]
      <4>1. PICK k \in 1..Len(Requests[n]) :
                     /\ Requests[n][k] = Subscribed(x)
                     /\ taskPc[n] = "handle" => k <= Len(resp[n]) /\ resp[n][k] = "result"
        BY <1>0, <3>2 DEF CallbackInv
      <4>2. taskPc[n] = "handle" => k <= Len(resp'[n]) /\ resp'[n][k] = "result"
        BY <2>5, <4>1
      <4>3. taskPc[n] = "callbacks" => Told(x)
        BY <1>0, <3>2 DEF CallbackInv
      <4> QED BY <1>1, <1>2, <4>1, <4>2, <4>3
    <3>3. CASE n = m /\ x = y
      <4>1. taskPc'[n] = "handle"
        BY <1>1, <2>2, <3>3
      <4> QED BY <2>2, <2>4, <2>5, <3>3, <4>1
    <3>4. n # m => callbacks'[n] = callbacks[n]
      BY <1>0, <2>1 DEF TypeOK
    <3>5. callbacks'[m] = Append(callbacks[m], y)
      BY <1>0, <2>1 DEF TypeOK
    <3>6. /\ Len(callbacks'[m]) = Len(callbacks[m]) + 1
          /\ \A j \in 1..Len(callbacks[m]) : callbacks'[m][j] = callbacks[m][j]
          /\ callbacks'[m][Len(callbacks[m]) + 1] = y
      BY <2>3, <3>1, <3>5, AppendProperties
    <3>7. n = m => i \in 1..Len(callbacks[m]) \/ i = Len(callbacks[m]) + 1
      BY <3>1, <3>6
    <3> QED BY <2>7, <3>2, <3>3, <3>4, <3>6, <3>7
  <2>8. CallbackInv'
    BY <2>7 DEF CallbackInv
  <2> QED BY <1>2, <2>6, <2>8 DEF IdInv
<1>6. ASSUME NEW m \in Msgs, Activate(m) PROVE IdInv'
  <2> DEFINE y == Head(callbacks[m])
  <2>1. /\ callbacks[m] # << >> /\ taskPc[m] = "callbacks" /\ active' \subseteq active \cup {y}
        /\ callbacks' = [callbacks EXCEPT ![m] = Tail(@)] /\ UNCHANGED <<resp, handlerPc>>
    BY <1>6 DEF Activate
  <2>2. /\ callbacks[m] \in Seq(Subs) /\ Len(callbacks[m]) \in Nat
        /\ Len(callbacks[m]) >= 1 /\ y = callbacks[m][1]
        /\ Len(Tail(callbacks[m])) = Len(callbacks[m]) - 1
        /\ \A i \in 1..Len(Tail(callbacks[m])) : Tail(callbacks[m])[i] = callbacks[m][i + 1]
    <3>1. callbacks[m] \in Seq(Subs) /\ callbacks[m] # << >>
      BY <1>0, <2>1 DEF TypeOK
    <3>2. Len(callbacks[m]) \in Nat /\ Len(callbacks[m]) >= 1
      BY <3>1, LenProperties, EmptySeq
    <3> QED BY <3>1, <3>2, HeadTailProperties
  <2>3. y \in Subs /\ Told(y)
    BY <1>0, <2>1, <2>2, CallbackOf DEF CallbackInv
  <2>4. ActiveInv'
    BY <1>0, <1>2, <2>1, <2>3 DEF ActiveInv
  <2>5. ASSUME NEW n \in Msgs, NEW i \in 1..Len(callbacks'[n])
        PROVE  \E j \in 1..Len(callbacks[n]) : callbacks'[n][i] = callbacks[n][j]
    <3>1. CASE n = m
      <4>1. callbacks'[m] = Tail(callbacks[m])
        BY <1>0, <2>1 DEF TypeOK
      <4>2. i + 1 \in 1..Len(callbacks[m])
        BY <2>2, <3>1, <4>1
      <4> QED BY <2>2, <3>1, <4>1, <4>2
    <3>2. CASE n # m
      BY <1>0, <2>1, <3>2 DEF TypeOK
    <3> QED BY <3>1, <3>2
  <2>6. CallbackInv'
    <3> SUFFICES ASSUME NEW n \in Msgs, NEW i \in 1..Len(callbacks'[n]), NEW x \in Subs,
                        x = callbacks'[n][i]
                 PROVE  /\ \E k \in 1..Len(Requests[n]) :
                             /\ Requests[n][k] = Subscribed(x)
                             /\ taskPc'[n] = "handle" => k <= Len(resp'[n]) /\ resp'[n][k] = "result"
                        /\ taskPc'[n] = "callbacks" => Told(x)'
      BY DEF CallbackInv
    <3>1. PICK j \in 1..Len(callbacks[n]) : x = callbacks[n][j]
      BY <2>5
    <3>2. /\ \E k \in 1..Len(Requests[n]) :
               /\ Requests[n][k] = Subscribed(x)
               /\ taskPc[n] = "handle" => k <= Len(resp[n]) /\ resp[n][k] = "result"
          /\ taskPc[n] = "callbacks" => Told(x)
      BY <1>0, <3>1 DEF CallbackInv
    <3> QED BY <1>1, <1>2, <2>1, <3>2
  <2> QED BY <1>2, <2>4, <2>6 DEF IdInv
<1> QED BY <1>4, <1>5, <1>6

\* A write: the ids are on the wire before their subscriptions are active, or
\* nothing can be written any more.
LEMMA IdWrites ==
    ASSUME EncodableSubs, BaseInv, IdInv,
           \/ \E c \in Conns : ReadFailed(c) \/ Refuse(c)
           \/ \E m \in Msgs : WriteResponse(m)
           \/ \E x \in Subs : NotifyWrite(x)
    PROVE  IdInv'
<1>0. TypeOK /\ CallbackInv /\ ActiveInv /\ IdBeforeNotification
  BY DEF BaseInv, IdInv
<1>1. PICK c \in Conns, item \in Items :
             /\ out' = out \/ out' = [out EXCEPT ![c] = Append(@, item)]
             /\ UNCHANGED <<resp, callbacks, active, inactive, errClosed>>
             /\ \A d \in Conns : broken[d] => broken'[d]
             /\ \/ item.kind = "readError"
                \/ item.kind = "response"
                \/ \E m \in Msgs : item = Response(m, resp[m])
                \/ \E x \in Subs : /\ NotifyWrite(x) /\ c = SubConn[x]
                                   /\ item = Notification(x)
             /\ (out' # out => ~broken[c])
  BY Writes
<1>2. /\ \A d \in Conns : Len(out[d]) \in Nat /\ Len(out'[d]) \in Nat
      /\ \A d \in Conns : \A k \in 1..Len(out[d]) :
           k \in 1..Len(out'[d]) /\ out'[d][k] = out[d][k]
      /\ \A d \in Conns : \A k \in 1..Len(out'[d]) :
           \/ k \in 1..Len(out[d]) /\ out'[d][k] = out[d][k]
           \/ d = c /\ k = Len(out[c]) + 1 /\ k = Len(out'[c]) /\ out'[d][k] = item
  BY <1>0, <1>1, WireStep
<1>3. \A x \in Subs : Told(x) => Told(x)'
  BY <1>0, <1>1, ToldGrows
<1>4. \A x \in Subs : handlerPc'[x] = "write" => handlerPc[x] = "write"
  BY <1>0 DEF ReadFailed, Refuse, WriteResponse, NotifyWrite, subVars, TypeOK
<1>5. ActiveInv'
  BY <1>0, <1>1, <1>3, <1>4 DEF ActiveInv
<1>6. IdBeforeNotification'
  <2> SUFFICES ASSUME NEW x \in Subs, NEW k \in 1..Len(out'[SubConn[x]]),
                      out'[SubConn[x]][k] = Notification(x)
               PROVE  \E j \in 1..(k - 1) : Answers(SubConn[x], j, Subscribed(x), "result")'
    BY DEF IdBeforeNotification
  <2>0. SubConn[x] \in Conns
    BY ScriptAssumption
  <2>1. \A j \in 1..Len(out[SubConn[x]]) : Answers(SubConn[x], j, Subscribed(x), "result")
                                 => Answers(SubConn[x], j, Subscribed(x), "result")'
    BY <1>2, <2>0 DEF Answers
  <2>2. CASE k \in 1..Len(out[SubConn[x]]) /\ out'[SubConn[x]][k] = out[SubConn[x]][k]
    <3>1. PICK j \in 1..(k - 1) : Answers(SubConn[x], j, Subscribed(x), "result")
      BY <1>0, <2>2 DEF IdBeforeNotification
    <3>2. j \in 1..Len(out[SubConn[x]])
      BY <1>2, <2>0, <2>2
    <3> QED BY <2>1, <3>1, <3>2
  <2>3. CASE /\ SubConn[x] = c /\ k = Len(out[c]) + 1 /\ k = Len(out'[c])
             /\ out'[SubConn[x]][k] = item
    <3>1. item.kind = "notification" /\ item.sub = x
      BY <2>3, ItemKinds
    <3>2. NotifyWrite(x)
      BY <1>1, <3>1, ItemKinds
    <3>3. Told(x)
      BY <1>0, <3>2 DEF NotifyWrite, ActiveInv
    <3>4. out' # out
      BY <1>2, <2>3
    <3>5. IdSent(x)
      BY <1>1, <2>3, <3>3, <3>4 DEF Told
    <3>6. PICK j \in 1..Len(out[SubConn[x]]) : Answers(SubConn[x], j, Subscribed(x), "result")
      BY <3>5 DEF IdSent
    <3>7. j \in 1..(k - 1)
      BY <1>2, <2>0, <2>3
    <3> QED BY <2>1, <3>6, <3>7
  <2> QED BY <1>2, <2>0, <2>2, <2>3
<1>7. CallbackInv'
  <2>1. CASE taskPc' = taskPc
    BY <1>0, <1>1, <1>3, <2>1 DEF CallbackInv
  <2>2. ASSUME NEW m \in Msgs, WriteResponse(m) PROVE CallbackInv'
    <3>1. /\ taskPc[m] = "handle" /\ taskPc' = [taskPc EXCEPT ![m] = "callbacks"]
          /\ Len(resp[m]) = Len(Requests[m])
      BY <2>2 DEF WriteResponse
    <3>2. ASSUME NEW n \in 1..Len(callbacks[m]), NEW x \in Subs, x = callbacks[m][n]
          PROVE  Told(x)'
      <4> DEFINE d == ConnOf[m]
                 w == Response(m, resp[m])
                 e == m \notin Unencodable
      <4>1. SubConn[x] = d /\ d \in Conns /\ w \in Items /\ e \in BOOLEAN
        BY <1>0, <3>2, CallbackOf, ItemTypes, RequestFacts DEF TypeOK
      <4>2. PICK k \in 1..Len(Requests[m]) : Requests[m][k] = Subscribed(x) /\ k <= Len(resp[m])
                                             /\ resp[m][k] = "result"
        BY <1>0, <3>1, <3>2 DEF CallbackInv
      <4>3. e
        BY <4>2 DEF EncodableSubs, Subscribed
      <4>4. PICK ok \in BOOLEAN : Write(d, w, e, ok)
        BY <2>2 DEF WriteResponse
      <4>5. w.kind = "response" /\ w.msg = m /\ w.ans = resp[m]
        BY ItemKinds
      <4> HIDE DEF d, w, e
      <4>6. out' = [out EXCEPT ![d] = Append(@, w)] \/ broken'[d]
        BY <1>0, <4>1, <4>3, <4>4, WriteEffect, ZenonT(30)
      <4>7. CASE broken'[d]
        BY <4>1, <4>7 DEF Told
      <4>8. CASE out' = [out EXCEPT ![d] = Append(@, w)]
        <5>1. Len(out[d]) \in Nat /\ Len(out'[d]) = Len(out[d]) + 1 /\ out'[d][Len(out[d]) + 1] = w
          BY <1>0, <4>1, <4>8, AppendOut, ZenonT(30)
        <5>2. Len(out[d]) + 1 \in 1..Len(out'[d])
          BY <5>1
        <5>3. PICK j \in 1..Len(out'[d]) : out'[d][j] = w
          BY <5>1, <5>2
        <5>4. k \in 1..Len(w.ans) /\ w.ans[k] = "result"
          BY <3>1, <4>2, <4>5
        <5>5. Answers(SubConn[x], j, Subscribed(x), "result")'
          BY <4>1, <4>2, <4>5, <5>3, <5>4 DEF Answers
        <5> QED BY <4>1, <5>3, <5>5 DEF Told, IdSent
      <4> QED BY <4>6, <4>7, <4>8
    <3>3. UNCHANGED <<callbacks, resp>> /\ taskPc'[m] = "callbacks"
          /\ \A n \in Msgs : n # m => taskPc'[n] = taskPc[n]
      BY <1>0, <1>1, <3>1 DEF TypeOK
    <3> QED BY <1>0, <1>3, <3>2, <3>3, SMTT(30) DEF CallbackInv
  <2> QED BY <2>1, <2>2 DEF ReadFailed, Refuse, NotifyWrite, taskVars
<1> QED BY <1>5, <1>6, <1>7 DEF IdInv

LEMMA IdNext ==
    ASSUME EncodableSubs
    PROVE  BaseInv /\ AnswerInv /\ IdInv /\ [Next]_vars => IdInv'
<1> SUFFICES ASSUME BaseInv, AnswerInv, IdInv, [Next]_vars PROVE IdInv'
  OBVIOUS
<1>1. CASE UNCHANGED vars
  <2>1. TypeOK /\ CallbackInv /\ ActiveInv /\ IdBeforeNotification
    BY DEF BaseInv, IdInv
  <2>2. UNCHANGED <<out, broken, taskPc, resp, callbacks, active, handlerPc>>
    BY <1>1 DEF vars, connVars, taskVars, subVars
  <2>3. IdBeforeNotification' /\ \A x \in Subs : Told(x) => Told(x)'
    BY <2>1, <2>2, IdSameWire
  <2>4. CallbackInv' /\ ActiveInv'
    BY <2>1, <2>2, <2>3, IdKept
  <2> QED BY <2>3, <2>4 DEF IdInv
<1> QED BY <1>1, NextCases, IdQuiet, IdTasks, IdWrites

\* IdInv: when the callbacks of a message run, the ids of its subscriptions
\* are on the wire or the wire is broken, and so they are while a
\* subscription is active.
THEOREM RpcIdInv == EncodableSubs => (Spec => []IdInv)
<1> SUFFICES ASSUME EncodableSubs PROVE Spec => []IdInv
  OBVIOUS
<1>1. BaseInv /\ AnswerInv /\ IdInv /\ [Next]_vars => IdInv'
  BY IdNext
<1> QED BY <1>1, IdInit, RpcBase, RpcAnswerInv, PTL DEF Spec

\* No notification reaches the client before the id of its subscription,
\* although the handler of the subscription runs from before the response is
\* written, provided that messages that subscribe have results that can be
\* encoded.
THEOREM RpcIdBeforeNotification == EncodableSubs => (Spec => []IdBeforeNotification)
<1>1. IdInv => IdBeforeNotification
  BY DEF IdInv
<1> QED BY <1>1, RpcIdInv, PTL
=============================================================================
