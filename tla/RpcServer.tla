----------------------------- MODULE RpcServer ------------------------------
(***************************************************************************)
(* The RPC server (pkg/server/server.go), the notifier of a connection     *)
(* (pkg/server/subscription.go) and the parts of the JSON codec they share *)
(* (Write, Close and Closed of pkg/codec/jsonc.go).                        *)
(*                                                                         *)
(* A connection c is served by one call of serveRequest: over a websocket  *)
(* through ServeCodec, which starts a goroutine per message, or over HTTP  *)
(* through ServeSingleRequest, which executes one message itself.  A       *)
(* message is a sequence of requests; one that is not a batch has length   *)
(* one.  A subscription is named by the id it gets.  Its handler goroutine *)
(* is the one of the service template: have the event loop (EventMsg)      *)
(* install the client, wait for an event, for Err or for Closed, and have  *)
(* the event loop uninstall the client.                                    *)
(*                                                                         *)
(* Codec.Close closes the channel that Closed returns and nothing else:    *)
(* its rw.Close is commented out.  The transport closes the connection     *)
(* itself when the handler that called the server returns.                 *)
(***************************************************************************)
EXTENDS Integers, Sequences, FiniteSets, Functions

CONSTANTS
    Conns,        \* connections
    Websocket,    \* those served by ServeCodec with a notifier; others HTTP
    Msgs,         \* messages
    ConnOf,       \* the connection of a message
    Script,       \* Script[c]: the messages of c in the order of the client
    Requests,     \* Requests[m]: the requests of m
    Garbage,      \* messages that cannot be parsed
    Subs,         \* subscription ids
    SubConn,      \* the connection of a subscription
    NoSub,
    Unencodable,  \* messages with a result that encode rejects
    MaxEvents     \* bound: events of a subscription

Kinds == {"call", "err", "sub", "unsub"}
Request == [kind : Kinds, id : Subs \cup {NoSub}]

ASSUME ScriptAssumption ==
    /\ Websocket \subseteq Conns
    /\ ConnOf \in [Msgs -> Conns]
    /\ SubConn \in [Subs -> Conns]
    /\ \A c \in Conns : /\ Script[c] \in Seq(Msgs)
                        /\ IsInjective(Script[c])
                        /\ Range(Script[c]) = {m \in Msgs : ConnOf[m] = c}
ASSUME RequestsAssumption ==
    /\ \A m \in Msgs : Requests[m] \in Seq(Request)
    /\ Garbage \subseteq Msgs
    /\ Unencodable \subseteq Msgs
    /\ MaxEvents \in Nat

\* Ids name subscriptions: NewID, which draws them from the clock, is taken
\* never to return the same id twice.
ASSUME IdsAssumption ==
    \A m \in Msgs : \A k \in 1..Len(Requests[m]) : Requests[m][k].kind = "sub" =>
        /\ Requests[m][k].id \in Subs
        /\ SubConn[Requests[m][k].id] = ConnOf[m]
        /\ \A n \in Msgs : \A j \in 1..Len(Requests[n]) :
             Requests[n][j] = Requests[m][k] => n = m /\ j = k

VARIABLES
    run,        \* Server.Run
    stopPc,     \* where the call of Stop is
    toClose,    \* codecs Stop has still to close
    codecs,     \* Server.Codecs
    servePc,    \* where serveRequest is, per connection
    closed,     \* codecs whose closed channel is closed
    sent, read, \* messages of the script the client has sent, the codec read
    hung,       \* the client has closed the connection
    broken,     \* writes to the connection fail
    out,        \* what has been written to the connection
    taskPc,     \* where exec or execBatch is, per message
    resp,       \* answers computed so far
    callbacks,  \* subscriptions to activate after the write
    active, inactive,  \* the maps of the notifiers
    errClosed,  \* subscriptions whose err channel is closed
    handlerPc,  \* where the handler goroutine of a subscription is
    events,     \* events the handler has seen
    eventLoop   \* the event loop of the service runs

serverVars == <<run, stopPc, toClose, codecs>>
connVars == <<servePc, closed, sent, read, hung, broken, out>>
taskVars == <<taskPc, resp, callbacks>>
subVars == <<active, inactive, errClosed, handlerPc, events, eventLoop>>
vars == <<serverVars, connVars, taskVars, subVars>>

-----------------------------------------------------------------------------
(* State formulae *)

\* Stop holds CodecsMu while it closes the codecs; the other critical
\* sections of CodecsMu are single steps.
CodecsMuFree == stopPc # "closing"

\* Notify holds subMu for reading while it writes.  Faulty variant first: it
\* releases subMu before it writes.
BadSubMuFree(c) == TRUE
SubMuFree(c) == \A x \in Subs : SubConn[x] = c => handlerPc[x] # "write"

Response(m, ans) == [kind |-> "response", msg |-> m, ans |-> ans]
ReadError == [kind |-> "readError"]
Notification(x) == [kind |-> "notification", sub |-> x]

\* The k-th item on the wire of c answers request q with result a.
Answers(c, k, q, a) ==
    /\ out[c][k].kind = "response"
    /\ \E n \in 1..Len(out[c][k].ans) :
         Requests[out[c][k].msg][n] = q /\ out[c][k].ans[n] = a

Subscribed(x) == [kind |-> "sub", id |-> x]
Unsubscribed(x) == [kind |-> "unsub", id |-> x]

\* The client has been sent the id of subscription x.
IdSent(x) ==
    \E k \in 1..Len(out[SubConn[x]]) : Answers(SubConn[x], k, Subscribed(x), "result")

\* Codec.Write of an item that encodes or not, succeeding or not.  A write to
\* a connection the client has left may still go through, but once one has
\* failed all do.
Write(c, item, encodes, ok) ==
    \/ /\ ok /\ encodes /\ ~broken[c]
       /\ out' = [out EXCEPT ![c] = Append(@, item)]
       /\ UNCHANGED broken
    \/ /\ ~ok /\ encodes /\ (hung[c] \/ broken[c])
       /\ broken' = [broken EXCEPT ![c] = TRUE]
       /\ UNCHANGED out
    \/ /\ ~ok /\ ~encodes
       /\ UNCHANGED <<out, broken>>

Init ==
    /\ run = TRUE
    /\ stopPc = "idle"
    /\ toClose = {}
    /\ codecs = {}
    /\ servePc = [c \in Conns |-> "new"]
    /\ closed = {}
    /\ sent = [c \in Conns |-> 0]
    /\ read = [c \in Conns |-> 0]
    /\ hung = [c \in Conns |-> FALSE]
    /\ broken = [c \in Conns |-> FALSE]
    /\ out = [c \in Conns |-> << >>]
    /\ taskPc = [m \in Msgs |-> "none"]
    /\ resp = [m \in Msgs |-> << >>]
    /\ callbacks = [m \in Msgs |-> << >>]
    /\ active = {}
    /\ inactive = {}
    /\ errClosed = {}
    /\ handlerPc = [x \in Subs |-> "none"]
    /\ events = [x \in Subs |-> 0]
    /\ eventLoop = TRUE

-----------------------------------------------------------------------------
(* serveRequest *)

\* Faulty variant: Run is not tested again under CodecsMu.
BadRegister(c) ==
    /\ servePc[c] = "new"
    /\ CodecsMuFree
    /\ codecs' = codecs \cup {c}
    /\ servePc' = [servePc EXCEPT ![c] = "loop"]
    /\ UNCHANGED <<run, stopPc, toClose, closed, sent, read, hung, broken, out,
                   taskVars, subVars>>

\* Register the codec, or return ShutdownError if the server has stopped.
Register(c) ==
    /\ servePc[c] = "new"
    /\ CodecsMuFree
    /\ IF run
       THEN /\ codecs' = codecs \cup {c}
            /\ servePc' = [servePc EXCEPT ![c] = "loop"]
       ELSE /\ servePc' = [servePc EXCEPT ![c] = "leave"]
            /\ UNCHANGED codecs
    /\ UNCHANGED <<run, stopPc, toClose, closed, sent, read, hung, broken, out,
                   taskVars, subVars>>

\* The condition of the loop.
LoopTest(c) ==
    /\ servePc[c] = "loop"
    /\ servePc' = [servePc EXCEPT ![c] = IF run THEN "reading" ELSE "leave"]
    /\ UNCHANGED <<serverVars, closed, sent, read, hung, broken, out, taskVars, subVars>>

\* readRequest returns a message.
ReadMessage(c) ==
    /\ servePc[c] = "reading"
    /\ read[c] < sent[c]
    /\ read' = [read EXCEPT ![c] = @ + 1]
    /\ servePc' = [servePc EXCEPT ![c] =
                     IF Script[c][read'[c]] \in Garbage THEN "badRead" ELSE "got"]
    /\ UNCHANGED <<serverVars, closed, sent, hung, broken, out, taskVars, subVars>>

\* Faulty variant: the loop goes on after EOF.
BadReadEOF(c) ==
    /\ servePc[c] = "reading"
    /\ hung[c]
    /\ servePc' = [servePc EXCEPT ![c] = "loop"]
    /\ UNCHANGED <<serverVars, closed, sent, read, hung, broken, out, taskVars, subVars>>

\* readRequest returns EOF; messages still in flight may be lost.
ReadEOF(c) ==
    /\ servePc[c] = "reading"
    /\ hung[c]
    /\ servePc' = [servePc EXCEPT ![c] = "wait"]
    /\ UNCHANGED <<serverVars, closed, sent, read, hung, broken, out, taskVars, subVars>>

\* readRequest returns another error: report it, ignore the outcome.
ReadFailed(c) ==
    /\ servePc[c] = "badRead"
    /\ \E ok \in BOOLEAN : Write(c, ReadError, TRUE, ok)
    /\ servePc' = [servePc EXCEPT ![c] = "wait"]
    /\ UNCHANGED <<serverVars, closed, sent, read, hung, taskVars, subVars>>

\* pend.Wait.  Faulty variant first: it does not wait.
BadPendWait(c) ==
    /\ servePc[c] = "wait"
    /\ servePc' = [servePc EXCEPT ![c] = "leave"]
    /\ UNCHANGED <<serverVars, closed, sent, read, hung, broken, out, taskVars, subVars>>

PendWait(c) ==
    /\ servePc[c] = "wait"
    /\ \A m \in Msgs : ConnOf[m] = c => taskPc[m] \in {"none", "done"}
    /\ servePc' = [servePc EXCEPT ![c] = "leave"]
    /\ UNCHANGED <<serverVars, closed, sent, read, hung, broken, out, taskVars, subVars>>

\* Faulty variant: the message is executed after it was refused.
BadRefuse(c) ==
    LET m == Script[c][read[c]] IN
    /\ servePc[c] = "got"
    /\ ~run
    /\ \E ok \in BOOLEAN :
         Write(c, Response(m, [n \in 1..Len(Requests[m]) |-> "error"]), TRUE, ok)
    /\ servePc' = [servePc EXCEPT ![c] = "loop"]
    /\ taskPc' = [taskPc EXCEPT ![m] = "handle"]
    /\ UNCHANGED <<serverVars, closed, sent, read, hung, resp, callbacks, subVars>>

\* A message was read but the server is being stopped: answer every request
\* with ShutdownError, ignore the outcome, return.
Refuse(c) ==
    LET m == Script[c][read[c]] IN
    /\ servePc[c] = "got"
    /\ ~run
    /\ \E ok \in BOOLEAN :
         Write(c, Response(m, [n \in 1..Len(Requests[m]) |-> "error"]), TRUE, ok)
    /\ servePc' = [servePc EXCEPT ![c] = "leave"]
    /\ UNCHANGED <<serverVars, closed, sent, read, hung, taskVars, subVars>>

\* Start a goroutine for the message and loop back; over HTTP execute it here.
Dispatch(c) ==
    /\ servePc[c] = "got"
    /\ run
    /\ taskPc' = [taskPc EXCEPT ![Script[c][read[c]]] = "handle"]
    /\ servePc' = [servePc EXCEPT ![c] = IF c \in Websocket THEN "loop" ELSE "exec"]
    /\ UNCHANGED <<serverVars, closed, sent, read, hung, broken, out,
                   resp, callbacks, subVars>>

\* ServeSingleRequest's message has been executed.
ExecDone(c) ==
    /\ servePc[c] = "exec"
    /\ taskPc[Script[c][read[c]]] = "done"
    /\ servePc' = [servePc EXCEPT ![c] = "leave"]
    /\ UNCHANGED <<serverVars, closed, sent, read, hung, broken, out, taskVars, subVars>>

\* The deferred removal from Codecs.
Deregister(c) ==
    /\ servePc[c] = "leave"
    /\ CodecsMuFree
    /\ codecs' = codecs \ {c}
    /\ servePc' = [servePc EXCEPT ![c] = "closing"]
    /\ UNCHANGED <<run, stopPc, toClose, closed, sent, read, hung, broken, out,
                   taskVars, subVars>>

\* Faulty variant: the handler returns without closing its codec.
BadServeReturn(c) ==
    /\ servePc[c] = "closing"
    /\ servePc' = [servePc EXCEPT ![c] = "returned"]
    /\ broken' = [broken EXCEPT ![c] = TRUE]
    /\ UNCHANGED <<serverVars, closed, sent, read, hung, out, taskVars, subVars>>

\* The deferred Close of ServeCodec or of ServeHTTP; the transport's handler
\* returns and the connection with it.
ServeReturn(c) ==
    /\ servePc[c] = "closing"
    /\ closed' = closed \cup {c}
    /\ servePc' = [servePc EXCEPT ![c] = "returned"]
    /\ broken' = [broken EXCEPT ![c] = TRUE]
    /\ UNCHANGED <<serverVars, sent, read, hung, out, taskVars, subVars>>

-----------------------------------------------------------------------------
(* Stop *)

\* CompareAndSwap(&s.Run, 1, 0)
StopFlag ==
    /\ run
    /\ stopPc = "idle"
    /\ run' = FALSE
    /\ stopPc' = "flagged"
    /\ UNCHANGED <<toClose, codecs, connVars, taskVars, subVars>>

\* CodecsMu.Lock
StopLock ==
    /\ stopPc = "flagged"
    /\ stopPc' = "closing"
    /\ toClose' = codecs
    /\ UNCHANGED <<run, codecs, connVars, taskVars, subVars>>

\* One call of Close in Codecs.Each.
StopClose(c) ==
    /\ stopPc = "closing"
    /\ c \in toClose
    /\ closed' = closed \cup {c}
    /\ toClose' = toClose \ {c}
    /\ UNCHANGED <<run, stopPc, codecs, servePc, sent, read, hung, broken, out,
                   taskVars, subVars>>

\* The deferred Unlock.
StopDone ==
    /\ stopPc = "closing"
    /\ toClose = {}
    /\ stopPc' = "done"
    /\ UNCHANGED <<run, toClose, codecs, connVars, taskVars, subVars>>

-----------------------------------------------------------------------------
(* exec and execBatch: handle every request in order, write all answers at *)
(* once, then activate the subscriptions.                                  *)

\* The request the task of m handles next.
Current(m) == Requests[m][Len(resp[m]) + 1]

Handling(m, kinds) ==
    /\ taskPc[m] = "handle"
    /\ Len(resp[m]) < Len(Requests[m])
    /\ Current(m).kind \in kinds

Answer(m, a) == resp' = [resp EXCEPT ![m] = Append(@, a)]

\* A call returns its result; an invalid request, a call with the wrong
\* arguments or one that fails is answered with an error.
HandleCall(m) ==
    /\ Handling(m, {"call", "err"})
    /\ Answer(m, IF Current(m).kind = "call" THEN "result" ELSE "error")
    /\ UNCHANGED <<serverVars, connVars, taskPc, callbacks, subVars>>

\* Faulty variant: the subscription is active from the start.
BadHandleSubscribe(m) ==
    LET x == Current(m).id IN
    /\ Handling(m, {"sub"})
    /\ ConnOf[m] \in Websocket
    /\ SubMuFree(ConnOf[m])
    /\ active' = active \cup {x}
    /\ handlerPc' = [handlerPc EXCEPT ![x] = "install"]
    /\ Answer(m, "result")
    /\ UNCHANGED <<serverVars, connVars, taskPc, callbacks, inactive, errClosed,
                   events, eventLoop>>

\* createSubscription: the service creates an inactive subscription and
\* starts its handler; activation is left to the callback.
HandleSubscribe(m) ==
    LET x == Current(m).id IN
    /\ Handling(m, {"sub"})
    /\ ConnOf[m] \in Websocket
    /\ SubMuFree(ConnOf[m])
    /\ inactive' = inactive \cup {x}
    /\ handlerPc' = [handlerPc EXCEPT ![x] = "install"]
    /\ callbacks' = [callbacks EXCEPT ![m] = Append(@, x)]
    /\ Answer(m, "result")
    /\ UNCHANGED <<serverVars, connVars, taskPc, active, errClosed, events, eventLoop>>

\* notifier.unsubscribe, which knows the subscriptions of its connection only.
HandleUnsubscribe(m) ==
    LET x == Current(m).id IN
    /\ Handling(m, {"unsub"})
    /\ ConnOf[m] \in Websocket
    /\ SubMuFree(ConnOf[m])
    /\ IF x \in active /\ SubConn[x] = ConnOf[m]
       THEN /\ errClosed' = errClosed \cup {x}
            /\ active' = active \ {x}
            /\ Answer(m, "result")
       ELSE /\ Answer(m, "error")
            /\ UNCHANGED <<errClosed, active>>
    /\ UNCHANGED <<serverVars, connVars, taskPc, callbacks, inactive, handlerPc,
                   events, eventLoop>>

\* Either of them over HTTP: ErrNotificationsUnsupported.
HandleUnsupported(m) ==
    /\ Handling(m, {"sub", "unsub"})
    /\ ConnOf[m] \notin Websocket
    /\ Answer(m, "error")
    /\ UNCHANGED <<serverVars, connVars, taskPc, callbacks, subVars>>

\* The write of the answers; the codec is closed if it fails.
WriteResponse(m) ==
    LET c == ConnOf[m] IN
    /\ taskPc[m] = "handle"
    /\ Len(resp[m]) = Len(Requests[m])
    /\ \E ok \in BOOLEAN :
         /\ Write(c, Response(m, resp[m]), m \notin Unencodable, ok)
         /\ closed' = IF ok THEN closed ELSE closed \cup {c}
    /\ taskPc' = [taskPc EXCEPT ![m] = "callbacks"]
    /\ UNCHANGED <<serverVars, servePc, sent, read, hung, resp, callbacks, subVars>>

\* Faulty variant: the subscription stays in the map of inactive ones.
BadActivate(m) ==
    LET x == Head(callbacks[m]) IN
    /\ taskPc[m] = "callbacks"
    /\ callbacks[m] # << >>
    /\ SubMuFree(ConnOf[m])
    /\ active' = IF x \in inactive THEN active \cup {x} ELSE active
    /\ callbacks' = [callbacks EXCEPT ![m] = Tail(@)]
    /\ UNCHANGED <<serverVars, connVars, taskPc, resp, inactive, errClosed, handlerPc,
                   events, eventLoop>>

\* The next callback: notifier.activate.
Activate(m) ==
    LET x == Head(callbacks[m]) IN
    /\ taskPc[m] = "callbacks"
    /\ callbacks[m] # << >>
    /\ SubMuFree(ConnOf[m])
    /\ active' = IF x \in inactive THEN active \cup {x} ELSE active
    /\ inactive' = inactive \ {x}
    /\ callbacks' = [callbacks EXCEPT ![m] = Tail(@)]
    /\ UNCHANGED <<serverVars, connVars, taskPc, resp, errClosed, handlerPc, events, eventLoop>>

\* pend.Done
TaskDone(m) ==
    /\ taskPc[m] = "callbacks"
    /\ callbacks[m] = << >>
    /\ taskPc' = [taskPc EXCEPT ![m] = "done"]
    /\ UNCHANGED <<serverVars, connVars, resp, callbacks, subVars>>

-----------------------------------------------------------------------------
(* The handler goroutine of a subscription, Notify and the event loop *)

\* SubscribeResultTask returns: the event loop has installed the client.
HandlerInstalled(x) ==
    /\ handlerPc[x] = "install"
    /\ eventLoop
    /\ handlerPc' = [handlerPc EXCEPT ![x] = "idle"]
    /\ UNCHANGED <<serverVars, connVars, taskVars, active, inactive, errClosed,
                   events, eventLoop>>

\* An event: Notify takes subMu for reading and drops the notification
\* unless the subscription is active.  The channel may still hold events when
\* the event loop has stopped.
Notify(x) ==
    /\ handlerPc[x] = "idle"
    /\ events[x] < MaxEvents
    /\ events' = [events EXCEPT ![x] = @ + 1]
    /\ handlerPc' = [handlerPc EXCEPT ![x] = IF x \in active THEN "write" ELSE @]
    /\ UNCHANGED <<serverVars, connVars, taskVars, active, inactive, errClosed, eventLoop>>

\* The write inside Notify, still under subMu; the codec is closed if it
\* fails.
NotifyWrite(x) ==
    LET c == SubConn[x] IN
    /\ handlerPc[x] = "write"
    /\ \E ok \in BOOLEAN :
         /\ Write(c, Notification(x), TRUE, ok)
         /\ closed' = IF ok THEN closed ELSE closed \cup {c}
    /\ handlerPc' = [handlerPc EXCEPT ![x] = "idle"]
    /\ UNCHANGED <<serverVars, servePc, sent, read, hung, taskVars,
                   active, inactive, errClosed, events, eventLoop>>

\* Err or Closed: the handler calls Unsubscribe of its event subscription.
HandlerLeave(x) ==
    /\ handlerPc[x] = "idle"
    /\ x \in errClosed \/ SubConn[x] \in closed
    /\ handlerPc' = [handlerPc EXCEPT ![x] = "uninstall"]
    /\ UNCHANGED <<serverVars, connVars, taskVars, active, inactive, errClosed,
                   events, eventLoop>>

\* Unsubscribe returns, the event loop having uninstalled the client, and the
\* handler with it.
HandlerReturn(x) ==
    /\ handlerPc[x] = "uninstall"
    /\ eventLoop
    /\ handlerPc' = [handlerPc EXCEPT ![x] = "stopped"]
    /\ UNCHANGED <<serverVars, connVars, taskVars, active, inactive, errClosed,
                   events, eventLoop>>

\* Node.Stop stops the services after the servers: Manager.Stop ends the event
\* loop for good, whoever waits for it.
EventLoopStop ==
    /\ eventLoop
    /\ stopPc = "done"
    /\ eventLoop' = FALSE
    /\ UNCHANGED <<serverVars, connVars, taskVars, active, inactive, errClosed,
                   handlerPc, events>>

-----------------------------------------------------------------------------
(* The client (external) *)

\* Sends its next message; it can only name subscriptions whose id it has.
ClientSend(c) ==
    /\ ~hung[c]
    /\ sent[c] < Len(Script[c])
    /\ \A k \in 1..Len(Requests[Script[c][sent[c] + 1]]) :
         LET q == Requests[Script[c][sent[c] + 1]][k]
         IN  q.kind = "unsub" => IdSent(q.id)
    /\ sent' = [sent EXCEPT ![c] = @ + 1]
    /\ UNCHANGED <<serverVars, servePc, closed, read, hung, broken, out, taskVars, subVars>>

ClientHangUp(c) ==
    /\ ~hung[c]
    /\ hung' = [hung EXCEPT ![c] = TRUE]
    /\ UNCHANGED <<serverVars, servePc, closed, sent, read, broken, out, taskVars, subVars>>

-----------------------------------------------------------------------------
ServeStep(c) ==
    \/ Register(c) \/ LoopTest(c) \/ ReadMessage(c) \/ ReadEOF(c) \/ ReadFailed(c)
    \/ PendWait(c) \/ Refuse(c) \/ Dispatch(c) \/ ExecDone(c)
    \/ Deregister(c) \/ ServeReturn(c)

StopStep == StopLock \/ (\E c \in Conns : StopClose(c)) \/ StopDone

TaskStep(m) ==
    \/ HandleCall(m) \/ HandleSubscribe(m) \/ HandleUnsubscribe(m) \/ HandleUnsupported(m)
    \/ WriteResponse(m) \/ Activate(m) \/ TaskDone(m)

HandlerStep(x) == HandlerInstalled(x) \/ HandlerLeave(x) \/ HandlerReturn(x)

\* Every call of the server has returned; a handler may be left that waits for
\* an event loop that has stopped.
Terminated ==
    /\ stopPc = "done"
    /\ \A c \in Conns : servePc[c] = "returned"
    /\ \A m \in Msgs : taskPc[m] \in {"none", "done"}
    /\ UNCHANGED vars

Next ==
    \/ \E c \in Conns : ServeStep(c) \/ ClientSend(c) \/ ClientHangUp(c)
    \/ StopFlag \/ StopStep
    \/ \E m \in Msgs : TaskStep(m)
    \/ \E x \in Subs : Notify(x) \/ NotifyWrite(x) \/ HandlerStep(x)
    \/ EventLoopStop
    \/ Terminated

Spec == Init /\ [][Next]_vars

\* The Go scheduler runs every goroutine that can run, and an event loop that
\* runs serves whoever waits for it (CallsReturn of EventMsg).  Nothing is
\* assumed of clients, of Stop being called, of events happening or of the
\* event loop being stopped.
Fairness ==
    /\ \A c \in Conns : WF_vars(ServeStep(c))
    /\ WF_vars(StopStep)
    /\ \A m \in Msgs : WF_vars(TaskStep(m))
    /\ \A x \in Subs : WF_vars(NotifyWrite(x)) /\ WF_vars(HandlerStep(x))

FairSpec == Spec /\ Fairness

-----------------------------------------------------------------------------
(* Properties *)

Items ==
    {ReadError} \cup [kind : {"notification"}, sub : Subs]
    \cup [kind : {"response"}, msg : Msgs, ans : Seq({"result", "error"})]

\* Type invariant of the server, its connections, tasks and subscriptions;
\* a subscription is never in both maps of the notifier.
TypeOK ==
    /\ run \in BOOLEAN
    /\ stopPc \in {"idle", "flagged", "closing", "done"}
    /\ toClose \subseteq Conns
    /\ codecs \subseteq Conns
    /\ servePc \in [Conns -> {"new", "loop", "reading", "got", "badRead", "exec",
                              "wait", "leave", "closing", "returned"}]
    /\ closed \subseteq Conns
    /\ sent \in [Conns -> Nat]
    /\ read \in [Conns -> Nat]
    /\ hung \in [Conns -> BOOLEAN]
    /\ broken \in [Conns -> BOOLEAN]
    /\ out \in [Conns -> Seq(Items)]
    /\ taskPc \in [Msgs -> {"none", "handle", "callbacks", "done"}]
    /\ resp \in [Msgs -> Seq({"result", "error"})]
    /\ callbacks \in [Msgs -> Seq(Subs)]
    /\ active \subseteq Subs
    /\ inactive \subseteq Subs
    /\ active \cap inactive = {}
    /\ errClosed \subseteq Subs
    /\ handlerPc \in [Subs -> {"none", "install", "idle", "write", "uninstall", "stopped"}]
    /\ events \in [Subs -> 0..MaxEvents]
    /\ eventLoop \in BOOLEAN

\* No notification reaches the client before the id of its subscription: the
\* handler runs from before the response is written, and only activate, after
\* the write, lets its notifications through.
IdBeforeNotification ==
    \A x \in Subs : LET c == SubConn[x] IN
        \A k \in 1..Len(out[c]) : out[c][k] = Notification(x) =>
            \E j \in 1..(k - 1) : Answers(c, j, Subscribed(x), "result")

\* Once the client has been told that its unsubscribe succeeded, it gets no
\* more notifications of that subscription, although handlers, tasks and
\* their writes run concurrently.
SilentAfterUnsubscribe ==
    \A x \in Subs : LET c == SubConn[x] IN
        \A j \in 1..Len(out[c]) : Answers(c, j, Unsubscribed(x), "result") =>
            \A k \in j..Len(out[c]) : out[c][k] # Notification(x)

\* Every message is answered at most once, only after it was read, with one
\* answer per request.
AnsweredOnce ==
    \A c \in Conns : \A k \in 1..Len(out[c]) : out[c][k].kind = "response" =>
        LET m == out[c][k].msg IN
        /\ \E n \in 1..read[c] : Script[c][n] = m
        /\ Len(out[c][k].ans) = Len(Requests[m])
        /\ \A j \in 1..(k - 1) :
             out[c][j].kind = "response" => out[c][j].msg # m

\* When Stop has returned, every codec that is being served is closed, also
\* one that was registering meanwhile: no handler can wait on it forever.
StopClosesAll ==
    stopPc = "done" =>
        \A c \in Conns : servePc[c] \in {"new", "leave", "closing"} \/ c \in closed

\* As long as nobody calls Stop, a connection is not given up before all its
\* tasks have finished.
TasksFinishFirst ==
    run => \A m \in Msgs : servePc[ConnOf[m]] \in {"leave", "closing", "returned"} =>
                              taskPc[m] \in {"none", "done"}

\* What subscription.go:48 says of Err: it is closed when the client sends an
\* unsubscribe request.
UnsubscribeClosesErr ==
    \A m \in Msgs : taskPc[m] = "done" =>
        \A k \in 1..Len(Requests[m]) :
            Requests[m][k].kind = "unsub" => Requests[m][k].id \in errClosed

\* Every message that is read is answered unless the client hangs up, the
\* server is stopped or the answer cannot be encoded; in particular when the
\* connection is given up because of a later message that cannot be parsed.
ReadIsAnswered ==
    \A c \in Conns : \A n \in 1..Len(Script[c]) :
        read[c] >= n ~> \/ hung[c] \/ ~run
                        \/ Script[c][n] \in Unencodable \cup Garbage
                        \/ \E k \in 1..Len(out[c]) :
                             out[c][k].kind = "response" /\ out[c][k].msg = Script[c][n]

\* A client that hangs up ends the service of its connection.
HangUpEndsServe == \A c \in Conns : hung[c] ~> servePc[c] = "returned"

\* As long as the event loop runs, no handler goroutine outlives its connection
\* or a successful unsubscribe, also one that is created while the connection
\* is being given up.  Manager.Stop, which follows Server.Stop without waiting
\* for the handlers, leaves those behind that had not yet been uninstalled.
HandlersStop ==
    \A x \in Subs :
        (x \in errClosed \/ servePc[SubConn[x]] = "returned")
            ~> handlerPc[x] \in {"none", "stopped"} \/ ~eventLoop
=============================================================================
