-------------------------------- MODULE Node --------------------------------
(***************************************************************************)
(* The life cycle of a node (template/node.go.tpl) and of its websocket    *)
(* endpoint as the admin API changes it (template/api.go.tpl).             *)
(*                                                                         *)
(* Start, Stop and Restart run under the node's lock.  StartWS and StopWS  *)
(* of the admin API run under the mutex of the API object only, and call   *)
(* the same helpers on the same fields.  Every Start makes a new API       *)
(* object.  The calls of the admin API are RPC requests: they arrive while *)
(* an endpoint is open and may run at any time after that.                 *)
(* Construction of the services has no effect on the node and is left out. *)
(***************************************************************************)
EXTENDS Integers, FiniteSets

CONSTANTS
    Callers,    \* goroutines that call Start, Stop and Restart
    Admins,     \* requests of the admin API being served
    Kinds,      \* kinds of service that are registered
    NodePort,   \* WSPort of the node's configuration
    Ports,      \* websocket ports
    NoPort,     \* nil
    Nobody,
    MaxFaults,  \* bound: failures of services and of net.Listen
    MaxCalls    \* bound: calls of Start, Stop and Restart, and admin requests

ASSUME NodeAssumption ==
    /\ NodePort \in Ports /\ NoPort \notin Ports
    /\ Nobody \notin Callers \cup Admins /\ Callers \cap Admins = {}
    /\ MaxFaults \in Nat /\ MaxCalls \in Nat

Threads == Callers \cup Admins

VARIABLES
    isRunning,
    lock,            \* who holds Node.lock
    mu,              \* the requests that hold mu of their PrivateAdminAPI
    api,             \* how many API objects there have been: the last is the node's
    apiOf,           \* the API object of a request
    overHTTP,        \* requests that came over HTTP
    held,            \* Node.services is set
    running,         \* running[k]: started services of kind k
    http,            \* Node.httpListener and httpHandler, set and cleared together
    wsListener, wsHandler,
    open,            \* websocket ports that are listened on
    wsPort,          \* conf.DefaultConfig.WSPort
    pc, op,          \* where a thread is, in which call
    todo,            \* services Start has not started yet
    port,            \* the listener a thread has opened
    faults, calls,
    orphans,         \* Starts that failed after the services were started
    astray           \* an admin call has been at work on a node that was not up,
                     \* or together with a node call or with an admin call of
                     \* another API object

fields == <<isRunning, held, http, wsListener, wsHandler>>
apis == <<api, apiOf, overHTTP>>
vars == <<fields, apis, lock, mu, running, open, wsPort, pc, op, todo, port, faults, calls, orphans, astray>>

Init ==
    /\ isRunning = FALSE
    /\ lock = Nobody /\ mu = {}
    /\ api = 0 /\ apiOf = [t \in Admins |-> 0] /\ overHTTP = {}
    /\ held = FALSE
    /\ running = [k \in Kinds |-> 0]
    /\ http = FALSE
    /\ wsListener = NoPort /\ wsHandler = NoPort
    /\ open = {}
    /\ wsPort = NodePort
    /\ pc = [t \in Threads |-> "idle"]
    /\ op = [t \in Threads |-> "none"]
    /\ todo = {}
    /\ port = [t \in Threads |-> NoPort]
    /\ faults = 0 /\ calls = 0 /\ orphans = 0
    /\ astray = FALSE

AtWork(t) == pc[t] \notin {"idle", "sent", "again"}
InWs(t) == pc[t] \in {"listen", "setListener", "setHandler", "testListener",
                      "close", "clear", "testHandler", "stopHandler", "down"}

\* Another thread has set a field to nil since t tested it.  A request over
\* HTTP recovers in serveRequest; one over a websocket, which has a goroutine
\* of its own, and a node call end the process.
Panics(t) ==
    \/ pc[t] = "close" /\ wsListener = NoPort
    \/ pc[t] = "stopHandler" /\ wsHandler = NoPort
Crashed == \E t \in Threads \ overHTTP : Panics(t)

\* Two calls that no mutex keeps apart.
Apart(a, t) == t \in Callers \/ (t \in Admins /\ apiOf[t] # apiOf[a])

\* Thread t goes on at label, or begins a call there; the ghost astray looks at where all then are.
At(t, label) ==
    /\ ~Crashed
    /\ pc' = [pc EXCEPT ![t] = label]
    /\ astray' = (astray \/ \E a \in Admins :
         InWs(a)' /\ (~isRunning \/ \E u \in Threads : InWs(u)' /\ Apart(a, u)))
Goto(t, label) ==
    /\ At(t, label)
    /\ op' = IF label = "idle" THEN [op EXCEPT ![t] = "none"] ELSE op
Fault == faults < MaxFaults /\ faults' = faults + 1
Begin(t, o, label) ==
    /\ calls < MaxCalls /\ calls' = calls + 1
    /\ At(t, label)
    /\ op' = [op EXCEPT ![t] = o]

-----------------------------------------------------------------------------
(* Start *)

\* A caller takes the lock; if the node is running Start returns.
Start(t) ==
    /\ lock = Nobody /\ ~isRunning
    /\ LET label == IF Kinds = {} THEN "http" ELSE "services"
       IN \/ pc[t] = "idle" /\ Begin(t, "start", label)
          \/ pc[t] = "again" /\ Goto(t, label) /\ UNCHANGED calls
    /\ lock' = t
    /\ todo' = Kinds
    /\ UNCHANGED <<fields, apis, mu, running, open, wsPort, port, faults, orphans>>

\* Restart finds that somebody else has started the node.
StartRefused(t) ==
    /\ pc[t] = "again" /\ lock = Nobody /\ isRunning
    /\ Goto(t, "idle")
    /\ UNCHANGED <<fields, apis, lock, mu, running, open, wsPort, todo, port, faults, calls, orphans>>

StartService(t) ==
    /\ pc[t] = "services" /\ todo # {}
    /\ \E k \in todo :
         /\ running' = [running EXCEPT ![k] = @ + 1]
         /\ todo' = todo \ {k}
    /\ Goto(t, IF todo' = {} THEN "http" ELSE "services")
    /\ UNCHANGED <<fields, apis, lock, mu, open, wsPort, port, faults, calls, orphans>>

\* A service fails to start and the ones started before are stopped.
StartServiceFails(t) ==
    /\ pc[t] = "services" /\ todo # {}
    /\ Fault
    /\ running' = [k \in Kinds |-> IF k \in todo THEN running[k] ELSE running[k] - 1]
    /\ lock' = Nobody
    /\ todo' = {}
    /\ Goto(t, "idle")
    /\ UNCHANGED <<fields, apis, mu, open, wsPort, port, calls, orphans>>

\* startRPC, startHTTP: a failure leaves the services running.
StartHTTP(t) ==
    /\ pc[t] = "http"
    /\ api' = api + 1
    /\ \/ http' = TRUE /\ Goto(t, "listen") /\ UNCHANGED <<lock, faults, orphans>>
       \/ Fault /\ orphans' = orphans + 1 /\ lock' = Nobody /\ Goto(t, "idle") /\ UNCHANGED http
    /\ UNCHANGED <<isRunning, held, wsListener, wsHandler, mu, apiOf, overHTTP, running, open, wsPort,
                   todo, port, calls>>

\* StartWS of the node: listen on the port of the caller's configuration ...
PortOf(t) == IF t \in Callers THEN NodePort ELSE wsPort
Listen(t) ==
    /\ pc[t] = "listen"
    /\ PortOf(t) \notin open
    /\ open' = open \cup {PortOf(t)}
    /\ port' = [port EXCEPT ![t] = PortOf(t)]
    /\ Goto(t, "setListener")
    /\ UNCHANGED <<fields, apis, lock, mu, running, wsPort, todo, faults, calls, orphans>>

\* ... which fails if the port is in use, here or elsewhere; startRPC then
\* stops HTTP.  Faulty variant: it does not.
BadListenFails(t) ==
    /\ pc[t] = "listen"
    /\ IF PortOf(t) \in open THEN UNCHANGED faults ELSE Fault
    /\ lock' = (IF t \in Callers THEN Nobody ELSE lock)
    /\ mu' = mu \ {t}
    /\ orphans' = (IF t \in Callers THEN orphans + 1 ELSE orphans)
    /\ Goto(t, "idle")
    /\ UNCHANGED <<fields, apis, running, open, wsPort, todo, port, calls>>
ListenFails(t) ==
    /\ pc[t] = "listen"
    /\ IF PortOf(t) \in open THEN UNCHANGED faults ELSE Fault
    /\ IF t \in Callers
       THEN http' = FALSE /\ orphans' = orphans + 1 /\ lock' = Nobody
       ELSE UNCHANGED <<http, orphans, lock>>
    /\ mu' = mu \ {t}
    /\ Goto(t, "idle")
    /\ UNCHANGED <<apis, isRunning, held, wsListener, wsHandler, running, open, wsPort, todo, port, calls>>

SetListener(t) ==
    /\ pc[t] = "setListener"
    /\ wsListener' = port[t]
    /\ Goto(t, "setHandler")
    /\ UNCHANGED <<apis, isRunning, held, http, wsHandler, lock, mu, running, open, wsPort, todo,
                   port, faults, calls, orphans>>

\* ... and sets the fields; Start is then complete.
SetHandler(t) ==
    /\ pc[t] = "setHandler"
    /\ wsHandler' = port[t]
    /\ port' = [port EXCEPT ![t] = NoPort]
    /\ IF t \in Callers
       THEN isRunning' = TRUE /\ held' = TRUE /\ lock' = Nobody
       ELSE UNCHANGED <<isRunning, held, lock>>
    /\ mu' = mu \ {t}
    /\ Goto(t, "idle")
    /\ UNCHANGED <<apis, http, wsListener, running, open, wsPort, todo, faults, calls, orphans>>

-----------------------------------------------------------------------------
(* Stop and Restart *)

\* Faulty variant: a node that is not running is stopped, too.
BadStop(t) ==
    /\ pc[t] = "idle" /\ lock = Nobody
    /\ \E o \in {"stop", "restart"} : Begin(t, o, "testListener")
    /\ lock' = t
    /\ UNCHANGED <<fields, apis, mu, running, open, wsPort, todo, port, faults, orphans>>
Stop(t) ==
    /\ pc[t] = "idle" /\ lock = Nobody /\ isRunning
    /\ \E o \in {"stop", "restart"} : Begin(t, o, "testListener")
    /\ lock' = t
    /\ UNCHANGED <<fields, apis, mu, running, open, wsPort, todo, port, faults, orphans>>

\* StopWS of the node, statement by statement.
TestListener(t) ==
    /\ pc[t] = "testListener"
    /\ Goto(t, IF wsListener = NoPort THEN "testHandler" ELSE "close")
    /\ UNCHANGED <<fields, apis, lock, mu, running, open, wsPort, todo, port, faults, calls, orphans>>

Close(t) ==
    /\ pc[t] = "close" /\ wsListener # NoPort
    /\ open' = open \ {wsListener}
    /\ Goto(t, "clear")
    /\ UNCHANGED <<fields, apis, lock, mu, running, wsPort, todo, port, faults, calls, orphans>>

Clear(t) ==
    /\ pc[t] = "clear"
    /\ wsListener' = NoPort
    /\ Goto(t, "testHandler")
    /\ UNCHANGED <<apis, isRunning, held, http, wsHandler, lock, mu, running, open, wsPort, todo,
                   port, faults, calls, orphans>>

\* A caller goes on with Stop, an admin call releases mu and returns.
\* Faulty variant: mu stays locked.
BadReturns(t, label) ==
    /\ Goto(t, IF t \in Callers THEN label ELSE "idle")
    /\ UNCHANGED mu
Returns(t, label) ==
    /\ Goto(t, IF t \in Callers THEN label ELSE "idle")
    /\ mu' = mu \ {t}

TestHandler(t) ==
    /\ pc[t] = "testHandler"
    /\ IF wsHandler # NoPort THEN Goto(t, "stopHandler") /\ UNCHANGED mu ELSE Returns(t, "down")
    /\ UNCHANGED <<fields, apis, lock, running, open, wsPort, todo, port, faults, calls, orphans>>

StopHandler(t) ==
    /\ pc[t] = "stopHandler" /\ wsHandler # NoPort
    /\ wsHandler' = NoPort
    /\ Returns(t, "down")
    /\ UNCHANGED <<apis, isRunning, held, http, wsListener, lock, running, open, wsPort, todo,
                   port, faults, calls, orphans>>

\* stopHTTP, then every service; if one fails to stop, Stop returns an error
\* all the same done with its work, but Restart does not start again.
Down(t) ==
    /\ pc[t] = "down"
    /\ http' = FALSE
    /\ running' = [k \in Kinds |-> running[k] - 1]
    /\ held' = FALSE
    /\ isRunning' = FALSE
    /\ lock' = Nobody
    /\ \/ Goto(t, IF op[t] = "restart" THEN "again" ELSE "idle") /\ UNCHANGED faults
       \/ Kinds # {} /\ Fault /\ Goto(t, "idle")
    /\ UNCHANGED <<apis, wsListener, wsHandler, mu, open, wsPort, todo, port, calls, orphans>>

-----------------------------------------------------------------------------
(* The admin API *)

\* A request arrives over an endpoint that is open: HTTP has the API object of
\* the last Start, a websocket that nobody closed may have an older one.
AdminRequest(t) ==
    /\ pc[t] = "idle"
    /\ \/ http /\ overHTTP' = overHTTP \cup {t} /\ apiOf' = [apiOf EXCEPT ![t] = api]
       \/ /\ open # {} /\ overHTTP' = overHTTP \ {t}
          /\ \E i \in 1 .. api : apiOf' = [apiOf EXCEPT ![t] = i]
    /\ \E o \in {"StartWS", "StopWS"} : Begin(t, o, "sent")
    /\ UNCHANGED <<fields, api, lock, mu, running, open, wsPort, todo, port, faults, orphans>>

\* Nobody holds mu of the API object of t.
Free(t) == \A u \in mu : apiOf[u] # apiOf[t]

\* StartWS: the port, if given, is written to the default configuration.
\* Faulty variant: mu is not taken.
BadAdminStartWS(t) ==
    /\ pc[t] = "sent" /\ op[t] = "StartWS"
    /\ IF wsHandler # NoPort THEN Goto(t, "idle") /\ UNCHANGED wsPort
       ELSE wsPort' \in Ports /\ Goto(t, "listen")
    /\ UNCHANGED <<fields, apis, lock, mu, running, open, todo, port, faults, calls, orphans>>
AdminStartWS(t) ==
    /\ pc[t] = "sent" /\ op[t] = "StartWS" /\ Free(t)
    /\ IF wsHandler # NoPort THEN Goto(t, "idle") /\ UNCHANGED <<wsPort, mu>>
       ELSE wsPort' \in Ports /\ mu' = mu \cup {t} /\ Goto(t, "listen")
    /\ UNCHANGED <<fields, apis, lock, running, open, todo, port, faults, calls, orphans>>

AdminStopWS(t) ==
    /\ pc[t] = "sent" /\ op[t] = "StopWS" /\ Free(t)
    /\ IF wsHandler = NoPort THEN Goto(t, "idle") /\ UNCHANGED mu
       ELSE mu' = mu \cup {t} /\ Goto(t, "testListener")
    /\ UNCHANGED <<fields, apis, lock, running, open, wsPort, todo, port, faults, calls, orphans>>

\* The recover of serveRequest; mu is unlocked on the way there.
Recover(t) ==
    /\ t \in overHTTP /\ Panics(t)
    /\ mu' = mu \ {t}
    /\ Goto(t, "idle")
    /\ UNCHANGED <<fields, apis, lock, running, open, wsPort, todo, port, faults, calls, orphans>>

-----------------------------------------------------------------------------
Step(t) ==
    \/ StartService(t) \/ StartServiceFails(t) \/ StartHTTP(t)
    \/ Listen(t) \/ ListenFails(t) \/ SetListener(t) \/ SetHandler(t)
    \/ TestListener(t) \/ Close(t) \/ Clear(t) \/ TestHandler(t) \/ StopHandler(t) \/ Down(t)
Served(t) == AdminStartWS(t) \/ AdminStopWS(t) \/ Recover(t) \/ Step(t)
Called(t) == (pc[t] = "again" /\ Start(t)) \/ StartRefused(t) \/ Step(t)

Next ==
    \/ \E t \in Callers : Start(t) \/ Stop(t) \/ StartRefused(t)
    \/ \E t \in Admins : AdminRequest(t) \/ AdminStartWS(t) \/ AdminStopWS(t) \/ Recover(t)
    \/ \E t \in Threads : Step(t)

\* Goroutines run, and a Go mutex is handed to those who wait for it.
Spec ==
    /\ Init /\ [][Next]_vars
    /\ \A t \in Callers : SF_vars(Called(t))
    /\ \A t \in Admins : SF_vars(Served(t))

-----------------------------------------------------------------------------
(* Properties *)

\* Type invariant of the node and its callers.
TypeOK ==
    /\ isRunning \in BOOLEAN /\ held \in BOOLEAN /\ http \in BOOLEAN
    /\ lock \in Callers \cup {Nobody} /\ mu \subseteq Admins
    /\ api \in Nat /\ apiOf \in [Admins -> 0 .. api] /\ overHTTP \subseteq Admins
    /\ running \in [Kinds -> Nat]
    /\ wsListener \in Ports \cup {NoPort} /\ wsHandler \in Ports \cup {NoPort}
    /\ open \subseteq Ports /\ wsPort \in Ports

\* While no node call is at work, the HTTP endpoint and the services are up
\* exactly if the node is running, whatever failed and however admin calls
\* interleave, except for one service of each kind per Start that failed in
\* startRPC: only that failure leaves services behind, and no later Stop
\* reaches them (Start, node.go.tpl:168-186, startRPC, Stop).
UpOrDown ==
    lock = Nobody =>
        /\ isRunning = http /\ isRunning = held
        /\ \A k \in Kinds : running[k] = orphans + (IF isRunning THEN 1 ELSE 0)

\* As long as admin calls have only been at work while the node was up, and
\* not beside a node call or a request to the API object of an earlier Start,
\* the websocket endpoint is what the fields say: between calls, only the
\* listener of the node is open, and it has a handler, and during calls none
\* finds a field nil that it has tested (StartWS and StopWS under mu; a request
\* still in flight when Stop or Restart runs breaks it).
WsHeld ==
    ~astray =>
        /\ \A t \in Threads : ~Panics(t)
        /\ (\A t \in Threads : ~AtWork(t)) =>
              open = {wsListener} \ {NoPort} /\ wsListener = wsHandler

\* Every call returns unless the process panics: lock and mu are never
\* waited for in a cycle, also when an admin call stops the endpoint that
\* serves it.
CallsReturn ==
    \A t \in Threads : pc[t] # "idle" ~> (pc[t] = "idle" \/ Crashed)
=============================================================================
