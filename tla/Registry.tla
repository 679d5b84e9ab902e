------------------------------ MODULE Registry ------------------------------
(***************************************************************************)
(* Service registration with Consul or etcd (pkg/registry): providers that *)
(* register their service, refresh it, deregister it or crash, the registry *)
(* that lets registrations expire, and the lookup of its clients.          *)
(*                                                                         *)
(* The registry is a map from the id of a node to its entry.  Time is a    *)
(* Tick that ages entries and calls; ages stop counting once nothing       *)
(* depends on them.  Consul and etcd themselves are external.  A request   *)
(* that writes takes effect at some time after it was sent and is answered *)
(* at some time after that; it may fail before or after it has taken       *)
(* effect, but not take effect later.  Clients of Consul allow stale reads *)
(* and are answered from a copy of the entries that may lag behind.        *)
(***************************************************************************)
EXTENDS Integers, Sequences, FiniteSets, FiniteSetsExt, SequencesExt

CONSTANTS
    Providers,
    Svc,         \* Svc[p]: the service of p: name, version, host, port
    Ttl,         \* Ttl[p]: argument of RegisterWithTTL, 0 for Register
    Nanos,       \* nanoseconds in a second, in which etcd is asked for leases
    Minimum,     \* two minutes
    Interval,    \* DefaultInterval
    ReqTimeout,  \* reqTimeout: what a call takes at most
    MaxFaults    \* bound: failed calls and calls of Deregister

\* A call is given less than 10^9 seconds: a lease does not run out before the
\* call that asked for it puts the key.
ASSUME RegistryAssumption ==
    /\ Ttl \in [Providers -> Nat]
    /\ {Nanos, Minimum, Interval, ReqTimeout, MaxFaults} \subseteq Nat
    /\ Nanos > 1 /\ Nanos > ReqTimeout
    /\ \A p \in Providers : DOMAIN Svc[p] = {"name", "version", "host", "port"}

VARIABLES
    backend,  \* "consul" or "etcd"
    store,    \* the entries of the registry
    copy,     \* the entries as known to the Consul server that answers lookups
    copied,   \* the entries copied since the last call for them returned nil
    pc,       \* where a provider's call is; "idle" between calls
    wait,     \* ticks since the call began
    fresh,    \* ticks since the last call that returned nil began, -1 if there
              \* is none or the service was deregistered after it began
    undone,   \* providers deregistered since their call began
    faults

vars == <<backend, store, copy, copied, pc, wait, fresh, undone, faults>>
copies == <<copy, copied>>

-----------------------------------------------------------------------------
(* entity.go *)

\* The key of a node: /airman/<name><version>/<host>/<port>.
NewService(p) == <<"airman", Svc[p].name \o Svc[p].version, Svc[p].host, Svc[p].port>>
Ids == {NewService(p) : p \in Providers}

GetTags(p) ==
    <<[key |-> "a", val |-> <<"service">>]>>
    \o (IF Svc[p].version # << >> THEN <<[key |-> "v", val |-> Svc[p].version]>> ELSE << >>)
    \o <<[key |-> "h", val |-> <<Svc[p].host>>]>>

\* The first tag of a kind, and the tag equal to the input, without prefix.
TagValue(tags, Is(_)) ==
    LET found == SelectSeq(tags, Is) IN IF found = << >> THEN << >> ELSE Head(found).val
tagsVersion(tags) == TagValue(tags, LAMBDA t : t.key = "v")
tagsCheck(tags, tag) == TagValue(tags, LAMBDA t : t = tag)

-----------------------------------------------------------------------------
(* Entries *)

Gone == [check |-> "none", ttl |-> 0, after |-> 0, passing |-> FALSE, age |-> 0, tags |-> << >>]
Entry(p, check, ttl, after, passing, age) ==
    [check |-> check, ttl |-> ttl, after |-> after, passing |-> passing, age |-> age,
     tags |-> GetTags(p)]

getDeregisterTTL(t) == IF t < Minimum THEN Minimum ELSE t + Interval

Present(id) == store[id] # Gone
Id(p) == NewService(p)
Alive(p) == pc[p] # "crashed"

\* The providers in running are at work; the others have crashed or were never
\* started.
InitOf(running) ==
    /\ backend \in {"consul", "etcd"}
    /\ store = [id \in Ids |-> Gone]
    /\ copy = store
    /\ copied = {}
    /\ pc = [p \in Providers |-> IF p \in running THEN "idle" ELSE "crashed"]
    /\ wait = [p \in Providers |-> 0]
    /\ fresh = [p \in Providers |-> -1]
    /\ undone = {}
    /\ faults = 0
Init == \E running \in SUBSET Providers : InitOf(running)

Goto(p, label) == pc' = [pc EXCEPT ![p] = label]
Fault == faults < MaxFaults /\ faults' = faults + 1

\* The provider goes on within its call.
Continue(p, label) == Goto(p, label) /\ UNCHANGED <<copied, wait, fresh, undone>>

\* The registry acts on the request of p; the answer is still to come.
Acts(p, effect, label) == store' = effect /\ Continue(p, label) /\ UNCHANGED faults

\* The provider's call returns nil or an error.
ReturnNil(p) ==
    /\ Goto(p, "idle")
    /\ fresh' = [fresh EXCEPT ![p] = IF p \in undone THEN -1 ELSE wait[p]]
    /\ wait' = [wait EXCEPT ![p] = 0]
    /\ copied' = copied \ {Id(p)}
    /\ UNCHANGED <<store, undone, faults>>
ReturnErr(p) ==
    /\ Goto(p, "idle")
    /\ wait' = [wait EXCEPT ![p] = 0]
    /\ UNCHANGED <<store, copied, fresh, undone>>

\* Register, if the TTL is 0, or RegisterWithTTL is called, and sends its
\* first request.
Begin(p) ==
    /\ pc[p] = "idle"
    /\ Goto(p, IF backend = "consul" THEN "refresh" ELSE IF Ttl[p] = 0 THEN "put" ELSE "grant")
    /\ undone' = undone \ {p}
    /\ UNCHANGED <<backend, store, copy, copied, wait, fresh, faults>>

-----------------------------------------------------------------------------
(* Consul *)

\* PassTTL of the agent, which knows only TTL checks.
CanPass(p) == store[Id(p)].check = "ttl"
Passed(p) == [store EXCEPT ![Id(p)] = [@ EXCEPT !.passing = TRUE, !.age = 0]]

\* RegisterWithTTL and Register begin with a refresh; any error of it leads
\* to a full registration.  Faulty variant: the error is returned.
BadConsulRefresh(p) ==
    /\ backend = "consul"
    /\ \/ pc[p] = "refresh" /\ CanPass(p) /\ Acts(p, Passed(p), "refreshed")
       \/ pc[p] = "refreshed" /\ ReturnNil(p)
       \/ pc[p] = "refresh" /\ ~CanPass(p) /\ ReturnErr(p) /\ UNCHANGED faults
    /\ UNCHANGED <<backend, copy>>
ConsulRefresh(p) ==
    /\ backend = "consul"
    /\ \/ pc[p] = "refresh" /\ CanPass(p) /\ Acts(p, Passed(p), "refreshed")
       \/ pc[p] = "refreshed" /\ ReturnNil(p)
       \/ /\ \/ pc[p] = "refresh" /\ ~CanPass(p) /\ UNCHANGED faults
             \/ pc[p] \in {"refresh", "refreshed"} /\ Fault
          /\ Continue(p, "register")
          /\ UNCHANGED store
    /\ UNCHANGED <<backend, copy>>

\* ServiceRegister: a new check is critical until it passes; the agent keeps
\* the status of a check that is replaced and starts its timer anew.
ConsulRegister(p) ==
    /\ backend = "consul"
    /\ \/ /\ pc[p] = "register"
          /\ LET check == IF Ttl[p] = 0 THEN "http" ELSE "ttl"
                 effect == [store EXCEPT ![Id(p)] =
                              Entry(p, check, Ttl[p], getDeregisterTTL(Ttl[p]), @.passing, 0)]
             IN Acts(p, effect, "registered")
       \/ pc[p] = "registered" /\ Ttl[p] = 0 /\ ReturnNil(p)
       \/ pc[p] = "registered" /\ Ttl[p] > 0 /\ Continue(p, "pass") /\ UNCHANGED <<store, faults>>
       \/ pc[p] \in {"register", "registered"} /\ Fault /\ ReturnErr(p)
    /\ UNCHANGED <<backend, copy>>

\* The PassTTL that ends RegisterWithTTL.  Faulty variant: it is not called.
BadConsulPass(p) ==
    /\ backend = "consul"
    /\ pc[p] = "pass" /\ ReturnNil(p)
    /\ UNCHANGED <<backend, copy>>
ConsulPass(p) ==
    /\ backend = "consul"
    /\ \/ pc[p] = "pass" /\ CanPass(p) /\ Acts(p, Passed(p), "passed")
       \/ pc[p] = "passed" /\ ReturnNil(p)
       \/ pc[p] = "pass" /\ ~CanPass(p) /\ ReturnErr(p) /\ UNCHANGED faults
       \/ pc[p] \in {"pass", "passed"} /\ Fault /\ ReturnErr(p)
    /\ UNCHANGED <<backend, copy>>

\* The agent's probe of the HTTP check, made every Interval.
ConsulProbe(p) ==
    /\ backend = "consul" /\ store[Id(p)].check = "http"
    /\ store[Id(p)].passing # Alive(p)
    /\ store' = [store EXCEPT ![Id(p)] = [@ EXCEPT !.passing = Alive(p), !.age = 0]]
    /\ UNCHANGED <<backend, copies, pc, wait, fresh, undone, faults>>

\* An entry reaches the server that answers lookups.
Timeless(e) == [e EXCEPT !.age = 0]
ConsulCopy(id) ==
    /\ backend = "consul"
    /\ id \notin copied \/ copy[id] # Timeless(store[id])
    /\ copy' = [copy EXCEPT ![id] = Timeless(store[id])]
    /\ copied' = copied \cup {id}
    /\ UNCHANGED <<backend, store, pc, wait, fresh, undone, faults>>

-----------------------------------------------------------------------------
(* etcd *)

\* Register puts the key; RegisterWithTTL asks for a lease first and does not
\* look at the error of Grant ...
EtcdGrant(p) ==
    /\ backend = "etcd" /\ pc[p] = "grant"
    /\ \/ Continue(p, "get") /\ UNCHANGED faults
       \/ Continue(p, "getNil") /\ Fault
    /\ UNCHANGED <<backend, store, copy>>

\* ... then reads the key, which is no error if there is none ...
EtcdGet(p) ==
    /\ backend = "etcd"
    /\ \/ pc[p] = "get" /\ Continue(p, "put") /\ UNCHANGED <<store, faults>>
       \/ pc[p] = "getNil" /\ Continue(p, "putNil") /\ UNCHANGED <<store, faults>>
       \/ pc[p] \in {"get", "getNil"} /\ Fault /\ ReturnErr(p)
    /\ UNCHANGED <<backend, copy>>

\* ... and puts it with the lease, which has been running since some moment of
\* the call.  The duration went out in nanoseconds where etcd counts seconds.
\* Faulty variant: the lease is not attached.
BadEtcdPut(p) ==
    /\ backend = "etcd"
    /\ \/ /\ pc[p] = "put"
          /\ Acts(p, [store EXCEPT ![Id(p)] = Entry(p, "lease", 0, 0, TRUE, 0)], "putDone")
       \/ pc[p] = "putDone" /\ ReturnNil(p)
       \/ pc[p] \in {"put", "putDone"} /\ Fault /\ ReturnErr(p)
    /\ UNCHANGED <<backend, copy>>
EtcdPut(p) ==
    /\ backend = "etcd"
    /\ \/ /\ pc[p] = "put"
          /\ \E age \in IF Ttl[p] = 0 THEN {0} ELSE 0 .. wait[p] :
               Acts(p, [store EXCEPT ![Id(p)] = Entry(p, "lease", Ttl[p] * Nanos, 0, TRUE, age)], "putDone")
       \/ pc[p] = "putDone" /\ ReturnNil(p)
       \/ pc[p] \in {"put", "putDone"} /\ Fault /\ ReturnErr(p)
    /\ UNCHANGED <<backend, copy>>

\* resp.ID with the nil response of a failed Grant.
EtcdPutPanic(p) ==
    /\ backend = "etcd" /\ pc[p] = "putNil"
    /\ Continue(p, "crashed")
    /\ UNCHANGED <<backend, store, copy, faults>>

-----------------------------------------------------------------------------
(* Both *)

\* Deregister, called by another goroutine than the one that refreshes, takes
\* effect or fails.
Deregister(p) ==
    /\ Alive(p)
    /\ Fault
    /\ store' \in {store, [store EXCEPT ![Id(p)] = Gone]}
    /\ fresh' = [fresh EXCEPT ![p] = -1]
    /\ undone' = undone \cup {p}
    /\ UNCHANGED <<backend, copies, pc, wait>>

Crash(p) ==
    /\ Alive(p)
    /\ Continue(p, "crashed")
    /\ UNCHANGED <<backend, store, copy, faults>>

\* A TTL check not passed in time, a critical service for too long, a lease
\* that has run out.
CheckDue(id) == store[id].check = "ttl" /\ store[id].passing /\ store[id].age >= store[id].ttl
ReapDue(id) ==
    /\ store[id].check \in {"ttl", "http"} /\ ~store[id].passing
    /\ store[id].age >= store[id].after
LeaseDue(id) == store[id].check = "lease" /\ store[id].ttl > 0 /\ store[id].age >= store[id].ttl

Expire(id) ==
    /\ \/ /\ CheckDue(id)
          /\ store' = [store EXCEPT ![id] = [@ EXCEPT !.passing = FALSE, !.age = 0]]
       \/ /\ ReapDue(id) \/ LeaseDue(id)
          /\ store' = [store EXCEPT ![id] = Gone]
    /\ UNCHANGED <<backend, copies, pc, wait, fresh, undone, faults>>

ProbeDue(p) ==
    /\ store[Id(p)].check = "http" /\ ~store[Id(p)].passing /\ Alive(p)
    /\ store[Id(p)].age >= Interval

Ages(e) ==
    \/ e.check = "ttl"
    \/ e.check = "http" /\ ~e.passing
    \/ e.check = "lease" /\ e.ttl > 0
InCall(p) == pc[p] \notin {"idle", "crashed"}

Aged ==
    /\ store' = [id \in Ids |-> IF Ages(store[id]) THEN [store[id] EXCEPT !.age = @ + 1] ELSE store[id]]
    /\ wait' = [p \in Providers |-> IF InCall(p) THEN wait[p] + 1 ELSE wait[p]]
    /\ fresh' = [p \in Providers |->
         IF fresh[p] = -1 \/ fresh[p] > Ttl[p] THEN fresh[p] ELSE fresh[p] + 1]
    /\ UNCHANGED <<backend, copies, pc, undone, faults>>

\* The registry acts on what is due.  The context of a call ends it with
\* etcd; with Consul, whose client has no timeout, the agent is assumed to
\* answer as fast.
Tick ==
    /\ \A id \in Ids : ~CheckDue(id) /\ ~ReapDue(id) /\ ~LeaseDue(id)
    /\ \A p \in Providers : ~ProbeDue(p) /\ (InCall(p) => wait[p] < ReqTimeout)
    /\ Aged

Call(p) ==
    \/ Begin(p)
    \/ ConsulRefresh(p) \/ ConsulRegister(p) \/ ConsulPass(p)
    \/ EtcdGrant(p) \/ EtcdGet(p) \/ EtcdPut(p) \/ EtcdPutPanic(p)

Next ==
    \/ \E p \in Providers : Call(p) \/ ConsulProbe(p) \/ Deregister(p) \/ Crash(p)
    \/ \E id \in Ids : Expire(id) \/ ConsulCopy(id)
    \/ Tick

\* Providers keep refreshing, calls end, the registry acts on what is due.
\* Copies are made, and not only at times when an entry does not pass.
Fairness ==
    /\ \A p \in Providers : WF_vars(Call(p)) /\ WF_vars(ConsulProbe(p))
    /\ \A id \in Ids :
         /\ WF_vars(Expire(id)) /\ WF_vars(ConsulCopy(id))
         /\ SF_vars(store[id].passing /\ ConsulCopy(id))
    /\ SF_vars(Tick)

Spec == Init /\ [][Next]_vars /\ Fairness

-----------------------------------------------------------------------------
(* Lookup *)

\* What a lookup reads: with AllowStale, Consul answers from a copy; etcd reads
\* what was written last.
Read(id) == IF backend = "consul" THEN copy[id] ELSE store[id]

\* GetService: nodes that match the name and are not critical, grouped by the
\* version or by the tag asked for.  Consul filters by tag, etcd does not.
NameOf(p) == IF backend = "consul" THEN Svc[p].name ELSE NewService(p)[2]
NoTag == [key |-> "", val |-> << >>]
Found(name, tag) ==
    {p \in Providers :
        /\ Read(Id(p)) # Gone /\ NameOf(p) = name
        /\ Read(Id(p)).passing
        /\ backend = "consul" => tag = NoTag \/ tag \in Range(Read(Id(p)).tags)}
GroupKey(p, tag) ==
    IF tag = NoTag THEN tagsVersion(Read(Id(p)).tags) ELSE tagsCheck(Read(Id(p)).tags, tag)
GetService(name, tag) ==
    LET found == Found(name, tag)
        group(k) == {p \in found : GroupKey(p, tag) = k}
    IN {[version |-> tagsVersion(Read(Id(CHOOSE p \in group(k) : TRUE)).tags), nodes |-> group(k)] :
          k \in {GroupKey(p, tag) : p \in found}}

\* p is returned to a client that asks for its service.
Listed(p) == \E g \in GetService(NameOf(p), NoTag) : p \in g.nodes

-----------------------------------------------------------------------------
(* Properties *)

\* The TTL of a registration counts from when the registry acts, which the
\* provider does not see: what it can rely on is the TTL counted from when it
\* made the call, and etcd keeps a registration without TTL for good.
Covered(p) ==
    /\ fresh[p] >= 0
    /\ fresh[p] < Ttl[p] \/ (backend = "etcd" /\ Ttl[p] = 0)

\* Once RegisterWithTTL has returned nil its service is found until TTL
\* seconds after the call was made, whatever fails, expires or is refreshed
\* meanwhile, unless Deregister is called.  Reads of Consul may be stale: there
\* it holds of every server the entry has reached since the call returned.
FreshIsListed ==
    \A p \in Providers :
        Covered(p) /\ (backend = "consul" => Id(p) \in copied) => Listed(p)

\* A provider that has crashed, in whatever step of a call, disappears from
\* the registry and from what lookups return, unless it had registered with
\* etcd for good.
DeadForgotten ==
    \A p \in Providers :
        backend = "consul" \/ Ttl[p] > 0 => (~Alive(p) ~> ~Present(Id(p)) /\ ~Listed(p))

\* A provider that lives and keeps calling is found again and again, also
\* after failed calls, expiry, removal by the registry or Deregister.
KeptListed == \A p \in Providers : []<>(~Alive(p) \/ Listed(p))
=============================================================================
