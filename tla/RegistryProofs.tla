--------------------------- MODULE RegistryProofs ---------------------------
(***************************************************************************)
(* Registration for any set of providers and any times: a service is found *)
(* until its TTL has passed since the last call that returned nil was made. *)
(***************************************************************************)
EXTENDS Registry, TLAPS

\* No two providers write the same key, that is, no two instances of a
\* service have the same host and port, and no name ends in what is the
\* version of another of that host and port (NewService joins the two).
DistinctIds == \A p, q \in Providers : Id(p) = Id(q) => p = q

\* Where the registry has made the entry pass and has not answered yet.
Acted == {"refreshed", "passed", "putDone"}
Labels ==
    {"idle", "refresh", "register", "registered", "pass", "grant", "get", "getNil", "put", "putNil",
     "crashed"} \cup Acted

Entries ==
    [check : {"none", "http", "ttl", "lease"}, ttl : Nat, after : Nat, passing : BOOLEAN,
     age : Nat, tags : {GetTags(p) : p \in Providers} \cup {<< >>}]

RegistryTypes ==
    /\ backend \in {"consul", "etcd"}
    /\ store \in [Ids -> Entries]
    /\ copy \in [Ids -> Entries]
    /\ copied \subseteq Ids
    /\ pc \in [Providers -> Labels]
    /\ wait \in [Providers -> Nat]
    /\ fresh \in [Providers -> Nat \cup {-1}]
    /\ undone \subseteq Providers

\* What a backend may hold for a provider.
EntryOK(b, p, e) ==
    \/ e.check = "none"
    \/ b = "consul" /\ Ttl[p] = 0 /\ e.check = "http"
    \/ b = "consul" /\ Ttl[p] > 0 /\ e.check = "ttl" /\ e.ttl = Ttl[p]
    \/ b = "etcd" /\ e.check = "lease" /\ e.ttl = Ttl[p] * Nanos

\* f ticks after a call was made its TTL has not passed.
Within(b, p, f) == f >= 0 /\ (f < Ttl[p] \/ (b = "etcd" /\ Ttl[p] = 0))

\* Within the TTL of a call the entry is there, passes, and is no older than
\* the call.
FreshOK(b, p, e, f) ==
    Within(b, p, f) =>
        /\ e.passing /\ e.check # "none"
        /\ Ttl[p] > 0 => e.age <= f

\* The call in progress began after the last one that returned nil.
Later(p, w, f) == f >= 0 => w <= f \/ f > Ttl[p]

\* The entry of a provider, against its last call that returned nil and the
\* call in progress if the registry has acted on it.
ProviderOK(p) ==
    /\ EntryOK(backend, p, store[Id(p)])
    /\ FreshOK(backend, p, store[Id(p)], fresh[p])
    /\ Later(p, wait[p], fresh[p])
    /\ pc[p] \in Acted /\ p \notin undone => FreshOK(backend, p, store[Id(p)], wait[p])
    /\ Within(backend, p, fresh[p]) /\ Id(p) \in copied =>
         copy[Id(p)].passing /\ copy[Id(p)].check # "none"

RegistryInv ==
    /\ RegistryTypes
    /\ \A p \in Providers : ProviderOK(p)

-----------------------------------------------------------------------------
\* A lease in nanoseconds is no shorter than one in seconds.
LEMMA LeaseLong ==
    ASSUME NEW p \in Providers
    PROVE  Ttl[p] \in Nat /\ Ttl[p] * Nanos \in Nat /\ Ttl[p] * Nanos >= Ttl[p]
<1>1. Ttl[p] \in Nat /\ Nanos \in Nat /\ Nanos >= 1
  BY RegistryAssumption
<1>2. PICK n \in Nat : Nanos = n + 1
  <2>1. Nanos - 1 \in Nat /\ Nanos = (Nanos - 1) + 1
    BY <1>1
  <2> QED BY <2>1
<1>3. Ttl[p] * (n + 1) = Ttl[p] * n + Ttl[p] /\ Ttl[p] * n \in Nat
  BY <1>1
<1> QED BY <1>1, <1>2, <1>3

\* Entries keep their fields.
LEMMA EntryFields ==
    /\ Gone \in Entries /\ Gone.check = "none"
    /\ \A p \in Providers : Id(p) \in Ids
    /\ \A id \in Ids : \E p \in Providers : id = Id(p)
    /\ \A p \in Providers, c \in {"http", "ttl", "lease"}, t \in Nat, a \in Nat, b \in BOOLEAN, g \in Nat :
         /\ Entry(p, c, t, a, b, g) \in Entries
         /\ Entry(p, c, t, a, b, g).check = c
         /\ Entry(p, c, t, a, b, g).ttl = t
         /\ Entry(p, c, t, a, b, g).passing = b
         /\ Entry(p, c, t, a, b, g).age = g
<1>1. Gone \in Entries /\ Gone.check = "none"
  BY DEF Gone, Entries
<1>2. /\ \A p \in Providers : Id(p) \in Ids
      /\ \A id \in Ids : \E p \in Providers : id = Id(p)
  BY DEF Id, Ids
<1>3. ASSUME NEW p \in Providers, NEW c \in {"http", "ttl", "lease"}, NEW t \in Nat, NEW a \in Nat,
             NEW b \in BOOLEAN, NEW g \in Nat
      PROVE  /\ Entry(p, c, t, a, b, g) \in Entries
             /\ Entry(p, c, t, a, b, g).check = c
             /\ Entry(p, c, t, a, b, g).ttl = t
             /\ Entry(p, c, t, a, b, g).passing = b
             /\ Entry(p, c, t, a, b, g).age = g
  BY DEF Entry, Entries
<1> QED BY <1>1, <1>2, <1>3

\* A step that changes only what belongs to one provider.
LEMMA OneProvider ==
    ASSUME DistinctIds, RegistryInv, NEW q \in Providers, NEW e \in Entries, NEW l \in Labels,
           NEW w \in Nat, NEW f \in Nat \cup {-1},
           store' = [store EXCEPT ![Id(q)] = e], pc' = [pc EXCEPT ![q] = l],
           wait' = [wait EXCEPT ![q] = w], fresh' = [fresh EXCEPT ![q] = f],
           backend' = backend, copy' = copy,
           \/ copied' = copied /\ f \in {fresh[q], -1}
           \/ copied' = copied \ {Id(q)},
           undone' \in {undone, undone \ {q}, undone \cup {q}},
           EntryOK(backend, q, e), FreshOK(backend, q, e, f), Later(q, w, f),
           l \in Acted /\ q \notin undone' => FreshOK(backend, q, e, w)
    PROVE  RegistryInv'
<1>0. /\ store \in [Ids -> Entries] /\ pc \in [Providers -> Labels] /\ wait \in [Providers -> Nat]
      /\ fresh \in [Providers -> Nat \cup {-1}] /\ Id(q) \in Ids
      /\ copied \subseteq Ids /\ undone \subseteq Providers
  BY EntryFields DEF RegistryInv, RegistryTypes
<1>1. RegistryTypes'
  <2>1. backend' \in {"consul", "etcd"} /\ copy' \in [Ids -> Entries]
    BY DEF RegistryInv, RegistryTypes
  <2>2. wait' \in [Providers -> Nat] /\ fresh' \in [Providers -> Nat \cup {-1}]
    BY <1>0
  <2>3. store' \in [Ids -> Entries]
    BY <1>0
  <2>4. pc' \in [Providers -> Labels]
    BY <1>0
  <2>5. copied' \subseteq Ids /\ undone' \subseteq Providers
    BY <1>0
  <2> QED BY <2>1, <2>2, <2>3, <2>4, <2>5 DEF RegistryTypes
<1>2. ProviderOK(q)'
  <2>1. /\ store'[Id(q)] = e /\ pc'[q] = l /\ wait'[q] = w /\ fresh'[q] = f
    BY <1>0
  <2>2. Within(backend, q, f) /\ Id(q) \in copied' => copy[Id(q)].passing /\ copy[Id(q)].check # "none"
    <3>1. ~Within(backend, q, -1)
      BY DEF Within
    <3> QED BY <3>1 DEF RegistryInv, ProviderOK
  <2> QED BY <2>1, <2>2 DEF ProviderOK
<1>3. ASSUME NEW p \in Providers, p # q PROVE ProviderOK(p)'
  <2>1. Id(p) # Id(q) /\ Id(p) \in Ids
    BY <1>3, EntryFields DEF DistinctIds
  <2>2. store'[Id(p)] = store[Id(p)]
    BY <1>0, <2>1
  <2>3. pc'[p] = pc[p] /\ wait'[p] = wait[p] /\ fresh'[p] = fresh[p]
    BY <1>0, <1>3
  <2>4. (p \in undone' <=> p \in undone) /\ (Id(p) \in copied' => Id(p) \in copied)
    BY <1>3
  <2>5. ProviderOK(p)
    BY DEF RegistryInv
  <2> QED BY <2>2, <2>3, <2>4, <2>5 DEF ProviderOK
<1> QED BY <1>1, <1>2, <1>3 DEF RegistryInv

\* A variable that is left alone.
LEMMA Same ==
    ASSUME RegistryInv, NEW q \in Providers
    PROVE  /\ Id(q) \in Ids /\ ProviderOK(q) /\ backend \in {"consul", "etcd"}
           /\ store[Id(q)] \in Entries /\ store = [store EXCEPT ![Id(q)] = store[Id(q)]]
           /\ pc[q] \in Labels /\ pc = [pc EXCEPT ![q] = pc[q]]
           /\ wait[q] \in Nat /\ wait = [wait EXCEPT ![q] = wait[q]]
           /\ fresh[q] \in Nat \cup {-1} /\ fresh = [fresh EXCEPT ![q] = fresh[q]]
  BY EntryFields DEF RegistryInv, RegistryTypes

\* A step within a call, or its return with an error, that leaves the entry.
LEMMA EntryKept ==
    ASSUME DistinctIds, RegistryInv, NEW q \in Providers, NEW l \in Labels \ Acted,
           store' = store, pc' = [pc EXCEPT ![q] = l],
           wait' = wait \/ wait' = [wait EXCEPT ![q] = 0], fresh' = fresh,
           backend' = backend, copy' = copy, copied' = copied, undone' \in {undone, undone \ {q}}
    PROVE  RegistryInv'
<1>1. PICK w \in Nat : wait' = [wait EXCEPT ![q] = w] /\ Later(q, w, fresh[q])
  <2>1. Later(q, wait[q], fresh[q]) /\ Later(q, 0, fresh[q])
    BY Same DEF ProviderOK, Later
  <2>2. CASE wait' = wait
    BY <2>1, <2>2, Same
  <2>3. CASE wait' = [wait EXCEPT ![q] = 0]
    BY <2>1, <2>3
  <2> QED BY <2>2, <2>3
<1>2. store' = [store EXCEPT ![Id(q)] = store[Id(q)]] /\ fresh' = [fresh EXCEPT ![q] = fresh[q]]
  BY Same
<1>3. /\ store[Id(q)] \in Entries /\ fresh[q] \in Nat \cup {-1} /\ l \in Labels
      /\ EntryOK(backend, q, store[Id(q)]) /\ FreshOK(backend, q, store[Id(q)], fresh[q])
  BY Same DEF ProviderOK
<1> QED BY <1>1, <1>2, <1>3, OneProvider

\* The call returns an error.
LEMMA ErrReturned ==
    ASSUME DistinctIds, RegistryInv, NEW q \in Providers, ReturnErr(q), backend' = backend, copy' = copy
    PROVE  RegistryInv'
<1>1. "idle" \in Labels \ Acted
  BY DEF Labels, Acted
<1> QED BY <1>1, EntryKept DEF ReturnErr, Goto

\* The registry acts: the new entry has just begun to pass, or passes as the
\* old one did.
LEMMA EntryMade ==
    ASSUME DistinctIds, RegistryInv, NEW q \in Providers, NEW e \in Entries, NEW l \in Labels,
           Acts(q, [store EXCEPT ![Id(q)] = e], l), backend' = backend, copy' = copy,
           EntryOK(backend, q, e), e.check # "none",
           \/ e.passing /\ (Ttl[q] > 0 => e.age <= wait[q])
           \/ l \notin Acted /\ FreshOK(backend, q, e, fresh[q])
    PROVE  RegistryInv'
<1>1. /\ store' = [store EXCEPT ![Id(q)] = e] /\ pc' = [pc EXCEPT ![q] = l]
      /\ UNCHANGED <<copied, wait, fresh, undone>>
  BY DEF Acts, Continue, Goto
<1>2. /\ wait' = [wait EXCEPT ![q] = wait[q]] /\ fresh' = [fresh EXCEPT ![q] = fresh[q]]
      /\ wait[q] \in Nat /\ fresh[q] \in Nat \cup {-1} /\ Later(q, wait[q], fresh[q])
  BY <1>1, Same DEF ProviderOK
<1>3. FreshOK(backend, q, e, fresh[q]) /\ (l \in Acted => FreshOK(backend, q, e, wait[q]))
  <2>1. CASE e.passing /\ (Ttl[q] > 0 => e.age <= wait[q])
    <3>1. e.age \in Nat /\ Ttl[q] \in Nat
      BY RegistryAssumption DEF Entries
    <3> QED BY <1>2, <2>1, <3>1 DEF FreshOK, Within, Later
  <2>2. CASE l \notin Acted /\ FreshOK(backend, q, e, fresh[q])
    BY <2>2
  <2> QED BY <2>1, <2>2
<1> QED BY <1>1, <1>2, <1>3, OneProvider

\* The call returns nil once the registry has acted, or as Register does with
\* Consul, where no TTL is promised.
LEMMA NilReturned ==
    ASSUME DistinctIds, RegistryInv, NEW q \in Providers, ReturnNil(q), backend' = backend, copy' = copy,
           pc[q] \in Acted \/ (backend = "consul" /\ Ttl[q] = 0)
    PROVE  RegistryInv'
<1> DEFINE f == IF q \in undone THEN -1 ELSE wait[q]
<1>1. /\ pc' = [pc EXCEPT ![q] = "idle"] /\ fresh' = [fresh EXCEPT ![q] = f]
      /\ wait' = [wait EXCEPT ![q] = 0] /\ copied' = copied \ {Id(q)} /\ UNCHANGED <<store, undone>>
  BY DEF ReturnNil, Goto
<1>2. /\ store' = [store EXCEPT ![Id(q)] = store[Id(q)]] /\ store[Id(q)] \in Entries
      /\ wait[q] \in Nat /\ ProviderOK(q)
  BY <1>1, Same
<1>3. f \in Nat \cup {-1} /\ "idle" \in Labels /\ "idle" \notin Acted /\ Later(q, 0, f)
  BY <1>2 DEF Labels, Acted, Later
<1>4. FreshOK(backend, q, store[Id(q)], f)
  <2>1. CASE q \in undone
    BY <2>1 DEF FreshOK, Within
  <2>2. CASE q \notin undone /\ pc[q] \in Acted
    BY <1>2, <2>2 DEF ProviderOK
  <2>3. CASE q \notin undone /\ backend = "consul" /\ Ttl[q] = 0
    BY <1>2, <2>3 DEF FreshOK, Within
  <2> QED BY <2>1, <2>2, <2>3
<1>5. EntryOK(backend, q, store[Id(q)])
  BY <1>2 DEF ProviderOK
<1> HIDE DEF f
<1> QED BY <1>1, <1>2, <1>3, <1>4, <1>5, OneProvider

\* PassTTL of the agent.
LEMMA PassedEntry ==
    ASSUME DistinctIds, RegistryInv, NEW q \in Providers, backend = "consul", CanPass(q),
           NEW l \in Acted, Acts(q, Passed(q), l), backend' = backend, copy' = copy
    PROVE  RegistryInv'
<1> DEFINE e == [store[Id(q)] EXCEPT !.passing = TRUE, !.age = 0]
<1>1. /\ store[Id(q)] \in Entries /\ store[Id(q)].check = "ttl" /\ EntryOK(backend, q, store[Id(q)])
      /\ wait[q] \in Nat /\ l \in Labels
  BY Same DEF ProviderOK, CanPass, Labels
<1>2. /\ e \in Entries /\ e.passing /\ e.age = 0 /\ e.check = "ttl" /\ e.ttl = store[Id(q)].ttl
  BY <1>1 DEF Entries
<1>3. Acts(q, [store EXCEPT ![Id(q)] = e], l)
  BY DEF Passed
<1> HIDE DEF e
<1>4. EntryOK(backend, q, e)
  BY <1>1, <1>2 DEF EntryOK
<1>5. e.check # "none" /\ e.age <= wait[q]
  BY <1>1, <1>2
<1> QED BY <1>1, <1>2, <1>3, <1>4, <1>5, EntryMade

\* At the start there are no entries.
LEMMA RegistryInvInit == Init => RegistryInv
<1> SUFFICES ASSUME NEW running \in SUBSET Providers, InitOf(running) PROVE RegistryInv
  BY DEF Init
<1>1. RegistryTypes
  BY EntryFields DEF InitOf, RegistryTypes, Labels
<1>2. ASSUME NEW p \in Providers PROVE ProviderOK(p)
  <2>1. store[Id(p)].check = "none" /\ fresh[p] = -1 /\ pc[p] \in {"idle", "crashed"}
    BY EntryFields DEF InitOf
  <2> QED BY <2>1 DEF ProviderOK, EntryOK, FreshOK, Within, Later, Acted
<1> QED BY <1>1, <1>2 DEF RegistryInv

\* The steps of a call of Consul, and the probe.
LEMMA RegistryInvConsul ==
    ASSUME DistinctIds, RegistryInv, NEW p \in Providers,
           ConsulRefresh(p) \/ ConsulRegister(p) \/ ConsulPass(p) \/ ConsulProbe(p)
    PROVE  RegistryInv'
<1>0. /\ store[Id(p)] \in Entries /\ ProviderOK(p) /\ Ttl[p] \in Nat
      /\ wait[p] \in Nat /\ fresh[p] \in Nat \cup {-1}
      /\ backend' = backend /\ backend = "consul" /\ copy' = copy
  BY Same, RegistryAssumption DEF ConsulRefresh, ConsulRegister, ConsulPass, ConsulProbe, copies
<1>1. CASE ConsulRefresh(p)
  <2>1. CASE CanPass(p) /\ Acts(p, Passed(p), "refreshed")
    <3>1. "refreshed" \in Acted
      BY DEF Acted
    <3> QED BY <1>0, <2>1, <3>1, PassedEntry
  <2>2. CASE pc[p] = "refreshed" /\ ReturnNil(p)
    <3>1. pc[p] \in Acted
      BY <2>2 DEF Acted
    <3> QED BY <1>0, <2>2, <3>1, NilReturned
  <2>3. CASE Continue(p, "register") /\ store' = store
    <3>1. "register" \in Labels \ Acted
      BY DEF Labels, Acted
    <3> QED BY <1>0, <2>3, <3>1, EntryKept DEF Continue, Goto
  <2> QED BY <1>1, <2>1, <2>2, <2>3 DEF ConsulRefresh
<1>2. CASE ConsulPass(p)
  <2>1. CASE CanPass(p) /\ Acts(p, Passed(p), "passed")
    <3>1. "passed" \in Acted
      BY DEF Acted
    <3> QED BY <1>0, <2>1, <3>1, PassedEntry
  <2>2. CASE pc[p] = "passed" /\ ReturnNil(p)
    <3>1. pc[p] \in Acted
      BY <2>2 DEF Acted
    <3> QED BY <1>0, <2>2, <3>1, NilReturned
  <2>3. CASE ReturnErr(p)
    BY <1>0, <2>3, ErrReturned
  <2> QED BY <1>2, <2>1, <2>2, <2>3 DEF ConsulPass
<1>3. CASE ConsulRegister(p)
  <2> DEFINE check == IF Ttl[p] = 0 THEN "http" ELSE "ttl"
             old == store[Id(p)]
             e == Entry(p, check, Ttl[p], getDeregisterTTL(Ttl[p]), old.passing, 0)
  <2>1. getDeregisterTTL(Ttl[p]) \in Nat /\ old.passing \in BOOLEAN /\ check \in {"http", "ttl", "lease"}
    BY <1>0, RegistryAssumption DEF getDeregisterTTL, Entries
  <2>2. e \in Entries /\ e.check = check /\ e.ttl = Ttl[p] /\ e.passing = old.passing /\ e.age = 0
    <3>1. Ttl[p] \in Nat
      BY <1>0
    <3> HIDE DEF check, old
    <3> QED BY <2>1, <3>1 DEF Entry, Entries
  <2>3. CASE Acts(p, [store EXCEPT ![Id(p)] = e], "registered")
    <3>1. EntryOK(backend, p, e) /\ e.check # "none"
      BY <1>0, <2>2 DEF EntryOK
    <3>2. FreshOK(backend, p, e, fresh[p])
      BY <1>0, <2>2 DEF ProviderOK, FreshOK, Within
    <3>3. "registered" \in Labels /\ "registered" \notin Acted
      BY DEF Labels, Acted
    <3> HIDE DEF e
    <3> QED BY <1>0, <2>2, <2>3, <3>1, <3>2, <3>3, EntryMade
  <2>4. CASE Ttl[p] = 0 /\ ReturnNil(p)
    BY <1>0, <2>4, NilReturned
  <2>5. CASE Continue(p, "pass") /\ store' = store
    <3>1. "pass" \in Labels \ Acted
      BY DEF Labels, Acted
    <3> QED BY <1>0, <2>5, <3>1, EntryKept DEF Continue, Goto
  <2>6. CASE ReturnErr(p)
    BY <1>0, <2>6, ErrReturned
  <2> QED BY <1>3, <2>3, <2>4, <2>5, <2>6 DEF ConsulRegister
<1>4. CASE ConsulProbe(p)
  <2> DEFINE e == [store[Id(p)] EXCEPT !.passing = Alive(p), !.age = 0]
  <2>1. /\ store[Id(p)].check = "http" /\ store' = [store EXCEPT ![Id(p)] = e]
        /\ UNCHANGED <<pc, wait, fresh, undone, copied>>
    BY <1>4 DEF ConsulProbe, copies
  <2>2. Alive(p) \in BOOLEAN
    BY DEF Alive
  <2>3. e \in Entries /\ e.check = "http"
    BY <1>0, <2>1, <2>2 DEF Entries
  <2> HIDE DEF e
  <2>4. Ttl[p] = 0
    BY <1>0, <2>1 DEF ProviderOK, EntryOK
  <2>5. EntryOK(backend, p, e) /\ \A f \in Nat \cup {-1} : FreshOK(backend, p, e, f)
    BY <1>0, <2>3, <2>4 DEF EntryOK, FreshOK, Within
  <2>6. /\ fresh' = [fresh EXCEPT ![p] = fresh[p]] /\ pc' = [pc EXCEPT ![p] = pc[p]] /\ pc[p] \in Labels
        /\ wait' = [wait EXCEPT ![p] = wait[p]] /\ Later(p, wait[p], fresh[p])
    BY <2>1, Same DEF ProviderOK
  <2> QED BY <1>0, <2>1, <2>3, <2>5, <2>6, OneProvider
<1> QED BY <1>1, <1>2, <1>3, <1>4

\* The steps of a call of etcd, the beginning of a call, and a crash.
LEMMA RegistryInvEtcd ==
    ASSUME DistinctIds, RegistryInv, NEW p \in Providers,
           Begin(p) \/ EtcdGrant(p) \/ EtcdGet(p) \/ EtcdPut(p) \/ EtcdPutPanic(p) \/ Crash(p)
    PROVE  RegistryInv'
<1>0. wait[p] \in Nat /\ backend' = backend /\ copy' = copy
  BY Same DEF Begin, EtcdGrant, EtcdGet, EtcdPut, EtcdPutPanic, Crash
<1> DEFINE Next1 == {"refresh", "grant", "get", "getNil", "put", "putNil", "crashed"}
<1>1. \A l \in Next1 : l \in Labels \ Acted
  BY DEF Labels, Acted
<1>2. ASSUME NEW l \in Next1, Continue(p, l), store' = store PROVE RegistryInv'
  BY <1>0, <1>1, <1>2, EntryKept DEF Continue, Goto
<1>3. CASE Begin(p)
  <2>1. PICK l \in Next1 : pc' = [pc EXCEPT ![p] = l]
    BY <1>3 DEF Begin, Goto
  <2>2. UNCHANGED <<store, copied, wait, fresh>> /\ undone' = undone \ {p}
    BY <1>3 DEF Begin
  <2> QED BY <1>0, <1>1, <2>1, <2>2, EntryKept
<1>4. CASE EtcdGrant(p)
  BY <1>2, <1>4 DEF EtcdGrant
<1>5. CASE EtcdGet(p)
  BY <1>0, <1>2, <1>5, ErrReturned DEF EtcdGet
<1>6. CASE EtcdPutPanic(p) \/ Crash(p)
  BY <1>2, <1>6 DEF EtcdPutPanic, Crash
<1>7. CASE EtcdPut(p)
  <2>1. CASE pc[p] = "putDone" /\ ReturnNil(p)
    <3>1. pc[p] \in Acted
      BY <2>1 DEF Acted
    <3> QED BY <1>0, <2>1, <3>1, NilReturned
  <2>2. CASE ReturnErr(p)
    BY <1>0, <2>2, ErrReturned
  <2>3. ASSUME NEW age \in IF Ttl[p] = 0 THEN {0} ELSE 0 .. wait[p],
               Acts(p, [store EXCEPT ![Id(p)] = Entry(p, "lease", Ttl[p] * Nanos, 0, TRUE, age)], "putDone")
        PROVE  RegistryInv'
    <3> DEFINE e == Entry(p, "lease", Ttl[p] * Nanos, 0, TRUE, age)
    <3>1. age \in Nat /\ age <= wait[p] /\ Ttl[p] * Nanos \in Nat
      BY <1>0, LeaseLong
    <3>2. e \in Entries /\ e.check = "lease" /\ e.ttl = Ttl[p] * Nanos /\ e.passing /\ e.age = age
      BY <3>1 DEF Entry, Entries
    <3>3. Acts(p, [store EXCEPT ![Id(p)] = e], "putDone")
      BY <2>3
    <3> HIDE DEF e
    <3>4. backend = "etcd" /\ "putDone" \in Labels
      BY <1>7 DEF EtcdPut, Labels, Acted
    <3>5. EntryOK(backend, p, e) /\ e.check # "none" /\ e.age <= wait[p]
      BY <3>1, <3>2, <3>4 DEF EntryOK
    <3> QED BY <1>0, <3>2, <3>3, <3>4, <3>5, EntryMade
  <2> QED BY <1>7, <2>1, <2>2, <2>3 DEF EtcdPut
<1> QED BY <1>3, <1>4, <1>5, <1>6, <1>7

\* Nothing that is due is within its TTL.
LEMMA DueNotWithin ==
    ASSUME NEW p \in Providers, RegistryInv, NEW f \in Nat \cup {-1},
           FreshOK(backend, p, store[Id(p)], f),
           CheckDue(Id(p)) \/ ReapDue(Id(p)) \/ LeaseDue(Id(p))
    PROVE  ~Within(backend, p, f)
<1> DEFINE e == store[Id(p)]
<1>1. e.age \in Nat /\ e.ttl \in Nat /\ EntryOK(backend, p, e) /\ Ttl[p] \in Nat
  BY Same, RegistryAssumption DEF Entries, ProviderOK
<1> SUFFICES ASSUME Within(backend, p, f) PROVE FALSE
  OBVIOUS
<1>2. f \in Nat /\ e.passing /\ e.check # "none" /\ (Ttl[p] > 0 => e.age <= f)
  BY DEF FreshOK, Within
<1>3. CASE CheckDue(Id(p))
  <2>1. e.check = "ttl" /\ e.age >= e.ttl
    BY <1>3 DEF CheckDue
  <2>2. backend = "consul" /\ e.ttl = Ttl[p] /\ Ttl[p] > 0
    BY <1>1, <2>1 DEF EntryOK
  <2>3. f < Ttl[p]
    BY <2>2 DEF Within
  <2> QED BY <1>1, <1>2, <2>1, <2>2, <2>3
<1>4. CASE ReapDue(Id(p))
  BY <1>2, <1>4 DEF ReapDue
<1>5. CASE LeaseDue(Id(p))
  <2>1. e.check = "lease" /\ e.ttl > 0 /\ e.age >= e.ttl
    BY <1>5 DEF LeaseDue
  <2>2. backend = "etcd" /\ e.ttl = Ttl[p] * Nanos
    BY <1>1, <2>1 DEF EntryOK
  <2>3. Ttl[p] # 0
    <3> SUFFICES ASSUME Ttl[p] = 0 PROVE FALSE
      OBVIOUS
    <3>1. Ttl[p] * Nanos = 0
      BY RegistryAssumption
    <3> QED BY <2>1, <2>2, <3>1
  <2>4. f < Ttl[p] /\ e.ttl >= Ttl[p]
    BY <1>1, <2>2, <2>3, LeaseLong DEF Within
  <2> HIDE DEF e
  <2> QED BY <1>1, <1>2, <2>1, <2>3, <2>4
<1> QED BY <1>3, <1>4, <1>5

\* What expires was not within the TTL of a call.
LEMMA RegistryInvExpire ==
    ASSUME DistinctIds, RegistryInv, NEW id \in Ids, Expire(id)
    PROVE  RegistryInv'
<1>0. PICK p \in Providers : id = Id(p)
  BY EntryFields
<1>1. /\ store[id] \in Entries /\ ProviderOK(p) /\ wait[p] \in Nat /\ fresh[p] \in Nat \cup {-1}
  BY <1>0, Same
<1>2. CheckDue(Id(p)) \/ ReapDue(Id(p)) \/ LeaseDue(Id(p))
  BY <1>0 DEF Expire
<1>3. \A e : FreshOK(backend, p, e, fresh[p])
  <2>1. ~Within(backend, p, fresh[p])
    BY <1>0, <1>1, <1>2, DueNotWithin DEF ProviderOK
  <2> QED BY <2>1 DEF FreshOK
<1>4. \A e : pc[p] \in Acted /\ p \notin undone => FreshOK(backend, p, e, wait[p])
  <2> SUFFICES ASSUME pc[p] \in Acted, p \notin undone, NEW e PROVE FreshOK(backend, p, e, wait[p])
    OBVIOUS
  <2>1. ~Within(backend, p, wait[p])
    BY <1>0, <1>1, <1>2, DueNotWithin DEF ProviderOK
  <2> QED BY <2>1 DEF FreshOK
<1>5. PICK e \in Entries : store' = [store EXCEPT ![id] = e] /\ EntryOK(backend, p, e)
  <2>1. CASE store' = [store EXCEPT ![id] = Gone]
    BY <2>1, EntryFields DEF EntryOK
  <2>2. CASE store' = [store EXCEPT ![id] = [@ EXCEPT !.passing = FALSE, !.age = 0]]
    <3> DEFINE e == [store[id] EXCEPT !.passing = FALSE, !.age = 0]
    <3>1. e \in Entries /\ e.check = store[id].check /\ e.ttl = store[id].ttl
      BY <1>1 DEF Entries
    <3>2. store' = [store EXCEPT ![id] = e]
      BY <2>2
    <3> HIDE DEF e
    <3>3. EntryOK(backend, p, e)
      BY <1>0, <1>1, <3>1 DEF EntryOK, ProviderOK
    <3> QED BY <3>1, <3>2, <3>3
  <2> QED BY <2>1, <2>2 DEF Expire
<1>6. UNCHANGED <<backend, copy, copied, pc, wait, fresh, undone>>
  BY DEF Expire, copies
<1>7. /\ fresh' = [fresh EXCEPT ![p] = fresh[p]] /\ pc' = [pc EXCEPT ![p] = pc[p]] /\ pc[p] \in Labels
      /\ wait' = [wait EXCEPT ![p] = wait[p]] /\ Later(p, wait[p], fresh[p])
  BY <1>6, Same DEF ProviderOK
<1> QED BY <1>0, <1>1, <1>3, <1>4, <1>5, <1>6, <1>7, OneProvider

\* An entry that passes is copied as one that passes.
LEMMA RegistryInvCopy ==
    ASSUME DistinctIds, RegistryInv, NEW id \in Ids, ConsulCopy(id)
    PROVE  RegistryInv'
<1>1. /\ UNCHANGED <<backend, store, pc, wait, fresh, undone>>
      /\ copy' = [copy EXCEPT ![id] = Timeless(store[id])] /\ copied' = copied \cup {id}
  BY DEF ConsulCopy
<1>2. copy \in [Ids -> Entries] /\ store[id] \in Entries /\ copied \subseteq Ids
  BY DEF RegistryInv, RegistryTypes
<1>3. /\ Timeless(store[id]) \in Entries /\ Timeless(store[id]).passing = store[id].passing
      /\ Timeless(store[id]).check = store[id].check
  BY <1>2 DEF Timeless, Entries
<1>4. RegistryTypes'
  <2>1. copy' \in [Ids -> Entries] /\ copied' \subseteq Ids
    BY <1>1, <1>2, <1>3
  <2> QED BY <1>1, <2>1 DEF RegistryInv, RegistryTypes
<1>5. ASSUME NEW p \in Providers PROVE ProviderOK(p)'
  <2>1. ProviderOK(p) /\ Id(p) \in Ids
    BY Same
  <2>2. CASE Id(p) = id
    <3>1. copy'[Id(p)] = Timeless(store[id])
      BY <1>1, <1>2, <2>2
    <3> QED BY <1>1, <1>3, <2>1, <2>2, <3>1 DEF ProviderOK, FreshOK
  <2>3. CASE Id(p) # id
    <3>1. copy'[Id(p)] = copy[Id(p)] /\ (Id(p) \in copied' <=> Id(p) \in copied)
      BY <1>1, <1>2, <2>1, <2>3
    <3> QED BY <1>1, <2>1, <3>1 DEF ProviderOK
  <2> QED BY <2>2, <2>3
<1> QED BY <1>4, <1>5 DEF RegistryInv

\* A fresh entry ages with the call that made it fresh.
LEMMA RegistryInvTick ==
    ASSUME RegistryInv, Tick
    PROVE  RegistryInv'
<1>0. /\ store \in [Ids -> Entries] /\ fresh \in [Providers -> Nat \cup {-1}]
      /\ wait \in [Providers -> Nat] /\ backend \in {"consul", "etcd"} /\ Ttl \in [Providers -> Nat]
  BY RegistryAssumption DEF RegistryInv, RegistryTypes
<1>1. /\ UNCHANGED <<backend, copy, copied, pc, undone>>
      /\ store' = [id \in Ids |-> IF Ages(store[id]) THEN [store[id] EXCEPT !.age = @ + 1] ELSE store[id]]
      /\ wait' = [p \in Providers |-> IF InCall(p) THEN wait[p] + 1 ELSE wait[p]]
      /\ fresh' = [p \in Providers |->
           IF fresh[p] = -1 \/ fresh[p] > Ttl[p] THEN fresh[p] ELSE fresh[p] + 1]
  BY DEF Tick, Aged, copies
<1>2. ASSUME NEW id \in Ids
      PROVE  /\ store'[id] \in Entries /\ store'[id].check = store[id].check
             /\ store'[id].ttl = store[id].ttl /\ store'[id].passing = store[id].passing
             /\ store[id].age \in Nat /\ store'[id].age \in Nat /\ store'[id].age <= store[id].age + 1
  <2>1. store[id] \in Entries
    BY <1>0
  <2>2. CASE Ages(store[id])
    <3>1. store'[id] = [store[id] EXCEPT !.age = store[id].age + 1]
      BY <1>1, <2>2
    <3> QED BY <2>1, <3>1 DEF Entries
  <2>3. CASE ~Ages(store[id])
    <3>1. store'[id] = store[id]
      BY <1>1, <2>3
    <3> QED BY <2>1, <3>1 DEF Entries
  <2> QED BY <2>2, <2>3
<1>3. RegistryTypes'
  <2>1. store' \in [Ids -> Entries]
    BY <1>1, <1>2
  <2>2. wait' \in [Providers -> Nat]
    BY <1>0, <1>1
  <2>3. fresh' \in [Providers -> Nat \cup {-1}]
    BY <1>0, <1>1
  <2> QED BY <1>0, <1>1, <2>1, <2>2, <2>3 DEF RegistryInv, RegistryTypes
<1>4. ASSUME NEW p \in Providers PROVE ProviderOK(p)'
  <2>1. Id(p) \in Ids /\ ProviderOK(p)
    BY Same
  <2>2. /\ fresh'[p] = IF fresh[p] = -1 \/ fresh[p] > Ttl[p] THEN fresh[p] ELSE fresh[p] + 1
        /\ wait'[p] = IF InCall(p) THEN wait[p] + 1 ELSE wait[p]
        /\ pc[p] \in Acted => InCall(p)
    BY <1>1 DEF InCall, Acted
  <2>3. /\ store'[Id(p)].check = store[Id(p)].check /\ store'[Id(p)].passing = store[Id(p)].passing
        /\ store'[Id(p)].ttl = store[Id(p)].ttl
        /\ store[Id(p)].age \in Nat /\ store'[Id(p)].age \in Nat /\ store'[Id(p)].age <= store[Id(p)].age + 1
    BY <1>2, <2>1
  <2>4. Ttl[p] \in Nat /\ fresh[p] \in Nat \cup {-1} /\ wait[p] \in Nat
    BY <1>0
  <2>5. EntryOK(backend, p, store'[Id(p)])
    BY <2>1, <2>3 DEF ProviderOK, EntryOK
  <2>6. FreshOK(backend, p, store'[Id(p)], fresh'[p])
    BY <2>1, <2>2, <2>3, <2>4 DEF ProviderOK, FreshOK, Within
  <2>7. Later(p, wait'[p], fresh'[p])
    BY <2>1, <2>2, <2>4 DEF ProviderOK, Later
  <2>8. pc[p] \in Acted /\ p \notin undone => FreshOK(backend, p, store'[Id(p)], wait'[p])
    BY <2>1, <2>2, <2>3, <2>4 DEF ProviderOK, FreshOK, Within
  <2>9. Within(backend, p, fresh'[p]) => Within(backend, p, fresh[p])
    BY <2>2, <2>4 DEF Within
  <2> QED BY <1>1, <2>1, <2>5, <2>6, <2>7, <2>8, <2>9 DEF ProviderOK
<1> QED BY <1>3, <1>4 DEF RegistryInv

\* Every step keeps the invariant.
LEMMA RegistryInvNext == DistinctIds /\ RegistryInv /\ [Next]_vars => RegistryInv'
<1> SUFFICES ASSUME DistinctIds, RegistryInv, [Next]_vars PROVE RegistryInv'
  OBVIOUS
<1>1. ASSUME NEW p \in Providers, Deregister(p) PROVE RegistryInv'
  <2>1. /\ UNCHANGED <<backend, copy, copied, pc, wait>> /\ fresh' = [fresh EXCEPT ![p] = -1]
        /\ undone' = undone \cup {p} /\ store' \in {store, [store EXCEPT ![Id(p)] = Gone]}
    BY <1>1 DEF Deregister, copies
  <2>2. PICK e \in Entries : store' = [store EXCEPT ![Id(p)] = e] /\ EntryOK(backend, p, e)
    <3>1. CASE store' = store
      BY <3>1, Same DEF ProviderOK
    <3>2. CASE store' = [store EXCEPT ![Id(p)] = Gone]
      BY <3>2, EntryFields DEF EntryOK
    <3> QED BY <2>1, <3>1, <3>2
  <2>3. FreshOK(backend, p, e, -1) /\ Later(p, wait[p], -1)
    BY DEF FreshOK, Within, Later
  <2>4. /\ pc' = [pc EXCEPT ![p] = pc[p]] /\ pc[p] \in Labels
        /\ wait' = [wait EXCEPT ![p] = wait[p]] /\ wait[p] \in Nat /\ p \in undone'
    BY <2>1, Same
  <2> QED BY <2>1, <2>2, <2>3, <2>4, OneProvider
<1>2. CASE UNCHANGED vars
  BY <1>2 DEF vars, RegistryInv, RegistryTypes, ProviderOK
<1> QED
  BY <1>1, <1>2, RegistryInvConsul, RegistryInvEtcd, RegistryInvExpire, RegistryInvCopy, RegistryInvTick
     DEF Next, Call

\* GetService returns every node of a service that it reads and that passes.
LEMMA PassingIsListed ==
    ASSUME NEW p \in Providers, Read(Id(p)) # Gone, Read(Id(p)).passing
    PROVE  Listed(p)
<1> DEFINE k == GroupKey(p, NoTag)
<1>1. p \in Found(NameOf(p), NoTag)
  BY DEF Found
<1>2. k \in {GroupKey(q, NoTag) : q \in Found(NameOf(p), NoTag)}
  BY <1>1
<1>3. p \in {q \in Found(NameOf(p), NoTag) : GroupKey(q, NoTag) = k}
  BY <1>1
<1> DEFINE found == Found(NameOf(p), NoTag)
           group(j) == {q \in found : GroupKey(q, NoTag) = j}
           g(j) == [version |-> tagsVersion(Read(Id(CHOOSE q \in group(j) : TRUE)).tags),
                    nodes |-> group(j)]
<1>4. GetService(NameOf(p), NoTag) = {g(j) : j \in {GroupKey(q, NoTag) : q \in found}}
  BY DEF GetService
<1>5. g(k).nodes = group(k)
  OBVIOUS
<1>6. p \in g(k).nodes
  BY <1>3, <1>5
<1> HIDE DEF g, k, found
<1>7. g(k) \in GetService(NameOf(p), NoTag)
  BY <1>2, <1>4 DEF found
<1> QED BY <1>6, <1>7 DEF Listed

\* If no two providers write the same key, a service is found until its TTL
\* has passed since a RegisterWithTTL that returned nil was called, whatever
\* fails or expires meanwhile, and for good after Register with etcd, unless
\* Deregister is called; with Consul, by a lookup whose server the entry has
\* reached since the call returned.
THEOREM RegistryFreshIsListed == DistinctIds => (Spec => []FreshIsListed)
<1> SUFFICES ASSUME DistinctIds PROVE Spec => []FreshIsListed
  OBVIOUS
<1>1. RegistryInv /\ [Next]_vars => RegistryInv'
  BY RegistryInvNext
<1>2. RegistryInv => FreshIsListed
  <2> SUFFICES ASSUME RegistryInv, NEW p \in Providers, Covered(p), backend = "consul" => Id(p) \in copied
               PROVE  Listed(p)
    BY DEF FreshIsListed
  <2>1. ProviderOK(p) /\ Within(backend, p, fresh[p])
    BY Same DEF Covered, Within
  <2>2. Read(Id(p)).passing /\ Read(Id(p)).check # "none"
    BY <2>1 DEF Read, ProviderOK, FreshOK
  <2>3. Read(Id(p)) # Gone
    BY <2>2, EntryFields
  <2> QED BY <2>2, <2>3, PassingIsListed
<1> QED BY <1>1, <1>2, RegistryInvInit, PTL DEF Spec
=============================================================================
