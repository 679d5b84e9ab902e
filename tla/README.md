# A formal model of airfk

airfk is a Go framework for JSON-RPC services: a library (`pkg/`) with an event
feed, an RPC server with subscriptions, a JSON codec, registry clients and
helpers, and templates (`template/`) from which the tool `cmd/tool` generates a
service that uses them. This directory holds TLA+ modules of the system, the TLC
configurations that check them on small instances, and TLAPS proofs of their
safety properties for every instance.

- `tlc -config feed.cfg MCFeed` checks one run; every configuration and its
  module are listed under *Runs*.
- `tlapm FeedProofs.tla` checks the proofs of a module; the others with proofs are
  `ScopeProofs`, `DispatchProofs`, `RpcServerProofs`, `EventMsgProofs`, `NodeProofs`,
  `RegistryProofs` and `HelpersProofs`.

## 1. The system

A result travels through four components:

    API call --Send--> event.Feed --resultsCh--> EventMsg.eventLoop
       --results channel--> client goroutine --Notify--> Notifier/JsonCodec --> client

and `Node.Stop` takes them down: `Server.Stop` closes the codecs, which makes
the client goroutines unsubscribe, then `Manager.Stop` cancels the event loop.

### Inventory

| Component | State | Operations | What makes it correct |
|---|---|---|---|
| `event.Feed` (`pkg/event/feed.go`) | inbox and sendCases (lists of select cases), sendLock token, mu, element type | Subscribe, Send, Unsubscribe | every open subscription has exactly one case; each Send gives each channel one copy per subscription; nothing after Unsubscribe; calls return |
| `event.SubscriptionScope` (`pkg/event/subscription.go`) | set of wrappers, closed flag, mu | Track, Unsubscribe, Close, Count | Close ends everything that was tracked and deadlocks with nobody |
| `server.Server` (`pkg/server/server.go`) | Run flag, set of codecs, CodecsMu; per connection a loop and a goroutine per message | RegisterName, ServeCodec, ServeSingleRequest, Stop, readRequest, handle, exec, execBatch | every request is answered once; Stop reaches every connection; tasks finish |
| `server.Notifier` (`pkg/server/subscription.go`) | maps active and inactive, subMu, err channel per subscription | CreateSubscription, activate, Notify, unsubscribe | id before notifications, silence after unsubscribe, Err closed |
| `codec.JsonCodec` (`pkg/codec/jsonc.go`) | encoder lock, closed channel | ReadRequestHeaders, ParseRequestArguments, Create..., Write, Close, Closed | well-formed requests are recognised; closing is seen by all |
| callbacks (`pkg/server/utils.go`) | none | suitableCallbacks and type tests | exactly the documented method shapes are exported |
| transport (`pkg/server/http.go`, `websocket.go`, `endpoint.go`) | listeners | ServeHTTP, WebsocketHandler, StartHTTPEndpoint, StartWSEndpoint | only whitelisted or public APIs are exposed |
| `EventMsg` (`template/subscribe.go.tpl`) | index of installed subscriptions, channels install, uninstall, resultsCh | NewEventMsg, subscribe, Unsubscribe, broadcast, eventLoop | each client sees every result since its installation, in order; nothing after Unsubscribe; nobody blocks for ever |
| `Manager` (`template/manager.go.tpl`) | Feed, scope, cancel function | Start, Stop, SubscribeResultEvent | Stop releases what Start took |
| `Node`, admin API, `main` (`template/node.go.tpl`, `api.go.tpl`, `main.go.tpl`) | constructors, running services, isRunning, listeners, lock | Register, Start, Stop, Restart, Service, StartWS, StopWS | a failed Start leaves nothing running; Stop stops everything once |
| registries (`pkg/registry/`) | entries in etcd or consul with a lease | RegisterWithTTL, Register, Deregister, GetService, ListServices | a refreshed node stays visible, a dead one disappears, lookup returns what was registered |
| LevelDB wrapper (`pkg/leveldb/`) | batch and its size | Put, Delete, Write, Reset | a batch is written as it was filled |
| files, commands (`pkg/common/`) | files | WriteFile, ReadFile, ExecCmd | WriteFile replaces a file as a whole |
| math, hexutil, bytes (`pkg/common/`) | none | Safe*, Exp, encode, decode | results equal their mathematical definition |
| project generator (`cmd/tool`, `pkg/zoo`), types, configuration | none of interest | template expansion | not modelled: I/O and data |

### What is hard

- *Concurrency.* Any number of goroutines call a Feed; its lists are protected by
  a mutex and by a token in a channel, and an Unsubscribe that finds a Send in
  progress hands its channel to that Send. Every websocket message has its own
  goroutine; client goroutines, the event loop and Stop run beside them.
- *Ordering.* The id of a subscription must precede its notifications, the answer
  to an unsubscribe must follow them, results must arrive in order.
- *Failure.* Panics on type mismatch in the middle of critical sections, writes
  that fail or cannot be encoded, clients that hang up, services that fail to
  start.
- *Waiting.* Blocking sends to slow receivers while those wait for a lock; a loop
  that stops while others wait for it.

`PROJECT.json` lists each of these as a hazard at its line with the properties
that would notice it going wrong.

## 2. Modules

| Module | Models | Role |
|---|---|---|
| `FeedSpec` | what a Feed promises, without lists and locks | abstract specification |
| `Feed` | `pkg/event/feed.go` | detailed model, implements `FeedSpec` |
| `FeedProofs` | | theorems about `FeedSpec` and `Feed` |
| `SubscriptionScope` | `pkg/event/subscription.go` | detailed model |
| `RpcServer` | `pkg/server/server.go`, `pkg/server/subscription.go`, part of `pkg/codec/jsonc.go` | detailed model |
| `EventMsg` | `template/subscribe.go.tpl`, the goroutine of `template/@@@@@.go.tpl`, `Manager.Stop` | detailed model |
| `ScopeProofs` | | theorems about `SubscriptionScope` |
| `Dispatch` | `pkg/server/utils.go`, `endpoint.go`, `http.go`, parsing in `pkg/codec/jsonc.go`, `RegisterName`, `readRequest` and `handle` of `pkg/server/server.go` | what an endpoint exposes and where a message leads |
| `Node` | `template/node.go.tpl`, `template/api.go.tpl` | detailed model |
| `Registry` | `pkg/registry/` | clients, with Consul and etcd as environment |
| `HexUtil` | `pkg/common/hexutil/`, `pkg/common/bytes.go`, text forms of `types.Hash`, number parsing of `pkg/common/math` | operators, and a receiver that is unmarshalled into |
| `Numbers` | `pkg/common/math/` | operators, and two registers they work on in place |
| `Files` | `WriteFile`, `RemoveFile` of `pkg/common/files.go` | detailed model with crashes |
| `DispatchProofs`, `RpcServerProofs`, `EventMsgProofs`, `NodeProofs`, `RegistryProofs` | | theorems about the module of that name |
| `HelpersProofs` | | theorems about `Files`, `Numbers` and `HexUtil` |
| `MCFeed`, `MCRpcServer`, `MCDispatch`, `MCRegistry`, `MCHelpers` | | small instances; the others get their constants from the configuration alone. `MCHelpers` puts `HexUtil`, `Numbers` and `Files` beside each other: they share no state, and one takes steps while the others rest |

Operators whose name begins with `Bad` are deliberately faulty variants of the
definition that follows them. No specification uses them; they stand for
plausible bugs (a dropped guard, a missing reset, a lock released too early), and
substituting one for its original must make the property it is paired with in
`PROJECT.json` fail. This shows that the property is sensitive to the code.

### Feed

A subscription is one `Subscribe` together with the `Unsubscribe` of its result,
a sender is one `Send`; both are constants, so an instance bounds the number of
calls and not their interleaving. `inbox` and `sendCases` hold subscriptions in
place of select cases, and `ChanOf` gives their channel; channels may be shared.
`find` compares channels, as the code does, so that one subscription may remove
the case of another. `cases[s]` is the length of the slice `cases` of Send `s`,
a prefix that shares its array with `sendCases`; `deactivate`, `delete` and
`shrink` act on the shared array.

| Action | Code |
|---|---|
| `Subscribe`, `SubscribeBadChannel` | Subscribe, with its two panics |
| `RemoveFromInbox` | remove up to its first return or its select |
| `RemoveWithLock` | the select case of sendLock |
| `RemoveDuringSend` | the select case of removeSub, meeting `chosen == 0` of Send |
| `SendLock`, `SendMerge` | Send up to the loop, with the panic of a wrong type |
| `TrySendOk`, `TrySendFull`, `FastPathEnd` | one iteration of the fast path, its end and the return |
| `SelectSend` | Select choosing a channel |
| `Recv` | external: somebody receives from a channel, or waits for it |

`mu` is only held across steps by a Send that panicked, which never unlocks it;
all other critical sections of mu are single steps.

`FeedSpec` knows the number of open subscriptions per channel, a round (the Send
being carried out) and the copies the round owes. Its `Leave` may settle a debt.
`ImplementsFeedSpec` is the refinement: `members` is the number of open
subscriptions, `pending` the number of active cases per channel.

### SubscriptionScope

Users track a subscription and unsubscribe its wrapper; `Close` goes through the
set while it holds the lock, waiting for each wrapped Unsubscribe. The wrapped
subscription is a feedSub: whoever calls Unsubscribe first does the work, the
others wait (`errOnce`). That it finishes is what `Feed` shows.

### RpcServer

Each connection has a script of messages, each message a sequence of requests
(calls, failing requests, subscribe, unsubscribe). `servePc` follows
`serveRequest`, `taskPc` follows `exec` or `execBatch`, `stopPc` follows `Stop`,
`handlerPc` the goroutine that a service starts for a subscription: it waits for the
event loop to install its client, notifies, and on Err or Closed waits for the event
loop to uninstall it. The loop itself is `EventMsg`; here it runs or, after Manager.Stop
(`EventLoopStop`), does not, and then nobody is installed or uninstalled. `out` is
what was written to the connection, the client's view. The client sends its
script in order, asks to unsubscribe only from ids it has been sent, and may
hang up at any time; a write to a connection that was hung up may succeed or
fail, and once one failed all do. `Close` closes a channel and not the
connection, as in the code. `Notify` holds subMu between its look-up and the end
of its write; Stop holds CodecsMu while it closes the codecs.

### EventMsg

The event loop is at its select or in a broadcast, which blocks on the full
channel of a client. A client's goroutine subscribes, receives, and leaves at any
time, when its client is gone; its `Unsubscribe` drops results until the loop takes the
uninstall request. The Feed is reduced to what `Feed` shows of it: with a single
subscribed channel, Send puts one copy into it, waiting while it is full. Nobody
unsubscribes `resultsSub`, so the loop's case of `resultsSub.Err()` never fires.
`log`, `base` and `taken` are history variables.

### Dispatch

The state is an endpoint: its module list, whether it is up, `services` (the
tables of `Server.Services`) and the message being served with what comes of it.
`Register` is one round of the loop of `StartHTTPEndpoint` or `StartWSEndpoint` over
the APIs, `at` being the next one: it passes over what the module list does not
admit, and the first API that `RegisterName` refuses ends the start. `Listen` opens
the listener or fails. `Serve` takes a message
through the front end (`validateRequest`, the limited reader), the codec
(`ReadRequestHeaders`, then `parseRequest` or `parseBatchRequest`), `readRequest`
and `handle`, up to the types of the arguments that reflection calls the method
with. A name is the sequence of its parts between underscores, since that is all
the code looks at; a Go type is one of the few kinds the code tells apart. The
calls themselves, notifications and answers are in `RpcServer`.

### Node

Start, Stop and Restart run under the node's lock, StartWS and StopWS of the
admin API under the mutex of the API object, and both call `StartWS` and `StopWS`
of the node. These are modelled statement by statement (`Listen`, `SetListener`,
`SetHandler`; `TestListener`, `Close`, `Clear`, `TestHandler`, `StopHandler`),
because the lock of one side does not keep out the other; what happens under the
node's lock alone is one step per service or endpoint. Services and `net.Listen`
may fail. A field found nil after it was tested is a panic (`Panics`): a request over
HTTP recovers from it (`Recover`, server.go:182-188), a node call or a request over a
websocket, which runs in a goroutine of its own (server.go:253), ends the process.
Every `startRPC` makes a new `PrivateAdminAPI` with a mutex of its own
(node.go.tpl:416-421): `api` counts them, `apiOf` is the one a request goes to, and
`mu` the set of requests that hold the mutex of theirs. `orphans` counts Starts that
failed in `startRPC`. `astray` records that an admin call was at work on a node that
was not up, or together with Start or Stop, or with a request to the API object of
another Start, as after a Restart: no lock prevents it, and then listeners can be lost
and the process can panic. `WsHeld` says what holds as long as it has not happened.

### Registry

A provider calls `RegisterWithTTL` (or `Register`, where its TTL is 0) again and
again (`Begin`), with one request after the other to Consul or etcd:
`ConsulRefresh`, `ConsulRegister`, `ConsulPass`; `EtcdGrant`, `EtcdGet`, `EtcdPut`.
A request that writes has two steps, the one in which the registry acts and the one
in which its answer arrives, and time may pass before each: a TTL runs from the
first, the call returns at the second. A request may fail before it has acted or
after. `Expire`, `ConsulProbe` and `Tick` are the registry's side and time.
`GetService` with `Found` and `GroupKey` is the lookup, `Listed` what a client
sees. Lookups in Consul set `AllowStale` (consul.go:41-43) and are answered from
`copy`, the entries as some server knows them, which `ConsulCopy` brings up to date
one at a time at any later moment; etcd reads what was written last.

What a provider can rely on is therefore less than "found for the TTL after the
call returned nil": `FreshIsListed` counts the TTL from when the call was *made*
(`Covered`), and speaks, for Consul, of servers that the entry has reached since the
call returned. TLC refutes it without either restriction.

Assumptions about the environment: a request that failed has taken effect by then
or never will; the Consul agent answers within the time that
the etcd client enforces (the timeout of the Consul client is commented out,
consul.go:67-70); the agent keeps the status of a check that is registered again;
reading a missing key from etcd is no error.

### HexUtil, Numbers, Files

Texts are sequences of characters, numbers have a width that is a constant, and
the code's loops (words of a big integer, digits, bytes) are recursive functions
over these. The state of `HexUtil` is a receiver that a JSON decoder uses again
and again; that of `Numbers` two big integers that `U256` and `Exp` change in
place. `Files` follows each call of `WriteFile` through its operations on the file
system; every one may fail, the process may die between any two (`Crash`), and
the machine may lose power, after which unsynced content is lost (`PowerLoss`).

## 3. Runs

Passing runs:

| Run | Instance | Shows |
|---|---|---|
| `feed` | 2 Sends, 3 subscriptions, 2 of which share an unbuffered channel; one channel with one place | one case per open subscription (`CasesMatchSubs`), exact delivery (`SendComplete`), no delivery after Unsubscribe, refinement of `FeedSpec`; Unsubscribe returns although a Send is blocked; Send returns if receivers receive |
| `feed_types` | 2 types, an argument that is no channel | panicking calls never put a case of the wrong type into the lists (`TypeSafe`), and every Unsubscribe finds its case (`CaseFound`). Deadlock is not checked: the leaked mu stops the feed |
| `scope` | 3 subscriptions | Close cancels all, nobody deadlocks |
| `rpc_subs` | one websocket client, a batch that subscribes, two unsubscribes, 2 events, Stop, hang-up | order of id, notifications and answers on the wire; a hang-up ends the service; no handler goroutine is left as long as the event loop runs |
| `rpc_stop` | a websocket and an HTTP client, a message that cannot be parsed, Stop at any time | no connection escapes Stop; tasks finish first; each message that is read is answered once |
| `event` | 2 clients, 4 results, channels of one place, Manager.Stop | no gap, no use of a channel after Unsubscribe; Unsubscribe and Send return while the loop runs |
| `dispatch` | 6 APIs, 5 module lists, 18 front ends, about 600 messages | an endpoint exposes exactly the suitable methods of the APIs it lists; each can be reached, but for names the syntax cannot express; methods are called with arguments of their types, whatever a client sends, and the signatures that would panic are exactly the five kinds of `Uncallable`; batch and single parser agree |
| `registry` | a provider with or without TTL, Consul or etcd, 3 faults | after a call that returned nil a service is found until its TTL has passed since the call was made; one whose provider lives comes back; one whose provider died disappears |
| `node` | 2 callers, 2 admin requests, 2 services, 2 ports, 1 fault, 4 calls | the node is up or down as a whole; only a failed endpoint leaves services behind; admin calls keep listener and handler together; every call returns |
| `helpers` | see *Bounds* | hexadecimal texts are read and written canonically and the parsers agree (`DecodersExact`); a failed call leaves its receiver alone; overflow flags and two's complement (`FixedWidthExact`), powers and bytes (`LoopsExact`) are exact; WriteFile is atomic and leaves no temporary file without a failure (`AtomicWrite`) |

Four results fill a client's channel, the broadcast in progress and `resultsCh`, and
leave a Send waiting. The runs of `EventMsg` and `Node` do not check deadlock: a service
without calls under way rests (in `Node` also a process that panicked),
and calls that stay blocked are what their liveness properties exclude. Nor does
`dispatch`, where an endpoint that failed to start does nothing more.

Runs that end in a violation, each of a statement in the repository's own
comments; `PROJECT.json` quotes the statement:

| Run | The code does |
|---|---|
| `rpc_unsub_race` | an unsubscribe between the write of the id and activate is refused and Err stays open |
| `event_stop` | after Manager.Stop an Unsubscribe never returns and err stays open |

Further places where the code and its comments or its evident purpose disagree.
The models do what the code does, and the properties are stated around it:

- A Send of the wrong type panics with mu locked (feed.go:140), so that the next
  call of the Feed blocks (`feed_types` therefore does not check deadlock).
- After a failed write of the response the subscription is activated all the same
  (server.go:392). Where the connection is gone this is harmless. A batch that
  subscribes and also has a result that cannot be encoded fails alone, though: its
  client is never sent the id and then gets notifications, against the comment
  that the id goes first (server.go:337). TLC finds this on an instance with such a
  batch, and `RpcIdBeforeNotification` excludes it by its hypothesis.
- After Stop the serve loop leaves without waiting for its tasks (server.go:239),
  and `Close` does not close the connection (jsonc.go:356), so that a loop blocked
  in a read outlives Stop.
- `Exp` squares the caller's base in place (big.go:207); its comment says that it
  "does not change base or exponent".
- A negative `hexutil.Big` marshals to `-0x...`, which nothing reads (hexutil.go:185);
  json.go:137 announces an error.
- `types.FromHex` does not decode (types.go:59), so that `HexToHash(h.Hex())` is not `h`,
  and `SetBytes` leaves the leading bytes of the old value.
- The etcd client asks for leases in nanoseconds where seconds are meant (etcd.go:76):
  a dead provider is forgotten, but only after that time. Its lookup compares
  with name and version joined (entity.go:54), and ignores the tag when it filters.
  Since the key joins the two as well, services whose names and versions join to the
  same text overwrite each other on one host and port.
- `suitableCallbacks` accepts methods that the server cannot call or whose results it
  cannot take apart (`Uncallable`): a subscription that wants a pointer to a context or
  returns a Subscription by value (utils.go:51, 71), an error that cannot be nil or a
  pointer to an error (utils.go:61), since `IsNil` and the conversion at server.go:368-369
  panic, and variadic parameters, since Func.Call (server.go:299, 363) takes the slice it
  is given for one element; only a slice of empty interfaces is one.
- A handler goroutine that has not uninstalled its client when Manager.Stop ends the
  event loop never returns (@@@@@.go.tpl:108, 117, 120), as in `event_stop`;
  `HandlersStop` speaks of the time before.

### Bounds

Numbers of calls, clients and messages are constants of the instances; within
them every interleaving is explored. Two Sends are enough for one to hold the
lock while another waits; three subscriptions, two on one channel, are enough
for an Unsubscribe to meet the inbox, the idle list and a running Send, and to
take the case of its sibling. Channel capacities 0 and 1 give both the blocking
and the buffered case, and make full channels common, where the code's 10 and 128
would hide them. `MaxEvents` bounds the events of a subscription: two, so that
one comes before and one after the id, in `rpc_subs`, which calls Stop too, and
none in `rpc_stop`, whose questions are about messages and codecs. A batch of two requests separates the
computation of an answer from its write.

The signatures and messages of `dispatch` cover each combination of kinds that
some test in the code distinguishes; batches have up to two elements, the least
at which the order of errors matters. In `registry` a TTL of three ticks with a call
of at most two leaves room for a refresh in time, one too late, one that is lost and
an answer that comes when most of the TTL has passed; `Nanos` = 3 is enough for
leases to be longer than asked for. Providers write different entries and do not
wait for each other, so `MCInit` has one of them running at a time. In `node` four calls
let two admin requests meet a Stop and a Start. `helpers` uses an alphabet of four
characters (zero, a digit, a capital digit, no digit), with five beginnings and
up to three or, over two characters, four further ones; words of 2 digits, numbers
of at most 3, 2 and 1 digits for Big, Uint64 and Uint, hashes of 2 bytes. The
texts therefore lie below, at and above every limit. Numbers has 4-bit words
against 5-bit big numbers, bytes of 2 bits, and values from -16 to 40, which
includes all residues and exponents of two words. Three writers let one call
finish while two are in progress.

### Fairness

Weak fairness of each call's own steps: the Go scheduler lets every runnable
goroutine go on, a mutex is handed to a waiter, a select whose case stays ready
proceeds. Nothing obliges a caller to call, a client to send, hang up or leave,
or anybody to call Stop. Only `SendReturns` of `Feed` presupposes that receivers
receive ("Slow subscribers are not dropped", feed.go:72): that fairness is its
hypothesis and not part of the specification. Every instance has finitely many calls, so a
competition for a lock or a channel is finite and weak fairness suffices. In
`RpcServer` a running event loop serves a handler that waits in install or
uninstall, which is what `CallsReturn` of `EventMsg` shows of that loop; a stopped
one serves nobody.

`Node` has strong fairness of each thread, since its mutexes are taken and
released any number of times: a Go mutex is handed to a goroutine that has waited
for long. `Registry` has weak fairness of the calls, the probe and the expiry, and
strong fairness of `Tick`, because time passes although calls are made: providers
are assumed to keep refreshing, which is what `RegisterWithTTL` is for. A server of
Consul brings its copies up to date (weak fairness of `ConsulCopy`), and not only
when an entry happens not to pass (strong fairness of copying a passing one).

## 4. Proofs

Each theorem holds for every value of the constants that satisfies the
assumptions named in the module that declares them; TLC evaluates those
assumptions on the instances. Below, what is proved, and what had to be added to
make it inductive.

**`FeedProofs`**: any set of Sends, channels and types, any finite set of
subscriptions (`SubsAssumption`, `ChansAssumption`, `TypesAssumption`).

- `FeedTypes`, `FeedLock`, `FeedPrefix`: the invariants `TypeOK`, `LockInv` and
  `PrefixInv`. None is inductive alone: that the prefix of a Send stays within
  `sendCases` while others change that list needs the exclusion that `LockInv`
  states, and the types of the lists after `deactivate` and `delete` need the
  indices to be in range, which is `PrefixInv`. `IndInv` is their conjunction;
  `FeedIndInv` proves it with one step per action.
- `FeedCases`, `FeedCaseFound`: every channel has exactly as many cases as open
  subscriptions (`CasesMatchSubs`), and an Unsubscribe that passed the inbox
  finds its channel in `sendCases` (`CaseFound`), so that `delete` is never called
  with -1. With shared channels, "my case is in the list" is not an invariant,
  since a sibling may have taken it; the induction needs a count. `CountInv` says
  that `sendCases` holds, per channel, at least as many cases as there are
  Unsubscribes past the inbox: such an Unsubscribe saw no case of its channel in
  the inbox, so that all cases of that channel were in `sendCases`, and each
  removal takes one case and one Unsubscribe.
- `FeedTypeSafe`: no call of a wrong type reaches the lists or works on them,
  although a panicking Send has emptied the inbox. `TypeInv` adds that a case has a
  type at all, so that the feed's type is set as soon as there is a case.
- `FeedNoDelivery`: an action property. A step that delivers serves a case of the
  active prefix (`StepDelivers`), and by `CountInv` a channel with a case has an
  open subscription.
- `FeedSendComplete`: `Accounts` balances the books of a Send at work: what it has
  delivered to a channel and the active cases of that channel (`Debt`) are no more
  than the subscriptions it began with, and no fewer than those less the dropped ones. The
  lemmas about `PrefixOf` say how `deactivate`, `delete` and `shrink` on the shared
  array change a debt: by one, for one channel.
- `FeedImplements`: `Feed` implements `FeedSpec`. `RoundInv` restates the mapped
  variables: a Send past its critical section is the round, and the round owes what is
  in its prefix. `MapStep` takes the actions one by one, `MapLeave` an Unsubscribe
  that meets a Send and settles a debt or none, depending on where the case was, and
  `MapStutter` those that only move cases between the lists.

- `FeedSpecDebt`, `FeedSpecFinal`, `FeedFinal`: of the abstract feed, that a round
  never owes a channel more than it has open subscriptions, and, from that, that the
  deliveries of a Send are final once it has returned. The refinement carries this
  over to `Feed` (`FeedFinal`), where it is not obvious: the cases of the next Send
  are in the same array.

**`ScopeProofs`**: `TypeOK`, `CloseCancelsAll` and `TracksOpen` of
`SubscriptionScope` for any set of subscriptions. None is inductive: the argument
needs that the loop of Close has nothing left outside Close (`LoopInv`), that a
subscription is in the set from Track until it is closed (`UserInv`), and that
what Close has passed is closed (`PassedInv`).

**`DispatchProofs`**: any list of APIs with any methods, any module list, front ends and
messages. `ApisAssumption`, `FrontsAssumption` and `MessagesAssumption` say what these
are: a method has a name and a signature, a message that is no batch has one request.

- `DispatchTables`: the invariant `TablesInv` of a start that registers one API per step.
  `StartInv` says that the start is through the list before a message is served,
  `SuitedInv` that an entry of a table is one that `suitableCallbacks` accepts for it,
  `OwnedInv` that an entry is a method of a listed API registered so far, or the metadata
  service's, and `EnteredInv` that every suitable method of such an API has an entry, of
  that API or a later one. Together they say that the last API with a name owns it,
  which is not inductive as a maximum but is as these two bounds.
- `DispatchExposesExactly`: `TablesInv` with the whole list behind it; by the two bounds the
  API of an entry is the maximum of its owners.
- `DispatchCallsFit`: from `SuitedInv` and the lemmas about `Arguments` and `handle`: what
  `Parses` accepts has the types asked for, the first parameter of a subscription is
  not one of them, and the number of arguments is compared for a call but not for a
  subscription. `CallOwnTypes` and `CallPointer` say what `Func.Call` makes of arguments of
  the parameter types, for variadic methods too. The equivalence is exact: a suitable
  signature that is not `Uncallable` is called without panic, whatever its results, and
  an `Uncallable` one has arguments or results that panic.
- `DispatchReachable`: from `EnteredInv` and `OwnedInv` the name is in a table of a service;
  the lemmas follow a request with as many nulls as the method has arguments through
  `parseRequest`, `readRequest` and `handle`.
- `DispatchBatchAgrees`: `parseBatchRequest` and `parseRequest` case by case; the index
  that rejects a batch is a minimum, for which `MinIndex` uses that `<` is well-founded.

**`RpcServerProofs`**: any connections, messages, scripts, subscriptions and
numbers of events. Ids are taken to be distinct (`IdsAssumption`), which is an
idealisation of `NewID` (see section 5).

- `RpcTypes`: `BaseInv` adds `ReadInv` (no message is read that was not sent) and
  `FreshInv` (a request to subscribe that was not handled has left no trace), without
  which `active` and `inactive` need not stay disjoint.
- `RpcStopClosesAll`: `StopInv` follows a codec from its registration: while it is
  served it is in `Codecs`, while Stop goes through them it is closed or still to be
  closed. That `Run` is tested under `CodecsMu` is what makes it inductive.
- `RpcTasksFinishFirst`: over HTTP nobody waits for tasks; `SingleInv` says that the
  one that is executed is the only one.
- `RpcAnsweredOnce`: `AnswerInv` adds that a task at work was read and not answered
  yet (`TaskInv`), and that a message just read has neither task nor answer
  (`GotInv`), so that refusal and task exclude each other.
- `RpcSilentAfterUnsubscribe`: `UnsubInv` and `ClosedInv` carry the success of an
  unsubscribe from the computed answer to the wire: once it is computed, the
  subscription is in neither map and no `Notify` is between look-up and write, since
  both hold subMu.
- `RpcIdBeforeNotification`, under the hypothesis `EncodableSubs` (a message that
  subscribes has no result that cannot be encoded; without it the property is
  false, see section 3): `CallbackInv` and `ActiveInv` say that from the callbacks
  on the id is on the wire or the connection is broken, in which case nothing is
  written any more.

**`EventMsgProofs`**: any clients, results and capacities. `EventTypes`, `EventNoGap`
and the action property `EventChannelUnused` follow from `IndInv`: the index holds exactly
the subscriptions between install and uninstall (`IndexInv`), a channel comes to the
index unused (`FreshInv`), and broadcast sends the end of the log to subscriptions
older than it (`EventInv`).

**`NodeProofs`**: any callers, admin requests, services and ports. `NodeTypes` and
`NodeUpOrDown` need who holds which lock at which label (`LockInv`) and what a node
call has done by then (`StageInv`). `NodeWsHeld` needs the state of the listener at
every statement of `StartWS` and `StopWS` (`WsStage`), and that unless `astray` holds
only one thread is there (`WsInv`): callers exclude each other by the lock, requests
to one API object by its mutex, and only what no lock excludes is left to `astray`.

**`RegistryProofs`**: `RegistryFreshIsListed`, for any providers with different keys
(`DistinctIds`; see the end of section 3 for when keys collide), times and
failures, however long calls take. `RegistryInv` says of a provider within the TTL
of its last call that returned nil that its entry is there, passes, and is no older
than that call; the same of the call in progress once the registry has acted on it,
unless `Deregister` came in between; and of a copy made since that it passes. It
needs that the call in progress began after the last one that returned nil
(`Later`), because an etcd lease may be as old as its call. Of the length of a lease
it needs only that it is not shorter than the TTL (`LeaseLong`).

**`HelpersProofs`**:

- `FilesAtomic`: `AtomicWrite`, that is `WholeFile` and `NoStrayTemp`, for any set of concurrent calls,
  from `FilesAssumption`. `FilesInv` adds the types and `WholeTemp`: past its Write, a
  call has its whole content in its temporary file, unless data was lost.
- `NumbersFixedWidth`: `SafeExact` for every word size and `TwosComplement` for every
  number of bits. `MulFlag` shows that comparing with a quotient decides whether a
  product fits, `ModInRange` and `ModNegative` what a remainder is on both sides of
  zero. `PowersAssumption` states the two facts about powers of two that are used,
  since the provers do not compute powers; TLC evaluates it for the instance.
- `HexFailureKeeps`: an action property over all texts; `ErrorKeeps` goes through
  the five receivers and the way each of them fails.
- `HexBytesRoundTrip`: `HexTypeOK` and `RoundTrip` for the receivers of bytes (`Bytes`,
  `Hash`, `UnprefixedHash`), for texts and hashes of any length. `BytesInv` is the
  invariant: the receiver holds bytes and, after a call that succeeded, the text it was
  given is theirs (`TextOf`). `EncodeDecoded` and `DecodeEncoded` say that `HexEncode` and
  `HexDecode` are inverse to each other up to the case of the digits; they rest on
  `NibbleDigit` (a nibble's digit) and `ByteDigits` (a byte's nibbles). That decoding
  a wrong text stops at some pair (`GoodExists`) is an induction, made as the least
  element of a set of numbers.
- `HexHelpersAgree`: `HelpersAgree`, from the same invariant: `FromHex`, `ToHex`,
  `Hex2BytesFixed`, `LeftPadBytes` and `BytesToHash` agree with hexutil and each other,
  also on texts that are decoded only in part.

The type and lock invariants of `Feed` and `SubscriptionScope` are proved and not
checked by a run of their own; the runs are spent on what they are needed for.

Model-checked only:

- the liveness properties (`UnsubscribeReturns`, `SendReturns`, `CallsReturn`,
  `HangUpEndsServe`, `HandlersStop`, `ReadIsAnswered`, `DeadForgotten`, `KeptListed`):
  fairness is outside the prover;
- `LoopsExact`, and of `DecodersExact` the parts about numbers (`HexTypeOK` and `RoundTrip`
  of the number receivers, `Canonical`, `ParsersAgree`, `QuantitiesAgree`): `Value`,
  `Numeral`, `ExpLoop` and `FromBytes` are recursive functions and folds. That such a
  function exists and what it computes for every input is an induction over data with
  an operator as parameter, which the provers cannot instantiate, and they know
  nothing of powers. The parts about bytes are the two theorems above.

## 5. Not modelled

- Panics of callbacks and TCP back-pressure.
- The generation of ids, which are assumed distinct (`IdsAssumption` of `RpcServer`).
  `NewID` seeds a generator with the nanosecond of the second for every seven bytes
  (subscription.go:167) and nobody looks for an equal id, so the assumption holds only
  as far as no two subscriptions of a connection meet the same clock readings.
- Origins of the websocket handshake, CORS and virtual hosts: tests of strings in
  front of what `Dispatch` models.
- `ListServices`, configuration of the registry clients, and Consul and etcd
  themselves beyond what the clients rely on.
- The LevelDB wrapper, which passes its arguments through; the execution of
  commands; listing and reading of files; the project generator, configuration
  and metrics: I/O and data.

## 6. Plan

All components with state of their own are modelled, and the safety properties
of all of them are proved, but for the numbers of `HexUtil` and the loops of
`Numbers`. What is left:

- One model of `RpcServer` and `EventMsg` together, for the time between the
  answer with the id and the installation of the subscription.
