# mhub in TLA+

A verification project for mhub, an MQTT 3.1 broker in Go: TLA+ modules of its
components, TLC configurations that check them on small instances, and TLAPS
proofs of the properties that matter most. Paths below are relative to the
repository (`src/`).

## 1. The system

| component | source | state | operations | what is hard |
|---|---|---|---|---|
| sessions | `broker/session.go`, `server.go`, `proto.go` | per connection: two loops, a heartbeat, `jobs`, `alive`, `flag`, `stopChan`; globally: `clients`, the connection counter, presence | accept, CONNECT, PINGREQ, DISCONNECT, heartbeat, teardown | three goroutines per connection, eviction across connections, channels closed by one and used by others |
| handlers and workers | `broker/proto.go`, `subs.go` | `posts`, the subscription table and its lock | PUBLISH, SUBSCRIBE, UNSUBSCRIBE, fan-out, retained messages | a lock held while a channel blocks, checks that are stale when used |
| subscription table | `broker/subs.go` | lists per topic, wildcards, retained messages | `add`, `unsub`, `unsubAll`, `subscribers`, `sendRetain`, `run` | slices that share arrays, several workers |
| topic filters | `broker/wild.go` | - | `isWildcard`, `valid`, `matches` | boundaries of the loop |
| QoS 1 | `broker/store.go`, `memstore.go`, `proto.go` | one store per client id, keys `i.N` and `o.N` | persist, resubmit, PUBACK | breaking connections, ids that collide |
| peers | `broker/peers.go`, `endpoint.go` | one queue and one connection per peer | replicate, join, session, stop, replay | reconnection, a map changed while others go through it, messages shared by pointer |
| discovery | `cluster/discovery.go` | keys in etcd | register, lead, find peers, heartbeat | races, crashes, expiry |
| client library | `broker/api.go` | `out`, `Incoming`, ack channels | Connect, Subscribe, Publish, Disconnect, keep-alive | four goroutines, channels closed under senders |
| process and statistics | `daemon/mhub/main.go`, `config/`, `broker/server.go`, `stats.go` | the configuration, the listeners, counters | load, start, count, report, query | start-up that fails half way, counters read one by one while all goroutines add to them, divisions |
| presence | `broker/presence.go`, `redistore.go` | the set of users in redis | check in, check out | a check-out after the successor's check-in, a redis that fails |

A connection is accepted by the server, which starts `inboundLoop` and
`outboundLoop`. `inboundLoop` runs the handlers; PUBLISH goes through `posts` to
the workers, which look up the subscribers and put the message into their
`jobs`, and through `replicate` to the endpoints. `outboundLoop` writes `jobs`
to the socket and tears the session down. All of them add to the counters of
`stats`, which a ticker logs and a HTTP server shows.

## 2. Modules

| module | models | notes |
|---|---|---|
| `Session` | `session.go`, the accept loop, `doConnect`, presence and the redis commands it uses | `in[c]`, `out[c]`, `hb[c]` are the positions of the three goroutines; `jobs[c]` the queue; `released` the receipts that are closed; `target[c]` whom `c` evicts; `present` the users in redis, whose commands fail silently if `RedisMayFail`; `work[c]` what is left of the request being handled; the deferred function of `inboundLoop` is five steps, of which `ExitCount` takes the client off the counter and `ExitAlive` clears `alive` |
| `Broker` | extends `Session` with the handlers and workers, one topic | lock and channel operations are separate steps |
| `Topics`, `Matcher` | `wild.go` | `Matcher` runs `matches` as its loop (`idx` is the `i` of the code); `Covers` says what a filter means |
| `Subscriptions` | `subs.go` with several topics and wildcards | Go slices are (array, length) pairs over a heap of arrays; `append` writes in place while there is capacity; wildcards are kept under the number of their SUBSCRIBE, which is the order of the list; `subscribers` appends one client per step while it holds the lock (`Unlocked` guards all others that take it) |
| `Qos` | stores, resubmission, acknowledgements | sessions in outline (Session has the details); queues are bounded, and a resubmission or a delivery meets a full one as `submit` does: it waits or discards |
| `Peers` | one node and its peers | a link is a sequence of connections, because a new one is read beside the old; `broken` are those that are lost; `join` may change the map in the middle of a `replicate`, which then meets the new endpoint or not |
| `Discovery` | `cluster.Do` on several nodes and etcd | `errors` and `crashes` remember that something has failed; `lapsed` are running nodes whose key has expired because their renewals failed |
| `Membership` | what discovery promises: nodes join and leave one at a time, and who joins is told about all members | `JoinsInformed` in `Discovery` is its specification, with the nodes that `Do` has let in as members |
| `Server` | `main`, `LoadConfig`, `NewServer`, `Start`, `startListener`, `stats.go` | a connection is reduced to the steps that are counted; loads of counters are separate steps; the throughput is divided by the whole seconds of the interval and truncated; `proc` is how the process ended |
| `ClientConn` | the client library against a broker | the broker answers requests in order as its handlers do, pushes messages, discards either when the queue of the session is full, and may hang up; the connection may be lost |
| `*Proofs` | theorems | |
| `MC*` | instances for TLC | |

`PROJECT.json` maps every definition to the lines it models.

What is abstracted. Messages are model values or small records: payload, wording
and logging are left out. Of the counters, those of packets, clients, sessions
and aborts are in `Server`; those of bytes and of peers are left out.
`authenticate` and `authorized` always return true in the code, and are taken to.
A client has at most one heartbeat (the code starts one more with every further
CONNECT). Queues have length at least one. Once a goroutine panics, nothing runs
any more (`panic`), as in Go. Reads and writes of `alive` race in the code; they
are separate steps, each seeing the last value written.

As the program stands, `join` has no caller, the endpoint in `peers.start` is
disabled and nobody calls `cluster.Do`: `Peers` and `Discovery` show what this
code does when it is used.

## 3. Runs

| run | instance | properties |
|---|---|---|
| `takeover` | 2 connections with one id that send CONNECT and PINGREQ as often as they like, limit 1, queues of 2, keep-alive, presence, failing writes | `ConnectionLimit`, `EvictionFinal`, `PresentHasSession`, `AbsentWasTakenOver`, `ReceiptKept` |
| `disorderly` | 1 connection, any request at any time, strategy block, a queue of 1, retained messages, failing writes | `TypeOK`, `OnlyConnectedReceive`, `LockHeldByHandler`; liveness: `LockReleased` |
| `progress` | 1 connection that publishes plain and retained messages to itself, 1 worker, keep-alive, a stored message, failing writes, strategy discard | `RegistryExact`; liveness: `StopDisconnects`, `Teardown`, `WorkerFinishes` |
| `matcher` | all filters and topics up to 4 parts | `InRange`, `ReturnsCovers`; liveness: `Returns` |
| `slices` | 2 clients, 5 subscribes, a topic and `+`, 1 message on one of two topics | `ExactDelivered`, `NoStrangeMessage` |
| `retained` | 2 workers, 2 subscribes, 3 messages of any kind, a topic and an invalid filter | `TypeOK`, `OvertakesFew`, `RetainedIsRecent` |
| `pairs` | 4 nodes, 3 crashes, failing etcd calls and renewals | `PairsIntroduced`, `JoinsUnlessFault`; refinement: `JoinsInformed` |
| `replicas` | a publisher with 3 messages, 2 peers of which one joins, queues of 2, discard, endpoints that stop, links that fail or are lost | `TypeOK`, `ReplicaInOrder`; liveness: `QueuedArrives` |
| `service` | 5 configuration files with intervals of 1, 2 and 4 seconds or none, failing listeners, 2 connections, 1 packet in and 1 out | `SnapshotSane`, `ReportedOnce`, `AbortsBounded`; liveness: `EveryPacketCounted`, `StartsOrEnds` |
| `delivery` | 2 publishers with one message each under the same id, one of them subscribes, queues of 1, strategy block, 2 sessions each, clean or not | `TypeOK`, `ConfirmedIsSubmitted`, `OutboundIsKept`; liveness: `StoredIsDelivered` |
| `calls` | 3 calls, 2 pushes, a ping, queues of 1, the connection may be lost | `TypeOK`; temporal: `LoopsEndTogether`, `CallsReturn`, `OpenUntilDisconnect` |
| `lostwildcard` | as `slices` with one topic | violates `WildcardDelivered` |

What they show. Whatever the order in which the three goroutines of a connection
leave, the connection is torn down when nobody waits for room, and the worker
does not get stuck (`progress`). Where somebody does wait for room, with the lock
of the table held, the lock is given back as long as the queue has a reader
(`disorderly`). An eviction or an idle timeout that was confirmed is final, also
with refused and repeated CONNECTs, the receipt it waits for is never lost, and
presence is wrong only for a user whose sessions overlapped (`takeover`). The
table of subscriptions survives holes and shared arrays as far as subscribers by
name are concerned (`slices`); several workers reorder messages and retained
values, but no further than their number explains (`retained`). A PubAck is never
premature, a client's own messages never displace those sent to it, and what has
reached the outbound store is delivered, over breaking connections and full
queues (`delivery`). Peers get what is published in order and once, unless a
session fails or a connection is lost, also while other peers join (`replicas`).
Nodes that find each other through etcd behave as if they joined one at a time,
each told about everybody there, and before something fails nobody is turned away
(`pairs`). What the statistics say is consistent, every packet gets into a total
and none into two reports, and the process does not go on with half of it started
(`service`). The client library ends both loops or none, and finds no channel
closed before its caller asks for it (`calls`).

Bounds. Queues of length one are full after one message, so that every full-queue
branch is taken; queues of two let a Disconnect wait behind a packet. Two
connections with one id are enough for an eviction to meet an idle timeout, a
failed write and the end of its target; a third is needed to register while
another is evicting (see `OneSessionPerClientId` below). Five subscribes make a Go slice grow to capacity four and
leave it spare room to overwrite. A queue of two and a third message let one be
discarded between two that are not, and let a connection be lost with a message on
the way and one in the queue. Four nodes let a leader, a node on its way in, one
that restarts and one whose key is left over meet. Two connections put one
between its two counters while another is past them; one packet each way is
enough to be counted between the two loads of a report, and less than an interval
of four seconds, so that the truncation happens. Two sessions and a queue of one
let a resubmission wait for room, and be cut off by the end of the connection; two
messages of one id let the one take the place of the other. Two workers and three
messages let one be overtaken, and a third published after it is handled. Symmetry
is used only in safety runs, on sets whose members the instance treats alike.

Deadlock is not checked: clients may all be gone, a bounded number of messages
may be used up, and a panic ends the process.

## 4. Known departures

Statements of comments and documents that the code does not keep. One is a run of
its own (`lostwildcard`; `PROJECT.json` quotes the line). The others are properties of the modules as well; TLC refutes each when it takes the
place of the properties in the configuration named here, with the constants
changed as given (temporal ones without the SYMMETRY line).

| property | configuration | what happens |
|---|---|---|
| `NoNilDereference` | `takeover` | a connection ends before its CONNECT; `onTerminate` (`session.go:39`) reads a nil flag |
| `OneSessionPerClientId` | `takeover`, three `Conns`, `QueueLen = 1`, `MaxConnections = 0`, `EnablePresence = FALSE`, `RequestsOf <- Silent`, `KeepAlives <- No`, `WriteMayFail = FALSE`, `Orderly = TRUE` | two connections wait for the same session to end and then both register (`proto.go:53`) |
| `PresentHasSession`, `AbsentWasTakenOver` | `takeover`, `RedisMayFail = TRUE` | a lost DEL leaves its user present, a lost SET absent (`redistore.go:46`, `68`) |
| `TakeoverCompletes` | `takeover`, `QueueLen = 1`, `KeepAlives <- No`, `Orderly = TRUE` | the Disconnect is queued behind a failed write; its receipt never closes (`proto.go:57`) |
| `InboundExits` | `progress`, `Overflow = "block"` | `inboundLoop` waits for room after `outboundLoop` has gone (`session.go:277`) |
| `WorkerFinishes` | `progress`, `Overflow = "block"` | so does a worker |
| `NoSendOnClosedChannel` | `progress` | `alive` is true when tested, `jobs` closed when used (`session.go:271`) |
| `StopOnce` | `progress` | going over a limit twice closes `stopChan` twice (`proto.go:174`) |
| `NoStaleSubscription` | `progress` | a topic is added after `unsubAll` (`subs.go:103`) |
| `PublishIsTaken` | `progress`, `PostKinds = {"plain", "clear"}` | an empty retained message ends its worker (`subs.go:54`) |
| `LockIsReleased` | `disorderly` | `sendRetain` waits for room with the lock held after `outboundLoop` has gone (`subs.go:88`) |
| `UnsubRemoves` | `slices` | UNSUBSCRIBE of a wildcard does nothing (`subs.go:150`) |
| `RetainedReachesAll` | `retained` | a client that subscribes between fan-out and storing misses the message (`subs.go:65`) |
| `RetainedIsLast`, `Ordered` | `retained` | workers overtake each other (`subs.go:39`) |
| `Joins` | `pairs`, `EtcdMayFail = FALSE` | the only registered node restarts and is refused (`discovery.go:105`) |
| `AllPairsIntroduced` | `pairs` | the renewals of a running node fail, its key expires, and who comes then is not told about it (`discovery.go:118`) |
| `SurvivesPeerFailure` | `replicas` | an endpoint closes its queue twice (`endpoint.go:52`) |
| `RetainReplicated` | `replicas` | the worker clears the flag before the endpoint encodes it (`subs.go:46`) |
| `AllReplicated` | `replicas`, `Started = {}`, `LinkMayFail = FALSE` | `join` does not start its endpoint (`peers.go:119`) |
| `AbortsAreSessions` | `service` | `stop()`, the heartbeat and the read error each count the same session (`stats.go:30`) |
| `TlsIsServed` | `service` | with both addresses only the plain one is listened on (`server.go:92`) |
| `ReportingIsSafe` | `service` | a ticker of no interval, an interval of less than a second, or a report before the first collection ends the process (`stats.go:103`) |
| `EveryPacketReported` | `service` | fewer packets than an interval has seconds are divided down to nothing, and the next report starts after them (`stats.go:103`) |
| `AckedIsForgotten` | `delivery` | `doPublishAck` is empty (`proto.go:148`) |
| `AtLeastOnce` | `delivery`, `Clean = {FALSE}` | messages are stored only when they are taken from the queue (`session.go:156`) |
| `UnackedIsStored` | `delivery` | a client's own message is sent to it, and overwrites one of the same id (`proto.go:82`, `store.go:69`) |
| `UnackedIsStored` | `delivery`, three `Clients`, `Msgs = Followed = {m1, m4}` | two publishers use one message id (`store.go:69`) |
| `StoredIsNotLost` | `delivery`, `Clean = {FALSE}` | what was overwritten is not delivered any more (`store.go:69`) |
| `StoredIsDelivered` | `delivery`, `Msgs = Followed = {m1, m2}`, `Clean = {FALSE}`, `Overflow = "discard"` | a resubmission meets a full queue and is discarded (`session.go:284`) |
| `SyncMeansSent` | `calls` | the receipt is closed although the write failed (`api.go:234`) |
| `ConnectSurvivesClose` | `calls` | a closed `connack` yields nil (`api.go:90`) |

## 5. Fairness

Weak fairness on the steps of goroutines: Go's scheduler runs what is runnable.
Strong fairness where a goroutine waits for a channel or a lock that others use
as well: Go queues those that wait in order. `select` chooses at random between
ready cases, so that leaving through `stopChan` has fairness of its own. Clients
are under no obligation to send or to leave in `Session` and `Broker`; in `Qos`
they come back, and their last session stays, without which nothing could be
said about delivery; in `ClientConn` the server answers while the connection
lasts, and `CallsReturn` is conditional on that and on no answer being discarded. In `Server` main and `stats.start`
are run and the ticker keeps firing; the garbage collector and HTTP clients owe
nothing.

## 6. Proofs

| theorem | statement | argument |
|---|---|---|
| `SessionProofs!SessionsBounded`, `EvictionsFinal` | `ConnectionLimit`, `EvictionFinal` | `SessionInv` adds that the counter is the number of connections that have not ended (`CountInv`); that nothing refers to a connection before it is accepted (`FreshInv`); that a connection has a flag while it serves a CONNECT (`FlagInv`); and that a receipt hangs on one Disconnect, queued for the connection its owner waits for (`ReceiptInv`), without which a closed receipt would say nothing about that connection |
| `SessionProofs!PresentSafe`, `AbsentSafe` | `PresentHasSession` if `Orderly` and not `RedisMayFail`; `AbsentWasTakenOver` if not `RedisMayFail` | `Orderly => PresentHasSession` and `AbsentWasTakenOver` together are inductive once it is added that work is left only while a handler runs, and that only a connection that was accepted has a flag (`IdleInv`): a check-in is then never made by a handler that has left |
| `SessionProofs!ReceiptSafe` | `ReceiptKept` | the Disconnect with a receipt stays queued until `outboundLoop` takes it, and taking it closes the receipt, written or not |
| `BrokerProofs!BrokerTyped`, `BrokerSessionsSafe` | `TypeOK`; `ConnectionLimit` and `EvictionFinal` with handlers and workers | to the sessions, a step of a handler or a worker is a `QuietStep`, and quiet steps keep `SessionInv` |
| `BrokerProofs!LockSafe` | `LockHeldByHandler` | the lock is held over a step only by a handler with a `sendRetain` at the head of its list, and what it sends cannot be deleted without the lock |
| `BrokerProofs!SubscribersConnected` | `OnlyConnectedReceive` | a handler with a topic left to add belongs to a connection with a flag, or the process has panicked (`AddInvariant`) |
| `BrokerProofs!RegistrySafe` | `RegistryExact`, if `Orderly` and `OwnIdsOnly` | nothing can make the `outboundLoop` of a connection leave before its CONNECT is handled: it has no jobs, no heartbeat and no subscription, and nobody takes it over (`EarlyInv`). So `del()` always comes after `add()`, and whoever is about to call `add()` has no entry and finds none under its id (`RegInv`). Most steps are shown at once: they leave flag and registry alone and do nothing to a connection that arrives (`Calm`) |
| `SubscriptionsProofs!MatchesInRange`, `MatchesIsCovers` | `InRange`, `ReturnsCovers` for all lengths | the loop invariant: the parts before `idx` agree and none of them is `#` (`LoopInv`) |
| `SubscriptionsProofs!SubscriptionsTyped` | `TypeOK` | types of the heap and the slices into it (`TableInv`, `WorkerInv`); a queued, handled or delivered message is the published one of its id (`MessageInv`, `ClientInv`) |
| `SubscriptionsProofs!NoStrangers` | `NoStrangeMessage` for any number of workers | arrays are shared, but never between topics: there is an assignment of arrays to topics such that every slice lies in an array of its topic, and every array holds only clients with a filter that has covered the topic (`OwnInv`). The assignment is no variable; each step that appends is shown to extend it |
| `SubscriptionsProofs!SubscribersServed` | `ExactDelivered` for any number of workers | a client due for a message has it already, or is in a slot ahead of the worker that nobody writes to: within the list of the topic while the table still has that array, and otherwise in an array nobody appends to (`DueInv`). This needs that whoever wants a topic is in its list (`WantsInv`), and that a lookup appends past that list or to an array of its own (`LookInv`) |
| `SubscriptionsProofs!WorkersOvertakeFew` | `OvertakesFew` for any number of workers | messages are taken in the order of their publication, each by one worker (`TurnInv`), so that the earlier messages a client gets, or may still get, after a given one are among those that the other workers held when it was delivered, and these are fewer than there are workers (`LateInv`) |
| `SubscriptionsProofs!WorkersKeepRecent` | `RetainedIsRecent` for any number of workers | what is kept for a topic is decided by a message that has been handled and was not out of date by then, if there is one; what is under way is not out of date, so that there is one in the end (`KeptInv`, with `stale` the messages that were handled before the last one of their topic was published) |
| `DiscoveryProofs!DiscoverySafe` | `PairsIntroduced` for any nodes and crashes | a node on its way in is registered and stays so unless its renewals fail, in which case it is among the `lapsed` (`DiscoveryInv`), and nobody looks for peers before there is a leader: of two nodes, the one that looks last finds the other |
| `DiscoveryProofs!DiscoveryJoins` | `JoinsUnlessFault` for any nodes | as long as nothing has failed, the state key was created by a node that is still the leader (`FaultInv`) and registered (`DiscoveryInv`), so that a follower finds somebody |
| `DiscoveryProofs!DiscoveryImplements` | `JoinsInformed`: `Discovery` implements `Membership` | every step maps to a join, a leave or a stutter; members are registered, so that whoever lists the nodes is told about all of them, and without a state key there are none, so that a leader is the first (`DiscoveryInv`); whoever is not a member knows nobody (`FaultInv`) |
| `PeersProofs!PeersTyped`, `ReplicasSafe` | `TypeOK`, `ReplicaInOrder` for any publishers, peers and lengths | a message is in one place on its way to a peer: at its handler, queued, being encoded, on one connection or received; what is further on is older (`OrderInv`, `NewerInv`), and a host that has not joined has nothing (`JoinInv`) |
| `ServerProofs!SnapshotSafe`, `PacketsReportedOnce` | `SnapshotSane`, `ReportedOnce` | `clients` leads `sessions` by at most the one connection being accepted (`ClientsInv`), `sessions` only grows after `clients` was loaded (`ShownInv`), and the next total is never below the last (`ReportInv`) |
| `ServerProofs!AbortsSafe` | `AbortsBounded` | each of the three causes counts at most once for a connection: a second `stop()` panics, a heartbeat that has kicked its client does not start again, and `inboundLoop` reads no more after an error. The aborts are at most the sum of the cardinalities of the three sets of connections, each a set of sessions (`AbortInv`) |
| `QosProofs!QosTyped`, `PubAckIsTrue` | `TypeOK`, `ConfirmedIsSubmitted` | a PubAck in a queue, and a handler about to send one, follow the submission of the message (`AcksFollow`) |
| `QosProofs!OutboundKept` | `OutboundIsKept` for any ids | an outbound key is only ever given a message that the broker is sending to this client, or dropped with all others by a clean session; inbound keys and PubAcks have keys of their own (`StoreInv`) |
| `ClientConnProofs!ClientTyped` | `TypeOK` | one predicate for each group of variables that change together |
| `ClientConnProofs!ClientSound` | `OpenUntilDisconnect` | while the connection is not lost, whatever is closed, ended or has panicked goes back to a Disconnect that is queued, being written, on the connection or over, and its caller makes no other call (`EndInv`) |

Hypotheses of the theorems, where a property does not hold without:

- `Orderly`: a client sends one valid CONNECT, before all else. Without it a
  second CONNECT changes the id of a session that is registered.
- `RedisMayFail` is false: see `PresentHasSession` in section 4.
- `OwnIdsOnly`: no two connections may use one client id. With a shared id, `del`
  of the one removes the entry of the other.

`RegistryExact` is checked on an instance that satisfies its hypotheses. The two
connections of `takeover` send several CONNECTs, for one user: a second CONNECT
for another user would leave the first one present.
All other theorems assume no more than the assumptions on constants, which are
named in the modules that declare them and say little more than what is a number.
The inductive invariants, as far as TLC can evaluate them, were checked on the
instances of the runs before they were proved.

With these, every invariant of a passing run is a theorem, for every value of the
constants. Only model-checked are the liveness properties, which are beyond the
prover: `Returns`, `LockReleased`, `StopDisconnects`, `Teardown`, `WorkerFinishes`,
`QueuedArrives`, `EveryPacketCounted`, `StartsOrEnds`, `StoredIsDelivered`,
`LoopsEndTogether` and `CallsReturn`. So is what a lock or a channel that is never
released would cost: ENABLED is beyond it as well. In `Subscriptions` the lookup is a
step per wildcard, and not a recursive function, because facts about what recursion
computes need an induction that the prover cannot do either.

`Discovery` assumes that renewals arrive within the time to live of a key
(a week, renewed eight times) unless calls of etcd fail: the key of a running node
expires only after one has.

## 7. Not modelled

- Of the redis store, `Get` and `Expire`, which nothing calls, and the pool, whose
  connections are not given back.
- Flights, plugins and `mlookupd` (no code); `leave` and `discover` of the peers
  (empty bodies); authentication (always true).
- Flags and profiling of the daemon, the counters of bytes and peers, CPU times.
- TLS as such, and the wire format, which is in another repository.
- The tools under `cmd/`, which are users of the client library.

## 8. Plan

1. An abstract specification of the subscription table (a set of client and
   filter pairs) and of sessions (one owner per id), with refinement mappings
   from `Subscriptions` and `Session` where the code keeps the promise.
2. `Peers` composed with `Broker`: two nodes, each with clients.
3. Several heartbeats of one connection.
