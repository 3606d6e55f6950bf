-------------------------------- MODULE Qos --------------------------------
(***************************************************************************)
(* QoS 1 and the message stores: persist_inbound and persist_outbound of   *)
(* store.go, the memory store of memstore.go, and their callers doPublish, *)
(* doPublishAck, doConnect (proto.go) and outboundLoop (session.go).       *)
(* Every client has a store that outlives its connections.  Connections    *)
(* break at any moment; the handler that was running goes on.  How a       *)
(* connection is torn down, and how a worker waits at one subscriber after *)
(* the other, are the subjects of Session and Broker: here each is one     *)
(* step.                                                                   *)
(***************************************************************************)
EXTENDS Naturals, Sequences

CONSTANTS
  Clients,
  Msgs,         \* the PUBLISH packets of level QosAtLeastOnce
  NoMsg,
  FromOf,       \* the client that publishes a message
  MidOf,        \* its message id, chosen by that client
  Followed,     \* the messages on the topic that subscribers ask for
  Subscribers,  \* the clients that subscribe to it
  Clean,        \* the values of CleanSession in CONNECT
  QueueLen,     \* capacity of a connection's jobs
  Overflow,     \* "block" or "discard": what submit() does when jobs is full
  MaxSessions   \* bound on the connections of a client

ASSUME QosAssumption ==
  /\ NoMsg \notin Msgs
  /\ FromOf \in [Msgs -> Clients]
  /\ Followed \subseteq Msgs
  /\ Subscribers \subseteq Clients
  /\ Clean \subseteq BOOLEAN
  /\ QueueLen \in Nat \ {0}
  /\ Overflow \in {"block", "discard"}
  /\ MaxSessions \in Nat

(* Mutant: the message id alone is the key.                                *)
NoPrefix(dir, mid) == <<"i.", mid>>

(* ibound_mid2key and obound_mid2key.                                      *)
Key(dir, mid) == <<dir, mid>>

Mids == {MidOf[m] : m \in Msgs}
Keys == {"i.", "o."} \X Mids

VARIABLES
  conn,        \* client -> "down", "connecting", "up" or "broken"
  session,     \* client -> the number of its connections so far
  keys,        \* client -> the keys that doConnect has still to look up
  subscribed,  \* clients in the subscriptions
  store,       \* client -> its store: key -> message
  handlers,    \* doPublish calls that are under way
  posts,       \* subscriptions.posts
  jobs,        \* client -> the jobs of its connection: PUBLISH and PubAck
  tried,       \* client -> messages it published on this connection
  submitted,   \* messages that were given to the subscriptions
  confirmed,   \* messages whose PubAck reached the publisher
  written,     \* client -> messages the broker began to write, since Reset
  got,         \* client -> messages that arrived
  acked        \* client -> messages whose PubAck reached the broker

connVars == <<conn, session, keys, subscribed>>
history == <<tried, submitted, confirmed, written, got, acked>>
vars == <<conn, session, keys, subscribed, store, handlers, posts, jobs,
          tried, submitted, confirmed, written, got, acked>>

None == [c \in Clients |-> {}]
EmptyStore == [k \in Keys |-> NoMsg]

Init ==
  /\ conn = [c \in Clients |-> "down"]
  /\ session = [c \in Clients |-> 0]
  /\ keys = None
  /\ subscribed = {}
  /\ store = [c \in Clients |-> EmptyStore]
  /\ handlers = {}
  /\ posts = <<>>
  /\ jobs = [c \in Clients |-> <<>>]
  /\ tried = None /\ submitted = {} /\ confirmed = {}
  /\ written = None /\ got = None /\ acked = None

Put(s, key, m) == [s EXCEPT ![key] = m]
Delete(s, key) == [s EXCEPT ![key] = NoMsg]
All(s) == {k \in Keys : s[k] # NoMsg}

(* persist_inbound for a PUBLISH.                                          *)
PersistInbound(s, m) == Put(s, Key("i.", MidOf[m]), m)

(* persist_outbound: a PUBLISH is kept; a PubAck removes what it answers.  *)
PersistOutbound(s, job) ==
  IF job[1] = "publish" THEN Put(s, Key("o.", MidOf[job[2]]), job[2])
                        ELSE Delete(s, Key("i.", MidOf[job[2]]))

(* submit() waits for room under "block".                                  *)
MayQueue(c) == Len(jobs[c]) < QueueLen \/ Overflow = "discard"

(* What is in the queue afterwards: without room the job is discarded.     *)
Queued(q, job) == IF Len(q) < QueueLen THEN Append(q, job) ELSE q

(* doConnect gets the client's store, resets it for a clean session, and   *)
(* otherwise lists it to submit every message found.                       *)
Connect(c) ==
  /\ conn[c] = "down"
  /\ session[c] < MaxSessions
  /\ session' = [session EXCEPT ![c] = @ + 1]
  /\ conn' = [conn EXCEPT ![c] = "connecting"]
  /\ \/ /\ TRUE \in Clean
        /\ store' = [store EXCEPT ![c] = EmptyStore]
        /\ written' = [written EXCEPT ![c] = {}]
        /\ UNCHANGED keys
     \/ /\ FALSE \in Clean
        /\ keys' = [keys EXCEPT ![c] = All(store[c])]
        /\ UNCHANGED <<store, written>>
  /\ tried' = [tried EXCEPT ![c] = {}]
  /\ UNCHANGED <<subscribed, handlers, posts, jobs, submitted, confirmed, got, acked>>

(* Mutant: what is kept for the client is not sent.                        *)
InboundOnly(c, k) == k[1] = "i." /\ store[c][k] # NoMsg

(* Inbound and outbound messages are treated alike; one that is gone by    *)
(* now is skipped.                                                         *)
Resubmits(c, k) == store[c][k] # NoMsg

Resubmit(c) ==
  /\ conn[c] = "connecting"
  /\ \E k \in keys[c] :
        /\ keys' = [keys EXCEPT ![c] = @ \ {k}]
        /\ Resubmits(c, k) => MayQueue(c)
        /\ jobs' = IF Resubmits(c, k)
                   THEN [jobs EXCEPT ![c] = Queued(@, <<"publish", store[c][k]>>)]
                   ELSE jobs
  /\ UNCHANGED <<conn, session, subscribed, store, handlers, posts, history>>

(* The end of doConnect.                                                   *)
Connected(c) ==
  /\ conn[c] = "connecting" /\ keys[c] = {}
  /\ conn' = [conn EXCEPT ![c] = "up"]
  /\ UNCHANGED <<session, keys, subscribed, store, handlers, posts, jobs, history>>

(* The inboundLoop of the connection waits for a packet.                   *)
Ready(c) ==
  /\ conn[c] = "up"
  /\ \A h \in handlers : h.from = c => h.at # session[c]

(* Subscriptions are not restored: a client subscribes on each connection. *)
Subscribe(c) ==
  /\ c \in Subscribers \ subscribed
  /\ Ready(c)
  /\ subscribed' = subscribed \cup {c}
  /\ UNCHANGED <<conn, session, keys, store, handlers, posts, jobs, history>>

(* doPublish begins: persist_inbound.  A client publishes a message again  *)
(* on a new connection if it has not been confirmed.                       *)
Publish(c, m) ==
  /\ Ready(c)
  /\ FromOf[m] = c
  /\ m \notin confirmed \cup tried[c]
  /\ tried' = [tried EXCEPT ![c] = @ \cup {m}]
  /\ store' = [store EXCEPT ![c] = PersistInbound(@, m)]
  /\ handlers' = handlers \cup {[from |-> c, at |-> session[c], msg |-> m, next |-> "submit"]}
  /\ UNCHANGED <<connVars, posts, jobs, submitted, confirmed, written, got, acked>>

Post(m) == posts' = Append(posts, m) /\ submitted' = submitted \cup {m}

(* The PubAck goes to the jobs of the connection that brought the message, *)
(* if it is still there.                                                   *)
PubAck(h) ==
  IF conn[h.from] # "down" /\ session[h.from] = h.at
  THEN /\ MayQueue(h.from)
       /\ jobs' = [jobs EXCEPT ![h.from] = Queued(@, <<"puback", h.msg>>)]
  ELSE UNCHANGED jobs

(* Mutant: the PubAck is sent before the message is submitted.             *)
AckFirst(h) ==
  /\ \/ /\ h.next = "submit" /\ PubAck(h)
        /\ handlers' = (handlers \ {h}) \cup {[h EXCEPT !.next = "ack"]}
        /\ UNCHANGED <<posts, submitted>>
     \/ h.next = "ack" /\ Post(h.msg) /\ handlers' = handlers \ {h} /\ UNCHANGED jobs
  /\ UNCHANGED <<connVars, store, tried, confirmed, written, got, acked>>

(* doPublish goes on: subs.submit, then the PubAck.                        *)
PublishStep(h) ==
  /\ \/ /\ h.next = "submit" /\ Post(h.msg)
        /\ handlers' = (handlers \ {h}) \cup {[h EXCEPT !.next = "ack"]}
        /\ UNCHANGED jobs
     \/ h.next = "ack" /\ PubAck(h) /\ handlers' = handlers \ {h} /\ UNCHANGED <<posts, submitted>>
  /\ UNCHANGED <<connVars, store, tried, confirmed, written, got, acked>>

(* A worker submits a post to the connections that subscribed.             *)
TakePost ==
  /\ posts # <<>>
  /\ LET m == Head(posts)
         to == IF m \in Followed THEN subscribed ELSE {}
     IN /\ \A c \in to : MayQueue(c)
        /\ jobs' = [c \in Clients |->
                     IF c \in to THEN Queued(jobs[c], <<"publish", m>>) ELSE jobs[c]]
  /\ posts' = Tail(posts)
  /\ UNCHANGED <<connVars, store, handlers, tried, submitted, confirmed, written, got, acked>>

(* outboundLoop persists a job and encodes it.  It does not arrive when    *)
(* the connection is broken, which the broker need not know yet.           *)
Send(c) ==
  /\ jobs[c] # <<>>
  /\ LET job == Head(jobs[c])
         arrives == conn[c] # "broken"
     IN /\ store' = [store EXCEPT ![c] = PersistOutbound(@, job)]
        /\ \/ /\ job[1] = "publish"
              /\ written' = [written EXCEPT ![c] = @ \cup {job[2]}]
              /\ got' = IF arrives THEN [got EXCEPT ![c] = @ \cup {job[2]}] ELSE got
              /\ UNCHANGED confirmed
           \/ /\ job[1] = "puback"
              /\ confirmed' = IF arrives THEN confirmed \cup {job[2]} ELSE confirmed
              /\ UNCHANGED <<written, got>>
  /\ jobs' = [jobs EXCEPT ![c] = Tail(@)]
  /\ UNCHANGED <<connVars, handlers, posts, tried, submitted, acked>>

(* doPublishAck validates the message and does nothing else.               *)
PublishAck(c) ==
  /\ Ready(c)
  /\ \E m \in got[c] \ acked[c] : acked' = [acked EXCEPT ![c] = @ \cup {m}]
  /\ UNCHANGED <<connVars, store, handlers, posts, jobs, tried, submitted, confirmed,
                 written, got>>

(* A connection breaks.  This happens a bounded number of times: the last  *)
(* connection of a client stays.                                           *)
Break(c) ==
  /\ conn[c] \in {"connecting", "up"}
  /\ session[c] < MaxSessions
  /\ conn' = [conn EXCEPT ![c] = "broken"]
  /\ UNCHANGED <<session, keys, subscribed, store, handlers, posts, jobs, history>>

(* Mutant: the subscriptions of a connection outlive it.                   *)
StaysSubscribed(c) ==
  /\ conn[c] = "broken"
  /\ conn' = [conn EXCEPT ![c] = "down"]
  /\ keys' = [keys EXCEPT ![c] = {}]
  /\ jobs' = [jobs EXCEPT ![c] = <<>>]
  /\ UNCHANGED <<session, subscribed, store, handlers, posts, history>>

(* The broker notices, at a write error or at the end of input, and gives  *)
(* up the connection with the jobs that are left and its subscriptions.    *)
HangUp(c) ==
  /\ conn[c] = "broken"
  /\ conn' = [conn EXCEPT ![c] = "down"]
  /\ keys' = [keys EXCEPT ![c] = {}]
  /\ subscribed' = subscribed \ {c}
  /\ jobs' = [jobs EXCEPT ![c] = <<>>]
  /\ UNCHANGED <<session, store, handlers, posts, history>>

Next ==
  \/ \E c \in Clients :
        \/ Connect(c) \/ Resubmit(c) \/ Connected(c) \/ Subscribe(c)
        \/ Send(c) \/ PublishAck(c) \/ Break(c) \/ HangUp(c)
        \/ \E m \in Msgs : Publish(c, m)
  \/ \E h \in handlers : PublishStep(h)
  \/ TakePost

(* The goroutines of the broker go on.  Clients that lost a connection     *)
(* come back; they need not do anything else.                              *)
Fairness ==
  /\ \A c \in Clients : WF_vars(Connect(c)) /\ WF_vars(Resubmit(c)) /\ WF_vars(Connected(c))
                        /\ WF_vars(Send(c)) /\ WF_vars(HangUp(c))
  /\ WF_vars(\E h \in handlers : PublishStep(h))
  /\ WF_vars(TakePost)

Spec == Init /\ [][Next]_vars /\ Fairness

----------------------------------------------------------------------------
(* Properties                                                              *)

Jobs == {"publish", "puback"} \X Msgs

(* Every variable keeps its type, and connections that are down hold no    *)
(* jobs and no subscriptions.                                              *)
TypeOK ==
  /\ conn \in [Clients -> {"down", "connecting", "up", "broken"}]
  /\ session \in [Clients -> 0 .. MaxSessions]
  /\ keys \in [Clients -> SUBSET Keys]
  /\ store \in [Clients -> [Keys -> Msgs \cup {NoMsg}]]
  /\ handlers \subseteq [from : Clients, at : 1 .. MaxSessions, msg : Msgs, next : {"submit", "ack"}]
  /\ posts \in Seq(Msgs)
  /\ jobs \in [Clients -> Seq(Jobs)]
  /\ \A c \in Clients : Len(jobs[c]) <= QueueLen
  /\ subscribed \subseteq {c \in Subscribers : conn[c] # "down"}
  /\ \A c \in Clients : conn[c] = "down" => jobs[c] = <<>>

(* A PubAck that reaches the publisher means that the broker has given the *)
(* message to its subscriptions, also when connections broke and messages  *)
(* were published again (doPublish).                                       *)
ConfirmedIsSubmitted == confirmed \subseteq submitted

Outbound(c, m) == store[c][Key("o.", MidOf[m])]

(* What the broker began to send to a client is displaced from its store   *)
(* only by what it began to send to that client under the same id, as long *)
(* as there is no clean session: neither the messages that the client      *)
(* publishes under this id nor their PubAcks touch it (store.go:18), on    *)
(* whatever connection they come.                                          *)
OutboundIsKept ==
  \A c \in Clients : \A m \in written[c] :
    \E x \in written[c] : MidOf[x] = MidOf[m] /\ Outbound(c, m) = x

(* A message in the outbound part of a store stays there until it has      *)
(* reached the client, and does reach it, however often connections break, *)
(* unless a clean session drops it or another message with its id takes    *)
(* its place.                                                              *)
StoredIsDelivered ==
  \A c \in Clients, m \in Msgs :
    Outbound(c, m) = m ~> (m \in got[c] \/ Outbound(c, m) # m)

----------------------------------------------------------------------------
(* What comments and documents say, and the code does not always do: the   *)
(* README beside this module names an instance that shows each (Known      *)
(* departures).                                                            *)

(* "store in obound until PubAck received" (store.go:68): afterwards it is *)
(* not there any more, ...                                                 *)
AckedIsForgotten ==
  \A c \in Clients : \A m \in acked[c] : Outbound(c, m) # m

(* ... and before it is, "we need a unique key for each message"           *)
(* (store.go:17), ...                                                      *)
UnackedIsStored ==
  \A c \in Clients : \A m \in written[c] \ acked[c] : Outbound(c, m) = m

(* ... so that it is delivered in the end unless a clean session drops it. *)
StoredIsNotLost ==
  \A c \in Clients, m \in Msgs :
    Outbound(c, m) = m ~> (m \in got[c] \/ Outbound(c, m) = NoMsg)

(* "QoS1 fully implemented" (README.md:73): a message of level 1 that was  *)
(* put into the jobs of a subscriber reaches it at least once.             *)
AtLeastOnce ==
  \A c \in Clients, m \in Msgs :
    (\E i \in 1 .. Len(jobs[c]) : jobs[c][i] = <<"publish", m>>) ~> m \in got[c]

=============================================================================
