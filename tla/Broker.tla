------------------------------- MODULE Broker -------------------------------
(***************************************************************************)
(* One broker: the sessions of module Session together with the            *)
(* subscription workers that fan published messages out to them            *)
(* (broker/subs.go) and the request handlers of proto.go that connect the  *)
(* two.  There is one topic, and no peer brokers.  What is in a message,   *)
(* several topics, wildcards and the sharing of Go slices are the subject  *)
(* of module Subscriptions; here the question is who waits for whom.       *)
(***************************************************************************)
EXTENDS Session, Functions

CONSTANTS
  Workers,           \* cf.Broker.SubscriptionsWorkers goroutines
  PostsLen,          \* cf.Broker.SubscriptionsQueueLen
  MaxSubscriptions,  \* cf.Broker.ClientMaxSubscriptions
  PostKinds,         \* the kinds of messages that clients publish
  MaxTopics,         \* bound on the topics of one SUBSCRIBE or UNSUBSCRIBE
  MaxSlots,          \* bound on the length of a subscriber list
  MaxUnsub           \* bound on how far subN may fall below zero

ASSUME BrokerAssumption ==
  /\ PostsLen \in Nat \ {0}
  /\ MaxSubscriptions \in Nat
  /\ PostKinds \subseteq {"plain", "retain", "clear"}
  /\ MaxTopics \in Nat
  /\ MaxSlots \in Nat
  /\ MaxUnsub \in Nat

VARIABLES
  subN,      \* incomingConn.subN
  subs,      \* subscriptions.subs[topic]: connections, nil where removed
  retained,  \* whether subscriptions.retain has an entry for the topic
  mu,        \* who holds subscriptions.mu over a step: a connection or nobody
  posts,     \* subscriptions.posts
  wk,        \* where each worker is in run()
  post,      \* the kind of message that a worker is handling
  todo,      \* the rest of the slice that subscribers() returned to a worker
  cur        \* the connection whose submit() a worker is in

subsVars == <<subN, subs, retained, mu, posts, wk, post, todo, cur>>

vars == <<sessionVars, subsVars>>

Init ==
  /\ SessionInit
  /\ subN = [c \in Conns |-> 0]
  /\ subs = <<>>
  /\ retained = FALSE
  /\ mu = NoConn
  /\ posts = <<>>
  /\ wk = [w \in Workers |-> "idle"]
  /\ post = [w \in Workers |-> "plain"]
  /\ todo = [w \in Workers |-> <<>>]
  /\ cur = [w \in Workers |-> NoConn]

Unlocked == mu = NoConn

Without(s, c) == [i \in DOMAIN s |-> IF s[i] = c THEN NoConn ELSE s[i]]

(* Set the slots of a connection to nil.  A worker that ranges over the    *)
(* same backing array sees the nils; after an append that moved the list   *)
(* to a larger array it does not.                                          *)
ClearSlots(c) ==
  \E sharing \in SUBSET Workers :
    todo' = [w \in Workers |-> IF w \in sharing THEN Without(todo[w], c) ELSE todo[w]]

----------------------------------------------------------------------------
(* The request handlers that run in inboundLoop.                           *)

(* stop() closes stopChan; the second call for a connection panics.        *)
Stop(c) ==
  IF stopped[c]
  THEN Crash("close of closed channel") /\ UNCHANGED stopped
  ELSE stopped' = [stopped EXCEPT ![c] = TRUE] /\ UNCHANGED panic

(* Mutant: the handler does without the flag.                              *)
SkipFlag(c) == UNCHANGED panic

(* flag.Username is read for authorized(), which says yes.                 *)
ReadFlag(c) == IF flag[c] = NoId THEN Crash("nil pointer dereference")
               ELSE UNCHANGED panic

(* doPublish up to the blocking send: the rate limit stops the connection  *)
(* without leaving the handler, then flag is read.                         *)
Publish(c) ==
  /\ ReceivesRequest(c, "Publish")
  /\ \E limited \in BOOLEAN :
       IF limited /\ stopped[c] THEN Stop(c)
       ELSE /\ stopped' = [stopped EXCEPT ![c] = @ \/ limited]
            /\ ReadFlag(c)
  /\ \E kind \in PostKinds, ack \in {<<>>, <<"send">>} :
       Handle(c, <<kind>> \o ack)
  /\ UNCHANGED <<target, flag, rc, out, hb, jobs, released, clients,
                 statsClients, present, subsVars>>

(* subscriptions.submit: wait for room in the queue of posts.              *)
SubmitPost(c) ==
  \E kind \in PostKinds :
    /\ Doing(c, kind)
    /\ Len(posts) < PostsLen
    /\ posts' = Append(posts, kind)
    /\ Advance(c)
    /\ UNCHANGED <<target, flag, rc, out, hb, jobs, released, stopped, clients,
                   statsClients, present, panic, subN, subs, retained, mu, wk,
                   post, todo, cur>>

(* doSubscribe: per topic count and add, then SUBACK, then per topic the   *)
(* retained message.                                                       *)
Subscribe(c) ==
  /\ ReceivesRequest(c, "Subscribe")
  /\ \E n \in 1..MaxTopics :
       /\ Len(subs) + n <= MaxSlots
       /\ Handle(c, [i \in 1..(2*n) |-> IF i % 2 = 1 THEN "count" ELSE "add"]
                      \o <<"send">> \o [i \in 1..n |-> "retained"])
  /\ ReadFlag(c)
  /\ UNCHANGED <<target, flag, rc, out, hb, jobs, released, stopped, clients,
                 statsClients, present, subsVars>>

(* Over the limit the connection is stopped, but the loop goes on.         *)
CountTopic(c) ==
  /\ Doing(c, "count")
  /\ subN' = [subN EXCEPT ![c] = @ + 1]
  /\ IF subN[c] + 1 > MaxSubscriptions THEN Stop(c) ELSE UNCHANGED <<stopped, panic>>
  /\ Advance(c)
  /\ UNCHANGED <<target, flag, rc, out, hb, jobs, released, clients,
                 statsClients, present, subs, retained, mu, posts, wk, post, todo,
                 cur>>

AddTopic(c) ==
  /\ Doing(c, "add")
  /\ Unlocked
  /\ Len(subs) < MaxSlots
  /\ subs' = Append(subs, c)
  /\ Advance(c)
  /\ UNCHANGED <<target, flag, rc, out, hb, jobs, released, stopped, clients,
                 statsClients, present, panic, subN, retained, mu, posts, wk,
                 post, todo, cur>>

(* sendRetain submits while it holds the lock: without room in the job     *)
(* channel, and with the overflow strategy "block", it keeps the lock.     *)
SendRetain(c) ==
  /\ Doing(c, "retained")
  /\ Unlocked
  /\ IF retained /\ Full(c) /\ ~Discards
     THEN /\ mu' = c
          /\ UNCHANGED <<in, work, jobs>>
     ELSE /\ IF retained /\ ~Full(c) THEN Enqueue(c, Packet) ELSE UNCHANGED jobs
          /\ Advance(c)
          /\ UNCHANGED mu
  /\ UNCHANGED <<target, flag, rc, out, hb, released, stopped, clients,
                 statsClients, present, panic, subN, subs, retained, posts, wk,
                 post, todo, cur>>

(* Mutant: the message takes the way of a new one, through the workers.    *)
SendRetainPosts(c) ==
  /\ Doing(c, "retained")
  /\ mu = c
  /\ Len(posts) < PostsLen
  /\ posts' = Append(posts, "plain")
  /\ mu' = NoConn
  /\ Advance(c)
  /\ UNCHANGED <<target, flag, rc, out, hb, jobs, released, stopped, clients,
                 statsClients, present, panic, subN, subs, retained, wk,
                 post, todo, cur>>

SendRetainUnblocked(c) ==
  /\ Doing(c, "retained")
  /\ mu = c
  /\ ~Full(c)
  /\ Enqueue(c, Packet)
  /\ mu' = NoConn
  /\ Advance(c)
  /\ UNCHANGED <<target, flag, rc, out, hb, released, stopped, clients,
                 statsClients, present, panic, subN, subs, retained, posts, wk,
                 post, todo, cur>>

Unsubscribe(c) ==
  /\ ReceivesRequest(c, "Unsubscribe")
  /\ \E n \in 1..MaxTopics :
       /\ subN[c] - n >= -MaxUnsub
       /\ Handle(c, [i \in 1..n |-> "unsub"] \o <<"send">>)
  /\ UNCHANGED <<target, flag, rc, out, hb, jobs, released, stopped, clients,
                 statsClients, present, panic, subsVars>>

(* unsub(): clear the slots of the connection, drop a list of nils.        *)
Unsub(c) ==
  /\ Doing(c, "unsub")
  /\ Unlocked
  /\ subN' = [subN EXCEPT ![c] = @ - 1]
  /\ subs' = IF Range(Without(subs, c)) \subseteq {NoConn} THEN <<>>
             ELSE Without(subs, c)
  /\ ClearSlots(c)
  /\ Advance(c)
  /\ UNCHANGED <<target, flag, rc, out, hb, jobs, released, stopped, clients,
                 statsClients, present, panic, retained, mu, posts, wk, post,
                 cur>>

(* The last step of outboundLoop.                                          *)
UnsubAll(c) ==
  /\ OutUnsubAll(c)
  /\ Unlocked
  /\ subs' = Without(subs, c)
  /\ ClearSlots(c)
  /\ UNCHANGED <<subN, retained, mu, posts, wk, post, cur>>

----------------------------------------------------------------------------
(* subscriptions.run                                                       *)

TakePost(w) ==
  /\ Running
  /\ wk[w] = "idle"
  /\ posts # <<>>
  /\ post' = [post EXCEPT ![w] = Head(posts)]
  /\ posts' = Tail(posts)
  /\ wk' = [wk EXCEPT ![w] = "got"]
  /\ UNCHANGED <<sessionVars, subN, subs, retained, mu, todo, cur>>

(* Mutant: the entry is deleted without the lock.                          *)
ClearUnlocked(w) ==
  /\ Running
  /\ wk[w] = "got"
  /\ post[w] = "clear"
  /\ retained' = FALSE
  /\ wk' = [wk EXCEPT ![w] = "dead"]
  /\ UNCHANGED <<sessionVars, subN, subs, mu, posts, post, todo, cur>>

(* An empty retained message deletes the entry, and the worker returns.    *)
ClearRetained(w) ==
  /\ Running
  /\ wk[w] = "got"
  /\ post[w] = "clear"
  /\ Unlocked
  /\ retained' = FALSE
  /\ wk' = [wk EXCEPT ![w] = "dead"]
  /\ UNCHANGED <<sessionVars, subN, subs, mu, posts, post, todo, cur>>

Subscribers(w) ==
  /\ Running
  /\ wk[w] = "got"
  /\ post[w] # "clear"
  /\ Unlocked
  /\ todo' = [todo EXCEPT ![w] = subs]
  /\ wk' = [wk EXCEPT ![w] = "fan"]
  /\ UNCHANGED <<sessionVars, subN, subs, retained, mu, posts, post, cur>>

(* The next slot is nil, or submit() finds that its connection is dead.    *)
SkipSubscriber(w) ==
  /\ Running
  /\ wk[w] = "fan"
  /\ todo[w] # <<>>
  /\ Head(todo[w]) # NoConn => ~Alive(Head(todo[w]))
  /\ todo' = [todo EXCEPT ![w] = Tail(@)]
  /\ UNCHANGED <<sessionVars, subN, subs, retained, mu, posts, wk, post, cur>>

(* submit() reads alive as true ...                                        *)
FindAlive(w) ==
  /\ Running
  /\ wk[w] = "fan"
  /\ todo[w] # <<>>
  /\ Head(todo[w]) # NoConn
  /\ Alive(Head(todo[w]))
  /\ cur' = [cur EXCEPT ![w] = Head(todo[w])]
  /\ todo' = [todo EXCEPT ![w] = Tail(@)]
  /\ wk' = [wk EXCEPT ![w] = "send"]
  /\ UNCHANGED <<sessionVars, subN, subs, retained, mu, posts, post>>

(* ... and then sends to the channel, which may be closed by now.          *)
Deliver(w) ==
  /\ Running
  /\ wk[w] = "send"
  /\ \/ JobsClosed(cur[w]) /\ Crash("send on closed channel") /\ UNCHANGED jobs
     \/ /\ ~JobsClosed(cur[w])
        /\ ~Full(cur[w])
        /\ Enqueue(cur[w], Packet)
        /\ UNCHANGED panic
     \/ /\ ~JobsClosed(cur[w])
        /\ Full(cur[w])
        /\ Discards
        /\ UNCHANGED <<jobs, panic>>
  /\ wk' = [wk EXCEPT ![w] = "fan"]
  /\ cur' = [cur EXCEPT ![w] = NoConn]
  /\ UNCHANGED <<in, work, target, flag, rc, out, hb, released, stopped, clients,
                 statsClients, present, subN, subs, retained, mu, posts, post,
                 todo>>

(* After the last subscriber, keep the message if it is a retained one.    *)
FinishPost(w) ==
  /\ Running
  /\ wk[w] = "fan"
  /\ todo[w] = <<>>
  /\ \/ post[w] = "plain" /\ UNCHANGED retained
     \/ post[w] = "retain" /\ Unlocked /\ retained' = TRUE
  /\ wk' = [wk EXCEPT ![w] = "idle"]
  /\ UNCHANGED <<sessionVars, subN, subs, mu, posts, post, todo, cur>>

Worker(w) ==
  \/ TakePost(w) \/ ClearRetained(w) \/ Subscribers(w) \/ SkipSubscriber(w)
  \/ FindAlive(w) \/ Deliver(w) \/ FinishPost(w)

----------------------------------------------------------------------------
ClientRequest(c) == Publish(c) \/ Subscribe(c) \/ Unsubscribe(c)

Handler(c) ==
  \/ SubmitPost(c) \/ CountTopic(c) \/ AddTopic(c) \/ SendRetain(c)
  \/ SendRetainUnblocked(c) \/ Unsub(c)

Next ==
  \/ \E c \in Conns : \/ SessionStep(c) /\ UNCHANGED subsVars
                      \/ ClientRequest(c) \/ Handler(c) \/ UnsubAll(c)
  \/ \E w \in Workers : Worker(w)

(* Goroutines that can run are run.  Those that wait for a channel or for  *)
(* the lock are queued by the Go runtime and are woken in turn, so nobody  *)
(* is overtaken for ever.  A select chooses among its ready cases at       *)
(* random, so a closed stopChan is noticed even while jobs keep coming.    *)
(* Clients and timers need not act.                                        *)
Fairness ==
  /\ \A c \in Conns : /\ SF_vars((Inbound(c) /\ UNCHANGED subsVars) \/ Handler(c))
                      /\ SF_vars((Outbound(c) /\ UNCHANGED subsVars) \/ UnsubAll(c))
                      /\ WF_vars(OutLeave(c) /\ UNCHANGED subsVars)
                      /\ WF_vars(Heartbeat(c) /\ UNCHANGED subsVars)
  /\ \A w \in Workers : SF_vars(Worker(w))

Spec == Init /\ [][Next]_vars /\ Fairness

----------------------------------------------------------------------------
(* Properties                                                              *)

(* Every variable keeps its type, and neither queue exceeds its capacity.  *)
TypeOK ==
  /\ SessionTypeOK
  /\ subN \in [Conns -> Int]
  /\ subs \in Seq(Conns \cup {NoConn})
  /\ retained \in BOOLEAN
  /\ mu \in Conns \cup {NoConn}
  /\ posts \in Seq({"plain", "retain", "clear"}) /\ Len(posts) <= PostsLen
  /\ wk \in [Workers -> {"idle", "got", "fan", "send", "dead"}]
  /\ post \in [Workers -> {"plain", "retain", "clear"}]
  /\ todo \in [Workers -> Seq(Conns \cup {NoConn})]
  /\ cur \in [Workers -> Conns \cup {NoConn}]

(* Workers only ever deal with connections that have completed a CONNECT,  *)
(* and so have the store that outboundLoop needs for a QoS 1 message:      *)
(* validateMessage checks nothing, it is doSubscribe's use of flag that    *)
(* keeps other connections out of the table.                               *)
OnlyConnectedReceive ==
  \A c \in Conns :
    \/ c \in Range(subs)
    \/ \E w \in Workers : c \in Range(todo[w]) \cup {cur[w]}
    => flag[c] # NoId /\ rc[c] # "none"

(* Nobody but a handler in sendRetain with a retained message to send      *)
(* keeps the lock of the subscriptions over a step, and the entry it is    *)
(* sending is not deleted meanwhile.                                       *)
LockHeldByHandler ==
  mu # NoConn => in[mu] = "work" /\ Head(work[mu]) = "retained" /\ retained

(* sendRetain waits for room in the job channel with the lock held, which  *)
(* every other handler, worker and teardown may be waiting for.  Nothing   *)
(* that empties the channel needs the lock: it is given back as long as    *)
(* outboundLoop of the connection is in its loop.                          *)
LockReleased ==
  \A c \in Conns : (mu = c) ~> (mu # c \/ out[c] # "loop" \/ ~Running)

(* A worker finishes with every message it has taken from the queue,       *)
(* however slowly, or however suddenly, the subscribers go away.           *)
WorkerFinishes ==
  \A w \in Workers : (wk[w] # "idle") ~> (wk[w] \in {"idle", "dead"} \/ ~Running)

(* A client that was stopped, for publishing too fast or for subscribing   *)
(* too often, is disconnected and its teardown reaches the end.            *)
StopDisconnects ==
  \A c \in Conns : stopped[c] ~> (TornDown(c) \/ ~Running)

----------------------------------------------------------------------------
(* What comments and documents say, and the code does not always do: the   *)
(* README beside this module names an instance that shows each (Known      *)
(* departures).                                                            *)

(* unsubAll is to "remove all subscriptions that refer to a connection"    *)
(* (subs.go:126): none is left when both loops of a connection have ended. *)
NoStaleSubscription == \A c \in Conns : TornDown(c) => c \notin Range(subs)

(* The limits of README.md:74 and of client_max_subscriptions disconnect   *)
(* one client: stop() never closes a closed channel.                       *)
StopOnce == panic # "close of closed channel"

(* A handler that waits to queue a message for the workers.                *)
Posting(c) == in[c] = "work" /\ Head(work[c]) \in PostKinds

(* "a client PUBLISH ... will be pushed to all the topic subscribers"      *)
(* (README.md:83): a handler that waits to queue a message gets its turn,  *)
(* also after workers have returned from run() for a deleted message.      *)
PublishIsTaken == \A c \in Conns : Posting(c) ~> (~Posting(c) \/ ~Running)

(* For the same reason no client keeps the lock, without which no worker   *)
(* finds the subscribers, for ever.                                        *)
LockIsReleased == \A c \in Conns : (mu = c) ~> (mu # c \/ ~Running)

=============================================================================
