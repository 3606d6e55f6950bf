------------------------------- MODULE Peers -------------------------------
(***************************************************************************)
(* Replication of PUBLISH between broker nodes: replicate and replay of    *)
(* peers.go, the endpoint of endpoint.go, and the part of doPublish        *)
(* (proto.go) and of the subscription worker (subs.go) that share the      *)
(* message with them.  One node has an endpoint for every peer; what a     *)
(* peer's replay hands to its own subscriptions is in received.            *)
(*                                                                         *)
(* The program as it stands adds no endpoint: join and endpoint.stop have  *)
(* no caller, and the lines of peers.start that add one are disabled.  The *)
(* model starts when the endpoints of those lines have been added and      *)
(* started; others join, which does not start them, at any time.           *)
(***************************************************************************)
EXTENDS Naturals, Sequences, Functions

CONSTANTS
  Peers,        \* the hosts
  NoPeer,
  Clients,      \* the connections of publishing clients
  MaxMsgs,      \* bound on the messages of a client
  QueueLen,     \* cf.QueueLen: the capacity of endpoint.jobs
  PostsLen,     \* the capacity of subscriptions.posts
  Overflow,     \* cf.BuffOverflowStrategy, "block" or "discard"
  Started,      \* the hosts whose endpoints peers.start has started
  LinkMayFail   \* whether Dial, writing to the peer and the link may fail

ASSUME PeersAssumption ==
  /\ NoPeer \notin Peers
  /\ {MaxMsgs, QueueLen, PostsLen} \subseteq Nat \ {0}
  /\ Overflow \in {"block", "discard"}
  /\ Started \subseteq Peers
  /\ LinkMayFail \in BOOLEAN

(* A client's i-th message, published with the Retain flag on.             *)
Msgs == Clients \X (1 .. MaxMsgs)

NoMsg == <<>>

VARIABLES
  sent,      \* client -> number of messages it has published
  rest,      \* client -> peers that replicate has not served yet
  sending,   \* client -> the peer whose alive was read as true
  nodes,     \* peers.nodes
  posts,     \* subscriptions.posts: messages for the local worker
  retain,    \* messages whose Header.Retain is (still) on
  running,   \* endpoint.running
  ep,        \* endpoint: where runSession is
  alive,     \* endpoint.alive
  jobs,      \* endpoint.jobs
  closed,    \* whether endpoint.jobs is closed
  cur,       \* endpoint: the job being encoded
  links,     \* connections to the peer, in the order of Dial: what is on the way
  broken,    \* connections to the peer that are lost
  received,  \* what the peer has submitted: message, Retain flag, connection
  panic

handlerVars == <<sent, rest, sending>>
epVars == <<running, ep, alive, jobs, closed, cur>>
netVars == <<links, broken, received>>
vars == <<sent, rest, sending, nodes, posts, retain, running, ep, alive, jobs, closed,
          cur, links, broken, received, panic>>

Init ==
  /\ sent = [c \in Clients |-> 0]
  /\ rest = [c \in Clients |-> {}]
  /\ sending = [c \in Clients |-> NoPeer]
  /\ nodes = Started
  /\ posts = <<>>
  /\ retain = {}
  /\ running = [p \in Peers |-> TRUE]
  /\ ep = [p \in Peers |-> IF p \in Started THEN "dial" ELSE "new"]
  /\ alive = [p \in Peers |-> TRUE]
  /\ jobs = [p \in Peers |-> <<>>]
  /\ closed = [p \in Peers |-> FALSE]
  /\ cur = [p \in Peers |-> NoMsg]
  /\ links = [p \in Peers |-> <<>>]
  /\ broken = [p \in Peers |-> {}]
  /\ received = [p \in Peers |-> <<>>]
  /\ panic = FALSE

Current(c) == <<c, sent[c]>>

(* doPublish up to subs.submit, which waits for room; replicate is next.   *)
Publish(c) ==
  /\ rest[c] = {} /\ sending[c] = NoPeer
  /\ sent[c] < MaxMsgs
  /\ Len(posts) < PostsLen
  /\ sent' = [sent EXCEPT ![c] = @ + 1]
  /\ posts' = Append(posts, Current(c)')
  /\ retain' = retain \cup {Current(c)'}
  /\ rest' = [rest EXCEPT ![c] = nodes]
  /\ UNCHANGED <<sending, nodes, epVars, netVars, panic>>

(* The loop of replicate, over a map and so in any order: submit reads     *)
(* alive ...                                                               *)
Replicate(c) ==
  /\ sending[c] = NoPeer
  /\ \E p \in rest[c] :
        /\ rest' = [rest EXCEPT ![c] = @ \ {p}]
        /\ sending' = IF alive[p] THEN [sending EXCEPT ![c] = p] ELSE sending
  /\ UNCHANGED <<sent, nodes, posts, retain, epVars, netVars, panic>>

(* Mutant: one message more than the channel holds.                        *)
FullTooLate(p) == Len(jobs[p]) > QueueLen

Full(p) == Len(jobs[p]) >= QueueLen

Discards(p) == Overflow = "discard" /\ Full(p)

(* ... and sends.  A send on a closed channel panics; on a full one it     *)
(* waits or, with the discard strategy, drops the message.                 *)
Submit(c) ==
  LET p == sending[c]
  IN /\ p # NoPeer
     /\ \/ closed[p] /\ panic' = TRUE /\ UNCHANGED jobs
        \/ /\ ~closed[p] /\ ~Full(p)
           /\ jobs' = [jobs EXCEPT ![p] = Append(@, Current(c))]
           /\ UNCHANGED panic
        \/ ~closed[p] /\ Discards(p) /\ UNCHANGED <<jobs, panic>>
     /\ sending' = [sending EXCEPT ![c] = NoPeer]
     /\ UNCHANGED <<sent, rest, nodes, posts, retain, running, ep, alive, closed, cur, netVars>>

Ranging == {c \in Clients : rest[c] # {} \/ sending[c] # NoPeer}

(* Mutant: another endpoint in place of the one that the host has.         *)
JoinAgain(p) ==
  /\ nodes' = nodes \cup {p}
  /\ alive' = [alive EXCEPT ![p] = TRUE]
  /\ jobs' = [jobs EXCEPT ![p] = <<>>]
  /\ UNCHANGED <<handlerVars, posts, retain, running, ep, closed, cur, netVars, panic>>

(* join adds an endpoint, once for a host, and holds a lock that replicate *)
(* does not take: a loop over the map may or may not come to the endpoint, *)
(* or the runtime ends the process.                                        *)
Join(p) ==
  /\ p \notin nodes
  /\ nodes' = nodes \cup {p}
  /\ \/ /\ \E C \in SUBSET Ranging :
             rest' = [c \in Clients |-> IF c \in C THEN rest[c] \cup {p} ELSE rest[c]]
        /\ UNCHANGED panic
     \/ Ranging # {} /\ panic' = TRUE /\ UNCHANGED rest
  /\ UNCHANGED <<sent, sending, posts, retain, epVars, netVars>>

(* The local worker takes a post and turns off the Retain flag of the      *)
(* message, which the endpoints share.                                     *)
TakePost ==
  /\ posts # <<>>
  /\ posts' = Tail(posts)
  /\ retain' = retain \ {Head(posts)}
  /\ UNCHANGED <<handlerVars, nodes, epVars, netVars, panic>>

(* endpoint.stop: there will be no further session.                        *)
Stop(p) ==
  /\ p \in nodes /\ running[p]
  /\ running' = [running EXCEPT ![p] = FALSE]
  /\ UNCHANGED <<handlerVars, nodes, posts, retain, ep, alive, jobs, closed, cur, netVars, panic>>

Goto(p, to) == ep' = [ep EXCEPT ![p] = to]

(* The peer accepts a connection and starts a replay for it.               *)
PeerAccepts(p) == links' = [links EXCEPT ![p] = Append(@, <<>>)]

Dial(p) ==
  /\ ep[p] = "dial"
  /\ \/ /\ alive' = [alive EXCEPT ![p] = TRUE]
        /\ PeerAccepts(p)
        /\ Goto(p, "run")
     \/ LinkMayFail /\ UNCHANGED <<alive, links>> /\ Goto(p, "leave")
  /\ UNCHANGED <<handlerVars, nodes, posts, retain, running, jobs, closed, cur, broken,
                 received, panic>>

(* The range over jobs: the loop ends once they are closed and used up.    *)
TakeJob(p) ==
  /\ ep[p] = "run"
  /\ \/ /\ jobs[p] # <<>>
        /\ cur' = [cur EXCEPT ![p] = Head(jobs[p])]
        /\ jobs' = [jobs EXCEPT ![p] = Tail(@)]
        /\ Goto(p, "encode")
     \/ jobs[p] = <<>> /\ closed[p] /\ Goto(p, "leave") /\ UNCHANGED <<cur, jobs>>
  /\ UNCHANGED <<handlerVars, nodes, posts, retain, running, alive, closed, netVars, panic>>

(* Encode writes the message with the flag it has now.                     *)
Write(p) ==
  links' = [links EXCEPT ![p][Len(links[p])] = Append(@, <<cur[p], cur[p] \in retain>>)]

(* Mutant: a message that could not be sent is queued for the next session.*)
EncodeAgain(p) ==
  /\ ep[p] = "encode"
  /\ \/ /\ Len(links[p]) \notin broken[p]
        /\ Write(p)
        /\ Goto(p, "run") \/ (LinkMayFail /\ Goto(p, "leave"))
     \/ LinkMayFail /\ UNCHANGED links /\ Goto(p, "leave")
     \/ Len(links[p]) \in broken[p] /\ UNCHANGED links /\ Goto(p, "run")
  /\ jobs' = IF ep'[p] = "run" \/ Full(p) THEN jobs
             ELSE [jobs EXCEPT ![p] = Append(@, cur[p])]
  /\ cur' = [cur EXCEPT ![p] = NoMsg]
  /\ UNCHANGED <<handlerVars, nodes, posts, retain, running, alive, closed, broken,
                 received, panic>>

(* An error may come after the whole message was written, and none while   *)
(* the system still takes what a lost connection will not carry.           *)
Encode(p) ==
  /\ ep[p] = "encode"
  /\ \/ /\ Len(links[p]) \notin broken[p]
        /\ Write(p)
        /\ Goto(p, "run") \/ (LinkMayFail /\ Goto(p, "leave"))
     \/ LinkMayFail /\ UNCHANGED links /\ Goto(p, "leave")
     \/ Len(links[p]) \in broken[p] /\ UNCHANGED links /\ Goto(p, "run")
  /\ cur' = [cur EXCEPT ![p] = NoMsg]
  /\ UNCHANGED <<handlerVars, nodes, posts, retain, running, alive, jobs, closed, broken,
                 received, panic>>

(* The deferred function of runSession: alive goes first ...               *)
Leave(p) ==
  /\ ep[p] = "leave"
  /\ alive' = [alive EXCEPT ![p] = FALSE]
  /\ Goto(p, "close")
  /\ UNCHANGED <<handlerVars, nodes, posts, retain, running, jobs, closed, cur, netVars, panic>>

(* ... then jobs is closed, which panics when it is closed already; start  *)
(* begins another session at once, unless it was stopped.                  *)
Close(p) ==
  /\ ep[p] = "close"
  /\ closed' = [closed EXCEPT ![p] = TRUE]
  /\ panic' = closed[p]
  /\ Goto(p, IF running[p] THEN "dial" ELSE "done")
  /\ UNCHANGED <<handlerVars, nodes, posts, retain, running, alive, jobs, cur, netVars>>

(* The peer has one replay goroutine for every connection.  It decodes a   *)
(* message and submits it to its own subscriptions; what was written       *)
(* before a connection was closed still arrives.                           *)
Replay(p) ==
  \E k \in 1 .. Len(links[p]) :
     /\ links[p][k] # <<>>
     /\ LET h == Head(links[p][k])
        IN received' = [received EXCEPT ![p] = Append(@, <<h[1], h[2], k>>)]
     /\ links' = [links EXCEPT ![p][k] = Tail(@)]
     /\ UNCHANGED <<handlerVars, nodes, posts, retain, epVars, broken, panic>>

(* A connection is lost with what is on the way; its replay ends.          *)
Break(p) ==
  /\ LinkMayFail
  /\ \E k \in (1 .. Len(links[p])) \ broken[p] :
       /\ links' = [links EXCEPT ![p][k] = <<>>]
       /\ broken' = [broken EXCEPT ![p] = @ \cup {k}]
  /\ UNCHANGED <<handlerVars, nodes, posts, retain, epVars, received, panic>>

Endpoint(p) == Dial(p) \/ TakeJob(p) \/ Encode(p) \/ Leave(p) \/ Close(p)

(* A panic ends the process; what is on the wire still arrives.            *)
Next ==
  \/ /\ ~panic
     /\ \/ \E c \in Clients : Publish(c) \/ Replicate(c) \/ Submit(c)
        \/ TakePost
        \/ \E p \in Peers : Join(p) \/ Stop(p) \/ Endpoint(p)
  \/ \E p \in Peers : Replay(p) \/ Break(p)

(* Goroutines that can go on do, and a goroutine that waits for room in a  *)
(* channel is served in turn.  Nobody has to publish.                      *)
Fairness ==
  /\ \A c \in Clients : WF_vars(~panic /\ Replicate(c)) /\ SF_vars(~panic /\ Submit(c))
  /\ WF_vars(~panic /\ TakePost)
  /\ \A p \in Peers : WF_vars(~panic /\ Endpoint(p)) /\ WF_vars(Replay(p))

Spec == Init /\ [][Next]_vars /\ Fairness

----------------------------------------------------------------------------
(* Properties                                                              *)

(* Every variable keeps its type, no queue exceeds its capacity, and an    *)
(* endpoint has a job in hand exactly while it encodes one.                *)
TypeOK ==
  /\ sent \in [Clients -> 0 .. MaxMsgs]
  /\ rest \in [Clients -> SUBSET Peers]
  /\ sending \in [Clients -> Peers \cup {NoPeer}]
  /\ nodes \subseteq Peers
  /\ posts \in Seq(Msgs) /\ Len(posts) <= PostsLen
  /\ retain \subseteq Msgs
  /\ running \in [Peers -> BOOLEAN]
  /\ ep \in [Peers -> {"new", "dial", "run", "encode", "leave", "close", "done"}]
  /\ alive \in [Peers -> BOOLEAN]
  /\ jobs \in [Peers -> Seq(Msgs)]
  /\ \A p \in Peers : Len(jobs[p]) <= QueueLen
  /\ closed \in [Peers -> BOOLEAN]
  /\ cur \in [Peers -> Msgs \cup {NoMsg}]
  /\ \A p \in Peers : ep[p] = "encode" <=> cur[p] # NoMsg
  /\ links \in [Peers -> Seq(Seq(Msgs \X BOOLEAN))]
  /\ broken \in [Peers -> SUBSET (Nat \ {0})]
  /\ received \in [Peers -> Seq(Msgs \X BOOLEAN \X Nat)]
  /\ panic \in BOOLEAN

(* Replication repeats no message, and a connection does not reorder the   *)
(* messages of a client: a peer gets them as published, with gaps where a  *)
(* message was discarded or a link failed, whatever the interleaving of    *)
(* handlers, endpoint and failing links.  After a second Dial the peer     *)
(* reads two connections, and the order between them is not kept.          *)
ReplicaInOrder ==
  \A p \in Peers : \A i, j \in 1 .. Len(received[p]) :
     LET a == received[p][i]
         b == received[p][j]
     IN i < j => /\ a[1] # b[1]
                 /\ a[3] = b[3] /\ a[1][1] = b[1][1] => a[1][2] < b[1][2]

Arrived(m, p) == \E i \in 1 .. Len(received[p]) : received[p][i][1] = m

(* A message that got into the queue of an endpoint that was started       *)
(* reaches the peer, with publishers, worker and endpoint running side by  *)
(* side and other peers joining, also when the endpoint is stopped in the  *)
(* middle of a session, unless the connection is lost or its session has   *)
(* failed.                                                                 *)
QueuedArrives ==
  \A m \in Msgs, p \in Started :
    m \in Range(jobs[p]) ~> (Arrived(m, p) \/ closed[p] \/ broken[p] # {} \/ panic)

----------------------------------------------------------------------------
(* What comments and documents say, and the code does not always do: the   *)
(* README beside this module names an instance that shows each (Known      *)
(* departures).                                                            *)

(* "PUBLISH is replicated across all broker nodes(peers) in the cluster"   *)
(* (README.md:84).                                                         *)
AllReplicated ==
  \A m \in Msgs, p \in Peers :
    (m = Current(m[1]) /\ p \in rest[m[1]]) ~> Arrived(m, p)

(* "no SPOF" (README.md:82): losing the link to a peer does not end this   *)
(* node.                                                                   *)
SurvivesPeerFailure == ~panic

(* A message is not sent out "with the wrong retain flag" (types.go:11):   *)
(* the peers see the flag that the client had set.                         *)
RetainReplicated ==
  \A p \in Peers : \A i \in 1 .. Len(received[p]) : received[p][i][2]

=============================================================================
