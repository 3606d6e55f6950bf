------------------------------ MODULE Session ------------------------------
(***************************************************************************)
(* The life cycle of the client connections of one mhub broker             *)
(* (broker/session.go, server.go, the CONNECT handler of proto.go).        *)
(*                                                                         *)
(* Every accepted connection is served by up to three goroutines:          *)
(*   inboundLoop   reads packets and runs their handlers        (in, work) *)
(*   outboundLoop  writes the queued jobs to the socket         (out)      *)
(*   heartbeat     disconnects a client that has been idle      (hb)       *)
(* They share the job channel, the process-wide registry of sessions by    *)
(* client id and the presence service.  A handler step that waits for a    *)
(* channel, or that takes a lock, is an action of its own.                 *)
(***************************************************************************)
EXTENDS Integers, Sequences, FiniteSets

CONSTANTS
  Conns,            \* the connections the listener may accept, each once
  NoConn,           \* nil *incomingConn
  Ids,              \* client ids
  NoId,             \* flag = nil: no CONNECT seen yet
  IdsOf,            \* the ids that the client of a connection announces
  UserOf,           \* the user name sent along with a client id
  NoUser,           \* the empty user name
  QueueLen,         \* cf.Broker.ClientOutboundQueueLen
  MaxConnections,   \* cf.Broker.MaxConnections, 0 is unlimited
  Overflow,         \* cf.Broker.BuffOverflowStrategy
  EnablePresence,   \* cf.Broker.EnablePresence
  Orderly,          \* clients send one valid CONNECT, before all else
  RequestsOf,       \* the kinds of requests that the client of a connection sends
  KeepAlives,       \* whether a CONNECT may, or may not, ask for a keep-alive
  MaxStored,        \* bound on stored messages resubmitted by one CONNECT
  WriteMayFail,     \* whether writing to a socket may return an error
  RedisMayFail      \* whether redis may fail to do what Presence asks for

ASSUME SessionAssumption ==
  /\ IsFiniteSet(Conns)
  /\ NoConn \notin Conns
  /\ NoId \notin Ids
  /\ IdsOf \in [Conns -> SUBSET Ids]
  /\ DOMAIN UserOf = Ids
  /\ QueueLen \in Nat \ {0}
  /\ MaxConnections \in Nat
  /\ Overflow \in {"block", "discard"}
  /\ EnablePresence \in BOOLEAN
  /\ Orderly \in BOOLEAN
  /\ RequestsOf \in [Conns -> SUBSET {"Publish", "Subscribe", "Unsubscribe", "PingReq"}]
  /\ KeepAlives \subseteq BOOLEAN
  /\ MaxStored \in Nat
  /\ {WriteMayFail, RedisMayFail} \subseteq BOOLEAN

VARIABLES
  in,            \* where inboundLoop is, per connection
  work,          \* what is left to do of the handler it is running
  target,        \* the session with the same id that its CONNECT evicts
  flag,          \* client id of the last CONNECT, NoId before the first
  rc,            \* return code of the last CONNECT
  out,           \* where outboundLoop is
  hb,            \* where the heartbeat goroutine is
  jobs,          \* queued outbound jobs
  released,      \* goroutines whose receipt has been closed
  stopped,       \* whether stopChan is closed
  clients,       \* the registry: client id -> connection
  statsClients,  \* stats.clients
  present,       \* users checked in at the presence service
  panic          \* the run-time panic that ended the process, or "none"

sessionVars == <<in, work, target, flag, rc, out, hb, jobs, released, stopped,
                 clients, statsClients, present, panic>>

Waiters == Conns \X {"in", "hb"}   \* goroutines that may wait for a receipt

Job == [m : {"Packet", "Disconnect"}, r : SUBSET Waiters]

Packet == [m |-> "Packet", r |-> {}]

Kick(v) == [m |-> "Disconnect", r |-> {v}]

(* The steps that handlers consist of; all but the first two are those of  *)
(* the handlers in module Broker.                                          *)
Steps == {"send", "checkin", "plain", "retain", "clear", "count", "add",
          "retained", "unsub"}

InStates == {"none", "read", "add", "evict", "wait", "del", "add2", "setup",
             "work", "exit", "uncounted", "closing", "term", "done"}

(***************************************************************************)
(* The fields of incomingConn that a goroutine's position determines.      *)
(***************************************************************************)
Alive(c) == in[c] \notin {"none", "closing", "term", "done"}

JobsClosed(c) == in[c] \in {"term", "done"}

(* Mutant: outboundLoop does not close the connection when it leaves.      *)
SocketNeverClosed(c) == out[c] # "none"

SocketOpen(c) == out[c] \in {"loop", "exit"}

(* Mutant: one job more than the channel has room for.                     *)
FullTooLate(c) == Len(jobs[c]) > QueueLen

Full(c) == Len(jobs[c]) >= QueueLen

(* Mutant: a submit always waits for room.                                 *)
NeverDiscards == FALSE

(* A full job channel makes submit() drop the message.                     *)
Discards == Overflow = "discard"

Enqueue(c, j) == jobs' = [jobs EXCEPT ![c] = Append(@, j)]

Goto(c, pc) == in' = [in EXCEPT ![c] = pc]

Running == panic = "none"

Crash(why) == panic' = why

----------------------------------------------------------------------------
SessionInit ==
  /\ in = [c \in Conns |-> "none"]
  /\ work = [c \in Conns |-> <<>>]
  /\ target = [c \in Conns |-> NoConn]
  /\ flag = [c \in Conns |-> NoId]
  /\ rc = [c \in Conns |-> "none"]
  /\ out = [c \in Conns |-> "none"]
  /\ hb = [c \in Conns |-> "off"]
  /\ jobs = [c \in Conns |-> <<>>]
  /\ released = {}
  /\ stopped = [c \in Conns |-> FALSE]
  /\ clients = [id \in Ids |-> NoConn]
  /\ statsClients = 0
  /\ present = {}
  /\ panic = "none"

(* The accept loop of Server.Start: count the client, start both loops.    *)
Accept(c) ==
  /\ Running
  /\ in[c] = "none"
  /\ Goto(c, "read")
  /\ out' = [out EXCEPT ![c] = "loop"]
  /\ statsClients' = statsClients + 1
  /\ UNCHANGED <<work, target, flag, rc, hb, jobs, released, stopped, clients,
                 present, panic>>

----------------------------------------------------------------------------
(* inboundLoop                                                             *)

(* A packet of the client is decoded only while the server side is open.   *)
Receives(c) ==
  /\ Running
  /\ in[c] = "read"
  /\ SocketOpen(c)

ReceivesRequest(c, kind) ==
  /\ Receives(c)
  /\ kind \in RequestsOf[c]
  /\ Orderly => flag[c] # NoId

(* Start the handler of a request that consists of the given steps.        *)
Handle(c, steps) ==
  /\ Goto(c, IF steps = <<>> THEN "read" ELSE "work")
  /\ work' = [work EXCEPT ![c] = steps]

(* The goroutine is about to do this step of the handler it runs.          *)
Doing(c, step) ==
  /\ Running
  /\ in[c] = "work"
  /\ work[c] # <<>>
  /\ Head(work[c]) = step

(* Go on with the handler.  After its last step, read the next packet, or  *)
(* leave the loop if the handler was a refused CONNECT.                    *)
Advance(c) ==
  /\ work' = [work EXCEPT ![c] = Tail(@)]
  /\ Goto(c, IF Len(work[c]) > 1 THEN "work"
             ELSE IF rc[c] = "refused" THEN "exit" ELSE "read")

(* Mutant: an off-by-one in the connection limit.                          *)
OneTooMany == MaxConnections > 0 => statsClients <= MaxConnections + 1

(* The counter includes the connection that asks.                          *)
WithinLimit == MaxConnections > 0 => statsClients <= MaxConnections

(* doConnect up to the registry: validation, flag and connection limit.    *)
(* authenticate() accepts everybody, so "valid" stands for the protocol,   *)
(* client id and anonymous-user checks.                                    *)
Connect(c) ==
  /\ Receives(c)
  /\ Orderly => flag[c] = NoId
  /\ \E id \in IdsOf[c], valid \in {TRUE, Orderly} :
       /\ flag' = [flag EXCEPT ![c] = id]
       /\ rc' = [rc EXCEPT ![c] =
                   IF valid /\ WithinLimit
                   THEN "accepted" ELSE "refused"]
  /\ Goto(c, "add")
  /\ UNCHANGED <<work, target, out, hb, jobs, released, stopped, clients,
                 statsClients, present, panic>>

(* add(): register, unless another connection holds the client id.         *)
Add(c) ==
  /\ Running
  /\ in[c] = "add"
  /\ LET existing == clients[flag[c]] IN
       IF existing = NoConn
       THEN /\ clients' = [clients EXCEPT ![flag[c]] = c]
            /\ Goto(c, "add2")
       ELSE /\ Goto(c, "evict")
            /\ UNCHANGED clients
  /\ target' = [target EXCEPT ![c] = clients[flag[c]]]
  /\ UNCHANGED <<work, flag, rc, out, hb, jobs, released, stopped,
                 statsClients, present, panic>>

(* submitSync: queue a DISCONNECT with a receipt for goroutine v.  There   *)
(* is no test of alive, and a send on a closed channel panics.             *)
SubmitSync(c, v) ==
  IF JobsClosed(c)
  THEN /\ Crash("send on closed channel")
       /\ UNCHANGED jobs
  ELSE /\ ~Full(c)
       /\ Enqueue(c, Kick(v))
       /\ UNCHANGED panic

(* Mutant: wait() does not wait.                                           *)
NoWait(v) == TRUE

(* receipt.wait() of goroutine v returns.                                  *)
Received(v) == v \in released

EvictSend(c) ==
  /\ Running
  /\ in[c] = "evict"
  /\ SubmitSync(target[c], <<c, "in">>)
  /\ Goto(c, "wait")
  /\ UNCHANGED <<work, target, flag, rc, out, hb, released, stopped, clients,
                 statsClients, present>>

EvictWait(c) ==
  /\ Running
  /\ in[c] = "wait"
  /\ Received(<<c, "in">>)
  /\ released' = released \ {<<c, "in">>}
  /\ Goto(c, "del")
  /\ UNCHANGED <<work, target, flag, rc, out, hb, jobs, stopped, clients,
                 statsClients, present, panic>>

(* Mutant: nothing is removed from the registry.                           *)
DelNothing(c) == UNCHANGED clients

(* del() removes whatever connection is registered under the client id.    *)
Del(c) ==
  clients' = IF flag[c] = NoId THEN clients
             ELSE [clients EXCEPT ![flag[c]] = NoConn]

EvictDel(c) ==
  /\ Running
  /\ in[c] = "del"
  /\ Del(target[c])
  /\ Goto(c, "add2")
  /\ UNCHANGED <<work, target, flag, rc, out, hb, jobs, released, stopped,
                 statsClients, present, panic>>

(* The second add(), whose result is ignored.                              *)
AddAgain(c) ==
  /\ Running
  /\ in[c] = "add2"
  /\ clients' = [clients EXCEPT ![flag[c]] = IF @ = NoConn THEN c ELSE @]
  /\ Goto(c, "setup")
  /\ UNCHANGED <<work, target, flag, rc, out, hb, jobs, released, stopped,
                 statsClients, present, panic>>

(* The rest of doConnect: start the heartbeat, resubmit the stored         *)
(* messages of a persistent session, check in, queue the CONNACK.  A       *)
(* refused CONNECT takes all these steps too.  At most one heartbeat of a  *)
(* connection is modelled at a time.                                       *)
Setup(c) ==
  /\ Running
  /\ in[c] = "setup"
  /\ \E keepAlive \in KeepAlives :
       hb' = IF keepAlive /\ hb[c] \in {"off", "done"}
             THEN [hb EXCEPT ![c] = "tick"] ELSE hb
  /\ \E stored \in 0..MaxStored :
       Handle(c, [i \in 1..stored |-> "send"] \o <<"checkin", "send">>)
  /\ UNCHANGED <<target, flag, rc, out, jobs, released, stopped, clients,
                 statsClients, present, panic>>

(* RedisStore.Store and Del: one command at a time, under the store's      *)
(* mutex.  An error is logged or ignored, and the caller does not know.    *)
Store(u) ==
  \E failed \in {FALSE, RedisMayFail} :
    present' = IF failed THEN present ELSE present \cup {u}

DelKey(u) ==
  \E failed \in {FALSE, RedisMayFail} :
    present' = IF failed THEN present ELSE present \ {u}

(* Mutant: nobody is checked in.                                           *)
CheckInNobody(c) ==
  /\ Doing(c, "checkin")
  /\ UNCHANGED present
  /\ Advance(c)
  /\ UNCHANGED <<target, flag, rc, out, hb, jobs, released, stopped, clients,
                 statsClients, panic>>

CheckIn(c) ==
  /\ Doing(c, "checkin")
  /\ IF EnablePresence /\ UserOf[flag[c]] # NoUser
     THEN Store(UserOf[flag[c]]) ELSE UNCHANGED present
  /\ Advance(c)
  /\ UNCHANGED <<target, flag, rc, out, hb, jobs, released, stopped, clients,
                 statsClients, panic>>

(* submit(m) by the connection's own inboundLoop, where alive is true.     *)
Reply(c) ==
  /\ Doing(c, "send")
  /\ \/ ~Full(c) /\ Enqueue(c, Packet)
     \/ Full(c) /\ Discards /\ UNCHANGED jobs
  /\ Advance(c)
  /\ UNCHANGED <<target, flag, rc, out, hb, released, stopped, clients,
                 statsClients, present, panic>>

PingReq(c) ==
  /\ ReceivesRequest(c, "PingReq")
  /\ Handle(c, <<"send">>)
  /\ UNCHANGED <<target, flag, rc, out, hb, jobs, released, stopped, clients,
                 statsClients, present, panic>>

(* A DISCONNECT, a packet of an unexpected type, or the end of the stream. *)
ClientLeaves(c) ==
  /\ Receives(c)
  /\ Goto(c, "exit")
  /\ UNCHANGED <<work, target, flag, rc, out, hb, jobs, released, stopped,
                 clients, statsClients, present, panic>>

(* Reading from the socket that outboundLoop closed returns an error.      *)
ReadClosed(c) ==
  /\ Running
  /\ in[c] = "read"
  /\ ~SocketOpen(c)
  /\ Goto(c, "exit")
  /\ UNCHANGED <<work, target, flag, rc, out, hb, jobs, released, stopped,
                 clients, statsClients, present, panic>>

(* The deferred function: stats and the store, alive, close(jobs), and     *)
(* onTerminate.                                                            *)
ExitCount(c) ==
  /\ Running
  /\ in[c] = "exit"
  /\ statsClients' = statsClients - 1
  /\ Goto(c, "uncounted")
  /\ UNCHANGED <<work, target, flag, rc, out, hb, jobs, released, stopped,
                 clients, present, panic>>

ExitAlive(c) ==
  /\ Running
  /\ in[c] = "uncounted"
  /\ Goto(c, "closing")
  /\ UNCHANGED <<work, target, flag, rc, out, hb, jobs, released, stopped,
                 clients, statsClients, present, panic>>

ExitClose(c) ==
  /\ Running
  /\ in[c] = "closing"
  /\ Goto(c, "term")
  /\ UNCHANGED <<work, target, flag, rc, out, hb, jobs, released, stopped,
                 clients, statsClients, present, panic>>

(* Mutant: nobody is checked out.                                          *)
NoCheckOut(c) == UNCHANGED present

CheckOut(c) == IF EnablePresence /\ UserOf[flag[c]] # NoUser
               THEN DelKey(UserOf[flag[c]]) ELSE UNCHANGED present

(* onTerminate reads flag.Username before it tests whether flag is nil.    *)
Terminate(c) ==
  /\ Running
  /\ in[c] = "term"
  /\ Goto(c, "done")
  /\ IF EnablePresence /\ flag[c] = NoId
     THEN /\ Crash("nil pointer dereference")
          /\ UNCHANGED present
     ELSE /\ CheckOut(c)
          /\ UNCHANGED panic
  /\ UNCHANGED <<work, target, flag, rc, out, hb, jobs, released, stopped,
                 clients, statsClients>>

----------------------------------------------------------------------------
(* outboundLoop                                                            *)

(* Mutant: only a job that was written has its receipt closed.             *)
ReleaseWritten(c, failed) ==
  released' = IF failed THEN released ELSE released \cup Head(jobs[c]).r

(* The receipt of a job is closed whether writing it failed or not.        *)
Release(c, failed) == released' = released \cup Head(jobs[c]).r

(* Write the next job, close its receipt, and leave the loop after a write *)
(* error or a DISCONNECT.                                                  *)
OutWrite(c) ==
  /\ Running
  /\ out[c] = "loop"
  /\ jobs[c] # <<>>
  /\ jobs' = [jobs EXCEPT ![c] = Tail(@)]
  /\ \E failed \in {FALSE, WriteMayFail} :
       /\ Release(c, failed)
       /\ out' = [out EXCEPT ![c] =
                    IF failed \/ Head(jobs[c]).m = "Disconnect" THEN "exit" ELSE @]
  /\ UNCHANGED <<in, work, target, flag, rc, hb, stopped, clients,
                 statsClients, present, panic>>

(* Mutant: stopChan is not in the select.                                  *)
DrainedOnly(c) == jobs[c] = <<>> /\ JobsClosed(c)

(* A case of the select that ends the loop is ready.                       *)
MayLeave(c) == \/ jobs[c] = <<>> /\ JobsClosed(c)
               \/ stopped[c]

(* The job channel is closed and drained, or stopChan is closed.           *)
OutLeave(c) ==
  /\ Running
  /\ out[c] = "loop"
  /\ MayLeave(c)
  /\ out' = [out EXCEPT ![c] = "exit"]
  /\ UNCHANGED <<in, work, target, flag, rc, hb, jobs, released, stopped,
                 clients, statsClients, present, panic>>

(* The deferred function: close heartbeatStop and the socket, then del().  *)
OutClose(c) ==
  /\ Running
  /\ out[c] = "exit"
  /\ out' = [out EXCEPT ![c] = "del"]
  /\ UNCHANGED <<in, work, target, flag, rc, hb, jobs, released, stopped,
                 clients, statsClients, present, panic>>

OutDel(c) ==
  /\ Running
  /\ out[c] = "del"
  /\ out' = [out EXCEPT ![c] = "unsub"]
  /\ Del(c)
  /\ UNCHANGED <<in, work, target, flag, rc, hb, jobs, released, stopped,
                 statsClients, present, panic>>

(* unsubAll, whose effect on the subscriptions the module Broker adds.     *)
OutUnsubAll(c) ==
  /\ Running
  /\ out[c] = "unsub"
  /\ out' = [out EXCEPT ![c] = "done"]
  /\ UNCHANGED <<in, work, target, flag, rc, hb, jobs, released, stopped,
                 clients, statsClients, present, panic>>

----------------------------------------------------------------------------
(* heartbeat                                                               *)

(* The ticker fires, the client is over idle and alive is read as true.    *)
HbExpire(c) ==
  /\ Running
  /\ hb[c] = "tick"
  /\ Alive(c)
  /\ hb' = [hb EXCEPT ![c] = "sync"]
  /\ UNCHANGED <<in, work, target, flag, rc, out, jobs, released, stopped,
                 clients, statsClients, present, panic>>

HbSend(c) ==
  /\ Running
  /\ hb[c] = "sync"
  /\ SubmitSync(c, <<c, "hb">>)
  /\ hb' = [hb EXCEPT ![c] = "wait"]
  /\ UNCHANGED <<in, work, target, flag, rc, out, released, stopped, clients,
                 statsClients, present>>

HbWait(c) ==
  /\ Running
  /\ hb[c] = "wait"
  /\ Received(<<c, "hb">>)
  /\ hb' = [hb EXCEPT ![c] = "done"]
  /\ released' = released \ {<<c, "hb">>}
  /\ UNCHANGED <<in, work, target, flag, rc, out, jobs, stopped, clients,
                 statsClients, present, panic>>

(* heartbeatStop is closed together with the socket.                       *)
HbStop(c) ==
  /\ Running
  /\ hb[c] = "tick"
  /\ ~SocketOpen(c)
  /\ hb' = [hb EXCEPT ![c] = "done"]
  /\ UNCHANGED <<in, work, target, flag, rc, out, jobs, released, stopped,
                 clients, statsClients, present, panic>>

----------------------------------------------------------------------------
(* What the environment decides, and what the Go scheduler will run.       *)
Client(c) == Accept(c) \/ Connect(c) \/ PingReq(c) \/ ClientLeaves(c)

Inbound(c) ==
  \/ Add(c) \/ EvictSend(c) \/ EvictWait(c) \/ EvictDel(c) \/ AddAgain(c)
  \/ Setup(c) \/ CheckIn(c) \/ Reply(c) \/ ReadClosed(c)
  \/ ExitCount(c) \/ ExitAlive(c) \/ ExitClose(c) \/ Terminate(c)

Outbound(c) == OutWrite(c) \/ OutLeave(c) \/ OutClose(c) \/ OutDel(c)

Heartbeat(c) == HbSend(c) \/ HbWait(c) \/ HbStop(c)

SessionStep(c) ==
  Client(c) \/ Inbound(c) \/ Outbound(c) \/ HbExpire(c) \/ Heartbeat(c)

SessionNext == \E c \in Conns : SessionStep(c) \/ OutUnsubAll(c)

(* Goroutines that can run are run; clients and timers need not act.       *)
SessionFairness ==
  \A c \in Conns : /\ WF_sessionVars(Inbound(c))
                   /\ WF_sessionVars(Outbound(c) \/ OutUnsubAll(c))
                   /\ WF_sessionVars(Heartbeat(c))

SessionSpec == SessionInit /\ [][SessionNext]_sessionVars /\ SessionFairness

----------------------------------------------------------------------------
(* Properties                                                              *)

(* Every variable keeps its type: the positions of the three goroutines,   *)
(* the registry and a job channel that never exceeds its capacity.         *)
SessionTypeOK ==
  /\ in \in [Conns -> InStates]
  /\ work \in [Conns -> Seq(Steps)]
  /\ target \in [Conns -> Conns \cup {NoConn}]
  /\ flag \in [Conns -> Ids \cup {NoId}]
  /\ rc \in [Conns -> {"none", "accepted", "refused"}]
  /\ out \in [Conns -> {"none", "loop", "exit", "del", "unsub", "done"}]
  /\ hb \in [Conns -> {"off", "tick", "sync", "wait", "done"}]
  /\ jobs \in [Conns -> Seq(Job)]
  /\ \A c \in Conns : Len(jobs[c]) <= QueueLen
  /\ released \subseteq Waiters
  /\ stopped \in [Conns -> BOOLEAN]
  /\ clients \in [Ids -> Conns \cup {NoConn}]
  /\ statsClients \in Int
  /\ present \subseteq {UserOf[id] : id \in Ids}
  /\ panic \in {"none", "send on closed channel", "close of closed channel",
               "nil pointer dereference"}

(* A connection has its place among the max_connections from clientConnect *)
(* to clientDisconnect, with which the deferred function of inboundLoop    *)
(* begins.                                                                 *)
Counted(c) == in[c] \notin {"none", "uncounted", "closing", "term", "done"}

(* The sessions that were accepted and have not given up their place.      *)
Accepted == {c \in Conns : Counted(c) /\ rc[c] = "accepted"}

(* doConnect compares the connection counter with max_connections only     *)
(* once, while other clients connect and leave.  Still there are never     *)
(* more accepted sessions than the limit.                                  *)
ConnectionLimit == MaxConnections > 0 => Cardinality(Accepted) <= MaxConnections

(* The receipt of submitSync means that the kicked session is over for its *)
(* client: when doConnect goes on after the wait(), or the heartbeat does, *)
(* outboundLoop of the kicked connection will never write another packet.  *)
EvictionFinal ==
  \A c \in Conns :
    /\ in[c] \notin {"evict", "wait"} /\ target[c] # NoConn
         => out[target[c]] # "loop"
    /\ <<c, "in">> \in released => out[target[c]] # "loop"
    /\ <<c, "hb">> \in released => out[c] # "loop"

(* The presence service names nobody who has no session left: each user    *)
(* that was checked in has a connection that still has to run onTerminate. *)
PresentHasSession ==
  \A u \in present :
    \E c \in Conns : /\ flag[c] # NoId
                     /\ UserOf[flag[c]] = u
                     /\ in[c] # "done"

(* No receipt is lost: what a CONNECT waits for after submitSync has been  *)
(* closed, or is attached to a DISCONNECT that is still queued for the     *)
(* session it takes over, even when writing that DISCONNECT fails.         *)
ReceiptKept ==
  \A c \in Conns :
    Running /\ in[c] = "wait"
      => \/ <<c, "in">> \in released
         \/ \E i \in 1..Len(jobs[target[c]]) :
              jobs[target[c]][i] = Kick(<<c, "in">>)

(* The session of a named user has passed CheckIn.                         *)
CheckedIn(c) ==
  /\ EnablePresence
  /\ in[c] \in {"read", "work", "exit", "uncounted", "closing", "term"}
  /\ flag[c] # NoId
  /\ UserOf[flag[c]] # NoUser
  /\ \A i \in 1..Len(work[c]) : work[c][i] # "checkin"

(* A user with a session is missing from the presence service only after   *)
(* another session of theirs has ended: the CheckOut of a session that was *)
(* taken over comes at any time after the CheckIn of the new one.          *)
AbsentWasTakenOver ==
  \A c \in Conns :
    CheckedIn(c) /\ UserOf[flag[c]] \notin present
      => \E d \in Conns \ {c} : /\ flag[d] # NoId
                                /\ UserOf[flag[d]] = UserOf[flag[c]]
                                /\ in[d] = "done"

(* With distinct client ids the registry is exact: an entry belongs to a   *)
(* connection that has not been deleted, and a session that was set up is  *)
(* registered as long as its outboundLoop has not passed del().            *)
RegistryExact ==
  \A c \in Conns :
    /\ \A id \in Ids : clients[id] = c => /\ flag[c] = id
                                          /\ out[c] \notin {"unsub", "done"}
    /\ flag[c] # NoId /\ in[c] # "add" /\ out[c] \in {"loop", "exit", "del"}
         => clients[flag[c]] = c

(* A connection that one of the two loops has left is torn down: both      *)
(* loops finish, unless a panic ends the whole process.                    *)
Leaving(c) == out[c] \in {"exit", "del", "unsub", "done"}
                \/ in[c] \in {"exit", "uncounted", "closing", "term", "done"}

TornDown(c) == in[c] = "done" /\ out[c] = "done"

Teardown == \A c \in Conns : Leaving(c) ~> (TornDown(c) \/ ~Running)

----------------------------------------------------------------------------
(* What comments and documents say, and the code does not always do: the   *)
(* README beside this module names an instance that shows each (Known      *)
(* departures).                                                            *)

(* "Disconnect existing connections" (proto.go:52), so that ids stay       *)
(* unique: two sessions that were set up with one client id are never both *)
(* served by their outboundLoop.                                           *)
Served(c) == in[c] \in {"read", "work"} /\ rc[c] = "accepted" /\ out[c] = "loop"

OneSessionPerClientId ==
  \A c, d \in Conns : Served(c) /\ Served(d) /\ flag[c] = flag[d] => c = d

(* "to avoid send on closed channel" (session.go:55): nobody sends to the  *)
(* job channel of a connection after its inboundLoop closed it.            *)
NoSendOnClosedChannel == panic # "send on closed channel"

(* flag is "nil if not CONNECT ok" (session.go:19), so the code that runs  *)
(* on every connection has to do without it.                               *)
NoNilDereference == panic # "nil pointer dereference"

(* outboundLoop closes the connection on exit "in order to cause           *)
(* inboundLoop to exit" (session.go:127): it does exit after that.         *)
InboundExits ==
  \A c \in Conns : (out[c] = "done") ~> (in[c] = "done" \/ ~Running)

(* wait() is to return when "the job is done" (types.go:24): a client that *)
(* takes over the id of another connection gets past the wait.             *)
TakeoverCompletes ==
  \A c \in Conns : (in[c] = "wait") ~> (in[c] = "del" \/ ~Running)

=============================================================================
