----------------------------- MODULE ClientConn -----------------------------
(***************************************************************************)
(* The client side of the protocol (broker/api.go): one application        *)
(* goroutine that calls the methods of a ClientConn, another that ranges   *)
(* over Incoming, the goroutines inboundLoop, outboundLoop and             *)
(* runKeepAlive, and the broker as far as a client sees it: it answers     *)
(* every request in turn, but may discard an answer, and it publishes.     *)
(***************************************************************************)
EXTENDS Naturals, Sequences

CONSTANTS
  QueueLen,    \* capacity of the channels out and Incoming
  MaxCalls,    \* bound on the calls of the application
  MaxPushes,   \* bound on the PUBLISH packets from the server
  MaxPings,    \* bound on the pings of runKeepAlive; 0: KeepAlive is off
  LinkMayFail  \* whether the connection may be lost

ASSUME ClientAssumption ==
  /\ QueueLen \in Nat \ {0}
  /\ {MaxCalls, MaxPushes, MaxPings} \subseteq Nat
  /\ LinkMayFail \in BOOLEAN

(* What a call waits for, after its message was sent.                      *)
AckOf == [connect |-> "connack", subscribe |-> "suback", publish1 |-> "puback"]

(* What the broker answers.                                                *)
AnswerOf == [connect |-> "connack", subscribe |-> "suback", publish1 |-> "puback",
             unsubscribe |-> "unsuback", pingreq |-> "pingresp"]

Calls == {"connect", "subscribe", "publish0", "publish1", "publish2", "unsubscribe", "disconnect"}
Syncs == {"connect", "subscribe", "disconnect"}
Acks == {"connack", "suback", "puback"}

VARIABLES
  app,        \* the caller: "idle", in a call, or "left" after Disconnect
  call,       \* the current or last call
  calls,      \* the number of calls so far
  receipt,    \* whether the receipt of the call is closed
  written,    \* whether Encode succeeded for the message of the call
  out,        \* the channel out
  closed,     \* whether inboundLoop has closed the channels
  outb, job,  \* outboundLoop and the job it holds
  done,       \* whether doneChan is closed
  inb, pkt,   \* inboundLoop and the packet it holds
  incoming,   \* the number of messages in Incoming
  ka, pings,  \* runKeepAlive, and the number of pings so far
  link,       \* "up", "ended" by the server after a Disconnect, "lost", or
              \* "closed" by us
  requests,   \* packets on the way to the server
  wire,       \* packets on the way to the client
  pushes,     \* the number of messages that the server published so far
  dropped,    \* whether the server has discarded an answer
  panic       \* "no", "send" on a closed channel, "nil" dereference, or
              \* "qos": not supported QoS

appVars == <<app, call, calls, receipt>>
inVars == <<inb, pkt, incoming, closed>>
kaVars == <<ka, pings>>
netVars == <<link, requests, wire, pushes, dropped>>
vars == <<app, call, calls, receipt, written, out, closed, outb, job, done,
          inb, pkt, incoming, ka, pings, link, requests, wire, pushes, dropped, panic>>

(* NewClientConn.                                                          *)
Init ==
  /\ app = "idle" /\ call = "none" /\ calls = 0 /\ receipt = FALSE /\ written = FALSE
  /\ out = <<>> /\ closed = FALSE
  /\ outb = "run" /\ job = "none" /\ done = FALSE
  /\ inb = "read" /\ pkt = "none" /\ incoming = 0
  /\ ka = "off" /\ pings = 0
  /\ link = "up" /\ requests = <<>> /\ wire = <<>> /\ pushes = 0
  /\ dropped = FALSE /\ panic = "no"

(* The application connects first and makes no call after Disconnect.      *)
Call(k) ==
  /\ app = "idle"
  /\ calls < MaxCalls
  /\ calls = 0 <=> k = "connect"
  /\ app' = "send" /\ call' = k /\ calls' = calls + 1
  /\ receipt' = FALSE /\ written' = FALSE
  /\ ka' = IF k = "connect" /\ MaxPings > 0 THEN "sleep" ELSE ka
  /\ UNCHANGED <<out, inVars, outb, job, done, pings, netVars, panic>>

(* Mutant: one job more than the channel holds.                            *)
RoomPastEnd == Len(out) <= QueueLen

HasRoom == Len(out) < QueueLen

(* A send on the channel out: it waits for room and panics once the        *)
(* channel is closed.                                                      *)
SendOut(m) ==
  \/ closed /\ panic' = "send" /\ UNCHANGED out
  \/ ~closed /\ HasRoom /\ out' = Append(out, m) /\ UNCHANGED panic

(* Where a call goes on after it has sent its message.                     *)
AfterSend(k) ==
  CASE k \in Syncs -> "receipt" [] k = "publish1" -> "ack"
    [] k = "publish2" -> "unsupported" [] OTHER -> "idle"

AppSend ==
  /\ app = "send"
  /\ SendOut(call)
  /\ app' = AfterSend(call)
  /\ UNCHANGED <<call, calls, receipt, written, inVars, outb, job, done, kaVars, netVars>>

(* Publish with QoS 2 panics after its message was queued.                 *)
AppUnsupported ==
  /\ app = "unsupported"
  /\ panic' = "qos"
  /\ UNCHANGED <<app, call, calls, receipt, written, out, inVars, outb, job, done, kaVars, netVars>>

AppReceipt ==
  /\ app = "receipt" /\ receipt
  /\ app' = IF call = "disconnect" THEN "done" ELSE "ack"
  /\ UNCHANGED <<call, calls, receipt, written, out, inVars, outb, job, done, kaVars, netVars, panic>>

(* The acknowledgement comes from inboundLoop over an unbuffered channel.  *)
(* Once the channels are closed the call gets nil, which Connect uses.     *)
AppAck ==
  /\ app = "ack"
  /\ \/ /\ inb = "deliver" /\ pkt = AckOf[call]
        /\ inb' = "read" /\ pkt' = "none" /\ app' = "idle"
        /\ UNCHANGED panic
     \/ /\ closed /\ app' = "idle"
        /\ panic' = IF call = "connect" THEN "nil" ELSE panic
        /\ UNCHANGED <<inb, pkt>>
  /\ UNCHANGED <<call, calls, receipt, written, out, closed, outb, job, done, incoming, kaVars, netVars>>

AppDone ==
  /\ app = "done" /\ done
  /\ app' = "left"
  /\ UNCHANGED <<call, calls, receipt, written, out, inVars, outb, job, done, kaVars, netVars, panic>>

Consume ==
  /\ incoming > 0
  /\ incoming' = incoming - 1
  /\ UNCHANGED <<appVars, written, out, closed, inb, pkt, outb, job, done, kaVars, netVars, panic>>

(* Mutant: a PingResp ends the loop, as an unexpected packet would in the  *)
(* broker.                                                                 *)
PingEnds(m) ==
  CASE m \in {"disconnect", "pingresp"} -> "exit" [] m = "unsuback" -> "read" [] OTHER -> "deliver"

(* Where inboundLoop goes with a packet: a PingResp is ignored, and so is  *)
(* an UnsubAck, which nobody expects.                                      *)
Dispatch(m) ==
  CASE m = "disconnect" -> "exit" [] m \in {"pingresp", "unsuback"} -> "read" [] OTHER -> "deliver"

(* inboundLoop reads a packet; reading fails on a connection that we have  *)
(* closed, or that is ended or lost with all of its input read.            *)
Read ==
  /\ inb = "read"
  /\ \/ /\ link # "closed" /\ wire # <<>>
        /\ inb' = Dispatch(Head(wire))
        /\ pkt' = IF inb' = "deliver" THEN Head(wire) ELSE "none"
        /\ wire' = Tail(wire)
     \/ /\ link = "closed" \/ (link \in {"ended", "lost"} /\ wire = <<>>)
        /\ inb' = "exit"
        /\ UNCHANGED <<pkt, wire>>
  /\ UNCHANGED <<appVars, written, out, closed, outb, job, done, incoming, kaVars,
                 link, requests, pushes, dropped, panic>>

(* A message goes to Incoming, when there is room.                         *)
Deliver ==
  /\ inb = "deliver" /\ pkt = "publish"
  /\ incoming < QueueLen
  /\ incoming' = incoming + 1
  /\ inb' = "read" /\ pkt' = "none"
  /\ UNCHANGED <<appVars, written, out, closed, outb, job, done, kaVars, netVars, panic>>

(* Mutant: inboundLoop ends and leaves the channels open.                  *)
LeaveOpen ==
  /\ inb = "exit"
  /\ inb' = "ended"
  /\ UNCHANGED <<appVars, written, out, pkt, incoming, closed, outb, job, done, kaVars, netVars, panic>>

(* The deferred function of inboundLoop closes the channels.               *)
CloseChannels ==
  /\ inb = "exit"
  /\ inb' = "ended" /\ closed' = TRUE
  /\ UNCHANGED <<appVars, written, out, pkt, incoming, outb, job, done, kaVars, netVars, panic>>

(* outboundLoop ranges over out.                                           *)
TakeJob ==
  /\ outb = "run"
  /\ \/ out # <<>> /\ job' = Head(out) /\ out' = Tail(out) /\ outb' = "encode"
     \/ out = <<>> /\ closed /\ outb' = "exit" /\ UNCHANGED <<job, out>>
  /\ UNCHANGED <<appVars, written, inVars, done, kaVars, netVars, panic>>

(* Encode.  On a connection that is gone a write may still succeed.        *)
Encode ==
  /\ outb = "encode"
  /\ \/ /\ link = "up" /\ requests' = Append(requests, job)
        /\ outb' = "sent"
     \/ link \in {"ended", "lost"} /\ outb' \in {"sent", "failed"} /\ UNCHANGED requests
  /\ written' = (written \/ (job = call /\ outb' = "sent"))
  /\ UNCHANGED <<appVars, out, inVars, job, done, kaVars, link, wire, pushes, dropped, panic>>

(* Mutant: the loop returns after a Disconnect before it closes receipts.  *)
NotForDisconnect(j) == j \in Syncs \ {"disconnect"}

HasReceipt(j) == j \in Syncs

(* The receipt is closed, whether or not the message was written; an error *)
(* and a Disconnect end the loop.                                          *)
Release ==
  /\ outb \in {"sent", "failed"}
  /\ receipt' = (receipt \/ HasReceipt(job))
  /\ outb' = IF outb = "failed" \/ job = "disconnect" THEN "exit" ELSE "run"
  /\ job' = "none"
  /\ UNCHANGED <<app, call, calls, written, out, inVars, done, kaVars, netVars, panic>>

(* The deferred function of outboundLoop.                                  *)
CloseConn ==
  /\ outb = "exit"
  /\ outb' = "ended" /\ link' = "closed" /\ done' = TRUE
  /\ UNCHANGED <<appVars, written, out, inVars, job, kaVars, requests, wire, pushes, dropped, panic>>

(* runKeepAlive sleeps, then takes whichever of the ticker and doneChan    *)
(* is ready; when both are, any of them.                                   *)
Tick ==
  /\ ka = "sleep"
  /\ \/ pings < MaxPings /\ ka' = "send" /\ pings' = pings + 1
     \/ done /\ ka' = "ended" /\ UNCHANGED pings
  /\ UNCHANGED <<appVars, written, out, inVars, outb, job, done, netVars, panic>>

Ping ==
  /\ ka = "send"
  /\ SendOut("pingreq")
  /\ ka' = "sleep"
  /\ UNCHANGED <<appVars, written, inVars, outb, job, done, pings, netVars>>

(* submit() of the broker: the answer is sent, or discarded because the    *)
(* queue of the connection is full.                                        *)
Submit(m) ==
  \/ wire' = Append(wire, m) /\ UNCHANGED dropped
  \/ dropped' = TRUE /\ UNCHANGED wire

(* The broker's inboundLoop handles the requests in turn and ends the      *)
(* connection on Disconnect.                                               *)
Serve ==
  /\ link = "up" /\ requests # <<>>
  /\ LET m == Head(requests)
     IN /\ IF m \in DOMAIN AnswerOf THEN Submit(AnswerOf[m]) ELSE UNCHANGED <<wire, dropped>>
        /\ link' = IF m = "disconnect" THEN "ended" ELSE link
  /\ requests' = Tail(requests)
  /\ UNCHANGED <<appVars, written, out, inVars, outb, job, done, kaVars, pushes, panic>>

(* A worker of the broker sends a message to a client that has called      *)
(* Connect.                                                                *)
Push ==
  /\ link = "up" /\ calls > 1
  /\ pushes < MaxPushes
  /\ pushes' = pushes + 1
  /\ wire' = Append(wire, "publish")
  /\ UNCHANGED <<appVars, written, out, inVars, outb, job, done, kaVars, link, requests, dropped, panic>>

(* The server evicts the client, or the connection is lost.                *)
Lose ==
  /\ LinkMayFail /\ link = "up"
  /\ link' = "lost"
  /\ wire' \in {wire, Append(wire, "disconnect"), <<>>}
  /\ UNCHANGED <<appVars, written, out, inVars, outb, job, done, kaVars, requests, pushes, dropped, panic>>

Inbound == Read \/ Deliver \/ CloseChannels
Outbound == TakeJob \/ Encode \/ Release \/ CloseConn
Application == AppSend \/ AppUnsupported \/ AppReceipt \/ AppAck \/ AppDone

(* A panic ends the process.                                               *)
Next ==
  /\ panic = "no"
  /\ \/ \E k \in Calls : Call(k)
     \/ Application \/ Consume \/ Inbound \/ Outbound \/ Tick \/ Ping
     \/ Serve \/ Push \/ Lose

(* The goroutines and the server go on; a goroutine that waits to send on  *)
(* a channel is served in turn.  The application need not call anything,   *)
(* and the server need not publish.                                        *)
Fairness ==
  /\ SF_vars(panic = "no" /\ Application)
  /\ WF_vars(panic = "no" /\ Consume) /\ WF_vars(panic = "no" /\ Inbound)
  /\ WF_vars(panic = "no" /\ Outbound) /\ WF_vars(panic = "no" /\ Serve)
  /\ SF_vars(panic = "no" /\ Ping)

Spec == Init /\ [][Next]_vars /\ Fairness

----------------------------------------------------------------------------
(* Properties                                                              *)

Requests == Calls \cup {"pingreq"}
Packets == Acks \cup {"publish", "unsuback", "pingresp", "disconnect"}

(* Every variable keeps its type; a loop holds a packet or a job exactly   *)
(* while it works on one.                                                  *)
TypeOK ==
  /\ app \in {"idle", "send", "unsupported", "receipt", "ack", "done", "left"}
  /\ call \in Calls \cup {"none"}
  /\ calls \in 0 .. MaxCalls /\ pushes \in 0 .. MaxPushes /\ pings \in 0 .. MaxPings
  /\ {receipt, written, closed, done, dropped} \subseteq BOOLEAN
  /\ out \in Seq(Requests) /\ Len(out) <= QueueLen
  /\ incoming \in 0 .. QueueLen
  /\ outb \in {"run", "encode", "sent", "failed", "exit", "ended"}
  /\ outb \in {"encode", "sent", "failed"} <=> job \in Requests
  /\ inb \in {"read", "deliver", "exit", "ended"}
  /\ inb = "deliver" <=> pkt \in Acks \cup {"publish"}
  /\ ka \in {"off", "sleep", "send", "ended"}
  /\ link \in {"up", "ended", "lost", "closed"}
  /\ requests \in Seq(Requests) /\ wire \in Seq(Packets)
  /\ panic \in {"no", "send", "nil", "qos"}

Busy == app \notin {"idle", "left"}

(* While the connection is not lost and the broker discards no answer,     *)
(* every call returns or panics: the unbuffered channels between           *)
(* inboundLoop and the caller, the receipts, and a full queue shared with  *)
(* runKeepAlive never leave a caller waiting.  (A caller whose answer was  *)
(* discarded waits for ever: "timeout is caller's job", api.go:65.)        *)
CallsReturn == [](link # "lost" /\ ~dropped) => (Busy ~> (~Busy \/ panic # "no"))

(* While the connection is not lost, no goroutine finds a channel closed   *)
(* before Disconnect is called: not the caller, not runKeepAlive, and no   *)
(* Connect gets nil for its ConnAck.  The panic of a Publish with QoS 2    *)
(* is another matter.                                                      *)
OpenUntilDisconnect ==
  [](link # "lost") => [](panic \in {"send", "nil"} => call = "disconnect")

(* inboundLoop and outboundLoop end together: "will terminate              *)
(* outboundLoop" (api.go:167), "inbouldLoop will get EOF" (api.go:222),    *)
(* unless a goroutine that still sends panics.                             *)
LoopsEndTogether ==
  /\ inb = "ended" ~> (outb = "ended" \/ panic # "no")
  /\ outb = "ended" ~> (inb = "ended" \/ panic # "no")

----------------------------------------------------------------------------
(* What comments and documents say, and the code does not always do: the   *)
(* README beside this module names an instance that shows each (Known      *)
(* departures).                                                            *)

(* "sync sends a message and blocks until it was actually sent"            *)
(* (api.go:127): a call that got its receipt has its message written.      *)
SyncMeansSent == app \in {"ack", "done"} /\ call \in Syncs => written

(* "Cause any goroutines waiting on messages to arrive to exit"            *)
(* (api.go:169): closing the channels ends a waiting Connect in order.     *)
ConnectSurvivesClose == panic # "nil"

=============================================================================
