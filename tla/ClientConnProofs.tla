-------------------------- MODULE ClientConnProofs --------------------------
(***************************************************************************)
(* Proofs about the client side, for any capacity of its channels and any  *)
(* number of calls, pings and messages.                                    *)
(***************************************************************************)
EXTENDS ClientConn, SequenceTheorems, TLAPS

(* The types of the parts, each as a predicate of the values that belong   *)
(* together: the caller, who has called something while it is in a call,   *)
(* the loops and what they have in hand, and the channels.                 *)
CallerOK(a, k) ==
  /\ a \in {"idle", "send", "unsupported", "receipt", "ack", "done", "left"}
  /\ k \in Calls \cup {"none"}
  /\ a # "idle" => k \in Calls

OutboundOK(o, j) ==
  /\ o \in {"run", "encode", "sent", "failed", "exit", "ended"}
  /\ o \in {"encode", "sent", "failed"} <=> j \in Requests

InboundOK(b, p) ==
  /\ b \in {"read", "deliver", "exit", "ended"}
  /\ b = "deliver" <=> p \in Acks \cup {"publish"}

ChannelOK(o) == o \in Seq(Requests) /\ Len(o) <= QueueLen

KeepAliveOK(k) == k \in {"off", "sleep", "send", "ended"}

LinkOK(l) == l \in {"up", "ended", "lost", "closed"}

PanicOK(p) == p \in {"no", "send", "nil", "qos"}

ClientInv ==
  /\ CallerOK(app, call) /\ OutboundOK(outb, job) /\ InboundOK(inb, pkt) /\ ChannelOK(out)
  /\ KeepAliveOK(ka) /\ LinkOK(link) /\ PanicOK(panic)
  /\ calls \in 0 .. MaxCalls /\ pushes \in 0 .. MaxPushes /\ pings \in 0 .. MaxPings
  /\ receipt \in BOOLEAN /\ written \in BOOLEAN /\ closed \in BOOLEAN /\ done \in BOOLEAN
  /\ dropped \in BOOLEAN
  /\ incoming \in 0 .. QueueLen
  /\ requests \in Seq(Requests) /\ wire \in Seq(Packets)

LEMMA ClientTypes == ClientInv => TypeOK
<1> SUFFICES ASSUME ClientInv PROVE TypeOK
  OBVIOUS
<1>1. {receipt, written, closed, done, dropped} \subseteq BOOLEAN
  BY Zenon DEF ClientInv
<1> QED BY <1>1, Zenon DEF ClientInv, TypeOK, CallerOK, OutboundOK, InboundOK, ChannelOK,
              KeepAliveOK, LinkOK, PanicOK

(* Every job in the channel out, at outboundLoop and on the way to the     *)
(* server.                                                                 *)
Holds(s, m) == \E k \in 1..Len(s) : s[k] = m

(* A connection that is not lost only ends because of a Disconnect: one    *)
(* that is queued, written, answered, or over.  The caller of Disconnect   *)
(* makes no other call.                                                    *)
EndInv ==
  /\ (Holds(out, "disconnect") \/ Holds(requests, "disconnect") \/ job = "disconnect")
       => call = "disconnect"
  /\ (link # "up" \/ closed \/ inb \in {"exit", "ended"} \/ outb \in {"failed", "exit", "ended"})
       => call = "disconnect"
  /\ panic \in {"send", "nil"} => call = "disconnect"
  /\ call = "disconnect" => app \in {"send", "receipt", "done", "left"}
  /\ ~Holds(wire, "disconnect")

(* What the channels and the connection contain after a send and after a   *)
(* receive.                                                                *)
LEMMA HoldsAppend ==
  ASSUME NEW S, NEW s \in Seq(S), NEW x \in S, NEW m
  PROVE  /\ Append(s, x) \in Seq(S) /\ Len(Append(s, x)) = Len(s) + 1
         /\ Holds(Append(s, x), m) => Holds(s, m) \/ x = m
<1>1. /\ Append(s, x) \in Seq(S) /\ Len(Append(s, x)) = Len(s) + 1
      /\ \A k \in 1..Len(s) : Append(s, x)[k] = s[k]
      /\ Append(s, x)[Len(s) + 1] = x
  BY AppendProperties
<1>2. \A k \in 1..(Len(s) + 1) : k \in 1..Len(s) \/ k = Len(s) + 1
  BY SMT
<1> QED BY <1>1, <1>2, Zenon DEF Holds

LEMMA HoldsTail ==
  ASSUME NEW S, NEW s \in Seq(S), s # <<>>, NEW m
  PROVE  /\ Head(s) \in S /\ Tail(s) \in Seq(S) /\ Len(Tail(s)) = Len(s) - 1
         /\ Head(s) = m \/ Holds(Tail(s), m) => Holds(s, m)
<1>1. /\ Head(s) \in S /\ Tail(s) \in Seq(S) /\ Len(Tail(s)) = Len(s) - 1 /\ Head(s) = s[1]
      /\ \A k \in 1..Len(Tail(s)) : Tail(s)[k] = s[k + 1]
  BY HeadTailProperties, ElementOfSeq
<1>2. Len(s) \in Nat \ {0}
  BY EmptySeq, SMT
<1>3. 1 \in 1..Len(s) /\ \A k \in 1..(Len(s) - 1) : k + 1 \in 1..Len(s)
  BY <1>2, SMT
<1> QED BY <1>1, <1>3, Zenon DEF Holds

LEMMA HoldsEmpty == \A m : ~Holds(<<>>, m)
BY DEF Holds

LEMMA ClientInit == Init => ClientInv /\ EndInv
<1> SUFFICES ASSUME Init PROVE ClientInv /\ EndInv
  OBVIOUS
<1>1. /\ ChannelOK(out) /\ incoming \in 0 .. QueueLen
      /\ requests \in Seq(Requests) /\ wire \in Seq(Packets)
      /\ calls \in 0 .. MaxCalls /\ pushes \in 0 .. MaxPushes /\ pings \in 0 .. MaxPings
  BY ClientAssumption DEF Init, ChannelOK
<1>2. /\ receipt \in BOOLEAN /\ written \in BOOLEAN /\ closed \in BOOLEAN /\ done \in BOOLEAN
      /\ dropped \in BOOLEAN
  BY Zenon DEF Init
<1>3. /\ CallerOK(app, call) /\ OutboundOK(outb, job) /\ InboundOK(inb, pkt)
      /\ KeepAliveOK(ka) /\ LinkOK(link) /\ PanicOK(panic)
  BY DEF Init, CallerOK, OutboundOK, InboundOK, KeepAliveOK, LinkOK, PanicOK, Requests, Calls, Acks
<1>4. EndInv
  BY HoldsEmpty, Zenon DEF Init, EndInv
<1> QED BY <1>1, <1>2, <1>3, <1>4, Zenon DEF ClientInv

(* A send keeps the channel within its capacity.                           *)
LEMMA SendFits ==
  ASSUME ChannelOK(out), PanicOK(panic), NEW m \in Requests, SendOut(m)
  PROVE  ChannelOK(out') /\ PanicOK(panic')
<1>1. /\ out \in Seq(Requests) /\ Len(out) \in Nat /\ QueueLen \in Nat
      /\ Append(out, m) \in Seq(Requests) /\ Len(Append(out, m)) = Len(out) + 1
  BY HoldsAppend, ClientAssumption DEF ChannelOK
<1>2. CASE panic' = "send" /\ out' = out
  BY <1>2, Zenon DEF PanicOK
<1>3. CASE Len(out) < QueueLen /\ out' = Append(out, m) /\ panic' = panic
  <2>1. Len(Append(out, m)) <= QueueLen
    BY <1>1, <1>3
  <2> QED BY <1>1, <1>3, <2>1, Zenon DEF ChannelOK
<1> QED BY <1>2, <1>3, Zenon DEF SendOut, HasRoom

LEMMA ClientStep ==
  ASSUME ClientInv, [Next]_vars
  PROVE  ClientInv'
<1>0. /\ CallerOK(app, call) /\ OutboundOK(outb, job) /\ InboundOK(inb, pkt) /\ ChannelOK(out)
      /\ KeepAliveOK(ka) /\ LinkOK(link) /\ PanicOK(panic)
      /\ calls \in 0 .. MaxCalls /\ pushes \in 0 .. MaxPushes /\ pings \in 0 .. MaxPings
      /\ receipt \in BOOLEAN /\ written \in BOOLEAN /\ closed \in BOOLEAN /\ done \in BOOLEAN
      /\ dropped \in BOOLEAN
      /\ incoming \in 0 .. QueueLen
      /\ requests \in Seq(Requests) /\ wire \in Seq(Packets)
  BY Zenon DEF ClientInv
<1>a. /\ QueueLen \in Nat \ {0} /\ MaxCalls \in Nat /\ MaxPushes \in Nat /\ MaxPings \in Nat
      /\ "none" \notin Requests /\ "none" \notin Acks \cup {"publish"}
  BY ClientAssumption DEF Requests, Calls, Acks
<1>1. ASSUME NEW k \in Calls, Call(k) PROVE ClientInv'
  <2>1. calls' \in 0 .. MaxCalls
    BY <1>0, <1>a, <1>1 DEF Call
  <2>2. CallerOK(app', call') /\ KeepAliveOK(ka') /\ receipt' \in BOOLEAN /\ written' \in BOOLEAN
    BY <1>0, <1>1, Zenon DEF Call, CallerOK, KeepAliveOK
  <2> QED BY <1>0, <1>1, <2>1, <2>2, Zenon DEF Call, inVars, netVars, ClientInv
<1>2. CASE AppSend
  <2>1. call \in Calls /\ call \in Requests
    BY <1>0, <1>2 DEF AppSend, CallerOK, Requests
  <2>2. CallerOK(app', call')
    BY <1>2, <2>1 DEF AppSend, AfterSend, CallerOK
  <2>3. ChannelOK(out') /\ PanicOK(panic')
    BY <1>0, <1>2, <2>1, SendFits, Zenon DEF AppSend
  <2> QED BY <1>0, <1>2, <2>2, <2>3, Zenon DEF AppSend, inVars, kaVars, netVars, ClientInv
<1>18. CASE AppUnsupported
  <2>1. PanicOK(panic')
    BY <1>18, Zenon DEF AppUnsupported, PanicOK
  <2> QED BY <1>0, <1>18, <2>1, Zenon DEF AppUnsupported, inVars, kaVars, netVars, ClientInv
<1>3. CASE AppReceipt \/ AppDone
  <2>1. /\ UNCHANGED <<call, calls, receipt, written, out, inVars, outb, job, done, kaVars, netVars, panic>>
        /\ app # "idle" /\ app' \in {"ack", "done", "left"}
    BY <1>3, Zenon DEF AppReceipt, AppDone
  <2>2. CallerOK(app', call')
    BY <1>0, <2>1, Zenon DEF CallerOK
  <2> QED BY <1>0, <2>1, <2>2, Zenon DEF inVars, kaVars, netVars, ClientInv
<1>4. CASE AppAck
  <2>1. CallerOK(app', call')
    BY <1>0, <1>4, Zenon DEF AppAck, CallerOK
  <2>2. InboundOK(inb', pkt')
    BY <1>0, <1>a, <1>4, Zenon DEF AppAck, InboundOK
  <2>3. PanicOK(panic')
    BY <1>0, <1>4, Zenon DEF AppAck, PanicOK
  <2> QED BY <1>0, <1>4, <2>1, <2>2, <2>3, Zenon DEF AppAck, kaVars, netVars, ClientInv
<1>5. CASE Consume
  <2>1. incoming' \in 0 .. QueueLen
    BY <1>0, <1>a, <1>5 DEF Consume
  <2> QED BY <1>0, <1>5, <2>1, Zenon DEF Consume, appVars, kaVars, netVars, ClientInv
<1>6. CASE Read
  <2>1. /\ UNCHANGED <<appVars, written, out, closed, outb, job, done, incoming, kaVars>>
        /\ UNCHANGED <<link, requests, pushes, dropped, panic>>
    BY <1>6, Zenon DEF Read
  <2>2. InboundOK(inb', pkt') /\ wire' \in Seq(Packets)
    <3>1. CASE /\ wire # <<>> /\ inb' = Dispatch(Head(wire)) /\ wire' = Tail(wire)
               /\ pkt' = IF inb' = "deliver" THEN Head(wire) ELSE "none"
      <4>1. Head(wire) \in Packets /\ wire' \in Seq(Packets)
        BY <1>0, <3>1, HoldsTail
      <4>2. InboundOK(inb', pkt')
        BY <1>a, <3>1, <4>1 DEF Dispatch, Packets, Acks, InboundOK
      <4> QED BY <4>1, <4>2
    <3>2. CASE inb = "read" /\ inb' = "exit" /\ UNCHANGED <<pkt, wire>>
      BY <1>0, <3>2, Zenon DEF InboundOK
    <3> QED BY <1>6, <3>1, <3>2, Zenon DEF Read
  <2> QED BY <1>0, <2>1, <2>2, Zenon DEF appVars, kaVars, ClientInv
<1>7. CASE Deliver
  <2>1. incoming' \in 0 .. QueueLen
    BY <1>0, <1>a, <1>7 DEF Deliver
  <2>2. InboundOK(inb', pkt')
    BY <1>a, <1>7, Zenon DEF Deliver, InboundOK
  <2> QED BY <1>0, <1>7, <2>1, <2>2, Zenon DEF Deliver, appVars, kaVars, netVars, ClientInv
<1>8. CASE CloseChannels
  <2>1. InboundOK(inb', pkt') /\ closed' \in BOOLEAN
    BY <1>0, <1>8, Zenon DEF CloseChannels, InboundOK
  <2> QED BY <1>0, <1>8, <2>1, Zenon DEF CloseChannels, appVars, kaVars, netVars, ClientInv
<1>9. CASE TakeJob
  <2>1. UNCHANGED <<appVars, written, inVars, done, kaVars, netVars, panic>>
    BY <1>9, Zenon DEF TakeJob
  <2>2. OutboundOK(outb', job') /\ ChannelOK(out')
    <3>1. CASE out # <<>> /\ job' = Head(out) /\ out' = Tail(out) /\ outb' = "encode"
      <4>1. /\ job' \in Requests /\ out' \in Seq(Requests) /\ Len(out') = Len(out) - 1
            /\ Len(out) \in Nat /\ Len(out) <= QueueLen
        BY <1>0, <3>1, HoldsTail DEF ChannelOK
      <4>2. Len(out') <= QueueLen
        BY <1>a, <4>1
      <4> QED BY <3>1, <4>1, <4>2, Zenon DEF OutboundOK, ChannelOK
    <3>2. CASE outb = "run" /\ outb' = "exit" /\ UNCHANGED <<job, out>>
      BY <1>0, <3>2, Zenon DEF OutboundOK
    <3> QED BY <1>9, <3>1, <3>2, Zenon DEF TakeJob
  <2> QED BY <1>0, <2>1, <2>2, Zenon DEF appVars, inVars, kaVars, netVars, ClientInv
<1>10. CASE Encode
  <2>1. /\ UNCHANGED <<appVars, out, inVars, job, done, kaVars, link, wire, pushes, dropped, panic>>
        /\ outb = "encode" /\ outb' \in {"sent", "failed"}
        /\ requests' = requests \/ requests' = Append(requests, job)
    BY <1>10, Zenon DEF Encode
  <2>2. job \in Requests /\ OutboundOK(outb', job')
    BY <1>0, <2>1, Zenon DEF OutboundOK
  <2>3. requests' \in Seq(Requests)
    <3>1. Append(requests, job) \in Seq(Requests)
      BY <1>0, <2>2, HoldsAppend
    <3> QED BY <1>0, <2>1, <3>1, Zenon
  <2>4. written' \in BOOLEAN
    BY <1>0, <1>10, Zenon DEF Encode
  <2> QED BY <1>0, <2>1, <2>2, <2>3, <2>4, Zenon DEF appVars, inVars, kaVars, ClientInv
<1>11. CASE Release
  <2>1. OutboundOK(outb', job')
    BY <1>a, <1>11, Zenon DEF Release, OutboundOK
  <2>2. receipt' \in BOOLEAN
    BY <1>0, <1>11, Zenon DEF Release
  <2> QED BY <1>0, <1>11, <2>1, <2>2, Zenon DEF Release, inVars, kaVars, netVars, ClientInv
<1>12. CASE CloseConn
  <2>1. OutboundOK(outb', job') /\ LinkOK(link') /\ done' \in BOOLEAN
    BY <1>0, <1>12, Zenon DEF CloseConn, OutboundOK, LinkOK
  <2> QED BY <1>0, <1>12, <2>1, Zenon DEF CloseConn, appVars, inVars, kaVars, ClientInv
<1>13. CASE Tick
  <2>1. pings' \in 0 .. MaxPings
    BY <1>0, <1>a, <1>13 DEF Tick
  <2>2. KeepAliveOK(ka')
    BY <1>13, Zenon DEF Tick, KeepAliveOK
  <2> QED BY <1>0, <1>13, <2>1, <2>2, Zenon DEF Tick, appVars, inVars, netVars, ClientInv
<1>14. CASE Ping
  <2>1. "pingreq" \in Requests
    BY DEF Requests
  <2>2. ChannelOK(out') /\ PanicOK(panic')
    BY <1>0, <1>14, <2>1, SendFits, Zenon DEF Ping
  <2>3. KeepAliveOK(ka')
    BY <1>14, Zenon DEF Ping, KeepAliveOK
  <2> QED BY <1>0, <1>14, <2>2, <2>3, Zenon DEF Ping, appVars, inVars, netVars, ClientInv
<1>15. CASE Serve
  <2>1. Head(requests) \in Requests /\ requests' \in Seq(Requests)
    BY <1>0, <1>15, HoldsTail DEF Serve
  <2>2. /\ wire' = wire \/ \E x \in Packets : wire' = Append(wire, x)
        /\ dropped' \in BOOLEAN
    <3>1. \A m \in DOMAIN AnswerOf : AnswerOf[m] \in Packets
      BY DEF AnswerOf, Packets, Acks
    <3> QED BY <1>0, <1>15, <3>1, Zenon DEF Serve, Submit
  <2>3. wire' \in Seq(Packets)
    <3>1. \A x \in Packets : Append(wire, x) \in Seq(Packets)
      BY <1>0, HoldsAppend
    <3> QED BY <1>0, <2>2, <3>1, Zenon
  <2>4. LinkOK(link')
    BY <1>0, <1>15, Zenon DEF Serve, LinkOK
  <2> QED BY <1>0, <1>15, <2>1, <2>2, <2>3, <2>4, Zenon DEF Serve, appVars, inVars, kaVars, ClientInv
<1>16. CASE Push \/ Lose
  <2>1. pushes' \in 0 .. MaxPushes
    BY <1>0, <1>a, <1>16 DEF Push, Lose
  <2>2. wire' \in Seq(Packets)
    <3>1. "publish" \in Packets /\ "disconnect" \in Packets /\ <<>> \in Seq(Packets)
      BY DEF Packets
    <3>2. Append(wire, "publish") \in Seq(Packets) /\ Append(wire, "disconnect") \in Seq(Packets)
      BY <1>0, <3>1, HoldsAppend
    <3> QED BY <1>0, <1>16, <3>1, <3>2, Zenon DEF Push, Lose
  <2>3. /\ LinkOK(link')
        /\ UNCHANGED <<appVars, written, out, inVars, outb, job, done, kaVars, requests, dropped, panic>>
    BY <1>0, <1>16, Zenon DEF Push, Lose, LinkOK
  <2> QED BY <1>0, <2>1, <2>2, <2>3, Zenon DEF appVars, inVars, kaVars, ClientInv
<1>17. CASE UNCHANGED vars
  BY <1>0, <1>17, Zenon DEF vars, ClientInv
<1> QED BY <1>1, <1>2, <1>3, <1>4, <1>5, <1>6, <1>7, <1>8, <1>9, <1>10, <1>11, <1>12, <1>13,
           <1>14, <1>15, <1>16, <1>17, <1>18, ZenonT(60)
        DEF Next, Application, Inbound, Outbound

(* A send adds nothing but its message to the channel.                     *)
LEMMA SendHolds ==
  ASSUME out \in Seq(Requests), NEW m \in Requests, SendOut(m), Holds(out, "disconnect")'
  PROVE  Holds(out, "disconnect") \/ m = "disconnect"
<1>1. out' = out \/ out' = Append(out, m)
  BY Zenon DEF SendOut
<1>2. Holds(Append(out, m), "disconnect") => Holds(out, "disconnect") \/ m = "disconnect"
  BY HoldsAppend
<1>3. Holds(out', "disconnect")
  BY Zenon DEF Holds
<1> QED BY <1>1, <1>2, <1>3, Zenon

LEMMA EndStep ==
  ASSUME ClientInv, EndInv, link # "lost", link' # "lost", [Next]_vars
  PROVE  EndInv'
<1>0. /\ app # "idle" => call \in Calls
      /\ out \in Seq(Requests) /\ requests \in Seq(Requests) /\ wire \in Seq(Packets)
      /\ outb = "encode" => job \in Requests
  BY Zenon DEF ClientInv, CallerOK, OutboundOK, ChannelOK
<1>i. /\ Holds(out, "disconnect") => call = "disconnect"
      /\ Holds(requests, "disconnect") => call = "disconnect"
      /\ job = "disconnect" => call = "disconnect"
      /\ link # "up" => call = "disconnect"
      /\ inb \in {"exit", "ended"} => call = "disconnect"
      /\ closed => call = "disconnect"
      /\ outb \in {"failed", "exit", "ended"} => call = "disconnect"
      /\ panic \in {"send", "nil"} => call = "disconnect"
      /\ call = "disconnect" => app \in {"send", "receipt", "done", "left"}
      /\ ~Holds(wire, "disconnect")
  BY Zenon DEF EndInv
<1>1. ASSUME NEW k \in Calls, Call(k) PROVE EndInv'
  <2>1. /\ app = "idle" /\ app' = "send" /\ call # "disconnect"
        /\ UNCHANGED <<out, requests, job, link, inb, closed, outb, panic, wire>>
    BY <1>i, <1>1, ZenonT(60) DEF Call, inVars, netVars
  <2> QED BY <1>i, <2>1, ZenonT(60) DEF EndInv, Holds
<1>2. CASE AppSend
  <2>1. /\ UNCHANGED <<call, requests, job, link, inb, closed, outb, wire>>
        /\ app = "send" /\ SendOut(call)
        /\ app' = AfterSend(call)
    BY <1>2, ZenonT(60) DEF AppSend, inVars, netVars
  <2>2. Holds(out, "disconnect")' => call = "disconnect"
    <3>1. call \in Requests
      BY <1>0, <2>1 DEF Requests
    <3> QED BY <1>0, <1>i, <2>1, <3>1, SendHolds
  <2>3. panic' \in {"send", "nil"} => call = "disconnect"
    BY <1>i, <2>1, Zenon DEF SendOut
  <2>4. call = "disconnect" => app' = "receipt"
    BY <2>1 DEF AfterSend, Syncs
  <2> QED BY <1>i, <2>1, <2>2, <2>3, <2>4, ZenonT(60) DEF EndInv, Holds
<1>17. CASE AppUnsupported
  <2>1. /\ UNCHANGED <<app, call, out, requests, job, link, inb, closed, outb, wire>>
        /\ panic' \notin {"send", "nil"}
    BY <1>17, ZenonT(60) DEF AppUnsupported, inVars, netVars
  <2> QED BY <1>i, <2>1, ZenonT(60) DEF EndInv, Holds
<1>3. CASE AppReceipt \/ AppDone
  <2>1. /\ UNCHANGED <<call, out, requests, job, link, inb, closed, outb, panic, wire>>
        /\ call = "disconnect" => app' \in {"done", "left"}
    BY <1>3, ZenonT(60) DEF AppReceipt, AppDone, inVars, netVars
  <2> QED BY <1>i, <2>1, ZenonT(60) DEF EndInv, Holds
<1>4. CASE AppAck
  <2>1. /\ UNCHANGED <<call, out, requests, job, link, closed, outb, wire>>
        /\ call # "disconnect" /\ app' = "idle"
    BY <1>i, <1>4, ZenonT(60) DEF AppAck, netVars
  <2>2. inb' = "read" /\ panic' = panic
    BY <1>i, <1>4, <2>1, Zenon DEF AppAck
  <2> QED BY <1>i, <2>1, <2>2, ZenonT(60) DEF EndInv, Holds
<1>5. CASE Consume \/ Tick
  <2>1. UNCHANGED <<app, call, out, requests, job, link, inb, closed, outb, panic, wire>>
    BY <1>5, ZenonT(60) DEF Consume, Tick, appVars, inVars, netVars
  <2> QED BY <1>i, <2>1, ZenonT(60) DEF EndInv, Holds
<1>6. CASE Read
  <2>1. UNCHANGED <<app, call, out, requests, job, link, closed, outb, panic>>
    BY <1>6, ZenonT(60) DEF Read, appVars
  <2>2. CASE wire # <<>> /\ inb' = Dispatch(Head(wire)) /\ wire' = Tail(wire)
    <3>1. Head(wire) # "disconnect" /\ ~Holds(wire', "disconnect")
      BY <1>0, <1>i, <2>2, HoldsTail
    <3>2. inb' \in {"read", "deliver"}
      BY <2>2, <3>1 DEF Dispatch
    <3> QED BY <1>i, <2>1, <3>1, <3>2, ZenonT(60) DEF EndInv, Holds
  <2>3. CASE (link = "closed" \/ link \in {"ended", "lost"}) /\ inb' = "exit" /\ wire' = wire
    <3>1. call = "disconnect"
      BY <1>i, <2>3
    <3> QED BY <1>i, <2>1, <2>3, <3>1, ZenonT(60) DEF EndInv, Holds
  <2> QED BY <1>6, <2>2, <2>3, Zenon DEF Read
<1>7. CASE Deliver
  <2>1. UNCHANGED <<app, call, out, requests, job, link, closed, outb, panic, wire>> /\ inb' = "read"
    BY <1>7, ZenonT(60) DEF Deliver, appVars, netVars
  <2> QED BY <1>i, <2>1, ZenonT(60) DEF EndInv, Holds
<1>8. CASE CloseChannels
  <2>1. UNCHANGED <<app, call, out, requests, job, link, outb, panic, wire>> /\ call = "disconnect"
    BY <1>i, <1>8, ZenonT(60) DEF CloseChannels, appVars, netVars
  <2> QED BY <1>i, <2>1, ZenonT(60) DEF EndInv, Holds
<1>9. CASE TakeJob
  <2>1. UNCHANGED <<app, call, requests, link, inb, closed, panic, wire>>
    BY <1>9, ZenonT(60) DEF TakeJob, appVars, inVars, netVars
  <2>2. CASE out # <<>> /\ job' = Head(out) /\ out' = Tail(out) /\ outb' = "encode"
    <3>1. job' = "disconnect" \/ Holds(out', "disconnect") => Holds(out, "disconnect")
      BY <1>0, <2>2, HoldsTail
    <3> QED BY <1>i, <2>1, <2>2, <3>1, ZenonT(60) DEF EndInv, Holds
  <2>3. CASE closed /\ UNCHANGED <<job, out>>
    <3>1. call = "disconnect"
      BY <1>i, <2>3
    <3> QED BY <1>i, <2>1, <2>3, <3>1, ZenonT(60) DEF EndInv, Holds
  <2> QED BY <1>9, <2>2, <2>3, Zenon DEF TakeJob
<1>10. CASE Encode
  <2>1. /\ UNCHANGED <<app, call, out, job, link, inb, closed, panic, wire>>
        /\ outb = "encode"
        /\ \/ link = "up" /\ requests' = Append(requests, job) /\ outb' = "sent"
           \/ link # "up" /\ requests' = requests
    BY <1>10, ZenonT(60) DEF Encode, appVars, inVars
  <2>2. Holds(requests', "disconnect") => Holds(requests, "disconnect") \/ job = "disconnect"
    <3>1. job \in Requests
      BY <1>0, <2>1
    <3>2. Holds(Append(requests, job), "disconnect") => Holds(requests, "disconnect") \/ job = "disconnect"
      BY <1>0, <3>1, HoldsAppend
    <3> QED BY <2>1, <3>2, Zenon
  <2>3. outb' = "sent" \/ call = "disconnect"
    BY <1>i, <2>1
  <2> QED BY <1>i, <2>1, <2>2, <2>3, ZenonT(60) DEF EndInv, Holds
<1>11. CASE Release
  <2>1. /\ UNCHANGED <<app, call, out, requests, link, inb, closed, panic, wire>>
        /\ job' = "none" /\ (outb' = "run" \/ outb = "failed" \/ job = "disconnect")
    BY <1>11, ZenonT(60) DEF Release, inVars, netVars
  <2>2. outb' = "run" \/ call = "disconnect"
    BY <1>i, <2>1
  <2> QED BY <1>i, <2>1, <2>2, ZenonT(60) DEF EndInv, Holds
<1>12. CASE CloseConn
  <2>1. UNCHANGED <<app, call, out, requests, job, inb, closed, panic, wire>> /\ call = "disconnect"
    BY <1>i, <1>12, ZenonT(60) DEF CloseConn, appVars, inVars
  <2> QED BY <1>i, <2>1, ZenonT(60) DEF EndInv, Holds
<1>13. CASE Ping
  <2>1. /\ UNCHANGED <<app, call, requests, job, link, inb, closed, outb, wire>>
        /\ SendOut("pingreq")
    BY <1>13, ZenonT(60) DEF Ping, appVars, inVars, netVars
  <2>2. Holds(out, "disconnect")' => Holds(out, "disconnect")
    <3>1. "pingreq" \in Requests /\ "pingreq" # "disconnect"
      BY DEF Requests
    <3> QED BY <1>0, <2>1, <3>1, SendHolds
  <2>3. panic' \in {"send", "nil"} => call = "disconnect"
    BY <1>i, <2>1, Zenon DEF SendOut
  <2> QED BY <1>i, <2>1, <2>2, <2>3, ZenonT(60) DEF EndInv, Holds
<1>14. CASE Serve
  <2>1. /\ UNCHANGED <<app, call, out, job, inb, closed, outb, panic>>
        /\ requests # <<>> /\ requests' = Tail(requests) /\ link = "up"
        /\ link' = IF Head(requests) = "disconnect" THEN "ended" ELSE link
    BY <1>14, ZenonT(60) DEF Serve, appVars, inVars
  <2>2. Head(requests) = "disconnect" \/ Holds(requests', "disconnect") => Holds(requests, "disconnect")
    BY <1>0, <2>1, HoldsTail
  <2>3. ~Holds(wire', "disconnect")
    <3>1. wire' = wire \/ \E x \in Packets \ {"disconnect"} : wire' = Append(wire, x)
      <4>1. \A m \in DOMAIN AnswerOf : AnswerOf[m] \in Packets \ {"disconnect"}
        BY DEF AnswerOf, Packets, Acks
      <4> QED BY <1>14, <4>1, Zenon DEF Serve, Submit
    <3>2. \A x \in Packets \ {"disconnect"} : ~Holds(Append(wire, x), "disconnect")
      BY <1>0, <1>i, HoldsAppend
    <3> QED BY <1>i, <3>1, <3>2, Zenon
  <2>4. link' # "up" => call = "disconnect"
    BY <1>i, <2>1, <2>2
  <2> QED BY <1>i, <2>1, <2>2, <2>3, <2>4, ZenonT(60) DEF EndInv, Holds
<1>15. CASE Push \/ Lose
  <2>1. /\ UNCHANGED <<app, call, out, requests, job, inb, closed, outb, panic, link>>
        /\ wire' = Append(wire, "publish")
    BY <1>15, ZenonT(60) DEF Push, Lose, appVars, inVars
  <2>2. "publish" \in Packets /\ "publish" # "disconnect"
    BY DEF Packets
  <2>3. ~Holds(wire', "disconnect")
    BY <1>0, <1>i, <2>1, <2>2, HoldsAppend
  <2> QED BY <1>i, <2>1, <2>3, ZenonT(60) DEF EndInv, Holds
<1>16. CASE UNCHANGED vars
  BY <1>i, <1>16, ZenonT(60) DEF vars, EndInv, Holds
<1> QED BY <1>1, <1>2, <1>3, <1>4, <1>5, <1>6, <1>7, <1>8, <1>9, <1>10, <1>11, <1>12, <1>13,
           <1>14, <1>15, <1>16, <1>17, ZenonT(60)
        DEF Next, Application, Inbound, Outbound

(* Every variable keeps its type, neither channel exceeds its capacity,    *)
(* and a loop has a packet or a job in hand exactly while it works on it.  *)
THEOREM ClientTyped == Spec => []TypeOK
BY ClientTypes, ClientInit, ClientStep, PTL DEF Spec

(* As long as the connection is not lost, no goroutine finds a channel     *)
(* closed before Disconnect is called: inboundLoop closes the channels     *)
(* only after a Disconnect, whatever QoS the application asks for and      *)
(* whatever answers the broker discards.                                   *)
THEOREM ClientSound == Spec => OpenUntilDisconnect
<1>1. EndInv => (panic \in {"send", "nil"} => call = "disconnect")
  BY Zenon DEF EndInv
<1>2. ClientInv /\ [Next]_vars => ClientInv'
  BY ClientStep
<1>3. ClientInv /\ EndInv /\ link # "lost" /\ (link # "lost")' /\ [Next]_vars => EndInv'
  BY EndStep
<1> QED BY <1>1, <1>2, <1>3, ClientInit, PTL DEF Spec, OpenUntilDisconnect

=============================================================================
