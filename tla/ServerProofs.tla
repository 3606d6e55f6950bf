---------------------------- MODULE ServerProofs ----------------------------
(***************************************************************************)
(* Proofs about the statistics of the process: what the two printed        *)
(* counters and the throughput may say, for any number of connections, any *)
(* configuration and any number of packets.                                *)
(***************************************************************************)
EXTENDS Server, FiniteSetTheorems, TLAPS

ConnStates == {"none", "accepted", "reading", "handling", "ended", "gone"}

(* The counters that the invariant relates, and what is loaded of them.    *)
CountTypes ==
  /\ n \in [Counters -> Int]
  /\ n["sent"] >= 0
  /\ total \in Int
  /\ last \in Int
  /\ reported \in Int
  /\ conn \in [Conns -> ConnStates]
  /\ shown \in [Readers -> Seq(Int)]

(* clients runs ahead of sessions by the connection that the accept loop   *)
(* is between the two for, if there is one.                                *)
ClientsInv ==
  /\ \A c, d \in Conns : conn[c] = "accepted" /\ conn[d] = "accepted" => c = d
  /\ n["clients"] <= n["sessions"] + 1
  /\ (\A c \in Conns : conn[c] # "accepted") => n["clients"] <= n["sessions"]

(* sessions only grows after clients was loaded.                           *)
ShownInv ==
  \A r \in Readers :
    /\ Len(shown[r]) \in {0, 1, 2}
    /\ Len(shown[r]) # 0 => shown[r][1] <= n["sessions"] + 1
    /\ Len(shown[r]) = 2 => shown[r][1] <= shown[r][2] + 1

(* What was reported is no more than the total of the last report; the     *)
(* next total is at least that once its second part, which only grows, is  *)
(* added.                                                                  *)
ReportInv ==
  /\ reported <= last
  /\ last <= n["recv"] + n["sent"]
  /\ rep = "sent" => last <= total + n["sent"] /\ total <= n["recv"]
  /\ rep = "divide" => last <= total /\ total <= n["recv"] + n["sent"]

ServerInv == CountTypes /\ ClientsInv /\ ShownInv /\ ReportInv

(* NewTicker lets only a positive interval through, and the configuration  *)
(* is loaded before stats.start.                                           *)
IntervalInv ==
  /\ file.interval \in Int
  /\ cf.interval \in Int
  /\ main \in {"load", "new"} => rep = "off"
  /\ rep \notin {"off", "launch", "ticker"} => cf.interval > 0

LEMMA IntervalSafe == Spec => []IntervalInv
<1>1. Init => IntervalInv
  BY ServerAssumption, SMTT(30) DEF Init, IntervalInv, NoConfig, Config
<1>2. IntervalInv /\ [Next]_vars => IntervalInv'
  <2> SUFFICES ASSUME IntervalInv, [Next]_vars PROVE IntervalInv'
    OBVIOUS
  <2>1. CASE LoadConfig
    <3>1. /\ main = "load" /\ rep' = rep /\ file' = file
          /\ cf' \in {cf, file, NoConfig}
      BY <2>1, Zenon DEF LoadConfig, MainReturns, repVars
    <3>2. NoConfig.interval = 0
      BY DEF NoConfig
    <3> QED BY <3>1, <3>2 DEF IntervalInv
  <2>2. CASE NewServer
    BY <2>2 DEF NewServer, IntervalInv
  <2>3. CASE StartListener \/ StartPeers
    <3>1. main' \notin {"load", "new"} /\ rep' = rep /\ file' = file /\ cf' = cf
      BY <2>3, Zenon DEF StartListener, StartPeers, MainReturns, repVars
    <3> QED BY <3>1, Zenon DEF IntervalInv
  <2>4. CASE NewTicker
    <3>1. /\ rep = "ticker" /\ file' = file /\ cf' = cf /\ main' = main
          /\ rep' = rep \/ ~(cf.interval <= 0)
      BY <2>4, Zenon DEF NewTicker, Goto, startVars
    <3> QED BY <3>1 DEF IntervalInv
  <2>5. CASE \/ LaunchHttp \/ Tick \/ LoadRecv \/ LoadSent \/ Throughput \/ AveragePause
             \/ \E r \in Readers : LoadNext(r) \/ Printed(r)
    <3>1. /\ file' = file /\ cf' = cf /\ main' = main
          /\ \/ rep' = rep
             \/ rep = "launch" /\ rep' = "ticker"
             \/ rep \in {"wait", "recv", "sent", "divide", "average", "print"}
                /\ rep' \in {"wait", "recv", "sent", "divide", "average", "print"}
      BY <2>5, ZenonT(60) DEF LaunchHttp, Tick, LoadRecv, LoadSent, Throughput, AveragePause, LoadNext,
         Printed, Printing, Goto, startVars, repVars
    <3> QED BY <3>1 DEF IntervalInv
  <2>6. CASE UNCHANGED vars \/ Query \/ Collect \/ \E c \in Conns : Client(c)
    <3>1. file' = file /\ cf' = cf /\ main' = main /\ rep' = rep
      BY <2>6, ZenonT(60) DEF vars, Query, Collect, Client, Accept, AcceptSession, Receive, Handled, Stop,
         Kick, ReadError, Disconnect, Send, startVars, repVars
    <3> QED BY <3>1, Zenon DEF IntervalInv
  <2>7. Readers = {"ticker", "http"}
    BY DEF Readers
  <2> QED BY <2>1, <2>2, <2>3, <2>4, <2>5, <2>6, <2>7, Zenon DEF Next, Start, Report
<1> QED BY <1>1, <1>2, PTL DEF Spec

(* What a report accounts for is no more than what it divides.             *)
LEMMA DivisionLeavesOver ==
  ASSUME NEW x \in Nat, NEW s \in Nat \ {0}
  PROVE  s * (x \div s) \in Int /\ s * (x \div s) <= x
<1>1. x \div s \in Int
  OBVIOUS
<1> QED BY <1>1, SMTT(30)

LEMMA ServerInitInv == Init => ServerInv
<1> SUFFICES ASSUME Init PROVE ServerInv
  OBVIOUS
<1>1. CountTypes
  BY DEF Init, CountTypes, ConnStates, Counters, Readers
<1>2. ClientsInv
  BY DEF Init, ClientsInv, Counters
<1>3. ShownInv
  BY DEF Init, ShownInv, Readers
<1>4. ReportInv
  BY DEF Init, ReportInv, Counters
<1> QED BY <1>1, <1>2, <1>3, <1>4 DEF ServerInv

(* A step that counts nothing, accepts nobody and reports nothing.         *)
LEMMA QuietServer ==
  ASSUME ServerInv, n' = n, total' = total, last' = last, reported' = reported,
         rep' = rep \/ rep' \notin {"sent", "divide"}, shown' = shown,
         conn' \in [Conns -> ConnStates],
         \A c \in Conns : conn'[c] = "accepted" <=> conn[c] = "accepted"
  PROVE  ServerInv'
<1>1. CountTypes'
  BY DEF ServerInv, CountTypes
<1>2. ClientsInv'
  BY Zenon DEF ServerInv, ClientsInv
<1>3. ShownInv'
  BY Zenon DEF ServerInv, ShownInv
<1>4. ReportInv'
  BY Zenon DEF ServerInv, ReportInv
<1> QED BY <1>1, <1>2, <1>3, <1>4 DEF ServerInv

(* The counters that only grow keep every bound that was loaded of them.   *)
LEMMA CountServer ==
  ASSUME ServerInv, NEW k \in Counters, NEW by \in Int, Count(k, by),
         k # "clients" => by = 1, k = "clients" => by \in {1, -1},
         total' = total, last' = last, reported' = reported, rep' = rep, shown' = shown,
         conn' \in [Conns -> ConnStates]
  PROVE  CountTypes' /\ ShownInv' /\ ReportInv'
<1>1. /\ n' \in [Counters -> Int]
      /\ \A i \in Counters : n'[i] = IF i = k THEN n[i] + by ELSE n[i]
      /\ \A i \in Counters : n[i] \in Int
  BY DEF ServerInv, CountTypes, Count
<1>2. {"recv", "sent", "sessions"} \subseteq Counters
  BY DEF Counters
<1>3. n'["sessions"] >= n["sessions"] /\ n'["recv"] >= n["recv"] /\ n'["sent"] >= n["sent"]
  BY <1>1, <1>2
<1>4. CountTypes'
  BY <1>1, <1>2, <1>3 DEF ServerInv, CountTypes
<1>5. ShownInv'
  <2> SUFFICES ASSUME NEW r \in Readers
               PROVE  /\ Len(shown[r]) \in {0, 1, 2}
                      /\ Len(shown[r]) # 0 => shown[r][1] <= n'["sessions"] + 1
                      /\ Len(shown[r]) = 2 => shown[r][1] <= shown[r][2] + 1
    BY Zenon DEF ShownInv
  <2>1. /\ Len(shown[r]) \in {0, 1, 2}
        /\ Len(shown[r]) # 0 => shown[r][1] <= n["sessions"] + 1
        /\ Len(shown[r]) = 2 => shown[r][1] <= shown[r][2] + 1
    BY Zenon DEF ServerInv, ShownInv
  <2>2. Len(shown[r]) # 0 => shown[r][1] \in Int
    BY <2>1 DEF ServerInv, CountTypes
  <2>3. n["sessions"] \in Int /\ n'["sessions"] \in Int
    BY <1>1, <1>2, Zenon
  <2> QED BY <1>3, <2>1, <2>2, <2>3
<1>6. ReportInv'
  <2>1. {n["recv"], n["sent"], n'["recv"], n'["sent"], total, last, reported} \subseteq Int
    BY <1>1, <1>2 DEF ServerInv, CountTypes
  <2> QED BY <1>3, <2>1 DEF ServerInv, ReportInv
<1> QED BY <1>4, <1>5, <1>6

(* The steps of the connections.                                           *)
LEMMA ClientServer ==
  ASSUME ServerInv, NEW c \in Conns, Client(c)
  PROVE  ServerInv'
<1>0. /\ n \in [Counters -> Int] /\ conn \in [Conns -> ConnStates]
      /\ {"recv", "sent", "clients", "sessions", "aborts"} \subseteq Counters
      /\ ClientsInv
  BY DEF ServerInv, CountTypes, Counters
<1>1. CASE Accept(c)
  <2>1. /\ Count("clients", 1) /\ conn' = [conn EXCEPT ![c] = "accepted"]
        /\ \A d \in Conns : conn[d] # "accepted"
        /\ total' = total /\ last' = last /\ reported' = reported /\ rep' = rep /\ shown' = shown
    BY <1>1, Zenon DEF Accept, Advance, repVars
  <2>2. CountTypes' /\ ShownInv' /\ ReportInv'
    <3>1. conn' \in [Conns -> ConnStates]
      BY <1>0, <2>1 DEF ConnStates
    <3> QED BY <1>0, <2>1, <3>1, CountServer
  <2>3. ClientsInv'
    BY <1>0, <2>1 DEF ClientsInv, Count
  <2> QED BY <2>2, <2>3 DEF ServerInv
<1>2. CASE AcceptSession(c)
  <2>1. /\ Count("sessions", 1) /\ conn' = [conn EXCEPT ![c] = "reading"]
        /\ conn[c] = "accepted"
        /\ total' = total /\ last' = last /\ reported' = reported /\ rep' = rep /\ shown' = shown
    BY <1>2, Zenon DEF AcceptSession, Advance, repVars
  <2>2. CountTypes' /\ ShownInv' /\ ReportInv'
    <3>1. conn' \in [Conns -> ConnStates]
      BY <1>0, <2>1 DEF ConnStates
    <3> QED BY <1>0, <2>1, <3>1, CountServer
  <2>3. ClientsInv'
    BY <1>0, <2>1 DEF ClientsInv, Count
  <2> QED BY <2>2, <2>3 DEF ServerInv
<1>3. CASE Receive(c) \/ Stop(c) \/ Kick(c) \/ ReadError(c) \/ Send(c)
  <2>1. /\ \E k \in {"recv", "sent", "aborts"} : Count(k, 1)
        /\ conn' = conn \/ (conn[c] = "reading"
                            /\ \E s \in {"handling", "ended"} : conn' = [conn EXCEPT ![c] = s])
        /\ total' = total /\ last' = last /\ reported' = reported /\ rep' = rep /\ shown' = shown
    BY <1>3, Zenon DEF Receive, Stop, Kick, ReadError, Send, Advance, repVars, connVars
  <2>2. conn' \in [Conns -> ConnStates] /\ \A d \in Conns : conn'[d] = "accepted" <=> conn[d] = "accepted"
    BY <1>0, <2>1 DEF ConnStates
  <2>3. n'["clients"] = n["clients"] /\ n'["sessions"] = n["sessions"]
    BY <1>0, <2>1 DEF Count
  <2>4. CountTypes' /\ ShownInv' /\ ReportInv'
    BY <1>0, <2>1, <2>2, CountServer
  <2>5. ClientsInv'
    BY <1>0, <2>2, <2>3, Zenon DEF ClientsInv
  <2> QED BY <2>4, <2>5 DEF ServerInv
<1>4. CASE Disconnect(c)
  <2>1. /\ Count("clients", -1) /\ conn' = [conn EXCEPT ![c] = "gone"]
        /\ conn[c] = "ended"
        /\ total' = total /\ last' = last /\ reported' = reported /\ rep' = rep /\ shown' = shown
    BY <1>4, Zenon DEF Disconnect, Advance, repVars
  <2>2. CountTypes' /\ ShownInv' /\ ReportInv'
    <3>1. conn' \in [Conns -> ConnStates]
      BY <1>0, <2>1 DEF ConnStates
    <3> QED BY <1>0, <2>1, <3>1, CountServer
  <2>3. ClientsInv'
    BY <1>0, <2>1 DEF ClientsInv, Count
  <2> QED BY <2>2, <2>3 DEF ServerInv
<1>5. CASE Handled(c)
  <2>1. /\ conn[c] = "handling"
        /\ \E s \in {"reading", "ended"} : conn' = [conn EXCEPT ![c] = s]
        /\ n' = n /\ total' = total /\ last' = last /\ reported' = reported /\ rep' = rep
        /\ shown' = shown
    BY <1>5, Zenon DEF Handled, Advance, repVars
  <2>2. conn' \in [Conns -> ConnStates] /\ \A d \in Conns : conn'[d] = "accepted" <=> conn[d] = "accepted"
    BY <1>0, <2>1 DEF ConnStates
  <2> QED BY <2>1, <2>2, QuietServer, Zenon
<1> QED BY <1>1, <1>2, <1>3, <1>4, <1>5, Zenon DEF Client

(* The steps of stats.start that load and report the packets.              *)
LEMMA PacketServer ==
  ASSUME ServerInv, IntervalInv, LoadRecv \/ LoadSent \/ Throughput
  PROVE  ServerInv'
<1>0. /\ CountTypes /\ ClientsInv /\ ShownInv /\ ReportInv
      /\ {n["recv"], n["sent"], total, last, reported} \subseteq Int
  BY DEF ServerInv, CountTypes, Counters
<1>1. n' = n /\ conn' = conn /\ shown' = shown
  BY Zenon DEF LoadRecv, LoadSent, Throughput, connVars
<1>2. ClientsInv' /\ ShownInv'
  BY <1>0, <1>1, Zenon DEF ClientsInv, ShownInv
<1>3. CASE LoadRecv
  <2>1. total' = n["recv"] /\ rep' = "sent" /\ last' = last /\ reported' = reported
    BY <1>3, Zenon DEF LoadRecv, Goto
  <2>2. CountTypes' /\ ReportInv'
    BY <1>0, <1>1, <2>1 DEF CountTypes, ReportInv
  <2> QED BY <1>2, <2>2 DEF ServerInv
<1>4. CASE LoadSent
  <2>1. /\ total' = total + n["sent"] /\ rep = "sent" /\ rep' = "divide"
        /\ last' = last /\ reported' = reported
    BY <1>4, Zenon DEF LoadSent, Goto
  <2>2. CountTypes' /\ ReportInv'
    BY <1>0, <1>1, <2>1 DEF CountTypes, ReportInv
  <2> QED BY <1>2, <2>2 DEF ServerInv
<1>5. CASE Throughput
  <2>1. /\ total' = total /\ rep = "divide"
        /\ \/ UNCHANGED <<rep, last, reported>>
           \/ /\ Seconds # 0
              /\ reported' = reported + Seconds * ((total - last) \div Seconds)
              /\ last' = total /\ rep' = "average"
    BY <1>5, Zenon DEF Throughput, KeepLast, Goto
  <2>2. Seconds \in Nat /\ total - last \in Nat
    BY <1>0, <2>1 DEF IntervalInv, Seconds, ReportInv
  <2>3. CASE UNCHANGED <<rep, last, reported>>
    BY <1>0, <1>1, <1>2, <2>1, <2>3 DEF CountTypes, ReportInv, ServerInv
  <2>4. CASE /\ Seconds # 0
             /\ reported' = reported + Seconds * ((total - last) \div Seconds)
             /\ last' = total /\ rep' = "average"
    <3> DEFINE shownNow == Seconds * ((total - last) \div Seconds)
    <3>1. shownNow \in Int /\ shownNow <= total - last
      BY <2>2, <2>4, DivisionLeavesOver
    <3>2. reported' = reported + shownNow
      BY <2>4
    <3> HIDE DEF shownNow
    <3>3. CountTypes' /\ ReportInv'
      BY <1>0, <1>1, <2>1, <2>4, <3>1, <3>2 DEF CountTypes, ReportInv
    <3> QED BY <1>2, <3>3 DEF ServerInv
  <2> QED BY <2>1, <2>3, <2>4
<1> QED BY <1>3, <1>4, <1>5

(* String() loads the next counter, or has printed them all.               *)
LEMMA PrintServer ==
  ASSUME ServerInv, NEW r \in Readers, LoadNext(r) \/ Printed(r)
  PROVE  ServerInv'
<1>0. /\ CountTypes /\ ClientsInv /\ ShownInv /\ ReportInv
      /\ n["clients"] \in Int /\ n["sessions"] \in Int
      /\ shown[r] \in Seq(Int)
  BY DEF ServerInv, CountTypes, Counters
<1>1. /\ n' = n /\ conn' = conn /\ total' = total /\ last' = last /\ reported' = reported
      /\ rep' = rep \/ rep' = "wait"
  BY Zenon DEF LoadNext, Printed, connVars, repVars, Goto
<1>2. ClientsInv'
  BY <1>0, <1>1, Zenon DEF ClientsInv
<1>3. ReportInv'
  BY <1>0, <1>1 DEF ReportInv
<1>4. CASE LoadNext(r)
  <2>1. /\ Len(shown[r]) < 2
        /\ shown' = [shown EXCEPT ![r] = Append(@, n[Loads[Len(@) + 1]])]
    BY <1>4 DEF LoadNext, Argument, Loads
  <2>2. Len(shown[r]) \in {0, 1} /\ Loads[1] = "clients" /\ Loads[2] = "sessions"
    BY <1>0, <2>1 DEF ShownInv, Loads
  <2> DEFINE x == n[Loads[Len(shown[r]) + 1]]
  <2>3. /\ Len(shown[r]) = 0 => x = n["clients"]
        /\ Len(shown[r]) = 1 => x = n["sessions"]
    <3>1. 0 + 1 = 1 /\ 1 + 1 = 2
      OBVIOUS
    <3> QED BY <2>2, <3>1, Zenon
  <2>4. x \in Int
    BY <1>0, <2>2, <2>3, Zenon
  <2> HIDE DEF x
  <2>5. /\ shown' \in [Readers -> Seq(Int)]
        /\ \A q \in Readers : q # r => shown'[q] = shown[q]
        /\ shown'[r] = Append(shown[r], x)
    BY <1>0, <2>1, <2>4 DEF CountTypes, x
  <2>6. /\ Len(shown'[r]) = Len(shown[r]) + 1
        /\ shown'[r][Len(shown[r]) + 1] = x
        /\ Len(shown[r]) = 1 => shown'[r][1] = shown[r][1]
    BY <1>0, <2>4, <2>5
  <2>7. CountTypes'
    BY <1>0, <1>1, <2>5 DEF CountTypes
  <2>8. n["clients"] <= n["sessions"] + 1
    BY <1>0 DEF ClientsInv
  <2>9. CASE Len(shown[r]) = 0
    <3>1. Len(shown'[r]) = 1 /\ shown'[r][1] = n["clients"]
      BY <2>2, <2>3, <2>6, <2>9
    <3>2. ShownInv'
      <4>1. Len(shown'[r]) \in {0, 1, 2} /\ Len(shown'[r]) # 2
        BY <3>1
      <4> QED BY <1>0, <1>1, <2>5, <2>8, <3>1, <4>1, Zenon DEF ShownInv
    <3> QED BY <1>2, <1>3, <2>7, <3>2 DEF ServerInv
  <2>10. CASE Len(shown[r]) = 1
    <3>1. Len(shown'[r]) = 2 /\ shown'[r][2] = n["sessions"] /\ shown'[r][1] = shown[r][1]
      BY <2>2, <2>3, <2>6, <2>10
    <3>2. ShownInv'
      BY <1>0, <1>1, <2>5, <2>10, <3>1, ZenonT(60) DEF ShownInv
    <3> QED BY <1>2, <1>3, <2>7, <3>2 DEF ServerInv
  <2> QED BY <2>2, <2>9, <2>10
<1>5. CASE Printed(r)
  <2>1. shown' = [shown EXCEPT ![r] = <<>>]
    BY <1>5, Zenon DEF Printed
  <2>2. /\ shown' \in [Readers -> Seq(Int)]
        /\ \A q \in Readers : q # r => shown'[q] = shown[q]
        /\ Len(shown'[r]) = 0
    BY <1>0, <2>1 DEF CountTypes
  <2>3. CountTypes' /\ ShownInv'
    BY <1>0, <1>1, <2>2, SMTT(30) DEF CountTypes, ShownInv
  <2> QED BY <1>2, <1>3, <2>3 DEF ServerInv
<1> QED BY <1>4, <1>5

LEMMA ServerStep == ServerInv /\ IntervalInv /\ [Next]_vars => ServerInv'
<1> SUFFICES ASSUME ServerInv, IntervalInv, [Next]_vars PROVE ServerInv'
  OBVIOUS
<1>0. conn \in [Conns -> ConnStates] /\ Readers = {"ticker", "http"}
  BY DEF ServerInv, CountTypes, Readers
<1>1. CASE \/ UNCHANGED vars \/ Start \/ Query \/ Collect
           \/ LaunchHttp \/ NewTicker \/ Tick \/ AveragePause
  <2>1. /\ n' = n /\ total' = total /\ last' = last /\ reported' = reported
        /\ rep' = rep \/ rep' \in {"launch", "ticker", "wait", "recv", "print"}
        /\ shown' = shown /\ conn' = conn
    BY <1>1, ZenonT(60) DEF vars, Start, LoadConfig, NewServer, StartListener, StartPeers, Query, Collect,
       LaunchHttp, NewTicker, Tick, AveragePause, Goto, connVars, repVars
  <2> QED BY <1>0, <2>1, QuietServer
<1>2. CASE \E c \in Conns : Client(c)
  BY <1>2, ClientServer
<1>3. CASE LoadRecv \/ LoadSent \/ Throughput
  BY <1>3, PacketServer
<1>4. CASE \E r \in Readers : LoadNext(r) \/ Printed(r)
  BY <1>4, PrintServer
<1> QED BY <1>0, <1>1, <1>2, <1>3, <1>4, Zenon DEF Next, Report

(* A printed line never shows more clients than sessions but for the one   *)
(* connection being accepted, however clients come and go between the      *)
(* loads of String(), for any number of connections.                       *)
THEOREM SnapshotSafe == Spec => []SnapshotSane
<1>1. ServerInv => SnapshotSane
  BY DEF ServerInv, ShownInv, SnapshotSane
<1> QED BY <1>1, ServerInitInv, ServerStep, IntervalSafe, PTL DEF Spec

(* No packet is reported twice and no throughput is negative, for any      *)
(* interval and any number of connections and packets.                     *)
THEOREM PacketsReportedOnce == Spec => []ReportedOnce
<1>1. ServerInv => ReportedOnce
  <2> SUFFICES ASSUME ServerInv PROVE ReportedOnce
    OBVIOUS
  <2>1. {n["recv"], n["sent"], total, last, reported} \subseteq Int
    BY DEF ServerInv, CountTypes, Counters
  <2> QED BY <2>1 DEF ServerInv, ReportInv, ReportedOnce
<1> QED BY <1>1, ServerInitInv, ServerStep, IntervalSafe, PTL DEF Spec

----------------------------------------------------------------------------
(* How often a session is counted as aborted.                              *)

(* The connections that count as sessions, the ones whose inboundLoop is   *)
(* over, and the ones that stop() or the heartbeat has marked.             *)
Served == {c \in Conns : conn[c] \notin {"none", "accepted"}}
Over == {c \in Conns : conn[c] \in {"ended", "gone"}}
Marked(mark) == {c \in Conns : mark \in marks[c]}

(* Each of the three causes counts at most once for a connection: a second *)
(* stop() panics, a heartbeat that has kicked its client is not started    *)
(* again, and inboundLoop reads no more after an error.                    *)
AbortInv ==
  /\ marks \in [Conns -> SUBSET {"beating", "kicked", "stopped"}]
  /\ IsFiniteSet(Served) /\ n["sessions"] = Cardinality(Served)
  /\ \A c \in Conns : marks[c] # {} => c \in Served
  /\ \A c \in Conns : "beating" \in marks[c] => "kicked" \notin marks[c]
  /\ Running => n["aborts"] <= Cardinality(Marked("stopped")) + Cardinality(Marked("kicked"))
                                 + Cardinality(Over)

(* Every cause concerns connections that count as sessions.                *)
LEMMA CausesFinite ==
  ASSUME AbortInv
  PROVE  /\ \A m \in {"stopped", "kicked"} : /\ IsFiniteSet(Marked(m)) /\ Cardinality(Marked(m)) \in Nat
                                             /\ Cardinality(Marked(m)) <= Cardinality(Served)
         /\ IsFiniteSet(Over) /\ Cardinality(Over) \in Nat /\ Cardinality(Over) <= Cardinality(Served)
         /\ Cardinality(Served) \in Nat
<1>1. IsFiniteSet(Served)
  BY DEF AbortInv
<1>2. Over \in SUBSET Served
  BY DEF Over, Served
<1>3. ASSUME NEW m \in {"stopped", "kicked"} PROVE Marked(m) \in SUBSET Served
  BY Zenon DEF AbortInv, Marked
<1>4. IsFiniteSet(Over) /\ Cardinality(Over) <= Cardinality(Served)
  BY <1>1, <1>2, FS_Subset, Zenon
<1>5. \A m \in {"stopped", "kicked"} : IsFiniteSet(Marked(m)) /\ Cardinality(Marked(m)) <= Cardinality(Served)
  BY <1>1, <1>3, FS_Subset, Zenon
<1> QED BY <1>1, <1>4, <1>5, FS_CardinalityType, Zenon

LEMMA AbortInit == Init => AbortInv
<1> SUFFICES ASSUME Init PROVE AbortInv
  OBVIOUS
<1>1. Served = {} /\ Over = {} /\ Marked("stopped") = {} /\ Marked("kicked") = {}
  BY DEF Init, Served, Over, Marked
<1>2. n["sessions"] = 0 /\ n["aborts"] = 0
  BY DEF Init, Counters
<1>3. 0 <= 0 + 0 + 0
  OBVIOUS
<1>4. IsFiniteSet({}) /\ Cardinality({}) = 0
  BY FS_EmptySet
<1>5. /\ marks \in [Conns -> SUBSET {"beating", "kicked", "stopped"}]
      /\ \A c \in Conns : marks[c] = {}
  BY DEF Init
<1> QED BY <1>1, <1>2, <1>3, <1>4, <1>5, Zenon DEF AbortInv

(* Steps that start, end and mark no session.                              *)
LEMMA QuietAborts ==
  ASSUME AbortInv, Running' => Running, marks' = marks, Served' = Served, Over' = Over,
         n'["sessions"] = n["sessions"], n'["aborts"] = n["aborts"]
  PROVE  AbortInv'
<1>1. \A m : Marked(m)' = Marked(m)
  BY Zenon DEF Marked
<1> QED BY <1>1, Zenon DEF AbortInv

(* A session is counted after its connection was accepted.                 *)
LEMMA SessionAborts ==
  ASSUME ServerInv, AbortInv, NEW c \in Conns, AcceptSession(c)
  PROVE  AbortInv'
<1>0. n \in [Counters -> Int] /\ conn \in [Conns -> ConnStates] /\ {"sessions", "aborts"} \subseteq Counters
  BY DEF ServerInv, CountTypes, Counters
<1>1. /\ Running /\ marks' = marks /\ conn[c] = "accepted"
      /\ conn' = [conn EXCEPT ![c] = "reading"]
      /\ n' = [n EXCEPT !["sessions"] = n["sessions"] + 1]
  BY Zenon DEF AcceptSession, Advance, Count
<1>2. n'["sessions"] = n["sessions"] + 1 /\ n'["aborts"] = n["aborts"]
  BY <1>0, <1>1
<1>3. c \notin Served /\ Served' = Served \cup {c} /\ Over' = Over
  BY <1>0, <1>1 DEF Served, Over
<1>4. IsFiniteSet(Served) /\ n["sessions"] = Cardinality(Served)
  BY DEF AbortInv
<1>5. IsFiniteSet(Served') /\ n'["sessions"] = Cardinality(Served')
  <2>1. IsFiniteSet(Served \cup {c}) /\ Cardinality(Served \cup {c}) = Cardinality(Served) + 1
    BY <1>3, <1>4, FS_AddElement
  <2> QED BY <1>2, <1>3, <1>4, <2>1, Zenon
<1>6. \A m : Marked(m)' = Marked(m)
  BY <1>1, Zenon DEF Marked
<1> QED BY <1>1, <1>2, <1>3, <1>5, <1>6, Zenon DEF AbortInv

LEMMA SumsGrow ==
  ASSUME NEW a \in Int, NEW x \in Nat, NEW y \in Nat, NEW z \in Nat, a <= x + y + z
  PROVE  /\ a <= x + y + (z + 1)
         /\ a + 1 <= (x + 1) + y + z /\ a + 1 <= x + (y + 1) + z /\ a + 1 <= x + y + (z + 1)
OBVIOUS

(* The steps that start no session: the three sets of causes grow by at    *)
(* most the connection that steps, and the count by one if one of them     *)
(* does.                                                                   *)
LEMMA CauseAborts ==
  ASSUME AbortInv, NEW c \in Conns, Running,
         n["aborts"] \in Int,
         Served' = Served, n'["sessions"] = n["sessions"],
         marks' \in [Conns -> SUBSET {"beating", "kicked", "stopped"}],
         c \in Served, \A d \in Conns \ {c} : marks'[d] = marks[d],
         "beating" \in marks'[c] => "kicked" \notin marks'[c],
         NEW s \in SUBSET Conns, s = Marked("stopped")',
         NEW k \in SUBSET Conns, k = Marked("kicked")',
         NEW o \in SUBSET Conns, o = Over',
         \/ /\ n'["aborts"] = n["aborts"]
            /\ s = Marked("stopped") /\ k = Marked("kicked")
            /\ o = Over \/ o = Over \cup {c}
         \/ /\ n'["aborts"] = n["aborts"] + 1
            /\ \/ s = Marked("stopped") \cup {c} /\ c \notin Marked("stopped")
                  /\ k = Marked("kicked") /\ o = Over
               \/ s = Marked("stopped") /\ o = Over
                  /\ k = Marked("kicked") \cup {c} /\ c \notin Marked("kicked")
               \/ s = Marked("stopped") /\ k = Marked("kicked")
                  /\ o = Over \cup {c} /\ c \notin Over
         \/ ~Running'
  PROVE  AbortInv'
<1>1. /\ IsFiniteSet(Marked("stopped")) /\ Cardinality(Marked("stopped")) \in Nat
      /\ IsFiniteSet(Marked("kicked")) /\ Cardinality(Marked("kicked")) \in Nat
      /\ IsFiniteSet(Over) /\ Cardinality(Over) \in Nat
  BY CausesFinite, Zenon
<1>2. /\ Cardinality(Marked("stopped") \cup {c})
           = IF c \in Marked("stopped") THEN Cardinality(Marked("stopped")) ELSE Cardinality(Marked("stopped")) + 1
      /\ Cardinality(Marked("kicked") \cup {c})
           = IF c \in Marked("kicked") THEN Cardinality(Marked("kicked")) ELSE Cardinality(Marked("kicked")) + 1
      /\ Cardinality(Over \cup {c}) = IF c \in Over THEN Cardinality(Over) ELSE Cardinality(Over) + 1
  BY <1>1, FS_AddElement, Zenon
<1>3. n["aborts"] <= Cardinality(Marked("stopped")) + Cardinality(Marked("kicked")) + Cardinality(Over)
  BY Zenon DEF AbortInv
<1>4. Running' => n'["aborts"] <= Cardinality(s) + Cardinality(k) + Cardinality(o)
  <2> DEFINE x == Cardinality(Marked("stopped"))
             y == Cardinality(Marked("kicked"))
             z == Cardinality(Over)
             a == n["aborts"]
             b == n'["aborts"]
  <2>2. Running' => \/ b = a /\ Cardinality(s) = x /\ Cardinality(k) = y /\ Cardinality(o) \in {z, z + 1}
                    \/ b = a + 1 /\ Cardinality(s) = x + 1 /\ Cardinality(k) = y /\ Cardinality(o) = z
                    \/ b = a + 1 /\ Cardinality(s) = x /\ Cardinality(k) = y + 1 /\ Cardinality(o) = z
                    \/ b = a + 1 /\ Cardinality(s) = x /\ Cardinality(k) = y /\ Cardinality(o) = z + 1
    BY <1>2, ZenonT(60)
  <2>3. a \in Int /\ x \in Nat /\ y \in Nat /\ z \in Nat /\ a <= x + y + z
    BY <1>1, <1>3, Zenon
  <2>4. /\ a <= x + y + (z + 1)
        /\ a + 1 <= (x + 1) + y + z /\ a + 1 <= x + (y + 1) + z /\ a + 1 <= x + y + (z + 1)
    BY <2>3, SumsGrow, Zenon
  <2> QED BY <2>2, <2>3, <2>4, ZenonT(60)
<1>5. \A d \in Conns : /\ marks'[d] # {} => d \in Served'
                       /\ "beating" \in marks'[d] => "kicked" \notin marks'[d]
  BY Zenon DEF AbortInv
<1>6. IsFiniteSet(Served') /\ n'["sessions"] = Cardinality(Served')
  BY Zenon DEF AbortInv
<1> QED BY <1>4, <1>5, <1>6, Zenon DEF AbortInv

LEMMA ClientAborts ==
  ASSUME ServerInv, AbortInv, NEW c \in Conns, Client(c)
  PROVE  AbortInv'
<1> DEFINE Marks == SUBSET {"beating", "kicked", "stopped"}
<1>0. /\ n \in [Counters -> Int] /\ conn \in [Conns -> ConnStates]
      /\ Counters = {"recv", "sent", "clients", "sessions", "aborts"}
      /\ marks \in [Conns -> Marks]
      /\ n["aborts"] \in Int
  BY DEF ServerInv, CountTypes, Counters, AbortInv
<1>1. CASE Accept(c) \/ Receive(c) \/ Disconnect(c) \/ Send(c)
  <2>1. /\ Running /\ marks' = marks
        /\ \E k \in {"clients", "recv", "sent"}, by \in {1, -1} : n' = [n EXCEPT ![k] = n[k] + by]
        /\ \/ conn' = conn
           \/ conn[c] = "none" /\ conn' = [conn EXCEPT ![c] = "accepted"]
           \/ conn[c] = "reading" /\ conn' = [conn EXCEPT ![c] = "handling"]
           \/ conn[c] = "ended" /\ conn' = [conn EXCEPT ![c] = "gone"]
    BY <1>1, Zenon DEF Accept, Receive, Disconnect, Send, Count, Advance, connVars
  <2>2. n'["sessions"] = n["sessions"] /\ n'["aborts"] = n["aborts"]
    BY <1>0, <2>1
  <2>3. Served' = Served /\ Over' = Over
    BY <1>0, <2>1 DEF Served, Over
  <2> QED BY <2>1, <2>2, <2>3, QuietAborts
<1>2. CASE AcceptSession(c)
  BY <1>2, SessionAborts
<1>3. CASE Handled(c)
  <2>1. /\ Running /\ n' = n /\ conn[c] = "handling"
        /\ \E s \in {"reading", "ended"} : conn' = [conn EXCEPT ![c] = s]
        /\ \/ marks' = marks
           \/ "kicked" \notin marks[c] /\ marks' = [marks EXCEPT ![c] = marks[c] \cup {"beating"}]
    BY <1>3, Zenon DEF Handled, Advance
  <2>2. Served' = Served /\ c \in Served /\ (Over' = Over \/ Over' = Over \cup {c})
    BY <1>0, <2>1 DEF Served, Over
  <2>3. /\ marks' \in [Conns -> Marks]
        /\ \A d \in Conns \ {c} : marks'[d] = marks[d]
        /\ marks'[c] = marks[c] \/ ("kicked" \notin marks[c] /\ marks'[c] = marks[c] \cup {"beating"})
    BY <1>0, <2>1
  <2>4. "beating" \in marks'[c] => "kicked" \notin marks'[c]
    BY <2>3 DEF AbortInv
  <2>5. Marked("stopped")' = Marked("stopped") /\ Marked("kicked")' = Marked("kicked")
    BY <2>3 DEF Marked
  <2>6. Over' \in SUBSET Conns /\ Marked("stopped") \in SUBSET Conns /\ Marked("kicked") \in SUBSET Conns
    BY DEF Over, Marked
  <2> QED BY <1>0, <2>1, <2>2, <2>3, <2>4, <2>5, <2>6, CauseAborts, Zenon
<1>4. CASE Stop(c)
  <2>1. /\ Running /\ n' = [n EXCEPT !["aborts"] = n["aborts"] + 1] /\ conn[c] = "handling" /\ conn' = conn
        /\ marks' = [marks EXCEPT ![c] = marks[c] \cup {"stopped"}]
        /\ "stopped" \in marks[c] => proc' = "close of closed channel"
    BY <1>4, Zenon DEF Stop, Count, Panic
  <2>2. Served' = Served /\ c \in Served /\ Over' = Over
    BY <1>0, <2>1, Zenon DEF Served, Over
  <2>3. /\ marks' \in [Conns -> Marks]
        /\ \A d \in Conns \ {c} : marks'[d] = marks[d]
        /\ marks'[c] = marks[c] \cup {"stopped"}
        /\ n'["aborts"] = n["aborts"] + 1 /\ n'["sessions"] = n["sessions"]
    BY <1>0, <2>1, Zenon
  <2>4. "beating" \in marks'[c] => "kicked" \notin marks'[c]
    BY <2>3 DEF AbortInv
  <2>5. Marked("stopped")' = Marked("stopped") \cup {c} /\ Marked("kicked")' = Marked("kicked")
    BY <2>3 DEF Marked
  <2>6. /\ Over' \in SUBSET Conns /\ Marked("stopped")' \in SUBSET Conns /\ Marked("kicked")' \in SUBSET Conns
        /\ c \in Marked("stopped") => ~Running'
    BY <2>1, Zenon DEF Over, Marked, Running
  <2> QED BY <1>0, <2>1, <2>2, <2>3, <2>4, <2>5, <2>6, CauseAborts, ZenonT(60)
<1>5. CASE Kick(c)
  <2>1. /\ Running /\ n' = [n EXCEPT !["aborts"] = n["aborts"] + 1] /\ conn' = conn
        /\ "beating" \in marks[c]
        /\ marks' = [marks EXCEPT ![c] = (marks[c] \ {"beating"}) \cup {"kicked"}]
    BY <1>5, Zenon DEF Kick, Count
  <2>2. Served' = Served /\ c \in Served /\ Over' = Over
    <3>1. c \in Served
      BY <2>1 DEF AbortInv
    <3> QED BY <2>1, <3>1, Zenon DEF Served, Over
  <2>3. /\ marks' \in [Conns -> Marks]
        /\ \A d \in Conns \ {c} : marks'[d] = marks[d]
        /\ marks'[c] = (marks[c] \ {"beating"}) \cup {"kicked"}
        /\ n'["aborts"] = n["aborts"] + 1 /\ n'["sessions"] = n["sessions"]
    BY <1>0, <2>1
  <2>4. "beating" \notin marks'[c]
    BY <2>3
  <2>5. Marked("stopped")' = Marked("stopped") /\ Marked("kicked")' = Marked("kicked") \cup {c}
    BY <2>3 DEF Marked
  <2>6. /\ Over' \in SUBSET Conns /\ Marked("stopped")' \in SUBSET Conns /\ Marked("kicked")' \in SUBSET Conns
        /\ c \notin Marked("kicked")
    BY <2>1 DEF Over, Marked, AbortInv
  <2> QED BY <1>0, <2>1, <2>2, <2>3, <2>4, <2>5, <2>6, CauseAborts, Zenon
<1>6. CASE ReadError(c)
  <2>1. /\ Running /\ n' = [n EXCEPT !["aborts"] = n["aborts"] + 1] /\ marks' = marks
        /\ conn[c] = "reading" /\ conn' = [conn EXCEPT ![c] = "ended"]
    BY <1>6, Zenon DEF ReadError, Count, Advance
  <2>2. Served' = Served /\ c \in Served /\ Over' = Over \cup {c} /\ c \notin Over
    BY <1>0, <2>1 DEF Served, Over
  <2>3. /\ marks' \in [Conns -> Marks]
        /\ \A d \in Conns \ {c} : marks'[d] = marks[d]
        /\ n'["aborts"] = n["aborts"] + 1 /\ n'["sessions"] = n["sessions"]
    BY <1>0, <2>1
  <2>4. "beating" \in marks'[c] => "kicked" \notin marks'[c]
    BY <2>1, Zenon DEF AbortInv
  <2>5. Marked("stopped")' = Marked("stopped") /\ Marked("kicked")' = Marked("kicked")
    BY <2>1, Zenon DEF Marked
  <2>6. Over' \in SUBSET Conns /\ Marked("stopped")' \in SUBSET Conns /\ Marked("kicked")' \in SUBSET Conns
    BY DEF Over, Marked
  <2> QED BY <1>0, <2>1, <2>2, <2>3, <2>4, <2>5, <2>6, CauseAborts, Zenon
<1> QED BY <1>1, <1>2, <1>3, <1>4, <1>5, <1>6, Zenon DEF Client

(* A session is counted as aborted at most three times as long as the      *)
(* process runs, for any number of connections: at most once by stop(), by *)
(* the heartbeat and by inboundLoop each.                                  *)
THEOREM AbortsSafe == Spec => []AbortsBounded
<1>1. ServerInv /\ AbortInv /\ [Next]_vars => AbortInv'
  <2> SUFFICES ASSUME ServerInv, AbortInv, [Next]_vars PROVE AbortInv'
    OBVIOUS
  <2>1. CASE \E c \in Conns : Client(c)
    BY <2>1, ClientAborts
  <2>2. CASE \/ UNCHANGED vars \/ Start \/ Report \/ Collect
             \/ Query \/ LoadNext("http") \/ Printed("http")
    <3>1. Running' => Running
      BY <2>2, ZenonT(60) DEF Running, vars, Start, Report, LoadConfig, NewServer, StartListener, StartPeers, Query,
         Collect, LaunchHttp, NewTicker, Tick, LoadRecv, LoadSent, Throughput, AveragePause, LoadNext, Printed
    <3>2. n' = n /\ conn' = conn /\ marks' = marks
      BY <2>2, ZenonT(60) DEF vars, Start, Report, LoadConfig, NewServer, StartListener, StartPeers, Query,
         Collect, LaunchHttp, NewTicker, Tick, LoadRecv, LoadSent, Throughput, AveragePause, LoadNext, Printed,
         connVars
    <3>3. Served' = Served /\ Over' = Over
      BY <3>2, Zenon DEF Served, Over
    <3> QED BY <3>1, <3>2, <3>3, QuietAborts
  <2> QED BY <2>1, <2>2, Zenon DEF Next
<1>2. ServerInv /\ AbortInv => AbortsBounded
  <2> SUFFICES ASSUME ServerInv, AbortInv, Running PROVE n["aborts"] <= 3 * n["sessions"]
    BY DEF AbortsBounded
  <2>1. n["aborts"] \in Int
    BY DEF ServerInv, CountTypes, Counters
  <2>2. /\ n["sessions"] = Cardinality(Served)
        /\ n["aborts"] <= Cardinality(Marked("stopped")) + Cardinality(Marked("kicked")) + Cardinality(Over)
    BY Zenon DEF AbortInv
  <2> DEFINE x == Cardinality(Marked("stopped"))
             y == Cardinality(Marked("kicked"))
             z == Cardinality(Over)
             s == Cardinality(Served)
  <2>3. /\ x \in Nat /\ x <= s /\ y \in Nat /\ y <= s /\ z \in Nat /\ z <= s /\ s \in Nat
    BY CausesFinite, Zenon
  <2> HIDE DEF x, y, z, s
  <2>4. x + y + z <= 3 * s
    BY <2>3
  <2>5. n["aborts"] <= x + y + z /\ n["sessions"] = s
    BY <2>2, Zenon DEF x, y, z, s
  <2> QED BY <2>1, <2>3, <2>4, <2>5
<1> QED BY <1>1, <1>2, ServerInitInv, ServerStep, IntervalSafe, AbortInit, PTL DEF Spec

=============================================================================
