------------------------------- MODULE Server -------------------------------
(***************************************************************************)
(* The process of one broker: main, the configuration, NewServer and Start *)
(* (daemon, config, broker/server.go), the accept loop for clients, and    *)
(* the statistics that all goroutines count and that a ticker and a HTTP   *)
(* server report (broker/stats.go).  Of the connections only what is       *)
(* counted is modelled; their life cycle is the subject of Session.  The   *)
(* counters of peers are left out: no property relates them to another     *)
(* one, and Peers models what they count.                                  *)
(***************************************************************************)
EXTENDS Integers, Sequences

CONSTANTS
  Conns,          \* the connections of clients, each accepted once
  Configs,        \* the configuration files
  ListenMayFail,  \* whether the operating system may refuse a listener
  MaxMsgs         \* bound on stats.recv and on stats.sent

(* A file has a broker section or not; in the section are the plain and    *)
(* the TLS address, stats_http_listen_addr and stats_interval, the last in *)
(* half seconds.                                                           *)
Config == [section : BOOLEAN, plain : BOOLEAN, tls : BOOLEAN, http : BOOLEAN, interval : Int]

ASSUME ServerAssumption ==
  /\ Configs \subseteq Config
  /\ ListenMayFail \in BOOLEAN
  /\ MaxMsgs \in Nat

VARIABLES
  file,      \* the configuration file
  cf,        \* config.Config.Broker
  proc,      \* the process: "running", "exited", or the panic that ended it
  main,      \* where the main goroutine is
  listener,  \* what the client listener accepts: "none", "tcp" or "tls"
  conn,      \* client connection -> how far its counted steps are
  marks,     \* client connection -> "beating", "kicked", "stopped"
  n,         \* the counters of stats
  gc,        \* whether the garbage collector has run
  rep,       \* where stats.start is
  mem,       \* whether NumGC was positive in ReadMemStats
  total,     \* totalPackets
  last,      \* lastPackets
  reported,  \* the packets that the throughputs so far account for
  asked,     \* whether a HTTP query for "stat" is being answered
  shown      \* what String() has loaded so far, for the ticker and for HTTP

startVars == <<file, cf, main, listener>>
connVars == <<conn, marks>>
repVars == <<rep, mem, total, last, reported>>
vars == <<file, cf, proc, main, listener, conn, marks, n, gc, rep, mem, total, last,
           reported, asked, shown>>

Counters == {"recv", "sent", "clients", "sessions", "aborts"}

(* The loads of String() in their order.  The other counters are loaded    *)
(* before and after these two, and nothing relates their values.           *)
Loads == <<"clients", "sessions">>

Readers == {"ticker", "http"}

(* The zero value of BrokerConfig.                                         *)
NoConfig == [section |-> FALSE, plain |-> FALSE, tls |-> FALSE, http |-> FALSE, interval |-> 0]

Init ==
  /\ file \in Configs
  /\ cf = NoConfig
  /\ proc = "running"
  /\ main = "load"
  /\ listener = "none"
  /\ conn = [c \in Conns |-> "none"]
  /\ marks = [c \in Conns |-> {}]
  /\ n = [k \in Counters |-> 0]
  /\ gc = FALSE
  /\ rep = "off"
  /\ mem = FALSE
  /\ total = 0
  /\ last = 0
  /\ reported = 0
  /\ asked = FALSE
  /\ shown = [r \in Readers |-> <<>>]

Running == proc = "running"

(* A panic of any goroutine but main ends the process.                     *)
Panic(why) == proc' = why

(* main recovers from its own panic and returns.                           *)
MainReturns == proc' = "exited" /\ main' = "returned"

----------------------------------------------------------------------------
(* The main goroutine                                                      *)

(* LoadConfig: without a section the zero value stays; a section without   *)
(* any address panics.                                                     *)
LoadConfig ==
  /\ Running
  /\ main = "load"
  /\ \/ file.section /\ ~file.plain /\ ~file.tls /\ MainReturns /\ UNCHANGED cf
     \/ /\ file.section => file.plain \/ file.tls
        /\ cf' = IF file.section THEN file ELSE NoConfig
        /\ main' = "new"
        /\ UNCHANGED proc
  /\ UNCHANGED <<file, listener, connVars, n, gc, repVars, asked, shown>>

(* NewServer starts the subscription workers and stats.start.              *)
NewServer ==
  /\ Running
  /\ main = "new"
  /\ main' = "listen"
  /\ rep' = "launch"
  /\ UNCHANGED <<file, cf, proc, listener, connVars, n, gc, mem, total, last, reported,
                 asked, shown>>

(* startListener prefers the plain address; a TLS listener needs the       *)
(* certificate, whose name is empty without a TLS address.                 *)
StartListener ==
  /\ Running
  /\ main = "listen"
  /\ \/ /\ cf.plain \/ cf.tls
        /\ listener' = IF cf.plain THEN "tcp" ELSE "tls"
        /\ main' = "peers"
        /\ UNCHANGED proc
     \/ /\ ListenMayFail \/ ~(cf.plain \/ cf.tls)
        /\ MainReturns
        /\ UNCHANGED listener
  /\ UNCHANGED <<file, cf, connVars, n, gc, repVars, asked, shown>>

(* Mutant: Start returns without a panic, and main waits for Done.         *)
QuietPeersError ==
  /\ Running
  /\ main = "peers"
  /\ main' \in {"serving", "waiting"}
  /\ UNCHANGED <<file, cf, proc, listener, connVars, n, gc, repVars, asked, shown>>

(* peers.start.  Then the accept loop of clients starts and main waits for *)
(* Done, which nobody closes.                                              *)
StartPeers ==
  /\ Running
  /\ main = "peers"
  /\ \/ main' = "serving" /\ UNCHANGED proc
     \/ ListenMayFail /\ MainReturns
  /\ UNCHANGED <<file, cf, listener, connVars, n, gc, repVars, asked, shown>>

----------------------------------------------------------------------------
(* What is counted of the connections                                      *)

Count(k, by) == n' = [n EXCEPT ![k] = @ + by]

Advance(c, to) == conn' = [conn EXCEPT ![c] = to]

(* The accept loop: clientConnect adds to clients ...                      *)
Accept(c) ==
  /\ Running
  /\ main = "serving"
  /\ conn[c] = "none"
  /\ \A d \in Conns : conn[d] # "accepted"
  /\ Count("clients", 1)
  /\ Advance(c, "accepted")
  /\ UNCHANGED <<startVars, proc, marks, gc, repVars, asked, shown>>

(* ... and then to sessions; both loops of the connection are started.     *)
AcceptSession(c) ==
  /\ Running
  /\ conn[c] = "accepted"
  /\ Count("sessions", 1)
  /\ Advance(c, "reading")
  /\ UNCHANGED <<startVars, proc, marks, gc, repVars, asked, shown>>

(* inboundLoop has decoded a packet.                                       *)
Receive(c) ==
  /\ Running
  /\ conn[c] = "reading"
  /\ n["recv"] < MaxMsgs
  /\ Count("recv", 1)
  /\ Advance(c, "handling")
  /\ UNCHANGED <<startVars, proc, marks, gc, repVars, asked, shown>>

(* The end of a handler.  A refused CONNECT, a DISCONNECT or an unexpected *)
(* packet ends the loop; a CONNECT, a refused one too, may have started a  *)
(* heartbeat.                                                              *)
Handled(c) ==
  /\ Running
  /\ conn[c] = "handling"
  /\ \E to \in {"reading", "ended"} : Advance(c, to)
  /\ \/ UNCHANGED marks
     \/ /\ "kicked" \notin marks[c]
        /\ marks' = [marks EXCEPT ![c] = @ \cup {"beating"}]
  /\ UNCHANGED <<startVars, proc, n, gc, repVars, asked, shown>>

(* stop() of a handler: the second one closes a closed channel.            *)
Stop(c) ==
  /\ Running
  /\ conn[c] = "handling"
  /\ Count("aborts", 1)
  /\ marks' = [marks EXCEPT ![c] = @ \cup {"stopped"}]
  /\ IF "stopped" \in marks[c] THEN Panic("close of closed channel") ELSE UNCHANGED proc
  /\ UNCHANGED <<startVars, conn, gc, repVars, asked, shown>>

(* The heartbeat's DISCONNECT has been written.  outboundLoop leaves after *)
(* it, so there is no second one on a connection.                          *)
Kick(c) ==
  /\ Running
  /\ "beating" \in marks[c]
  /\ Count("aborts", 1)
  /\ marks' = [marks EXCEPT ![c] = (@ \ {"beating"}) \cup {"kicked"}]
  /\ UNCHANGED <<startVars, proc, conn, gc, repVars, asked, shown>>

(* Mutant: inboundLoop goes on reading after an error.                     *)
ReadOn(c) ==
  /\ Running
  /\ conn[c] = "reading"
  /\ Count("aborts", 1)
  /\ UNCHANGED <<startVars, proc, conn, marks, gc, repVars, asked, shown>>

(* DecodeOneMessage returns an error, the end of the stream included.      *)
ReadError(c) ==
  /\ Running
  /\ conn[c] = "reading"
  /\ Count("aborts", 1)
  /\ Advance(c, "ended")
  /\ UNCHANGED <<startVars, proc, marks, gc, repVars, asked, shown>>

(* clientDisconnect, in the deferred function of inboundLoop.              *)
Disconnect(c) ==
  /\ Running
  /\ conn[c] = "ended"
  /\ Count("clients", -1)
  /\ Advance(c, "gone")
  /\ UNCHANGED <<startVars, proc, marks, gc, repVars, asked, shown>>

(* outboundLoop has written a packet; it may outlive inboundLoop.          *)
Send(c) ==
  /\ Running
  /\ conn[c] \notin {"none", "accepted"}
  /\ n["sent"] < MaxMsgs
  /\ Count("sent", 1)
  /\ UNCHANGED <<startVars, proc, connVars, gc, repVars, asked, shown>>

----------------------------------------------------------------------------
(* stats.start                                                             *)

Goto(pc) == rep' = pc

(* launchHttpServ, if there is an address for it.                          *)
LaunchHttp ==
  /\ Running
  /\ rep = "launch"
  /\ Goto("ticker")
  /\ UNCHANGED <<startVars, proc, connVars, n, gc, mem, total, last, reported, asked, shown>>

(* NewTicker panics unless the interval is positive.                       *)
NewTicker ==
  /\ Running
  /\ rep = "ticker"
  /\ IF cf.interval <= 0
     THEN Panic("non-positive interval") /\ UNCHANGED rep
     ELSE Goto("wait") /\ UNCHANGED proc
  /\ UNCHANGED <<startVars, connVars, n, gc, mem, total, last, reported, asked, shown>>

Tick ==
  /\ Running
  /\ rep = "wait"
  /\ mem' = gc
  /\ Goto("recv")
  /\ UNCHANGED <<startVars, proc, connVars, n, gc, total, last, reported, asked, shown>>

(* totalPackets is the sum of two loads.                                   *)
LoadRecv ==
  /\ Running
  /\ rep = "recv"
  /\ total' = n["recv"]
  /\ Goto("sent")
  /\ UNCHANGED <<startVars, proc, connVars, n, gc, mem, last, reported, asked, shown>>

(* Mutant: the second load replaces the first.                             *)
LoadSentOnly ==
  /\ Running
  /\ rep = "sent"
  /\ total' = n["sent"]
  /\ Goto("divide")
  /\ UNCHANGED <<startVars, proc, connVars, n, gc, mem, last, reported, asked, shown>>

LoadSent ==
  /\ Running
  /\ rep = "sent"
  /\ total' = total + n["sent"]
  /\ Goto("divide")
  /\ UNCHANGED <<startVars, proc, connVars, n, gc, mem, last, reported, asked, shown>>

(* Mutant: lastPackets is not updated.                                     *)
NoLast == UNCHANGED last

KeepLast == last' = total

(* The whole seconds of the interval.                                      *)
Seconds == cf.interval \div 2

(* The throughput is per whole second of the interval: none is an integer  *)
(* division by zero.  What the division leaves over is in no report.       *)
Throughput ==
  /\ Running
  /\ rep = "divide"
  /\ IF Seconds = 0
     THEN Panic("divide by zero") /\ UNCHANGED <<rep, last, reported>>
     ELSE /\ reported' = reported + Seconds * ((total - last) \div Seconds)
          /\ KeepLast
          /\ Goto("average")
          /\ UNCHANGED proc
  /\ UNCHANGED <<startVars, connVars, n, gc, mem, total, asked, shown>>

(* The average pause is per collection: none is a division by zero.        *)
AveragePause ==
  /\ Running
  /\ rep = "average"
  /\ IF mem
     THEN Goto("print") /\ UNCHANGED proc
     ELSE Panic("divide by zero") /\ UNCHANGED rep
  /\ UNCHANGED <<startVars, connVars, n, gc, mem, total, last, reported, asked, shown>>

(* handleHttpQuery for "stat"; the other queries read no counter.          *)
Query ==
  /\ Running
  /\ rep \notin {"off", "launch"}
  /\ cf.http
  /\ ~asked
  /\ asked' = TRUE
  /\ UNCHANGED <<startVars, proc, connVars, n, gc, repVars, shown>>

Printing(r) == IF r = "ticker" THEN rep = "print" ELSE asked

(* Mutant: the counters are loaded from the last to the first.             *)
LastFirst(i) == Loads[Len(Loads) + 1 - i]

Argument(i) == Loads[i]

(* String(): the arguments of Sprintf are loaded one by one.               *)
LoadNext(r) ==
  /\ Running
  /\ Printing(r)
  /\ Len(shown[r]) < Len(Loads)
  /\ shown' = [shown EXCEPT ![r] = Append(@, n[Argument(Len(@) + 1)])]
  /\ UNCHANGED <<startVars, proc, connVars, n, gc, repVars, asked>>

Printed(r) ==
  /\ Running
  /\ Printing(r)
  /\ Len(shown[r]) = Len(Loads)
  /\ IF r = "ticker" THEN Goto("wait") /\ UNCHANGED asked
                     ELSE asked' = FALSE /\ UNCHANGED rep
  /\ shown' = [shown EXCEPT ![r] = <<>>]
  /\ UNCHANGED <<startVars, proc, connVars, n, gc, mem, total, last, reported>>

(* The Go runtime collects garbage.                                        *)
Collect ==
  /\ Running
  /\ ~gc
  /\ gc' = TRUE
  /\ UNCHANGED <<startVars, proc, connVars, n, repVars, asked, shown>>

Start == LoadConfig \/ NewServer \/ StartListener \/ StartPeers

Client(c) ==
  \/ Accept(c) \/ AcceptSession(c) \/ Receive(c) \/ Handled(c) \/ Stop(c)
  \/ Kick(c) \/ ReadError(c) \/ Disconnect(c) \/ Send(c)

Report ==
  \/ LaunchHttp \/ NewTicker \/ Tick \/ LoadRecv \/ LoadSent \/ Throughput
  \/ AveragePause \/ LoadNext("ticker") \/ Printed("ticker")

Next ==
  \/ Start
  \/ \E c \in Conns : Client(c)
  \/ Report
  \/ Query \/ LoadNext("http") \/ Printed("http")
  \/ Collect

(* main and stats.start are run, and the ticker fires again and again.     *)
Fairness == WF_vars(Start) /\ WF_vars(Report)

Spec == Init /\ [][Next]_vars /\ Fairness

----------------------------------------------------------------------------
(* Properties                                                              *)

(* A line of String() may mix the values of many moments, but never shows  *)
(* more clients than sessions, except for the one connection that the      *)
(* accept loop has counted only in clients: clients, which is the first to *)
(* be added to, is also the first to be loaded.                            *)
SnapshotSane ==
  \A r \in Readers : Len(shown[r]) = 2 => shown[r][1] <= shown[r][2] + 1

(* No packet is in the throughput of two reports, although recv and sent   *)
(* are loaded at different moments and go on being counted in between: the *)
(* throughputs, times their seconds, never add up to more packets than     *)
(* there were.  And no throughput is negative.                             *)
ReportedOnce ==
  /\ reported <= n["recv"] + n["sent"]
  /\ rep = "divide" => total >= last

(* A session is counted as aborted at most three times: by stop(), by the  *)
(* heartbeat, and by the error that inboundLoop then gets.                 *)
AbortsBounded == Running => n["aborts"] <= 3 * n["sessions"]

(* Every packet is among those that some report divides by its seconds,    *)
(* whenever it was counted between the two loads and the next tick, unless *)
(* the process ends.                                                       *)
EveryPacketCounted ==
  \A k \in 1 .. 2 * MaxMsgs :
    (n["recv"] + n["sent"] >= k) ~> (last >= k \/ ~Running)

(* Starting the broker has many steps that may fail.  Clients and peers    *)
(* are served in the end, or the process is gone: main never waits with a  *)
(* part of the broker missing.                                             *)
StartsOrEnds == <>(main = "serving" \/ ~Running)

----------------------------------------------------------------------------
(* What comments and documents say, and the code does not always do: the   *)
(* README beside this module names an instance that shows each (Known      *)
(* departures).                                                            *)

(* "cumulated aborted client sessions" (stats.go:30) are no more than the  *)
(* "cumulated" sessions (stats.go:29).                                     *)
AbortsAreSessions == Running => n["aborts"] <= n["sessions"]

(* The sample configuration has both addresses (etc/mhub.cf.sample:3-4):   *)
(* a broker that is up accepts TLS clients where an address is given.      *)
TlsIsServed == main = "serving" /\ cf.tls => listener = "tls"

(* "full stats report" (README.md:78): every packet shows in a throughput. *)
EveryPacketReported ==
  \A k \in 1 .. 2 * MaxMsgs :
    (n["recv"] + n["sent"] >= k) ~> (reported >= k \/ ~Running)

(* "full stats report" (README.md:78): reporting does not end the process. *)
ReportingIsSafe == proc \notin {"non-positive interval", "divide by zero"}

=============================================================================
