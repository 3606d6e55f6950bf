--------------------------- MODULE SessionProofs ---------------------------
(***************************************************************************)
(* Proofs about the life cycle of sessions, for any number of connections, *)
(* ids and users, any queue length and any configuration.                  *)
(***************************************************************************)
EXTENDS Session, FiniteSetTheorems, SequenceTheorems, TLAPS

(* stats.clients counts the connections that hold a place.                   *)
CountedConns == {c \in Conns : Counted(c)}

CountInv == statsClients = Cardinality(CountedConns)

(* Nothing refers to a connection that was not accepted yet.               *)
FreshInv ==
  \A c \in Conns :
    in[c] = "none" => /\ rc[c] = "none"
                      /\ out[c] = "none"
                      /\ <<c, "hb">> \notin released
                      /\ \A d \in Conns : target[d] # c
                      /\ \A id \in Ids : clients[id] # c

(* The receipt r of inboundLoop c is attached to job i of connection t.    *)
Awaited(c, t, i) == i \in 1..Len(jobs[t]) /\ <<c, "in">> \in jobs[t][i].r

(* A receipt is attached to one DISCONNECT, queued for the very connection *)
(* that its owner is waiting for, and it is gone once it is released.      *)
ReceiptInv ==
  /\ \A t \in Conns : \A i \in 1..Len(jobs[t]) :
       /\ jobs[t][i].r # {} => jobs[t][i].m = "Disconnect"
       /\ \A c \in Conns : <<c, "hb">> \in jobs[t][i].r => c = t
  /\ \A c, t \in Conns : \A i \in Nat :
       Awaited(c, t, i) => /\ in[c] = "wait"
                           /\ target[c] = t
                           /\ <<c, "in">> \notin released
                           /\ \A j \in Nat : Awaited(c, t, j) => j = i
  /\ \A c \in Conns :
       /\ <<c, "in">> \in released => in[c] = "wait"
       /\ in[c] \in {"evict", "wait"} => target[c] \in Conns

(* While it serves a CONNECT, a connection has a flag.                     *)
Connecting == {"add", "evict", "wait", "del", "add2", "setup"}

FlagInv ==
  \A c \in Conns :
    flag[c] = NoId => /\ in[c] \notin Connecting
                      /\ \A i \in 1..Len(work[c]) : work[c][i] # "checkin"

SessionInv ==
  /\ SessionTypeOK
  /\ FlagInv
  /\ CountInv
  /\ FreshInv
  /\ ConnectionLimit
  /\ ReceiptInv
  /\ EvictionFinal

(* What most steps do to the state of the sessions: a connection goes on   *)
(* with its handler or with its teardown, an outboundLoop may leave, and at *)
(* most one packet without a receipt is queued, for any connection.        *)
Serving == {"read", "work", "setup", "exit", "del", "add2"}

Ended == {"uncounted", "closing", "term", "done"}

Panics == {"none", "send on closed channel", "close of closed channel",
           "nil pointer dereference"}

QuietStep ==
  /\ \E c \in Conns : \E pc \in InStates :
       \/ in' = in
       \/ /\ in' = [in EXCEPT ![c] = pc]
          /\ {in[c], pc} \subseteq Serving \/ {in[c], pc} \subseteq Ended
  /\ \E d \in Conns : \/ jobs' = jobs
                      \/ ~Full(d) /\ Enqueue(d, Packet)
  /\ out' \in [Conns -> {"none", "loop", "exit", "del", "unsub", "done"}]
  /\ \A c \in Conns : /\ out[c] = "none" <=> out'[c] = "none"
                      /\ out'[c] = "loop" => out[c] = "loop"
  /\ clients' \in [Ids -> Conns \cup {NoConn}]
  /\ \A id \in Ids : \/ clients'[id] \in {clients[id], NoConn}
                     \/ in[clients'[id]] # "none"
  /\ released' \subseteq released
  /\ work' \in [Conns -> Seq(Steps)]
  /\ hb' \in [Conns -> {"off", "tick", "sync", "wait", "done"}]
  /\ stopped' \in [Conns -> BOOLEAN]
  /\ present' \subseteq {UserOf[id] : id \in Ids}
  /\ panic' \in Panics
  /\ FlagInv'
  /\ UNCHANGED <<target, flag, rc, statsClients>>

----------------------------------------------------------------------------
(* Initially everything holds: nothing has been accepted.                  *)
LEMMA InitInv == SessionInit => SessionInv
<1> SUFFICES ASSUME SessionInit PROVE SessionInv
  OBVIOUS
<1> USE SessionAssumption DEF SessionInit
<1>1. SessionTypeOK
  BY DEF SessionTypeOK, InStates
<1>2. CountInv
  <2>1. CountedConns = {}
    BY DEF CountedConns, Counted
  <2> QED BY <2>1, FS_EmptySet DEF CountInv
<1>3. ConnectionLimit
  <2>1. Accepted = {}
    BY DEF Accepted, Counted
  <2> QED BY <2>1, FS_EmptySet DEF ConnectionLimit
<1>4. ReceiptInv
  BY DEF ReceiptInv, Awaited
<1>5. EvictionFinal
  BY DEF EvictionFinal
<1>6. FreshInv
  BY DEF FreshInv
<1>7. FlagInv
  BY DEF FlagInv, Connecting
<1> QED BY <1>1, <1>2, <1>3, <1>4, <1>5, <1>6, <1>7 DEF SessionInv

(* The set of live connections stays as it is, so the counter stays right. *)
LEMMA CountUnchanged ==
  ASSUME CountInv, UNCHANGED statsClients,
         \A c \in Conns : Counted(c) <=> Counted(c)'
  PROVE  CountInv'
<1>1. CountedConns' = CountedConns
  BY DEF CountedConns
<1> QED BY <1>1 DEF CountInv

(* The live connections are finitely many.                                 *)
LEMMA FiniteCounted == IsFiniteSet(CountedConns) /\ Cardinality(CountedConns) \in Nat
<1>1. CountedConns \in SUBSET Conns
  BY DEF CountedConns
<1>2. IsFiniteSet(CountedConns)
  BY <1>1, FS_Subset, SessionAssumption
<1> QED BY <1>2, FS_CardinalityType

(* No connection becomes an accepted one, so the limit stays respected.    *)
LEMMA LimitUnchanged ==
  ASSUME ConnectionLimit,
         \A c \in Conns : Counted(c)' /\ rc'[c] = "accepted"
                            => Counted(c) /\ rc[c] = "accepted"
  PROVE  ConnectionLimit'
<1>1. Accepted' \in SUBSET Accepted /\ Accepted \in SUBSET Conns
  BY DEF Accepted
<1>2. IsFiniteSet(Accepted)
  BY <1>1, FS_Subset, SessionAssumption, SMTT(30)
<1>3. Cardinality(Accepted') <= Cardinality(Accepted)
  BY <1>1, <1>2, FS_Subset
<1>4. Cardinality(Accepted') \in Nat /\ Cardinality(Accepted) \in Nat
  BY <1>1, <1>2, FS_Subset, FS_CardinalityType
<1> QED BY <1>3, <1>4, SessionAssumption DEF ConnectionLimit

LEMMA HeadIsFirst == \A s \in Seq(Steps) : s # <<>> => Head(s) = s[1]
OBVIOUS

(* What appending to one of a family of queues does.                       *)
LEMMA AppendAt ==
  ASSUME NEW S, NEW T, NEW f \in [S -> Seq(T)], NEW d \in S, NEW e \in T,
         NEW g, g = [f EXCEPT ![d] = Append(@, e)]
  PROVE  /\ g \in [S -> Seq(T)]
         /\ \A t \in S : t # d => g[t] = f[t]
         /\ Len(g[d]) = Len(f[d]) + 1
         /\ \A i \in 1..Len(f[d]) : g[d][i] = f[d][i]
         /\ g[d][Len(f[d]) + 1] = e
<1>1. f[d] \in Seq(T) /\ g[d] = Append(f[d], e)
  OBVIOUS
<1>2. /\ Append(f[d], e) \in Seq(T)
      /\ Len(Append(f[d], e)) = Len(f[d]) + 1
      /\ \A i \in 1..Len(f[d]) : Append(f[d], e)[i] = f[d][i]
      /\ Append(f[d], e)[Len(f[d]) + 1] = e
  BY <1>1, AppendProperties
<1> QED BY <1>1, <1>2

(* What removing the first element of one of a family of queues does.      *)
LEMMA TailAt ==
  ASSUME NEW S, NEW T, NEW f \in [S -> Seq(T)], NEW d \in S, f[d] # <<>>,
         NEW g, g = [f EXCEPT ![d] = Tail(@)]
  PROVE  /\ g \in [S -> Seq(T)]
         /\ \A t \in S : t # d => g[t] = f[t]
         /\ Len(f[d]) \in Nat \ {0}
         /\ Len(g[d]) = Len(f[d]) - 1
         /\ \A i \in 1..Len(g[d]) : i + 1 \in 1..Len(f[d]) /\ g[d][i] = f[d][i + 1]
         /\ Head(f[d]) = f[d][1]
<1>1. f[d] \in Seq(T) /\ g[d] = Tail(f[d])
  OBVIOUS
<1>2. /\ Tail(f[d]) \in Seq(T)
      /\ Len(f[d]) \in Nat \ {0}
      /\ Len(Tail(f[d])) = Len(f[d]) - 1
      /\ \A i \in 1..Len(Tail(f[d])) : Tail(f[d])[i] = f[d][i + 1]
      /\ Head(f[d]) = f[d][1]
  BY <1>1, HeadTailProperties
<1> QED BY <1>1, <1>2

(* Every step that starts and ends no session, and neither begins nor ends *)
(* a wait for a receipt, preserves the invariant.                          *)
LEMMA Frame ==
  ASSUME SessionInv, SessionTypeOK', FlagInv', UNCHANGED <<statsClients, rc, target>>,
         \A c \in Conns : /\ Counted(c) <=> Counted(c)'
                          /\ in[c] = "none" <=> in'[c] = "none"
                          /\ in[c] = "wait" <=> in'[c] = "wait"
                          /\ in[c] = "evict" <=> in'[c] = "evict"
                          /\ out[c] = "none" <=> out'[c] = "none"
                          /\ out'[c] = "loop" => out[c] = "loop",
         \A id \in Ids : \/ clients'[id] \in {clients[id], NoConn}
                          \/ in[clients'[id]] # "none",
         released' \subseteq released,
         \A t \in Conns : \A i \in 1..Len(jobs'[t]) :
           \/ i \in 1..Len(jobs[t]) /\ jobs'[t][i] = jobs[t][i]
           \/ jobs'[t][i].r = {}
  PROVE  SessionInv'
<1>0. SessionTypeOK /\ CountInv /\ FreshInv /\ ConnectionLimit /\ ReceiptInv /\ EvictionFinal
  BY DEF SessionInv
<1>1. CountInv'
  BY <1>0, CountUnchanged
<1>2. FreshInv'
  BY <1>0, SessionAssumption, SMTT(30) DEF FreshInv
<1>3. ConnectionLimit'
  BY <1>0, LimitUnchanged
<1>4. \A c, t \in Conns : \A i \in Nat : Awaited(c, t, i)' => Awaited(c, t, i)
  BY DEF Awaited
<1>5. \A t \in Conns : \A i \in 1..Len(jobs'[t]) :
        /\ jobs'[t][i].r # {} => jobs'[t][i].m = "Disconnect"
        /\ \A c \in Conns : <<c, "hb">> \in jobs'[t][i].r => c = t
  BY <1>0, SMTT(30) DEF ReceiptInv
<1>6. \A c, t \in Conns : \A i \in Nat :
        Awaited(c, t, i)' => /\ in'[c] = "wait"
                             /\ target'[c] = t
                             /\ <<c, "in">> \notin released'
                             /\ \A j \in Nat : Awaited(c, t, j)' => j = i
  BY <1>0, <1>4 DEF ReceiptInv
<1>7. \A c \in Conns :
        /\ <<c, "in">> \in released' => in'[c] = "wait"
        /\ in'[c] \in {"evict", "wait"} => target'[c] \in Conns
  <2>1. \A c \in Conns :
          /\ <<c, "in">> \in released => in[c] = "wait"
          /\ in[c] \in {"evict", "wait"} => target[c] \in Conns
    BY <1>0, Zenon DEF ReceiptInv
  <2> QED BY <2>1, Zenon
<1>8. ReceiptInv'
  BY <1>5, <1>6, <1>7 DEF ReceiptInv
<1>9. EvictionFinal'
  <2>1. \A c \in Conns : target[c] # NoConn => target[c] \in Conns
    <3>1. target \in [Conns -> Conns \cup {NoConn}]
      BY <1>0, Zenon DEF SessionTypeOK
    <3> QED BY <3>1
  <2>2. \A c \in Conns : <<c, "in">> \in released => target[c] \in Conns
    BY <1>0 DEF ReceiptInv
  <2> QED BY <1>0, <2>1, <2>2, Zenon DEF EvictionFinal
<1> QED BY <1>1, <1>2, <1>3, <1>8, <1>9, SMTT(30) DEF SessionInv

(* A quiet step preserves the invariant.                                   *)
LEMMA QuietInv == SessionInv /\ QuietStep => SessionInv'
<1> SUFFICES ASSUME SessionInv, QuietStep PROVE SessionInv'
  OBVIOUS
<1>0. SessionTypeOK
  BY DEF SessionInv
<1>1. SessionTypeOK'
  <2>1. in' \in [Conns -> InStates]
    <3>1. PICK c \in Conns, pc \in InStates : in' = in \/ in' = [in EXCEPT ![c] = pc]
      BY DEF QuietStep
    <3>2. in \in [Conns -> InStates]
      BY <1>0, Zenon DEF SessionTypeOK
    <3> QED BY <3>1, <3>2
  <2>2. jobs' \in [Conns -> Seq(Job)] /\ \A c \in Conns : Len(jobs'[c]) <= QueueLen
    <3>1. Packet \in Job
      BY DEF Packet, Job
    <3>2. PICK d \in Conns : jobs' = jobs \/ (~Full(d) /\ Enqueue(d, Packet))
      BY DEF QuietStep
    <3>3. jobs \in [Conns -> Seq(Job)] /\ \A c \in Conns : Len(jobs[c]) <= QueueLen
      BY <1>0, Zenon DEF SessionTypeOK
    <3>4. CASE jobs' = jobs
      BY <3>3, <3>4
    <3>5. CASE ~Full(d) /\ Enqueue(d, Packet)
      <4>1. jobs' = [jobs EXCEPT ![d] = Append(@, Packet)]
        BY <3>5 DEF Enqueue
      <4>2. /\ jobs' \in [Conns -> Seq(Job)]
            /\ \A t \in Conns : t # d => jobs'[t] = jobs[t]
            /\ Len(jobs'[d]) = Len(jobs[d]) + 1
        BY <3>1, <3>3, <4>1, AppendAt, SMTT(30)
      <4>3. Len(jobs[d]) + 1 <= QueueLen
        BY <3>3, <3>5, SessionAssumption, LenProperties, SMTT(30) DEF Full
      <4> QED BY <3>3, <4>2, <4>3, SMTT(30)
    <3> QED BY <3>2, <3>4, <3>5
  <2> QED BY <1>0, <2>1, <2>2, Zenon DEF SessionTypeOK, QuietStep, Panics
<1>2. \A c \in Conns : /\ Counted(c) <=> Counted(c)'
                       /\ in[c] = "none" <=> in'[c] = "none"
                       /\ in[c] = "evict" <=> in'[c] = "evict"
                       /\ in[c] = "wait" <=> in'[c] = "wait"
  <2>1. PICK c \in Conns, pc \in InStates :
          \/ in' = in
          \/ /\ in' = [in EXCEPT ![c] = pc]
             /\ {in[c], pc} \subseteq Serving \/ {in[c], pc} \subseteq Ended
    BY DEF QuietStep
  <2>2. in \in [Conns -> InStates]
    BY <1>0, Zenon DEF SessionTypeOK
  <2> QED BY <2>1, <2>2 DEF Counted, Serving, Ended
<1>3. \A t \in Conns : \A i \in 1..Len(jobs'[t]) :
         \/ i \in 1..Len(jobs[t]) /\ jobs'[t][i] = jobs[t][i]
         \/ jobs'[t][i] = Packet
  <2>1. PICK d \in Conns : jobs' = jobs \/ jobs' = [jobs EXCEPT ![d] = Append(@, Packet)]
    BY Zenon DEF QuietStep, Enqueue
  <2>2. jobs \in [Conns -> Seq(Job)] /\ Packet \in Job
    BY <1>0, Zenon DEF SessionTypeOK, Packet, Job
  <2>3. CASE jobs' = jobs
    BY <2>3
  <2>4. CASE jobs' = [jobs EXCEPT ![d] = Append(@, Packet)]
    <3>1. /\ \A t \in Conns : t # d => jobs'[t] = jobs[t]
          /\ Len(jobs'[d]) = Len(jobs[d]) + 1
          /\ \A i \in 1..Len(jobs[d]) : jobs'[d][i] = jobs[d][i]
          /\ jobs'[d][Len(jobs[d]) + 1] = Packet
      BY <2>2, <2>4, AppendAt
    <3> QED BY <2>2, <3>1
  <2> QED BY <2>1, <2>3, <2>4
<1>4. Packet.r = {}
  BY DEF Packet
<1>5. \A t \in Conns : \A i \in 1..Len(jobs'[t]) :
         \/ i \in 1..Len(jobs[t]) /\ jobs'[t][i] = jobs[t][i]
         \/ jobs'[t][i].r = {}
  BY <1>3, <1>4, SMTT(30)
<1>6. \A c \in Conns : /\ Counted(c) <=> Counted(c)'
                       /\ in[c] = "none" <=> in'[c] = "none"
                       /\ in[c] = "wait" <=> in'[c] = "wait"
                       /\ in[c] = "evict" <=> in'[c] = "evict"
                       /\ out[c] = "none" <=> out'[c] = "none"
                       /\ out'[c] = "loop" => out[c] = "loop"
  BY <1>2, SMTT(30) DEF QuietStep
<1>7. /\ UNCHANGED <<statsClients, rc, target>>
      /\ released' \subseteq released
      /\ FlagInv'
      /\ \A id \in Ids : \/ clients'[id] \in {clients[id], NoConn}
                         \/ in[clients'[id]] # "none"
  BY DEF QuietStep
<1> QED BY <1>1, <1>5, <1>6, <1>7, Frame, SMTT(30)

----------------------------------------------------------------------------
(* The steps that are quiet.                                               *)

(* Going on with a handler, or starting one, keeps the types.              *)
LEMMA AdvanceTypes ==
  ASSUME SessionTypeOK, FlagInv, UNCHANGED flag, NEW c \in Conns,
         in[c] = "work", work[c] # <<>>, Advance(c)
  PROVE  /\ work' \in [Conns -> Seq(Steps)]
         /\ FlagInv'
         /\ \E pc \in InStates : /\ in' = [in EXCEPT ![c] = pc]
                                 /\ {in[c], pc} \subseteq Serving
<1>1. in \in [Conns -> InStates] /\ work \in [Conns -> Seq(Steps)]
  BY Zenon DEF SessionTypeOK
<1>2. work' = [work EXCEPT ![c] = Tail(@)]
  BY DEF Advance
<1>3. /\ work' \in [Conns -> Seq(Steps)]
      /\ \A t \in Conns : t # c => work'[t] = work[t]
      /\ \A i \in 1..Len(work'[c]) : i + 1 \in 1..Len(work[c]) /\ work'[c][i] = work[c][i + 1]
  BY <1>1, <1>2, TailAt
<1>4. \E pc \in {"work", "exit", "read"} : in' = [in EXCEPT ![c] = pc]
  BY Zenon DEF Advance, Goto
<1>5. FlagInv'
  BY <1>1, <1>3, <1>4 DEF FlagInv, Connecting
<1> QED BY <1>3, <1>4, <1>5, Zenon DEF InStates, Serving

LEMMA HandleTypes ==
  ASSUME SessionTypeOK, FlagInv, UNCHANGED flag, NEW c \in Conns, in[c] \in Serving,
         NEW steps \in Seq(Steps), Handle(c, steps),
         flag[c] = NoId => \A i \in 1..Len(steps) : steps[i] # "checkin"
  PROVE  /\ work' \in [Conns -> Seq(Steps)]
         /\ FlagInv'
         /\ \E pc \in InStates : /\ in' = [in EXCEPT ![c] = pc]
                                 /\ {in[c], pc} \subseteq Serving
<1>1. in \in [Conns -> InStates] /\ work \in [Conns -> Seq(Steps)]
  BY Zenon DEF SessionTypeOK
<1>2. work' = [work EXCEPT ![c] = steps]
  BY DEF Handle
<1>3. \E pc \in {"work", "read"} : in' = [in EXCEPT ![c] = pc]
  BY Zenon DEF Handle, Goto
<1>4. FlagInv'
  BY <1>1, <1>2, <1>3, SMTT(30) DEF FlagInv, Connecting
<1> QED BY <1>1, <1>2, <1>3, <1>4, Zenon DEF InStates, Serving

(* Going to another place, the flag and the handler unchanged.             *)
LEMMA GotoFlag ==
  ASSUME SessionTypeOK, FlagInv, UNCHANGED <<flag, work>>, NEW c \in Conns, NEW pc,
         in' = [in EXCEPT ![c] = pc], pc \in Connecting => in[c] \in Connecting
  PROVE  FlagInv'
<1>1. in \in [Conns -> InStates]
  BY Zenon DEF SessionTypeOK
<1> QED BY <1>1 DEF FlagInv

(* Each of these steps of inboundLoop is quiet.                            *)
LEMMA QuietInbound ==
  ASSUME SessionTypeOK, FlagInv, NEW c \in Conns,
         \/ PingReq(c) \/ ClientLeaves(c) \/ ReadClosed(c) \/ EvictDel(c)
         \/ AddAgain(c) \/ Setup(c) \/ CheckIn(c) \/ Reply(c)
         \/ ExitAlive(c) \/ ExitClose(c) \/ Terminate(c)
  PROVE  QuietStep
<1>t. /\ in \in [Conns -> InStates]
      /\ work \in [Conns -> Seq(Steps)]
      /\ flag \in [Conns -> Ids \cup {NoId}]
      /\ out \in [Conns -> {"none", "loop", "exit", "del", "unsub", "done"}]
      /\ hb \in [Conns -> {"off", "tick", "sync", "wait", "done"}]
      /\ stopped \in [Conns -> BOOLEAN]
      /\ clients \in [Ids -> Conns \cup {NoConn}]
      /\ present \subseteq {UserOf[id] : id \in Ids}
      /\ panic \in Panics
  BY ZenonT(60) DEF SessionTypeOK, Panics
<1>1. CASE PingReq(c)
  <2>1. /\ in[c] \in Serving /\ UNCHANGED flag /\ Handle(c, <<"send">>)
        /\ <<"send">> \in Seq(Steps) /\ \A i \in 1..Len(<<"send">>) : <<"send">>[i] # "checkin"
    BY <1>1 DEF PingReq, ReceivesRequest, Receives, Serving, Steps
  <2>2. /\ work' \in [Conns -> Seq(Steps)] /\ FlagInv'
        /\ \E pc \in InStates : /\ in' = [in EXCEPT ![c] = pc]
                                /\ {in[c], pc} \subseteq Serving
    BY <2>1, HandleTypes, Zenon
  <2> QED BY <1>t, <1>1, <2>2, Zenon DEF PingReq, QuietStep
<1>2. CASE ClientLeaves(c)
  <2>1. in' = [in EXCEPT ![c] = "exit"] /\ {in[c], "exit"} \subseteq Serving
    BY <1>2 DEF ClientLeaves, Receives, Goto, Serving
  <2>2. "exit" \in InStates
    BY DEF InStates
  <2>f. FlagInv'
    BY <1>2, <2>1, GotoFlag, Zenon DEF ClientLeaves, Connecting
  <2> QED BY <1>t, <1>2, <2>1, <2>2, <2>f, Zenon DEF ClientLeaves, QuietStep
<1>3. CASE ReadClosed(c)
  <2>1. in' = [in EXCEPT ![c] = "exit"] /\ {in[c], "exit"} \subseteq Serving
    BY <1>3 DEF ReadClosed, Goto, Serving
  <2>2. "exit" \in InStates
    BY DEF InStates
  <2>f. FlagInv'
    BY <1>3, <2>1, GotoFlag, Zenon DEF ReadClosed, Connecting
  <2> QED BY <1>t, <1>3, <2>1, <2>2, <2>f, Zenon DEF ReadClosed, QuietStep
<1>4. CASE EvictDel(c)
  <2>1. in' = [in EXCEPT ![c] = "add2"] /\ {in[c], "add2"} \subseteq Serving
    BY <1>4 DEF EvictDel, Goto, Serving
  <2>2. "add2" \in InStates
    BY SMTT(60) DEF InStates
  <2>3. /\ clients' \in [Ids -> Conns \cup {NoConn}]
        /\ \A id \in Ids : clients'[id] \in {clients[id], NoConn}
    BY <1>t, <1>4, Zenon DEF EvictDel, Del
  <2>f. FlagInv'
    BY <1>4, <2>1, GotoFlag, Zenon DEF EvictDel, Connecting
  <2> QED BY <1>t, <1>4, <2>1, <2>2, <2>3, <2>f, ZenonT(60) DEF EvictDel, QuietStep
<1>5. CASE AddAgain(c)
  <2>1. in' = [in EXCEPT ![c] = "setup"] /\ {in[c], "setup"} \subseteq Serving
    BY <1>5, SMTT(30) DEF AddAgain, Goto, Serving
  <2>2. "setup" \in InStates /\ in[c] # "none"
    BY <1>5 DEF InStates, AddAgain
  <2>3. /\ clients' \in [Ids -> Conns \cup {NoConn}]
        /\ \A id \in Ids : clients'[id] \in {clients[id], c}
    BY <1>t, <1>5, Zenon DEF AddAgain
  <2>f. FlagInv'
    BY <1>5, <2>1, GotoFlag, Zenon DEF AddAgain, Connecting
  <2> QED BY <1>t, <1>5, <2>1, <2>2, <2>3, <2>f, Zenon DEF AddAgain, QuietStep
<1>6. CASE Setup(c)
  <2>1. PICK stored \in 0..MaxStored :
          Handle(c, [i \in 1..stored |-> "send"] \o <<"checkin", "send">>)
    BY <1>6, ZenonT(60) DEF Setup
  <2>2. [i \in 1..stored |-> "send"] \o <<"checkin", "send">> \in Seq(Steps)
    <3>1. stored \in Nat /\ "send" \in Steps /\ "checkin" \in Steps
      BY SessionAssumption, SMTT(30) DEF Steps
    <3>2. [i \in 1..stored |-> "send"] \in Seq(Steps)
      BY <3>1
    <3>3. <<"checkin", "send">> \in Seq(Steps)
      BY <3>1
    <3> QED BY <3>2, <3>3, ConcatProperties
  <2>3. in[c] \in Serving
    BY <1>6 DEF Setup, Serving
  <2>4. /\ work' \in [Conns -> Seq(Steps)] /\ FlagInv'
        /\ \E pc \in InStates : /\ in' = [in EXCEPT ![c] = pc]
                                /\ {in[c], pc} \subseteq Serving
    <3>1. flag[c] # NoId /\ UNCHANGED flag
      BY <1>6, ZenonT(60) DEF Setup, FlagInv, Connecting
    <3> QED BY <2>1, <2>2, <2>3, <3>1, HandleTypes, Zenon
  <2>5. hb' \in [Conns -> {"off", "tick", "sync", "wait", "done"}]
    BY <1>t, <1>6 DEF Setup
  <2> QED BY <1>t, <1>6, <2>4, <2>5, Zenon DEF Setup, QuietStep
<1>7. CASE CheckIn(c)
  <2>1. /\ work' \in [Conns -> Seq(Steps)] /\ FlagInv'
        /\ \E pc \in InStates : /\ in' = [in EXCEPT ![c] = pc]
                                /\ {in[c], pc} \subseteq Serving
    BY <1>7, AdvanceTypes, Zenon DEF CheckIn, Doing
  <2>2. present' \subseteq {UserOf[id] : id \in Ids}
    <3>1. work[c] \in Seq(Steps) /\ work[c] # <<>> /\ Head(work[c]) = "checkin"
      BY <1>t, <1>7, Zenon DEF CheckIn, Doing
    <3>2. 1 \in 1..Len(work[c]) /\ work[c][1] = "checkin"
      BY <3>1, SMTT(30)
    <3>3. flag[c] \in Ids
      BY <1>t, <3>2, SMTT(60) DEF FlagInv
    <3> QED BY <1>t, <1>7, <3>3, ZenonT(60) DEF CheckIn, Store
  <2> QED BY <1>t, <1>7, <2>1, <2>2, ZenonT(60) DEF CheckIn, QuietStep
<1>8. CASE Reply(c)
  <2>1. /\ work' \in [Conns -> Seq(Steps)] /\ FlagInv'
        /\ \E pc \in InStates : /\ in' = [in EXCEPT ![c] = pc]
                                /\ {in[c], pc} \subseteq Serving
    BY <1>8, AdvanceTypes, SMTT(30) DEF Reply, Doing
  <2>2. jobs' = jobs \/ (~Full(c) /\ Enqueue(c, Packet))
    BY <1>8 DEF Reply
  <2> QED BY <1>t, <1>8, <2>1, <2>2, Zenon DEF Reply, QuietStep
<1>9. CASE ExitClose(c)
  <2>1. in' = [in EXCEPT ![c] = "term"] /\ {in[c], "term"} \subseteq Ended
    BY <1>9 DEF ExitClose, Goto, Ended
  <2>2. "term" \in InStates
    BY DEF InStates
  <2>f. FlagInv'
    BY <1>9, <2>1, GotoFlag, ZenonT(60) DEF ExitClose, Connecting
  <2> QED BY <1>t, <1>9, <2>1, <2>2, <2>f, Zenon DEF ExitClose, QuietStep
<1>10. CASE Terminate(c)
  <2>1. in' = [in EXCEPT ![c] = "done"] /\ {in[c], "done"} \subseteq Ended
    BY <1>10, Zenon DEF Terminate, Goto, Ended
  <2>2. "done" \in InStates
    BY SMTT(60) DEF InStates
  <2>3. present' \subseteq {UserOf[id] : id \in Ids} /\ panic' \in Panics
    BY <1>t, <1>10, Zenon DEF Terminate, CheckOut, DelKey, Crash, Panics
  <2>f. FlagInv'
    BY <1>10, <2>1, GotoFlag, ZenonT(60) DEF Terminate, Connecting
  <2> QED BY <1>t, <1>10, <2>1, <2>2, <2>3, <2>f, Zenon DEF Terminate, QuietStep
<1>11. CASE ExitAlive(c)
  <2>1. in' = [in EXCEPT ![c] = "closing"] /\ {in[c], "closing"} \subseteq Ended
    BY <1>11, Zenon DEF ExitAlive, Goto, Ended
  <2>2. "closing" \in InStates
    BY Zenon DEF InStates
  <2>f. FlagInv'
    BY <1>11, <2>1, GotoFlag, ZenonT(60) DEF ExitAlive, Connecting
  <2> QED BY <1>t, <1>11, <2>1, <2>2, <2>f, Zenon DEF ExitAlive, QuietStep
<1> QED BY <1>1, <1>2, <1>3, <1>4, <1>5, <1>6, <1>7, <1>8, <1>9, <1>10, <1>11, SMTT(30)

(* Each of these steps of outboundLoop and of heartbeat is quiet.          *)
LEMMA QuietOutbound ==
  ASSUME SessionTypeOK, FlagInv, NEW c \in Conns,
         \/ OutLeave(c) \/ OutClose(c) \/ OutDel(c) \/ OutUnsubAll(c)
         \/ HbExpire(c) \/ HbWait(c) \/ HbStop(c)
  PROVE  QuietStep
<1>t. /\ work \in [Conns -> Seq(Steps)]
      /\ out \in [Conns -> {"none", "loop", "exit", "del", "unsub", "done"}]
      /\ hb \in [Conns -> {"off", "tick", "sync", "wait", "done"}]
      /\ stopped \in [Conns -> BOOLEAN]
      /\ clients \in [Ids -> Conns \cup {NoConn}]
      /\ present \subseteq {UserOf[id] : id \in Ids}
      /\ panic \in Panics
      /\ "none" \in InStates
  BY Zenon DEF SessionTypeOK, Panics, InStates
<1>f. UNCHANGED <<in, work, flag>> => FlagInv'
  BY Zenon DEF FlagInv
<1>1. CASE OutLeave(c)
  BY <1>t, <1>f, <1>1, ZenonT(60) DEF OutLeave, QuietStep
<1>2. CASE OutClose(c)
  BY <1>t, <1>f, <1>2, SMTT(30) DEF OutClose, QuietStep
<1>3. CASE OutDel(c)
  <2>1. /\ clients' \in [Ids -> Conns \cup {NoConn}]
        /\ \A id \in Ids : clients'[id] \in {clients[id], NoConn}
    BY <1>t, <1>3, ZenonT(60) DEF OutDel, Del
  <2> QED BY <1>t, <1>f, <1>3, <2>1, SMTT(30) DEF OutDel, QuietStep
<1>4. CASE OutUnsubAll(c)
  BY <1>t, <1>f, <1>4, Zenon DEF OutUnsubAll, QuietStep
<1>5. CASE HbExpire(c)
  BY <1>t, <1>f, <1>5, ZenonT(60) DEF HbExpire, QuietStep
<1>6. CASE HbWait(c)
  BY <1>t, <1>f, <1>6, ZenonT(60) DEF HbWait, QuietStep
<1>7. CASE HbStop(c)
  BY <1>t, <1>f, <1>7, SMTT(30) DEF HbStop, QuietStep
<1> QED BY <1>1, <1>2, <1>3, <1>4, <1>5, <1>6, <1>7, SMTT(30)

----------------------------------------------------------------------------
(* The steps that start and end sessions.                                  *)

(* Accepting a connection adds one to the counter and to what it counts.   *)
LEMMA AcceptInv == ASSUME SessionInv, NEW c \in Conns, Accept(c) PROVE SessionInv'
<1>0. /\ SessionTypeOK /\ FlagInv /\ CountInv /\ FreshInv
      /\ ConnectionLimit /\ ReceiptInv /\ EvictionFinal
  BY SMTT(30) DEF SessionInv
<1>a. /\ in \in [Conns -> InStates] /\ in[c] = "none" /\ in' = [in EXCEPT ![c] = "read"]
      /\ out \in [Conns -> {"none", "loop", "exit", "del", "unsub", "done"}]
      /\ out' = [out EXCEPT ![c] = "loop"]
      /\ target \in [Conns -> Conns \cup {NoConn}]
      /\ statsClients \in Int /\ statsClients' = statsClients + 1
      /\ UNCHANGED <<work, target, flag, rc, hb, jobs, released, stopped, clients,
                     present, panic>>
  BY <1>0, ZenonT(60) DEF Accept, SessionTypeOK, Goto
<1>1. SessionTypeOK'
  <2>1. in' \in [Conns -> InStates]
    BY <1>a DEF InStates
  <2>2. out' \in [Conns -> {"none", "loop", "exit", "del", "unsub", "done"}]
    BY <1>a
  <2>3. statsClients' \in Int
    BY <1>a
  <2> QED BY <1>0, <1>a, <2>1, <2>2, <2>3, ZenonT(60) DEF SessionTypeOK
<1>2. FlagInv'
  BY <1>0, <1>a, GotoFlag, Zenon DEF Connecting
<1>3. CountInv'
  <2>1. CountedConns' = CountedConns \cup {c} /\ c \notin CountedConns
    BY <1>a DEF CountedConns, Counted
  <2>2. IsFiniteSet(CountedConns)
    BY FiniteCounted, SMTT(30)
  <2> QED BY <1>0, <1>a, <2>1, <2>2, FS_AddElement, Zenon DEF CountInv
<1>4. FreshInv'
  BY <1>0, <1>a, SMTT(30) DEF FreshInv
<1>5. ConnectionLimit'
  <2>1. rc[c] = "none"
    BY <1>0, <1>a, Zenon DEF FreshInv
  <2> QED BY <1>0, <1>a, <2>1, LimitUnchanged, SMTT(30) DEF Counted
<1>6. ReceiptInv'
  <2>1. \A d \in Conns : /\ in[d] = "wait" <=> in'[d] = "wait"
                         /\ in[d] = "evict" <=> in'[d] = "evict"
    BY <1>a, SMTT(30)
  <2>2. \A d, t \in Conns : \A i \in Nat : Awaited(d, t, i)' <=> Awaited(d, t, i)
    BY <1>a DEF Awaited
  <2> QED BY <1>0, <1>a, <2>1, <2>2, SMTT(30) DEF ReceiptInv
<1>7. EvictionFinal'
  <2>1. /\ \A d \in Conns : target[d] # c
        /\ <<c, "hb">> \notin released
    BY <1>0, <1>a, SMTT(30) DEF FreshInv
  <2>2. \A d \in Conns : d # c => out'[d] = out[d] /\ in'[d] = in[d]
    BY <1>a, SMTT(30)
  <2>3. \A d \in Conns : <<d, "in">> \in released => target[d] \in Conns
    BY <1>0 DEF ReceiptInv
  <2>4. \A d \in Conns : target[d] # NoConn => target[d] \in Conns
    BY <1>a
  <2>5. in[c] \notin {"evict", "wait"}
    BY <1>a
  <2> QED BY <1>0, <1>a, <2>1, <2>2, <2>3, <2>4, <2>5, ZenonT(60) DEF EvictionFinal
<1> QED BY <1>1, <1>2, <1>3, <1>4, <1>5, <1>6, <1>7, SMTT(30) DEF SessionInv

(* CONNECT: a session is accepted only while no more than the limit are    *)
(* counted, itself included.                                               *)
LEMMA ConnectInv == ASSUME SessionInv, NEW c \in Conns, Connect(c) PROVE SessionInv'
<1>0. /\ SessionTypeOK /\ FlagInv /\ CountInv /\ FreshInv
      /\ ConnectionLimit /\ ReceiptInv /\ EvictionFinal
  BY DEF SessionInv
<1>a. PICK id \in Ids, code \in {"accepted", "refused"} :
        /\ flag' = [flag EXCEPT ![c] = id]
        /\ rc' = [rc EXCEPT ![c] = code]
        /\ code = "accepted" => (MaxConnections > 0 => statsClients <= MaxConnections)
  BY SessionAssumption, ZenonT(60) DEF Connect, WithinLimit
<1>b. /\ in \in [Conns -> InStates] /\ in[c] = "read" /\ in' = [in EXCEPT ![c] = "add"]
      /\ flag \in [Conns -> Ids \cup {NoId}]
      /\ rc \in [Conns -> {"none", "accepted", "refused"}]
      /\ statsClients \in Int
      /\ UNCHANGED <<work, target, out, hb, jobs, released, stopped, clients,
                     statsClients, present, panic>>
  BY <1>0, Zenon DEF Connect, Receives, SessionTypeOK, Goto
<1>1. SessionTypeOK'
  <2>1. in' \in [Conns -> InStates]
    BY <1>b DEF InStates
  <2>2. flag' \in [Conns -> Ids \cup {NoId}]
    BY <1>a, <1>b, SMTT(30)
  <2>3. rc' \in [Conns -> {"none", "accepted", "refused"}]
    BY <1>a, <1>b, SMTT(30)
  <2> QED BY <1>0, <1>b, <2>1, <2>2, <2>3, Zenon DEF SessionTypeOK
<1>2. FlagInv'
  BY <1>0, <1>a, <1>b, SessionAssumption, SMTT(30) DEF FlagInv
<1>3. \A d \in Conns : /\ Counted(d) <=> Counted(d)'
                       /\ in[d] = "none" <=> in'[d] = "none"
                       /\ in[d] = "wait" <=> in'[d] = "wait"
                       /\ in[d] = "evict" <=> in'[d] = "evict"
  BY <1>b DEF Counted
<1>4. CountInv'
  BY <1>0, <1>b, <1>3, CountUnchanged, SMTT(60)
<1>5. FreshInv'
  BY <1>0, <1>a, <1>b, <1>3, ZenonT(60) DEF FreshInv
<1>6. ConnectionLimit'
  <2>1. CASE code = "refused"
    <3>1. \A d \in Conns : rc'[d] = "accepted" => rc[d] = "accepted"
      BY <1>a, <1>b, <2>1
    <3> QED BY <1>0, <1>3, <3>1, LimitUnchanged
  <2>2. CASE code = "accepted"
    <3>1. Accepted' \in SUBSET CountedConns
      BY <1>3 DEF Accepted, CountedConns
    <3>2. Cardinality(Accepted') <= Cardinality(CountedConns) /\ Cardinality(Accepted') \in Nat
      BY <3>1, FiniteCounted, FS_Subset, FS_CardinalityType, SMTT(30)
    <3>3. MaxConnections > 0 => Cardinality(CountedConns) <= MaxConnections
      BY <1>0, <1>a, <2>2, ZenonT(60) DEF CountInv
    <3> QED BY <3>2, <3>3, FiniteCounted, SessionAssumption, SMTT(30) DEF ConnectionLimit
  <2> QED BY <2>1, <2>2
<1>7. ReceiptInv'
  <2>1. \A d, t \in Conns : \A i \in Nat : Awaited(d, t, i)' <=> Awaited(d, t, i)
    BY <1>b, SMTT(30) DEF Awaited
  <2> QED BY <1>0, <1>b, <1>3, <2>1, SMTT(30) DEF ReceiptInv
<1>8. EvictionFinal'
  BY <1>0, <1>b, <1>3, ZenonT(60) DEF EvictionFinal
<1> QED BY <1>1, <1>2, <1>4, <1>5, <1>6, <1>7, <1>8, SMTT(30) DEF SessionInv

(* The end of inboundLoop takes one from the counter and from what it      *)
(* counts.                                                                 *)
LEMMA ExitCountInv == ASSUME SessionInv, NEW c \in Conns, ExitCount(c) PROVE SessionInv'
<1>0. /\ SessionTypeOK /\ FlagInv /\ CountInv /\ FreshInv
      /\ ConnectionLimit /\ ReceiptInv /\ EvictionFinal
  BY DEF SessionInv
<1>a. /\ in \in [Conns -> InStates] /\ in[c] = "exit" /\ in' = [in EXCEPT ![c] = "uncounted"]
      /\ statsClients \in Int /\ statsClients' = statsClients - 1
      /\ UNCHANGED <<work, target, flag, rc, out, hb, jobs, released, stopped, clients,
                     present, panic>>
  BY <1>0, ZenonT(60) DEF ExitCount, SessionTypeOK, Goto
<1>1. SessionTypeOK'
  <2>1. in' \in [Conns -> InStates]
    BY <1>a DEF InStates
  <2>2. statsClients' \in Int
    BY <1>a
  <2> QED BY <1>0, <1>a, <2>1, <2>2, Zenon DEF SessionTypeOK
<1>2. FlagInv'
  BY <1>0, <1>a, GotoFlag, Zenon DEF Connecting
<1>3. CountInv'
  <2>1. CountedConns' = CountedConns \ {c} /\ c \in CountedConns
    BY <1>a DEF CountedConns, Counted
  <2> QED BY <1>0, <1>a, <2>1, FiniteCounted, FS_RemoveElement, Zenon DEF CountInv
<1>4. \A d \in Conns : /\ Counted(d)' => Counted(d)
                       /\ in[d] = "none" <=> in'[d] = "none"
                       /\ in[d] = "wait" <=> in'[d] = "wait"
                       /\ in[d] = "evict" <=> in'[d] = "evict"
  BY <1>a, ZenonT(60) DEF Counted
<1>5. FreshInv'
  BY <1>0, <1>a, <1>4, SMTT(30) DEF FreshInv
<1>6. ConnectionLimit'
  BY <1>0, <1>a, <1>4, LimitUnchanged, ZenonT(60)
<1>7. ReceiptInv'
  <2>1. \A d, t \in Conns : \A i \in Nat : Awaited(d, t, i)' <=> Awaited(d, t, i)
    BY <1>a, SMTT(30) DEF Awaited
  <2> QED BY <1>0, <1>a, <1>4, <2>1, SMTT(30) DEF ReceiptInv
<1>8. EvictionFinal'
  BY <1>0, <1>a, <1>4, ZenonT(60) DEF EvictionFinal
<1> QED BY <1>1, <1>2, <1>3, <1>5, <1>6, <1>7, <1>8 DEF SessionInv

----------------------------------------------------------------------------
(* The steps that handle receipts.                                         *)

(* The first add() of a CONNECT only remembers connections that were       *)
(* accepted before.                                                        *)
LEMMA AddInv == ASSUME SessionInv, NEW c \in Conns, Add(c) PROVE SessionInv'
<1>0. /\ SessionTypeOK /\ FlagInv /\ CountInv /\ FreshInv
      /\ ConnectionLimit /\ ReceiptInv /\ EvictionFinal
  BY DEF SessionInv
<1>a. /\ in \in [Conns -> InStates] /\ in[c] = "add"
      /\ target \in [Conns -> Conns \cup {NoConn}]
      /\ flag \in [Conns -> Ids \cup {NoId}]
      /\ clients \in [Ids -> Conns \cup {NoConn}]
      /\ target' = [target EXCEPT ![c] = clients[flag[c]]]
      /\ UNCHANGED <<work, flag, rc, out, hb, jobs, released, stopped,
                     statsClients, present, panic>>
  BY <1>0, ZenonT(60) DEF Add, SessionTypeOK
<1>b. flag[c] \in Ids /\ clients[flag[c]] \in Conns \cup {NoConn}
  BY <1>0, <1>a, SMTT(30) DEF FlagInv, Connecting
<1>c. \/ /\ clients[flag[c]] = NoConn
         /\ clients' = [clients EXCEPT ![flag[c]] = c]
         /\ in' = [in EXCEPT ![c] = "add2"]
      \/ /\ clients[flag[c]] # NoConn
         /\ clients' = clients
         /\ in' = [in EXCEPT ![c] = "evict"]
  BY SMTT(30) DEF Add, Goto
<1>1. SessionTypeOK'
  <2>1. in' \in [Conns -> InStates]
    BY <1>a, <1>c, SMTT(30) DEF InStates
  <2>2. target' \in [Conns -> Conns \cup {NoConn}]
    BY <1>a, <1>b, SMTT(30)
  <2>3. clients' \in [Ids -> Conns \cup {NoConn}]
    BY <1>a, <1>b, <1>c, SMTT(30)
  <2> QED BY <1>0, <1>a, <2>1, <2>2, <2>3, ZenonT(60) DEF SessionTypeOK
<1>2. FlagInv'
  <2>1. \A d \in Conns : in'[d] \in Connecting => in[d] \in Connecting
    BY <1>a, <1>c, SMTT(30) DEF Connecting
  <2> QED BY <1>0, <1>a, <2>1, SMTT(30) DEF FlagInv
<1>3. \A d \in Conns : /\ Counted(d) <=> Counted(d)'
                       /\ in[d] = "none" <=> in'[d] = "none"
                       /\ in[d] = "wait" <=> in'[d] = "wait"
  BY <1>a, <1>c, SMTT(30) DEF Counted
<1>4. CountInv'
  BY <1>0, <1>a, <1>3, CountUnchanged, ZenonT(60)
<1>5. FreshInv'
  <2>1. \A d \in Conns : in'[d] = "none" => \A e \in Conns : target'[e] # d
    <3>1. \A d \in Conns : in[d] = "none" => clients[flag[c]] # d /\ \A e \in Conns : target[e] # d
      BY <1>0, <1>b, Zenon DEF FreshInv
    <3> QED BY <1>a, <1>3, <3>1, SMTT(30)
  <2>2. \A d \in Conns : in'[d] = "none" => \A id \in Ids : clients'[id] # d
    <3>1. \A d \in Conns : in[d] = "none" => \A id \in Ids : clients[id] # d
      BY <1>0, ZenonT(60) DEF FreshInv
    <3> QED BY <1>a, <1>b, <1>c, <1>3, <3>1, SMTT(30)
  <2> QED BY <1>0, <1>a, <1>3, <2>1, <2>2, SMTT(30) DEF FreshInv
<1>6. ConnectionLimit'
  BY <1>0, <1>a, <1>3, LimitUnchanged, ZenonT(60)
<1>7. ReceiptInv'
  <2>1. \A d, t \in Conns : \A i \in Nat : Awaited(d, t, i)' <=> Awaited(d, t, i)
    BY <1>a, SMTT(30) DEF Awaited
  <2>2. \A d \in Conns : in'[d] = "wait" => d # c /\ target'[d] = target[d]
    BY <1>a, <1>c, SMTT(30)
  <2>3. \A d \in Conns : in'[d] \in {"evict", "wait"} => target'[d] \in Conns
    <3>1. \A d \in Conns : in[d] \in {"evict", "wait"} => target[d] \in Conns
      BY <1>0, Zenon DEF ReceiptInv
    <3> QED BY <1>a, <1>b, <1>c, <3>1, SMTT(30)
  <2>4. \A d, t \in Conns : \A i \in Nat :
          Awaited(d, t, i)' => /\ in'[d] = "wait"
                               /\ target'[d] = t
                               /\ <<d, "in">> \notin released'
                               /\ \A j \in Nat : Awaited(d, t, j)' => j = i
    BY <1>0, <1>a, <1>3, <2>1, <2>2, SMTT(30) DEF ReceiptInv
  <2> QED BY <1>0, <1>a, <1>3, <2>3, <2>4, SMTT(30) DEF ReceiptInv
<1>8. EvictionFinal'
  <2>1. in'[c] \notin {"evict", "wait"} => target'[c] = NoConn
    BY <1>a, <1>c, SMTT(30)
  <2>2. \A d \in Conns : d # c => in'[d] = in[d] /\ target'[d] = target[d]
    BY <1>a, <1>c, Zenon
  <2>3. <<c, "in">> \notin released
    BY <1>0, <1>a, SMTT(30) DEF ReceiptInv
  <2> QED BY <1>0, <1>a, <2>1, <2>2, <2>3, ZenonT(60) DEF EvictionFinal
<1> QED BY <1>1, <1>2, <1>4, <1>5, <1>6, <1>7, <1>8 DEF SessionInv

(* The end of the wait for a receipt: it was released, so it is attached   *)
(* to no job any more, and the kicked outboundLoop has left its loop.      *)
LEMMA EvictWaitInv == ASSUME SessionInv, NEW c \in Conns, EvictWait(c) PROVE SessionInv'
<1>0. /\ SessionTypeOK /\ FlagInv /\ CountInv /\ FreshInv
      /\ ConnectionLimit /\ ReceiptInv /\ EvictionFinal
  BY DEF SessionInv
<1>a. /\ in \in [Conns -> InStates] /\ in[c] = "wait" /\ in' = [in EXCEPT ![c] = "del"]
      /\ released \subseteq Waiters
      /\ <<c, "in">> \in released
      /\ released' = released \ {<<c, "in">>}
      /\ UNCHANGED <<work, target, flag, rc, out, hb, jobs, stopped, clients,
                     statsClients, present, panic>>
  BY <1>0, ZenonT(60) DEF EvictWait, SessionTypeOK, Received, Goto
<1>1. SessionTypeOK'
  <2>1. in' \in [Conns -> InStates]
    BY <1>a DEF InStates
  <2>2. released' \subseteq Waiters
    BY <1>a
  <2> QED BY <1>0, <1>a, <2>1, <2>2, ZenonT(60) DEF SessionTypeOK
<1>2. FlagInv'
  BY <1>0, <1>a, GotoFlag, Zenon DEF Connecting
<1>3. \A d \in Conns : /\ Counted(d) <=> Counted(d)'
                       /\ in[d] = "none" <=> in'[d] = "none"
                       /\ in[d] = "evict" <=> in'[d] = "evict"
                       /\ d # c => in[d] = in'[d]
  BY <1>a, SMTT(30) DEF Counted
<1>4. CountInv'
  BY <1>0, <1>a, <1>3, CountUnchanged, ZenonT(60)
<1>5. FreshInv'
  BY <1>0, <1>a, <1>3, SMTT(30) DEF FreshInv
<1>6. ConnectionLimit'
  BY <1>0, <1>a, <1>3, LimitUnchanged, SMTT(30)
<1>7. \A d \in Conns : <<d, "in">> \in released' => d # c /\ <<d, "in">> \in released
  BY <1>a, ZenonT(60)
<1>8. ReceiptInv'
  <2>1. \A d, t \in Conns : \A i \in Nat : Awaited(d, t, i)' <=> Awaited(d, t, i)
    BY <1>a, SMTT(30) DEF Awaited
  <2>2. \A t \in Conns : \A i \in Nat : ~Awaited(c, t, i)
    BY <1>0, <1>a, ZenonT(60) DEF ReceiptInv
  <2>3. \A d, t \in Conns : \A i \in Nat :
          Awaited(d, t, i)' => /\ in'[d] = "wait"
                               /\ target'[d] = t
                               /\ <<d, "in">> \notin released'
                               /\ \A j \in Nat : Awaited(d, t, j)' => j = i
    BY <1>0, <1>a, <1>3, <1>7, <2>1, <2>2, SMTT(30) DEF ReceiptInv
  <2>4. \A d \in Conns :
          /\ <<d, "in">> \in released' => in'[d] = "wait"
          /\ in'[d] \in {"evict", "wait"} => target'[d] \in Conns
    <3>1. \A d \in Conns : /\ <<d, "in">> \in released => in[d] = "wait"
                           /\ in[d] \in {"evict", "wait"} => target[d] \in Conns
      BY <1>0, ZenonT(60) DEF ReceiptInv
    <3> QED BY <1>a, <1>3, <1>7, <3>1, ZenonT(60)
  <2> QED BY <1>0, <1>a, <2>3, <2>4, SMTT(30) DEF ReceiptInv
<1>9. EvictionFinal'
  <2>1. out[target[c]] # "loop"
    BY <1>0, <1>a, Zenon DEF EvictionFinal
  <2>2. \A d \in Conns : <<d, "hb">> \in released' => <<d, "hb">> \in released
    BY <1>a, SMTT(30)
  <2> QED BY <1>0, <1>a, <1>3, <1>7, <2>1, <2>2, ZenonT(60) DEF EvictionFinal
<1> QED BY <1>1, <1>2, <1>4, <1>5, <1>6, <1>8, <1>9 DEF SessionInv

(* What submitSync does to the job channels.                               *)
LEMMA SubmitSyncJobs ==
  ASSUME SessionTypeOK, NEW t \in Conns, NEW v \in Waiters, SubmitSync(t, v)
  PROVE  /\ jobs' \in [Conns -> Seq(Job)]
         /\ \A c \in Conns : Len(jobs'[c]) <= QueueLen
         /\ panic' \in Panics
         /\ \A c \in Conns : \A i \in 1..Len(jobs'[c]) :
              \/ i \in 1..Len(jobs[c]) /\ jobs'[c][i] = jobs[c][i]
              \/ c = t /\ i = Len(jobs[t]) + 1 /\ jobs'[c][i] = Kick(v)
<1>1. /\ jobs \in [Conns -> Seq(Job)]
      /\ \A c \in Conns : Len(jobs[c]) <= QueueLen
      /\ panic \in Panics
  BY Zenon DEF SessionTypeOK, Panics
<1>2. CASE JobsClosed(t)
  <2>1. jobs' = jobs /\ panic' = "send on closed channel"
    BY <1>2, ZenonT(60) DEF SubmitSync, Crash
  <2> QED BY <1>1, <2>1, Zenon DEF Panics
<1>3. CASE ~JobsClosed(t)
  <2>1. jobs' = [jobs EXCEPT ![t] = Append(@, Kick(v))] /\ ~Full(t) /\ panic' = panic
    BY <1>3 DEF SubmitSync, Enqueue
  <2>2. Kick(v) \in Job
    BY SMTT(30) DEF Kick, Job
  <2>3. /\ jobs' \in [Conns -> Seq(Job)]
        /\ \A c \in Conns : c # t => jobs'[c] = jobs[c]
        /\ Len(jobs'[t]) = Len(jobs[t]) + 1
        /\ \A i \in 1..Len(jobs[t]) : jobs'[t][i] = jobs[t][i]
        /\ jobs'[t][Len(jobs[t]) + 1] = Kick(v)
    BY <1>1, <2>1, <2>2, AppendAt, SMTT(30)
  <2>4. Len(jobs[t]) \in Nat /\ Len(jobs[t]) + 1 <= QueueLen
    BY <1>1, <2>1, SessionAssumption, LenProperties, SMTT(30) DEF Full
  <2>5. \A c \in Conns : Len(jobs'[c]) <= QueueLen
    BY <1>1, <2>3, <2>4, ZenonT(60)
  <2>6. \A c \in Conns : \A i \in 1..Len(jobs'[c]) :
          \/ i \in 1..Len(jobs[c]) /\ jobs'[c][i] = jobs[c][i]
          \/ c = t /\ i = Len(jobs[t]) + 1 /\ jobs'[c][i] = Kick(v)
    BY <2>3, <2>4, SMTT(30)
  <2> QED BY <1>1, <2>1, <2>3, <2>5, <2>6, SMTT(30)
<1> QED BY <1>2, <1>3

(* A CONNECT that queues a DISCONNECT for another session: the receipt is  *)
(* new, since an inboundLoop that has one attached to a job is waiting.    *)
LEMMA EvictSendInv == ASSUME SessionInv, NEW c \in Conns, EvictSend(c) PROVE SessionInv'
<1>0. /\ SessionTypeOK /\ FlagInv /\ CountInv /\ FreshInv
      /\ ConnectionLimit /\ ReceiptInv /\ EvictionFinal
  BY DEF SessionInv
<1>a. /\ in \in [Conns -> InStates] /\ in[c] = "evict" /\ in' = [in EXCEPT ![c] = "wait"]
      /\ UNCHANGED <<work, target, flag, rc, out, hb, released, stopped, clients,
                     statsClients, present>>
  BY <1>0, Zenon DEF EvictSend, SessionTypeOK, Goto
<1>b. target[c] \in Conns
  BY <1>0, <1>a, ZenonT(60) DEF ReceiptInv
<1>c. /\ jobs' \in [Conns -> Seq(Job)]
      /\ \A d \in Conns : Len(jobs'[d]) <= QueueLen
      /\ panic' \in Panics
      /\ \A d \in Conns : \A i \in 1..Len(jobs'[d]) :
           \/ i \in 1..Len(jobs[d]) /\ jobs'[d][i] = jobs[d][i]
           \/ /\ d = target[c]
              /\ i = Len(jobs[target[c]]) + 1
              /\ jobs'[d][i] = Kick(<<c, "in">>)
  <2>1. <<c, "in">> \in Waiters /\ SubmitSync(target[c], <<c, "in">>)
    BY DEF Waiters, EvictSend
  <2> QED BY <1>0, <1>b, <2>1, SubmitSyncJobs, ZenonT(60)
<1>1. SessionTypeOK'
  <2>1. in' \in [Conns -> InStates]
    BY <1>a DEF InStates
  <2> QED BY <1>0, <1>a, <1>c, <2>1, Zenon DEF SessionTypeOK, Panics
<1>2. FlagInv'
  BY <1>0, <1>a, GotoFlag, Zenon DEF Connecting
<1>3. \A d \in Conns : /\ Counted(d) <=> Counted(d)'
                       /\ in[d] = "none" <=> in'[d] = "none"
                       /\ in[d] \in {"evict", "wait"} <=> in'[d] \in {"evict", "wait"}
                       /\ in[d] = "wait" => in'[d] = "wait" /\ d # c
                       /\ in'[d] = "wait" => in[d] = "wait" \/ d = c
  BY <1>a, SMTT(30) DEF Counted
<1>4. CountInv'
  BY <1>0, <1>a, <1>3, CountUnchanged, ZenonT(60)
<1>5. FreshInv'
  BY <1>0, <1>a, <1>3, SMTT(30) DEF FreshInv
<1>6. ConnectionLimit'
  BY <1>0, <1>a, <1>3, LimitUnchanged, SMTT(30)
<1>7. /\ Kick(<<c, "in">>).m = "Disconnect"
      /\ Kick(<<c, "in">>).r = {<<c, "in">>}
  BY ZenonT(60) DEF Kick
<1>8. ReceiptInv'
  <2>1. \A t \in Conns : \A i \in 1..Len(jobs'[t]) :
          /\ jobs'[t][i].r # {} => jobs'[t][i].m = "Disconnect"
          /\ \A d \in Conns : <<d, "hb">> \in jobs'[t][i].r => d = t
    <3>1. \A t \in Conns : \A i \in 1..Len(jobs[t]) :
            /\ jobs[t][i].r # {} => jobs[t][i].m = "Disconnect"
            /\ \A d \in Conns : <<d, "hb">> \in jobs[t][i].r => d = t
      BY <1>0, SMTT(30) DEF ReceiptInv
    <3>2. \A d \in Conns : <<d, "hb">> \notin {<<c, "in">>}
      OBVIOUS
    <3> QED BY <1>c, <1>7, <3>1, <3>2, ZenonT(60)
  <2>2. \A t \in Conns : \A i \in Nat : ~Awaited(c, t, i)
    BY <1>0, <1>a, ZenonT(60) DEF ReceiptInv
  <2>3. \A d, t \in Conns : \A i \in Nat :
          Awaited(d, t, i)' =>
            \/ Awaited(d, t, i) /\ d # c
            \/ d = c /\ t = target[c] /\ i = Len(jobs[target[c]]) + 1
    <3> SUFFICES ASSUME NEW d \in Conns, NEW t \in Conns, NEW i \in Nat, Awaited(d, t, i)'
                 PROVE  \/ Awaited(d, t, i) /\ d # c
                        \/ d = c /\ t = target[c] /\ i = Len(jobs[target[c]]) + 1
      BY ZenonT(60)
    <3>1. i \in 1..Len(jobs'[t]) /\ <<d, "in">> \in jobs'[t][i].r
      BY SMTT(30) DEF Awaited
    <3>2. CASE i \in 1..Len(jobs[t]) /\ jobs'[t][i] = jobs[t][i]
      BY <2>2, <3>1, <3>2, ZenonT(60) DEF Awaited
    <3>3. CASE /\ t = target[c]
               /\ i = Len(jobs[target[c]]) + 1
               /\ jobs'[t][i] = Kick(<<c, "in">>)
      <4>1. <<d, "in">> = <<c, "in">>
        BY <1>7, <3>1, <3>3, Zenon
      <4>2. d = c
        BY <4>1, Zenon
      <4> QED BY <3>3, <4>2, Zenon
    <3> QED BY <1>c, <3>1, <3>2, <3>3, ZenonT(60)
  <2>4. <<c, "in">> \notin released
    BY <1>0, <1>a, Zenon DEF ReceiptInv
  <2>5. \A d, t \in Conns : \A i \in Nat :
          Awaited(d, t, i)' => /\ in'[d] = "wait"
                               /\ target'[d] = t
                               /\ <<d, "in">> \notin released'
                               /\ \A j \in Nat : Awaited(d, t, j)' => j = i
    <3>1. \A d, t \in Conns : \A i \in Nat :
            Awaited(d, t, i) => /\ in[d] = "wait"
                                /\ target[d] = t
                                /\ <<d, "in">> \notin released
                                /\ \A j \in Nat : Awaited(d, t, j) => j = i
      BY <1>0 DEF ReceiptInv
    <3>2. in'[c] = "wait"
      BY <1>a, SMTT(30)
    <3> QED BY <1>a, <1>3, <2>3, <2>4, <3>1, <3>2, ZenonT(60)
  <2>6. \A d \in Conns :
          /\ <<d, "in">> \in released' => in'[d] = "wait"
          /\ in'[d] \in {"evict", "wait"} => target'[d] \in Conns
    <3>1. \A d \in Conns : /\ <<d, "in">> \in released => in[d] = "wait"
                           /\ in[d] \in {"evict", "wait"} => target[d] \in Conns
      BY <1>0, Zenon DEF ReceiptInv
    <3> QED BY <1>a, <1>3, <3>1, ZenonT(60)
  <2> QED BY <2>1, <2>5, <2>6, SMTT(30) DEF ReceiptInv
<1>9. EvictionFinal'
  BY <1>0, <1>a, <1>3, ZenonT(60) DEF EvictionFinal
<1> QED BY <1>1, <1>2, <1>4, <1>5, <1>6, <1>8, <1>9 DEF SessionInv

(* The heartbeat that queues a DISCONNECT for its own connection.          *)
LEMMA HbSendInv == ASSUME SessionInv, NEW c \in Conns, HbSend(c) PROVE SessionInv'
<1>0. /\ SessionTypeOK /\ FlagInv /\ CountInv /\ FreshInv
      /\ ConnectionLimit /\ ReceiptInv /\ EvictionFinal
  BY DEF SessionInv
<1>a. /\ hb \in [Conns -> {"off", "tick", "sync", "wait", "done"}]
      /\ hb' = [hb EXCEPT ![c] = "wait"]
      /\ UNCHANGED <<in, work, target, flag, rc, out, released, stopped, clients,
                     statsClients, present>>
  BY <1>0, ZenonT(60) DEF HbSend, SessionTypeOK
<1>c. /\ jobs' \in [Conns -> Seq(Job)]
      /\ \A d \in Conns : Len(jobs'[d]) <= QueueLen
      /\ panic' \in Panics
      /\ \A d \in Conns : \A i \in 1..Len(jobs'[d]) :
           \/ i \in 1..Len(jobs[d]) /\ jobs'[d][i] = jobs[d][i]
           \/ d = c /\ i = Len(jobs[c]) + 1 /\ jobs'[d][i] = Kick(<<c, "hb">>)
  <2>1. <<c, "hb">> \in Waiters /\ SubmitSync(c, <<c, "hb">>)
    BY SMTT(60) DEF Waiters, HbSend
  <2> QED BY <1>0, <2>1, SubmitSyncJobs, SMTT(30)
<1>1. SessionTypeOK'
  <2>1. hb' \in [Conns -> {"off", "tick", "sync", "wait", "done"}]
    BY <1>a, ZenonT(60)
  <2> QED BY <1>0, <1>a, <1>c, <2>1, ZenonT(60) DEF SessionTypeOK, Panics
<1>2. FlagInv'
  BY <1>0, <1>a, SMTT(30) DEF FlagInv
<1>3. \A d \in Conns : Counted(d) <=> Counted(d)'
  BY <1>a, SMTT(30) DEF Counted
<1>4. CountInv'
  BY <1>0, <1>a, <1>3, CountUnchanged, SMTT(30)
<1>5. FreshInv'
  BY <1>0, <1>a, SMTT(30) DEF FreshInv
<1>6. ConnectionLimit'
  BY <1>0, <1>a, <1>3, LimitUnchanged, SMTT(30)
<1>7. /\ Kick(<<c, "hb">>).m = "Disconnect"
      /\ Kick(<<c, "hb">>).r = {<<c, "hb">>}
  BY SMTT(60) DEF Kick
<1>8. ReceiptInv'
  <2>1. \A t \in Conns : \A i \in 1..Len(jobs'[t]) :
          /\ jobs'[t][i].r # {} => jobs'[t][i].m = "Disconnect"
          /\ \A d \in Conns : <<d, "hb">> \in jobs'[t][i].r => d = t
    <3>1. \A t \in Conns : \A i \in 1..Len(jobs[t]) :
            /\ jobs[t][i].r # {} => jobs[t][i].m = "Disconnect"
            /\ \A d \in Conns : <<d, "hb">> \in jobs[t][i].r => d = t
      BY <1>0 DEF ReceiptInv
    <3>2. \A d \in Conns : <<d, "hb">> \in {<<c, "hb">>} => d = c
      OBVIOUS
    <3> QED BY <1>c, <1>7, <3>1, <3>2, ZenonT(60)
  <2>2. \A d, t \in Conns : \A i \in Nat : Awaited(d, t, i)' => Awaited(d, t, i)
    <3>1. \A d \in Conns : <<d, "in">> \notin {<<c, "hb">>}
      BY ZenonT(60)
    <3> QED BY <1>c, <1>7, <3>1, Zenon DEF Awaited
  <2>3. \A d, t \in Conns : \A i \in Nat :
          Awaited(d, t, i)' => /\ in'[d] = "wait"
                               /\ target'[d] = t
                               /\ <<d, "in">> \notin released'
                               /\ \A j \in Nat : Awaited(d, t, j)' => j = i
    BY <1>0, <1>a, <2>2, SMTT(30) DEF ReceiptInv
  <2> QED BY <1>0, <1>a, <2>1, <2>3, ZenonT(60) DEF ReceiptInv
<1>9. EvictionFinal'
  BY <1>0, <1>a, ZenonT(60) DEF EvictionFinal
<1> QED BY <1>1, <1>2, <1>4, <1>5, <1>6, <1>8, <1>9 DEF SessionInv

(* outboundLoop releases the receipts of the job it has written.  These    *)
(* are attached to a DISCONNECT for this connection, so it has left its    *)
(* loop by then.                                                           *)
LEMMA OutWriteInv == ASSUME SessionInv, NEW c \in Conns, OutWrite(c) PROVE SessionInv'
<1>0. /\ SessionTypeOK /\ FlagInv /\ CountInv /\ FreshInv
      /\ ConnectionLimit /\ ReceiptInv /\ EvictionFinal
  BY DEF SessionInv
<1>a. /\ out[c] = "loop"
      /\ out \in [Conns -> {"none", "loop", "exit", "del", "unsub", "done"}]
      /\ released \subseteq Waiters
      /\ released' = released \cup Head(jobs[c]).r
      /\ UNCHANGED <<in, work, target, flag, rc, hb, stopped, clients,
                     statsClients, present, panic>>
  BY <1>0, ZenonT(60) DEF OutWrite, Release, SessionTypeOK
<1>b. \E pc \in {"loop", "exit"} :
        /\ out' = [out EXCEPT ![c] = pc]
        /\ Head(jobs[c]).m = "Disconnect" => pc = "exit"
  BY <1>a, ZenonT(60) DEF OutWrite
<1>c. /\ jobs \in [Conns -> Seq(Job)]
      /\ \A d \in Conns : Len(jobs[d]) <= QueueLen
      /\ jobs[c] # <<>>
      /\ jobs' = [jobs EXCEPT ![c] = Tail(@)]
  BY <1>0, ZenonT(60) DEF OutWrite, SessionTypeOK
<1>d. /\ jobs' \in [Conns -> Seq(Job)]
      /\ \A t \in Conns : t # c => jobs'[t] = jobs[t]
      /\ Len(jobs[c]) \in Nat \ {0}
      /\ Len(jobs'[c]) = Len(jobs[c]) - 1
      /\ \A i \in 1..Len(jobs'[c]) : i + 1 \in 1..Len(jobs[c]) /\ jobs'[c][i] = jobs[c][i + 1]
      /\ Head(jobs[c]) = jobs[c][1]
  BY <1>c, TailAt, SMTT(30)
<1>e. jobs[c][1] \in Job /\ 1 \in 1..Len(jobs[c])
  <2>1. jobs[c] \in Seq(Job) /\ 1 \in 1..Len(jobs[c])
    BY <1>c, <1>d, SMTT(60)
  <2> QED BY <2>1, ElementOfSeq, SMTT(30)
<1>1. SessionTypeOK'
  <2>1. out' \in [Conns -> {"none", "loop", "exit", "del", "unsub", "done"}]
    BY <1>a, <1>b, SMTT(30)
  <2>2. \A d \in Conns : Len(jobs'[d]) <= QueueLen
    BY <1>c, <1>d, SessionAssumption, SMTT(30)
  <2>3. released' \subseteq Waiters
    BY <1>a, <1>d, <1>e, SMTT(30) DEF Job
  <2> QED BY <1>0, <1>a, <1>d, <2>1, <2>2, <2>3, ZenonT(60) DEF SessionTypeOK
<1>2. FlagInv'
  BY <1>0, <1>a, SMTT(30) DEF FlagInv
<1>3. \A d \in Conns : /\ Counted(d) <=> Counted(d)'
                       /\ out'[d] = "loop" => out[d] = "loop"
                       /\ out'[d] = "none" <=> out[d] = "none"
  BY <1>a, <1>b, SMTT(30) DEF Counted
<1>4. CountInv'
  BY <1>0, <1>a, <1>3, CountUnchanged, SMTT(30)
<1>5. \A d \in Conns : <<d, "hb">> \in jobs[c][1].r => d = c /\ out'[c] # "loop"
  <2>1. \A d \in Conns : <<d, "hb">> \in jobs[c][1].r => d = c
    BY <1>0, <1>e, SMTT(30) DEF ReceiptInv
  <2>2. jobs[c][1].r # {} => jobs[c][1].m = "Disconnect"
    BY <1>0, <1>e, SMTT(30) DEF ReceiptInv
  <2>3. jobs[c][1].m = "Disconnect" => out'[c] # "loop"
    BY <1>a, <1>b, <1>d, ZenonT(60)
  <2> QED BY <2>1, <2>2, <2>3, ZenonT(60)
<1>6. \A d \in Conns : <<d, "in">> \in jobs[c][1].r =>
        /\ in[d] = "wait" /\ target[d] = c /\ out'[c] # "loop" /\ Awaited(d, c, 1)
  <2>1. \A d \in Conns : <<d, "in">> \in jobs[c][1].r => Awaited(d, c, 1)
    BY <1>e, SMTT(30) DEF Awaited
  <2>2. \A d \in Conns : Awaited(d, c, 1) => in[d] = "wait" /\ target[d] = c
    BY <1>0, Zenon DEF ReceiptInv
  <2>3. jobs[c][1].r # {} => jobs[c][1].m = "Disconnect"
    BY <1>0, <1>e DEF ReceiptInv
  <2>4. jobs[c][1].m = "Disconnect" => out'[c] # "loop"
    BY <1>a, <1>b, <1>d
  <2> QED BY <2>1, <2>2, <2>3, <2>4, SMTT(30)
<1>7. FreshInv'
  <2>1. in[c] # "none"
    BY <1>0, <1>a, ZenonT(60) DEF FreshInv
  <2>2. \A d \in Conns : <<d, "hb">> \in released' => <<d, "hb">> \in released \/ d = c
    BY <1>a, <1>d, <1>5, SMTT(30)
  <2>3. \A d \in Conns : in[d] = "none" => <<d, "hb">> \notin released'
    BY <1>0, <2>1, <2>2, ZenonT(60) DEF FreshInv
  <2> QED BY <1>0, <1>a, <1>3, <2>3, SMTT(30) DEF FreshInv
<1>8. ConnectionLimit'
  BY <1>0, <1>a, <1>3, LimitUnchanged, ZenonT(60)
<1>9. ReceiptInv'
  <2>1. \A t \in Conns : \A i \in 1..Len(jobs'[t]) :
          /\ jobs'[t][i].r # {} => jobs'[t][i].m = "Disconnect"
          /\ \A d \in Conns : <<d, "hb">> \in jobs'[t][i].r => d = t
    <3>1. \A t \in Conns : \A i \in 1..Len(jobs[t]) :
            /\ jobs[t][i].r # {} => jobs[t][i].m = "Disconnect"
            /\ \A d \in Conns : <<d, "hb">> \in jobs[t][i].r => d = t
      BY <1>0 DEF ReceiptInv
    <3>2. \A t \in Conns : \A i \in 1..Len(jobs'[t]) :
            \E k \in 1..Len(jobs[t]) : jobs'[t][i] = jobs[t][k]
      BY <1>d, Zenon
    <3> SUFFICES ASSUME NEW t \in Conns, NEW i \in 1..Len(jobs'[t])
                 PROVE  /\ jobs'[t][i].r # {} => jobs'[t][i].m = "Disconnect"
                        /\ \A d \in Conns : <<d, "hb">> \in jobs'[t][i].r => d = t
      BY Zenon
    <3>3. PICK k \in 1..Len(jobs[t]) : jobs'[t][i] = jobs[t][k]
      BY <3>2, Zenon
    <3> QED BY <3>1, <3>3, Zenon
  <2>2. \A d, t \in Conns : \A i \in Nat :
          Awaited(d, t, i)' => IF t = c THEN Awaited(d, t, i + 1) /\ i # 0 ELSE Awaited(d, t, i)
    BY <1>d DEF Awaited
  <2>3. \A d, t \in Conns : \A i \in Nat :
          Awaited(d, t, i) => /\ in[d] = "wait"
                              /\ target[d] = t
                              /\ <<d, "in">> \notin released
                              /\ \A j \in Nat : Awaited(d, t, j) => j = i
    BY <1>0 DEF ReceiptInv
  <2>4. \A d, t \in Conns : \A i \in Nat : Awaited(d, t, i)' => <<d, "in">> \notin jobs[c][1].r
    BY <1>6, <2>2, <2>3, SMTT(30)
  <2>5. \A d, t \in Conns : \A i \in Nat :
          Awaited(d, t, i)' => /\ in'[d] = "wait"
                               /\ target'[d] = t
                               /\ <<d, "in">> \notin released'
                               /\ \A j \in Nat : Awaited(d, t, j)' => j = i
    <3> SUFFICES ASSUME NEW d \in Conns, NEW t \in Conns, NEW i \in Nat, Awaited(d, t, i)'
                 PROVE  /\ in[d] = "wait"
                        /\ target[d] = t
                        /\ <<d, "in">> \notin released'
                        /\ \A j \in Nat : Awaited(d, t, j)' => j = i
      BY <1>a, SMTT(30)
    <3>1. in[d] = "wait" /\ target[d] = t /\ <<d, "in">> \notin released
      BY <2>2, <2>3, SMTT(30)
    <3>2. <<d, "in">> \notin released'
      BY <1>a, <1>d, <2>4, <3>1, SMTT(30)
    <3>3. ASSUME NEW j \in Nat, Awaited(d, t, j)' PROVE j = i
      <4>1. CASE t = c
        <5>1. Awaited(d, t, i + 1) /\ Awaited(d, t, j + 1) /\ i + 1 \in Nat /\ j + 1 \in Nat
          BY <2>2, <3>3, <4>1, SMTT(30)
        <5>2. j + 1 = i + 1
          BY <2>3, <5>1, Zenon
        <5> QED BY <5>2, SMTT(30)
      <4>2. CASE t # c
        <5>1. Awaited(d, t, i) /\ Awaited(d, t, j)
          BY <2>2, <3>3, <4>2, SMTT(30)
        <5> QED BY <2>3, <5>1, ZenonT(60)
      <4> QED BY <4>1, <4>2, SMTT(30)
    <3> QED BY <3>1, <3>2, <3>3, Zenon
  <2>6. \A d \in Conns :
          /\ <<d, "in">> \in released' => in'[d] = "wait"
          /\ in'[d] \in {"evict", "wait"} => target'[d] \in Conns
    <3>1. \A d \in Conns : /\ <<d, "in">> \in released => in[d] = "wait"
                           /\ in[d] \in {"evict", "wait"} => target[d] \in Conns
      BY <1>0, Zenon DEF ReceiptInv
    <3> QED BY <1>a, <1>d, <1>6, <3>1, Zenon
  <2> QED BY <2>1, <2>5, <2>6 DEF ReceiptInv
<1>10. EvictionFinal'
  <2>1. \A d \in Conns : <<d, "in">> \in released' =>
          <<d, "in">> \in released \/ (target[d] = c /\ out'[c] # "loop")
    BY <1>a, <1>d, <1>6, ZenonT(60)
  <2>2. \A d \in Conns : <<d, "hb">> \in released' =>
          <<d, "hb">> \in released \/ (d = c /\ out'[c] # "loop")
    BY <1>a, <1>d, <1>5, SMTT(30)
  <2>3. \A d \in Conns : /\ target[d] # NoConn => target[d] \in Conns
                         /\ <<d, "in">> \in released => target[d] \in Conns
    <3>1. target \in [Conns -> Conns \cup {NoConn}]
      BY <1>0, ZenonT(60) DEF SessionTypeOK
    <3>2. \A d \in Conns : <<d, "in">> \in released => target[d] \in Conns
      BY <1>0 DEF ReceiptInv
    <3> QED BY <3>1, <3>2, ZenonT(60)
  <2> QED BY <1>0, <1>a, <1>3, <2>1, <2>2, <2>3, ZenonT(60) DEF EvictionFinal
<1> QED BY <1>1, <1>2, <1>4, <1>7, <1>8, <1>9, <1>10 DEF SessionInv

----------------------------------------------------------------------------
(* Every step of a session preserves the invariant.                        *)
LEMMA SessionStepInv ==
  ASSUME SessionInv, NEW c \in Conns, SessionStep(c) \/ OutUnsubAll(c)
  PROVE  SessionInv'
<1>0. SessionTypeOK /\ FlagInv
  BY SMTT(30) DEF SessionInv
<1>1. CASE \/ PingReq(c) \/ ClientLeaves(c) \/ ReadClosed(c) \/ EvictDel(c)
           \/ AddAgain(c) \/ Setup(c) \/ CheckIn(c) \/ Reply(c)
           \/ ExitAlive(c) \/ ExitClose(c) \/ Terminate(c)
  BY <1>0, <1>1, QuietInbound, QuietInv, SMTT(30)
<1>2. CASE \/ OutLeave(c) \/ OutClose(c) \/ OutDel(c) \/ OutUnsubAll(c)
           \/ HbExpire(c) \/ HbWait(c) \/ HbStop(c)
  BY <1>0, <1>2, QuietOutbound, QuietInv, SMTT(30)
<1>3. CASE \/ Accept(c) \/ Connect(c) \/ ExitCount(c)
  BY <1>3, AcceptInv, ConnectInv, ExitCountInv, SMTT(30)
<1>4. CASE \/ Add(c) \/ EvictSend(c) \/ EvictWait(c) \/ HbSend(c) \/ OutWrite(c)
  BY <1>4, AddInv, EvictSendInv, EvictWaitInv, HbSendInv, OutWriteInv, ZenonT(60)
<1> QED BY <1>1, <1>2, <1>3, <1>4, SMTT(30) DEF SessionStep, Client, Inbound, Outbound, Heartbeat

(* A step that changes nothing preserves the invariant.                    *)
LEMMA SessionStutter == SessionInv /\ UNCHANGED sessionVars => SessionInv'
<1> SUFFICES ASSUME SessionInv, UNCHANGED sessionVars PROVE SessionInv'
  BY SMTT(60)
<1>1. SessionTypeOK' /\ FlagInv'
  BY Zenon DEF SessionInv, SessionTypeOK, FlagInv, sessionVars
<1>2. \A c \in Conns : Counted(c) <=> Counted(c)'
  BY DEF Counted, sessionVars
<1> QED BY <1>1, <1>2, Frame, SMTT(30) DEF sessionVars

LEMMA SessionInvariant == SessionSpec => []SessionInv
<1>1. SessionInv /\ [SessionNext]_sessionVars => SessionInv'
  BY SessionStepInv, SessionStutter, SMTT(30) DEF SessionNext
<1> QED BY <1>1, InitInv, PTL DEF SessionSpec

(* For all numbers of connections, ids and users and all configurations,   *)
(* doConnect never accepts more sessions than max_connections allows.      *)
THEOREM SessionsBounded == SessionSpec => []ConnectionLimit
<1>1. SessionInv => ConnectionLimit
  BY Zenon DEF SessionInv
<1> QED BY <1>1, SessionInvariant, PTL

(* ... and a receipt of submitSync means that the kicked outboundLoop is   *)
(* over.                                                                   *)
THEOREM EvictionsFinal == SessionSpec => []EvictionFinal
<1>1. SessionInv => EvictionFinal
  BY Zenon DEF SessionInv
<1> QED BY <1>1, SessionInvariant, PTL

----------------------------------------------------------------------------
(* The presence service and the receipts of a takeover, for any number of  *)
(* connections that share client ids and users.  What is said of the       *)
(* presence service assumes that redis does not fail.                      *)

(* Only named users are checked in, and only where presence is enabled.    *)
PresentInv ==
  /\ present # {} => EnablePresence
  /\ NoUser \notin present

(* Work is left only while a handler runs, and a connection that was not   *)
(* accepted yet has no flag.                                               *)
IdleInv ==
  \A c \in Conns : /\ in[c] # "work" => work[c] = <<>>
                   /\ in[c] = "none" => flag[c] = NoId

PresenceInv ==
  /\ PresentInv
  /\ IdleInv
  /\ Orderly => PresentHasSession
  /\ AbsentWasTakenOver

LEMMA PresenceInit == SessionInit => PresenceInv
<1> SUFFICES ASSUME SessionInit PROVE PresenceInv
  OBVIOUS
<1>1. PresentInv
  BY DEF SessionInit, PresentInv
<1>2. IdleInv
  BY DEF SessionInit, IdleInv
<1>3. PresentHasSession
  BY DEF SessionInit, PresentHasSession
<1>4. AbsentWasTakenOver
  BY DEF SessionInit, AbsentWasTakenOver, CheckedIn
<1> QED BY <1>1, <1>2, <1>3, <1>4 DEF PresenceInv

(* The steps that change neither a flag nor who is present.                *)
OtherStep(c) ==
  \/ Accept(c) \/ PingReq(c) \/ ClientLeaves(c) \/ Add(c) \/ EvictSend(c)
  \/ EvictWait(c) \/ EvictDel(c) \/ AddAgain(c) \/ Setup(c) \/ Reply(c)
  \/ ReadClosed(c) \/ ExitCount(c) \/ ExitAlive(c) \/ ExitClose(c) \/ OutWrite(c) \/ OutLeave(c)
  \/ OutClose(c) \/ OutDel(c) \/ OutUnsubAll(c) \/ HbExpire(c) \/ HbSend(c)
  \/ HbWait(c) \/ HbStop(c)

(* The work of a handler after one step of it.                             *)
LEMMA AdvanceWork ==
  ASSUME SessionTypeOK, NEW c \in Conns, in[c] = "work", work[c] # <<>>, Advance(c)
  PROVE  /\ \A d \in Conns \ {c} : in'[d] = in[d] /\ work'[d] = work[d]
         /\ in'[c] \in {"read", "work", "exit"}
         /\ in'[c] # "work" => work'[c] = <<>>
         /\ \A i \in 1..Len(work[c]) : \/ i = 1
                                       \/ i - 1 \in 1..Len(work'[c]) /\ work'[c][i - 1] = work[c][i]
<1>1. in \in [Conns -> InStates] /\ work \in [Conns -> Seq(Steps)]
  BY Zenon DEF SessionTypeOK
<1>2. /\ in' = [in EXCEPT ![c] = in'[c]] /\ work' = [work EXCEPT ![c] = Tail(@)]
      /\ in'[c] = IF Len(work[c]) > 1 THEN "work" ELSE IF rc[c] = "refused" THEN "exit" ELSE "read"
  BY <1>1 DEF Advance, Goto
<1>3. work'[c] = Tail(work[c]) /\ work[c] \in Seq(Steps)
  BY <1>1, <1>2
<1>4. \A d \in Conns \ {c} : in'[d] = in[d] /\ work'[d] = work[d]
  BY <1>1, <1>2
<1>5. Len(work[c]) \in Nat \ {0} /\ Len(Tail(work[c])) = Len(work[c]) - 1
  BY <1>3
<1>6. Len(work[c]) <= 1 => work'[c] = <<>>
  BY <1>3, <1>5
<1>7. \A i \in 1..Len(work[c]) : i = 1 \/ (i - 1 \in 1..Len(Tail(work[c])) /\ Tail(work[c])[i - 1] = work[c][i])
  BY <1>3, <1>5
<1>8. in'[c] \in {"read", "work", "exit"}
  BY <1>2, Zenon
<1>9. in'[c] # "work" => ~(Len(work[c]) > 1)
  BY <1>2, Zenon
<1>10. in'[c] # "work" => work'[c] = <<>>
  BY <1>5, <1>6, <1>9, SMTT(30)
<1> QED BY <1>3, <1>4, <1>7, <1>8, <1>10, Zenon

(* What the other steps leave alone: nobody is done or checked in by them. *)
Harmless ==
  /\ UNCHANGED <<flag, present>>
  /\ IdleInv'
  /\ \A d \in Conns : /\ in'[d] = "done" => in[d] = "done"
                      /\ in[d] = "done" => in'[d] = "done"
                      /\ CheckedIn(d)' => CheckedIn(d)

(* Steps that move inboundLoop of a connection outside of a handler.       *)
LEMMA MoveHarmless ==
  ASSUME SessionTypeOK, IdleInv, UNCHANGED <<flag, present, work>>, NEW c \in Conns,
         \/ in' = in
         \/ \E pc \in InStates \ {"none", "work", "done"} :
              /\ in' = [in EXCEPT ![c] = pc]
              /\ in[c] \notin {"work", "done"}
              /\ pc \in {"read", "exit", "uncounted", "closing", "term"}
                   => in[c] \in {"none", "read", "exit", "uncounted", "closing"}
  PROVE  Harmless
<1>1. in \in [Conns -> InStates] /\ work \in [Conns -> Seq(Steps)]
  BY Zenon DEF SessionTypeOK
<1>2. CASE in' = in
  BY <1>2 DEF Harmless, IdleInv, CheckedIn
<1>3. ASSUME NEW pc \in InStates \ {"none", "work", "done"},
             in' = [in EXCEPT ![c] = pc], in[c] \notin {"work", "done"},
             pc \in {"read", "exit", "uncounted", "closing", "term"} => in[c] \in {"none", "read", "exit", "uncounted", "closing"}
      PROVE  Harmless
  <2>1. \A d \in Conns : in'[d] = IF d = c THEN pc ELSE in[d]
    BY <1>1, <1>3, Zenon
  <2>2. IdleInv'
    BY <1>3, <2>1 DEF IdleInv
  <2>3. \A d \in Conns : (in'[d] = "done" => in[d] = "done") /\ (in[d] = "done" => in'[d] = "done")
    BY <1>3, <2>1
  <2>4. ASSUME NEW d \in Conns, CheckedIn(d)' PROVE CheckedIn(d)
    <3>1. d = c => in[c] \in {"none", "read", "exit", "uncounted", "closing"}
      BY <1>3, <2>1, <2>4, SMTT(30) DEF CheckedIn
    <3>2. in[d] # "none"
      BY <2>4 DEF CheckedIn, IdleInv
    <3>3. in[d] \in {"read", "work", "exit", "uncounted", "closing", "term"}
      BY <2>1, <2>4, <3>1, <3>2, SMTT(30) DEF CheckedIn
    <3> QED BY <2>4, <3>3, Zenon DEF CheckedIn
  <2> QED BY <2>2, <2>3, <2>4, Zenon DEF Harmless
<1> QED BY <1>2, <1>3

(* A handler starts or goes on, and does not get past a check-in.          *)
LEMMA WorkHarmless ==
  ASSUME SessionTypeOK, IdleInv, UNCHANGED <<flag, present>>, NEW c \in Conns,
         \A d \in Conns \ {c} : in'[d] = in[d] /\ work'[d] = work[d],
         in[c] \notin {"none", "done"},
         in'[c] \in {"read", "work", "exit"},
         in'[c] # "work" => work'[c] = <<>>,
         CheckedIn(c)' => CheckedIn(c)
  PROVE  Harmless
<1>1. IdleInv'
  BY SMTT(30) DEF IdleInv
<1>2. \A d \in Conns : (in'[d] = "done" => in[d] = "done") /\ (in[d] = "done" => in'[d] = "done")
  BY SMTT(30)
<1>3. ASSUME NEW d \in Conns, d # c, CheckedIn(d)' PROVE CheckedIn(d)
  BY <1>3, Zenon DEF CheckedIn
<1> QED BY <1>1, <1>2, <1>3, Zenon DEF Harmless

LEMMA OtherHarmless ==
  ASSUME SessionTypeOK, IdleInv, NEW c \in Conns, OtherStep(c)
  PROVE  Harmless
<1>t. in \in [Conns -> InStates] /\ work \in [Conns -> Seq(Steps)]
  BY Zenon DEF SessionTypeOK
<1>1. CASE Accept(c) \/ ClientLeaves(c) \/ ReadClosed(c)
  <2>1. /\ UNCHANGED <<flag, present, work>>
        /\ \E pc \in {"read", "exit"} : in' = [in EXCEPT ![c] = pc]
        /\ in[c] \in {"none", "read"}
    BY <1>1, Zenon DEF Accept, ClientLeaves, ReadClosed, Receives, Goto
  <2>2. {"read", "exit"} \subseteq InStates \ {"none", "work", "done"}
    BY DEF InStates
  <2> QED BY <2>1, <2>2, MoveHarmless, Zenon
<1>2. CASE ExitCount(c) \/ ExitAlive(c) \/ ExitClose(c)
  <2>1. /\ UNCHANGED <<flag, present, work>>
        /\ \E pc \in {"uncounted", "closing", "term"} : in' = [in EXCEPT ![c] = pc]
        /\ in[c] \in {"exit", "uncounted", "closing"}
    BY <1>2, Zenon DEF ExitCount, ExitAlive, ExitClose, Goto
  <2>2. {"uncounted", "closing", "term"} \subseteq InStates \ {"none", "work", "done"}
    BY DEF InStates
  <2> QED BY <2>1, <2>2, MoveHarmless, Zenon
<1>3. CASE Add(c) \/ EvictSend(c) \/ EvictWait(c) \/ EvictDel(c) \/ AddAgain(c)
  <2> DEFINE P == {"add2", "evict", "wait", "del", "setup"}
  <2>1. /\ UNCHANGED <<flag, present, work>>
        /\ \E pc \in P : in' = [in EXCEPT ![c] = pc]
        /\ in[c] \in {"add", "evict", "wait", "del", "add2"}
    BY <1>3, Zenon DEF Add, EvictSend, EvictWait, EvictDel, AddAgain, Goto
  <2>2. P \subseteq InStates \ {"none", "work", "done"}
    BY DEF InStates
  <2>3. \A pc \in P : pc \notin {"read", "exit", "uncounted", "closing", "term"}
    OBVIOUS
  <2> HIDE DEF P
  <2> QED BY <2>1, <2>2, <2>3, MoveHarmless, Zenon
<1>4. CASE \/ OutWrite(c) \/ OutLeave(c) \/ OutClose(c) \/ OutDel(c) \/ OutUnsubAll(c)
           \/ HbExpire(c) \/ HbSend(c) \/ HbWait(c) \/ HbStop(c)
  <2>1. UNCHANGED <<flag, present, work>> /\ in' = in
    BY <1>4, Zenon DEF OutWrite, OutLeave, OutClose, OutDel, OutUnsubAll, HbExpire, HbSend,
                       HbWait, HbStop
  <2> QED BY <2>1, MoveHarmless
<1>5. CASE PingReq(c)
  <2>1. /\ UNCHANGED <<flag, present>> /\ in[c] = "read"
        /\ in' = [in EXCEPT ![c] = "work"] /\ work' = [work EXCEPT ![c] = <<"send">>]
    BY <1>5 DEF PingReq, ReceivesRequest, Receives, Handle, Goto
  <2>2. in'[c] = "work" /\ \A d \in Conns \ {c} : in'[d] = in[d] /\ work'[d] = work[d]
    BY <1>t, <2>1
  <2>3. work[c] = <<>>
    BY <2>1 DEF IdleInv
  <2>4. CheckedIn(c)' => CheckedIn(c)
    <3>1. \A i \in 1..Len(<<>>) : <<>>[i] # "checkin"
      OBVIOUS
    <3> QED BY <2>1, <2>3, <3>1, Zenon DEF CheckedIn
  <2> QED BY <2>1, <2>2, <2>4, WorkHarmless, ZenonT(60)
<1>6. CASE Setup(c)
  <2>1. PICK stored \in 0..MaxStored :
          Handle(c, [i \in 1..stored |-> "send"] \o <<"checkin", "send">>)
    BY <1>6, ZenonT(60) DEF Setup
  <2> DEFINE A == [i \in 1..stored |-> "send"]
             W == A \o <<"checkin", "send">>
  <2>2. A \in Seq({"send", "checkin"}) /\ Len(A) = stored /\ stored \in Nat
    BY SessionAssumption
  <2> HIDE DEF A
  <2>3. Len(W) = stored + 2 /\ W[stored + 1] = "checkin"
    BY <2>2
  <2>4. W # <<>>
    BY <2>2, <2>3
  <2>5. in' = [in EXCEPT ![c] = "work"] /\ work' = [work EXCEPT ![c] = W]
    BY <2>1, <2>4 DEF Handle, Goto, A
  <2>6. /\ in'[c] = "work" /\ work'[c] = W
        /\ \A d \in Conns \ {c} : in'[d] = in[d] /\ work'[d] = work[d]
    BY <1>t, <2>5, Zenon
  <2>7. UNCHANGED <<flag, present>> /\ in[c] = "setup"
    BY <1>6, Zenon DEF Setup
  <2>8. ~CheckedIn(c)'
    <3>1. stored + 1 \in 1..Len(W)
      BY <2>2, <2>3
    <3> QED BY <2>3, <2>6, <3>1 DEF CheckedIn
  <2> QED BY <2>6, <2>7, <2>8, WorkHarmless, SMTT(30)
<1>7. CASE Reply(c)
  <2>1. /\ in[c] = "work" /\ work[c] # <<>> /\ Head(work[c]) = "send" /\ Advance(c)
        /\ UNCHANGED <<flag, present>>
    BY <1>7, Zenon DEF Reply, Doing
  <2>2. work[c] \in Seq(Steps) /\ work[c][1] = "send"
    BY <1>t, <2>1, HeadIsFirst, Zenon
  <2>3. /\ \A d \in Conns \ {c} : in'[d] = in[d] /\ work'[d] = work[d]
        /\ in'[c] \in {"read", "work", "exit"}
        /\ in'[c] # "work" => work'[c] = <<>>
        /\ \A i \in 1..Len(work[c]) : \/ i = 1
                                      \/ i - 1 \in 1..Len(work'[c]) /\ work'[c][i - 1] = work[c][i]
    BY <2>1, AdvanceWork, ZenonT(60)
  <2>4. ASSUME CheckedIn(c)' PROVE CheckedIn(c)
    <3>1. \A i \in 1..Len(work'[c]) : work'[c][i] # "checkin"
      BY <2>4, Zenon DEF CheckedIn
    <3>2. \A i \in 1..Len(work[c]) : work[c][i] # "checkin"
      BY <2>2, <2>3, <3>1, ZenonT(60)
    <3> QED BY <2>1, <2>4, <3>2, SMTT(30) DEF CheckedIn
  <2> QED BY <2>1, <2>3, <2>4, WorkHarmless
<1> QED BY <1>1, <1>2, <1>3, <1>4, <1>5, <1>6, <1>7, SMTT(30) DEF OtherStep

----------------------------------------------------------------------------
(* The steps that do change them.                                          *)

LEMMA HarmlessPresence == PresenceInv /\ Harmless => PresenceInv'
<1> SUFFICES ASSUME PresenceInv, Harmless PROVE PresenceInv'
  OBVIOUS
<1>0. /\ flag' = flag /\ present' = present
      /\ \A d \in Conns : in'[d] = "done" <=> in[d] = "done"
  BY DEF Harmless
<1>1. PresentInv'
  BY <1>0 DEF PresenceInv, PresentInv
<1>2. IdleInv'
  BY DEF Harmless
<1>3. ASSUME Orderly PROVE PresentHasSession'
  <2> SUFFICES ASSUME NEW u \in present
               PROVE  \E d \in Conns : flag[d] # NoId /\ UserOf[flag[d]] = u /\ in'[d] # "done"
    BY <1>0 DEF PresentHasSession
  <2>1. PICK d \in Conns : flag[d] # NoId /\ UserOf[flag[d]] = u /\ in[d] # "done"
    BY <1>3 DEF PresenceInv, PresentHasSession
  <2> QED BY <1>0, <2>1, Zenon
<1>4. AbsentWasTakenOver'
  <2> SUFFICES ASSUME NEW d \in Conns, CheckedIn(d)', UserOf[flag[d]] \notin present
               PROVE  \E e \in Conns \ {d} : /\ flag[e] # NoId
                                             /\ UserOf[flag[e]] = UserOf[flag[d]]
                                             /\ in'[e] = "done"
    BY <1>0, Zenon DEF AbsentWasTakenOver
  <2>1. CheckedIn(d)
    BY Zenon DEF Harmless
  <2>2. PICK e \in Conns \ {d} : /\ flag[e] # NoId
                                 /\ UserOf[flag[e]] = UserOf[flag[d]]
                                 /\ in[e] = "done"
    BY <2>1, Zenon DEF PresenceInv, AbsentWasTakenOver
  <2> QED BY <1>0, <2>2, Zenon
<1> QED BY <1>1, <1>2, <1>3, <1>4, SMTT(30) DEF PresenceInv

(* doConnect gives a connection its flag, the only one if it is orderly.   *)
LEMMA ConnectPresence ==
  ASSUME SessionTypeOK, PresenceInv, NEW c \in Conns, Connect(c)
  PROVE  PresenceInv'
<1>t. in \in [Conns -> InStates] /\ flag \in [Conns -> Ids \cup {NoId}]
  BY Zenon DEF SessionTypeOK
<1>1. /\ in[c] = "read" /\ UNCHANGED <<work, present>>
      /\ \A d \in Conns \ {c} : flag'[d] = flag[d] /\ in'[d] = in[d]
      /\ in'[c] = "add"
  <2>1. /\ in[c] = "read" /\ UNCHANGED <<work, present>>
        /\ in' = [in EXCEPT ![c] = "add"]
        /\ \E id \in IdsOf[c] : flag' = [flag EXCEPT ![c] = id]
    BY ZenonT(30) DEF Connect, Receives, Goto
  <2> QED BY <1>t, <2>1
<1>2. PresentInv'
  BY <1>1 DEF PresenceInv, PresentInv
<1>3. IdleInv'
  BY <1>1 DEF PresenceInv, IdleInv
<1>4. ASSUME Orderly PROVE PresentHasSession'
  <2> SUFFICES ASSUME NEW u \in present
               PROVE  \E d \in Conns : flag'[d] # NoId /\ UserOf[flag'[d]] = u /\ in'[d] # "done"
    BY <1>1 DEF PresentHasSession
  <2>1. PICK d \in Conns : flag[d] # NoId /\ UserOf[flag[d]] = u /\ in[d] # "done"
    BY <1>4 DEF PresenceInv, PresentHasSession
  <2>2. flag[c] = NoId
    BY <1>4, Zenon DEF Connect
  <2> QED BY <1>1, <2>1, <2>2, ZenonT(60)
<1>5. AbsentWasTakenOver'
  <2> SUFFICES ASSUME NEW d \in Conns, CheckedIn(d)', UserOf[flag'[d]] \notin present'
               PROVE  \E e \in Conns \ {d} : /\ flag'[e] # NoId
                                             /\ UserOf[flag'[e]] = UserOf[flag'[d]]
                                             /\ in'[e] = "done"
    BY Zenon DEF AbsentWasTakenOver
  <2>1. d # c
    BY <1>1 DEF CheckedIn
  <2>2. CheckedIn(d) /\ UserOf[flag[d]] \notin present
    BY <1>1, <2>1, Zenon DEF CheckedIn
  <2>3. PICK e \in Conns \ {d} : /\ flag[e] # NoId
                                 /\ UserOf[flag[e]] = UserOf[flag[d]]
                                 /\ in[e] = "done"
    BY <2>2, Zenon DEF PresenceInv, AbsentWasTakenOver
  <2> QED BY <1>1, <2>1, <2>3, SMTT(30)
<1> QED BY <1>2, <1>3, <1>4, <1>5, SMTT(30) DEF PresenceInv

(* A check-in makes its own user present, and nobody absent.               *)
LEMMA CheckInPresence ==
  ASSUME ~RedisMayFail, SessionTypeOK, FlagInv, PresenceInv, NEW c \in Conns, CheckIn(c)
  PROVE  PresenceInv'
<1>t. in \in [Conns -> InStates] /\ work \in [Conns -> Seq(Steps)]
  BY Zenon DEF SessionTypeOK
<1>1. /\ in[c] = "work" /\ work[c] # <<>> /\ Head(work[c]) = "checkin" /\ Advance(c)
      /\ UNCHANGED flag
  BY Zenon DEF CheckIn, Doing
<1>2. present' = IF EnablePresence /\ UserOf[flag[c]] # NoUser
                 THEN present \cup {UserOf[flag[c]]} ELSE present
  <2>1. \A failed \in {FALSE, RedisMayFail} : ~failed
    BY Zenon
  <2> QED BY <2>1, Zenon DEF CheckIn, Store
<1>3. /\ \A d \in Conns \ {c} : in'[d] = in[d] /\ work'[d] = work[d]
      /\ in'[c] \in {"read", "work", "exit"}
      /\ in'[c] # "work" => work'[c] = <<>>
  BY <1>1, AdvanceWork, Zenon
<1>4. flag[c] # NoId
  <2>1. 1 \in 1..Len(work[c]) /\ work[c][1] = "checkin"
    BY <1>t, <1>1, SMTT(30)
  <2> QED BY <2>1 DEF FlagInv
<1>5. PresentInv'
  BY <1>2 DEF PresenceInv, PresentInv
<1>6. IdleInv'
  BY <1>1, <1>3, <1>4, ZenonT(60) DEF PresenceInv, IdleInv
<1>7. ASSUME Orderly PROVE PresentHasSession'
  <2> SUFFICES ASSUME NEW u \in present'
               PROVE  \E d \in Conns : flag[d] # NoId /\ UserOf[flag[d]] = u /\ in'[d] # "done"
    BY <1>1 DEF PresentHasSession
  <2>1. CASE u \in present
    <3>1. PICK d \in Conns : flag[d] # NoId /\ UserOf[flag[d]] = u /\ in[d] # "done"
      BY <1>7, <2>1 DEF PresenceInv, PresentHasSession
    <3> QED BY <1>3, <3>1, ZenonT(60)
  <2>2. CASE u = UserOf[flag[c]]
    BY <1>3, <1>4, <2>2, ZenonT(60)
  <2> QED BY <1>2, <2>1, <2>2, SMTT(30)
<1>8. AbsentWasTakenOver'
  <2> SUFFICES ASSUME NEW d \in Conns, CheckedIn(d)', UserOf[flag[d]] \notin present'
               PROVE  \E e \in Conns \ {d} : /\ flag[e] # NoId
                                             /\ UserOf[flag[e]] = UserOf[flag[d]]
                                             /\ in'[e] = "done"
    BY <1>1, Zenon DEF AbsentWasTakenOver
  <2>1. d # c
    BY <1>1, <1>2 DEF CheckedIn
  <2>2. CheckedIn(d) /\ UserOf[flag[d]] \notin present
    <3>1. UserOf[flag[d]] \notin present
      BY <1>2
    <3> QED BY <1>1, <1>3, <2>1, <3>1, ZenonT(60) DEF CheckedIn
  <2>3. PICK e \in Conns \ {d} : /\ flag[e] # NoId
                                 /\ UserOf[flag[e]] = UserOf[flag[d]]
                                 /\ in[e] = "done"
    BY <2>2, Zenon DEF PresenceInv, AbsentWasTakenOver
  <2> QED BY <1>1, <1>3, <2>3, SMTT(30)
<1> QED BY <1>5, <1>6, <1>7, <1>8, SMTT(30) DEF PresenceInv

(* The end of a session makes its own user absent, and it is done.         *)
LEMMA TerminatePresence ==
  ASSUME ~RedisMayFail, SessionTypeOK, PresenceInv, NEW c \in Conns, Terminate(c)
  PROVE  PresenceInv'
<1>t. in \in [Conns -> InStates]
  BY Zenon DEF SessionTypeOK
<1>1. /\ in[c] = "term" /\ flag' = flag /\ work' = work
      /\ in'[c] = "done" /\ \A d \in Conns \ {c} : in'[d] = in[d]
  <2>1. in[c] = "term" /\ flag' = flag /\ work' = work /\ in' = [in EXCEPT ![c] = "done"]
    BY Zenon DEF Terminate, Goto
  <2> QED BY <1>t, <2>1
<1>2. present' \subseteq present /\ present \subseteq present' \cup {UserOf[flag[c]]}
  BY Zenon DEF Terminate, CheckOut, DelKey
<1>3. flag[c] # NoId => UserOf[flag[c]] \notin present'
  <2>1. SUFFICES ASSUME flag[c] # NoId PROVE UserOf[flag[c]] \notin present'
    OBVIOUS
  <2>2. CheckOut(c)
    BY <2>1, Zenon DEF Terminate
  <2>3. CASE EnablePresence /\ UserOf[flag[c]] # NoUser
    <3>1. \A failed \in {FALSE, RedisMayFail} : ~failed
      BY Zenon
    <3>2. present' = present \ {UserOf[flag[c]]}
      BY <2>2, <2>3, <3>1, Zenon DEF CheckOut, DelKey
    <3> QED BY <3>2
  <2>4. CASE ~EnablePresence
    BY <1>2, <2>4, Zenon DEF PresenceInv, PresentInv
  <2>5. CASE UserOf[flag[c]] = NoUser
    BY <1>2, <2>5, Zenon DEF PresenceInv, PresentInv
  <2> QED BY <2>3, <2>4, <2>5, SMTT(30)
<1>4. PresentInv'
  BY <1>2 DEF PresenceInv, PresentInv
<1>5. IdleInv'
  BY <1>1 DEF PresenceInv, IdleInv
<1>6. ASSUME Orderly PROVE PresentHasSession'
  <2> SUFFICES ASSUME NEW u \in present'
               PROVE  \E d \in Conns : flag[d] # NoId /\ UserOf[flag[d]] = u /\ in'[d] # "done"
    BY <1>1 DEF PresentHasSession
  <2>1. PICK d \in Conns : flag[d] # NoId /\ UserOf[flag[d]] = u /\ in[d] # "done"
    BY <1>2, <1>6 DEF PresenceInv, PresentHasSession
  <2>2. d # c
    BY <1>3, <2>1, ZenonT(60)
  <2> QED BY <1>1, <2>1, <2>2, ZenonT(60)
<1>7. AbsentWasTakenOver'
  <2> SUFFICES ASSUME NEW d \in Conns, CheckedIn(d)', UserOf[flag[d]] \notin present'
               PROVE  \E e \in Conns \ {d} : /\ flag[e] # NoId
                                             /\ UserOf[flag[e]] = UserOf[flag[d]]
                                             /\ in'[e] = "done"
    BY <1>1, Zenon DEF AbsentWasTakenOver
  <2>1. d # c
    BY <1>1 DEF CheckedIn
  <2>2. CheckedIn(d)
    BY <1>1, <2>1, Zenon DEF CheckedIn
  <2>3. CASE UserOf[flag[d]] \in present
    <3>1. UserOf[flag[c]] = UserOf[flag[d]]
      BY <1>2, <2>3, SMTT(30)
    <3>2. flag[c] # NoId
      <4>1. SUFFICES ASSUME flag[c] = NoId PROVE FALSE
        OBVIOUS
      <4>2. EnablePresence
        BY <2>3 DEF PresenceInv, PresentInv
      <4>3. present' = present
        BY <4>1, <4>2, Zenon DEF Terminate
      <4> QED BY <2>3, <4>3, SMTT(30)
    <3> QED BY <1>1, <2>1, <3>1, <3>2, ZenonT(60)
  <2>4. CASE UserOf[flag[d]] \notin present
    <3>1. PICK e \in Conns \ {d} : /\ flag[e] # NoId
                                   /\ UserOf[flag[e]] = UserOf[flag[d]]
                                   /\ in[e] = "done"
      BY <2>2, <2>4, Zenon DEF PresenceInv, AbsentWasTakenOver
    <3> QED BY <1>1, <3>1
  <2> QED BY <2>3, <2>4
<1> QED BY <1>4, <1>5, <1>6, <1>7, SMTT(30) DEF PresenceInv

(* A redis that does not fail keeps the invariant.                         *)
LEMMA PresenceStep ==
  ASSUME ~RedisMayFail, SessionInv, PresenceInv, [SessionNext]_sessionVars
  PROVE  PresenceInv'
<1>0. SessionTypeOK /\ FlagInv /\ IdleInv
  BY Zenon DEF SessionInv, PresenceInv
<1>1. ASSUME NEW c \in Conns, SessionStep(c) \/ OutUnsubAll(c) PROVE PresenceInv'
  <2>1. OtherStep(c) \/ Connect(c) \/ CheckIn(c) \/ Terminate(c)
    BY <1>1, ZenonT(30) DEF SessionStep, Client, Inbound, Outbound, Heartbeat, OtherStep
  <2>2. CASE OtherStep(c)
    BY <1>0, <2>2, OtherHarmless, HarmlessPresence, SMTT(30)
  <2>3. CASE Connect(c)
    BY <1>0, <2>3, ConnectPresence, SMTT(30)
  <2>4. CASE CheckIn(c)
    BY <1>0, <2>4, CheckInPresence, SMTT(30)
  <2>5. CASE Terminate(c)
    BY <1>0, <2>5, TerminatePresence, SMTT(30)
  <2> QED BY <2>1, <2>2, <2>3, <2>4, <2>5, Zenon
<1>2. CASE UNCHANGED sessionVars
  <2>1. Harmless
    BY <1>0, <1>2 DEF sessionVars, Harmless, IdleInv, CheckedIn
  <2> QED BY <2>1, HarmlessPresence, ZenonT(60)
<1> QED BY <1>1, <1>2, Zenon DEF SessionNext

LEMMA PresenceInvariant ==
  ASSUME ~RedisMayFail
  PROVE  SessionSpec => []PresenceInv
<1>1. SessionInit => SessionInv /\ PresenceInv
  BY InitInv, PresenceInit
<1>2. SessionInv /\ PresenceInv /\ [SessionNext]_sessionVars => (SessionInv /\ PresenceInv)'
  <2> SUFFICES ASSUME SessionInv, PresenceInv, [SessionNext]_sessionVars
               PROVE  (SessionInv /\ PresenceInv)'
    OBVIOUS
  <2>1. SessionInv'
    BY SessionStepInv, SessionStutter, Zenon DEF SessionNext
  <2> QED BY <2>1, PresenceStep
<1> QED BY <1>1, <1>2, PTL DEF SessionSpec

(* Whoever is checked in has a session left, if clients send one CONNECT,  *)
(* first.                                                                  *)
THEOREM PresentSafe ==
  ASSUME Orderly, ~RedisMayFail
  PROVE  SessionSpec => []PresentHasSession
<1>1. PresenceInv => PresentHasSession
  BY DEF PresenceInv
<1> QED BY <1>1, PresenceInvariant, PTL

(* Presence is exact up to takeovers: whoever has a session and is absent  *)
(* was checked out by another session of theirs.                           *)
THEOREM AbsentSafe ==
  ASSUME ~RedisMayFail
  PROVE  SessionSpec => []AbsentWasTakenOver
<1>1. PresenceInv => AbsentWasTakenOver
  BY DEF PresenceInv
<1> QED BY <1>1, PresenceInvariant, PTL

----------------------------------------------------------------------------
(* The receipts                                                            *)

(* Queues that only grow, and receipts that nobody gives up who waits.     *)
Keeps(d) ==
  in'[d] = "wait" => /\ in[d] = "wait"
                     /\ target'[d] = target[d]
                     /\ <<d, "in">> \in released => <<d, "in">> \in released'

Grows == \A t \in Conns : \A i \in 1..Len(jobs[t]) :
           i \in 1..Len(jobs'[t]) /\ jobs'[t][i] = jobs[t][i]

LEMMA GrowKeeps ==
  ASSUME ReceiptInv, ReceiptKept, Running, Grows, NEW d \in Conns, Keeps(d), in'[d] = "wait"
  PROVE  \/ <<d, "in">> \in released'
         \/ \E i \in 1..Len(jobs'[target'[d]]) : jobs'[target'[d]][i] = Kick(<<d, "in">>)
<1>1. /\ in[d] = "wait" /\ target'[d] = target[d]
      /\ <<d, "in">> \in released => <<d, "in">> \in released'
  BY Zenon DEF Keeps
<1>2. target[d] \in Conns
  BY <1>1 DEF ReceiptInv
<1>3. CASE <<d, "in">> \in released
  BY <1>1, <1>3, Zenon
<1>4. ASSUME NEW i \in 1..Len(jobs[target[d]]), jobs[target[d]][i] = Kick(<<d, "in">>)
      PROVE  \E j \in 1..Len(jobs'[target'[d]]) : jobs'[target'[d]][j] = Kick(<<d, "in">>)
  <2>1. i \in 1..Len(jobs'[target[d]]) /\ jobs'[target[d]][i] = jobs[target[d]][i]
    BY <1>2, Zenon DEF Grows
  <2> QED BY <1>1, <1>4, <2>1, Zenon
<1> QED BY <1>1, <1>3, <1>4, Zenon DEF ReceiptKept

(* What appending to a queue does to all of them.                          *)
LEMMA EnqueueGrows ==
  ASSUME SessionTypeOK, NEW t \in Conns, NEW j \in Job, Enqueue(t, j)
  PROVE  /\ Grows
         /\ \E i \in 1..Len(jobs'[t]) : jobs'[t][i] = j
<1>1. jobs \in [Conns -> Seq(Job)] /\ jobs' = [jobs EXCEPT ![t] = Append(@, j)]
  BY Zenon DEF SessionTypeOK, Enqueue
<1>2. /\ \A d \in Conns : d # t => jobs'[d] = jobs[d]
      /\ Len(jobs'[t]) = Len(jobs[t]) + 1
      /\ \A i \in 1..Len(jobs[t]) : jobs'[t][i] = jobs[t][i]
      /\ jobs'[t][Len(jobs[t]) + 1] = j
  BY <1>1, AppendAt, SMTT(30)
<1>3. Len(jobs[t]) \in Nat
  BY <1>1, LenProperties, SMTT(30)
<1>4. Grows
  BY <1>2, <1>3, SMTT(30) DEF Grows
<1>5. Len(jobs[t]) + 1 \in 1..Len(jobs'[t])
  BY <1>2, <1>3
<1> QED BY <1>2, <1>4, <1>5, Zenon

(* Every step but that of outboundLoop only lets the queues grow.          *)
LEMMA QueuesGrow ==
  ASSUME SessionTypeOK, ReceiptInv, NEW c \in Conns, SessionStep(c) \/ OutUnsubAll(c), ~OutWrite(c)
  PROVE  /\ Running
         /\ Grows
         /\ \A d \in Conns : Keeps(d) \/ (d = c /\ EvictSend(c))
<1>t. /\ in \in [Conns -> InStates] /\ target \in [Conns -> Conns \cup {NoConn}]
  BY Zenon DEF SessionTypeOK
<1>p. Packet \in Job
  BY DEF Packet, Job
<1>0. jobs' = jobs => Grows
  BY DEF Grows
<1>1. CASE Reply(c)
  <2>1. /\ Running /\ in[c] = "work" /\ Advance(c) /\ target' = target /\ released' = released
        /\ jobs' = jobs \/ Enqueue(c, Packet)
    BY <1>1, Zenon DEF Reply, Doing
  <2>2. Grows
    BY <1>0, <1>p, <2>1, EnqueueGrows, Zenon
  <2>3. /\ \A d \in Conns \ {c} : in'[d] = in[d]
        /\ in'[c] # "wait"
    BY <1>t, <2>1 DEF Advance, Goto
  <2> QED BY <2>1, <2>2, <2>3, Zenon DEF Keeps
<1>2. CASE EvictSend(c)
  <2>1. /\ Running /\ in' = [in EXCEPT ![c] = "wait"] /\ target' = target /\ released' = released
        /\ SubmitSync(target[c], <<c, "in">>) /\ in[c] = "evict"
    BY <1>2, ZenonT(60) DEF EvictSend, Goto
  <2>2. target[c] \in Conns /\ Kick(<<c, "in">>) \in Job
    BY <2>1 DEF ReceiptInv, Kick, Job, Waiters
  <2>3. Grows
    BY <1>0, <2>1, <2>2, EnqueueGrows, Zenon DEF SubmitSync
  <2>4. \A d \in Conns \ {c} : in'[d] = in[d]
    BY <1>t, <2>1, Zenon
  <2> QED BY <1>2, <2>1, <2>3, <2>4, Zenon DEF Keeps
<1>3. CASE HbSend(c)
  <2>1. /\ Running /\ in' = in /\ target' = target /\ released' = released
        /\ SubmitSync(c, <<c, "hb">>)
    BY <1>3, Zenon DEF HbSend
  <2>2. Kick(<<c, "hb">>) \in Job
    BY DEF Kick, Job, Waiters
  <2>3. Grows
    BY <1>0, <2>1, <2>2, EnqueueGrows, Zenon DEF SubmitSync
  <2> QED BY <2>1, <2>3, Zenon DEF Keeps
<1>4. CASE HbWait(c)
  <2>1. /\ Running /\ in' = in /\ target' = target /\ jobs' = jobs
        /\ released' = released \ {<<c, "hb">>}
    BY <1>4, Zenon DEF HbWait
  <2>2. \A d \in Conns : <<d, "in">> # <<c, "hb">>
    OBVIOUS
  <2> QED BY <1>0, <2>1, <2>2, Zenon DEF Keeps
<1>5. CASE EvictWait(c)
  <2>1. /\ Running /\ in' = [in EXCEPT ![c] = "del"] /\ target' = target /\ jobs' = jobs
        /\ released' = released \ {<<c, "in">>}
    BY <1>5, Zenon DEF EvictWait, Goto
  <2>2. \A d \in Conns \ {c} : in'[d] = in[d] /\ <<d, "in">> # <<c, "in">>
    BY <1>t, <2>1, SMTT(30)
  <2>3. in'[c] = "del"
    BY <1>t, <2>1, SMTT(30)
  <2>4. \A d \in Conns : Keeps(d)
    BY <2>1, <2>2, <2>3, ZenonT(60) DEF Keeps
  <2> QED BY <1>0, <2>1, <2>4, SMTT(30)
<1>6. CASE Add(c)
  <2>1. /\ Running /\ jobs' = jobs /\ released' = released
        /\ \E pc \in {"add2", "evict"} : in' = [in EXCEPT ![c] = pc]
        /\ target' = [target EXCEPT ![c] = clients[flag[c]]]
    BY <1>6, Zenon DEF Add, Goto
  <2>2. /\ \A d \in Conns \ {c} : in'[d] = in[d] /\ target'[d] = target[d]
        /\ in'[c] # "wait"
    BY <1>t, <2>1, ZenonT(60)
  <2>3. \A d \in Conns : Keeps(d)
    BY <2>1, <2>2, SMTT(30) DEF Keeps
  <2> QED BY <1>0, <2>1, <2>3, SMTT(30)
<1>7. CASE PingReq(c) \/ Setup(c)
  <2>1. /\ Running /\ jobs' = jobs /\ released' = released /\ target' = target
        /\ \E pc \in {"read", "work"} : in' = [in EXCEPT ![c] = pc]
    BY <1>7, Zenon DEF PingReq, ReceivesRequest, Receives, Setup, Handle, Goto
  <2>2. in'[c] # "wait" /\ \A d \in Conns \ {c} : in'[d] = in[d]
    BY <1>t, <2>1
  <2> QED BY <1>0, <2>1, <2>2, Zenon DEF Keeps
<1>8. CASE CheckIn(c)
  <2>1. Running /\ jobs' = jobs /\ released' = released /\ target' = target /\ Advance(c)
    BY <1>8, Zenon DEF CheckIn, Doing
  <2>2. in'[c] # "wait" /\ \A d \in Conns \ {c} : in'[d] = in[d]
    BY <1>t, <2>1 DEF Advance, Goto
  <2> QED BY <1>0, <2>1, <2>2, Zenon DEF Keeps
<1>9. CASE \/ Accept(c) \/ Connect(c) \/ ClientLeaves(c) \/ EvictDel(c) \/ AddAgain(c)
           \/ ReadClosed(c) \/ ExitCount(c) \/ ExitAlive(c) \/ ExitClose(c) \/ Terminate(c)
  <2> DEFINE P == {"read", "add", "exit", "add2", "setup", "uncounted", "closing", "term", "done"}
  <2>1. /\ Running /\ jobs' = jobs /\ released' = released /\ target' = target
        /\ \E pc \in P : in' = [in EXCEPT ![c] = pc]
    BY <1>9, ZenonT(60) DEF Accept, Connect, Receives, ClientLeaves, EvictDel, AddAgain, ReadClosed,
                            ExitCount, ExitAlive, ExitClose, Terminate, Goto
  <2>2. in'[c] # "wait" /\ \A d \in Conns \ {c} : in'[d] = in[d]
    BY <1>t, <2>1
  <2> QED BY <1>0, <2>1, <2>2, Zenon DEF Keeps
<1>10. CASE \/ OutLeave(c) \/ OutClose(c) \/ OutDel(c) \/ OutUnsubAll(c)
            \/ HbExpire(c) \/ HbStop(c)
  <2>1. Running /\ jobs' = jobs /\ released' = released /\ target' = target /\ in' = in
    BY <1>10, Zenon DEF OutLeave, OutClose, OutDel, OutUnsubAll, HbExpire, HbStop
  <2> QED BY <1>0, <2>1, Zenon DEF Keeps
<1> QED BY <1>1, <1>2, <1>3, <1>4, <1>5, <1>6, <1>7, <1>8, <1>9, <1>10, ZenonT(60)
        DEF SessionStep, Client, Inbound, Outbound, Heartbeat

(* outboundLoop takes a job off its own queue and releases its receipt.    *)
LEMMA OutWriteReceipt ==
  ASSUME SessionTypeOK, ReceiptInv, ReceiptKept, NEW c \in Conns, OutWrite(c)
  PROVE  ReceiptKept'
<1>1. /\ Running /\ in' = in /\ target' = target
      /\ jobs \in [Conns -> Seq(Job)] /\ jobs[c] # <<>>
      /\ jobs' = [jobs EXCEPT ![c] = Tail(@)]
      /\ released' = released \cup Head(jobs[c]).r
  BY ZenonT(60) DEF OutWrite, Release, SessionTypeOK
<1>2. /\ jobs' \in [Conns -> Seq(Job)]
      /\ \A t \in Conns : t # c => jobs'[t] = jobs[t]
      /\ Len(jobs[c]) \in Nat \ {0}
      /\ Len(jobs'[c]) = Len(jobs[c]) - 1
      /\ \A i \in 1..Len(jobs'[c]) : i + 1 \in 1..Len(jobs[c]) /\ jobs'[c][i] = jobs[c][i + 1]
      /\ Head(jobs[c]) = jobs[c][1]
  BY <1>1, TailAt, SMTT(30)
<1> SUFFICES ASSUME NEW d \in Conns, in[d] = "wait"
             PROVE  \/ <<d, "in">> \in released'
                    \/ \E i \in 1..Len(jobs'[target[d]]) :
                         jobs'[target[d]][i] = Kick(<<d, "in">>)
  BY <1>1, Zenon DEF ReceiptKept
<1>3. target[d] \in Conns
  BY Zenon DEF ReceiptInv
<1>4. CASE <<d, "in">> \in released
  BY <1>1, <1>4, ZenonT(60)
<1>5. ASSUME NEW i \in 1..Len(jobs[target[d]]), jobs[target[d]][i] = Kick(<<d, "in">>)
      PROVE  \/ <<d, "in">> \in released'
             \/ \E j \in 1..Len(jobs'[target[d]]) : jobs'[target[d]][j] = Kick(<<d, "in">>)
  <2>1. CASE target[d] # c
    BY <1>2, <1>3, <1>5, <2>1, ZenonT(60)
  <2>2. CASE target[d] = c /\ i = 1
    <3>1. <<d, "in">> \in Kick(<<d, "in">>).r
      BY DEF Kick
    <3> QED BY <1>1, <1>2, <1>5, <2>2, <3>1, ZenonT(60)
  <2>3. CASE target[d] = c /\ i # 1
    <3>1. i - 1 \in 1..Len(jobs'[c]) /\ (i - 1) + 1 = i
      BY <1>2, <2>3, SMTT(30)
    <3>2. jobs'[c][i - 1] = jobs[c][i]
      BY <1>2, <3>1
    <3> QED BY <1>5, <2>3, <3>1, <3>2, ZenonT(60)
  <2> QED BY <2>1, <2>2, <2>3, SMTT(30)
<1> QED BY <1>1, <1>4, <1>5, Zenon DEF ReceiptKept

(* The receipt of a kick is in the queue when its sender begins to wait,   *)
(* unless the queue was full and the server crashed.                       *)
LEMMA EvictSendReceipt ==
  ASSUME SessionTypeOK, ReceiptInv, NEW c \in Conns, EvictSend(c), Running'
  PROVE  \E i \in 1..Len(jobs'[target'[c]]) : jobs'[target'[c]][i] = Kick(<<c, "in">>)
<1>1. /\ in[c] = "evict" /\ target' = target
      /\ SubmitSync(target[c], <<c, "in">>)
  BY Zenon DEF EvictSend
<1>2. target[c] \in Conns /\ Kick(<<c, "in">>) \in Job
  BY <1>1 DEF ReceiptInv, Kick, Job, Waiters
<1>3. Enqueue(target[c], Kick(<<c, "in">>))
  BY <1>1, Zenon DEF SubmitSync, Crash, Running
<1> QED BY <1>1, <1>2, <1>3, EnqueueGrows, Zenon

LEMMA ReceiptStep ==
  ASSUME SessionInv, ReceiptKept, [SessionNext]_sessionVars
  PROVE  ReceiptKept'
<1>0. SessionTypeOK /\ ReceiptInv
  BY Zenon DEF SessionInv
<1>1. CASE UNCHANGED sessionVars
  BY <1>1, Zenon DEF sessionVars, ReceiptKept, Running
<1>2. ASSUME NEW c \in Conns, SessionStep(c) \/ OutUnsubAll(c)
      PROVE  ReceiptKept'
  <2>1. CASE OutWrite(c)
    BY <1>0, <2>1, OutWriteReceipt, SMTT(30)
  <2>2. CASE ~OutWrite(c)
    <3> SUFFICES ASSUME NEW d \in Conns, Running', in'[d] = "wait"
                 PROVE  \/ <<d, "in">> \in released'
                        \/ \E i \in 1..Len(jobs'[target'[d]]) :
                             jobs'[target'[d]][i] = Kick(<<d, "in">>)
      BY Zenon DEF ReceiptKept
    <3>1. Running /\ Grows /\ (Keeps(d) \/ (d = c /\ EvictSend(c)))
      BY <1>0, <1>2, <2>2, QueuesGrow, Zenon
    <3>2. CASE Keeps(d)
      BY <1>0, <3>1, <3>2, GrowKeeps, Zenon
    <3>3. CASE d = c /\ EvictSend(c)
      BY <1>0, <3>3, EvictSendReceipt, Zenon
    <3> QED BY <3>1, <3>2, <3>3, Zenon
  <2> QED BY <2>1, <2>2
<1> QED BY <1>1, <1>2, Zenon DEF SessionNext

(* A takeover never waits for a receipt that nobody will give: submitSync  *)
(* hands the closing message to the other session's queue and              *)
(* outboundLoop releases the receipt of every job it takes, also of the    *)
(* one whose write failed.                                                 *)
THEOREM ReceiptSafe == SessionSpec => []ReceiptKept
<1>1. SessionInit => ReceiptKept
  BY Zenon DEF SessionInit, ReceiptKept
<1>2. SessionInv /\ [SessionNext]_sessionVars => SessionInv'
  BY SessionStepInv, SessionStutter, Zenon DEF SessionNext
<1>3. SessionInv /\ ReceiptKept /\ [SessionNext]_sessionVars => ReceiptKept'
  BY ReceiptStep
<1> QED BY <1>1, <1>2, <1>3, InitInv, PTL DEF SessionSpec

=============================================================================
