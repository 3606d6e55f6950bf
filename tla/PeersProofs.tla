---------------------------- MODULE PeersProofs ----------------------------
(***************************************************************************)
(* Proofs about replication, for any number of publishers, peers and       *)
(* messages, any queue length and either strategy: with links that fail,   *)
(* peers that join and endpoints that stop, no peer gets a message twice,  *)
(* and no connection reorders the messages of a client.                    *)
(***************************************************************************)
EXTENDS Peers, SequenceTheorems, TLAPS

(* All of A were published before those of B by the same client.           *)
Before(A, B) == \A a \in A, b \in B : a[1] = b[1] => a[2] < b[2]

(* The messages in a sequence of messages, and in one of tuples that begin *)
(* with a message; whether those of a client are in order.                 *)
Elems(s) == {s[i] : i \in 1 .. Len(s)}
Items(s) == {s[i][1] : i \in 1 .. Len(s)}

ElemsSorted(s) ==
  \A i, j \in 1 .. Len(s) : i < j /\ s[i][1] = s[j][1] => s[i][2] < s[j][2]

ItemsSorted(s) ==
  \A i, j \in 1 .. Len(s) : i < j /\ s[i][1][1] = s[j][1][1] => s[i][1][2] < s[j][1][2]

(* The places a message for a peer goes through.                           *)
Queued(p) == Elems(jobs[p])
Taken(p) == IF ep[p] = "encode" THEN {cur[p]} ELSE {}
OnWay(p, k) == Items(links[p][k])
Got(p) == Items(received[p])
GotOn(p, k) == {received[p][i][1] : i \in {j \in 1 .. Len(received[p]) : received[p][j][3] = k}}
Passed(p) == Got(p) \cup UNION {OnWay(p, k) : k \in 1 .. Len(links[p])}
AtPeer(p) == Passed(p) \cup Taken(p) \cup Queued(p)

(* What ReplicaInOrder says of one peer.                                   *)
GotSorted(p) ==
  \A i, j \in 1 .. Len(received[p]) :
    i < j => /\ received[p][i][1] # received[p][j][1]
             /\ received[p][i][3] = received[p][j][3] /\ received[p][i][1][1] = received[p][j][1][1]
                  => received[p][i][1][2] < received[p][j][1][2]

(* Each connection is in order, after what came of it, and no message is   *)
(* in two places.                                                          *)
WayInv(p) ==
  \A k \in 1 .. Len(links[p]) :
    /\ ItemsSorted(links[p][k])
    /\ Before(GotOn(p, k), OnWay(p, k))
    /\ Got(p) \cap OnWay(p, k) = {}
    /\ \A l \in 1 .. Len(links[p]) : l # k => OnWay(p, l) \cap OnWay(p, k) = {}

(* Each place is in order, and each place before the next.                 *)
OrderInv(p) ==
  /\ ElemsSorted(jobs[p])
  /\ Before(Passed(p) \cup Taken(p), Queued(p))
  /\ Before(Passed(p), Taken(p))
  /\ WayInv(p)
  /\ GotSorted(p)

(* A handler submits to a peer what is newer than all that the peer has of *)
(* the client.                                                             *)
NewerInv(p) ==
  /\ \A m \in AtPeer(p) : m[2] <= sent[m[1]]
  /\ \A c \in Clients : p \in rest[c] \/ sending[c] = p =>
       /\ sent[c] > 0
       /\ \A m \in AtPeer(p) : m[1] = c => m[2] < sent[c]

(* Nothing was submitted to a host that has not joined.                    *)
JoinInv(p) ==
  /\ p \notin nodes => /\ AtPeer(p) = {}
                       /\ ep[p] = "new"
                       /\ \A c \in Clients : p \notin rest[c] /\ sending[c] # p
  /\ ep[p] \in {"run", "encode"} => links[p] # <<>>
  /\ \A c \in Clients : p \in rest[c] => sending[c] # p

PeersInv ==
  /\ TypeOK
  /\ \A p \in Peers : OrderInv(p) /\ NewerInv(p) /\ JoinInv(p)

----------------------------------------------------------------------------
(* Sequences                                                               *)

LEMMA NoMsgIsNone == NoMsg \notin Msgs
  BY DEF NoMsg, Msgs

LEMMA AppendItem ==
  ASSUME NEW S, NEW s \in Seq(S), NEW e \in S
  PROVE  /\ Append(s, e) \in Seq(S)
         /\ Len(Append(s, e)) = Len(s) + 1
         /\ Len(s) \in Nat
         /\ \A i \in 1 .. Len(s) : Append(s, e)[i] = s[i]
         /\ Append(s, e)[Len(s) + 1] = e
  BY AppendProperties, LenProperties

LEMMA TailItem ==
  ASSUME NEW S, NEW s \in Seq(S), s # <<>>
  PROVE  /\ Tail(s) \in Seq(S)
         /\ Head(s) \in S
         /\ Head(s) = s[1]
         /\ Len(s) \in Nat \ {0}
         /\ Len(Tail(s)) = Len(s) - 1
         /\ \A i \in 1 .. Len(Tail(s)) : i + 1 \in 1 .. Len(s) /\ Tail(s)[i] = s[i + 1]
         /\ \A i \in 2 .. Len(s) : i - 1 \in 1 .. Len(Tail(s)) /\ s[i] = Tail(s)[i - 1]
<1>1. /\ Tail(s) \in Seq(S)
      /\ Head(s) \in S
      /\ Head(s) = s[1]
      /\ Len(s) \in Nat \ {0}
      /\ Len(Tail(s)) = Len(s) - 1
      /\ \A i \in 1 .. Len(Tail(s)) : Tail(s)[i] = s[i + 1]
  BY HeadTailProperties
<1>2. \A i \in 1 .. Len(Tail(s)) : i + 1 \in 1 .. Len(s)
  BY <1>1
<1>3. ASSUME NEW i \in 2 .. Len(s)
      PROVE  i - 1 \in 1 .. Len(Tail(s)) /\ s[i] = Tail(s)[i - 1]
  <2>1. i - 1 \in 1 .. Len(Tail(s)) /\ (i - 1) + 1 = i
    BY <1>1
  <2> QED BY <1>1, <2>1, SMTT(30)
<1> QED BY <1>1, <1>2, <1>3, SMTT(30)

LEMMA AppendElems ==
  ASSUME NEW s \in Seq(Msgs), NEW e \in Msgs
  PROVE  /\ Elems(Append(s, e)) = Elems(s) \cup {e}
         /\ ElemsSorted(s) /\ Before(Elems(s), {e}) => ElemsSorted(Append(s, e))
<1> DEFINE t == Append(s, e)
<1>1. /\ Len(t) = Len(s) + 1 /\ Len(s) \in Nat
      /\ \A i \in 1 .. Len(s) : t[i] = s[i]
      /\ t[Len(s) + 1] = e
  BY AppendItem
<1> HIDE DEF t
<1>2. Elems(t) = Elems(s) \cup {e}
  BY <1>1 DEF Elems
<1>3. ASSUME ElemsSorted(s), Before(Elems(s), {e}) PROVE ElemsSorted(t)
  <2> SUFFICES ASSUME NEW i \in 1 .. Len(t), NEW j \in 1 .. Len(t), i < j, t[i][1] = t[j][1]
               PROVE  t[i][2] < t[j][2]
    BY DEF ElemsSorted
  <2>1. i \in 1 .. Len(s) /\ t[i] = s[i]
    BY <1>1
  <2>2. CASE j = Len(s) + 1
    <3>1. t[j] = e /\ s[i] \in Elems(s)
      BY <1>1, <2>1, <2>2, SMTT(30) DEF Elems
    <3> QED BY <1>3, <2>1, <3>1, SMTT(30) DEF Before
  <2>3. CASE j # Len(s) + 1
    <3>1. j \in 1 .. Len(s) /\ t[j] = s[j]
      BY <1>1, <2>3, SMTT(30)
    <3> QED BY <1>3, <2>1, <3>1, SMTT(30) DEF ElemsSorted
  <2> QED BY <2>2, <2>3, SMTT(30)
<1> QED BY <1>2, <1>3, SMTT(30) DEF t

LEMMA AppendItems ==
  ASSUME NEW S, NEW s \in Seq(S), NEW e \in S
  PROVE  /\ Items(Append(s, e)) = Items(s) \cup {e[1]}
         /\ ItemsSorted(s) /\ Before(Items(s), {e[1]}) => ItemsSorted(Append(s, e))
<1> DEFINE t == Append(s, e)
<1>1. /\ Len(t) = Len(s) + 1 /\ Len(s) \in Nat
      /\ \A i \in 1 .. Len(s) : t[i] = s[i]
      /\ t[Len(s) + 1] = e
  BY AppendItem
<1> HIDE DEF t
<1>2. Items(t) = Items(s) \cup {e[1]}
  BY <1>1 DEF Items
<1>3. ASSUME ItemsSorted(s), Before(Items(s), {e[1]}) PROVE ItemsSorted(t)
  <2> SUFFICES ASSUME NEW i \in 1 .. Len(t), NEW j \in 1 .. Len(t), i < j, t[i][1][1] = t[j][1][1]
               PROVE  t[i][1][2] < t[j][1][2]
    BY DEF ItemsSorted
  <2>1. i \in 1 .. Len(s) /\ t[i] = s[i]
    BY <1>1
  <2>2. CASE j = Len(s) + 1
    <3>1. t[j] = e /\ s[i][1] \in Items(s)
      BY <1>1, <2>1, <2>2, SMTT(30) DEF Items
    <3> QED BY <1>3, <2>1, <3>1, SMTT(30) DEF Before
  <2>3. CASE j # Len(s) + 1
    <3>1. j \in 1 .. Len(s) /\ t[j] = s[j]
      BY <1>1, <2>3, SMTT(30)
    <3> QED BY <1>3, <2>1, <3>1, SMTT(30) DEF ItemsSorted
  <2> QED BY <2>2, <2>3, SMTT(30)
<1> QED BY <1>2, <1>3, SMTT(30) DEF t

LEMMA TailElems ==
  ASSUME NEW s \in Seq(Msgs), s # <<>>, ElemsSorted(s)
  PROVE  /\ Elems(s) = {Head(s)} \cup Elems(Tail(s))
         /\ ElemsSorted(Tail(s))
         /\ Before({Head(s)}, Elems(Tail(s)))
<1> DEFINE t == Tail(s)
<1>1. /\ Head(s) = s[1] /\ Len(s) \in Nat \ {0} /\ Len(t) = Len(s) - 1
      /\ \A i \in 1 .. Len(t) : i + 1 \in 1 .. Len(s) /\ t[i] = s[i + 1]
      /\ \A i \in 2 .. Len(s) : i - 1 \in 1 .. Len(t) /\ s[i] = t[i - 1]
  BY TailItem
<1> HIDE DEF t
<1>2. Elems(s) = {s[1]} \cup Elems(t)
  <2>1. \A i \in 1 .. Len(s) : i = 1 \/ i \in 2 .. Len(s)
    OBVIOUS
  <2> QED BY <1>1, <2>1, SMTT(30) DEF Elems
<1>3. ElemsSorted(t)
  <2> SUFFICES ASSUME NEW i \in 1 .. Len(t), NEW j \in 1 .. Len(t), i < j, t[i][1] = t[j][1]
               PROVE  t[i][2] < t[j][2]
    BY DEF ElemsSorted
  <2>1. i + 1 \in 1 .. Len(s) /\ j + 1 \in 1 .. Len(s) /\ i + 1 < j + 1
    BY <1>1, SMTT(30)
  <2> QED BY <1>1, <2>1, SMTT(30) DEF ElemsSorted
<1>4. Before({s[1]}, Elems(t))
  <2> SUFFICES ASSUME NEW i \in 1 .. Len(t), s[1][1] = t[i][1] PROVE s[1][2] < t[i][2]
    BY DEF Before, Elems
  <2>1. i + 1 \in 1 .. Len(s) /\ t[i] = s[i + 1] /\ 1 \in 1 .. Len(s) /\ 1 < i + 1
    BY <1>1
  <2> QED BY <2>1 DEF ElemsSorted
<1> QED BY <1>1, <1>2, <1>3, <1>4, SMTT(30) DEF t

LEMMA TailItems ==
  ASSUME NEW S, NEW s \in Seq(S), s # <<>>, ItemsSorted(s)
  PROVE  /\ Items(s) = {Head(s)[1]} \cup Items(Tail(s))
         /\ ItemsSorted(Tail(s))
         /\ Before({Head(s)[1]}, Items(Tail(s)))
<1> DEFINE t == Tail(s)
<1>1. /\ Head(s) = s[1] /\ Len(s) \in Nat \ {0} /\ Len(t) = Len(s) - 1
      /\ \A i \in 1 .. Len(t) : i + 1 \in 1 .. Len(s) /\ t[i] = s[i + 1]
      /\ \A i \in 2 .. Len(s) : i - 1 \in 1 .. Len(t) /\ s[i] = t[i - 1]
  BY TailItem, SMTT(30)
<1> HIDE DEF t
<1>2. Items(s) = {s[1][1]} \cup Items(t)
  <2>1. \A i \in 1 .. Len(s) : i = 1 \/ i \in 2 .. Len(s)
    OBVIOUS
  <2> QED BY <1>1, <2>1, SMTT(30) DEF Items
<1>3. ItemsSorted(t)
  <2> SUFFICES ASSUME NEW i \in 1 .. Len(t), NEW j \in 1 .. Len(t), i < j, t[i][1][1] = t[j][1][1]
               PROVE  t[i][1][2] < t[j][1][2]
    BY DEF ItemsSorted
  <2>1. i + 1 \in 1 .. Len(s) /\ j + 1 \in 1 .. Len(s) /\ i + 1 < j + 1
    BY <1>1, SMTT(30)
  <2> QED BY <1>1, <2>1, ZenonT(60) DEF ItemsSorted
<1>4. Before({s[1][1]}, Items(t))
  <2> SUFFICES ASSUME NEW i \in 1 .. Len(t), s[1][1][1] = t[i][1][1] PROVE s[1][1][2] < t[i][1][2]
    BY DEF Before, Items
  <2>1. i + 1 \in 1 .. Len(s) /\ t[i] = s[i + 1] /\ 1 \in 1 .. Len(s) /\ 1 < i + 1
    BY <1>1, SMTT(30)
  <2> QED BY <2>1, SMTT(30) DEF ItemsSorted
<1> QED BY <1>1, <1>2, <1>3, <1>4, Zenon DEF t

----------------------------------------------------------------------------
(* What a step leaves alone                                                *)

(* Nothing of the messages for this peer changes.                          *)
Same(p) ==
  /\ jobs'[p] = jobs[p] /\ cur'[p] = cur[p] /\ links'[p] = links[p]
  /\ received'[p] = received[p]
  /\ ep'[p] = "encode" <=> ep[p] = "encode"

LEMMA SameGot ==
  ASSUME NEW p, received'[p] = received[p]
  PROVE  /\ Got(p)' = Got(p)
         /\ \A k : GotOn(p, k)' = GotOn(p, k)
         /\ GotSorted(p) => GotSorted(p)'
<1>1. Got(p)' = Got(p)
  BY Zenon DEF Got, Items
<1>2. \A k : GotOn(p, k)' = GotOn(p, k)
  BY Zenon DEF GotOn
<1>3. GotSorted(p) => GotSorted(p)'
  BY SMT DEF GotSorted
<1> QED BY <1>1, <1>2, <1>3, Zenon

LEMMA SameLinks ==
  ASSUME NEW p, links'[p] = links[p]
  PROVE  \A k : OnWay(p, k)' = OnWay(p, k)
  BY Zenon DEF OnWay, Items

LEMMA SameWay ==
  ASSUME NEW p, links'[p] = links[p], received'[p] = received[p]
  PROVE  /\ WayInv(p) => WayInv(p)'
         /\ GotSorted(p) => GotSorted(p)'
         /\ Passed(p)' = Passed(p)
<1>1. /\ Got(p)' = Got(p) /\ (GotSorted(p) => GotSorted(p)')
      /\ \A k : OnWay(p, k)' = OnWay(p, k) /\ GotOn(p, k)' = GotOn(p, k)
  BY SameGot, SameLinks, Zenon
<1>2. Passed(p)' = Passed(p)
  BY <1>1, Zenon DEF Passed
<1>3. WayInv(p) => WayInv(p)'
  BY <1>1, Zenon DEF WayInv
<1> QED BY <1>1, <1>2, <1>3, Zenon

LEMMA SameOrder ==
  ASSUME NEW p, Same(p), OrderInv(p)
  PROVE  OrderInv(p)' /\ AtPeer(p)' = AtPeer(p)
<1>1. /\ Queued(p)' = Queued(p) /\ Taken(p)' = Taken(p) /\ Got(p)' = Got(p)
      /\ \A k : OnWay(p, k)' = OnWay(p, k) /\ GotOn(p, k)' = GotOn(p, k)
  <2>1. Queued(p)' = Queued(p)
    BY Zenon DEF Same, Queued, Elems
  <2>2. Taken(p)' = Taken(p)
    BY DEF Same, Taken
  <2> QED BY <2>1, <2>2, SameGot, SameLinks, Zenon DEF Same
<1>2. Passed(p)' = Passed(p)
  BY <1>1, Zenon DEF Same, Passed
<1>3. AtPeer(p)' = AtPeer(p)
  BY <1>1, <1>2, Zenon DEF AtPeer
<1>4. GotSorted(p) => GotSorted(p)'
  BY SameGot, Zenon DEF Same
<1>5. OrderInv(p)'
  BY <1>1, <1>2, <1>4, Zenon DEF OrderInv, WayInv, Same
<1> QED BY <1>3, <1>5, SMTT(30)

(* A step that submits nothing to any peer and lets no handler start.      *)
LEMMA NewerKept ==
  ASSUME NEW p, NewerInv(p), AtPeer(p)' \subseteq AtPeer(p), sent' = sent,
         \A c \in Clients : p \in rest'[c] \/ sending'[c] = p => p \in rest[c] \/ sending[c] = p
  PROVE  NewerInv(p)'
  BY Zenon DEF NewerInv

(* A step of a goroutine that neither handles a PUBLISH nor changes the    *)
(* messages on their way.                                                  *)
LEMMA QuietPeers ==
  ASSUME PeersInv, TypeOK', UNCHANGED handlerVars, nodes' = nodes,
         \A p \in Peers : /\ Same(p)
                          /\ ep[p] = "new" => ep'[p] = "new"
                          /\ ep'[p] \in {"run", "encode"} => ep[p] \in {"run", "encode"}
  PROVE  PeersInv'
<1> SUFFICES ASSUME NEW p \in Peers PROVE (OrderInv(p) /\ NewerInv(p) /\ JoinInv(p))'
  BY Zenon DEF PeersInv
<1>1. OrderInv(p) /\ NewerInv(p) /\ JoinInv(p)
  BY Zenon DEF PeersInv
<1>2. OrderInv(p)' /\ AtPeer(p)' = AtPeer(p)
  BY <1>1, SameOrder, SMTT(30)
<1>3. NewerInv(p)'
  BY <1>1, <1>2, NewerKept, Zenon DEF handlerVars
<1>4. JoinInv(p)'
  BY <1>1, <1>2, Zenon DEF JoinInv, Same, handlerVars
<1> QED BY <1>2, <1>3, <1>4, SMTT(30)

(* A step on the way to peer p, other than Submit.                         *)
LEMMA StepOfPeer ==
  ASSUME PeersInv, TypeOK', UNCHANGED handlerVars, nodes' = nodes, NEW p \in Peers,
         \A q \in Peers \ {p} : Same(q) /\ ep'[q] = ep[q],
         OrderInv(p)', AtPeer(p)' \subseteq AtPeer(p),
         ep[p] # "new" \/ ep'[p] = ep[p],
         ep'[p] \in {"run", "encode"} => links'[p] # <<>>
  PROVE  PeersInv'
<1> SUFFICES ASSUME NEW q \in Peers PROVE (OrderInv(q) /\ NewerInv(q) /\ JoinInv(q))'
  BY Zenon DEF PeersInv
<1>1. OrderInv(q) /\ NewerInv(q) /\ JoinInv(q)
  BY Zenon DEF PeersInv
<1>2. OrderInv(q)' /\ AtPeer(q)' \subseteq AtPeer(q)
  BY <1>1, SameOrder, Zenon
<1>3. NewerInv(q)'
  BY <1>1, <1>2, NewerKept, Zenon DEF handlerVars
<1>4. JoinInv(q)'
  <2>1. CASE q = p
    BY <1>1, <2>1, Zenon DEF JoinInv, handlerVars
  <2>2. CASE q # p
    BY <1>1, <1>2, <2>2, Zenon DEF JoinInv, Same, handlerVars
  <2> QED BY <2>1, <2>2, SMTT(30)
<1> QED BY <1>2, <1>3, <1>4, SMTT(30)

LEMMA AtPeerMsgs ==
  ASSUME TypeOK, NEW p \in Peers
  PROVE  /\ AtPeer(p) \subseteq Msgs
         /\ \A m \in Msgs : m[1] \in Clients /\ m[2] \in Nat
<1>1. AtPeer(p) \subseteq Msgs
  <2>1. Queued(p) \subseteq Msgs /\ Taken(p) \subseteq Msgs /\ Got(p) \subseteq Msgs
    BY NoMsgIsNone, SMTT(30) DEF TypeOK, Taken, Queued, Got, Elems, Items
  <2>2. \A k \in 1 .. Len(links[p]) : OnWay(p, k) \subseteq Msgs
    <3> SUFFICES ASSUME NEW k \in 1 .. Len(links[p]) PROVE OnWay(p, k) \subseteq Msgs
      OBVIOUS
    <3>1. links[p][k] \in Seq(Msgs \X BOOLEAN)
      BY DEF TypeOK
    <3> QED BY <3>1, SMTT(30) DEF OnWay, Items
  <2> QED BY <2>1, <2>2, Zenon DEF AtPeer, Passed
<1> QED BY <1>1, SMTT(30) DEF Msgs

----------------------------------------------------------------------------
(* The handlers                                                            *)

LEMMA PublishPeers == ASSUME PeersInv, NEW c \in Clients, Publish(c) PROVE PeersInv'
<1>0. TypeOK /\ \A p \in Peers : OrderInv(p) /\ NewerInv(p) /\ JoinInv(p)
  BY Zenon DEF PeersInv
<1>1. /\ sending[c] = NoPeer /\ sent[c] < MaxMsgs /\ Len(posts) < PostsLen
      /\ sent' = [sent EXCEPT ![c] = @ + 1] /\ rest' = [rest EXCEPT ![c] = nodes]
      /\ posts' = Append(posts, Current(c)') /\ retain' = retain \cup {Current(c)'}
      /\ UNCHANGED <<sending, nodes, epVars, netVars, panic>>
  BY Zenon DEF Publish
<1>2. sent[c] \in Nat /\ sent'[c] = sent[c] + 1 /\ sent'[c] \in 1 .. MaxMsgs
  BY <1>0, <1>1, PeersAssumption, SMTT(30) DEF TypeOK
<1>3. Current(c)' \in Msgs
  BY <1>2, SMTT(30) DEF Current, Msgs
<1>4. TypeOK'
  <2>1. posts' \in Seq(Msgs) /\ Len(posts') <= PostsLen
    BY <1>0, <1>1, <1>3, AppendItem, PeersAssumption, SMTT(30) DEF TypeOK
  <2>2. sent' \in [Clients -> 0 .. MaxMsgs] /\ rest' \in [Clients -> SUBSET Peers] /\ retain' \subseteq Msgs
    BY <1>0, <1>1, <1>2, <1>3, SMTT(30) DEF TypeOK
  <2> QED BY <1>0, <1>1, <2>1, <2>2, Zenon DEF TypeOK, epVars, netVars
<1>5. ASSUME NEW p \in Peers PROVE (OrderInv(p) /\ NewerInv(p) /\ JoinInv(p))'
  <2>1. OrderInv(p)' /\ AtPeer(p)' = AtPeer(p)
    BY <1>0, <1>1, SameOrder, Zenon DEF Same, epVars, netVars
  <2>2. /\ \A m \in AtPeer(p) : m[2] <= sent[m[1]]
        /\ \A d \in Clients : p \in rest[d] \/ sending[d] = p =>
             /\ sent[d] > 0
             /\ \A m \in AtPeer(p) : m[1] = d => m[2] < sent[d]
    BY <1>0, Zenon DEF NewerInv
  <2>3. AtPeer(p) \subseteq Msgs /\ \A m \in Msgs : m[1] \in Clients /\ m[2] \in Nat
    BY <1>0, AtPeerMsgs, SMTT(30)
  <2>5. \A d \in Clients : sent[d] \in Nat /\ sent'[d] = IF d = c THEN sent[d] + 1 ELSE sent[d]
    BY <1>0, <1>1, SMTT(30) DEF TypeOK
  <2>6. NewerInv(p)'
    <3>1. \A m \in AtPeer(p) : m[2] <= sent'[m[1]] /\ (m[1] = c => m[2] < sent'[c])
      BY <2>2, <2>3, <2>5, SMTT(30)
    <3>2. \A d \in Clients : p \in rest'[d] \/ sending'[d] = p => p \in rest[d] \/ sending[d] = p \/ d = c
      BY <1>0, <1>1, SMTT(30) DEF TypeOK
    <3>3. \A d \in Clients : d # c => sent'[d] = sent[d]
      BY <2>5, SMTT(30)
    <3>4. sent'[c] > 0
      BY <2>5, SMTT(30)
    <3> QED BY <2>1, <2>2, <3>1, <3>2, <3>3, <3>4, Zenon DEF NewerInv
  <2>7. NoPeer # p
    BY PeersAssumption, SMTT(30)
  <2>8. JoinInv(p)'
    <3>1. \A d \in Clients : p \in rest'[d] => p \in rest[d] \/ (d = c /\ p \in nodes)
      BY <1>0, <1>1, SMTT(30) DEF TypeOK
    <3> QED BY <1>0, <1>1, <2>1, <2>7, <3>1, Zenon DEF JoinInv, epVars, netVars
  <2> QED BY <2>1, <2>6, <2>8, SMTT(30)
<1> QED BY <1>4, <1>5, Zenon DEF PeersInv

LEMMA ReplicatePeers == ASSUME PeersInv, NEW c \in Clients, Replicate(c) PROVE PeersInv'
<1>0. TypeOK /\ \A p \in Peers : OrderInv(p) /\ NewerInv(p) /\ JoinInv(p)
  BY Zenon DEF PeersInv
<1>1. PICK q \in rest[c] :
        /\ rest' = [rest EXCEPT ![c] = @ \ {q}]
        /\ sending' = IF alive[q] THEN [sending EXCEPT ![c] = q] ELSE sending
        /\ sending[c] = NoPeer
        /\ UNCHANGED <<sent, nodes, posts, retain, epVars, netVars, panic>>
  BY Zenon DEF Replicate
<1>2. q \in Peers /\ rest \in [Clients -> SUBSET Peers]
      /\ sending \in [Clients -> Peers \cup {NoPeer}]
  BY <1>0, SMTT(30) DEF TypeOK
<1>3. /\ rest' \in [Clients -> SUBSET Peers]
      /\ sending' \in [Clients -> Peers \cup {NoPeer}]
      /\ \A d \in Clients : rest'[d] \subseteq rest[d]
      /\ \A d \in Clients : sending'[d] = sending[d] \/ (d = c /\ sending'[d] = q)
      /\ q \notin rest'[c]
  BY <1>1, <1>2, SMTT(30)
<1>4. TypeOK'
  BY <1>0, <1>1, <1>3, Zenon DEF TypeOK, epVars, netVars
<1>5. ASSUME NEW p \in Peers PROVE (OrderInv(p) /\ NewerInv(p) /\ JoinInv(p))'
  <2>1. OrderInv(p)' /\ AtPeer(p)' = AtPeer(p)
    BY <1>0, <1>1, SameOrder, Zenon DEF Same, epVars, netVars
  <2>2. \A d \in Clients : p \in rest'[d] \/ sending'[d] = p => p \in rest[d] \/ sending[d] = p
    BY <1>1, <1>3, Zenon
  <2>3. NewerInv(p)'
    BY <1>0, <1>1, <2>1, <2>2, NewerKept, Zenon
  <2>4. \A d \in Clients : p \in rest'[d] => sending'[d] # p
    BY <1>0, <1>3, Zenon DEF JoinInv
  <2>5. JoinInv(p)'
    BY <1>0, <1>1, <2>1, <2>2, <2>4, Zenon DEF JoinInv, epVars, netVars
  <2> QED BY <2>1, <2>3, <2>5, SMTT(30)
<1> QED BY <1>4, <1>5, Zenon DEF PeersInv

LEMMA JoinPeers == ASSUME PeersInv, NEW p \in Peers, Join(p) PROVE PeersInv'
<1>0. TypeOK /\ \A q \in Peers : OrderInv(q) /\ NewerInv(q) /\ JoinInv(q)
  BY Zenon DEF PeersInv
<1>1. /\ p \notin nodes /\ nodes' = nodes \cup {p}
      /\ UNCHANGED <<sent, sending, posts, retain, epVars, netVars>>
      /\ \/ \E C \in SUBSET Ranging :
              rest' = [c \in Clients |-> IF c \in C THEN rest[c] \cup {p} ELSE rest[c]]
         \/ rest' = rest
      /\ panic' \in BOOLEAN
  BY <1>0, Zenon DEF Join, TypeOK
<1>2. rest \in [Clients -> SUBSET Peers]
  BY <1>0, Zenon DEF TypeOK
<1>3. /\ rest' \in [Clients -> SUBSET Peers]
      /\ \A c \in Clients : rest'[c] = rest[c] \/ (rest'[c] = rest[c] \cup {p} /\ c \in Ranging)
  BY <1>1, <1>2, SMTT(30)
<1>r. \A c \in Ranging : sent[c] > 0
  BY <1>0, SMTT(30) DEF Ranging, TypeOK, NewerInv
<1>4. TypeOK'
  BY <1>0, <1>1, <1>3, Zenon DEF TypeOK, epVars, netVars
<1>5. ASSUME NEW q \in Peers PROVE (OrderInv(q) /\ NewerInv(q) /\ JoinInv(q))'
  <2>1. OrderInv(q)' /\ AtPeer(q)' = AtPeer(q)
    BY <1>0, <1>1, SameOrder, Zenon DEF Same, epVars, netVars
  <2>2. CASE q = p
    <3>1. AtPeer(p) = {} /\ (\A c \in Clients : sending[c] # p) /\ links[p] = links'[p] /\ ep'[p] = ep[p]
      BY <1>0, <1>1, Zenon DEF JoinInv, epVars, netVars
    <3>2. NewerInv(p)'
      <4>1. \A c \in Clients : p \in rest'[c] \/ sending'[c] = p => c \in Ranging
        BY <1>0, <1>1, <1>3, <3>1, Zenon DEF JoinInv
      <4> QED BY <1>1, <1>r, <2>1, <2>2, <3>1, <4>1, Zenon DEF NewerInv
    <3>3. JoinInv(p)'
      BY <1>0, <1>1, <3>1, SMTT(30) DEF JoinInv
    <3> QED BY <2>1, <2>2, <3>2, <3>3, SMTT(30)
  <2>3. CASE q # p
    <3>1. /\ \A c \in Clients : q \in rest'[c] <=> q \in rest[c]
          /\ q \in nodes' <=> q \in nodes
      BY <1>1, <1>3, <2>3, SMTT(30)
    <3>2. NewerInv(q)'
      BY <1>0, <1>1, <2>1, <3>1, NewerKept, Zenon
    <3>3. JoinInv(q)'
      BY <1>0, <1>1, <2>1, <3>1, Zenon DEF JoinInv, epVars, netVars
    <3> QED BY <2>1, <3>2, <3>3, SMTT(30)
  <2> QED BY <2>2, <2>3, SMTT(30)
<1> QED BY <1>4, <1>5, Zenon DEF PeersInv

LEMMA SubmitPeers == ASSUME PeersInv, NEW c \in Clients, Submit(c) PROVE PeersInv'
<1>0. TypeOK /\ \A q \in Peers : OrderInv(q) /\ NewerInv(q) /\ JoinInv(q)
  BY Zenon DEF PeersInv
<1>p. PICK p \in Peers, m \in {Current(c)} : p = sending[c] /\ m = Current(c)
  <2>1. sending[c] \in Peers
    BY <1>0, SMTT(30) DEF Submit, TypeOK
  <2> QED BY <2>1, SMTT(30)
<1>1. /\ p # NoPeer
      /\ \/ jobs' = jobs
         \/ ~Full(p) /\ jobs' = [jobs EXCEPT ![p] = Append(@, m)]
      /\ panic' \in BOOLEAN
      /\ sending' = [sending EXCEPT ![c] = NoPeer]
      /\ UNCHANGED <<sent, rest, nodes, posts, retain, running, ep, alive, closed, cur, netVars>>
  BY <1>0, <1>p, Zenon DEF Submit, TypeOK
<1>2. /\ p \in Peers
      /\ sending \in [Clients -> Peers \cup {NoPeer}]
      /\ jobs \in [Peers -> Seq(Msgs)]
      /\ jobs[p] \in Seq(Msgs)
      /\ sent[c] \in 0 .. MaxMsgs
  BY <1>0, <1>1, SMTT(30) DEF TypeOK
<1>3. /\ sending' \in [Clients -> Peers \cup {NoPeer}]
      /\ \A d \in Clients : sending'[d] = IF d = c THEN NoPeer ELSE sending[d]
  BY <1>1, <1>2, SMTT(30)
<1>4. /\ \A q \in Peers \ {p} : Same(q)
      /\ \A q \in Peers : /\ cur'[q] = cur[q] /\ links'[q] = links[q] /\ received'[q] = received[q]
                          /\ ep'[q] = ep[q]
  <2>1. \A q \in Peers \ {p} : jobs'[q] = jobs[q]
    BY <1>1, <1>2, SMTT(30)
  <2> QED BY <1>1, <2>1, Zenon DEF Same, netVars
<1>n. NoPeer \notin Peers
  BY PeersAssumption, SMTT(30)
<1>5. ASSUME NEW q \in Peers, Same(q) PROVE (OrderInv(q) /\ NewerInv(q) /\ JoinInv(q))'
  <2>1. OrderInv(q)' /\ AtPeer(q)' = AtPeer(q)
    BY <1>0, <1>5, SameOrder, Zenon
  <2>2. \A d \in Clients : q \in rest'[d] \/ sending'[d] = q => q \in rest[d] \/ sending[d] = q
    BY <1>1, <1>3, <1>n, Zenon
  <2>3. NewerInv(q)'
    BY <1>0, <1>1, <2>1, <2>2, NewerKept, Zenon
  <2>4. JoinInv(q)'
    BY <1>0, <1>1, <1>3, <1>4, <1>n, <2>1, <2>2, Zenon DEF JoinInv
  <2> QED BY <2>1, <2>3, <2>4, SMTT(30)
<1>6. CASE jobs' = jobs
  <2>1. Same(p)
    BY <1>2, <1>4, <1>6, Zenon DEF Same
  <2>2. TypeOK'
    BY <1>0, <1>1, <1>3, <1>6, Zenon DEF TypeOK, netVars
  <2> QED BY <1>4, <1>5, <2>1, <2>2, Zenon DEF PeersInv
<1>7. CASE ~Full(p) /\ jobs' = [jobs EXCEPT ![p] = Append(@, m)]
  <2>0. /\ \A x \in AtPeer(p) : x[1] = c => x[2] < sent[c]
        /\ \A x \in AtPeer(p) : x[2] <= sent[x[1]]
        /\ sent[c] > 0
        /\ p \in nodes /\ p \notin rest[c]
    BY <1>0, <1>2, <1>p, Zenon DEF NewerInv, JoinInv
  <2>1. m \in Msgs /\ m[1] = c /\ m[2] = sent[c]
    BY <1>2, <1>p, <2>0, SMTT(30) DEF Current, Msgs
  <2>2. /\ jobs'[p] = Append(jobs[p], m)
        /\ jobs' \in [Peers -> Seq(Msgs)]
        /\ \A q \in Peers : Len(jobs'[q]) <= QueueLen
    <3>1. jobs'[p] = Append(jobs[p], m) /\ \A q \in Peers \ {p} : jobs'[q] = jobs[q]
      BY <1>2, <1>7, SMTT(30)
    <3>2. Len(jobs'[p]) <= QueueLen /\ jobs'[p] \in Seq(Msgs)
      BY <1>2, <1>7, <2>1, <3>1, AppendItem, PeersAssumption, SMTT(30) DEF Full
    <3> QED BY <1>0, <1>2, <1>7, <2>1, <3>1, <3>2, SMTT(30) DEF TypeOK
  <2>3. TypeOK'
    BY <1>0, <1>1, <1>3, <2>2, Zenon DEF TypeOK, netVars
  <2>4. /\ Taken(p)' = Taken(p)
        /\ Got(p)' = Got(p)
        /\ \A k : OnWay(p, k)' = OnWay(p, k) /\ GotOn(p, k)' = GotOn(p, k)
    <3>1. Taken(p)' = Taken(p)
      BY <1>2, <1>4, ZenonT(60) DEF Taken
    <3> QED BY <1>2, <1>4, <3>1, SameGot, SameLinks, Zenon
  <2>5. Passed(p)' = Passed(p)
    BY <1>2, <1>4, <2>4, Zenon DEF Passed
  <2>6. /\ Before(Passed(p) \cup Taken(p) \cup Queued(p), {m})
        /\ Queued(p) = Elems(jobs[p])
    BY <2>0, <2>1, Zenon DEF Before, AtPeer, Queued
  <2>7. /\ Queued(p)' = Queued(p) \cup {m}
        /\ ElemsSorted(jobs'[p])
    <3>1. Before(Elems(jobs[p]), {m}) /\ ElemsSorted(jobs[p])
      BY <1>0, <1>2, <2>6, Zenon DEF OrderInv, WayInv, Before
    <3> QED BY <1>2, <2>1, <2>2, <3>1, AppendElems, Zenon DEF Queued
  <2>8. OrderInv(p)'
    <3>1. Before(Passed(p)' \cup Taken(p)', Queued(p)')
      BY <1>0, <1>2, <2>4, <2>5, <2>6, <2>7, Zenon DEF OrderInv, WayInv, Before
    <3>2. GotSorted(p) => GotSorted(p)'
      BY <1>2, <1>4, SameGot, Zenon
    <3>3. OrderInv(p) /\ links'[p] = links[p]
      BY <1>0, <1>2, <1>4, Zenon
    <3> QED BY <2>4, <2>5, <2>7, <3>1, <3>2, <3>3, Zenon DEF OrderInv, WayInv
  <2>9. AtPeer(p)' = AtPeer(p) \cup {m}
    BY <2>4, <2>5, <2>7, SMTT(30) DEF AtPeer
  <2>10. NewerInv(p)'
    <3>1. \A x \in AtPeer(p)' : x[2] <= sent'[x[1]]
      <4>1. m[2] <= sent[m[1]]
        BY <1>2, <2>1, SMTT(30)
      <4> QED BY <1>1, <2>0, <2>9, <4>1, Zenon
    <3>2. \A d \in Clients : p \in rest'[d] \/ sending'[d] = p =>
             d # c /\ (p \in rest[d] \/ sending[d] = p)
      BY <1>1, <1>2, <1>3, <1>n, <2>0, Zenon
    <3> QED BY <1>0, <1>1, <1>2, <2>1, <2>9, <3>1, <3>2, Zenon DEF NewerInv
  <2>11. JoinInv(p)'
    BY <1>0, <1>1, <1>2, <1>3, <1>4, <1>n, <2>0, Zenon DEF JoinInv
  <2> QED BY <1>4, <1>5, <2>3, <2>8, <2>10, <2>11, Zenon DEF PeersInv
<1> QED BY <1>1, <1>6, <1>7, SMTT(30)

----------------------------------------------------------------------------
(* The worker and the endpoints                                            *)

LEMMA TakePostPeers == ASSUME PeersInv, TakePost PROVE PeersInv'
<1>0. TypeOK
  BY Zenon DEF PeersInv
<1>1. /\ posts # <<>> /\ posts' = Tail(posts) /\ retain' = retain \ {Head(posts)}
      /\ UNCHANGED <<handlerVars, nodes, epVars, netVars, panic>>
  BY Zenon DEF TakePost
<1>2. posts' \in Seq(Msgs) /\ Len(posts') <= PostsLen /\ retain' \subseteq Msgs
  BY <1>0, <1>1, TailItem, PeersAssumption, SMTT(30) DEF TypeOK
<1>3. TypeOK'
  BY <1>0, <1>1, <1>2, Zenon DEF TypeOK, handlerVars, epVars, netVars
<1>4. \A p \in Peers : Same(p) /\ ep'[p] = ep[p]
  BY <1>1, Zenon DEF Same, epVars, netVars
<1> QED BY <1>1, <1>3, <1>4, QuietPeers, Zenon

LEMMA StopPeers ==
  ASSUME PeersInv, NEW p \in Peers, Stop(p) \/ Leave(p) \/ Close(p)
  PROVE  PeersInv'
<1>0. TypeOK
  BY Zenon DEF PeersInv
<1>1. /\ UNCHANGED <<handlerVars, nodes, posts, retain, jobs, cur, netVars>>
      /\ \/ ep' = ep
         \/ \E pc \in {"close", "dial", "done"} :
              ep' = [ep EXCEPT ![p] = pc] /\ ep[p] \in {"leave", "close"}
  BY Zenon DEF Stop, Leave, Close, Goto
<1>2. /\ running' \in [Peers -> BOOLEAN] /\ alive' \in [Peers -> BOOLEAN]
      /\ closed' \in [Peers -> BOOLEAN] /\ panic' \in BOOLEAN
  <2>1. /\ running \in [Peers -> BOOLEAN] /\ alive \in [Peers -> BOOLEAN]
        /\ closed \in [Peers -> BOOLEAN] /\ panic \in BOOLEAN
    BY <1>0, Zenon DEF TypeOK
  <2>2. closed[p] \in BOOLEAN
    BY <2>1, Zenon
  <2>3. CASE Stop(p)
    BY <2>1, <2>3, Zenon DEF Stop
  <2>4. CASE Leave(p)
    BY <2>1, <2>4, Zenon DEF Leave
  <2>5. CASE Close(p)
    BY <2>1, <2>2, <2>5, Zenon DEF Close
  <2> QED BY <2>3, <2>4, <2>5, SMTT(30)
<1>3. /\ ep' \in [Peers -> {"new", "dial", "run", "encode", "leave", "close", "done"}]
      /\ \A q \in Peers : ep'[q] = ep[q] \/ (ep[q] \in {"leave", "close"} /\ ep'[q] \in {"close", "dial", "done"})
  BY <1>0, <1>1, Zenon DEF TypeOK
<1>4. \A q \in Peers : /\ ep[q] = "new" => ep'[q] = "new"
                       /\ ep'[q] \in {"run", "encode"} => ep[q] \in {"run", "encode"}
                       /\ ep'[q] = "encode" <=> ep[q] = "encode"
  BY <1>3, SMTT(30)
<1>5. TypeOK'
  BY <1>0, <1>1, <1>2, <1>3, <1>4, Zenon DEF TypeOK, handlerVars, netVars
<1>6. \A q \in Peers : Same(q)
  BY <1>1, <1>4, Zenon DEF Same, netVars
<1> QED BY <1>1, <1>4, <1>5, <1>6, QuietPeers, Zenon

LEMMA DialPeers == ASSUME PeersInv, NEW p \in Peers, Dial(p) PROVE PeersInv'
<1>0. TypeOK /\ OrderInv(p)
  BY Zenon DEF PeersInv
<1>1. /\ ep[p] = "dial"
      /\ \/ links' = [links EXCEPT ![p] = Append(@, <<>>)] /\ ep' = [ep EXCEPT ![p] = "run"]
         \/ links' = links /\ ep' = [ep EXCEPT ![p] = "leave"]
      /\ alive' = alive \/ alive' = [alive EXCEPT ![p] = TRUE]
      /\ UNCHANGED <<handlerVars, nodes, posts, retain, running, jobs, closed, cur, broken,
                     received, panic>>
  BY Zenon DEF Dial, PeerAccepts, Goto
<1>2. /\ ep \in [Peers -> {"new", "dial", "run", "encode", "leave", "close", "done"}]
      /\ alive \in [Peers -> BOOLEAN]
      /\ links \in [Peers -> Seq(Seq(Msgs \X BOOLEAN))]
      /\ links[p] \in Seq(Seq(Msgs \X BOOLEAN))
      /\ <<>> \in Seq(Msgs \X BOOLEAN)
  BY <1>0, SMTT(30) DEF TypeOK
<1>3. /\ ep' \in [Peers -> {"new", "dial", "run", "encode", "leave", "close", "done"}]
      /\ ep'[p] \in {"run", "leave"}
      /\ \A q \in Peers \ {p} : ep'[q] = ep[q]
  BY <1>1, <1>2, Zenon
<1>4. alive' \in [Peers -> BOOLEAN]
  BY <1>1, <1>2, Zenon
<1>5. /\ links'[p] = links[p] \/ links'[p] = Append(links[p], <<>>)
      /\ ep'[p] = "run" => links'[p] = Append(links[p], <<>>)
      /\ \A q \in Peers \ {p} : links'[q] = links[q]
      /\ DOMAIN links' = Peers
  BY <1>1, <1>2, SMTT(30)
<1>6. links' \in [Peers -> Seq(Seq(Msgs \X BOOLEAN))]
  <2>1. Append(links[p], <<>>) \in Seq(Seq(Msgs \X BOOLEAN))
    BY <1>2, AppendItem, SMTT(30)
  <2> QED BY <1>1, <1>2, <2>1, ZenonT(60)
<1>7. TypeOK'
  <2>1. \A q \in Peers : ep'[q] = "encode" <=> cur'[q] # NoMsg
    <3>1. \A q \in Peers : ep[q] = "encode" <=> cur[q] # NoMsg
      BY <1>0, Zenon DEF TypeOK
    <3>2. ep[p] # "encode" /\ ep'[p] # "encode"
      BY <1>1, <1>3, SMTT(30)
    <3> QED BY <1>1, <1>3, <3>1, <3>2, Zenon
  <2> QED BY <1>0, <1>1, <1>3, <1>4, <1>6, <2>1, Zenon DEF TypeOK, handlerVars
<1>8. \A q \in Peers \ {p} : Same(q) /\ ep'[q] = ep[q]
  BY <1>1, <1>3, <1>5, Zenon DEF Same
<1>9. CASE links'[p] = links[p]
  <2>1. Same(p)
    BY <1>1, <1>3, <1>9, SMTT(30) DEF Same
  <2>2. OrderInv(p)' /\ AtPeer(p)' = AtPeer(p)
    BY <1>0, <2>1, SameOrder, SMTT(30)
  <2>3. ep'[p] \notin {"run", "encode"}
    <3>1. Append(links[p], <<>>) # links[p]
      BY <1>2, AppendItem, SMTT(30)
    <3> QED BY <1>3, <1>5, <1>9, <3>1, SMTT(30)
  <2> QED BY <1>1, <1>7, <1>8, <2>2, <2>3, StepOfPeer, Zenon
<1>10. CASE links'[p] = Append(links[p], <<>>)
  <2>0. PICK K \in Nat : K = Len(links[p])
    BY <1>2, LenProperties, SMTT(30)
  <2>1. /\ K \in Nat /\ Len(links'[p]) = K + 1
        /\ \A k \in 1 .. K : links'[p][k] = links[p][k]
        /\ links'[p][K + 1] = <<>>
    BY <1>2, <1>10, <2>0, AppendItem, SMTT(30)
  <2>2. /\ \A k \in 1 .. K : OnWay(p, k)' = OnWay(p, k) /\ ItemsSorted(links'[p][k]) = ItemsSorted(links[p][k])
        /\ \A k \in 1 .. K + 1 : k \in 1 .. K \/ k = K + 1
    BY <2>1, SMTT(30) DEF OnWay
  <2>3. OnWay(p, K + 1)' = {} /\ ItemsSorted(links'[p][K + 1])
    BY <2>1, SMTT(30) DEF OnWay, Items, ItemsSorted
  <2>4. Queued(p)' = Queued(p) /\ Taken(p)' = Taken(p)
    BY <1>1, <1>3, SMTT(30) DEF Queued, Taken
  <2>5. Got(p)' = Got(p) /\ (\A k : GotOn(p, k)' = GotOn(p, k)) /\ (GotSorted(p) => GotSorted(p)')
    BY <1>1, SameGot, Zenon
  <2>6. Passed(p)' = Passed(p)
    BY <2>0, <2>1, <2>2, <2>3, <2>5, SMTT(30) DEF Passed
  <2>7. OrderInv(p)'
    <3>1. ElemsSorted(jobs'[p]) /\ GotSorted(p)'
      BY <1>0, <1>1, <2>5, Zenon DEF OrderInv, WayInv
    <3>2. Before(Passed(p)' \cup Taken(p)', Queued(p)') /\ Before(Passed(p)', Taken(p)')
      BY <1>0, <2>4, <2>6, Zenon DEF OrderInv, WayInv
    <3>3. ASSUME NEW k \in 1 .. Len(links'[p])
          PROVE  /\ ItemsSorted(links'[p][k])
                 /\ Before(GotOn(p, k)', OnWay(p, k)')
                 /\ Got(p)' \cap OnWay(p, k)' = {}
                 /\ \A l \in 1 .. Len(links'[p]) : l # k => OnWay(p, l)' \cap OnWay(p, k)' = {}
      <4>1. CASE k = K + 1
        BY <2>3, <4>1, SMTT(30) DEF Before
      <4>2. CASE k \in 1 .. K
        <5>1. ItemsSorted(links[p][k]) /\ Before(GotOn(p, k), OnWay(p, k)) /\ Got(p) \cap OnWay(p, k) = {}
          BY <1>0, <2>0, <4>2, Zenon DEF OrderInv, WayInv
        <5>2. ASSUME NEW l \in 1 .. K + 1, l # k PROVE OnWay(p, l)' \cap OnWay(p, k)' = {}
          <6>1. CASE l = K + 1
            BY <2>3, <6>1, SMTT(30)
          <6>2. CASE l \in 1 .. K
            BY <1>0, <2>0, <2>2, <4>2, <5>2, <6>2, Zenon DEF OrderInv, WayInv
          <6> QED BY <2>2, <6>1, <6>2, SMTT(30)
        <5> QED BY <2>1, <2>2, <2>5, <4>2, <5>1, <5>2, Zenon
      <4> QED BY <2>1, <2>2, <4>1, <4>2, Zenon
    <3> QED BY <3>1, <3>2, <3>3, Zenon DEF OrderInv, WayInv
  <2>8. AtPeer(p)' = AtPeer(p)
    BY <2>4, <2>6, Zenon DEF AtPeer
  <2>9. links'[p] # <<>>
    BY <1>2, <1>10, AppendItem, SMTT(30)
  <2> QED BY <1>1, <1>7, <1>8, <2>7, <2>8, <2>9, StepOfPeer, Zenon
<1> QED BY <1>5, <1>9, <1>10, SMTT(30)

(* Passed as a predicate, in this state and in the next.                   *)
LEMMA PassedIff ==
  ASSUME NEW p, NEW m
  PROVE  /\ m \in Passed(p)
              <=> m \in Got(p) \/ \E k \in 1 .. Len(links[p]) : m \in OnWay(p, k)
         /\ m \in Passed(p)'
              <=> m \in Got(p)' \/ \E k \in 1 .. Len(links'[p]) : m \in OnWay(p, k)'
  BY Zenon DEF Passed

LEMMA TakeJobPeers == ASSUME PeersInv, NEW p \in Peers, TakeJob(p) PROVE PeersInv'
<1>0. TypeOK /\ OrderInv(p) /\ JoinInv(p)
  BY Zenon DEF PeersInv
<1>1. /\ ep[p] = "run"
      /\ UNCHANGED <<handlerVars, nodes, posts, retain, running, alive, closed, netVars, panic>>
  BY Zenon DEF TakeJob
<1>2. /\ ep \in [Peers -> {"new", "dial", "run", "encode", "leave", "close", "done"}]
      /\ cur \in [Peers -> Msgs \cup {NoMsg}]
      /\ jobs \in [Peers -> Seq(Msgs)] /\ jobs[p] \in Seq(Msgs)
      /\ \A q \in Peers : Len(jobs[q]) <= QueueLen
      /\ \A q \in Peers : ep[q] = "encode" <=> cur[q] # NoMsg
  BY <1>0, SMTT(30) DEF TypeOK
<1>3. CASE jobs[p] = <<>> /\ closed[p] /\ Goto(p, "leave") /\ UNCHANGED <<cur, jobs>>
  <2>1. /\ ep' \in [Peers -> {"new", "dial", "run", "encode", "leave", "close", "done"}]
        /\ ep'[p] = "leave" /\ \A q \in Peers \ {p} : ep'[q] = ep[q]
    BY <1>2, <1>3, SMTT(30) DEF Goto
  <2>2. \A q \in Peers : /\ ep[q] = "new" => ep'[q] = "new"
                         /\ ep'[q] \in {"run", "encode"} => ep[q] \in {"run", "encode"}
                         /\ ep'[q] = "encode" <=> ep[q] = "encode"
    BY <1>1, <2>1, SMTT(30)
  <2>3. TypeOK'
    BY <1>0, <1>1, <1>3, <2>1, <2>2, Zenon DEF TypeOK, handlerVars, netVars
  <2>4. \A q \in Peers : Same(q)
    BY <1>1, <1>3, <2>2, Zenon DEF Same, netVars
  <2> QED BY <1>1, <2>2, <2>3, <2>4, QuietPeers, Zenon
<1>4. CASE /\ jobs[p] # <<>>
           /\ cur' = [cur EXCEPT ![p] = Head(jobs[p])]
           /\ jobs' = [jobs EXCEPT ![p] = Tail(@)]
           /\ Goto(p, "encode")
  <2>1. PICK h \in Msgs : h = Head(jobs[p])
    BY <1>2, <1>4, TailItem, SMTT(30)
  <2>2. /\ cur' \in [Peers -> Msgs \cup {NoMsg}]
        /\ cur'[p] = h
        /\ \A q \in Peers \ {p} : cur'[q] = cur[q]
    BY <1>2, <1>4, <2>1, SMTT(30)
  <2>3. /\ ep' \in [Peers -> {"new", "dial", "run", "encode", "leave", "close", "done"}]
        /\ ep'[p] = "encode"
        /\ \A q \in Peers \ {p} : ep'[q] = ep[q]
    BY <1>2, <1>4, SMTT(30) DEF Goto
  <2>4. /\ Tail(jobs[p]) \in Seq(Msgs) /\ Len(Tail(jobs[p])) <= QueueLen
    BY <1>2, <1>4, TailItem, PeersAssumption, SMTT(30)
  <2>5. /\ jobs' \in [Peers -> Seq(Msgs)]
        /\ jobs'[p] = Tail(jobs[p])
        /\ \A q \in Peers \ {p} : jobs'[q] = jobs[q]
    BY <1>2, <1>4, <2>4, SMTT(30)
  <2>6. TypeOK'
    <3>1. \A q \in Peers : Len(jobs'[q]) <= QueueLen
      BY <1>2, <2>4, <2>5, Zenon
    <3>2. \A q \in Peers : ep'[q] = "encode" <=> cur'[q] # NoMsg
      BY <1>2, <2>1, <2>2, <2>3, NoMsgIsNone, Zenon
    <3> QED BY <1>0, <1>1, <2>2, <2>3, <2>5, <3>1, <3>2, Zenon DEF TypeOK, handlerVars, netVars
  <2>7. \A q \in Peers \ {p} : Same(q) /\ ep'[q] = ep[q]
    BY <1>1, <2>2, <2>3, <2>5, Zenon DEF Same, netVars
  <2>8. links'[p] = links[p] /\ received'[p] = received[p]
    BY <1>1, Zenon DEF netVars
  <2>9. Taken(p) = {} /\ Taken(p)' = {h}
    BY <1>1, <2>2, <2>3, SMTT(30) DEF Taken
  <2>10. /\ Queued(p) = {h} \cup Queued(p)'
         /\ ElemsSorted(jobs'[p])
         /\ Before({h}, Queued(p)')
    BY <1>0, <1>2, <1>4, <2>1, <2>5, TailElems, Zenon DEF Queued, OrderInv
  <2>11. /\ WayInv(p)' /\ GotSorted(p)' /\ Passed(p)' = Passed(p)
    BY <1>0, <2>8, SameWay, Zenon DEF OrderInv
  <2>12. OrderInv(p)'
    <3>1. Before(Passed(p), Queued(p))
      BY <1>0, Zenon DEF OrderInv, Before
    <3>2. Before(Passed(p), {h}) /\ Before(Passed(p) \cup {h}, Queued(p)')
      BY <2>10, <3>1, Zenon DEF Before
    <3> QED BY <2>9, <2>10, <2>11, <3>2, Zenon DEF OrderInv
  <2>13. AtPeer(p)' \subseteq AtPeer(p)
    BY <2>9, <2>10, <2>11, SMTT(30) DEF AtPeer
  <2>14. links'[p] # <<>> /\ ep[p] # "new"
    BY <1>0, <1>1, <2>8, SMTT(30) DEF JoinInv
  <2> QED BY <1>1, <2>6, <2>7, <2>12, <2>13, <2>14, StepOfPeer, Zenon
<1> QED BY <1>3, <1>4, Zenon DEF TakeJob

LEMMA EncodePeers == ASSUME PeersInv, NEW p \in Peers, Encode(p) PROVE PeersInv'
<1>0. TypeOK /\ OrderInv(p) /\ JoinInv(p)
  BY Zenon DEF PeersInv
<1>1. /\ ep[p] = "encode"
      /\ cur' = [cur EXCEPT ![p] = NoMsg]
      /\ links' = links \/ Write(p)
      /\ \E pc \in {"run", "leave"} : ep' = [ep EXCEPT ![p] = pc]
      /\ UNCHANGED <<handlerVars, nodes, posts, retain, running, alive, jobs, closed, broken,
                     received, panic>>
  BY Zenon DEF Encode, Goto
<1>2. /\ ep \in [Peers -> {"new", "dial", "run", "encode", "leave", "close", "done"}]
      /\ cur \in [Peers -> Msgs \cup {NoMsg}]
      /\ \A q \in Peers : ep[q] = "encode" <=> cur[q] # NoMsg
      /\ links[p] \in Seq(Seq(Msgs \X BOOLEAN)) /\ links[p] # <<>>
      /\ links \in [Peers -> Seq(Seq(Msgs \X BOOLEAN))]
  BY <1>0, <1>1, SMTT(30) DEF TypeOK, JoinInv
<1>3. PICK x \in Msgs, K \in 1 .. Len(links[p]) : x = cur[p] /\ K = Len(links[p])
  <2>1. cur[p] \in Msgs
    BY <1>1, <1>2, Zenon
  <2>2. Len(links[p]) \in 1 .. Len(links[p])
    BY <1>2, TailItem, SMTT(30)
  <2> QED BY <2>1, <2>2, Zenon
<1>4. /\ ep' \in [Peers -> {"new", "dial", "run", "encode", "leave", "close", "done"}]
      /\ ep'[p] \in {"run", "leave"} /\ ep'[p] # "encode"
      /\ \A q \in Peers \ {p} : ep'[q] = ep[q]
  BY <1>1, <1>2, SMTT(30)
<1>5. /\ cur' \in [Peers -> Msgs \cup {NoMsg}] /\ cur'[p] = NoMsg
      /\ \A q \in Peers \ {p} : cur'[q] = cur[q]
  BY <1>1, <1>2, SMTT(30)
<1>6. \A q \in Peers : ep'[q] = "encode" <=> cur'[q] # NoMsg
  BY <1>2, <1>4, <1>5, Zenon
<1>7. /\ Taken(p) = {x} /\ Taken(p)' = {}
      /\ Queued(p)' = Queued(p) /\ ElemsSorted(jobs'[p])
  BY <1>0, <1>1, <1>3, <1>4, SMTT(30) DEF Taken, Queued, OrderInv
<1>8. /\ Before(Passed(p) \cup {x}, Queued(p)) /\ Before(Passed(p), {x})
      /\ Before(Passed(p), Queued(p))
  BY <1>0, <1>7, Zenon DEF OrderInv, Before
<1>9. CASE links' = links
  <2>1. links'[p] = links[p] /\ received'[p] = received[p] /\ links'[p] # <<>>
    BY <1>1, <1>2, <1>9, Zenon
  <2>2. WayInv(p)' /\ GotSorted(p)' /\ Passed(p)' = Passed(p)
    BY <1>0, <2>1, SameWay, Zenon DEF OrderInv
  <2>3. OrderInv(p)'
    BY <1>7, <1>8, <2>2, Zenon DEF OrderInv, Before
  <2>4. AtPeer(p)' \subseteq AtPeer(p)
    BY <1>7, <2>2, SMTT(30) DEF AtPeer
  <2>5. TypeOK'
    BY <1>0, <1>1, <1>4, <1>5, <1>6, <1>9, Zenon DEF TypeOK, handlerVars
  <2>6. \A q \in Peers \ {p} : Same(q) /\ ep'[q] = ep[q]
    BY <1>1, <1>4, <1>5, <1>9, Zenon DEF Same
  <2>7. ep[p] # "new"
    BY <1>1, SMTT(30)
  <2> QED BY <1>1, <2>1, <2>3, <2>4, <2>5, <2>6, <2>7, StepOfPeer, Zenon
<1>10. CASE Write(p)
  <2>1. PICK e \in Msgs \X BOOLEAN : e = <<x, x \in retain>> /\ e[1] = x
    <3>0. (x \in retain) \in BOOLEAN
      OBVIOUS
    <3>1. PICK f \in BOOLEAN : f = (x \in retain)
      BY <3>0, Zenon
    <3>2. <<x, f>> \in Msgs \X BOOLEAN /\ <<x, f>>[1] = x
      OBVIOUS
    <3> QED BY <3>1, <3>2, Zenon
  <2>2. links' = [links EXCEPT ![p][K] = Append(@, e)]
    BY <1>3, <1>10, <2>1, Zenon DEF Write
  <2>3. links[p][K] \in Seq(Msgs \X BOOLEAN)
    BY <1>2, <1>3, ElementOfSeq, SMTT(30)
  <2>4. PICK t \in Seq(Msgs \X BOOLEAN) : t = Append(links[p][K], e)
    BY <2>1, <2>3, AppendItem, Zenon
  <2>5. links' = [links EXCEPT ![p] = [links[p] EXCEPT ![K] = t]]
    BY <1>2, <2>2, <2>4, SMTT(30)
  <2>6. /\ links' \in [Peers -> Seq(Seq(Msgs \X BOOLEAN))]
        /\ \A q \in Peers \ {p} : links'[q] = links[q]
        /\ Len(links'[p]) = Len(links[p])
        /\ links'[p][K] = t
        /\ \A l \in (1 .. Len(links[p])) \ {K} : links'[p][l] = links[p][l]
        /\ links'[p] # <<>>
    <3>0. /\ links[p] \in Seq(Seq(Msgs \X BOOLEAN))
          /\ K \in 1 .. Len(links[p])
          /\ t \in Seq(Msgs \X BOOLEAN)
      BY <1>2, Zenon
    <3>1. [links[p] EXCEPT ![K] = t] \in Seq(Seq(Msgs \X BOOLEAN))
          /\ Len([links[p] EXCEPT ![K] = t]) = Len(links[p])
      BY <3>0, ExceptSeq, SMTT(30)
    <3>2. links \in [Peers -> Seq(Seq(Msgs \X BOOLEAN))]
      BY <1>2, Zenon
    <3> QED BY <2>5, <3>0, <3>1, <3>2, SMTT(30)
  <2>7. /\ ItemsSorted(links[p][K])
        /\ Before(GotOn(p, K), OnWay(p, K))
        /\ Before(OnWay(p, K), {x}) /\ Before(Got(p), {x})
        /\ \A l \in 1 .. Len(links[p]) : Before(OnWay(p, l), {x})
    BY <1>0, <1>3, <1>8, ZenonT(60) DEF OrderInv, WayInv, Passed, Before
  <2>8. OnWay(p, K)' = OnWay(p, K) \cup {x} /\ ItemsSorted(links'[p][K])
    <3>1. Before(Items(links[p][K]), {e[1]})
      BY <2>1, <2>7, Zenon DEF OnWay
    <3>2. /\ Items(Append(links[p][K], e)) = Items(links[p][K]) \cup {e[1]}
          /\ ItemsSorted(Append(links[p][K], e))
      BY <2>3, <2>7, <3>1, AppendItems, SMTT(30)
    <3> QED BY <2>1, <2>4, <2>6, <3>2, Zenon DEF OnWay
  <2>9. \A l \in (1 .. Len(links[p])) \ {K} : OnWay(p, l)' = OnWay(p, l)
    BY <2>6, Zenon DEF OnWay
  <2>10. Got(p)' = Got(p) /\ (\A l : GotOn(p, l)' = GotOn(p, l)) /\ GotSorted(p)'
    BY <1>0, <1>1, SameGot, Zenon DEF OrderInv
  <2>11. Passed(p)' = Passed(p) \cup {x}
    <3>1. ASSUME NEW m PROVE m \in Passed(p)' <=> m \in Passed(p) \/ m = x
      <4>1. (\E l \in 1 .. Len(links[p]) : m \in OnWay(p, l)')
              <=> m = x \/ \E l \in 1 .. Len(links[p]) : m \in OnWay(p, l)
        BY <1>3, <2>8, <2>9, Zenon
      <4> QED BY <2>6, <2>10, <4>1, PassedIff, Zenon
    <3> QED BY <3>1, Zenon
  <2>12. /\ x \notin Got(p)
         /\ \A l \in 1 .. Len(links[p]) : x \notin OnWay(p, l)
    <3>1. ~(x[2] < x[2])
      BY SMTT(30) DEF Msgs
    <3> QED BY <2>7, <3>1, Zenon DEF Before
  <2>13. \A l : GotOn(p, l) \subseteq Got(p)
    BY SMTT(30) DEF GotOn, Got, Items
  <2>14. WayInv(p)'
    <3> SUFFICES ASSUME NEW l \in 1 .. Len(links[p])
                 PROVE  /\ ItemsSorted(links'[p][l])
                        /\ Before(GotOn(p, l), OnWay(p, l)')
                        /\ Got(p) \cap OnWay(p, l)' = {}
                        /\ \A j \in 1 .. Len(links[p]) : j # l => OnWay(p, j)' \cap OnWay(p, l)' = {}
      BY <2>6, <2>10, ZenonT(60) DEF WayInv
    <3>1. /\ ItemsSorted(links[p][l])
          /\ Before(GotOn(p, l), OnWay(p, l))
          /\ Got(p) \cap OnWay(p, l) = {}
          /\ \A j \in 1 .. Len(links[p]) : j # l => OnWay(p, j) \cap OnWay(p, l) = {}
      BY <1>0, Zenon DEF OrderInv, WayInv
    <3>2. CASE l = K
      <4>1. Before(GotOn(p, l), OnWay(p, l)')
        BY <2>7, <2>8, <2>13, <3>1, <3>2, Zenon DEF Before
      <4> QED BY <2>8, <2>9, <2>12, <3>1, <3>2, <4>1, Zenon
    <3>3. CASE l # K
      <4>1. \A j \in 1 .. Len(links[p]) : OnWay(p, j)' \subseteq OnWay(p, j) \cup {x}
        BY <2>8, <2>9, Zenon
      <4> QED BY <2>6, <2>9, <2>12, <3>1, <3>3, <4>1, ZenonT(60)
    <3> QED BY <3>2, <3>3, SMTT(30)
  <2>15. OrderInv(p)'
    BY <1>7, <1>8, <2>10, <2>11, <2>14, Zenon DEF OrderInv, Before
  <2>16. AtPeer(p)' \subseteq AtPeer(p)
    BY <1>7, <2>11, SMTT(30) DEF AtPeer
  <2>17. TypeOK'
    BY <1>0, <1>1, <1>4, <1>5, <1>6, <2>6, Zenon DEF TypeOK, handlerVars
  <2>18. \A q \in Peers \ {p} : Same(q) /\ ep'[q] = ep[q]
    BY <1>1, <1>4, <1>5, <2>6, Zenon DEF Same
  <2>19. ep[p] # "new"
    BY <1>1, SMTT(30)
  <2> QED BY <1>1, <2>6, <2>15, <2>16, <2>17, <2>18, <2>19, StepOfPeer, Zenon
<1> QED BY <1>1, <1>9, <1>10, SMTT(30)

(* The loss of a connection takes what is on the way on it.                *)
LEMMA BreakPeers == ASSUME PeersInv, NEW p \in Peers, Break(p) PROVE PeersInv'
<1>0. TypeOK /\ OrderInv(p) /\ JoinInv(p)
  BY Zenon DEF PeersInv
<1>1. PICK k \in 1 .. Len(links[p]) :
        /\ links' = [links EXCEPT ![p][k] = <<>>]
        /\ broken' = [broken EXCEPT ![p] = @ \cup {k}]
        /\ UNCHANGED <<handlerVars, nodes, posts, retain, epVars, received, panic>>
  BY Zenon DEF Break
<1>2. /\ links[p] \in Seq(Seq(Msgs \X BOOLEAN))
      /\ links \in [Peers -> Seq(Seq(Msgs \X BOOLEAN))]
      /\ broken \in [Peers -> SUBSET (Nat \ {0})]
  BY <1>0, SMTT(30) DEF TypeOK
<1>3. broken' \in [Peers -> SUBSET (Nat \ {0})]
  BY <1>1, <1>2, SMTT(30)
<1>4. /\ links' \in [Peers -> Seq(Seq(Msgs \X BOOLEAN))]
      /\ \A q \in Peers \ {p} : links'[q] = links[q]
      /\ Len(links'[p]) = Len(links[p])
      /\ links'[p][k] = <<>>
      /\ \A l \in (1 .. Len(links[p])) \ {k} : links'[p][l] = links[p][l]
      /\ links'[p] # <<>>
  <2>1. <<>> \in Seq(Msgs \X BOOLEAN)
    BY SMTT(30)
  <2>2. [links[p] EXCEPT ![k] = <<>>] \in Seq(Seq(Msgs \X BOOLEAN))
        /\ Len([links[p] EXCEPT ![k] = <<>>]) = Len(links[p])
    BY <1>2, <2>1, ExceptSeq, SMTT(30)
  <2>3. links' = [links EXCEPT ![p] = [links[p] EXCEPT ![k] = <<>>]]
    BY <1>1, <1>2, SMTT(30)
  <2> QED BY <1>2, <2>2, <2>3, SMTT(30)
<1>5. OnWay(p, k)' = {} /\ ItemsSorted(links'[p][k])
  BY <1>4, SMTT(30) DEF OnWay, Items, ItemsSorted
<1>6. \A l \in (1 .. Len(links[p])) \ {k} : OnWay(p, l)' = OnWay(p, l)
  BY <1>4, Zenon DEF OnWay
<1>7. Got(p)' = Got(p) /\ (\A l : GotOn(p, l)' = GotOn(p, l)) /\ GotSorted(p)'
  BY <1>0, <1>1, SameGot, Zenon DEF OrderInv
<1>8. Passed(p)' \subseteq Passed(p)
  <2>1. ASSUME NEW m, m \in Passed(p)' PROVE m \in Passed(p)
    BY <1>4, <1>5, <1>6, <1>7, <2>1, PassedIff, Zenon
  <2> QED BY <2>1, Zenon
<1>9. Taken(p)' = Taken(p) /\ Queued(p)' = Queued(p) /\ ElemsSorted(jobs'[p])
  BY <1>0, <1>1, SMTT(30) DEF Taken, Queued, OrderInv, epVars
<1>10. WayInv(p)'
  <2> SUFFICES ASSUME NEW l \in 1 .. Len(links[p])
               PROVE  /\ ItemsSorted(links'[p][l])
                      /\ Before(GotOn(p, l), OnWay(p, l)')
                      /\ Got(p) \cap OnWay(p, l)' = {}
                      /\ \A j \in 1 .. Len(links[p]) : j # l => OnWay(p, j)' \cap OnWay(p, l)' = {}
    BY <1>4, <1>7, Zenon DEF WayInv
  <2>1. /\ ItemsSorted(links[p][l])
        /\ Before(GotOn(p, l), OnWay(p, l))
        /\ Got(p) \cap OnWay(p, l) = {}
        /\ \A j \in 1 .. Len(links[p]) : j # l => OnWay(p, j) \cap OnWay(p, l) = {}
    BY <1>0, Zenon DEF OrderInv, WayInv
  <2>2. CASE l = k
    BY <1>5, <2>2, Zenon DEF Before
  <2>3. CASE l # k
    <3>1. \A j \in 1 .. Len(links[p]) : OnWay(p, j)' \subseteq OnWay(p, j)
      BY <1>5, <1>6, Zenon
    <3> QED BY <1>4, <1>6, <2>1, <2>3, <3>1, Zenon
  <2> QED BY <2>2, <2>3, SMTT(30)
<1>11. OrderInv(p)'
  BY <1>0, <1>7, <1>8, <1>9, <1>10, Zenon DEF OrderInv, Before
<1>12. AtPeer(p)' \subseteq AtPeer(p)
  BY <1>8, <1>9, Zenon DEF AtPeer
<1>13. TypeOK'
  BY <1>0, <1>1, <1>3, <1>4, Zenon DEF TypeOK, handlerVars, epVars
<1>14. /\ UNCHANGED handlerVars /\ nodes' = nodes
       /\ ep'[p] = ep[p]
       /\ \A q \in Peers \ {p} : Same(q) /\ ep'[q] = ep[q]
  BY <1>1, <1>4, Zenon DEF Same, epVars
<1> QED BY <1>4, <1>11, <1>12, <1>13, <1>14, StepOfPeer, Zenon

(* The peer submits one more message.                                      *)
LEMMA GotAppend ==
  ASSUME NEW p, received[p] \in Seq(Msgs \X BOOLEAN \X Nat),
         NEW e \in Msgs \X BOOLEAN \X Nat, received'[p] = Append(received[p], e)
  PROVE  /\ Got(p)' = Got(p) \cup {e[1]}
         /\ GotOn(p, e[3])' = GotOn(p, e[3]) \cup {e[1]}
         /\ \A l : l # e[3] => GotOn(p, l)' = GotOn(p, l)
         /\ GotSorted(p) /\ e[1] \notin Got(p) /\ Before(GotOn(p, e[3]), {e[1]}) => GotSorted(p)'
<1>1. PICK n \in Nat : n = Len(received[p])
  BY LenProperties, SMTT(30)
<1>2. /\ Len(received'[p]) = n + 1
      /\ \A i \in 1 .. n : received'[p][i] = received[p][i]
      /\ received'[p][n + 1] = e
  BY <1>1, AppendItem, SMTT(30)
<1>3. \A i \in 1 .. n + 1 : i \in 1 .. n \/ i = n + 1
  BY SMTT(30)
<1>4. Got(p)' = Got(p) \cup {e[1]}
  BY <1>1, <1>2, <1>3, SMTT(30) DEF Got, Items
<1>5. GotOn(p, e[3])' = GotOn(p, e[3]) \cup {e[1]}
  <2>1. ASSUME NEW m, m \in GotOn(p, e[3])' PROVE m \in GotOn(p, e[3]) \cup {e[1]}
    BY <1>1, <1>2, <1>3, <2>1, SMTT(30) DEF GotOn
  <2>2. ASSUME NEW m, m \in GotOn(p, e[3]) PROVE m \in GotOn(p, e[3])'
    BY <1>1, <1>2, <1>3, <2>2, SMTT(30) DEF GotOn
  <2>3. e[1] \in GotOn(p, e[3])'
    BY <1>2, SMTT(30) DEF GotOn
  <2> QED BY <2>1, <2>2, <2>3, Zenon
<1>6. ASSUME NEW l, l # e[3] PROVE GotOn(p, l)' = GotOn(p, l)
  <2>1. ASSUME NEW m, m \in GotOn(p, l)' PROVE m \in GotOn(p, l)
    BY <1>1, <1>2, <1>3, <1>6, <2>1, SMTT(30) DEF GotOn
  <2>2. ASSUME NEW m, m \in GotOn(p, l) PROVE m \in GotOn(p, l)'
    BY <1>1, <1>2, <1>3, <2>2, SMTT(30) DEF GotOn
  <2> QED BY <2>1, <2>2, Zenon
<1>7. ASSUME GotSorted(p), e[1] \notin Got(p), Before(GotOn(p, e[3]), {e[1]}) PROVE GotSorted(p)'
  <2> SUFFICES ASSUME NEW i \in 1 .. n + 1, NEW j \in 1 .. n + 1, i < j
               PROVE  /\ received'[p][i][1] # received'[p][j][1]
                      /\ received'[p][i][3] = received'[p][j][3]
                         /\ received'[p][i][1][1] = received'[p][j][1][1]
                           => received'[p][i][1][2] < received'[p][j][1][2]
    BY <1>2, Zenon DEF GotSorted
  <2>1. i \in 1 .. n /\ received'[p][i] = received[p][i]
    BY <1>2, SMTT(30)
  <2>2. CASE j = n + 1
    <3>1. received'[p][j] = e /\ received[p][i][1] \in Got(p)
      BY <1>1, <1>2, <2>1, <2>2, SMTT(30) DEF Got, Items
    <3>2. received[p][i][3] = e[3] => received[p][i][1] \in GotOn(p, e[3])
      BY <1>1, <2>1, SMTT(30) DEF GotOn
    <3> QED BY <1>7, <2>1, <3>1, <3>2, Zenon DEF Before
  <2>3. CASE j # n + 1
    <3>1. j \in 1 .. n /\ received'[p][j] = received[p][j]
      BY <1>2, <1>3, <2>3, SMTT(30)
    <3> QED BY <1>1, <1>7, <2>1, <3>1, ZenonT(60) DEF GotSorted
  <2> QED BY <2>2, <2>3, ZenonT(60)
<1> QED BY <1>4, <1>5, <1>6, <1>7, Zenon

LEMMA ReplayPeers == ASSUME PeersInv, NEW p \in Peers, Replay(p) PROVE PeersInv'
<1>0. TypeOK /\ OrderInv(p) /\ JoinInv(p)
  BY Zenon DEF PeersInv
<1>1. PICK k \in 1 .. Len(links[p]) :
        /\ links[p][k] # <<>>
        /\ received' = [received EXCEPT ![p] =
                          Append(@, <<Head(links[p][k])[1], Head(links[p][k])[2], k>>)]
        /\ links' = [links EXCEPT ![p][k] = Tail(@)]
        /\ UNCHANGED <<handlerVars, nodes, posts, retain, epVars, broken, panic>>
  BY Zenon DEF Replay
<1>2. /\ links[p] \in Seq(Seq(Msgs \X BOOLEAN))
      /\ links \in [Peers -> Seq(Seq(Msgs \X BOOLEAN))]
      /\ received \in [Peers -> Seq(Msgs \X BOOLEAN \X Nat)]
      /\ received[p] \in Seq(Msgs \X BOOLEAN \X Nat)
  BY <1>0, SMTT(30) DEF TypeOK
<1>3. links[p][k] \in Seq(Msgs \X BOOLEAN)
  BY <1>2, ElementOfSeq, SMTT(30)
<1>4. Head(links[p][k]) \in Msgs \X BOOLEAN /\ Tail(links[p][k]) \in Seq(Msgs \X BOOLEAN)
  BY <1>1, <1>3, TailItem, SMTT(30)
<1>5. PICK x \in Msgs, e \in Msgs \X BOOLEAN \X Nat, t \in Seq(Msgs \X BOOLEAN) :
        /\ x = Head(links[p][k])[1] /\ e[1] = x /\ e[3] = k
        /\ e = <<Head(links[p][k])[1], Head(links[p][k])[2], k>>
        /\ t = Tail(links[p][k])
  <2>1. k \in Nat
    BY <1>2, LenProperties, SMTT(30)
  <2>2. PICK h \in Msgs \X BOOLEAN : h = Head(links[p][k])
    BY <1>4, Zenon
  <2>3. /\ <<h[1], h[2], k>> \in Msgs \X BOOLEAN \X Nat
        /\ <<h[1], h[2], k>>[1] = h[1] /\ <<h[1], h[2], k>>[3] = k /\ h[1] \in Msgs
    BY <2>1, SMTT(30)
  <2> QED BY <1>4, <2>2, <2>3, Zenon
<1>6. /\ links' \in [Peers -> Seq(Seq(Msgs \X BOOLEAN))]
      /\ \A q \in Peers \ {p} : links'[q] = links[q]
      /\ Len(links'[p]) = Len(links[p])
      /\ links'[p][k] = t
      /\ \A l \in (1 .. Len(links[p])) \ {k} : links'[p][l] = links[p][l]
      /\ links'[p] # <<>>
  <2>1. [links[p] EXCEPT ![k] = t] \in Seq(Seq(Msgs \X BOOLEAN))
        /\ Len([links[p] EXCEPT ![k] = t]) = Len(links[p])
    BY <1>2, ExceptSeq, SMTT(30)
  <2>2. links' = [links EXCEPT ![p] = [links[p] EXCEPT ![k] = t]]
    BY <1>1, <1>2, <1>5, SMTT(30)
  <2> QED BY <1>2, <2>1, <2>2, SMTT(30)
<1>7. /\ received'[p] = Append(received[p], e)
      /\ received' \in [Peers -> Seq(Msgs \X BOOLEAN \X Nat)]
      /\ \A q \in Peers \ {p} : received'[q] = received[q]
  <2>1. received' = [received EXCEPT ![p] = Append(received[p], e)]
    BY <1>1, <1>5, Zenon
  <2>2. Append(received[p], e) \in Seq(Msgs \X BOOLEAN \X Nat)
    BY <1>2, AppendItem, SMTT(30)
  <2> QED BY <1>2, <2>1, <2>2, SMTT(30)
<1>8. /\ ItemsSorted(links[p][k])
      /\ Before(GotOn(p, k), OnWay(p, k))
      /\ Got(p) \cap OnWay(p, k) = {}
      /\ \A l \in 1 .. Len(links[p]) : l # k => OnWay(p, l) \cap OnWay(p, k) = {}
  BY <1>0, Zenon DEF OrderInv, WayInv
<1>9. OnWay(p, k) = {x} \cup OnWay(p, k)' /\ ItemsSorted(t) /\ Before({x}, OnWay(p, k)')
  <2>1. /\ Items(links[p][k]) = {Head(links[p][k])[1]} \cup Items(Tail(links[p][k]))
        /\ ItemsSorted(Tail(links[p][k]))
        /\ Before({Head(links[p][k])[1]}, Items(Tail(links[p][k])))
    BY <1>1, <1>3, <1>8, TailItems, Zenon
  <2> QED BY <1>5, <1>6, <2>1, Zenon DEF OnWay
<1>10. \A l \in (1 .. Len(links[p])) \ {k} : OnWay(p, l)' = OnWay(p, l)
  BY <1>6, Zenon DEF OnWay
<1>11. /\ x \notin Got(p) /\ x \notin OnWay(p, k)'
       /\ \A l \in (1 .. Len(links[p])) \ {k} : x \notin OnWay(p, l)
       /\ Before(GotOn(p, k), {x})
  <2>1. ~(x[2] < x[2])
    BY DEF Msgs
  <2> QED BY <1>8, <1>9, <2>1, Zenon DEF Before
<1>12. /\ Got(p)' = Got(p) \cup {x}
       /\ GotOn(p, k)' = GotOn(p, k) \cup {x}
       /\ \A l : l # k => GotOn(p, l)' = GotOn(p, l)
       /\ GotSorted(p)'
  <2>1. /\ Got(p)' = Got(p) \cup {e[1]}
        /\ GotOn(p, e[3])' = GotOn(p, e[3]) \cup {e[1]}
        /\ \A l : l # e[3] => GotOn(p, l)' = GotOn(p, l)
        /\ GotSorted(p) /\ e[1] \notin Got(p) /\ Before(GotOn(p, e[3]), {e[1]}) => GotSorted(p)'
    BY <1>2, <1>7, GotAppend, ZenonT(60)
  <2>2. e[1] = x /\ e[3] = k
    BY <1>5, SMTT(30)
  <2>3. GotSorted(p) /\ e[1] \notin Got(p) /\ Before(GotOn(p, e[3]), {e[1]})
    BY <1>0, <1>11, <2>2, Zenon DEF OrderInv
  <2> QED BY <2>1, <2>2, <2>3, Zenon
<1>13. Passed(p)' = Passed(p)
  <2>1. ASSUME NEW m PROVE m \in Passed(p)' <=> m \in Passed(p)
    <3>1. (\E l \in 1 .. Len(links[p]) : m \in OnWay(p, l))
            <=> m = x \/ \E l \in 1 .. Len(links[p]) : m \in OnWay(p, l)'
      <4>1. ASSUME NEW l \in 1 .. Len(links[p]), m \in OnWay(p, l), m # x PROVE m \in OnWay(p, l)'
        BY <1>9, <1>10, <4>1, Zenon
      <4>2. ASSUME NEW l \in 1 .. Len(links[p]), m \in OnWay(p, l)' PROVE m \in OnWay(p, l)
        BY <1>9, <1>10, <4>2, Zenon
      <4>3. x \in OnWay(p, k)
        BY <1>9, Zenon
      <4> QED BY <4>1, <4>2, <4>3, Zenon
    <3>2. m \in Got(p)' <=> m \in Got(p) \/ m = x
      BY <1>12, Zenon
    <3> QED BY <1>6, <3>1, <3>2, PassedIff, Zenon
  <2> QED BY <2>1, Zenon
<1>14. Taken(p)' = Taken(p) /\ Queued(p)' = Queued(p) /\ ElemsSorted(jobs'[p])
  BY <1>0, <1>1, SMTT(30) DEF Taken, Queued, OrderInv, epVars
<1>15. WayInv(p)'
  <2> SUFFICES ASSUME NEW l \in 1 .. Len(links[p])
               PROVE  /\ ItemsSorted(links'[p][l])
                      /\ Before(GotOn(p, l)', OnWay(p, l)')
                      /\ Got(p)' \cap OnWay(p, l)' = {}
                      /\ \A j \in 1 .. Len(links[p]) : j # l => OnWay(p, j)' \cap OnWay(p, l)' = {}
    BY <1>6, Zenon DEF WayInv
  <2>1. /\ ItemsSorted(links[p][l])
        /\ Before(GotOn(p, l), OnWay(p, l))
        /\ Got(p) \cap OnWay(p, l) = {}
        /\ \A j \in 1 .. Len(links[p]) : j # l => OnWay(p, j) \cap OnWay(p, l) = {}
    BY <1>0, Zenon DEF OrderInv, WayInv
  <2>2. \A j \in 1 .. Len(links[p]) : OnWay(p, j)' \subseteq OnWay(p, j)
    BY <1>9, <1>10, Zenon
  <2>3. OnWay(p, l)' \subseteq OnWay(p, l) /\ x \notin OnWay(p, l)'
    BY <1>9, <1>10, <1>11, Zenon
  <2>4. /\ Got(p)' \cap OnWay(p, l)' = {}
        /\ \A j \in 1 .. Len(links[p]) : j # l => OnWay(p, j)' \cap OnWay(p, l)' = {}
    BY <1>12, <2>1, <2>2, <2>3, Zenon
  <2>5. CASE l = k
    BY <1>6, <1>9, <1>12, <2>1, <2>4, <2>5, Zenon DEF Before
  <2>6. CASE l # k
    BY <1>6, <1>10, <1>12, <2>1, <2>4, <2>6, Zenon
  <2> QED BY <2>5, <2>6, SMTT(30)
<1>16. OrderInv(p)'
  BY <1>0, <1>12, <1>13, <1>14, <1>15, Zenon DEF OrderInv
<1>17. AtPeer(p)' \subseteq AtPeer(p)
  BY <1>13, <1>14, Zenon DEF AtPeer
<1>18. TypeOK'
  BY <1>0, <1>1, <1>6, <1>7, Zenon DEF TypeOK, handlerVars, epVars
<1>19. /\ UNCHANGED handlerVars /\ nodes' = nodes
       /\ ep'[p] = ep[p]
       /\ \A q \in Peers \ {p} : Same(q) /\ ep'[q] = ep[q]
  BY <1>1, <1>6, <1>7, Zenon DEF Same, epVars
<1> QED BY <1>6, <1>16, <1>17, <1>18, <1>19, StepOfPeer, Zenon

----------------------------------------------------------------------------
(* The result                                                              *)

LEMMA InitPeers == Init => PeersInv
<1> SUFFICES ASSUME Init PROVE PeersInv
  OBVIOUS
<1>1. TypeOK
  <2>1. /\ sent \in [Clients -> 0 .. MaxMsgs] /\ rest \in [Clients -> SUBSET Peers]
        /\ sending \in [Clients -> Peers \cup {NoPeer}] /\ nodes \subseteq Peers
        /\ retain \subseteq Msgs
    BY PeersAssumption, SMTT(30) DEF Init
  <2>2. /\ posts \in Seq(Msgs) /\ Len(posts) <= PostsLen
        /\ jobs \in [Peers -> Seq(Msgs)] /\ \A p \in Peers : Len(jobs[p]) <= QueueLen
    BY PeersAssumption, SMTT(30) DEF Init
  <2>3. /\ links \in [Peers -> Seq(Seq(Msgs \X BOOLEAN))]
        /\ received \in [Peers -> Seq(Msgs \X BOOLEAN \X Nat)]
        /\ broken \in [Peers -> SUBSET (Nat \ {0})]
    BY DEF Init
  <2>4. /\ running \in [Peers -> BOOLEAN] /\ alive \in [Peers -> BOOLEAN]
        /\ closed \in [Peers -> BOOLEAN] /\ panic \in BOOLEAN
    BY Zenon DEF Init
  <2>5. /\ ep \in [Peers -> {"new", "dial", "run", "encode", "leave", "close", "done"}]
        /\ cur \in [Peers -> Msgs \cup {NoMsg}]
        /\ \A p \in Peers : ep[p] # "encode" /\ cur[p] = NoMsg
    BY SMTT(30) DEF Init
  <2> QED BY <2>1, <2>2, <2>3, <2>4, <2>5, Zenon DEF TypeOK
<1>2. ASSUME NEW p \in Peers
      PROVE  /\ jobs[p] = <<>> /\ links[p] = <<>> /\ received[p] = <<>>
             /\ ep[p] \in {"dial", "new"} /\ (p \notin nodes => ep[p] = "new")
             /\ \A c \in Clients : rest[c] = {} /\ sending[c] # p
  BY PeersAssumption, SMTT(30) DEF Init
<1>3. ASSUME NEW p \in Peers
      PROVE  Queued(p) = {} /\ Taken(p) = {} /\ Got(p) = {} /\ Passed(p) = {} /\ AtPeer(p) = {}
  <2>1. Queued(p) = {} /\ Taken(p) = {} /\ Got(p) = {}
    BY <1>2, SMTT(30) DEF Queued, Taken, Got, Elems, Items
  <2>2. 1 .. Len(links[p]) = {}
    BY <1>2, SMTT(30)
  <2>3. Passed(p) = {}
    BY <2>1, <2>2, Zenon DEF Passed
  <2> QED BY <2>1, <2>3, Zenon DEF AtPeer
<1>4. ASSUME NEW p \in Peers PROVE OrderInv(p)
  <2>1. ElemsSorted(jobs[p]) /\ GotSorted(p) /\ WayInv(p)
    BY <1>2, SMTT(30) DEF ElemsSorted, GotSorted, WayInv
  <2> QED BY <1>3, <2>1, Zenon DEF OrderInv, Before
<1>5. ASSUME NEW p \in Peers PROVE NewerInv(p) /\ JoinInv(p)
  BY <1>2, <1>3, SMTT(30) DEF NewerInv, JoinInv
<1> QED BY <1>1, <1>4, <1>5, Zenon DEF PeersInv

LEMMA StutterPeers == ASSUME PeersInv, UNCHANGED vars PROVE PeersInv'
<1>1. TypeOK'
  BY Zenon DEF PeersInv, TypeOK, vars
<1>2. UNCHANGED handlerVars /\ nodes' = nodes /\ ep' = ep
  BY Zenon DEF vars, handlerVars
<1>3. \A p \in Peers : Same(p)
  BY Zenon DEF vars, Same
<1> QED BY <1>1, <1>2, <1>3, QuietPeers, Zenon

LEMMA NextPeers == PeersInv /\ [Next]_vars => PeersInv'
<1> SUFFICES ASSUME PeersInv, [Next]_vars PROVE PeersInv'
  OBVIOUS
<1>1. ASSUME NEW c \in Clients, Publish(c) \/ Replicate(c) \/ Submit(c) PROVE PeersInv'
  BY <1>1, PublishPeers, ReplicatePeers, SubmitPeers, Zenon
<1>2. CASE TakePost
  BY <1>2, TakePostPeers, Zenon
<1>3. ASSUME NEW p \in Peers, Join(p) \/ Stop(p) \/ Endpoint(p) PROVE PeersInv'
  BY <1>3, JoinPeers, StopPeers, DialPeers, TakeJobPeers, EncodePeers, Zenon DEF Endpoint
<1>4. ASSUME NEW p \in Peers, Replay(p) \/ Break(p) PROVE PeersInv'
  BY <1>4, ReplayPeers, BreakPeers, Zenon
<1>5. CASE UNCHANGED vars
  BY <1>5, StutterPeers, Zenon
<1> QED BY <1>1, <1>2, <1>3, <1>4, <1>5, Zenon DEF Next

LEMMA PeersInvImplies == PeersInv => TypeOK /\ ReplicaInOrder
<1> SUFFICES ASSUME PeersInv PROVE TypeOK /\ ReplicaInOrder
  OBVIOUS
<1>1. TypeOK /\ \A p \in Peers : GotSorted(p)
  BY Zenon DEF PeersInv, OrderInv
<1>2. ReplicaInOrder
  BY <1>1, Zenon DEF GotSorted, ReplicaInOrder
<1> QED BY <1>1, <1>2, SMTT(30)

(* No queue of an endpoint exceeds its capacity, and an endpoint has a job *)
(* in hand exactly while it encodes one, with join, stop and lost links in *)
(* any order.                                                              *)
THEOREM PeersTyped == Spec => []TypeOK
<1>1. Spec => []PeersInv
  BY InitPeers, NextPeers, PTL DEF Spec
<1> QED BY <1>1, PeersInvImplies, PTL

(* No peer gets a message twice, and what a peer gets over one connection  *)
(* is in the order in which the client published it, for replicate,        *)
(* submit, runSession and replay in any interleaving, with join, stop and  *)
(* lost links.                                                             *)
THEOREM ReplicasSafe == Spec => []ReplicaInOrder
<1>1. Spec => []PeersInv
  BY InitPeers, NextPeers, PTL DEF Spec
<1> QED BY <1>1, PeersInvImplies, PTL

=============================================================================
