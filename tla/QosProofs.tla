----------------------------- MODULE QosProofs -----------------------------
(***************************************************************************)
(* What a PubAck means to a publisher, for any number of clients, messages *)
(* and connections, with any choice of message ids.                        *)
(***************************************************************************)
EXTENDS Qos, SequenceTheorems, TLAPS

(* A PubAck in a queue, and a handler that is about to send one, come      *)
(* after the message was submitted.                                        *)
AcksFollow ==
  /\ \A h \in handlers : h.next = "ack" => h.msg \in submitted
  /\ \A c \in Clients : \A i \in 1 .. Len(jobs[c]) :
        jobs[c][i][1] = "puback" => jobs[c][i][2] \in submitted

Begun == \A c \in Clients : conn[c] # "down" => session[c] # 0

QosInv == TypeOK /\ Begun /\ AcksFollow /\ ConfirmedIsSubmitted

(* persist_inbound and persist_outbound keep a store a store.              *)
LEMMA StoreType ==
  ASSUME NEW s \in [Keys -> Msgs \cup {NoMsg}]
  PROVE  /\ \A m \in Msgs : PersistInbound(s, m) \in [Keys -> Msgs \cup {NoMsg}]
         /\ \A j \in Jobs : PersistOutbound(s, j) \in [Keys -> Msgs \cup {NoMsg}]
BY Zenon DEF PersistInbound, PersistOutbound, Put, Delete, Jobs

(* submit() keeps the bound of a queue and adds nothing but the job.       *)
LEMMA QueuedType ==
  ASSUME NEW q \in Seq(Jobs), NEW j \in Jobs, Len(q) <= QueueLen
  PROVE  /\ Queued(q, j) \in Seq(Jobs)
         /\ Len(Queued(q, j)) <= QueueLen
         /\ \A i \in 1 .. Len(Queued(q, j)) :
               \/ Queued(q, j)[i] = j
               \/ i \in 1 .. Len(q) /\ Queued(q, j)[i] = q[i]
<1>1. /\ Append(q, j) \in Seq(Jobs) /\ Len(Append(q, j)) = Len(q) + 1
      /\ Append(q, j)[Len(q) + 1] = j
      /\ \A i \in 1 .. Len(q) : Append(q, j)[i] = q[i]
      /\ Len(q) \in Nat /\ QueueLen \in Nat
  BY AppendProperties, QosAssumption
<1>2. CASE Len(q) < QueueLen
  <2>1. Queued(q, j) = Append(q, j)
    BY <1>2 DEF Queued
  <2>2. Len(q) + 1 <= QueueLen /\ \A i \in 1 .. Len(q) + 1 : i = Len(q) + 1 \/ i \in 1 .. Len(q)
    BY <1>1, <1>2
  <2> QED BY <1>1, <2>1, <2>2, Zenon
<1>3. CASE ~(Len(q) < QueueLen)
  <2>1. Queued(q, j) = q
    BY <1>3 DEF Queued
  <2> QED BY <2>1, Zenon
<1> QED BY <1>2, <1>3

(* So the PubAcks in it still follow their messages.                       *)
LEMMA QueuedAcks ==
  ASSUME NEW q \in Seq(Jobs), NEW j \in Jobs, Len(q) <= QueueLen, NEW sub,
         \A i \in 1 .. Len(q) : q[i][1] = "puback" => q[i][2] \in sub,
         j[1] = "puback" => j[2] \in sub
  PROVE  \A i \in 1 .. Len(Queued(q, j)) :
            Queued(q, j)[i][1] = "puback" => Queued(q, j)[i][2] \in sub
BY QueuedType, Zenon

LEMMA QosInit == Init => QosInv
<1> SUFFICES ASSUME Init PROVE QosInv
  OBVIOUS
<1>1. EmptyStore \in [Keys -> Msgs \cup {NoMsg}]
  BY DEF EmptyStore
<1>2. <<>> \in Seq(Jobs) /\ <<>> \in Seq(Msgs)
  OBVIOUS
<1>3. 0 \in 0 .. MaxSessions
  BY QosAssumption
<1>4. TypeOK
  BY <1>1, <1>2, <1>3, QosAssumption DEF Init, TypeOK, None
<1> QED BY <1>4 DEF Init, QosInv, Begun, AcksFollow, ConfirmedIsSubmitted

LEMMA QosStep == QosInv /\ [Next]_vars => QosInv'
<1> SUFFICES ASSUME QosInv, [Next]_vars PROVE QosInv'
  OBVIOUS
<1> DEFINE S == [Keys -> Msgs \cup {NoMsg}]
           H == [from : Clients, at : 1 .. MaxSessions, msg : Msgs, next : {"submit", "ack"}]
<1>0. /\ conn \in [Clients -> {"down", "connecting", "up", "broken"}]
      /\ session \in [Clients -> 0 .. MaxSessions]
      /\ keys \in [Clients -> SUBSET Keys]
      /\ store \in [Clients -> S]
      /\ handlers \subseteq H
      /\ posts \in Seq(Msgs)
      /\ jobs \in [Clients -> Seq(Jobs)]
      /\ \A c \in Clients : Len(jobs[c]) <= QueueLen
      /\ subscribed \subseteq {c \in Subscribers : conn[c] # "down"}
      /\ \A c \in Clients : conn[c] = "down" => jobs[c] = <<>>
  BY DEF QosInv, TypeOK
<1>i. Begun /\ AcksFollow /\ ConfirmedIsSubmitted
  BY DEF QosInv
<1>m. MaxSessions \in Nat /\ Subscribers \subseteq Clients
  BY QosAssumption
<1> HIDE DEF S, H
<1>1. CASE UNCHANGED vars
  BY <1>0, <1>i, <1>1 DEF vars, QosInv, TypeOK, Begun, AcksFollow, ConfirmedIsSubmitted, S, H
<1>2. ASSUME NEW c \in Clients, Connect(c) PROVE QosInv'
  <2>1. EmptyStore \in S /\ All(store[c]) \in SUBSET Keys
    BY DEF EmptyStore, All, S
  <2>2. /\ conn' \in [Clients -> {"down", "connecting", "up", "broken"}]
        /\ \A d \in Clients : conn'[d] = "down" => conn[d] = "down"
        /\ \A d \in Clients \ {c} : conn'[d] = conn[d] /\ session'[d] = session[d]
        /\ session'[c] = session[c] + 1
    BY <1>0, <1>2 DEF Connect
  <2>5. session' \in [Clients -> 0 .. MaxSessions]
    BY <1>0, <1>m, <1>2 DEF Connect
  <2>6. Begun'
    <3>1. session'[c] # 0
      BY <1>0, <1>m, <2>2
    <3> QED BY <1>i, <2>2, <3>1 DEF Begun
  <2>7. keys' \in [Clients -> SUBSET Keys]
    BY <1>0, <1>2, <2>1, Zenon DEF Connect
  <2>8. store' \in [Clients -> S]
    BY <1>0, <1>2, <2>1, Zenon DEF Connect
  <2>3. UNCHANGED <<subscribed, handlers, posts, jobs, submitted, confirmed>>
    BY <1>2 DEF Connect
  <2>4. TypeOK'
    BY <1>0, <1>m, <2>2, <2>3, <2>5, <2>7, <2>8 DEF TypeOK, S, H
  <2> QED BY <1>i, <2>3, <2>4, <2>6 DEF QosInv, AcksFollow, ConfirmedIsSubmitted
<1>3. ASSUME NEW c \in Clients, Resubmit(c) PROVE QosInv'
  <2>1. PICK k \in keys[c] :
          /\ keys' = [keys EXCEPT ![c] = @ \ {k}]
          /\ jobs' = IF Resubmits(c, k)
                     THEN [jobs EXCEPT ![c] = Queued(@, <<"publish", store[c][k]>>)]
                     ELSE jobs
    BY <1>3, Zenon DEF Resubmit
  <2>2. UNCHANGED <<conn, session, subscribed, store, handlers, posts, submitted, confirmed>>
    BY <1>3 DEF Resubmit, history
  <2>3. conn[c] # "down"
    BY <1>3 DEF Resubmit
  <2>4. CASE ~Resubmits(c, k)
    <3>1. jobs' = jobs /\ keys' \in [Clients -> SUBSET Keys]
      BY <1>0, <2>1, <2>4
    <3> QED BY <1>0, <1>i, <2>2, <3>1 DEF QosInv, TypeOK, Begun, AcksFollow, ConfirmedIsSubmitted, S, H
  <2>5. CASE Resubmits(c, k)
    <3> DEFINE j == <<"publish", store[c][k]>>
    <3>1. j \in Jobs
      BY <1>0, <2>1, <2>5 DEF Resubmits, Jobs, S
    <3>2. /\ jobs[c] \in Seq(Jobs) /\ Len(jobs[c]) <= QueueLen
          /\ jobs' = [jobs EXCEPT ![c] = Queued(jobs[c], j)]
      BY <1>0, <2>1, <2>5
    <3>3. j[1] # "puback"
      OBVIOUS
    <3> HIDE DEF j
    <3>4. Queued(jobs[c], j) \in Seq(Jobs) /\ Len(Queued(jobs[c], j)) <= QueueLen
      BY <3>1, <3>2, QueuedType, Zenon
    <3>5. /\ jobs' \in [Clients -> Seq(Jobs)] /\ keys' \in [Clients -> SUBSET Keys]
          /\ \A d \in Clients : Len(jobs'[d]) <= QueueLen
      BY <1>0, <2>1, <3>2, <3>4, Zenon
    <3>6. TypeOK'
      BY <1>0, <2>2, <2>3, <3>2, <3>5 DEF TypeOK, S, H
    <3>7. \A i \in 1 .. Len(Queued(jobs[c], j)) :
             Queued(jobs[c], j)[i][1] = "puback" => Queued(jobs[c], j)[i][2] \in submitted
      BY <1>i, <3>1, <3>2, <3>3, QueuedAcks, Zenon DEF AcksFollow
    <3>8. AcksFollow'
      BY <1>0, <1>i, <2>2, <3>2, <3>7, Zenon DEF AcksFollow
    <3> QED BY <1>i, <2>2, <3>6, <3>8 DEF QosInv, Begun, ConfirmedIsSubmitted
  <2> QED BY <2>4, <2>5
<1>4. ASSUME NEW c \in Clients, Connected(c) \/ Subscribe(c) \/ PublishAck(c) \/ Break(c)
      PROVE QosInv'
  <2>1. UNCHANGED <<session, keys, store, handlers, posts, jobs, submitted, confirmed>>
    BY <1>4 DEF Connected, Subscribe, PublishAck, Break, connVars, history
  <2>2. /\ conn' \in [Clients -> {"down", "connecting", "up", "broken"}]
        /\ \A d \in Clients : conn'[d] = "down" <=> conn[d] = "down"
    BY <1>0, <1>4, Zenon DEF Connected, Subscribe, PublishAck, Break, Ready, connVars
  <2>3. subscribed' \subseteq {d \in Subscribers : conn[d] # "down"}
    BY <1>0, <1>4 DEF Connected, Subscribe, PublishAck, Break, Ready, connVars
  <2>4. TypeOK'
    BY <1>0, <1>m, <2>1, <2>2, <2>3 DEF TypeOK, S, H
  <2> QED BY <1>i, <2>1, <2>2, <2>4 DEF QosInv, Begun, AcksFollow, ConfirmedIsSubmitted
<1>5. ASSUME NEW c \in Clients, NEW m \in Msgs, Publish(c, m) PROVE QosInv'
  <2> DEFINE h == [from |-> c, at |-> session[c], msg |-> m, next |-> "submit"]
  <2>1. conn[c] # "down" /\ handlers' = handlers \cup {h}
    BY <1>5 DEF Publish, Ready
  <2>2. UNCHANGED <<conn, session, keys, subscribed, posts, jobs, submitted, confirmed>>
    BY <1>5 DEF Publish, connVars
  <2>3. store' \in [Clients -> S]
    BY <1>0, <1>5, StoreType DEF Publish, S
  <2>4. h \in H
    BY <1>0, <1>i, <1>m, <2>1 DEF Begun, H
  <2>5. h.next # "ack"
    OBVIOUS
  <2> HIDE DEF h
  <2>6. TypeOK'
    BY <1>0, <2>1, <2>2, <2>3, <2>4 DEF TypeOK, S, H
  <2> QED BY <1>i, <2>1, <2>2, <2>5, <2>6 DEF QosInv, Begun, AcksFollow, ConfirmedIsSubmitted
<1>6. ASSUME NEW h \in handlers, PublishStep(h) PROVE QosInv'
  <2>1. /\ UNCHANGED <<conn, session, keys, subscribed, store, confirmed>>
        /\ h \in H /\ h.msg \in Msgs /\ h.from \in Clients
    BY <1>0, <1>6, SMTT(30) DEF PublishStep, connVars, H
  <2>2. CASE h.next = "submit"
    <3> DEFINE g == [h EXCEPT !.next = "ack"]
    <3>1. /\ posts' = Append(posts, h.msg) /\ submitted' = submitted \cup {h.msg}
          /\ handlers' = (handlers \ {h}) \cup {g} /\ jobs' = jobs
      BY <1>6, <2>2 DEF PublishStep, Post
    <3>2. g \in H /\ g.msg = h.msg
      BY <2>1 DEF H
    <3> HIDE DEF g
    <3>3. posts' \in Seq(Msgs)
      BY <1>0, <2>1, <3>1
    <3>4. TypeOK'
      BY <1>0, <2>1, <3>1, <3>2, <3>3 DEF TypeOK, S, H
    <3> QED BY <1>i, <2>1, <3>1, <3>2, <3>4 DEF QosInv, Begun, AcksFollow, ConfirmedIsSubmitted
  <2>3. CASE h.next = "ack"
    <3> DEFINE j == <<"puback", h.msg>>
               c == h.from
    <3>1. UNCHANGED <<posts, submitted>> /\ handlers' = handlers \ {h}
      BY <1>6, <2>3 DEF PublishStep
    <3>2. \/ jobs' = jobs
          \/ conn[c] # "down" /\ jobs' = [jobs EXCEPT ![c] = Queued(jobs[c], j)]
      BY <1>6, <2>3 DEF PublishStep, PubAck
    <3>3. j \in Jobs /\ j[2] \in submitted
      BY <1>i, <2>1, <2>3 DEF Jobs, AcksFollow
    <3>4. c \in Clients /\ jobs[c] \in Seq(Jobs) /\ Len(jobs[c]) <= QueueLen
      BY <1>0, <2>1
    <3> HIDE DEF j, c
    <3>5. Queued(jobs[c], j) \in Seq(Jobs) /\ Len(Queued(jobs[c], j)) <= QueueLen
      BY <3>3, <3>4, QueuedType, Zenon
    <3>6. /\ jobs' \in [Clients -> Seq(Jobs)]
          /\ \A d \in Clients : Len(jobs'[d]) <= QueueLen
          /\ \A d \in Clients : conn[d] = "down" => jobs'[d] = <<>>
      BY <1>0, <3>2, <3>5, Zenon
    <3>7. \A i \in 1 .. Len(Queued(jobs[c], j)) :
             Queued(jobs[c], j)[i][1] = "puback" => Queued(jobs[c], j)[i][2] \in submitted
      BY <1>i, <3>3, <3>4, QueuedAcks, Zenon DEF AcksFollow
    <3>8. AcksFollow'
      BY <1>0, <1>i, <3>1, <3>2, <3>4, <3>7, Zenon DEF AcksFollow
    <3>9. TypeOK'
      BY <1>0, <2>1, <3>1, <3>6, SMTT(30) DEF TypeOK, S, H
    <3> QED BY <1>i, <2>1, <3>1, <3>8, <3>9 DEF QosInv, Begun, ConfirmedIsSubmitted
  <2> QED BY <1>6, <2>2, <2>3 DEF PublishStep
<1>7. CASE TakePost
  <2> DEFINE j == <<"publish", Head(posts)>>
             to == IF Head(posts) \in Followed THEN subscribed ELSE {}
  <2>1. /\ posts # <<>> /\ posts' = Tail(posts)
        /\ jobs' = [c \in Clients |-> IF c \in to THEN Queued(jobs[c], j) ELSE jobs[c]]
        /\ UNCHANGED <<conn, session, keys, subscribed, store, handlers, submitted, confirmed>>
    BY <1>7 DEF TakePost, connVars
  <2>2. Head(posts) \in Msgs /\ posts' \in Seq(Msgs)
    BY <1>0, <2>1, HeadTailProperties
  <2>3. j \in Jobs /\ j[1] # "puback"
    BY <2>2 DEF Jobs
  <2>4. to \subseteq subscribed
    OBVIOUS
  <2> HIDE DEF j, to
  <2>5. \A c \in Clients : Queued(jobs[c], j) \in Seq(Jobs) /\ Len(Queued(jobs[c], j)) <= QueueLen
    BY <1>0, <2>3, QueuedType
  <2>6. /\ jobs' \in [Clients -> Seq(Jobs)]
        /\ \A c \in Clients : Len(jobs'[c]) <= QueueLen
        /\ \A c \in Clients : conn[c] = "down" => jobs'[c] = <<>>
    BY <1>0, <2>1, <2>4, <2>5
  <2>7. TypeOK'
    BY <1>0, <2>1, <2>2, <2>6 DEF TypeOK, S, H
  <2>8. ASSUME NEW c \in Clients, NEW i \in 1 .. Len(jobs'[c]), jobs'[c][i][1] = "puback"
        PROVE jobs'[c][i][2] \in submitted
    <3>1. jobs[c] \in Seq(Jobs) /\ Len(jobs[c]) <= QueueLen
      BY <1>0
    <3>2. CASE jobs'[c] = jobs[c]
      BY <1>i, <2>8, <3>2 DEF AcksFollow
    <3>3. CASE jobs'[c] = Queued(jobs[c], j)
      <4>1. \A n \in 1 .. Len(Queued(jobs[c], j)) :
              Queued(jobs[c], j)[n][1] = "puback" => Queued(jobs[c], j)[n][2] \in submitted
        BY <1>i, <2>3, <3>1, QueuedAcks, Zenon DEF AcksFollow
      <4> QED BY <2>8, <3>3, <4>1, Zenon
    <3> QED BY <2>1, <3>2, <3>3
  <2> QED BY <1>i, <2>1, <2>7, <2>8 DEF QosInv, Begun, AcksFollow, ConfirmedIsSubmitted
<1>8. ASSUME NEW c \in Clients, Send(c) PROVE QosInv'
  <2> DEFINE j == Head(jobs[c])
  <2>1. /\ jobs[c] # <<>> /\ jobs' = [jobs EXCEPT ![c] = Tail(jobs[c])]
        /\ store' = [store EXCEPT ![c] = PersistOutbound(store[c], j)]
        /\ UNCHANGED <<conn, session, keys, subscribed, handlers, posts, submitted>>
    BY <1>8 DEF Send, connVars
  <2>2. confirmed' = confirmed \/ (j[1] = "puback" /\ confirmed' \subseteq confirmed \cup {j[2]})
    BY <1>8 DEF Send
  <2>3. jobs[c] \in Seq(Jobs) /\ Len(jobs[c]) > 0
    BY <1>0, <2>1
  <2>4. /\ j = jobs[c][1] /\ j \in Jobs /\ Tail(jobs[c]) \in Seq(Jobs)
        /\ Len(Tail(jobs[c])) = Len(jobs[c]) - 1
        /\ \A i \in 1 .. Len(Tail(jobs[c])) : Tail(jobs[c])[i] = jobs[c][i + 1]
    BY <2>1, <2>3, HeadTailProperties
  <2> HIDE DEF j
  <2>5. store' \in [Clients -> S]
    <3>1. PersistOutbound(store[c], j) \in S
      BY <1>0, <2>4, StoreType, Zenon DEF S
    <3> QED BY <1>0, <2>1, <3>1
  <2>6. /\ jobs' \in [Clients -> Seq(Jobs)]
        /\ \A d \in Clients : conn[d] = "down" => jobs'[d] = <<>>
    BY <1>0, <2>1, <2>4
  <2>l. \A d \in Clients : Len(jobs'[d]) <= QueueLen
    <3>1. Len(Tail(jobs[c])) <= QueueLen
      BY <1>0, <2>3, <2>4, QosAssumption
    <3> QED BY <1>0, <2>1, <3>1
  <2>7. TypeOK'
    BY <1>0, <2>1, <2>5, <2>6, <2>l DEF TypeOK, S, H
  <2>8. ConfirmedIsSubmitted'
    <3>1. j[1] = "puback" => j[2] \in submitted
      BY <1>i, <2>3, <2>4 DEF AcksFollow
    <3> QED BY <1>i, <2>1, <2>2, <3>1 DEF ConfirmedIsSubmitted
  <2>9. AcksFollow'
    <3>1. \A i \in 1 .. Len(Tail(jobs[c])) : Tail(jobs[c])[i][1] = "puback" => Tail(jobs[c])[i][2] \in submitted
      BY <1>i, <2>3, <2>4 DEF AcksFollow
    <3>2. \A d \in Clients : jobs'[d] = IF d = c THEN Tail(jobs[c]) ELSE jobs[d]
      BY <1>0, <2>1
    <3> QED BY <1>i, <2>1, <3>1, <3>2 DEF AcksFollow
  <2> QED BY <1>i, <2>1, <2>7, <2>8, <2>9 DEF QosInv, Begun
<1>9. ASSUME NEW c \in Clients, HangUp(c) PROVE QosInv'
  <2>1. UNCHANGED <<session, store, handlers, posts, submitted, confirmed>>
    BY <1>9 DEF HangUp, history
  <2>2. /\ conn' \in [Clients -> {"down", "connecting", "up", "broken"}]
        /\ \A d \in Clients \ {c} : conn'[d] = conn[d] /\ jobs'[d] = jobs[d]
        /\ conn'[c] = "down" /\ jobs'[c] = <<>>
    BY <1>0, <1>9 DEF HangUp
  <2>3. <<>> \in Seq(Jobs) /\ Len(<<>>) = 0
    OBVIOUS
  <2>4. /\ jobs' \in [Clients -> Seq(Jobs)] /\ keys' \in [Clients -> SUBSET Keys]
        /\ \A d \in Clients : Len(jobs'[d]) <= QueueLen
    BY <1>0, <1>9, <2>2, <2>3, QosAssumption DEF HangUp
  <2>5. subscribed' \subseteq {d \in Subscribers : conn'[d] # "down"}
    BY <1>0, <1>m, <1>9, <2>2 DEF HangUp
  <2>6. TypeOK'
    BY <1>0, <2>1, <2>2, <2>4, <2>5, ZenonT(60) DEF TypeOK, S, H
  <2>7. Begun'
    BY <1>i, <2>1, <2>2 DEF Begun
  <2>8. AcksFollow'
    BY <1>i, <2>1, <2>2, <2>3 DEF AcksFollow
  <2> QED BY <1>i, <2>1, <2>6, <2>7, <2>8 DEF QosInv, ConfirmedIsSubmitted
<1> QED BY <1>1, <1>2, <1>3, <1>4, <1>5, <1>6, <1>7, <1>8, <1>9 DEF Next

(* The stores, handlers and queues keep their types, and no connection     *)
(* that is down has jobs or subscriptions, whenever doPublish, the workers *)
(* and outboundLoop go on after a connection broke.                        *)
THEOREM QosTyped == Spec => []TypeOK
<1>1. QosInv => TypeOK
  BY DEF QosInv
<1> QED BY <1>1, QosInit, QosStep, PTL DEF Spec

(* A PubAck that reaches a publisher means that the broker has given the   *)
(* message to its subscriptions, however connections break and messages    *)
(* are published again.                                                    *)
THEOREM PubAckIsTrue == Spec => []ConfirmedIsSubmitted
<1>1. QosInv => ConfirmedIsSubmitted
  BY DEF QosInv
<1> QED BY <1>1, QosInit, QosStep, PTL DEF Spec

----------------------------------------------------------------------------
(* The outbound part of a store, which is keyed by the message id alone.   *)

(* For a client's store s and the messages w that the broker began to      *)
(* write to it.                                                            *)
KeptOf(s, w) ==
  \A m \in w : \E x \in w : MidOf[x] = MidOf[m] /\ s[<<"o.", MidOf[m]>>] = x

StoreInv ==
  /\ written \in [Clients -> SUBSET Msgs]
  /\ \A c \in Clients : KeptOf(store[c], written[c])

(* persist_inbound leaves the outbound part alone.                         *)
LEMMA InboundKeeps ==
  ASSUME NEW s \in [Keys -> Msgs \cup {NoMsg}], NEW m \in Msgs,
         NEW w \in SUBSET Msgs, KeptOf(s, w)
  PROVE  KeptOf(PersistInbound(s, m), w)
<1>1. PICK key : key = <<"i.", MidOf[m]>>
  BY Zenon
<1>2. PICK t : t = PersistInbound(s, m)
  BY Zenon
<1>3. \A p \in Msgs : <<"o.", MidOf[p]>> \in Keys /\ <<"o.", MidOf[p]>> # key
  BY <1>1 DEF Keys, Mids
<1>4. t = [s EXCEPT ![key] = m]
  BY <1>1, <1>2, Zenon DEF PersistInbound, Put, Key
<1>5. \A k \in Keys : k # key => t[k] = s[k]
  BY <1>4
<1>6. \A p \in w : t[<<"o.", MidOf[p]>>] = s[<<"o.", MidOf[p]>>]
  BY <1>3, <1>5, Zenon
<1>7. KeptOf(t, w)
  BY <1>6, Zenon DEF KeptOf
<1> QED BY <1>2, <1>7

(* persist_outbound puts a message in the place of one with its id, and a  *)
(* PubAck removes from the inbound part.                                   *)
LEMMA OutboundKeeps ==
  ASSUME NEW s \in [Keys -> Msgs \cup {NoMsg}], NEW j \in Jobs,
         NEW w \in SUBSET Msgs, KeptOf(s, w)
  PROVE  /\ j[1] # "publish" => KeptOf(PersistOutbound(s, j), w)
         /\ j[1] = "publish" => KeptOf(PersistOutbound(s, j), w \cup {j[2]})
<1>1. PICK t : t = PersistOutbound(s, j)
  BY Zenon
<1>2. PICK okey : okey = <<"o.", MidOf[j[2]]>>
  BY Zenon
<1>3. PICK ikey : ikey = <<"i.", MidOf[j[2]]>>
  BY Zenon
<1>4. j[2] \in Msgs
  BY DEF Jobs
<1>5. \A p \in Msgs : /\ <<"o.", MidOf[p]>> \in Keys /\ <<"o.", MidOf[p]>> # ikey
                      /\ <<"o.", MidOf[p]>> = okey => MidOf[j[2]] = MidOf[p]
  BY <1>2, <1>3 DEF Keys, Mids
<1>6. CASE j[1] = "publish"
  <2>1. t = [s EXCEPT ![okey] = j[2]]
    BY <1>1, <1>2, <1>6, Zenon DEF PersistOutbound, Put, Key
  <2>2. \A k \in Keys : t[k] = IF k = okey THEN j[2] ELSE s[k]
    BY <2>1
  <2>3. ASSUME NEW p \in w \cup {j[2]}
        PROVE \E x \in w \cup {j[2]} : MidOf[x] = MidOf[p] /\ t[<<"o.", MidOf[p]>>] = x
    <3>1. p \in Msgs /\ <<"o.", MidOf[p]>> \in Keys
      BY <1>4, <1>5, Zenon
    <3>2. CASE <<"o.", MidOf[p]>> = okey
      BY <1>5, <2>2, <3>1, <3>2, Zenon
    <3>3. CASE <<"o.", MidOf[p]>> # okey
      <4>1. p # j[2]
        BY <1>2, <3>3, Zenon
      <4>2. p \in w /\ t[<<"o.", MidOf[p]>>] = s[<<"o.", MidOf[p]>>]
        BY <2>2, <3>1, <3>3, <4>1, Zenon
      <4> QED BY <4>2, Zenon DEF KeptOf
    <3> QED BY <3>2, <3>3, Zenon
  <2> QED BY <1>1, <1>6, <2>3, Zenon DEF KeptOf
<1>7. CASE j[1] # "publish"
  <2>1. t = [s EXCEPT ![ikey] = NoMsg]
    BY <1>1, <1>3, <1>7, Zenon DEF PersistOutbound, Delete, Key
  <2>2. \A k \in Keys : k # ikey => t[k] = s[k]
    BY <2>1
  <2>3. \A p \in w : t[<<"o.", MidOf[p]>>] = s[<<"o.", MidOf[p]>>]
    BY <1>5, <2>2, Zenon
  <2> QED BY <1>1, <1>7, <2>3, Zenon DEF KeptOf
<1> QED BY <1>6, <1>7, Zenon

LEMMA StoreInit == Init => StoreInv
<1> SUFFICES ASSUME Init PROVE StoreInv
  OBVIOUS
<1>1. \A c \in Clients : written[c] = {}
  BY Zenon DEF Init, None
<1>2. written \in [Clients -> SUBSET Msgs]
  BY DEF Init, None
<1> QED BY <1>1, <1>2, Zenon DEF StoreInv, KeptOf

LEMMA StoreStep ==
  ASSUME TypeOK, StoreInv, [Next]_vars
  PROVE  StoreInv'
<1> DEFINE S == [Keys -> Msgs \cup {NoMsg}]
<1>0. store \in [Clients -> S] /\ jobs \in [Clients -> Seq(Jobs)]
  BY DEF TypeOK
<1>i. /\ written \in [Clients -> SUBSET Msgs]
      /\ \A c \in Clients : KeptOf(store[c], written[c])
  BY Zenon DEF StoreInv
<1>q. ASSUME UNCHANGED <<store, written>> PROVE StoreInv'
  BY <1>i, <1>q, Zenon DEF StoreInv
<1>1. CASE UNCHANGED vars
  BY <1>1, <1>q DEF vars
<1>2. ASSUME NEW c \in Clients, Connect(c) PROVE StoreInv'
  <2>1. \/ UNCHANGED <<store, written>>
        \/ /\ store' = [store EXCEPT ![c] = EmptyStore]
           /\ written' = [written EXCEPT ![c] = {}]
    BY <1>2, Zenon DEF Connect
  <2>2. CASE store' = [store EXCEPT ![c] = EmptyStore] /\ written' = [written EXCEPT ![c] = {}]
    <3>1. /\ written' \in [Clients -> SUBSET Msgs]
          /\ \A d \in Clients : /\ store'[d] = IF d = c THEN EmptyStore ELSE store[d]
                                /\ written'[d] = IF d = c THEN {} ELSE written[d]
      BY <1>0, <1>i, <2>2
    <3>2. KeptOf(EmptyStore, {})
      BY Zenon DEF KeptOf
    <3>3. \A d \in Clients : KeptOf(store'[d], written'[d])
      BY <1>i, <3>1, <3>2, Zenon
    <3> QED BY <3>1, <3>3, Zenon DEF StoreInv
  <2> QED BY <1>q, <2>1, <2>2
<1>3. ASSUME NEW c \in Clients,
             \/ Resubmit(c) \/ Connected(c) \/ Subscribe(c) \/ PublishAck(c) \/ Break(c) \/ HangUp(c)
      PROVE StoreInv'
  <2>1. UNCHANGED <<store, written>>
    BY <1>3, Zenon DEF Resubmit, Connected, Subscribe, PublishAck, Break, HangUp, connVars, history
  <2> QED BY <1>q, <2>1
<1>4. ASSUME NEW c \in Clients, NEW m \in Msgs, Publish(c, m) PROVE StoreInv'
  <2>1. /\ written' = written
        /\ store' = [store EXCEPT ![c] = PersistInbound(store[c], m)]
    BY <1>4, Zenon DEF Publish
  <2>2. KeptOf(PersistInbound(store[c], m), written[c])
    BY <1>0, <1>i, InboundKeeps, Zenon
  <2>3. \A d \in Clients : store'[d] = IF d = c THEN PersistInbound(store[c], m) ELSE store[d]
    BY <1>0, <2>1
  <2>4. \A d \in Clients : KeptOf(store'[d], written[d])
    BY <1>i, <2>2, <2>3, Zenon
  <2> QED BY <1>i, <2>1, <2>4, Zenon DEF StoreInv
<1>5. ASSUME (\E h \in handlers : PublishStep(h)) \/ TakePost PROVE StoreInv'
  <2>1. UNCHANGED <<store, written>>
    BY <1>5, Zenon DEF PublishStep, TakePost
  <2> QED BY <1>q, <2>1
<1>6. ASSUME NEW c \in Clients, Send(c) PROVE StoreInv'
  <2>1. PICK j : j = Head(jobs[c])
    BY Zenon
  <2>2. /\ jobs[c] # <<>>
        /\ store' = [store EXCEPT ![c] = PersistOutbound(store[c], j)]
        /\ \/ j[1] = "publish" /\ written' = [written EXCEPT ![c] = written[c] \cup {j[2]}]
           \/ j[1] = "puback" /\ written' = written
    BY <1>6, <2>1, Zenon DEF Send
  <2>3. j \in Jobs /\ j[2] \in Msgs
    <3>1. j \in Jobs
      BY <1>0, <2>1, <2>2, HeadTailProperties
    <3> QED BY <3>1 DEF Jobs
  <2>4. PICK t : t = PersistOutbound(store[c], j)
    BY Zenon
  <2>5. /\ j[1] # "publish" => KeptOf(t, written[c])
        /\ j[1] = "publish" => KeptOf(t, written[c] \cup {j[2]})
    BY <1>0, <1>i, <2>3, <2>4, OutboundKeeps, Zenon
  <2>6. \A d \in Clients : store'[d] = IF d = c THEN t ELSE store[d]
    BY <1>0, <2>2, <2>4
  <2>7. "puback" # "publish"
    OBVIOUS
  <2>8. /\ written' \in [Clients -> SUBSET Msgs]
        /\ \A d \in Clients : d # c => written'[d] = written[d]
        /\ KeptOf(t, written'[c])
    BY <1>i, <2>2, <2>3, <2>5, <2>7, ZenonT(60)
  <2>9. \A d \in Clients : KeptOf(store'[d], written'[d])
    BY <1>i, <2>6, <2>8, Zenon
  <2> QED BY <2>8, <2>9, Zenon DEF StoreInv
<1> QED BY <1>1, <1>2, <1>3, <1>4, <1>5, <1>6, Zenon DEF Next

(* What the broker began to send to a client is displaced from its store   *)
(* only by what it began to send to that client under the same id, for any *)
(* number of clients, messages and broken connections and any choice of    *)
(* ids: persist_inbound and the PubAcks of the other direction never touch *)
(* it.                                                                     *)
THEOREM OutboundKept == Spec => []OutboundIsKept
<1>1. StoreInv => OutboundIsKept
  BY Zenon DEF StoreInv, KeptOf, OutboundIsKept, Outbound, Key
<1>2. QosInv => TypeOK
  BY DEF QosInv
<1>3. TypeOK /\ StoreInv /\ [Next]_vars => StoreInv'
  BY StoreStep
<1> QED BY <1>1, <1>2, <1>3, QosInit, QosStep, StoreInit, PTL DEF Spec

=============================================================================
