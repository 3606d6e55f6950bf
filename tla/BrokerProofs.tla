---------------------------- MODULE BrokerProofs ----------------------------
(***************************************************************************)
(* Proofs about a broker with subscriptions, for any number of connections *)
(* and workers, any queue lengths and any configuration.  To the sessions  *)
(* every step of a request handler or of a worker is a quiet one.          *)
(***************************************************************************)
EXTENDS Broker, SessionProofs

(* The part of TypeOK that is about the variables of this module.          *)
SubsTypeOK ==
  /\ subN \in [Conns -> Int]
  /\ subs \in Seq(Conns \cup {NoConn})
  /\ retained \in BOOLEAN
  /\ mu \in Conns \cup {NoConn}
  /\ posts \in Seq({"plain", "retain", "clear"}) /\ Len(posts) <= PostsLen
  /\ wk \in [Workers -> {"idle", "got", "fan", "send", "dead"}]
  /\ post \in [Workers -> {"plain", "retain", "clear"}]
  /\ todo \in [Workers -> Seq(Conns \cup {NoConn})]
  /\ cur \in [Workers -> Conns \cup {NoConn}]

(* A worker in submit() has a connection to send to.                       *)
SendInv == \A w \in Workers : wk[w] = "send" => cur[w] \in Conns

(* A handler that adds subscriptions belongs to a connection with a flag,  *)
(* or else the nil flag has ended the process.                             *)
AddInvariant ==
  \A c \in Conns :
    /\ flag[c] # NoId => rc[c] # "none"
    /\ Running /\ flag[c] = NoId => \A i \in 1..Len(work[c]) : work[c][i] # "add"

BrokerInv ==
  /\ SessionInv
  /\ SubsTypeOK
  /\ SendInv
  /\ LockHeldByHandler
  /\ AddInvariant
  /\ OnlyConnectedReceive

----------------------------------------------------------------------------
(* To the sessions, the handlers and the workers are quiet.                *)

(* The types that a quiet step has to keep.                                *)
LEMMA SessionTypes ==
  ASSUME SessionTypeOK
  PROVE  /\ in \in [Conns -> InStates]
         /\ work \in [Conns -> Seq(Steps)]
         /\ out \in [Conns -> {"none", "loop", "exit", "del", "unsub", "done"}]
         /\ hb \in [Conns -> {"off", "tick", "sync", "wait", "done"}]
         /\ stopped \in [Conns -> BOOLEAN]
         /\ clients \in [Ids -> Conns \cup {NoConn}]
         /\ present \subseteq {UserOf[id] : id \in Ids}
         /\ panic \in Panics
BY Zenon DEF SessionTypeOK, Panics

(* A request starts a handler that does not check anybody in.              *)
LEMMA QuietRequest ==
  ASSUME SessionTypeOK, FlagInv, NEW c \in Conns, ClientRequest(c)
  PROVE  QuietStep
<1>t. /\ in \in [Conns -> InStates]
      /\ work \in [Conns -> Seq(Steps)]
      /\ out \in [Conns -> {"none", "loop", "exit", "del", "unsub", "done"}]
      /\ hb \in [Conns -> {"off", "tick", "sync", "wait", "done"}]
      /\ stopped \in [Conns -> BOOLEAN]
      /\ clients \in [Ids -> Conns \cup {NoConn}]
      /\ present \subseteq {UserOf[id] : id \in Ids}
      /\ panic \in Panics
  BY SessionTypes, SMTT(30)
<1>1. /\ in[c] \in Serving /\ UNCHANGED flag
      /\ \E steps \in Seq(Steps) : /\ Handle(c, steps)
                                   /\ \A i \in 1..Len(steps) : steps[i] # "checkin"
  <2>1. CASE Publish(c)
    <3>1. PICK kind \in PostKinds, ack \in {<<>>, <<"send">>} : Handle(c, <<kind>> \o ack)
      BY <2>1, Zenon DEF Publish
    <3>2. kind \in {"plain", "retain", "clear"}
      BY BrokerAssumption, SMTT(30)
    <3>3. /\ <<kind>> \in Seq(Steps \ {"checkin"})
          /\ ack \in Seq(Steps \ {"checkin"})
      <4> DEFINE S == Steps \ {"checkin"}
      <4>1. kind \in S /\ "send" \in S
        BY <3>2, SMTT(30) DEF Steps
      <4> HIDE DEF S
      <4>2. <<kind>> \in Seq(S) /\ <<>> \in Seq(S) /\ <<"send">> \in Seq(S)
        BY <4>1, SMTT(30)
      <4>3. <<kind>> \in Seq(S) /\ ack \in Seq(S)
        BY <3>1, <4>2, Zenon
      <4> QED BY <4>3, SMTT(30) DEF S
    <3>4. /\ <<kind>> \o ack \in Seq(Steps \ {"checkin"})
          /\ <<kind>> \o ack \in Seq(Steps)
          /\ \A i \in 1..Len(<<kind>> \o ack) : (<<kind>> \o ack)[i] # "checkin"
      <4>1. <<kind>> \o ack \in Seq(Steps \ {"checkin"})
        BY <3>3, ConcatProperties, SMTT(30)
      <4> QED BY <4>1, ElementOfSeq, SMTT(30)
    <3>5. in[c] \in Serving /\ UNCHANGED flag
      BY <2>1, SMTT(30) DEF Publish, ReceivesRequest, Receives, Serving
    <3> QED BY <3>1, <3>4, <3>5, Zenon
  <2>2. CASE Subscribe(c)
    <3> DEFINE A(n) == [i \in 1..(2*n) |-> IF i % 2 = 1 THEN "count" ELSE "add"]
               B(n) == [i \in 1..n |-> "retained"]
    <3>1. PICK n \in 1..MaxTopics : Handle(c, A(n) \o <<"send">> \o B(n))
      BY <2>2, Zenon DEF Subscribe
    <3>2. n \in Nat
      BY BrokerAssumption, SMTT(30)
    <3>3. /\ A(n) \in Seq(Steps \ {"checkin"})
          /\ <<"send">> \in Seq(Steps \ {"checkin"})
          /\ B(n) \in Seq(Steps \ {"checkin"})
      BY <3>2, SMTT(30) DEF Steps
    <3> HIDE DEF A, B
    <3>4. A(n) \o <<"send">> \o B(n) \in Seq(Steps \ {"checkin"})
      BY <3>3, ConcatProperties, SMTT(30)
    <3>5. A(n) \o <<"send">> \o B(n) \in Seq(Steps)
      BY <3>4, SMTT(30)
    <3>6. \A i \in 1..Len(A(n) \o <<"send">> \o B(n)) : (A(n) \o <<"send">> \o B(n))[i] # "checkin"
      BY <3>4, ElementOfSeq, SMTT(30)
    <3>7. in[c] \in Serving /\ UNCHANGED flag
      BY <2>2, SMTT(30) DEF Subscribe, ReceivesRequest, Receives, Serving
    <3> QED BY <3>1, <3>5, <3>6, <3>7, ZenonT(60)
  <2>3. CASE Unsubscribe(c)
    <3> DEFINE A(n) == [i \in 1..n |-> "unsub"]
    <3>1. PICK n \in 1..MaxTopics : Handle(c, A(n) \o <<"send">>)
      BY <2>3, Zenon DEF Unsubscribe
    <3>2. n \in Nat
      BY BrokerAssumption
    <3>3. A(n) \in Seq(Steps \ {"checkin"}) /\ <<"send">> \in Seq(Steps \ {"checkin"})
      BY <3>2, SMTT(30) DEF Steps
    <3> HIDE DEF A
    <3>4. A(n) \o <<"send">> \in Seq(Steps \ {"checkin"})
      BY <3>3, ConcatProperties, SMTT(30)
    <3>5. A(n) \o <<"send">> \in Seq(Steps)
      BY <3>4, SMTT(30)
    <3>6. \A i \in 1..Len(A(n) \o <<"send">>) : (A(n) \o <<"send">>)[i] # "checkin"
      BY <3>4, ElementOfSeq, SMTT(30)
    <3>7. in[c] \in Serving /\ UNCHANGED flag
      BY <2>3, SMTT(30) DEF Unsubscribe, ReceivesRequest, Receives, Serving
    <3> QED BY <3>1, <3>5, <3>6, <3>7, Zenon
  <2> QED BY <2>1, <2>2, <2>3, SMTT(30) DEF ClientRequest
<1>2. /\ work' \in [Conns -> Seq(Steps)] /\ FlagInv'
      /\ \E pc \in InStates : /\ in' = [in EXCEPT ![c] = pc]
                              /\ {in[c], pc} \subseteq Serving
  <2>1. PICK steps \in Seq(Steps) : /\ Handle(c, steps)
                                    /\ \A i \in 1..Len(steps) : steps[i] # "checkin"
    BY <1>1, SMTT(30)
  <2> QED BY <1>1, <2>1, HandleTypes, SMTT(30)
<1>3. CASE Publish(c)
  <2>1. stopped' \in [Conns -> BOOLEAN] /\ panic' \in Panics
    BY <1>t, <1>3, Zenon DEF Publish, ReadFlag, Stop, Crash, Panics
  <2> QED BY <1>t, <1>2, <1>3, <2>1, ZenonT(60) DEF Publish, QuietStep
<1>4. CASE Subscribe(c)
  <2>1. panic' \in Panics
    BY <1>t, <1>4, ZenonT(60) DEF Subscribe, ReadFlag, Crash, Panics
  <2> QED BY <1>t, <1>2, <1>4, <2>1, Zenon DEF Subscribe, QuietStep
<1>5. CASE Unsubscribe(c)
  BY <1>t, <1>2, <1>5, Zenon DEF Unsubscribe, QuietStep
<1> QED BY <1>3, <1>4, <1>5, SMTT(30) DEF ClientRequest

(* The steps of the handlers.                                              *)
LEMMA QuietHandler ==
  ASSUME SessionTypeOK, FlagInv, NEW c \in Conns, Handler(c)
  PROVE  QuietStep
<1>t. /\ in \in [Conns -> InStates]
      /\ work \in [Conns -> Seq(Steps)]
      /\ out \in [Conns -> {"none", "loop", "exit", "del", "unsub", "done"}]
      /\ hb \in [Conns -> {"off", "tick", "sync", "wait", "done"}]
      /\ stopped \in [Conns -> BOOLEAN]
      /\ clients \in [Ids -> Conns \cup {NoConn}]
      /\ present \subseteq {UserOf[id] : id \in Ids}
      /\ panic \in Panics
  BY SessionTypes
<1>1. in[c] = "work" /\ work[c] # <<>> /\ UNCHANGED flag
  BY SMTT(30) DEF Handler, SubmitPost, CountTopic, AddTopic, SendRetain,
         SendRetainUnblocked, Unsub, Doing
<1>2. Advance(c) => /\ work' \in [Conns -> Seq(Steps)] /\ FlagInv'
                    /\ \E pc \in InStates : /\ in' = [in EXCEPT ![c] = pc]
                                            /\ {in[c], pc} \subseteq Serving
  BY <1>1, AdvanceTypes, SMTT(30)
<1>3. CASE SubmitPost(c)
  BY <1>t, <1>2, <1>3, SMTT(30) DEF SubmitPost, QuietStep
<1>4. CASE CountTopic(c)
  <2>1. stopped' \in [Conns -> BOOLEAN] /\ panic' \in Panics
    BY <1>t, <1>4, ZenonT(60) DEF CountTopic, Stop, Crash, Panics
  <2> QED BY <1>t, <1>2, <1>4, <2>1, SMTT(30) DEF CountTopic, QuietStep
<1>5. CASE AddTopic(c)
  BY <1>t, <1>2, <1>5, SMTT(30) DEF AddTopic, QuietStep
<1>6. CASE SendRetain(c)
  <2>1. jobs' = jobs \/ (~Full(c) /\ Enqueue(c, Packet))
    BY <1>6, SMTT(30) DEF SendRetain
  <2>2. Advance(c) \/ UNCHANGED <<in, work>>
    BY <1>6, Zenon DEF SendRetain
  <2>3. CASE Advance(c)
    BY <1>t, <1>2, <1>6, <2>1, <2>3, ZenonT(60) DEF SendRetain, QuietStep
  <2>4. CASE UNCHANGED <<in, work>>
    <3>1. FlagInv'
      BY <1>1, <2>4, SMTT(30) DEF FlagInv
    <3>2. "none" \in InStates
      BY SMTT(30) DEF InStates
    <3> QED BY <1>t, <1>6, <2>1, <2>4, <3>1, <3>2, ZenonT(60) DEF SendRetain, QuietStep
  <2> QED BY <2>2, <2>3, <2>4, SMTT(30)
<1>7. CASE SendRetainUnblocked(c)
  BY <1>t, <1>2, <1>7, ZenonT(60) DEF SendRetainUnblocked, QuietStep
<1>8. CASE Unsub(c)
  BY <1>t, <1>2, <1>8, SMTT(30) DEF Unsub, QuietStep
<1> QED BY <1>3, <1>4, <1>5, <1>6, <1>7, <1>8, ZenonT(60) DEF Handler

(* A worker queues at most one packet; its other steps leave the sessions  *)
(* alone.                                                                  *)
LEMMA WorkerSession ==
  ASSUME SessionInv, SendInv, NEW w \in Workers, Worker(w)
  PROVE  SessionInv'
<1>1. CASE Deliver(w)
  <2>1. SessionTypeOK /\ FlagInv
    BY DEF SessionInv
  <2>2. cur[w] \in Conns
    BY <1>1, ZenonT(60) DEF Deliver, SendInv
  <2>3. jobs' = jobs \/ (~Full(cur[w]) /\ Enqueue(cur[w], Packet))
    BY <1>1, ZenonT(60) DEF Deliver
  <2>4. panic' \in Panics
    BY <1>1, <2>1, SessionTypes, ZenonT(60) DEF Deliver, Crash, Panics
  <2>5. FlagInv'
    BY <1>1, <2>1, ZenonT(60) DEF FlagInv, Deliver
  <2>6. "none" \in InStates
    BY SMTT(30) DEF InStates
  <2>7. QuietStep
    BY <1>1, <2>1, <2>2, <2>3, <2>4, <2>5, <2>6, SessionTypes, ZenonT(60) DEF Deliver, QuietStep
  <2> QED BY <2>7, QuietInv, SMTT(30)
<1>2. CASE ~Deliver(w)
  <2>1. UNCHANGED sessionVars
    BY <1>2, SMTT(30) DEF Worker, TakePost, ClearRetained, Subscribers, SkipSubscriber,
                FindAlive, FinishPost
  <2> QED BY <2>1, SessionStutter, SMTT(30)
<1> QED BY <1>1, <1>2, SMTT(30)

----------------------------------------------------------------------------
(* The variables of the subscriptions keep their types.                    *)

LEMMA WithoutType ==
  ASSUME NEW s \in Seq(Conns \cup {NoConn}), NEW c
  PROVE  /\ Without(s, c) \in Seq(Conns \cup {NoConn})
         /\ Range(Without(s, c)) \subseteq Range(s) \cup {NoConn}
<1>1. /\ Len(s) \in Nat /\ DOMAIN s = 1..Len(s)
      /\ \A i \in 1..Len(s) : s[i] \in Conns \cup {NoConn}
  OBVIOUS
<1>2. Without(s, c) = [i \in 1..Len(s) |-> IF s[i] = c THEN NoConn ELSE s[i]]
  BY <1>1, SMTT(30) DEF Without
<1>3. Without(s, c) \in Seq(Conns \cup {NoConn})
  BY <1>1, <1>2, SMTT(30)
<1>4. Range(Without(s, c)) \subseteq Range(s) \cup {NoConn}
  BY <1>1, <1>2, SMTT(30) DEF Range
<1> QED BY <1>3, <1>4, SMTT(30)

(* ClearSlots only replaces slots by nil.                                  *)
LEMMA ClearSlotsType ==
  ASSUME todo \in [Workers -> Seq(Conns \cup {NoConn})], NEW c, ClearSlots(c)
  PROVE  /\ todo' \in [Workers -> Seq(Conns \cup {NoConn})]
         /\ \A w \in Workers : Range(todo'[w]) \subseteq Range(todo[w]) \cup {NoConn}
<1>1. PICK sharing \in SUBSET Workers :
        todo' = [w \in Workers |-> IF w \in sharing THEN Without(todo[w], c) ELSE todo[w]]
  BY Zenon DEF ClearSlots
<1>2. \A w \in Workers : /\ Without(todo[w], c) \in Seq(Conns \cup {NoConn})
                         /\ Range(Without(todo[w], c)) \subseteq Range(todo[w]) \cup {NoConn}
  BY WithoutType, ZenonT(60)
<1> QED BY <1>1, <1>2, SMTT(30)

LEMMA RoomForOne ==
  ASSUME NEW S, NEW q \in Seq(S), NEW x \in S, NEW n \in Nat, Len(q) < n
  PROVE  Append(q, x) \in Seq(S) /\ Len(Append(q, x)) <= n
BY AppendProperties

LEMMA HandlerSubs ==
  ASSUME SubsTypeOK, SendInv, NEW c \in Conns, Handler(c) \/ UnsubAll(c)
  PROVE  SubsTypeOK' /\ SendInv'
<1>t. /\ subN \in [Conns -> Int]
      /\ subs \in Seq(Conns \cup {NoConn})
      /\ posts \in Seq({"plain", "retain", "clear"}) /\ Len(posts) <= PostsLen
      /\ todo \in [Workers -> Seq(Conns \cup {NoConn})]
  BY ZenonT(60) DEF SubsTypeOK
<1>w. UNCHANGED <<wk, cur>>
  BY SMTT(30) DEF Handler, SubmitPost, CountTopic, AddTopic, SendRetain,
         SendRetainUnblocked, Unsub, UnsubAll
<1>1. CASE SubmitPost(c)
  <2>1. PICK kind \in PostKinds : posts' = Append(posts, kind) /\ Len(posts) < PostsLen
    BY <1>1, SMTT(30) DEF SubmitPost
  <2>2. kind \in {"plain", "retain", "clear"} /\ PostsLen \in Nat
    BY BrokerAssumption, SMTT(30)
  <2>3. posts' \in Seq({"plain", "retain", "clear"}) /\ Len(posts') <= PostsLen
    BY <1>t, <2>1, <2>2, RoomForOne, Zenon
  <2> QED BY <1>1, <2>3, SMTT(30) DEF SubmitPost, SubsTypeOK, SendInv
<1>2. CASE CountTopic(c)
  <2>1. subN' \in [Conns -> Int]
    BY <1>t, <1>2, SMTT(30) DEF CountTopic
  <2> QED BY <1>2, <2>1, SMTT(30) DEF CountTopic, SubsTypeOK, SendInv
<1>3. CASE AddTopic(c)
  <2>1. subs' \in Seq(Conns \cup {NoConn})
    BY <1>t, <1>3, AppendProperties, SMTT(30) DEF AddTopic
  <2> QED BY <1>3, <2>1, Zenon DEF AddTopic, SubsTypeOK, SendInv
<1>4. CASE SendRetain(c)
  <2>1. mu' \in {mu, c}
    BY <1>4, SMTT(30) DEF SendRetain
  <2> QED BY <1>4, <2>1, SMTT(30) DEF SendRetain, SubsTypeOK, SendInv
<1>5. CASE SendRetainUnblocked(c)
  BY <1>5, SMTT(30) DEF SendRetainUnblocked, SubsTypeOK, SendInv
<1>6. CASE Unsub(c)
  <2>1. subN' \in [Conns -> Int]
    BY <1>t, <1>6, SMTT(30) DEF Unsub
  <2>2. subs' \in Seq(Conns \cup {NoConn})
    <3>1. subs' \in {<<>>, Without(subs, c)}
      BY <1>6, SMTT(30) DEF Unsub
    <3>2. Without(subs, c) \in Seq(Conns \cup {NoConn})
      BY <1>t, WithoutType, ZenonT(60)
    <3>3. <<>> \in Seq(Conns \cup {NoConn})
      BY SMTT(30)
    <3> QED BY <3>1, <3>2, <3>3, Zenon
  <2>3. todo' \in [Workers -> Seq(Conns \cup {NoConn})]
    BY <1>t, <1>6, ClearSlotsType, SMTT(30) DEF Unsub
  <2> QED BY <1>6, <2>1, <2>2, <2>3, Zenon DEF Unsub, SubsTypeOK, SendInv
<1>7. CASE UnsubAll(c)
  <2>1. subs' \in Seq(Conns \cup {NoConn})
    BY <1>t, <1>7, WithoutType, ZenonT(60) DEF UnsubAll
  <2>2. todo' \in [Workers -> Seq(Conns \cup {NoConn})]
    BY <1>t, <1>7, ClearSlotsType, ZenonT(60) DEF UnsubAll
  <2> QED BY <1>7, <2>1, <2>2, SMTT(30) DEF UnsubAll, SubsTypeOK, SendInv
<1> QED BY <1>1, <1>2, <1>3, <1>4, <1>5, <1>6, <1>7 DEF Handler

LEMMA WorkerSubs ==
  ASSUME SubsTypeOK, SendInv, NEW w \in Workers, Worker(w)
  PROVE  SubsTypeOK' /\ SendInv'
<1>t. /\ subs \in Seq(Conns \cup {NoConn})
      /\ posts \in Seq({"plain", "retain", "clear"}) /\ Len(posts) <= PostsLen
      /\ PostsLen \in Nat
      /\ wk \in [Workers -> {"idle", "got", "fan", "send", "dead"}]
      /\ post \in [Workers -> {"plain", "retain", "clear"}]
      /\ todo \in [Workers -> Seq(Conns \cup {NoConn})]
      /\ cur \in [Workers -> Conns \cup {NoConn}]
  BY BrokerAssumption, SMTT(30) DEF SubsTypeOK
<1>h. todo[w] # <<>> => /\ Head(todo[w]) \in Conns \cup {NoConn}
                        /\ Tail(todo[w]) \in Seq(Conns \cup {NoConn})
  BY <1>t, HeadTailProperties, SMTT(30)
<1>1. CASE TakePost(w)
  <2>1. /\ Head(posts) \in {"plain", "retain", "clear"}
        /\ posts' \in Seq({"plain", "retain", "clear"}) /\ Len(posts') <= PostsLen
    BY <1>t, <1>1, HeadTailProperties, SMTT(30) DEF TakePost
  <2>2. /\ post' \in [Workers -> {"plain", "retain", "clear"}]
        /\ wk' \in [Workers -> {"idle", "got", "fan", "send", "dead"}]
    BY <1>t, <1>1, <2>1, SMTT(30) DEF TakePost
  <2>3. SendInv'
    BY <1>t, <1>1, SMTT(30) DEF TakePost, SendInv
  <2> QED BY <1>1, <2>1, <2>2, <2>3, ZenonT(60) DEF TakePost, SubsTypeOK
<1>2. CASE ClearRetained(w)
  BY <1>t, <1>2, ZenonT(60) DEF ClearRetained, SubsTypeOK, SendInv
<1>3. CASE Subscribers(w)
  <2>1. /\ todo' \in [Workers -> Seq(Conns \cup {NoConn})]
        /\ wk' \in [Workers -> {"idle", "got", "fan", "send", "dead"}]
        /\ SendInv'
    BY <1>t, <1>3, SMTT(30) DEF Subscribers, SendInv
  <2> QED BY <1>3, <2>1, SMTT(30) DEF Subscribers, SubsTypeOK
<1>4. CASE SkipSubscriber(w)
  <2>1. todo' \in [Workers -> Seq(Conns \cup {NoConn})] /\ SendInv'
    BY <1>t, <1>h, <1>4, ZenonT(60) DEF SkipSubscriber, SendInv
  <2> QED BY <1>4, <2>1, SMTT(30) DEF SkipSubscriber, SubsTypeOK
<1>5. CASE FindAlive(w)
  <2>1. /\ todo' \in [Workers -> Seq(Conns \cup {NoConn})]
        /\ wk' \in [Workers -> {"idle", "got", "fan", "send", "dead"}]
        /\ cur' \in [Workers -> Conns \cup {NoConn}]
        /\ SendInv'
    BY <1>t, <1>h, <1>5, SMTT(30) DEF FindAlive, SendInv
  <2> QED BY <1>5, <2>1, SMTT(30) DEF FindAlive, SubsTypeOK
<1>6. CASE Deliver(w)
  <2>1. /\ wk' \in [Workers -> {"idle", "got", "fan", "send", "dead"}]
        /\ cur' \in [Workers -> Conns \cup {NoConn}]
        /\ SendInv'
    BY <1>t, <1>6, ZenonT(60) DEF Deliver, SendInv
  <2> QED BY <1>6, <2>1, ZenonT(60) DEF Deliver, SubsTypeOK
<1>7. CASE FinishPost(w)
  BY <1>t, <1>7, ZenonT(60) DEF FinishPost, SubsTypeOK, SendInv
<1> QED BY <1>1, <1>2, <1>3, <1>4, <1>5, <1>6, <1>7, ZenonT(60) DEF Worker

----------------------------------------------------------------------------
(* The lock.                                                               *)

(* Nobody but its own handler moves a goroutine that is in sendRetain.     *)
LEMMA RetainingStays ==
  ASSUME SessionTypeOK, NEW c \in Conns, NEW d \in Conns,
         in[d] = "work", Head(work[d]) = "retained",
         \/ SessionStep(c) \/ OutUnsubAll(c) \/ ClientRequest(c)
  PROVE  in'[d] = in[d] /\ work'[d] = work[d]
<1>t. in \in [Conns -> InStates] /\ work \in [Conns -> Seq(Steps)]
  BY SessionTypes, SMTT(60)
<1>1. CASE \/ Accept(c) \/ Connect(c) \/ PingReq(c) \/ ClientLeaves(c)
  BY <1>t, <1>1, ZenonT(60) DEF Accept, Connect, PingReq, ClientLeaves, ReceivesRequest, Receives,
                    Goto, Handle
<1>2. CASE \/ Add(c) \/ EvictSend(c) \/ EvictWait(c) \/ EvictDel(c) \/ AddAgain(c)
  BY <1>t, <1>2, SMTT(60) DEF Add, EvictSend, EvictWait, EvictDel, AddAgain, Goto
<1>3. CASE \/ Setup(c) \/ CheckIn(c) \/ Reply(c) \/ ReadClosed(c)
           \/ ExitCount(c) \/ ExitAlive(c) \/ ExitClose(c) \/ Terminate(c)
  BY <1>t, <1>3, ZenonT(60) DEF Setup, CheckIn, Reply, ReadClosed, ExitCount, ExitAlive, ExitClose,
                    Terminate, Goto, Handle, Doing, Advance
<1>4. CASE \/ Outbound(c) \/ HbExpire(c) \/ Heartbeat(c) \/ OutUnsubAll(c)
  BY <1>4, ZenonT(60) DEF Outbound, OutWrite, OutLeave, OutClose, OutDel, OutUnsubAll, HbExpire,
              Heartbeat, HbSend, HbWait, HbStop
<1>5. CASE ClientRequest(c)
  BY <1>t, <1>5, ZenonT(60) DEF ClientRequest, Publish, Subscribe, Unsubscribe,
                    ReceivesRequest, Receives, Goto, Handle
<1> QED BY <1>1, <1>2, <1>3, <1>4, <1>5, ZenonT(60) DEF SessionStep, Client, Inbound

(* Only sendRetain keeps the lock, and with the lock kept nobody deletes   *)
(* the retained message.                                                   *)
LEMMA LockInv ==
  ASSUME SessionTypeOK, SubsTypeOK, LockHeldByHandler, [Next]_vars
  PROVE  LockHeldByHandler'
<1>t. mu \in Conns \cup {NoConn} /\ NoConn \notin Conns
  BY SessionAssumption, Zenon DEF SubsTypeOK
<1>1. ASSUME NEW c \in Conns, SessionStep(c), UNCHANGED subsVars
      PROVE  LockHeldByHandler'
  BY <1>t, <1>1, RetainingStays, ZenonT(60) DEF LockHeldByHandler, subsVars
<1>2. ASSUME NEW c \in Conns, ClientRequest(c) PROVE LockHeldByHandler'
  <2>1. UNCHANGED <<mu, retained>>
    BY <1>2, SMTT(60) DEF ClientRequest, Publish, Subscribe, Unsubscribe, subsVars
  <2> QED BY <1>t, <1>2, <2>1, RetainingStays, ZenonT(60) DEF LockHeldByHandler
<1>3. ASSUME NEW c \in Conns, UnsubAll(c) PROVE LockHeldByHandler'
  BY <1>3, SMTT(30) DEF UnsubAll, Unlocked, LockHeldByHandler
<1>4. ASSUME NEW c \in Conns, Handler(c) PROVE LockHeldByHandler'
  <2>t. in \in [Conns -> InStates] /\ work \in [Conns -> Seq(Steps)]
    BY SessionTypes, ZenonT(60)
  <2>1. CASE SubmitPost(c)
    <3>1. mu # c /\ UNCHANGED <<mu, retained>>
      BY <1>t, <2>1, BrokerAssumption, ZenonT(60) DEF SubmitPost, Doing, LockHeldByHandler
    <3> QED BY <1>t, <2>t, <2>1, <3>1, SMTT(60) DEF SubmitPost, Advance, Goto, LockHeldByHandler
  <2>2. CASE CountTopic(c)
    <3>1. mu # c /\ UNCHANGED <<mu, retained>>
      BY <1>t, <2>2, Zenon DEF CountTopic, Doing, LockHeldByHandler
    <3> QED BY <1>t, <2>t, <2>2, <3>1, SMTT(30) DEF CountTopic, Advance, Goto, LockHeldByHandler
  <2>3. CASE AddTopic(c)
    BY <2>3, Zenon DEF AddTopic, Unlocked, LockHeldByHandler
  <2>4. CASE SendRetain(c)
    BY <2>4, Zenon DEF SendRetain, Unlocked, Doing, LockHeldByHandler
  <2>5. CASE SendRetainUnblocked(c)
    BY <2>5, Zenon DEF SendRetainUnblocked, LockHeldByHandler
  <2>6. CASE Unsub(c)
    BY <2>6, Zenon DEF Unsub, Unlocked, LockHeldByHandler
  <2> QED BY <1>4, <2>1, <2>2, <2>3, <2>4, <2>5, <2>6, ZenonT(60) DEF Handler
<1>5. ASSUME NEW w \in Workers, Worker(w) PROVE LockHeldByHandler'
  <2>1. UNCHANGED <<in, work, mu>> /\ (UNCHANGED retained \/ Unlocked)
    BY <1>5, Zenon DEF Worker, TakePost, ClearRetained, Subscribers, SkipSubscriber,
                FindAlive, Deliver, FinishPost, sessionVars
  <2> QED BY <2>1, ZenonT(60) DEF LockHeldByHandler, Unlocked
<1>6. CASE UNCHANGED vars
  BY <1>6, Zenon DEF LockHeldByHandler, vars, sessionVars, subsVars
<1> QED BY <1>1, <1>2, <1>3, <1>4, <1>5, <1>6, ZenonT(60) DEF Next

----------------------------------------------------------------------------
(* Who is in the table of subscriptions.                                   *)

(* Steps of the sessions never take a flag away, and start no handler that *)
(* adds subscriptions.                                                     *)
LEMMA AdvanceNoAdd ==
  ASSUME SessionTypeOK, AddInvariant, NEW c \in Conns, in[c] = "work", work[c] # <<>>,
         Running, Advance(c), UNCHANGED <<flag, rc>>
  PROVE  AddInvariant'
<1>1. work \in [Conns -> Seq(Steps)]
  BY SessionTypes, SMTT(30)
<1>2. work' = [work EXCEPT ![c] = Tail(@)]
  BY SMTT(30) DEF Advance
<1>3. /\ \A t \in Conns : t # c => work'[t] = work[t]
      /\ \A i \in 1..Len(work'[c]) : i + 1 \in 1..Len(work[c]) /\ work'[c][i] = work[c][i + 1]
  BY <1>1, <1>2, TailAt, SMTT(30)
<1> QED BY <1>3, SMTT(30) DEF AddInvariant, Running

LEMMA HandleNoAdd ==
  ASSUME SessionTypeOK, AddInvariant, Running, NEW c \in Conns, NEW steps, Handle(c, steps),
         \/ ~Running' \/ flag[c] # NoId \/ \A i \in 1..Len(steps) : steps[i] # "add",
         UNCHANGED <<flag, rc>>
  PROVE  AddInvariant'
<1>1. work \in [Conns -> Seq(Steps)]
  BY SessionTypes, SMTT(30)
<1>2. work' = [work EXCEPT ![c] = steps]
  BY SMTT(60) DEF Handle
<1> QED BY <1>1, <1>2, Zenon DEF AddInvariant, Running

LEMMA SessionNoAdd ==
  ASSUME SessionTypeOK, FlagInv, AddInvariant, NEW c \in Conns, SessionStep(c) \/ OutUnsubAll(c)
  PROVE  AddInvariant' /\ \A d \in Conns : flag[d] # NoId => flag'[d] # NoId
<1>t. /\ work \in [Conns -> Seq(Steps)]
      /\ flag \in [Conns -> Ids \cup {NoId}]
      /\ rc \in [Conns -> {"none", "accepted", "refused"}]
  BY ZenonT(60) DEF SessionTypeOK
<1>r. Running
  BY ZenonT(60) DEF SessionStep, Client, Inbound, Outbound, Heartbeat, Accept, Connect, PingReq, ClientLeaves,
         ReceivesRequest, Receives, Add, EvictSend, EvictWait, EvictDel, AddAgain, Setup,
         CheckIn, Reply, Doing, ReadClosed, ExitCount, ExitAlive, ExitClose, Terminate, OutWrite,
         OutLeave, OutClose, OutDel, OutUnsubAll, HbExpire, HbSend, HbWait, HbStop
<1>1. CASE Connect(c)
  <2>1. /\ UNCHANGED <<work, panic>>
        /\ \E id \in IdsOf[c] : flag' = [flag EXCEPT ![c] = id]
        /\ \E code \in {"accepted", "refused"} : rc' = [rc EXCEPT ![c] = code]
    BY <1>1, ZenonT(60) DEF Connect
  <2>2. IdsOf[c] \subseteq Ids /\ NoId \notin Ids
    BY SessionAssumption, SMTT(30)
  <2> QED BY <1>t, <2>1, <2>2, SMTT(60) DEF AddInvariant, Running
<1>2. CASE PingReq(c)
  <2>1. /\ Handle(c, <<"send">>) /\ UNCHANGED <<flag, rc>>
        /\ \A i \in 1..Len(<<"send">>) : <<"send">>[i] # "add"
    BY <1>2, SMTT(30) DEF PingReq
  <2> QED BY <1>r, <2>1, HandleNoAdd, SMTT(30)
<1>3. CASE Setup(c)
  <2>1. /\ flag[c] # NoId /\ UNCHANGED <<flag, rc>>
        /\ \E stored \in 0..MaxStored :
             Handle(c, [i \in 1..stored |-> "send"] \o <<"checkin", "send">>)
    BY <1>3, ZenonT(60) DEF Setup, FlagInv, Connecting
  <2> QED BY <1>r, <2>1, HandleNoAdd, SMTT(30)
<1>4. CASE CheckIn(c) \/ Reply(c)
  BY <1>r, <1>4, AdvanceNoAdd, ZenonT(60) DEF CheckIn, Reply, Doing
<1>5. CASE \/ Accept(c) \/ ClientLeaves(c) \/ Add(c) \/ EvictSend(c) \/ EvictWait(c)
           \/ EvictDel(c) \/ AddAgain(c) \/ ReadClosed(c) \/ ExitCount(c) \/ ExitAlive(c) \/ ExitClose(c)
           \/ Terminate(c) \/ Outbound(c) \/ HbExpire(c) \/ Heartbeat(c) \/ OutUnsubAll(c)
  <2>1. UNCHANGED <<work, flag, rc>>
    BY <1>5, ZenonT(60) DEF Accept, ClientLeaves, Add, EvictSend, EvictWait, EvictDel, AddAgain,
                ReadClosed, ExitCount, ExitAlive, ExitClose, Terminate, Outbound, OutWrite, OutLeave,
                OutClose, OutDel, OutUnsubAll, HbExpire, Heartbeat, HbSend, HbWait, HbStop
  <2> QED BY <1>r, <2>1, SMTT(60) DEF AddInvariant, Running
<1> QED BY <1>1, <1>2, <1>3, <1>4, <1>5, ZenonT(60) DEF SessionStep, Client, Inbound

(* A request that would add subscriptions without a flag ends the process. *)
LEMMA PublishAddsNothing ==
  ASSUME NEW kind, kind # "add", NEW ack \in {<<>>, <<"send">>}
  PROVE  \A i \in 1..Len(<<kind>> \o ack) : (<<kind>> \o ack)[i] # "add"
<1>1. CASE ack = <<>>
  BY <1>1
<1>2. CASE ack = <<"send">>
  BY <1>2
<1> QED BY <1>1, <1>2

LEMMA BrokerNoAdd ==
  ASSUME SessionTypeOK, AddInvariant, NEW c \in Conns, ClientRequest(c) \/ Handler(c)
  PROVE  AddInvariant' /\ UNCHANGED <<flag, rc>>
<1>1. CASE Publish(c)
  <2>1. PICK kind \in PostKinds, ack \in {<<>>, <<"send">>} : Handle(c, <<kind>> \o ack)
    BY <1>1, ZenonT(60) DEF Publish
  <2>2. \A i \in 1..Len(<<kind>> \o ack) : (<<kind>> \o ack)[i] # "add"
    <3>1. kind # "add"
      BY BrokerAssumption, SMTT(30)
    <3> QED BY <3>1, PublishAddsNothing, Zenon
  <2>3. Running /\ UNCHANGED <<flag, rc>>
    BY <1>1, SMTT(30) DEF Publish, ReceivesRequest, Receives
  <2> QED BY <2>1, <2>2, <2>3, HandleNoAdd, Zenon
<1>2. CASE Subscribe(c)
  <2>1. /\ Running /\ UNCHANGED <<flag, rc>>
        /\ ~Running' \/ flag[c] # NoId
        /\ \E steps : Handle(c, steps)
    BY <1>2, ZenonT(60) DEF Subscribe, ReceivesRequest, Receives, ReadFlag, Crash, Running
  <2> QED BY <2>1, HandleNoAdd, SMTT(30)
<1>3. CASE Unsubscribe(c)
  <2>1. PICK n \in 1..MaxTopics : Handle(c, [i \in 1..n |-> "unsub"] \o <<"send">>)
    BY <1>3, Zenon DEF Unsubscribe
  <2>2. n \in Nat
    BY BrokerAssumption, SMTT(30)
  <2>3. \A i \in 1..Len([j \in 1..n |-> "unsub"] \o <<"send">>) :
          ([j \in 1..n |-> "unsub"] \o <<"send">>)[i] # "add"
    <3>1. [j \in 1..n |-> "unsub"] \in Seq({"unsub", "send"}) /\ <<"send">> \in Seq({"unsub", "send"})
      BY <2>2, SMTT(30)
    <3>2. [j \in 1..n |-> "unsub"] \o <<"send">> \in Seq({"unsub", "send"})
      BY <3>1, ConcatProperties, ZenonT(60)
    <3> QED BY <3>2, ElementOfSeq, SMTT(30)
  <2>4. Running /\ UNCHANGED <<flag, rc>>
    BY <1>3, SMTT(30) DEF Unsubscribe, ReceivesRequest, Receives
  <2> QED BY <2>1, <2>3, <2>4, HandleNoAdd, Zenon
<1>4. CASE Handler(c)
  <2>1. /\ Running /\ in[c] = "work" /\ work[c] # <<>> /\ UNCHANGED <<flag, rc>>
        /\ Advance(c) \/ UNCHANGED <<work, panic>>
    BY <1>4, ZenonT(60) DEF Handler, SubmitPost, CountTopic, AddTopic, SendRetain,
                SendRetainUnblocked, Unsub, Doing
  <2>2. CASE Advance(c)
    BY <2>1, <2>2, AdvanceNoAdd, ZenonT(60)
  <2>3. CASE UNCHANGED <<work, panic>>
    BY <2>1, <2>3, ZenonT(60) DEF AddInvariant, Running
  <2> QED BY <2>1, <2>2, <2>3, SMTT(60)
<1> QED BY <1>1, <1>2, <1>3, <1>4, SMTT(30) DEF ClientRequest

(* What the table and the workers refer to.                                *)
InTable(c) ==
  c \in Range(subs) \/ \E w \in Workers : c \in Range(todo[w]) \cup {cur[w]}

LEMMA ElementsOf ==
  ASSUME NEW S, NEW s \in Seq(S), NEW x \in S
  PROVE  /\ Range(Append(s, x)) = Range(s) \cup {x}
         /\ s # <<>> => Head(s) \in Range(s) /\ Range(Tail(s)) \subseteq Range(s)
<1>1. Len(s) \in Nat /\ DOMAIN s = 1..Len(s)
  BY SMTT(30)
<1>2. Range(Append(s, x)) = Range(s) \cup {x}
  <2>1. /\ DOMAIN Append(s, x) = 1..(Len(s) + 1)
        /\ \A i \in 1..Len(s) : Append(s, x)[i] = s[i]
        /\ Append(s, x)[Len(s) + 1] = x
    BY <1>1, SMTT(30)
  <2>2. 1..(Len(s) + 1) = (1..Len(s)) \cup {Len(s) + 1}
    BY <1>1, SMTT(30)
  <2> QED BY <1>1, <2>1, <2>2, ZenonT(60) DEF Range
<1>3. ASSUME s # <<>> PROVE Head(s) \in Range(s) /\ Range(Tail(s)) \subseteq Range(s)
  <2>1. Len(s) >= 1 /\ Head(s) = s[1]
    BY <1>1, <1>3, SMTT(30)
  <2>2. /\ Tail(s) \in Seq(S) /\ Len(Tail(s)) = Len(s) - 1
        /\ \A i \in 1..Len(Tail(s)) : Tail(s)[i] = s[i + 1]
    BY <1>3, HeadTailProperties, SMTT(30)
  <2>3. DOMAIN Tail(s) = 1..(Len(s) - 1)
    BY <2>2, SMTT(30)
  <2>4. \A i \in 1..(Len(s) - 1) : i + 1 \in 1..Len(s)
    BY <1>1, SMTT(30)
  <2> QED BY <1>1, <2>1, <2>2, <2>3, <2>4, SMTT(30) DEF Range
<1> QED BY <1>2, <1>3, SMTT(30)

(* Only doSubscribe brings a connection into the table.                    *)
LEMMA TableGrows ==
  ASSUME SubsTypeOK, Next
  PROVE  \A d \in Conns : InTable(d)' => InTable(d) \/ Doing(d, "add")
<1>t. /\ subs \in Seq(Conns \cup {NoConn})
      /\ todo \in [Workers -> Seq(Conns \cup {NoConn})]
      /\ cur \in [Workers -> Conns \cup {NoConn}]
      /\ NoConn \notin Conns
  BY SessionAssumption, SMTT(30) DEF SubsTypeOK
<1>1. CASE UNCHANGED <<subs, todo, cur>>
  BY <1>1, SMTT(30) DEF InTable
<1>2. ASSUME NEW c \in Conns, AddTopic(c)
      PROVE  \A d \in Conns : InTable(d)' => InTable(d) \/ Doing(d, "add")
  <2>1. Range(subs') = Range(subs) \cup {c} /\ Doing(c, "add") /\ UNCHANGED <<todo, cur>>
    BY <1>t, <1>2, ElementsOf, SMTT(30) DEF AddTopic
  <2> QED BY <2>1, SMTT(30) DEF InTable
<1>3. ASSUME NEW c \in Conns, Unsub(c) \/ UnsubAll(c)
      PROVE  \A d \in Conns : InTable(d)' => InTable(d)
  <2>1. Range(subs') \subseteq Range(subs) \cup {NoConn}
    <3>1. subs' \in {<<>>, Without(subs, c)}
      BY <1>3, SMTT(30) DEF Unsub, UnsubAll
    <3>2. Range(<<>>) = {}
      BY SMTT(30) DEF Range
    <3> QED BY <1>t, <3>1, <3>2, WithoutType, Zenon
  <2>2. ClearSlots(c) /\ UNCHANGED cur
    BY <1>3, SMTT(30) DEF Unsub, UnsubAll
  <2>3. \A w \in Workers : Range(todo'[w]) \subseteq Range(todo[w]) \cup {NoConn}
    BY <1>t, <2>2, ClearSlotsType, Zenon
  <2> QED BY <1>t, <2>1, <2>2, <2>3, Zenon DEF InTable
<1>4. ASSUME NEW w \in Workers, Worker(w)
      PROVE  \A d \in Conns : InTable(d)' => InTable(d)
  <2>h. todo[w] # <<>> => /\ Head(todo[w]) \in Range(todo[w])
                          /\ Range(Tail(todo[w])) \subseteq Range(todo[w])
    BY <1>t, ElementsOf, ZenonT(60)
  <2>1. CASE Subscribers(w)
    BY <1>t, <2>1, ZenonT(60) DEF Subscribers, InTable
  <2>2. CASE SkipSubscriber(w)
    BY <1>t, <2>h, <2>2, ZenonT(60) DEF SkipSubscriber, InTable
  <2>3. CASE FindAlive(w)
    BY <1>t, <2>h, <2>3, SMTT(30) DEF FindAlive, InTable
  <2>4. CASE Deliver(w)
    BY <1>t, <2>4, ZenonT(60) DEF Deliver, InTable
  <2>5. CASE TakePost(w) \/ ClearRetained(w) \/ FinishPost(w)
    BY <2>5, ZenonT(60) DEF TakePost, ClearRetained, FinishPost, InTable
  <2> QED BY <1>4, <2>1, <2>2, <2>3, <2>4, <2>5, Zenon DEF Worker
<1>5. ASSUME NEW c \in Conns,
             \/ SessionStep(c) /\ UNCHANGED subsVars
             \/ ClientRequest(c) \/ SubmitPost(c) \/ CountTopic(c)
             \/ SendRetain(c) \/ SendRetainUnblocked(c)
      PROVE  UNCHANGED <<subs, todo, cur>>
  BY <1>5, SMTT(30) DEF ClientRequest, Publish, Subscribe, Unsubscribe, SubmitPost, CountTopic,
              SendRetain, SendRetainUnblocked, subsVars
<1> QED BY <1>1, <1>2, <1>3, <1>4, <1>5, Zenon DEF Next, Handler

LEMMA TableInv ==
  ASSUME SessionTypeOK, FlagInv, SubsTypeOK, AddInvariant, OnlyConnectedReceive, Next
  PROVE  AddInvariant' /\ OnlyConnectedReceive'
<1>t. work \in [Conns -> Seq(Steps)]
  BY SessionTypes, SMTT(30)
<1>1. AddInvariant' /\ \A d \in Conns : flag[d] # NoId => flag'[d] # NoId
  <2>1. ASSUME NEW c \in Conns, SessionStep(c) \/ UnsubAll(c)
        PROVE  AddInvariant' /\ \A d \in Conns : flag[d] # NoId => flag'[d] # NoId
    BY <2>1, SessionNoAdd, SMTT(30) DEF UnsubAll
  <2>2. ASSUME NEW c \in Conns, ClientRequest(c) \/ Handler(c)
        PROVE  AddInvariant' /\ UNCHANGED flag
    BY <2>2, BrokerNoAdd, ZenonT(60)
  <2>3. ASSUME NEW w \in Workers, Worker(w)
        PROVE  AddInvariant' /\ UNCHANGED flag
    <3>1. UNCHANGED <<flag, rc, work>> /\ Running
      BY <2>3, ZenonT(60) DEF Worker, TakePost, ClearRetained, Subscribers, SkipSubscriber,
                  FindAlive, Deliver, FinishPost, sessionVars
    <3> QED BY <3>1, SMTT(60) DEF AddInvariant, Running
  <2> QED BY <2>1, <2>2, <2>3, ZenonT(60) DEF Next
<1>2. \A d \in Conns : Doing(d, "add") => flag[d] # NoId
  <2> SUFFICES ASSUME NEW d \in Conns, Doing(d, "add") PROVE flag[d] # NoId
    BY SMTT(30)
  <2>1. Running /\ work[d] \in Seq(Steps) /\ work[d] # <<>> /\ Head(work[d]) = "add"
    BY <1>t, SMTT(30) DEF Doing
  <2>2. 1 \in 1..Len(work[d]) /\ work[d][1] = "add"
    BY <2>1, SMTT(30)
  <2> QED BY <2>1, <2>2, ZenonT(60) DEF AddInvariant
<1>3. \A d \in Conns : InTable(d) => flag[d] # NoId
  BY Zenon DEF OnlyConnectedReceive, InTable
<1>4. \A d \in Conns : InTable(d)' => flag'[d] # NoId
  BY <1>1, <1>2, <1>3, TableGrows, ZenonT(60)
<1>5. \A d \in Conns : flag'[d] # NoId => rc'[d] # "none"
  BY <1>1, ZenonT(60) DEF AddInvariant
<1>6. OnlyConnectedReceive'
  BY <1>4, <1>5, SMTT(30) DEF OnlyConnectedReceive, InTable
<1> QED BY <1>1, <1>6, ZenonT(60)

----------------------------------------------------------------------------
LEMMA BrokerInitInv == Init => BrokerInv
<1> SUFFICES ASSUME Init PROVE BrokerInv
  BY SMTT(30)
<1>1. SessionInv
  BY InitInv, SMTT(30) DEF Init
<1>2. SubsTypeOK /\ SendInv
  <2>1. /\ subs \in Seq(Conns \cup {NoConn})
        /\ posts \in Seq({"plain", "retain", "clear"}) /\ Len(posts) <= PostsLen
    BY BrokerAssumption, SMTT(30) DEF Init
  <2>2. todo \in [Workers -> Seq(Conns \cup {NoConn})]
    <3>1. <<>> \in Seq(Conns \cup {NoConn})
      BY SMTT(30)
    <3> QED BY <3>1, SMTT(30) DEF Init
  <2>3. /\ subN \in [Conns -> Int]
        /\ wk \in [Workers -> {"idle", "got", "fan", "send", "dead"}]
        /\ post \in [Workers -> {"plain", "retain", "clear"}]
        /\ cur \in [Workers -> Conns \cup {NoConn}]
    BY DEF Init
  <2>4. retained \in BOOLEAN /\ mu \in Conns \cup {NoConn}
    BY ZenonT(60) DEF Init
  <2>5. SendInv
    BY SMTT(30) DEF Init, SendInv
  <2> QED BY <2>1, <2>2, <2>3, <2>4, <2>5, ZenonT(60) DEF SubsTypeOK
<1>3. LockHeldByHandler
  BY SMTT(30) DEF Init, LockHeldByHandler
<1>4. AddInvariant
  BY DEF Init, SessionInit, AddInvariant
<1>5. OnlyConnectedReceive
  <2>1. Range(<<>>) = {} /\ NoConn \notin Conns
    BY SessionAssumption, SMTT(30) DEF Range
  <2> QED BY <2>1, Zenon DEF Init, OnlyConnectedReceive
<1> QED BY <1>1, <1>2, <1>3, <1>4, <1>5, ZenonT(60) DEF BrokerInv

LEMMA BrokerStepInv == BrokerInv /\ [Next]_vars => BrokerInv'
<1> SUFFICES ASSUME BrokerInv, [Next]_vars PROVE BrokerInv'
  BY SMTT(30)
<1>0. /\ SessionInv /\ SessionTypeOK /\ FlagInv /\ SubsTypeOK /\ SendInv
      /\ LockHeldByHandler /\ AddInvariant /\ OnlyConnectedReceive
  BY SMTT(30) DEF BrokerInv, SessionInv
<1>1. CASE UNCHANGED vars
  <2>1. SessionInv'
    BY <1>0, <1>1, SessionStutter, ZenonT(60) DEF vars
  <2>2. SubsTypeOK' /\ SendInv' /\ LockHeldByHandler'
    BY <1>0, <1>1, LockInv, ZenonT(60) DEF vars, subsVars, SubsTypeOK, SendInv
  <2>3. AddInvariant'
    BY <1>0, <1>1, SMTT(60) DEF vars, sessionVars, AddInvariant, Running
  <2>4. OnlyConnectedReceive'
    BY <1>0, <1>1, ZenonT(60) DEF vars, sessionVars, subsVars, OnlyConnectedReceive
  <2> QED BY <2>1, <2>2, <2>3, <2>4, ZenonT(60) DEF BrokerInv
<1>2. CASE Next
  <2>1. SessionInv' /\ SubsTypeOK' /\ SendInv'
    <3>1. ASSUME NEW c \in Conns, SessionStep(c), UNCHANGED subsVars
          PROVE  SessionInv' /\ SubsTypeOK' /\ SendInv'
      <4>1. SessionInv'
        BY <1>0, <3>1, SessionStepInv, ZenonT(60)
      <4> QED BY <1>0, <3>1, <4>1, SMTT(30) DEF subsVars, SubsTypeOK, SendInv
    <3>2. ASSUME NEW c \in Conns, ClientRequest(c)
          PROVE  SessionInv' /\ SubsTypeOK' /\ SendInv'
      <4>1. SessionInv'
        BY <1>0, <3>2, QuietRequest, QuietInv, ZenonT(60)
      <4>2. UNCHANGED subsVars
        BY <3>2, SMTT(30) DEF ClientRequest, Publish, Subscribe, Unsubscribe
      <4> QED BY <1>0, <4>1, <4>2, SMTT(30) DEF subsVars, SubsTypeOK, SendInv
    <3>3. ASSUME NEW c \in Conns, Handler(c)
          PROVE  SessionInv' /\ SubsTypeOK' /\ SendInv'
      BY <1>0, <3>3, QuietHandler, QuietInv, HandlerSubs, ZenonT(60)
    <3>4. ASSUME NEW c \in Conns, UnsubAll(c)
          PROVE  SessionInv' /\ SubsTypeOK' /\ SendInv'
      <4>1. SessionInv'
        BY <1>0, <3>4, SessionStepInv, SMTT(30) DEF UnsubAll
      <4> QED BY <1>0, <3>4, <4>1, HandlerSubs, ZenonT(60)
    <3>5. ASSUME NEW w \in Workers, Worker(w)
          PROVE  SessionInv' /\ SubsTypeOK' /\ SendInv'
      BY <1>0, <3>5, WorkerSession, WorkerSubs, ZenonT(60)
    <3> QED BY <1>2, <3>1, <3>2, <3>3, <3>4, <3>5, ZenonT(60) DEF Next
  <2>2. LockHeldByHandler'
    BY <1>0, <1>2, LockInv, SMTT(30)
  <2>3. AddInvariant' /\ OnlyConnectedReceive'
    BY <1>0, <1>2, TableInv, SMTT(30)
  <2> QED BY <2>1, <2>2, <2>3, ZenonT(60) DEF BrokerInv
<1> QED BY <1>1, <1>2, SMTT(30)

(* A broker with any number of connections and workers keeps its types,    *)
(* and no queue of jobs or of posts exceeds its capacity.                  *)
THEOREM BrokerTyped == Spec => []TypeOK
<1>1. BrokerInv => TypeOK
  BY DEF BrokerInv, SessionInv, SubsTypeOK, TypeOK
<1> QED BY <1>1, BrokerInitInv, BrokerStepInv, PTL DEF Spec

(* The limit on accepted sessions and the meaning of the receipts also     *)
(* hold with requests and deliveries going on in between.                  *)
THEOREM BrokerSessionsSafe == Spec => [](ConnectionLimit /\ EvictionFinal)
<1>1. BrokerInv => ConnectionLimit /\ EvictionFinal
  BY SMTT(30) DEF BrokerInv, SessionInv
<1> QED BY <1>1, BrokerInitInv, BrokerStepInv, PTL DEF Spec

(* The lock that sendRetain keeps while it waits for room in a job channel *)
(* belongs to a handler that is still there and has a message to send.     *)
THEOREM LockSafe == Spec => []LockHeldByHandler
<1>1. BrokerInv => LockHeldByHandler
  BY SMTT(30) DEF BrokerInv
<1> QED BY <1>1, BrokerInitInv, BrokerStepInv, PTL DEF Spec

(* Every connection that a worker may submit to has completed a CONNECT.   *)
THEOREM SubscribersConnected == Spec => []OnlyConnectedReceive
<1>1. BrokerInv => OnlyConnectedReceive
  BY DEF BrokerInv
<1> QED BY <1>1, BrokerInitInv, BrokerStepInv, PTL DEF Spec

----------------------------------------------------------------------------
(* The registry of the sessions, when no two clients share an id and each  *)
(* sends one CONNECT, first.                                               *)

OwnIdsOnly == \A c, d \in Conns : c # d => IdsOf[c] \cap IdsOf[d] = {}

(* A connection whose CONNECT was not handled up to the heartbeat.         *)
Early(c) == flag[c] = NoId \/ in[c] \in {"add", "add2", "setup"}

(* ... and whose inboundLoop has not left before that.                     *)
Arriving(c) == in[c] \in {"add", "add2", "setup"} \/ (in[c] = "read" /\ flag[c] = NoId)

(* Nothing makes the outboundLoop of such a connection leave: it has no    *)
(* jobs, no heartbeat and no subscriptions, and was not stopped.  Nobody   *)
(* takes over a session.                                                   *)
EarlyInv ==
  \A c \in Conns :
    /\ Early(c) => /\ jobs[c] = <<>> /\ hb[c] = "off" /\ ~stopped[c]
                   /\ in[c] # "work" /\ ~InTable(c)
    /\ Arriving(c) => out[c] = "loop"
    /\ in[c] = "none" => flag[c] = NoId
    /\ in[c] \notin {"evict", "wait", "del"}

RegInv ==
  /\ RegistryExact
  /\ \A c \in Conns : /\ flag[c] # NoId => flag[c] \in IdsOf[c]
                      /\ in[c] = "add" => \A id \in Ids : clients[id] # c

(* What most steps do: a handler goes on, an inboundLoop or an             *)
(* outboundLoop leaves, and nothing happens to a connection that arrives.  *)
Moves(d) ==
  \/ in'[d] = in[d]
  \/ ~Early(d) /\ in'[d] \in {"read", "work", "exit"}
  \/ in[d] \in {"read", "exit", "uncounted", "closing", "term"} /\ in'[d] \in {"exit", "uncounted", "closing", "term", "done"}
  \/ in[d] = "add2" /\ in'[d] = "setup"
  \/ in[d] = "setup" /\ in'[d] = "work" /\ flag[d] # NoId

Leaves(d) ==
  \/ out'[d] = out[d]
  \/ out[d] \in {"loop", "exit"} /\ out'[d] \in {"exit", "del"} /\ ~Arriving(d)

Calm ==
  /\ UNCHANGED <<flag, clients>>
  /\ \A d \in Conns :
       /\ Moves(d) /\ Leaves(d)
       /\ Early(d) => /\ jobs'[d] = jobs[d] /\ stopped'[d] = stopped[d]
                      /\ hb'[d] = hb[d] \/ in'[d] = "work"
                      /\ InTable(d)' => InTable(d)

LEMMA CalmRegistry ==
  ASSUME EarlyInv, RegInv, Calm
  PROVE  EarlyInv' /\ RegInv'
<1>1. flag' = flag /\ clients' = clients
  BY ZenonT(60) DEF Calm
<1>2. ASSUME NEW d \in Conns
      PROVE  /\ Early(d)' => Early(d) /\ in'[d] # "work"
             /\ Arriving(d)' => Arriving(d)
             /\ in'[d] = "none" => in[d] = "none"
             /\ in'[d] = "add" <=> in[d] = "add"
             /\ in'[d] \notin {"evict", "wait", "del"}
  <2>1. Moves(d) /\ in[d] \notin {"evict", "wait", "del"} /\ (Early(d) => in[d] # "work")
    BY Zenon DEF Calm, EarlyInv
  <2>2. CASE in'[d] = in[d]
    BY <1>1, <2>1, <2>2, ZenonT(60) DEF Early, Arriving
  <2>3. CASE ~Early(d) /\ in'[d] \in {"read", "work", "exit"}
    BY <1>1, <2>3, ZenonT(60) DEF Early, Arriving
  <2>4. CASE in[d] \in {"read", "exit", "uncounted", "closing", "term"} /\ in'[d] \in {"exit", "uncounted", "closing", "term", "done"}
    BY <1>1, <2>4, ZenonT(60) DEF Early, Arriving
  <2>5. CASE in[d] = "add2" /\ in'[d] = "setup"
    BY <1>1, <2>5, ZenonT(60) DEF Early, Arriving
  <2>6. CASE in[d] = "setup" /\ in'[d] = "work" /\ flag[d] # NoId
    BY <1>1, <2>6 DEF Early, Arriving
  <2> QED BY <2>1, <2>2, <2>3, <2>4, <2>5, <2>6, ZenonT(60) DEF Moves
<1>3. EarlyInv'
  <2> SUFFICES ASSUME NEW c \in Conns
               PROVE  /\ Early(c)' => /\ jobs'[c] = <<>> /\ hb'[c] = "off" /\ ~stopped'[c]
                                      /\ in'[c] # "work" /\ ~InTable(c)'
                      /\ Arriving(c)' => out'[c] = "loop"
                      /\ in'[c] = "none" => flag'[c] = NoId
                      /\ in'[c] \notin {"evict", "wait", "del"}
    BY Zenon DEF EarlyInv
  <2>1. ASSUME Early(c)'
        PROVE  jobs'[c] = <<>> /\ hb'[c] = "off" /\ ~stopped'[c] /\ in'[c] # "work" /\ ~InTable(c)'
    BY <1>2, <2>1, Zenon DEF Calm, EarlyInv
  <2>2. Arriving(c)' => out'[c] = "loop"
    BY <1>2, Zenon DEF Calm, Leaves, EarlyInv
  <2>3. in'[c] = "none" => flag'[c] = NoId
    BY <1>1, <1>2, ZenonT(60) DEF EarlyInv
  <2> QED BY <1>2, <2>1, <2>2, <2>3, ZenonT(60)
<1>4. \A d \in Conns : /\ out'[d] \in {"loop", "exit", "del"} => out[d] \in {"loop", "exit", "del"}
                       /\ out'[d] \in {"unsub", "done"} => out[d] \in {"unsub", "done"}
  <2> SUFFICES ASSUME NEW d \in Conns
               PROVE  /\ out'[d] \in {"loop", "exit", "del"} => out[d] \in {"loop", "exit", "del"}
                      /\ out'[d] \in {"unsub", "done"} => out[d] \in {"unsub", "done"}
    BY Zenon
  <2>1. \/ out'[d] = out[d]
        \/ out[d] \in {"loop", "exit"} /\ out'[d] \in {"exit", "del"}
    BY Zenon DEF Calm, Leaves
  <2>2. CASE out'[d] = out[d]
    BY <2>2, Zenon
  <2>3. CASE out[d] \in {"loop", "exit"} /\ out'[d] \in {"exit", "del"}
    BY <2>3, Zenon
  <2> QED BY <2>1, <2>2, <2>3, Zenon
<1>5. RegistryExact'
  <2>1. ASSUME NEW c \in Conns, NEW id \in Ids, clients'[id] = c
        PROVE  flag'[c] = id /\ out'[c] \notin {"unsub", "done"}
    BY <1>1, <1>4, <2>1, Zenon DEF RegInv, RegistryExact
  <2>2. ASSUME NEW c \in Conns, flag'[c] # NoId, in'[c] # "add", out'[c] \in {"loop", "exit", "del"}
        PROVE  clients'[flag'[c]] = c
    BY <1>1, <1>2, <1>4, <2>2, Zenon DEF RegInv, RegistryExact
  <2> QED BY <2>1, <2>2, Zenon DEF RegistryExact
<1> QED BY <1>1, <1>2, <1>3, <1>5, Zenon DEF RegInv

(* Steps of one connection that is past its CONNECT.                       *)
LEMMA LateCalm ==
  ASSUME NEW c \in Conns, ~Early(c), UNCHANGED <<flag, clients, out>>,
         \A d \in Conns : InTable(d)' => InTable(d) \/ ~Early(d),
         in'[c] = in[c] \/ in'[c] \in {"read", "work", "exit"},
         \A d \in Conns \ {c} : /\ in'[d] = in[d] /\ jobs'[d] = jobs[d]
                                /\ stopped'[d] = stopped[d] /\ hb'[d] = hb[d]
  PROVE  Calm
BY ZenonT(60) DEF Calm, Moves, Leaves

(* The steps of the accept loop and of doConnect, and the end of           *)
(* outboundLoop.                                                           *)
ArrivalStep(c) == Accept(c) \/ Connect(c) \/ Add(c) \/ OutDel(c) \/ OutUnsubAll(c)

(* Nothing but the step of c matters to the other connections.             *)
LEMMA OthersEarly ==
  ASSUME EarlyInv, NEW c \in Conns, NEW d \in Conns, d # c,
         in'[d] = in[d], jobs'[d] = jobs[d], stopped'[d] = stopped[d], hb'[d] = hb[d],
         flag'[d] = flag[d], out'[d] = out[d], InTable(d)' => InTable(d)
  PROVE  /\ Early(d)' => /\ jobs'[d] = <<>> /\ hb'[d] = "off" /\ ~stopped'[d]
                         /\ in'[d] # "work" /\ ~InTable(d)'
         /\ Arriving(d)' => out'[d] = "loop"
         /\ in'[d] = "none" => flag'[d] = NoId
         /\ in'[d] \notin {"evict", "wait", "del"}
BY ZenonT(60) DEF EarlyInv, Early, Arriving

LEMMA ArrivalEarly ==
  ASSUME Orderly, SessionTypeOK, FreshInv, EarlyInv, RegInv, NEW c \in Conns, ArrivalStep(c),
         Add(c) => clients[flag[c]] = NoConn,
         \A d \in Conns : InTable(d)' => InTable(d)
  PROVE  EarlyInv'
<1>t. /\ in \in [Conns -> InStates] /\ flag \in [Conns -> Ids \cup {NoId}]
      /\ out \in [Conns -> {"none", "loop", "exit", "del", "unsub", "done"}]
  BY Zenon DEF SessionTypeOK
<1>u. UNCHANGED <<jobs, hb, stopped>>
  BY Zenon DEF ArrivalStep, Accept, Connect, Add, OutDel, OutUnsubAll
<1>i. /\ Early(c) => /\ jobs[c] = <<>> /\ hb[c] = "off" /\ ~stopped[c]
                     /\ in[c] # "work" /\ ~InTable(c)
      /\ Arriving(c) => out[c] = "loop"
      /\ in[c] = "none" => flag[c] = NoId
      /\ in[c] \notin {"evict", "wait", "del"}
  BY Zenon DEF EarlyInv
<1>1. \A d \in Conns : d # c => in'[d] = in[d] /\ flag'[d] = flag[d] /\ out'[d] = out[d]
  <2>1. /\ in' = in \/ \E pc \in InStates : in' = [in EXCEPT ![c] = pc]
        /\ flag' = flag \/ \E id \in Ids : flag' = [flag EXCEPT ![c] = id]
        /\ out' = out \/ \E pc \in {"loop", "unsub", "done"} : out' = [out EXCEPT ![c] = pc]
    <3>1. {"read", "add", "add2", "evict"} \subseteq InStates
      BY ZenonT(60) DEF InStates
    <3>2. IdsOf[c] \subseteq Ids
      BY SessionAssumption, SMTT(30)
    <3> QED BY <3>1, <3>2, ZenonT(60) DEF ArrivalStep, Accept, Connect, Add, OutDel, OutUnsubAll, Goto
  <2> QED BY <1>t, <2>1, SMTT(30)
<1>2. /\ Early(c)' => Early(c) /\ in'[c] # "work"
      /\ Arriving(c)' => out'[c] = "loop"
      /\ in'[c] = "none" => flag'[c] = NoId
      /\ in'[c] \notin {"evict", "wait", "del"}
  <2>1. CASE Accept(c)
    <3>1. in[c] = "none" /\ in' = [in EXCEPT ![c] = "read"] /\ out' = [out EXCEPT ![c] = "loop"] /\ flag' = flag
      BY <2>1, Zenon DEF Accept, Goto
    <3>2. in'[c] = "read" /\ out'[c] = "loop" /\ flag[c] = NoId
      BY <1>t, <1>i, <3>1, ZenonT(60)
    <3> QED BY <3>2 DEF Early
  <2>2. CASE Connect(c)
    <3>1. in[c] = "read" /\ flag[c] = NoId /\ in' = [in EXCEPT ![c] = "add"] /\ out' = out
      BY <2>2, Zenon DEF Connect, Receives, Goto
    <3>2. in'[c] = "add" /\ Arriving(c) /\ Early(c)
      BY <1>t, <3>1, ZenonT(60) DEF Arriving, Early
    <3> QED BY <1>i, <3>1, <3>2, Zenon
  <2>3. CASE Add(c)
    <3>1. in[c] = "add" /\ in' = [in EXCEPT ![c] = "add2"] /\ out' = out
      BY <2>3, Zenon DEF Add, Goto
    <3>2. in'[c] = "add2" /\ Arriving(c) /\ Early(c)
      BY <1>t, <3>1, Zenon DEF Arriving, Early
    <3> QED BY <1>i, <3>1, <3>2, ZenonT(60)
  <2>4. CASE OutDel(c) \/ OutUnsubAll(c)
    <3>1. in' = in /\ flag' = flag /\ out[c] \in {"del", "unsub"}
      BY <2>4, ZenonT(60) DEF OutDel, OutUnsubAll
    <3>2. ~Arriving(c)
      BY <1>i, <3>1
    <3>3. (Early(c)' <=> Early(c)) /\ (Arriving(c)' <=> Arriving(c))
      BY <3>1, Zenon DEF Early, Arriving
    <3> QED BY <1>i, <3>1, <3>2, <3>3, ZenonT(60)
  <2> QED BY <2>1, <2>2, <2>3, <2>4, ZenonT(60) DEF ArrivalStep
<1>3. Early(c)' => /\ jobs'[c] = <<>> /\ hb'[c] = "off" /\ ~stopped'[c]
                   /\ in'[c] # "work" /\ ~InTable(c)'
  BY <1>i, <1>u, <1>2, ZenonT(60)
<1>4. ASSUME NEW d \in Conns, d # c
      PROVE  /\ Early(d)' => /\ jobs'[d] = <<>> /\ hb'[d] = "off" /\ ~stopped'[d]
                             /\ in'[d] # "work" /\ ~InTable(d)'
             /\ Arriving(d)' => out'[d] = "loop"
             /\ in'[d] = "none" => flag'[d] = NoId
             /\ in'[d] \notin {"evict", "wait", "del"}
  BY <1>1, <1>u, <1>4, OthersEarly, ZenonT(60)
<1> QED BY <1>2, <1>3, <1>4, ZenonT(60) DEF EarlyInv

(* The entry of an id can only be that of the client it belongs to, which  *)
(* has not been registered when it gets to add().                          *)
LEMMA AddFree ==
  ASSUME OwnIdsOnly, SessionTypeOK, FlagInv, RegInv, NEW c \in Conns, in[c] = "add"
  PROVE  flag[c] \in Ids /\ flag[c] \in IdsOf[c] /\ clients[flag[c]] = NoConn
<1>1. flag[c] # NoId /\ flag[c] \in Ids
  <2>1. flag \in [Conns -> Ids \cup {NoId}]
    BY Zenon DEF SessionTypeOK
  <2>2. flag[c] # NoId
    BY Zenon DEF FlagInv, Connecting
  <2> QED BY <2>1, <2>2
<1>2. flag[c] \in IdsOf[c] /\ clients[flag[c]] # c
  BY <1>1, ZenonT(60) DEF RegInv
<1>3. ASSUME NEW d \in Conns, clients[flag[c]] = d PROVE FALSE
  <2>1. flag[d] = flag[c]
    BY <1>1, <1>3, Zenon DEF RegInv, RegistryExact
  <2>2. flag[d] \in IdsOf[d]
    BY <1>1, <2>1, Zenon DEF RegInv
  <2> QED BY <1>2, <1>3, <2>1, <2>2, ZenonT(60) DEF OwnIdsOnly
<1>4. clients[flag[c]] \in Conns \cup {NoConn}
  BY <1>1, Zenon DEF SessionTypeOK
<1> QED BY <1>1, <1>2, <1>3, <1>4, ZenonT(60)

(* Two connections with a flag have different ones.                        *)
LEMMA FlagsDiffer ==
  ASSUME OwnIdsOnly, RegInv, NEW c \in Conns, NEW d \in Conns, d # c, flag[d] # NoId
  PROVE  flag[d] # flag[c]
BY ZenonT(60) DEF OwnIdsOnly, RegInv

LEMMA ArrivalRegistry ==
  ASSUME Orderly, OwnIdsOnly, SessionTypeOK, FlagInv, EarlyInv, RegInv,
         NEW c \in Conns, ArrivalStep(c)
  PROVE  RegInv'
<1>t. /\ in \in [Conns -> InStates] /\ flag \in [Conns -> Ids \cup {NoId}]
      /\ out \in [Conns -> {"none", "loop", "exit", "del", "unsub", "done"}]
      /\ clients \in [Ids -> Conns \cup {NoConn}]
      /\ NoId \notin Ids /\ NoConn \notin Conns
  BY SessionAssumption, Zenon DEF SessionTypeOK
<1>r. /\ \A d \in Conns : \A id \in Ids :
           clients[id] = d => flag[d] = id /\ out[d] \notin {"unsub", "done"} /\ in[d] # "add"
      /\ \A d \in Conns : flag[d] # NoId /\ in[d] # "add" /\ out[d] \in {"loop", "exit", "del"}
                            => clients[flag[d]] = d
      /\ \A d \in Conns : flag[d] # NoId => flag[d] \in IdsOf[d]
  BY Zenon DEF RegInv, RegistryExact
<1>i. /\ Arriving(c) => out[c] = "loop"
      /\ in[c] = "none" => flag[c] = NoId
  BY Zenon DEF EarlyInv
<1>s. SUFFICES /\ \A d \in Conns : \A id \in Ids :
                    clients'[id] = d => flag'[d] = id /\ out'[d] \notin {"unsub", "done"} /\ in'[d] # "add"
               /\ \A d \in Conns : flag'[d] # NoId /\ in'[d] # "add" /\ out'[d] \in {"loop", "exit", "del"}
                                     => clients'[flag'[d]] = d
               /\ \A d \in Conns : flag'[d] # NoId => flag'[d] \in IdsOf[d]
  BY ZenonT(60) DEF RegInv, RegistryExact
<1>1. CASE Accept(c)
  <2>1. /\ in[c] = "none" /\ in' = [in EXCEPT ![c] = "read"] /\ out' = [out EXCEPT ![c] = "loop"]
        /\ flag' = flag /\ clients' = clients
    BY <1>1, Zenon DEF Accept, Goto
  <2>2. flag[c] = NoId
    BY <1>i, <2>1, ZenonT(60)
  <2> QED BY <1>t, <1>r, <2>1, <2>2, ZenonT(60)
<1>2. CASE Connect(c)
  <2>1. PICK id \in IdsOf[c] : flag' = [flag EXCEPT ![c] = id]
    BY <1>2, Zenon DEF Connect
  <2>2. flag[c] = NoId /\ in' = [in EXCEPT ![c] = "add"] /\ out' = out /\ clients' = clients
    BY <1>2, ZenonT(60) DEF Connect, Goto
  <2> QED BY <1>t, <1>r, <2>1, <2>2, SMTT(30)
<1>3. CASE Add(c)
  <2>1. flag[c] \in Ids /\ flag[c] \in IdsOf[c] /\ clients[flag[c]] = NoConn
    BY <1>3, AddFree DEF Add
  <2>2. /\ in[c] = "add" /\ in' = [in EXCEPT ![c] = "add2"] /\ out' = out /\ flag' = flag
        /\ clients' = [clients EXCEPT ![flag[c]] = c]
    BY <1>3, <2>1, ZenonT(60) DEF Add, Goto
  <2>3. out[c] = "loop"
    BY <1>i, <2>2, Zenon DEF Arriving
  <2>4. \A d \in Conns : d # c /\ flag[d] # NoId => flag[d] # flag[c]
    BY FlagsDiffer, Zenon
  <2> QED BY <1>t, <1>r, <2>1, <2>2, <2>3, <2>4, ZenonT(60)
<1>4. CASE OutDel(c)
  <2>1. /\ in' = in /\ flag' = flag /\ out[c] = "del" /\ out' = [out EXCEPT ![c] = "unsub"]
        /\ clients' = IF flag[c] = NoId THEN clients ELSE [clients EXCEPT ![flag[c]] = NoConn]
    BY <1>4, ZenonT(60) DEF OutDel, Del
  <2>2. \A d \in Conns : d # c /\ flag[d] # NoId => flag[d] # flag[c]
    BY FlagsDiffer
  <2>3. CASE flag[c] = NoId
    BY <1>t, <1>r, <2>1, <2>3, ZenonT(60)
  <2>4. CASE flag[c] # NoId
    BY <1>t, <1>r, <2>1, <2>2, <2>4, ZenonT(60)
  <2> QED BY <2>3, <2>4, SMTT(30)
<1>5. CASE OutUnsubAll(c)
  <2>1. /\ in' = in /\ flag' = flag /\ clients' = clients
        /\ out[c] = "unsub" /\ out' = [out EXCEPT ![c] = "done"]
    BY <1>5, Zenon DEF OutUnsubAll
  <2> QED BY <1>t, <1>r, <2>1, ZenonT(60)
<1> QED BY <1>1, <1>2, <1>3, <1>4, <1>5, ZenonT(60) DEF ArrivalStep

(* The steps of a connection that count as calm.                           *)
LEMMA SessionCalm ==
  ASSUME Orderly, SessionTypeOK, FlagInv, EarlyInv, RegInv, NEW c \in Conns, SessionStep(c),
         ~ArrivalStep(c), \A d \in Conns : InTable(d)' => InTable(d)
  PROVE  Calm
<1>t. /\ in \in [Conns -> InStates] /\ hb \in [Conns -> {"off", "tick", "sync", "wait", "done"}]
      /\ out \in [Conns -> {"none", "loop", "exit", "del", "unsub", "done"}]
      /\ jobs \in [Conns -> Seq(Job)] /\ stopped \in [Conns -> BOOLEAN]
  BY Zenon DEF SessionTypeOK
<1>i. /\ Early(c) => jobs[c] = <<>> /\ hb[c] = "off" /\ ~stopped[c] /\ in[c] # "work"
      /\ Arriving(c) => out[c] = "loop"
      /\ in[c] \notin {"evict", "wait", "del"}
  BY Zenon DEF EarlyInv
<1>1. CASE PingReq(c)
  <2>1. /\ UNCHANGED <<flag, clients, out, jobs, stopped, hb>>
        /\ in[c] = "read" /\ flag[c] # NoId
        /\ in' = [in EXCEPT ![c] = IF <<"send">> = <<>> THEN "read" ELSE "work"]
    BY <1>1, ZenonT(60) DEF PingReq, ReceivesRequest, Receives, Handle, Goto
  <2>2. ~Early(c) /\ in'[c] \in {"read", "work"} /\ \A d \in Conns \ {c} : in'[d] = in[d]
    BY <1>t, <2>1, SMTT(30) DEF Early
  <2> QED BY <2>1, <2>2, LateCalm, Zenon
<1>2. CASE CheckIn(c) \/ Reply(c)
  <2>1. /\ UNCHANGED <<flag, clients, out, stopped, hb>>
        /\ in[c] = "work" /\ \E pc \in {"work", "exit", "read"} : in' = [in EXCEPT ![c] = pc]
        /\ jobs' = jobs \/ \E j \in {Packet} : jobs' = [jobs EXCEPT ![c] = Append(jobs[c], j)]
    BY <1>2, ZenonT(60) DEF CheckIn, Reply, Doing, Advance, Goto, Enqueue
  <2>2. /\ ~Early(c) /\ in'[c] \in {"read", "work", "exit"}
        /\ \A d \in Conns \ {c} : in'[d] = in[d] /\ jobs'[d] = jobs[d]
    BY <1>t, <1>i, <2>1, Zenon
  <2> QED BY <2>1, <2>2, LateCalm, Zenon
<1>3. CASE ClientLeaves(c) \/ ReadClosed(c) \/ ExitCount(c) \/ ExitAlive(c) \/ ExitClose(c) \/ Terminate(c)
  <2>1. /\ UNCHANGED <<flag, clients, out, jobs, stopped, hb>>
        /\ in[c] \in {"read", "exit", "uncounted", "closing", "term"}
        /\ \E pc \in {"exit", "uncounted", "closing", "term", "done"} : in' = [in EXCEPT ![c] = pc]
    BY <1>3, ZenonT(60) DEF ClientLeaves, ReadClosed, ExitCount, ExitAlive, ExitClose, Terminate, Receives, Goto
  <2>2. /\ in'[c] \in {"exit", "uncounted", "closing", "term", "done"}
        /\ \A d \in Conns : d # c => in'[d] = in[d]
    BY <1>t, <2>1, Zenon
  <2>3. \A d \in Conns : Moves(d)
    BY <2>1, <2>2, Zenon DEF Moves
  <2> QED BY <2>1, <2>3, Zenon DEF Calm, Leaves
<1>4. CASE AddAgain(c)
  <2>1. /\ UNCHANGED <<flag, out, jobs, stopped, hb>> /\ in[c] = "add2"
        /\ in' = [in EXCEPT ![c] = "setup"]
        /\ clients' = [clients EXCEPT ![flag[c]] = IF @ = NoConn THEN c ELSE @]
    BY <1>4, Zenon DEF AddAgain, Goto
  <2>2. flag[c] # NoId /\ out[c] = "loop"
    BY <1>i, <2>1, Zenon DEF FlagInv, Connecting, Arriving
  <2>3. clients[flag[c]] = c /\ c # NoConn
    <3>1. in[c] # "add" /\ out[c] \in {"loop", "exit", "del"} /\ NoConn \notin Conns
      BY <2>1, <2>2, SessionAssumption, ZenonT(60)
    <3> QED BY <2>2, <3>1, ZenonT(60) DEF RegInv, RegistryExact
  <2>4. clients' = clients
    <3>1. clients \in [Ids -> Conns \cup {NoConn}]
      BY Zenon DEF SessionTypeOK
    <3>2. clients' = [clients EXCEPT ![flag[c]] = clients[flag[c]]]
      BY <2>1, <2>3, ZenonT(60)
    <3> QED BY <3>1, <3>2, SMTT(30)
  <2>5. in'[c] = "setup" /\ \A d \in Conns : d # c => in'[d] = in[d]
    BY <1>t, <2>1, SMTT(30) DEF InStates
  <2>6. \A d \in Conns : Moves(d)
    BY <2>1, <2>5, Zenon DEF Moves
  <2> QED BY <2>1, <2>4, <2>6, Zenon DEF Calm, Leaves
<1>5. CASE Setup(c)
  <2>1. /\ UNCHANGED <<flag, clients, out, jobs, stopped>> /\ in[c] = "setup"
        /\ \E h \in {"tick"} : hb' = hb \/ hb' = [hb EXCEPT ![c] = h]
    BY <1>5, Zenon DEF Setup
  <2>2. PICK stored \in 0..MaxStored :
          Handle(c, [i \in 1..stored |-> "send"] \o <<"checkin", "send">>)
    BY <1>5, Zenon DEF Setup
  <2>3. [i \in 1..stored |-> "send"] \o <<"checkin", "send">> # <<>>
    <3>1. [i \in 1..stored |-> "send"] \in Seq({"send", "checkin"}) /\ stored \in Nat
          /\ Len([i \in 1..stored |-> "send"]) = stored
      BY SessionAssumption
    <3>2. PICK A : A = [i \in 1..stored |-> "send"]
      BY Zenon
    <3>3. A \in Seq({"send", "checkin"})
      BY <3>1, <3>2
    <3>4. A \o <<"checkin", "send">> # <<>>
      BY <3>3
    <3> QED BY <3>2, <3>4, ZenonT(60)
  <2>4. in' = [in EXCEPT ![c] = "work"]
    BY <2>2, <2>3, Zenon DEF Handle, Goto
  <2>5. in'[c] = "work" /\ flag[c] # NoId /\ \A d \in Conns : d # c => in'[d] = in[d] /\ hb'[d] = hb[d]
    BY <1>t, <2>1, <2>4, Zenon DEF FlagInv, Connecting
  <2>6. \A d \in Conns : Moves(d)
    BY <2>1, <2>5, Zenon DEF Moves
  <2> QED BY <2>1, <2>5, <2>6, Zenon DEF Calm, Leaves
<1>6. CASE EvictSend(c) \/ EvictWait(c) \/ EvictDel(c)
  BY <1>i, <1>6, Zenon DEF EvictSend, EvictWait, EvictDel
<1>7. CASE OutWrite(c)
  <2>1. /\ UNCHANGED <<flag, clients, in, stopped, hb>> /\ out[c] = "loop" /\ jobs[c] # <<>>
        /\ \E j \in {Tail(jobs[c])} : jobs' = [jobs EXCEPT ![c] = j]
        /\ \E pc \in {"loop", "exit"} : out' = [out EXCEPT ![c] = pc]
    BY <1>7, ZenonT(60) DEF OutWrite
  <2>2. ~Early(c) /\ ~Arriving(c)
    BY <1>i, <2>1, Zenon DEF Early, Arriving
  <2>3. /\ out'[c] \in {"loop", "exit"}
        /\ \A d \in Conns : d # c => out'[d] = out[d] /\ jobs'[d] = jobs[d]
    BY <1>t, <2>1, Zenon
  <2>4. \A d \in Conns : Moves(d) /\ Leaves(d)
    BY <2>1, <2>2, <2>3, Zenon DEF Moves, Leaves
  <2> QED BY <2>1, <2>2, <2>3, <2>4, ZenonT(60) DEF Calm
<1>8. CASE OutLeave(c) \/ OutClose(c)
  <2>1. /\ UNCHANGED <<flag, clients, in, stopped, hb, jobs>>
        /\ out[c] \in {"loop", "exit"}
        /\ \E pc \in {"exit", "del"} : out' = [out EXCEPT ![c] = pc]
        /\ out[c] = "exit" \/ stopped[c] \/ in[c] \in {"term", "done"}
    BY <1>8, ZenonT(60) DEF OutLeave, OutClose, MayLeave, JobsClosed
  <2>2. ~Arriving(c)
    BY <1>i, <2>1, SMTT(30) DEF Early, Arriving
  <2>3. out'[c] \in {"exit", "del"} /\ \A d \in Conns : d # c => out'[d] = out[d]
    BY <1>t, <2>1, Zenon
  <2>4. \A d \in Conns : Moves(d) /\ Leaves(d)
    BY <2>1, <2>2, <2>3, Zenon DEF Moves, Leaves
  <2> QED BY <2>1, <2>4, Zenon DEF Calm
<1>9. CASE HbExpire(c) \/ HbSend(c) \/ HbWait(c) \/ HbStop(c)
  <2>1. /\ UNCHANGED <<flag, clients, in, stopped, out>> /\ hb[c] # "off"
        /\ \E h \in {"sync", "wait", "done"} : hb' = [hb EXCEPT ![c] = h]
        /\ jobs' = jobs \/ \E j \in {Kick(<<c, "hb">>)} : jobs' = [jobs EXCEPT ![c] = Append(jobs[c], j)]
    BY <1>9, ZenonT(60) DEF HbExpire, HbSend, HbWait, HbStop, SubmitSync, Enqueue
  <2>2. ~Early(c) /\ \A d \in Conns : d # c => hb'[d] = hb[d] /\ jobs'[d] = jobs[d]
    BY <1>t, <1>i, <2>1, ZenonT(60)
  <2> QED BY <2>1, <2>2, LateCalm, ZenonT(60)
<1> QED BY <1>1, <1>2, <1>3, <1>4, <1>5, <1>6, <1>7, <1>8, <1>9, ZenonT(60)
        DEF SessionStep, Client, Inbound, Outbound, Heartbeat, ArrivalStep

(* The requests and their handlers, which need a flag.                     *)
LEMMA HandlerCalm ==
  ASSUME Orderly, SessionTypeOK, EarlyInv, NEW c \in Conns, ClientRequest(c) \/ Handler(c),
         \A d \in Conns : InTable(d)' => InTable(d) \/ ~Early(d)
  PROVE  Calm
<1>t. /\ in \in [Conns -> InStates] /\ jobs \in [Conns -> Seq(Job)] /\ stopped \in [Conns -> BOOLEAN]
  BY Zenon DEF SessionTypeOK
<1>1. CASE ClientRequest(c)
  <2>1. /\ UNCHANGED <<flag, clients, out, jobs, hb>>
        /\ in[c] = "read" /\ flag[c] # NoId
    BY <1>1, ZenonT(60) DEF ClientRequest, Publish, Subscribe, Unsubscribe, ReceivesRequest, Receives
  <2>2. \E pc \in {"read", "work"} : in' = [in EXCEPT ![c] = pc]
    <3>1. \E steps : Handle(c, steps)
      BY <1>1, ZenonT(60) DEF ClientRequest, Publish, Subscribe, Unsubscribe
    <3> QED BY <3>1, Zenon DEF Handle, Goto
  <2>3. stopped' = stopped \/ \E b \in BOOLEAN : stopped' = [stopped EXCEPT ![c] = b]
    <3>1. CASE Publish(c)
      <4>1. PICK limited \in BOOLEAN :
              \/ Stop(c)
              \/ stopped' = [stopped EXCEPT ![c] = stopped[c] \/ limited]
        BY <3>1, Zenon DEF Publish
      <4>2. CASE Stop(c)
        BY <4>2, Zenon DEF Stop
      <4>3. stopped[c] \/ limited \in BOOLEAN
        OBVIOUS
      <4> QED BY <4>1, <4>2, <4>3, Zenon
    <3>2. CASE Subscribe(c) \/ Unsubscribe(c)
      BY <3>2, ZenonT(60) DEF Subscribe, Unsubscribe
    <3> QED BY <1>1, <3>1, <3>2, Zenon DEF ClientRequest
  <2>4. /\ ~Early(c) /\ in'[c] \in {"read", "work"}
        /\ \A d \in Conns \ {c} : in'[d] = in[d] /\ stopped'[d] = stopped[d]
    BY <1>t, <2>1, <2>2, <2>3, ZenonT(60) DEF Early
  <2> QED BY <2>1, <2>4, LateCalm, ZenonT(60)
<1>2. CASE Handler(c)
  <2>1. /\ UNCHANGED <<flag, clients, out, hb>> /\ in[c] = "work"
        /\ in' = in \/ Advance(c)
        /\ jobs' = jobs \/ Enqueue(c, Packet)
        /\ stopped' = stopped \/ Stop(c)
    BY <1>2, ZenonT(60) DEF Handler, SubmitPost, CountTopic, AddTopic, SendRetain,
                            SendRetainUnblocked, Unsub, Doing
  <2>2. in' = in \/ \E pc \in {"work", "exit", "read"} : in' = [in EXCEPT ![c] = pc]
    BY <2>1, Zenon DEF Advance, Goto
  <2>3. stopped' = stopped \/ stopped' = [stopped EXCEPT ![c] = TRUE]
    BY <2>1, Zenon DEF Stop
  <2>4. ~Early(c)
    BY <2>1, Zenon DEF EarlyInv
  <2>5. /\ in'[c] = in[c] \/ in'[c] \in {"read", "work", "exit"}
        /\ \A d \in Conns \ {c} : /\ in'[d] = in[d] /\ jobs'[d] = jobs[d]
                                  /\ stopped'[d] = stopped[d]
    BY <1>t, <2>1, <2>2, <2>3, ZenonT(60) DEF Enqueue
  <2> QED BY <2>1, <2>4, <2>5, LateCalm, ZenonT(60)
<1> QED BY <1>1, <1>2, SMTT(30)

(* A worker only submits to connections in the table, which are past their *)
(* CONNECT.                                                                *)
LEMMA WorkerCalm ==
  ASSUME SessionTypeOK, SendInv, EarlyInv, NEW w \in Workers, Worker(w),
         \A d \in Conns : InTable(d)' => InTable(d) \/ ~Early(d)
  PROVE  Calm
<1>1. CASE Deliver(w)
  <2>1. PICK c \in Conns : c = cur[w]
    BY <1>1, Zenon DEF Deliver, SendInv
  <2>2. /\ UNCHANGED <<in, flag, clients, out, hb, stopped>>
        /\ jobs' = jobs \/ Enqueue(c, Packet)
    BY <1>1, <2>1, Zenon DEF Deliver
  <2>3. ~Early(c)
    <3>1. InTable(c)
      BY <2>1, Zenon DEF InTable
    <3> QED BY <3>1, Zenon DEF EarlyInv
  <2>4. \A d \in Conns \ {c} : jobs'[d] = jobs[d]
    <3>1. jobs \in [Conns -> Seq(Job)]
      BY Zenon DEF SessionTypeOK
    <3> QED BY <2>2, <3>1, Zenon DEF Enqueue
  <2> QED BY <2>2, <2>3, <2>4, LateCalm, ZenonT(60)
<1>2. CASE ~Deliver(w)
  <2>1. UNCHANGED sessionVars
    BY <1>2, ZenonT(60) DEF Worker, TakePost, ClearRetained, Subscribers, SkipSubscriber, FindAlive,
                            FinishPost
  <2>2. UNCHANGED <<in, flag, clients, out, hb, stopped, jobs>>
    BY <2>1 DEF sessionVars
  <2> QED BY <2>2, ZenonT(60) DEF Calm, Moves, Leaves
<1> QED BY <1>1, <1>2

LEMMA RegistryInit == Init => EarlyInv /\ RegInv
<1> SUFFICES ASSUME Init PROVE EarlyInv /\ RegInv
  OBVIOUS
<1>1. \A c \in Conns : /\ in[c] = "none" /\ flag[c] = NoId /\ out[c] = "none" /\ jobs[c] = <<>>
                       /\ hb[c] = "off" /\ stopped[c] = FALSE /\ c # NoConn
  BY SessionAssumption, Zenon DEF Init, SessionInit
<1>2. \A id \in Ids : clients[id] = NoConn
  BY Zenon DEF Init, SessionInit
<1>3. \A c \in Conns : ~InTable(c)
  <2>1. Range(<<>>) = {}
    BY SMTT(30) DEF Range
  <2> QED BY <1>1, <2>1, Zenon DEF Init, InTable
<1>4. EarlyInv
  BY <1>1, <1>3, ZenonT(60) DEF EarlyInv, Arriving
<1>5. RegInv
  BY <1>1, <1>2, SMTT(30) DEF RegInv, RegistryExact
<1> QED BY <1>4, <1>5

LEMMA RegistryStep ==
  ASSUME Orderly, OwnIdsOnly, BrokerInv, EarlyInv, RegInv, [Next]_vars
  PROVE  EarlyInv' /\ RegInv'
<1>0. SessionTypeOK /\ FlagInv /\ FreshInv /\ SubsTypeOK /\ SendInv
  BY Zenon DEF BrokerInv, SessionInv
<1>1. CASE UNCHANGED vars
  <2>1. UNCHANGED <<in, flag, clients, out, hb, stopped, jobs, subs, todo, cur>>
    BY <1>1 DEF vars, sessionVars, subsVars
  <2>2. Calm
    BY <2>1, ZenonT(60) DEF Calm, Moves, Leaves, InTable
  <2> QED BY <2>2, CalmRegistry, ZenonT(60)
<1>2. ASSUME Next PROVE \A d \in Conns : InTable(d)' => InTable(d) \/ ~Early(d)
  <2>1. \A d \in Conns : InTable(d)' => InTable(d) \/ Doing(d, "add")
    BY <1>0, <1>2, TableGrows, ZenonT(60)
  <2> QED BY <2>1, Zenon DEF Doing, EarlyInv
<1>3. ASSUME NEW c \in Conns, ClientRequest(c) \/ Handler(c) PROVE EarlyInv' /\ RegInv'
  <2>1. Next
    BY <1>3, Zenon DEF Next
  <2> QED BY <1>0, <1>2, <1>3, <2>1, HandlerCalm, CalmRegistry, ZenonT(60)
<1>4. ASSUME NEW w \in Workers, Worker(w) PROVE EarlyInv' /\ RegInv'
  <2>1. Next
    BY <1>4, Zenon DEF Next
  <2> QED BY <1>0, <1>2, <1>4, <2>1, WorkerCalm, CalmRegistry, ZenonT(60)
<1>5. ASSUME NEW c \in Conns, ArrivalStep(c), \A d \in Conns : InTable(d)' => InTable(d)
      PROVE  EarlyInv' /\ RegInv'
  <2>1. Add(c) => clients[flag[c]] = NoConn
    BY <1>0, AddFree, ZenonT(60) DEF Add
  <2>2. EarlyInv'
    BY <1>0, <1>5, <2>1, ArrivalEarly, ZenonT(60)
  <2>3. RegInv'
    BY <1>0, <1>5, ArrivalRegistry, ZenonT(60)
  <2> QED BY <2>2, <2>3
<1>6. ASSUME NEW c \in Conns, SessionStep(c), UNCHANGED subsVars PROVE EarlyInv' /\ RegInv'
  <2>1. \A d \in Conns : InTable(d)' => InTable(d)
    BY <1>6, Zenon DEF subsVars, InTable
  <2> QED BY <1>0, <1>5, <1>6, <2>1, SessionCalm, CalmRegistry, ZenonT(60)
<1>7. ASSUME NEW c \in Conns, UnsubAll(c) PROVE EarlyInv' /\ RegInv'
  <2>t. /\ subs \in Seq(Conns \cup {NoConn}) /\ NoConn \notin Conns
        /\ todo \in [Workers -> Seq(Conns \cup {NoConn})]
    BY <1>0, SessionAssumption, Zenon DEF SubsTypeOK
  <2>1. ClearSlots(c) /\ subs' = Without(subs, c) /\ cur' = cur /\ ArrivalStep(c)
    BY <1>7, Zenon DEF UnsubAll, ArrivalStep
  <2>2. /\ Range(subs') \subseteq Range(subs) \cup {NoConn}
        /\ \A w \in Workers : Range(todo'[w]) \subseteq Range(todo[w]) \cup {NoConn}
    BY <2>t, <2>1, WithoutType, ClearSlotsType, ZenonT(60)
  <2>3. \A d \in Conns : InTable(d)' => InTable(d)
    BY <2>t, <2>1, <2>2, SMTT(30) DEF InTable
  <2> QED BY <1>5, <2>1, <2>3, SMTT(30)
<1> QED BY <1>1, <1>3, <1>4, <1>6, <1>7, ZenonT(60) DEF Next

(* The registry is exact for any number of connections whose clients have  *)
(* distinct ids and send one CONNECT, first: handler.add() never finds a   *)
(* predecessor, a session that was set up stays registered until its       *)
(* outboundLoop calls del(), and no entry outlives that call.              *)
THEOREM RegistrySafe == ASSUME Orderly, OwnIdsOnly PROVE Spec => []RegistryExact
<1>1. Init => BrokerInv /\ EarlyInv /\ RegInv
  BY BrokerInitInv, RegistryInit, SMTT(30)
<1>2. BrokerInv /\ EarlyInv /\ RegInv /\ [Next]_vars => (BrokerInv /\ EarlyInv /\ RegInv)'
  BY BrokerStepInv, RegistryStep, ZenonT(60)
<1>3. RegInv => RegistryExact
  BY DEF RegInv
<1> QED BY <1>1, <1>2, <1>3, PTL DEF Spec

=============================================================================
