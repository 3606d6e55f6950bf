------------------------ MODULE SubscriptionsProofs ------------------------
(***************************************************************************)
(* Proofs about the subscription table: slices that share arrays neither   *)
(* lose a message for a subscriber by name nor bring one to a stranger,    *)
(* how far workers get messages out of order, and which retained message   *)
(* they leave, for any number of clients, filters, workers and messages.   *)
(* Last, the loop with which filters are compared to topics.               *)
(***************************************************************************)
EXTENDS Subscriptions, Matcher, SequenceTheorems, FiniteSetTheorems, TLAPS

Member == Clients \cup {Nil}

Heap == Seq(Seq(Member))

Slice == [a : Nat, n : Nat]

Message == [id : Nat, topic : Published, kind : Kinds]

InHeap(h, s) == s.a \in 0..Len(h) /\ s.n <= Cap(h, s)

(* What append(s, x) does to the heap: one slot is written, which is past  *)
(* the end of s and in its array, or the elements are copied to a new one. *)
InPlace(h, s, x, h2, s2) ==
  /\ s.a # 0 /\ s2.a = s.a /\ s.n + 1 <= Len(h[s.a])
  /\ Len(h2) = Len(h)
  /\ \A a \in 1..Len(h) :
       /\ Len(h2[a]) = Len(h[a])
       /\ \A k \in 1..Len(h[a]) :
            h2[a][k] = IF a = s.a /\ k = s.n + 1 THEN x ELSE h[a][k]

Copied(h, s, x, h2, s2) ==
  /\ s2.a = Len(h) + 1
  /\ Len(h2) = Len(h) + 1
  /\ \A a \in 1..Len(h) : h2[a] = h[a]
  /\ s.n + 1 <= Len(h2[s2.a])
  /\ \A k \in 1..Len(h2[s2.a]) :
       h2[s2.a][k] = IF k <= s.n THEN h[s.a][k] ELSE IF k = s.n + 1 THEN x ELSE Nil

Appended(h, s, x, h2, s2) ==
  /\ h2 \in Heap /\ s2 \in Slice
  /\ InHeap(h2, s2)
  /\ s2.n = s.n + 1
  /\ InPlace(h, s, x, h2, s2) \/ Copied(h, s, x, h2, s2)

LEMMA GoAppendIsAppend ==
  ASSUME NEW h \in Heap, NEW s \in Slice, InHeap(h, s), NEW x \in Member
  PROVE  Appended(h, s, x, GoAppend(h, s, x).h, GoAppend(h, s, x).s)
<1> DEFINE h2 == GoAppend(h, s, x).h
           s2 == GoAppend(h, s, x).s
<1>1. CASE HasRoom(h, s)
  <2>1. s.a \in 1..Len(h) /\ s.n + 1 \in 1..Len(h[s.a]) /\ h[s.a] \in Seq(Member)
    BY <1>1, SMTT(30) DEF HasRoom, Cap, Slice, InHeap, Heap
  <2>2. /\ h2 = [h EXCEPT ![s.a] = [h[s.a] EXCEPT ![s.n + 1] = x]]
        /\ s2 = [s EXCEPT !.n = s.n + 1]
    BY <1>1, SMTT(30) DEF GoAppend
  <2>3. s2 \in Slice /\ s2.a = s.a /\ s2.n = s.n + 1
    BY <2>2 DEF Slice
  <2> DEFINE arr == [h[s.a] EXCEPT ![s.n + 1] = x]
  <2>4. arr \in Seq(Member) /\ Len(arr) = Len(h[s.a])
        /\ \A k \in 1..Len(h[s.a]) : arr[k] = IF k = s.n + 1 THEN x ELSE h[s.a][k]
    BY <2>1, ExceptSeq, SMTT(30)
  <2> HIDE DEF arr
  <2>5. h2 \in Heap /\ Len(h2) = Len(h)
        /\ \A a \in 1..Len(h) : h2[a] = IF a = s.a THEN arr ELSE h[a]
    <3>1. h2 = [h EXCEPT ![s.a] = arr]
      BY <2>2 DEF arr
    <3> QED BY <2>1, <2>4, <3>1, ExceptSeq, SMTT(30) DEF Heap
  <2> HIDE DEF h2, s2
  <2>6. InPlace(h, s, x, h2, s2)
    BY <2>1, <2>3, <2>4, <2>5, SMTT(30) DEF InPlace, Slice
  <2>7. InHeap(h2, s2)
    BY <2>1, <2>3, <2>4, <2>5, SMTT(30) DEF InHeap, Cap, Slice
  <2> QED BY <2>3, <2>5, <2>6, <2>7 DEF Appended, h2, s2
<1>2. CASE ~HasRoom(h, s)
  <2> DEFINE m == IF s.n = 0 THEN 1 ELSE 2 * s.n
             arr == [k \in 1..m |-> IF k <= s.n THEN h[s.a][k]
                                    ELSE IF k = s.n + 1 THEN x ELSE Nil]
  <2>1. h2 = Append(h, arr) /\ s2 = [a |-> Len(h) + 1, n |-> s.n + 1]
    BY <1>2, SMTT(30) DEF GoAppend
  <2>2. m \in Nat /\ s.n \in Nat /\ s.a \in Nat /\ s.n + 1 <= m /\ Len(h) \in Nat
    BY SMTT(30) DEF Slice, Heap
  <2>3. s.n > 0 => s.a \in 1..Len(h) /\ h[s.a] \in Seq(Member) /\ s.n <= Len(h[s.a])
    BY <2>2, SMTT(30) DEF InHeap, Cap, Heap
  <2>4. arr \in Seq(Member) /\ Len(arr) = m
        /\ \A k \in 1..m : arr[k] = IF k <= s.n THEN h[s.a][k]
                                    ELSE IF k = s.n + 1 THEN x ELSE Nil
    <3>1. \A k \in 1..m : (IF k <= s.n THEN h[s.a][k]
                           ELSE IF k = s.n + 1 THEN x ELSE Nil) \in Member
      BY <2>2, <2>3, SMTT(30) DEF Member
    <3> QED BY <2>2, <3>1, IsASeq, SMTT(30)
  <2> HIDE DEF arr, m
  <2>5. h2 \in Heap /\ Len(h2) = Len(h) + 1 /\ h2[Len(h) + 1] = arr
        /\ \A a \in 1..Len(h) : h2[a] = h[a]
    BY <2>1, <2>4, AppendProperties, SMTT(30) DEF Heap
  <2>6. s2 \in Slice /\ s2.a = Len(h) + 1 /\ s2.n = s.n + 1
    BY <2>1, <2>2 DEF Slice
  <2> HIDE DEF h2, s2
  <2>7. Copied(h, s, x, h2, s2)
    BY <2>2, <2>4, <2>5, <2>6, SMTT(30) DEF Copied
  <2>8. InHeap(h2, s2)
    BY <2>2, <2>4, <2>5, <2>6, SMTT(30) DEF InHeap, Cap
  <2> QED BY <2>5, <2>6, <2>7, <2>8 DEF Appended, h2, s2
<1> QED BY <1>1, <1>2

----------------------------------------------------------------------------
(* The inductive invariant                                                 *)

Entry == [id : Nat, retained : BOOLEAN]

Active(w) == pc[w] \in {"got", "look", "fan"}

(* The workers whose slice counts.                                         *)
Holds(w) == pc[w] \in {"look", "fan"}

TableInv ==
  /\ heap \in Heap
  /\ subs \in [Names -> Slice]
  /\ \A t \in Names : InHeap(heap, subs[t])
  /\ nsub \in Nat
  /\ \A k \in DOMAIN wildcards :
       /\ k \in 1..nsub
       /\ wildcards[k] \in [wild : {f \in Filters : IsWildcard(f) /\ Valid(f)}, c : Clients]

MessageInv ==
  /\ messages \in Seq(Message)
  /\ \A k \in 1..Len(messages) : messages[k].id = k
  /\ posts \in Seq(Message)
  /\ Len(posts) <= PostsLen
  /\ \A k \in 1..Len(posts) : IsPublished(posts[k])
  /\ retain \in [Names -> Nat]
  /\ \A t \in Names : retain[t] # 0 => /\ retain[t] \in 1..Len(messages)
                                       /\ messages[retain[t]].topic = t

WorkerInv ==
  /\ pc \in [Workers -> {"idle", "got", "look", "fan", "dead"}]
  /\ msg \in [Workers -> Message \cup {NoMessage}]
  /\ \A w \in Workers : IsPublished(msg[w]) \/ (msg[w] = NoMessage /\ ~Active(w))
  /\ res \in [Workers -> Slice]
  /\ \A w \in Workers : InHeap(heap, res[w])
  /\ at \in [Workers -> Nat \ {0}]
  /\ due \in [Workers -> [exact : SUBSET Clients, wild : SUBSET Clients]]
  /\ \A v, w \in Workers : pc[v] = "look" /\ pc[w] = "look" => v = w

ClientInv ==
  /\ asking \in [Clients -> Filters \cup {<<>>}]
  /\ gone \subseteq Clients
  /\ inbox \in [Clients -> Seq(Entry)]
  /\ \A c \in Clients : \A k \in 1..Len(inbox[c]) : inbox[c][k].id \in 1..Len(messages)
  /\ wants \in [Clients -> SUBSET Filters]
  /\ ever \in [Clients -> SUBSET Filters]

(* A filter of the client has covered the topic.                           *)
Entitled(c, t) ==
  \E f \in ever[c] : f = t \/ (IsWildcard(f) /\ Covers(f, t))

(* Each array belongs to a topic: only slices of that topic refer to it,   *)
(* and it holds only clients that are entitled to the topic.               *)
Owned(owner) ==
  /\ \A t \in Names : subs[t].a # 0 => owner[subs[t].a] = t
  /\ \A w \in Workers : Holds(w) /\ res[w].a # 0 => owner[res[w].a] = msg[w].topic
  /\ \A a \in 1..Len(heap) : \A k \in 1..Len(heap[a]) :
       heap[a][k] # Nil => Entitled(heap[a][k], owner[a])

OwnInv == \E owner \in [1..Len(heap) -> Names] : Owned(owner)

(* What clients asked for they are entitled to.                            *)
AskInv ==
  /\ \A c \in Clients : asking[c] # <<>> => asking[c] \in ever[c]
  /\ \A k \in DOMAIN wildcards : wildcards[k].wild \in ever[wildcards[k].c]
  /\ NoStrangeMessage

(* Whoever wants a topic is in its list.                                   *)
WantsInv ==
  \A c \in Clients : \A t \in wants[c] \cap Names :
    \E k \in 1..subs[t].n : heap[subs[t].a][k] = c

(* A lookup appends past the list of the topic, or to an array of its own. *)
LookInv ==
  \A w \in Workers : pc[w] = "look" =>
    /\ subs[msg[w].topic].n <= res[w].n
    /\ res[w].a # 0 /\ res[w].a # subs[msg[w].topic].a
         => \A v \in Workers \ {w} : Holds(v) => res[v].a # res[w].a

(* The slot of a client that a worker has yet to get to.  Nobody writes to *)
(* it, as it is within the list of the topic if that still has the array.  *)
Ahead(w, c) ==
  \E k \in (IF pc[w] = "fan" THEN at[w] ELSE 1)..res[w].n :
    /\ heap[res[w].a][k] = c
    /\ res[w].a = subs[msg[w].topic].a => k <= subs[msg[w].topic].n

DueInv ==
  \A w \in Workers : Holds(w) =>
    \A c \in due[w].exact \ gone : Ahead(w, c) \/ (pc[w] = "fan" /\ msg[w].id \in Live(c))

SubsInv ==
  /\ TableInv /\ MessageInv /\ WorkerInv /\ ClientInv
  /\ OwnInv /\ AskInv /\ WantsInv /\ LookInv /\ DueInv

----------------------------------------------------------------------------
(* Facts about the operators                                               *)

LEMMA NameFacts ==
  /\ Published \subseteq Names
  /\ \A f \in Filters : ~IsWildcard(f) => f \in Names
  /\ \A t \in Names : ~IsWildcard(t)
  /\ <<>> \notin Filters
  /\ Nil \notin Clients
  /\ NoMessage.id = 0
<1>1. NoMessage.id = 0
  BY DEF NoMessage
<1>2. \A f \in Filters : f \in Topic
  BY SubscriptionsAssumption, Zenon
<1>3. <<>> \notin Filters
  BY <1>2, Zenon DEF Topic
<1>4. /\ Published \subseteq Names /\ Nil \notin Clients
      /\ \A f \in Filters : ~IsWildcard(f) => f \in Names
      /\ \A t \in Names : ~IsWildcard(t)
  BY SubscriptionsAssumption, Zenon DEF Names
<1> QED BY <1>1, <1>3, <1>4, Zenon

LEMMA TopicIsName ==
  ASSUME NEW m \in Message
  PROVE  m.topic \in Names
BY NameFacts, SMTT(30) DEF Message

LEMMA ElementOf ==
  ASSUME NEW S, NEW s \in Seq(S), NEW k \in 1..Len(s)
  PROVE  s[k] \in S
BY SMTT(30)

LEMMA PublishedIsMessage ==
  ASSUME MessageInv, NEW m, IsPublished(m)
  PROVE  m \in Message
<1>1. messages \in Seq(Message) /\ m.id \in 1..Len(messages) /\ messages[m.id] = m
  BY Zenon DEF MessageInv, IsPublished
<1> QED BY <1>1, ElementOf, Zenon

LEMMA FieldsOf ==
  ASSUME NEW F, NEW r \in [wild : F, c : Clients]
  PROVE  r.wild \in F /\ r.c \in Clients
BY SMTT(30)

LEMMA SliceNat == \A s \in Slice : s.a \in Nat /\ s.n \in Nat
BY DEF Slice

LEMMA HeapLen == \A h \in Heap : Len(h) \in Nat
BY DEF Heap

(* Arithmetic of slices: what is within the first n is not the next slot.  *)
LEMMA NextSlot ==
  /\ \A n \in Nat : \A k \in 1..n : k # n + 1
  /\ \A m, n \in Nat : m <= n => ~(n + 1 <= m) /\ n + 1 \notin 1..m
OBVIOUS

LEMMA NotPast == \A n \in Nat : ~(n + 1 <= n)
OBVIOUS

LEMMA StillWithin == \A n \in Nat : \A k \in Int : k <= n => k <= n + 1
OBVIOUS

(* t is s with e added: the old entries keep their index, e has the next.  *)
Longer(s, e, t) ==
  /\ t \in Seq(Entry)
  /\ \A k \in 1..Len(t) : \/ k \in 1..Len(s) /\ t[k] = s[k]
                          \/ k = Len(s) + 1 /\ t[k] = e
  /\ \A k \in 1..Len(s) : k \in 1..Len(t) /\ t[k] = s[k]
  /\ Len(s) + 1 \in 1..Len(t) /\ t[Len(s) + 1] = e

LEMMA AppendIsLonger ==
  ASSUME NEW s \in Seq(Entry), NEW e \in Entry
  PROVE  Longer(s, e, Append(s, e))
<1>1. PICK t : t = Append(s, e)
  BY Zenon
<1>2. /\ t \in Seq(Entry) /\ Len(t) = Len(s) + 1 /\ t[Len(s) + 1] = e
      /\ \A k \in 1..Len(s) : t[k] = s[k]
  BY <1>1, AppendProperties
<1>3. Longer(s, e, t)
  BY <1>2 DEF Longer
<1> QED BY <1>1, <1>3, Zenon

(* What is in an inbox stays there, and Submit adds one entry.             *)
Adds(c, id, r) ==
  /\ inbox' \in [Clients -> Seq(Entry)]
  /\ \A d \in Clients : \A k \in 1..Len(inbox'[d]) :
       \/ k \in 1..Len(inbox[d]) /\ inbox'[d][k] = inbox[d][k]
       \/ /\ d = c /\ k = Len(inbox[c]) + 1
          /\ inbox'[d][k].id = id /\ (inbox'[d][k].retained <=> r)
  /\ \A d \in Clients : \A k \in 1..Len(inbox[d]) :
       k \in 1..Len(inbox'[d]) /\ inbox'[d][k] = inbox[d][k]
  /\ \A d \in Clients : Live(d) \subseteq Live(d)'
  /\ ~r => id \in Live(c)'

LEMMA Submitted ==
  ASSUME inbox \in [Clients -> Seq(Entry)], NEW c \in Clients, NEW id \in Nat,
         NEW r \in BOOLEAN, Submit(c, id, r)
  PROVE  Adds(c, id, r)
<1> DEFINE e == [id |-> id, retained |-> r]
<1>1. e \in Entry /\ e.id = id /\ e.retained = r
  BY Zenon DEF Entry
<1>2. inbox' = [inbox EXCEPT ![c] = Append(inbox[c], e)]
  BY DEF Submit
<1> HIDE DEF e
<1>3. inbox'[c] = Append(inbox[c], e) /\ \A d \in Clients \ {c} : inbox'[d] = inbox[d]
  BY <1>2, Zenon
<1>4. /\ inbox'[c] \in Seq(Entry)
      /\ \A k \in 1..Len(inbox'[c]) : \/ k \in 1..Len(inbox[c]) /\ inbox'[c][k] = inbox[c][k]
                                      \/ k = Len(inbox[c]) + 1 /\ inbox'[c][k] = e
      /\ \A k \in 1..Len(inbox[c]) : k \in 1..Len(inbox'[c]) /\ inbox'[c][k] = inbox[c][k]
      /\ Len(inbox[c]) + 1 \in 1..Len(inbox'[c]) /\ inbox'[c][Len(inbox[c]) + 1] = e
  <2>1. Longer(inbox[c], e, inbox'[c])
    BY <1>1, <1>3, AppendIsLonger, Zenon
  <2> QED BY <2>1, Zenon DEF Longer
<1>5. inbox' \in [Clients -> Seq(Entry)]
  BY <1>2, <1>3, <1>4, Zenon
<1>6. \A d \in Clients : \A k \in 1..Len(inbox'[d]) :
        \/ k \in 1..Len(inbox[d]) /\ inbox'[d][k] = inbox[d][k]
        \/ d = c /\ k = Len(inbox[c]) + 1 /\ inbox'[d][k] = e
  BY <1>3, <1>4, Zenon
<1>7. \A d \in Clients : \A k \in 1..Len(inbox[d]) :
        k \in 1..Len(inbox'[d]) /\ inbox'[d][k] = inbox[d][k]
  BY <1>3, <1>4, Zenon
<1>9. \A d \in Clients : Live(d) \subseteq Live(d)'
  BY <1>7, ZenonT(60) DEF Live
<1>10. ~r => id \in Live(c)'
  BY <1>1, <1>4, Zenon DEF Live
<1> QED BY <1>1, <1>5, <1>6, <1>7, <1>9, <1>10, Zenon DEF Adds

----------------------------------------------------------------------------
(* Steps that leave parts of the state alone                               *)

LEMMA TableKept ==
  ASSUME TableInv, UNCHANGED <<heap, subs, wildcards, nsub>>
  PROVE  TableInv'
BY Zenon DEF TableInv, InHeap, Cap

(* The slices that count were there before.                                *)
LEMMA OwnKept ==
  ASSUME OwnInv, UNCHANGED <<heap, subs, ever>>,
         \A w \in Workers : Holds(w)' => /\ Holds(w)
                                         /\ res'[w] = res[w]
                                         /\ msg'[w] = msg[w]
  PROVE  OwnInv'
<1>1. PICK owner \in [1..Len(heap) -> Names] : Owned(owner)
  BY DEF OwnInv
<1>2. Owned(owner)'
  BY <1>1, Zenon DEF Owned, Entitled
<1> QED BY <1>1, <1>2 DEF OwnInv

LEMMA WantsKept ==
  ASSUME WantsInv, UNCHANGED <<heap, subs, wants>>
  PROVE  WantsInv'
BY Zenon DEF WantsInv

(* Workers that hold a slice still do, and nobody begins a lookup.         *)
LEMMA LookKept ==
  ASSUME LookInv, UNCHANGED <<heap, subs>>,
         \A w \in Workers : Holds(w)' => Holds(w) /\ res'[w] = res[w] /\ msg'[w] = msg[w],
         \A w \in Workers : pc'[w] = "look" => pc[w] = "look"
  PROVE  LookInv'
<1> SUFFICES ASSUME NEW w \in Workers, pc'[w] = "look"
             PROVE  /\ subs[msg'[w].topic].n <= res'[w].n
                    /\ res'[w].a # 0 /\ res'[w].a # subs[msg'[w].topic].a
                         => \A v \in Workers \ {w} : Holds(v)' => res'[v].a # res'[w].a
  BY Zenon DEF LookInv
<1>1. pc[w] = "look" /\ res'[w] = res[w] /\ msg'[w] = msg[w]
  BY DEF Holds
<1> QED BY <1>1, ZenonT(60) DEF LookInv

(* As before, and no worker gets past a slot.                              *)
LEMMA DueKept ==
  ASSUME DueInv, UNCHANGED <<heap, subs, due>>, gone \subseteq gone',
         \A w \in Workers : Holds(w)' =>
           /\ pc'[w] = pc[w] /\ at'[w] = at[w] /\ res'[w] = res[w] /\ msg'[w] = msg[w],
         \A c \in Clients : Live(c) \subseteq Live(c)',
         due \in [Workers -> [exact : SUBSET Clients, wild : SUBSET Clients]]
  PROVE  DueInv'
<1> SUFFICES ASSUME NEW w \in Workers, Holds(w)', NEW c \in (due[w].exact)' \ gone'
             PROVE  Ahead(w, c)' \/ (pc'[w] = "fan" /\ msg'[w].id \in Live(c)')
  BY Zenon DEF DueInv
<1>1. Holds(w) /\ c \in due[w].exact \ gone /\ c \in Clients
  BY DEF Holds
<1>2. CASE Ahead(w, c)
  BY <1>2, Zenon DEF Ahead
<1>3. CASE pc[w] = "fan" /\ msg[w].id \in Live(c)
  BY <1>1, <1>3, Zenon
<1> QED BY <1>1, <1>2, <1>3, Zenon DEF DueInv

LEMMA MessageKept ==
  ASSUME MessageInv, UNCHANGED <<messages, posts, retain>>
  PROVE  MessageInv'
BY Zenon DEF MessageInv, IsPublished

LEMMA WorkerKept ==
  ASSUME WorkerInv, UNCHANGED <<heap, worker, due, messages>>
  PROVE  WorkerInv'
BY Zenon DEF WorkerInv, worker, IsPublished, Active, InHeap, Cap

LEMMA ClientKept ==
  ASSUME ClientInv, UNCHANGED <<asking, gone, inbox, messages, wants, ever>>
  PROVE  ClientInv'
BY Zenon DEF ClientInv

LEMMA AskKept ==
  ASSUME AskInv, UNCHANGED <<asking, wildcards, ever, inbox, messages>>
  PROVE  AskInv'
BY Zenon DEF AskInv, NoStrangeMessage

LEMMA StutterSubs == ASSUME SubsInv, UNCHANGED vars PROVE SubsInv'
<1>1. /\ UNCHANGED <<heap, subs, wildcards, nsub>> /\ UNCHANGED <<messages, posts, retain>>
      /\ UNCHANGED <<heap, worker, due, messages>>
      /\ UNCHANGED <<asking, gone, inbox, messages, wants, ever>>
  BY Zenon DEF vars, worker
<1>2. \A w \in Workers : Holds(w)' =>
        /\ Holds(w) /\ pc'[w] = pc[w] /\ at'[w] = at[w] /\ res'[w] = res[w] /\ msg'[w] = msg[w]
  BY <1>1, Zenon DEF Holds, worker
<1>3. \A c \in Clients : Live(c) \subseteq Live(c)'
  BY <1>1, Zenon DEF Live
<1>4. TableInv' /\ MessageInv' /\ WorkerInv' /\ ClientInv' /\ AskInv' /\ WantsInv'
  BY <1>1, TableKept, MessageKept, WorkerKept, ClientKept, AskKept, WantsKept, Zenon DEF SubsInv
<1>5. OwnInv'
  BY <1>1, <1>2, OwnKept, Zenon DEF SubsInv
<1>6. LookInv'
  BY <1>1, <1>2, LookKept, Zenon DEF SubsInv, worker
<1>7. DueInv'
  BY <1>1, <1>2, <1>3, DueKept, Zenon DEF SubsInv, WorkerInv
<1> QED BY <1>4, <1>5, <1>6, <1>7 DEF SubsInv

----------------------------------------------------------------------------
(* One lemma for each action                                               *)

LEMMA PublishSubs ==
  ASSUME SubsInv, NEW t \in Published, NEW kind \in Kinds, Publish(t, kind)
  PROVE  SubsInv'
<1>0. TableInv /\ MessageInv /\ WorkerInv /\ ClientInv /\ OwnInv /\ AskInv /\ WantsInv /\ LookInv /\ DueInv
  BY DEF SubsInv
<1>p. PICK m \in Message : /\ m = [id |-> Len(messages) + 1, topic |-> t, kind |-> kind]
                           /\ m.id = Len(messages) + 1
  <2>1. Len(messages) + 1 \in Nat
    BY <1>0, SMTT(30) DEF MessageInv
  <2>2. /\ [id |-> Len(messages) + 1, topic |-> t, kind |-> kind] \in Message
        /\ [id |-> Len(messages) + 1, topic |-> t, kind |-> kind].id = Len(messages) + 1
    BY <2>1, SMTT(30) DEF Message
  <2> QED BY <2>2, Zenon
<1>1. /\ messages' = Append(messages, m) /\ posts' = Append(posts, m)
      /\ Len(posts) < PostsLen
      /\ UNCHANGED <<heap, subs, wildcards, retain, pc, msg, res, at, asking, gone, inbox,
                     wants, ever, due, nsub>>
  BY <1>p, Zenon DEF Publish, table, worker
<1>2. /\ messages' \in Seq(Message) /\ Len(messages') = Len(messages) + 1
      /\ \A k \in 1..Len(messages) : messages'[k] = messages[k]
      /\ messages'[Len(messages) + 1] = m
      /\ posts' \in Seq(Message) /\ Len(posts') = Len(posts) + 1
      /\ \A k \in 1..Len(posts) : posts'[k] = posts[k]
      /\ posts'[Len(posts) + 1] = m
      /\ Len(messages) \in Nat /\ Len(posts) \in Nat
  BY <1>0, <1>1, AppendProperties, SMTT(30) DEF MessageInv
<1>3. \A x : IsPublished(x) => IsPublished(x)'
  BY <1>2, SMTT(30) DEF IsPublished
<1>4. MessageInv'
  <2>1. \A k \in 1..Len(messages') : messages'[k].id = k
    <3>1. \A k \in 1..Len(messages') : k \in 1..Len(messages) \/ k = Len(messages) + 1
      BY <1>2, SMTT(30)
    <3> QED BY <1>0, <1>2, <1>p, <3>1, Zenon DEF MessageInv
  <2>2. Len(posts') <= PostsLen
    BY <1>1, <1>2, SubscriptionsAssumption, SMTT(30)
  <2>3. IsPublished(m)'
    BY <1>2, <1>p, SMTT(30) DEF IsPublished
  <2>4. \A k \in 1..Len(posts') : IsPublished(posts[k])'
    <3> SUFFICES ASSUME NEW k \in 1..Len(posts') PROVE IsPublished(posts[k])'
      OBVIOUS
    <3>1. CASE k \in 1..Len(posts)
      BY <1>0, <1>2, <1>3, <3>1, Zenon DEF MessageInv
    <3>2. CASE k = Len(posts) + 1
      BY <1>2, <2>3, <3>2, Zenon
    <3> QED BY <1>2, <3>1, <3>2, SMTT(30)
  <2>5. \A u \in Names : retain'[u] # 0 => /\ retain'[u] \in 1..Len(messages')
                                           /\ messages'[retain'[u]].topic = u
    BY <1>0, <1>1, <1>2, SMTT(30) DEF MessageInv
  <2> QED BY <1>0, <1>1, <1>2, <2>1, <2>2, <2>4, <2>5, Zenon DEF MessageInv
<1>5. WorkerInv'
  BY <1>0, <1>1, <1>3, Zenon DEF WorkerInv, Active, InHeap, Cap
<1>6. ClientInv'
  <2>1. \A c \in Clients : \A k \in 1..Len(inbox'[c]) : inbox'[c][k].id \in 1..Len(messages')
    BY <1>0, <1>1, <1>2, SMTT(30) DEF ClientInv
  <2> QED BY <1>0, <1>1, <2>1, Zenon DEF ClientInv
<1>7. AskInv'
  <2>1. \A c \in Clients : \A k \in 1..Len(inbox[c]) :
          messages'[inbox[c][k].id] = messages[inbox[c][k].id]
    BY <1>0, <1>2, Zenon DEF ClientInv
  <2>2. NoStrangeMessage'
    BY <1>0, <1>1, <2>1, ZenonT(60) DEF AskInv, NoStrangeMessage
  <2> QED BY <1>0, <1>1, <2>2, ZenonT(60) DEF AskInv
<1>8. TableInv' /\ WantsInv'
  BY <1>0, <1>1, TableKept, WantsKept, Zenon
<1>9. \A w \in Workers : Holds(w)' =>
        /\ Holds(w) /\ pc'[w] = pc[w] /\ at'[w] = at[w] /\ res'[w] = res[w] /\ msg'[w] = msg[w]
  BY <1>1, Zenon DEF Holds
<1>10. OwnInv' /\ LookInv'
  BY <1>0, <1>1, <1>9, OwnKept, LookKept, Zenon
<1>11. DueInv'
  <2>1. \A c \in Clients : Live(c) \subseteq Live(c)'
    BY <1>1, Zenon DEF Live
  <2> QED BY <1>0, <1>1, <1>9, <2>1, DueKept, Zenon DEF WorkerInv
<1> QED BY <1>4, <1>5, <1>6, <1>7, <1>8, <1>10, <1>11 DEF SubsInv

LEMMA TakePostSubs == ASSUME SubsInv, NEW w \in Workers, TakePost(w) PROVE SubsInv'
<1>0. TableInv /\ MessageInv /\ WorkerInv /\ ClientInv /\ OwnInv /\ AskInv /\ WantsInv /\ LookInv /\ DueInv
  BY DEF SubsInv
<1>1. /\ pc[w] = "idle" /\ posts # <<>>
      /\ msg' = [msg EXCEPT ![w] = Head(posts)] /\ posts' = Tail(posts)
      /\ pc' = [pc EXCEPT ![w] = "got"]
      /\ UNCHANGED <<heap, subs, wildcards, retain, res, at, asking, gone, inbox, messages,
                     wants, ever, due, nsub>>
  BY DEF TakePost, table, known
<1>2. /\ Head(posts) \in Message /\ IsPublished(Head(posts))
      /\ posts' \in Seq(Message) /\ Len(posts') <= Len(posts) /\ Len(posts) \in Nat
      /\ \A k \in 1..Len(posts') : k + 1 \in 1..Len(posts) /\ posts'[k] = posts[k + 1]
  BY <1>0, <1>1, HeadTailProperties, SMTT(30) DEF MessageInv
<1>3. MessageInv'
  <2>1. Len(posts') <= PostsLen
    BY <1>0, <1>2, SubscriptionsAssumption, SMTT(30) DEF MessageInv
  <2>2. \A k \in 1..Len(posts') : IsPublished(posts[k])'
    <3> SUFFICES ASSUME NEW k \in 1..Len(posts') PROVE IsPublished(posts[k])'
      OBVIOUS
    <3>1. k + 1 \in 1..Len(posts) /\ posts'[k] = posts[k + 1]
      BY <1>2, Zenon
    <3>2. IsPublished(posts[k + 1])
      BY <1>0, <3>1 DEF MessageInv
    <3> QED BY <1>1, <3>1, <3>2, Zenon DEF IsPublished
  <2> QED BY <1>0, <1>1, <1>2, <2>1, <2>2, Zenon DEF MessageInv, IsPublished
<1>4. /\ \A v \in Workers \ {w} : pc'[v] = pc[v] /\ msg'[v] = msg[v]
      /\ pc'[w] = "got" /\ msg'[w] = Head(posts)
  BY <1>0, <1>1, Zenon DEF WorkerInv
<1>5. WorkerInv'
  <2>1. /\ pc' \in [Workers -> {"idle", "got", "look", "fan", "dead"}]
        /\ msg' \in [Workers -> Message \cup {NoMessage}]
    BY <1>0, <1>1, <1>2, Zenon DEF WorkerInv
  <2>2. \A v \in Workers : IsPublished(msg[v])' \/ (msg'[v] = NoMessage /\ ~Active(v)')
    BY <1>0, <1>1, <1>2, <1>4, Zenon DEF WorkerInv, IsPublished, Active
  <2>3. \A u, v \in Workers : pc'[u] = "look" /\ pc'[v] = "look" => u = v
    BY <1>0, <1>4, SMTT(30) DEF WorkerInv
  <2> QED BY <1>0, <1>1, <2>1, <2>2, <2>3, Zenon DEF WorkerInv, InHeap, Cap
<1>6. ClientInv' /\ TableInv' /\ AskInv' /\ WantsInv'
  BY <1>0, <1>1, ClientKept, TableKept, AskKept, WantsKept, ZenonT(60)
<1>7. \A v \in Workers : Holds(v)' =>
        /\ Holds(v) /\ pc'[v] = pc[v] /\ at'[v] = at[v] /\ res'[v] = res[v] /\ msg'[v] = msg[v]
  BY <1>1, <1>4, SMTT(30) DEF Holds
<1>8. OwnInv' /\ LookInv'
  BY <1>0, <1>1, <1>4, <1>7, OwnKept, LookKept, SMTT(30) DEF Holds
<1>9. DueInv'
  <2>1. \A c \in Clients : Live(c) \subseteq Live(c)'
    BY <1>1, Zenon DEF Live
  <2> QED BY <1>0, <1>1, <1>7, <2>1, DueKept, Zenon DEF WorkerInv
<1> QED BY <1>3, <1>5, <1>6, <1>8, <1>9 DEF SubsInv

(* A client is sent what it is entitled to.                                *)
LEMMA SubmitKept ==
  ASSUME ClientInv, AskInv, NEW c \in Clients, NEW id \in 1..Len(messages), NEW r \in BOOLEAN,
         MessageInv, Submit(c, id, r), Entitled(c, messages[id].topic),
         UNCHANGED <<messages, ever>>
  PROVE  /\ inbox' \in [Clients -> Seq(Entry)]
         /\ \A d \in Clients : \A k \in 1..Len(inbox'[d]) : inbox'[d][k].id \in 1..Len(messages)
         /\ NoStrangeMessage'
<1>0. id \in Nat /\ inbox \in [Clients -> Seq(Entry)]
  BY SMTT(30) DEF ClientInv, MessageInv
<1>1. /\ inbox' \in [Clients -> Seq(Entry)]
      /\ \A d \in Clients : \A k \in 1..Len(inbox'[d]) :
           \/ k \in 1..Len(inbox[d]) /\ inbox'[d][k] = inbox[d][k]
           \/ d = c /\ inbox'[d][k].id = id
  <2>1. Adds(c, id, r)
    BY <1>0, Submitted, Zenon
  <2> QED BY <2>1, Zenon DEF Adds
<1>2. \A d \in Clients : \A k \in 1..Len(inbox'[d]) : inbox'[d][k].id \in 1..Len(messages)
  BY <1>1, Zenon DEF ClientInv
<1>3. NoStrangeMessage'
  <2> SUFFICES ASSUME NEW d \in Clients, NEW k \in 1..Len(inbox'[d])
               PROVE  Entitled(d, messages[inbox'[d][k].id].topic)
    BY Zenon DEF NoStrangeMessage, Entitled
  <2>1. CASE k \in 1..Len(inbox[d]) /\ inbox'[d][k] = inbox[d][k]
    BY <2>1, Zenon DEF AskInv, NoStrangeMessage, Entitled
  <2>2. CASE d = c /\ inbox'[d][k].id = id
    BY <2>2, Zenon
  <2> QED BY <1>1, <2>1, <2>2, Zenon
<1> QED BY <1>1, <1>2, <1>3

(* A worker goes on, with the same message and slice if it still has any.  *)
LEMMA WorkerMoved ==
  ASSUME WorkerInv, NEW w \in Workers, NEW q \in {"idle", "fan", "dead"},
         NEW m, m = msg[w] \/ (m = NoMessage /\ q = "idle"),
         q = "fan" => pc[w] = "look",
         pc' = [pc EXCEPT ![w] = q], msg' = [msg EXCEPT ![w] = m],
         at' = at \/ at' = [at EXCEPT ![w] = 1],
         UNCHANGED <<heap, res, due, messages>>
  PROVE  /\ WorkerInv'
         /\ \A v \in Workers : Holds(v)' =>
              Holds(v) /\ res'[v] = res[v] /\ msg'[v] = msg[v]
         /\ \A v \in Workers : pc'[v] = "look" => pc[v] = "look"
         /\ \A v \in Workers \ {w} : pc'[v] = pc[v] /\ at'[v] = at[v] /\ msg'[v] = msg[v]
         /\ pc'[w] = q
<1>1. /\ \A v \in Workers \ {w} : pc'[v] = pc[v] /\ at'[v] = at[v] /\ msg'[v] = msg[v]
      /\ pc'[w] = q /\ msg'[w] = m
  BY Zenon DEF WorkerInv
<1>2. /\ pc' \in [Workers -> {"idle", "got", "look", "fan", "dead"}]
      /\ msg' \in [Workers -> Message \cup {NoMessage}]
      /\ at' \in [Workers -> Nat \ {0}]
  <2>1. m \in Message \cup {NoMessage}
    BY Zenon DEF WorkerInv
  <2>2. at' \in [Workers -> Nat \ {0}]
    BY SMTT(30) DEF WorkerInv
  <2> QED BY <2>1, <2>2, Zenon DEF WorkerInv
<1>3. \A v \in Workers : IsPublished(msg[v])' \/ (msg'[v] = NoMessage /\ ~Active(v)')
  <2> SUFFICES ASSUME NEW v \in Workers
               PROVE  IsPublished(msg[v])' \/ (msg'[v] = NoMessage /\ ~Active(v)')
    OBVIOUS
  <2>1. CASE v # w
    BY <1>1, <2>1, Zenon DEF WorkerInv, IsPublished, Active
  <2>2. CASE v = w /\ m = NoMessage /\ q = "idle"
    BY <1>1, <2>2, SMTT(30) DEF Active
  <2>3. CASE v = w /\ m = msg[w]
    <3>1. q \in {"idle", "dead"} \/ Active(w)
      BY SMTT(30) DEF Active
    <3>2. q \in {"idle", "dead"} => ~Active(w)'
      BY <1>1, SMTT(30) DEF Active
    <3> QED BY <1>1, <2>3, <3>1, <3>2, Zenon DEF WorkerInv, IsPublished
  <2> QED BY <2>1, <2>2, <2>3
<1>4. \A v \in Workers : Holds(v)' => Holds(v) /\ res'[v] = res[v] /\ msg'[v] = msg[v]
  BY <1>1, SMTT(30) DEF Holds
<1>5. \A v \in Workers : pc'[v] = "look" => pc[v] = "look"
  BY <1>1, SMTT(30)
<1>6. \A u, v \in Workers : pc'[u] = "look" /\ pc'[v] = "look" => u = v
  BY <1>5, Zenon DEF WorkerInv
<1>7. WorkerInv'
  BY <1>2, <1>3, <1>6, Zenon DEF WorkerInv, InHeap, Cap
<1> QED BY <1>1, <1>4, <1>5, <1>7

LEMMA ClearRetainSubs == ASSUME SubsInv, NEW w \in Workers, ClearRetain(w) PROVE SubsInv'
<1>0. TableInv /\ MessageInv /\ WorkerInv /\ ClientInv /\ OwnInv /\ AskInv /\ WantsInv /\ LookInv /\ DueInv
  BY DEF SubsInv
<1>1. /\ pc[w] = "got"
      /\ retain' = [retain EXCEPT ![msg[w].topic] = 0]
      /\ pc' = [pc EXCEPT ![w] = "dead"]
      /\ UNCHANGED <<heap, subs, wildcards, posts, msg, res, at, asking, gone, inbox, messages,
                     wants, ever, due, nsub>>
  BY Zenon DEF ClearRetain, table, known
<1>2. MessageInv'
  <2>1. /\ retain' \in [Names -> Nat]
        /\ \A t \in Names : retain'[t] = 0 \/ retain'[t] = retain[t]
    <3>1. 0 \in Nat
      OBVIOUS
    <3> QED BY <1>0, <1>1, <3>1, Zenon DEF MessageInv
  <2> QED BY <1>0, <1>1, <2>1, Zenon DEF MessageInv, IsPublished
<1>3. /\ WorkerInv'
      /\ \A v \in Workers : Holds(v)' => Holds(v) /\ res'[v] = res[v] /\ msg'[v] = msg[v]
      /\ \A v \in Workers : pc'[v] = "look" => pc[v] = "look"
      /\ \A v \in Workers \ {w} : pc'[v] = pc[v] /\ at'[v] = at[v] /\ msg'[v] = msg[v]
      /\ pc'[w] = "dead"
  <2>1. msg' = [msg EXCEPT ![w] = msg[w]]
    BY <1>0, <1>1, Zenon DEF WorkerInv
  <2> QED BY <1>0, <1>1, <2>1, WorkerMoved, Zenon
<1>4. TableInv' /\ ClientInv' /\ AskInv' /\ WantsInv'
  BY <1>0, <1>1, TableKept, ClientKept, AskKept, WantsKept, Zenon
<1>5. OwnInv' /\ LookInv'
  BY <1>0, <1>1, <1>3, OwnKept, LookKept, Zenon
<1>6. DueInv'
  <2>1. \A c \in Clients : Live(c) \subseteq Live(c)'
    BY <1>1, Zenon DEF Live
  <2>2. ~Holds(w)'
    BY <1>3, SMTT(30) DEF Holds
  <2> QED BY <1>0, <1>1, <1>3, <2>1, <2>2, DueKept, Zenon DEF WorkerInv
<1> QED BY <1>2, <1>3, <1>4, <1>5, <1>6 DEF SubsInv

LEMMA FinishPostSubs == ASSUME SubsInv, NEW w \in Workers, FinishPost(w) PROVE SubsInv'
<1>0. TableInv /\ MessageInv /\ WorkerInv /\ ClientInv /\ OwnInv /\ AskInv /\ WantsInv /\ LookInv /\ DueInv
  BY DEF SubsInv
<1>1. /\ pc[w] = "fan"
      /\ retain' \in {retain, [retain EXCEPT ![msg[w].topic] = msg[w].id]}
      /\ pc' = [pc EXCEPT ![w] = "idle"] /\ msg' = [msg EXCEPT ![w] = NoMessage]
      /\ UNCHANGED <<heap, subs, wildcards, posts, res, at, asking, gone, inbox, messages,
                     wants, ever, due, nsub>>
  BY Zenon DEF FinishPost, FannedOut, Keep, table, known
<1>2. MessageInv'
  <2>1. IsPublished(msg[w])
    BY <1>0, <1>1, SMTT(30) DEF WorkerInv, Active
  <2>2. retain' \in [Names -> Nat]
    BY <1>0, <1>1, <2>1, SMTT(30) DEF MessageInv, IsPublished
  <2>3. \A t \in Names : retain'[t] # 0 => /\ retain'[t] \in 1..Len(messages)
                                           /\ messages[retain'[t]].topic = t
    <3>1. \A t \in Names : retain'[t] = retain[t] \/ (t = msg[w].topic /\ retain'[t] = msg[w].id)
      BY <1>0, <1>1, Zenon DEF MessageInv
    <3> QED BY <1>0, <2>1, <3>1, Zenon DEF MessageInv, IsPublished
  <2> QED BY <1>0, <1>1, <2>2, <2>3, Zenon DEF MessageInv, IsPublished
<1>3. /\ WorkerInv'
      /\ \A v \in Workers : Holds(v)' => Holds(v) /\ res'[v] = res[v] /\ msg'[v] = msg[v]
      /\ \A v \in Workers : pc'[v] = "look" => pc[v] = "look"
      /\ \A v \in Workers \ {w} : pc'[v] = pc[v] /\ at'[v] = at[v] /\ msg'[v] = msg[v]
      /\ pc'[w] = "idle"
  BY <1>0, <1>1, WorkerMoved, Zenon
<1>4. TableInv' /\ ClientInv' /\ AskInv' /\ WantsInv'
  BY <1>0, <1>1, TableKept, ClientKept, AskKept, WantsKept, Zenon
<1>5. OwnInv' /\ LookInv'
  BY <1>0, <1>1, <1>3, OwnKept, LookKept, Zenon
<1>6. DueInv'
  <2>1. \A c \in Clients : Live(c) \subseteq Live(c)'
    BY <1>1, Zenon DEF Live
  <2>2. ~Holds(w)'
    BY <1>3, SMTT(30) DEF Holds
  <2> QED BY <1>0, <1>1, <1>3, <2>1, <2>2, DueKept, Zenon DEF WorkerInv
<1> QED BY <1>2, <1>3, <1>4, <1>5, <1>6 DEF SubsInv

LEMMA SendRetainSubs == ASSUME SubsInv, NEW c \in Clients, SendRetain(c) PROVE SubsInv'
<1>0. TableInv /\ MessageInv /\ WorkerInv /\ ClientInv /\ OwnInv /\ AskInv /\ WantsInv /\ LookInv /\ DueInv
  BY DEF SubsInv
<1>1. /\ asking[c] # <<>> /\ asking' = [asking EXCEPT ![c] = <<>>]
      /\ IF c \notin gone /\ ~IsWildcard(asking[c]) /\ retain[asking[c]] # 0
         THEN Submit(c, retain[asking[c]], TRUE) ELSE UNCHANGED inbox
      /\ UNCHANGED <<heap, subs, wildcards, retain, posts, pc, msg, res, at, gone, messages,
                     wants, ever, due, nsub>>
  BY Zenon DEF SendRetain, table, worker, known
<1>2. /\ asking' \in [Clients -> Filters \cup {<<>>}]
      /\ \A d \in Clients : asking'[d] # <<>> => asking'[d] = asking[d]
  BY <1>0, <1>1, Zenon DEF ClientInv
<1>3. /\ inbox' \in [Clients -> Seq(Entry)]
      /\ \A d \in Clients : \A k \in 1..Len(inbox'[d]) : inbox'[d][k].id \in 1..Len(messages)
      /\ NoStrangeMessage'
      /\ \A d \in Clients : Live(d) \subseteq Live(d)'
  <2>1. CASE c \notin gone /\ ~IsWildcard(asking[c]) /\ retain[asking[c]] # 0
    <3>1. PICK t \in Names : t = asking[c] /\ t \in ever[c]
      BY <1>0, <1>1, <2>1, NameFacts, Zenon DEF ClientInv, AskInv
    <3>2. PICK id \in 1..Len(messages) : id = retain[t] /\ messages[id].topic = t
      BY <1>0, <2>1, <3>1, Zenon DEF MessageInv
    <3>3. Submit(c, id, TRUE)
      BY <1>1, <2>1, <3>1, <3>2, Zenon
    <3>4. Entitled(c, messages[id].topic)
      BY <3>1, <3>2, Zenon DEF Entitled
    <3>5. id \in Nat /\ inbox \in [Clients -> Seq(Entry)]
      BY <1>0, SMTT(30) DEF ClientInv
    <3>6. \A d \in Clients : Live(d) \subseteq Live(d)'
      <4>1. Adds(c, id, TRUE)
        BY <3>3, <3>5, Submitted, Zenon
      <4> QED BY <4>1 DEF Adds
    <3>7. TRUE \in BOOLEAN /\ UNCHANGED <<messages, ever>>
      BY <1>1
    <3> QED BY <1>0, <3>3, <3>4, <3>6, <3>7, SubmitKept, Zenon
  <2>2. CASE ~(c \notin gone /\ ~IsWildcard(asking[c]) /\ retain[asking[c]] # 0)
    <3>1. UNCHANGED inbox
      BY <1>1, <2>2, Zenon
    <3>2. \A d \in Clients : Live(d) \subseteq Live(d)'
      BY <3>1, Zenon DEF Live
    <3> QED BY <1>0, <1>1, <3>1, <3>2, Zenon DEF ClientInv, AskInv, NoStrangeMessage
  <2> QED BY <2>1, <2>2, Zenon
<1>4. ClientInv'
  BY <1>0, <1>1, <1>2, <1>3, Zenon DEF ClientInv
<1>5. AskInv'
  BY <1>0, <1>1, <1>2, <1>3, Zenon DEF AskInv
<1>6. TableInv' /\ MessageInv' /\ WantsInv' /\ WorkerInv'
  <2>1. UNCHANGED worker
    BY <1>1 DEF worker
  <2> QED BY <1>0, <1>1, <2>1, TableKept, MessageKept, WantsKept, WorkerKept, Zenon
<1>7. \A v \in Workers : Holds(v)' =>
        /\ Holds(v) /\ pc'[v] = pc[v] /\ at'[v] = at[v] /\ res'[v] = res[v] /\ msg'[v] = msg[v]
  BY <1>1, Zenon DEF Holds
<1>8. OwnInv' /\ LookInv'
  BY <1>0, <1>1, <1>7, OwnKept, LookKept, Zenon
<1>9. DueInv'
  BY <1>0, <1>1, <1>3, <1>7, DueKept, Zenon DEF WorkerInv
<1> QED BY <1>4, <1>5, <1>6, <1>8, <1>9 DEF SubsInv

LEMMA LookedUpSubs == ASSUME SubsInv, NEW w \in Workers, LookedUp(w) PROVE SubsInv'
<1>0. TableInv /\ MessageInv /\ WorkerInv /\ ClientInv /\ OwnInv /\ AskInv /\ WantsInv /\ LookInv /\ DueInv
  BY DEF SubsInv
<1>1. /\ pc[w] = "look"
      /\ at' = [at EXCEPT ![w] = 1] /\ pc' = [pc EXCEPT ![w] = "fan"]
      /\ UNCHANGED <<heap, subs, wildcards, retain, posts, msg, res, asking, gone, inbox,
                     messages, wants, ever, due, nsub>>
  BY Zenon DEF LookedUp, table, known
<1>2. /\ WorkerInv'
      /\ \A v \in Workers : Holds(v)' => Holds(v) /\ res'[v] = res[v] /\ msg'[v] = msg[v]
      /\ \A v \in Workers : pc'[v] = "look" => pc[v] = "look"
      /\ \A v \in Workers \ {w} : pc'[v] = pc[v] /\ at'[v] = at[v] /\ msg'[v] = msg[v]
      /\ pc'[w] = "fan"
  <2>1. msg' = [msg EXCEPT ![w] = msg[w]]
    BY <1>0, <1>1, Zenon DEF WorkerInv
  <2> QED BY <1>0, <1>1, <2>1, WorkerMoved, Zenon
<1>3. TableInv' /\ MessageInv' /\ ClientInv' /\ AskInv' /\ WantsInv'
  BY <1>0, <1>1, TableKept, MessageKept, ClientKept, AskKept, WantsKept, Zenon
<1>4. OwnInv' /\ LookInv'
  BY <1>0, <1>1, <1>2, OwnKept, LookKept, Zenon
<1>5. DueInv'
  <2> SUFFICES ASSUME NEW v \in Workers, Holds(v)', NEW c \in due[v].exact \ gone
               PROVE  Ahead(v, c)' \/ (pc'[v] = "fan" /\ msg'[v].id \in Live(c)')
    BY <1>1, Zenon DEF DueInv
  <2>1. Ahead(v, c) \/ (pc[v] = "fan" /\ msg[v].id \in Live(c))
    BY <1>0, <1>2, Zenon DEF DueInv
  <2>2. CASE v = w
    <3>1. Ahead(w, c) /\ at'[w] = 1
      BY <1>0, <1>1, <2>1, <2>2, SMTT(30) DEF WorkerInv
    <3>2. \E k \in 1..res[w].n : /\ heap[res[w].a][k] = c
                                 /\ res[w].a = subs[msg[w].topic].a => k <= subs[msg[w].topic].n
      BY <1>1, <3>1, SMTT(30) DEF Ahead
    <3> QED BY <1>1, <1>2, <2>2, <3>1, <3>2, Zenon DEF Ahead
  <2>3. CASE v # w
    BY <1>1, <1>2, <2>1, <2>3, ZenonT(60) DEF Ahead, Live
  <2> QED BY <2>2, <2>3
<1> QED BY <1>2, <1>3, <1>4, <1>5 DEF SubsInv

LEMMA DeliverSubs == ASSUME SubsInv, NEW w \in Workers, Deliver(w) PROVE SubsInv'
<1>0. TableInv /\ MessageInv /\ WorkerInv /\ ClientInv /\ OwnInv /\ AskInv /\ WantsInv /\ LookInv /\ DueInv
  BY DEF SubsInv
<1>s. PICK slot : slot = heap[res[w].a][at[w]]
  OBVIOUS
<1>1. /\ pc[w] = "fan" /\ at[w] <= res[w].n
      /\ IF slot \in Clients \ gone THEN Submit(slot, msg[w].id, FALSE) ELSE UNCHANGED inbox
      /\ at' = [at EXCEPT ![w] = at[w] + 1]
      /\ UNCHANGED <<heap, subs, wildcards, retain, posts, pc, msg, res, asking, gone,
                     messages, wants, ever, due, nsub>>
  BY <1>s, Zenon DEF Deliver, table, known
<1>2. /\ IsPublished(msg[w]) /\ msg[w].id \in 1..Len(messages) /\ msg[w].id \in Nat
      /\ inbox \in [Clients -> Seq(Entry)] /\ Holds(w)
  BY <1>0, <1>1, SMTT(30) DEF WorkerInv, Active, IsPublished, ClientInv, Holds
<1>3. slot \in Clients => Entitled(slot, messages[msg[w].id].topic)
  <2> HAVE slot \in Clients
  <2>1. PICK owner \in [1..Len(heap) -> Names] : Owned(owner)
    BY <1>0, Zenon DEF OwnInv
  <2>2. /\ res[w].a # 0 /\ res[w].a \in 1..Len(heap) /\ at[w] \in 1..Len(heap[res[w].a])
    BY <1>0, <1>1, SMTT(30) DEF WorkerInv, InHeap, Cap, Slice, TableInv, Heap
  <2>3. slot # Nil
    BY NameFacts
  <2>4. owner[res[w].a] = msg[w].topic /\ Entitled(slot, owner[res[w].a])
    BY <1>2, <1>s, <2>1, <2>2, <2>3, Zenon DEF Owned
  <2> QED BY <1>2, <2>4 DEF IsPublished
<1>4. /\ inbox' \in [Clients -> Seq(Entry)]
      /\ \A d \in Clients : \A k \in 1..Len(inbox'[d]) : inbox'[d][k].id \in 1..Len(messages)
      /\ NoStrangeMessage'
      /\ \A d \in Clients : Live(d) \subseteq Live(d)'
      /\ slot \in Clients \ gone => msg[w].id \in Live(slot)'
  <2>1. CASE slot \in Clients \ gone
    <3>1. Submit(slot, msg[w].id, FALSE) /\ FALSE \in BOOLEAN /\ UNCHANGED <<messages, ever>>
      BY <1>1, <2>1, Zenon
    <3>2. /\ \A d \in Clients : Live(d) \subseteq Live(d)'
          /\ msg[w].id \in Live(slot)'
      <4>1. Adds(slot, msg[w].id, FALSE)
        BY <1>2, <2>1, <3>1, Submitted, Zenon
      <4> QED BY <4>1 DEF Adds
    <3> QED BY <1>0, <1>2, <1>3, <2>1, <3>1, <3>2, SubmitKept, Zenon
  <2>2. CASE slot \notin Clients \ gone
    <3>1. UNCHANGED inbox
      BY <1>1, <2>2, Zenon
    <3>2. \A d \in Clients : Live(d) \subseteq Live(d)'
      BY <3>1, Zenon DEF Live
    <3> QED BY <1>0, <1>1, <2>2, <3>1, <3>2, Zenon DEF ClientInv, AskInv, NoStrangeMessage
  <2> QED BY <2>1, <2>2
<1>5. ClientInv' /\ AskInv'
  BY <1>0, <1>1, <1>4, Zenon DEF ClientInv, AskInv
<1>6. WorkerInv'
  <2>1. at' \in [Workers -> Nat \ {0}]
    BY <1>0, <1>1, SMTT(30) DEF WorkerInv
  <2> QED BY <1>0, <1>1, <2>1, Zenon DEF WorkerInv, IsPublished, Active, InHeap, Cap
<1>7. TableInv' /\ MessageInv' /\ WantsInv'
  BY <1>0, <1>1, TableKept, MessageKept, WantsKept, Zenon
<1>8. \A v \in Workers : Holds(v)' => Holds(v) /\ res'[v] = res[v] /\ msg'[v] = msg[v]
  BY <1>1, Zenon DEF Holds
<1>9. OwnInv' /\ LookInv'
  BY <1>0, <1>1, <1>8, OwnKept, LookKept, Zenon
<1>10. DueInv'
  <2> SUFFICES ASSUME NEW v \in Workers, Holds(v)', NEW c \in due[v].exact \ gone
               PROVE  Ahead(v, c)' \/ (pc[v] = "fan" /\ msg[v].id \in Live(c)')
    BY <1>1, Zenon DEF DueInv
  <2>1. Ahead(v, c) \/ (pc[v] = "fan" /\ msg[v].id \in Live(c))
    BY <1>0, <1>8, Zenon DEF DueInv
  <2>2. c \in Clients
    BY <1>0 DEF WorkerInv
  <2>3. CASE msg[v].id \in Live(c) /\ pc[v] = "fan"
    BY <1>4, <2>2, <2>3, Zenon
  <2>4. CASE v # w /\ Ahead(v, c)
    <3>1. at'[v] = at[v]
      BY <1>0, <1>1, <2>4, Zenon DEF WorkerInv
    <3> QED BY <1>1, <2>4, <3>1, Zenon DEF Ahead
  <2>5. CASE v = w /\ Ahead(v, c)
    <3>1. PICK k \in at[w]..res[w].n :
            /\ heap[res[w].a][k] = c
            /\ res[w].a = subs[msg[w].topic].a => k <= subs[msg[w].topic].n
      BY <1>1, <2>5, Zenon DEF Ahead
    <3>2. CASE k = at[w]
      BY <1>1, <1>s, <1>4, <2>2, <2>5, <3>1, <3>2, Zenon
    <3>3. CASE k # at[w]
      <4>1. k \in at'[w]..res[w].n
        <5>1. at'[w] = at[w] + 1 /\ at[w] \in Nat
          BY <1>0, <1>1, SMTT(30) DEF WorkerInv
        <5> QED BY <3>1, <3>3, <5>1, SMTT(30)
      <4> QED BY <1>1, <2>5, <3>1, <4>1, Zenon DEF Ahead
    <3> QED BY <3>2, <3>3
  <2> QED BY <2>1, <2>3, <2>4, <2>5
<1> QED BY <1>5, <1>6, <1>7, <1>9, <1>10 DEF SubsInv

LEMMA SubscribersSubs == ASSUME SubsInv, NEW w \in Workers, Subscribers(w) PROVE SubsInv'
<1>0. TableInv /\ MessageInv /\ WorkerInv /\ ClientInv /\ OwnInv /\ AskInv /\ WantsInv /\ LookInv /\ DueInv
  BY DEF SubsInv
<1>1. PICK t, x : /\ t = msg[w].topic
                  /\ x = [exact |-> {c \in Clients : t \in wants[c]},
                          wild  |-> {c \in Clients : \E f \in wants[c] :
                                       IsWildcard(f) /\ Valid(f) /\ Covers(f, t)}]
                  /\ res' = [res EXCEPT ![w] = subs[t]] /\ due' = [due EXCEPT ![w] = x]
  BY Zenon DEF Subscribers
<1>2. /\ Unlocked /\ pc[w] = "got"
      /\ at' = [at EXCEPT ![w] = 1] /\ pc' = [pc EXCEPT ![w] = "look"]
      /\ UNCHANGED <<heap, subs, wildcards, retain, posts, msg, asking, gone, inbox, messages,
                     wants, ever, nsub>>
  BY Zenon DEF Subscribers, table, known
<1>3. /\ x \in [exact : SUBSET Clients, wild : SUBSET Clients]
      /\ \A c \in x.exact : c \in Clients /\ t \in wants[c]
  BY <1>1, SMTT(30)
<1>4. IsPublished(msg[w]) /\ t \in Names
  <2>1. IsPublished(msg[w])
    BY <1>0, <1>2, SMTT(30) DEF WorkerInv, Active
  <2>2. msg[w] \in Message
    BY <1>0, <2>1, PublishedIsMessage, Zenon
  <2>3. msg[w].topic \in Names
    BY <2>2, TopicIsName, Zenon
  <2> QED BY <1>1, <2>1, <2>3, Zenon
<1>5. /\ \A v \in Workers \ {w} : /\ pc'[v] = pc[v] /\ at'[v] = at[v] /\ res'[v] = res[v]
                                  /\ due'[v] = due[v] /\ pc[v] # "look"
      /\ pc'[w] = "look" /\ at'[w] = 1 /\ res'[w] = subs[t] /\ due'[w] = x
  BY <1>0, <1>1, <1>2, Zenon DEF WorkerInv, Unlocked
<1>6. WorkerInv'
  <2>1. /\ pc' \in [Workers -> {"idle", "got", "look", "fan", "dead"}]
        /\ due' \in [Workers -> [exact : SUBSET Clients, wild : SUBSET Clients]]
        /\ res' \in [Workers -> Slice]
    BY <1>0, <1>1, <1>2, <1>3, <1>4, Zenon DEF WorkerInv, TableInv
  <2>2. at' \in [Workers -> Nat \ {0}]
    BY <1>0, <1>2, SMTT(30) DEF WorkerInv
  <2>3. \A v \in Workers : InHeap(heap, res[v])'
    <3> SUFFICES ASSUME NEW v \in Workers PROVE InHeap(heap, res'[v])
      BY <1>2, Zenon DEF InHeap, Cap
    <3>1. CASE v = w
      BY <1>0, <1>4, <1>5, <3>1, Zenon DEF TableInv
    <3>2. CASE v # w
      BY <1>0, <1>5, <3>2, Zenon DEF WorkerInv
    <3> QED BY <3>1, <3>2
  <2>4. \A v \in Workers : IsPublished(msg[v])' \/ (msg'[v] = NoMessage /\ ~Active(v)')
    BY <1>0, <1>2, <1>4, <1>5, Zenon DEF WorkerInv, IsPublished, Active
  <2>5. \A u, v \in Workers : pc'[u] = "look" /\ pc'[v] = "look" => u = v
    BY <1>5, Zenon
  <2> QED BY <1>0, <1>2, <2>1, <2>2, <2>3, <2>4, <2>5, Zenon DEF WorkerInv
<1>7. TableInv' /\ MessageInv' /\ ClientInv' /\ AskInv' /\ WantsInv'
  BY <1>0, <1>2, TableKept, MessageKept, ClientKept, AskKept, WantsKept, Zenon
<1>8. OwnInv'
  <2>1. PICK owner \in [1..Len(heap) -> Names] : Owned(owner)
    BY <1>0 DEF OwnInv
  <2>2. \A v \in Workers : Holds(v)' /\ res'[v].a # 0 => owner[res'[v].a] = msg[v].topic
    <3> SUFFICES ASSUME NEW v \in Workers, Holds(v)', res'[v].a # 0
                 PROVE  owner[res'[v].a] = msg[v].topic
      OBVIOUS
    <3>1. CASE v = w
      <4>1. res'[v] = subs[t] /\ t = msg[v].topic
        BY <1>1, <1>5, <3>1
      <4>2. subs[t].a # 0 => owner[subs[t].a] = t
        BY <1>4, <2>1, Zenon DEF Owned
      <4> QED BY <4>1, <4>2, Zenon
    <3>2. CASE v # w
      BY <1>5, <2>1, <3>2, Zenon DEF Owned, Holds
    <3> QED BY <3>1, <3>2
  <2>3. Owned(owner)'
    BY <1>2, <2>1, <2>2, Zenon DEF Owned, Entitled
  <2> QED BY <1>2, <2>3 DEF OwnInv
<1>9. LookInv'
  <2> SUFFICES ASSUME NEW v \in Workers, pc'[v] = "look"
               PROVE  /\ subs'[msg'[v].topic].n <= res'[v].n
                      /\ res'[v].a = subs'[msg'[v].topic].a
    BY Zenon DEF LookInv
  <2>1. v = w
    BY <1>5, Zenon
  <2>2. subs[t].n <= subs[t].n
    BY <1>0, <1>4, SMTT(30) DEF TableInv, Slice
  <2> QED BY <1>1, <1>2, <1>5, <2>1, <2>2, Zenon
<1>10. DueInv'
  <2> SUFFICES ASSUME NEW v \in Workers, Holds(v)', NEW c \in due'[v].exact \ gone
               PROVE  Ahead(v, c)' \/ (pc'[v] = "fan" /\ msg[v].id \in Live(c)')
    BY <1>2, Zenon DEF DueInv
  <2>1. CASE v = w
    <3>1. c \in Clients /\ t \in wants[c] \cap Names
      BY <1>3, <1>4, <1>5, <2>1, Zenon
    <3>2. PICK k \in 1..subs[t].n : heap[subs[t].a][k] = c
      BY <1>0, <3>1, Zenon DEF WantsInv
    <3>3. k <= subs[t].n /\ pc'[w] # "fan"
      BY <1>0, <1>4, <1>5, <3>2, SMTT(30) DEF TableInv, Slice
    <3> QED BY <1>1, <1>2, <1>5, <2>1, <3>2, <3>3, ZenonT(60) DEF Ahead
  <2>2. CASE v # w
    <3>1. pc'[v] = pc[v] /\ at'[v] = at[v] /\ res'[v] = res[v] /\ due'[v] = due[v] /\ Holds(v)
      BY <1>5, <2>2, Zenon DEF Holds
    <3>2. Ahead(v, c) \/ (pc[v] = "fan" /\ msg[v].id \in Live(c))
      BY <1>0, <3>1, Zenon DEF DueInv
    <3> QED BY <1>2, <3>1, <3>2, Zenon DEF Ahead, Live
  <2> QED BY <2>1, <2>2
<1> QED BY <1>6, <1>7, <1>8, <1>9, <1>10 DEF SubsInv

(* A slice is within an array; append may write just past the end of its   *)
(* own slice and nowhere else.                                             *)
LEMMA SliceSlot ==
  ASSUME NEW h \in Heap, NEW z \in Slice, InHeap(h, z), NEW k \in 1..z.n
  PROVE  z.a # 0 /\ z.a \in 1..Len(h) /\ k \in 1..Len(h[z.a]) /\ k <= z.n
BY SMTT(30) DEF InHeap, Cap, Slice, Heap

Writes(h, s, x, h2, s2) ==
  /\ h2 \in Heap /\ s2 \in Slice /\ InHeap(h2, s2) /\ s2.n = s.n + 1
  /\ \A z \in Slice : InHeap(h, z) => InHeap(h2, z)
  /\ \A z \in Slice : InHeap(h, z) =>
       \A k \in 1..z.n : h2[z.a][k] = h[z.a][k] \/ (z.a = s.a /\ k = s.n + 1)
  /\ \A k \in 1..s.n : h2[s2.a][k] = h[s.a][k]
  /\ s.n + 1 \in 1..s2.n /\ h2[s2.a][s.n + 1] = x
  /\ s2.a = s.a \/ s2.a = Len(h) + 1

LEMMA AppendFrame ==
  ASSUME NEW h \in Heap, NEW s \in Slice, InHeap(h, s), NEW x \in Member,
         NEW h2, NEW s2, Appended(h, s, x, h2, s2)
  PROVE  Writes(h, s, x, h2, s2)
<1>0. /\ h2 \in Heap /\ s2 \in Slice /\ InHeap(h2, s2) /\ s2.n = s.n + 1
      /\ s.a \in Nat /\ s.n \in Nat /\ Len(h) \in Nat /\ s.a \in 0..Len(h)
  BY SMTT(30) DEF Appended, InHeap, Slice, Heap
<1>1. /\ s.n + 1 \in 1..s2.n
      /\ \A k \in 1..s.n : s.a \in 1..Len(h) /\ k \in 1..Len(h[s.a])
  BY <1>0, SMTT(30) DEF InHeap, Cap, Slice, Heap
<1>2. CASE InPlace(h, s, x, h2, s2)
  <2>1. Len(h2) = Len(h) /\ s2.a = s.a /\ s.a \in 1..Len(h) /\ s.n + 1 \in 1..Len(h[s.a])
    BY <1>0, <1>2, SMTT(30) DEF InPlace, Slice, Heap
  <2>2. \A a \in 1..Len(h) : Len(h2[a]) = Len(h[a])
    BY <1>2, Zenon DEF InPlace
  <2>3. \A a \in 1..Len(h) : \A k \in 1..Len(h[a]) :
          h2[a][k] = IF a = s.a /\ k = s.n + 1 THEN x ELSE h[a][k]
    BY <1>2, Zenon DEF InPlace
  <2>4. \A z \in Slice : InHeap(h, z) => InHeap(h2, z)
    BY <2>1, <2>2, SMTT(30) DEF InHeap, Cap, Slice
  <2>5. \A z \in Slice : InHeap(h, z) =>
          \A k \in 1..z.n : h2[z.a][k] = h[z.a][k] \/ (z.a = s.a /\ k = s.n + 1)
    <3> SUFFICES ASSUME NEW z \in Slice, InHeap(h, z), NEW k \in 1..z.n
                 PROVE  h2[z.a][k] = h[z.a][k] \/ (z.a = s.a /\ k = s.n + 1)
      OBVIOUS
    <3>1. z.a \in 1..Len(h) /\ k \in 1..Len(h[z.a])
      BY SliceSlot, Zenon
    <3> QED BY <2>3, <3>1, Zenon
  <2>6. \A k \in 1..s.n : h2[s2.a][k] = h[s.a][k]
    <3>1. \A k \in 1..s.n : k # s.n + 1
      BY <1>0, SMTT(30)
    <3> QED BY <1>1, <2>1, <2>3, <3>1, Zenon
  <2>7. h2[s2.a][s.n + 1] = x
    BY <2>1, <2>3, Zenon
  <2> QED BY <1>0, <1>1, <2>1, <2>4, <2>5, <2>6, <2>7, Zenon DEF Writes
<1>3. CASE Copied(h, s, x, h2, s2)
  <2>1. s2.a = Len(h) + 1 /\ Len(h2) = Len(h) + 1 /\ s.n + 1 <= Len(h2[s2.a])
        /\ Len(h2[s2.a]) \in Nat
    BY <1>0, <1>3, SMTT(30) DEF Copied, Heap
  <2>2. \A a \in 1..Len(h) : h2[a] = h[a]
    BY <1>3, Zenon DEF Copied
  <2>3. \A k \in 1..Len(h2[s2.a]) :
          h2[s2.a][k] = IF k <= s.n THEN h[s.a][k] ELSE IF k = s.n + 1 THEN x ELSE Nil
    BY <1>3, Zenon DEF Copied
  <2>4. \A z \in Slice : InHeap(h, z) => InHeap(h2, z)
    BY <1>0, <2>1, <2>2, SMTT(30) DEF InHeap, Cap, Slice
  <2>5. \A z \in Slice : InHeap(h, z) => \A k \in 1..z.n : h2[z.a][k] = h[z.a][k]
    <3> SUFFICES ASSUME NEW z \in Slice, InHeap(h, z), NEW k \in 1..z.n
                 PROVE  h2[z.a][k] = h[z.a][k]
      OBVIOUS
    <3>1. z.a \in 1..Len(h)
      BY SliceSlot, Zenon
    <3> QED BY <2>2, <3>1, Zenon
  <2>6. \A k \in 1..s.n : h2[s2.a][k] = h[s.a][k]
    <3>1. \A k \in 1..s.n : k <= s.n /\ k \in 1..Len(h2[s2.a])
      BY <1>0, <2>1, SMTT(30)
    <3> QED BY <2>3, <3>1, Zenon
  <2>7. h2[s2.a][s.n + 1] = x
    <3>1. s.n + 1 \in 1..Len(h2[s2.a]) /\ ~(s.n + 1 <= s.n)
      BY <1>0, <2>1, SMTT(30)
    <3> QED BY <2>3, <3>1, Zenon
  <2> QED BY <1>0, <1>1, <2>1, <2>4, <2>5, <2>6, <2>7, Zenon DEF Writes
<1> QED BY <1>2, <1>3, Zenon DEF Appended

LEMMA SlotTyped ==
  ASSUME NEW h \in Heap, NEW a \in 1..Len(h), NEW k \in 1..Len(h[a])
  PROVE  h[a][k] \in Member
<1>1. h[a] \in Seq(Member)
  BY ElementOfSeq, Zenon DEF Heap
<1> QED BY <1>1, ElementOfSeq, Zenon

LEMMA SliceArray ==
  ASSUME NEW h \in Heap, NEW s \in Slice, InHeap(h, s), s.a # 0
  PROVE  s.a \in 1..Len(h)
<1>1. s.a \in Nat /\ Len(h) \in Nat /\ s.a \in 0..Len(h)
  BY LenProperties, Zenon DEF Heap, Slice, InHeap
<1> QED BY <1>1, SMTT(30)

(* The arrays of heap h hold only clients that the filters e entitle.      *)
HeapOwned(h, e, own) ==
  \A a \in 1..Len(h) : \A k \in 1..Len(h[a]) :
    h[a][k] # Nil =>
      \E f \in e[h[a][k]] : f = own[a] \/ (IsWildcard(f) /\ Covers(f, own[a]))

(* The assignment own of topics to the arrays of h extends owner, which is *)
(* for the first n, and gives array a to topic t.                          *)
OwnsToo(own, owner, n, a, t, h, e) ==
  /\ \A b \in 1..n : own[b] = owner[b]
  /\ own[a] = t
  /\ HeapOwned(h, e, own)

(* The owner of the slice owns the array that append returns.              *)
LEMMA AppendOwner ==
  ASSUME heap \in Heap, NEW owner \in [1..Len(heap) -> Names],
         NEW s \in Slice, InHeap(heap, s), NEW x \in Clients, NEW t \in Names, NEW s2,
         Appended(heap, s, x, heap', s2),
         s.a # 0 => owner[s.a] = t,
         HeapOwned(heap, ever, owner),
         \A c \in Clients : ever[c] \subseteq ever'[c],
         \E f \in ever'[x] : f = t \/ (IsWildcard(f) /\ Covers(f, t))
  PROVE  \E own \in [1..Len(heap') -> Names] :
           OwnsToo(own, owner, Len(heap), s2.a, t, heap', ever')
<1>0. /\ heap' \in Heap /\ Len(heap) \in Nat /\ Len(heap') \in Nat
      /\ s.n \in Nat /\ s.a \in Nat
  BY SMTT(30) DEF Appended, Heap, Slice
<1>1. \A a \in 1..Len(heap) : \A k \in 1..Len(heap[a]) :
        heap[a][k] # Nil =>
          \E f \in ever'[heap[a][k]] : f = owner[a] \/ (IsWildcard(f) /\ Covers(f, owner[a]))
  <2>1. \A a \in 1..Len(heap) : \A k \in 1..Len(heap[a]) : heap[a][k] \in Member
    BY SlotTyped, Zenon
  <2> QED BY <2>1, Zenon DEF Member, HeapOwned
<1>2. CASE InPlace(heap, s, x, heap', s2)
  <2>1. Len(heap') = Len(heap) /\ s2.a = s.a /\ s.a # 0
    BY <1>2 DEF InPlace
  <2>2. \A a \in 1..Len(heap) : \A k \in 1..Len(heap'[a]) :
          /\ k \in 1..Len(heap[a])
          /\ heap'[a][k] = heap[a][k] \/ (a = s.a /\ heap'[a][k] = x)
    BY <1>2, Zenon DEF InPlace
  <2> SUFFICES ASSUME NEW a \in 1..Len(heap), NEW k \in 1..Len(heap'[a]), heap'[a][k] # Nil
               PROVE  \E f \in ever'[heap'[a][k]] :
                        f = owner[a] \/ (IsWildcard(f) /\ Covers(f, owner[a]))
    BY <2>1, Zenon DEF OwnsToo, HeapOwned
  <2>3. CASE heap'[a][k] = heap[a][k]
    BY <1>1, <2>2, <2>3, Zenon
  <2>4. CASE a = s.a /\ heap'[a][k] = x
    BY <2>1, <2>4, Zenon
  <2> QED BY <2>2, <2>3, <2>4, Zenon
<1>3. CASE Copied(heap, s, x, heap', s2)
  <2>1. PICK new : new = Len(heap) + 1
    BY ZenonT(60)
  <2>2. /\ Len(heap') = new /\ s2.a = new /\ new \notin 1..Len(heap)
        /\ \A a \in 1..Len(heap') : a \in 1..Len(heap) \/ a = new
        /\ \A a \in 1..Len(heap) : a \in 1..Len(heap')
    BY <1>0, <1>3, <2>1, SMTT(30) DEF Copied
  <2>3. PICK own \in [1..Len(heap') -> Names] :
          /\ \A a \in 1..Len(heap) : own[a] = owner[a]
          /\ own[new] = t
    <3>1. [a \in 1..Len(heap') |-> IF a = new THEN t ELSE owner[a]] \in [1..Len(heap') -> Names]
      BY <2>2, Zenon
    <3>2. new \in 1..Len(heap')
      BY <1>0, <2>1, <2>2, SMTT(30)
    <3> WITNESS [a \in 1..Len(heap') |-> IF a = new THEN t ELSE owner[a]] \in [1..Len(heap') -> Names]
    <3> QED BY <2>2, <3>2, Zenon
  <2>4. \A k \in 1..Len(heap'[new]) :
          \/ heap'[new][k] \in {x, Nil}
          \/ k <= s.n /\ heap'[new][k] = heap[s.a][k]
    BY <1>3, <2>2, Zenon DEF Copied
  <2> SUFFICES ASSUME NEW a \in 1..Len(heap'), NEW k \in 1..Len(heap'[a]), heap'[a][k] # Nil
               PROVE  \E f \in ever'[heap'[a][k]] :
                        f = own[a] \/ (IsWildcard(f) /\ Covers(f, own[a]))
    BY <2>2, <2>3, Zenon DEF OwnsToo, HeapOwned
  <2>5. CASE a \in 1..Len(heap)
    <3>1. heap'[a] = heap[a]
      BY <1>3, <2>5, Zenon DEF Copied
    <3> QED BY <1>1, <2>3, <2>5, <3>1, Zenon
  <2>6. CASE a = new /\ heap'[new][k] = x
    BY <2>3, <2>6, Zenon
  <2>7. CASE a = new /\ k <= s.n /\ heap'[new][k] = heap[s.a][k]
    <3>1. k \in 1..s.n
      BY <1>0, <2>7, SMTT(30)
    <3>2. s.a # 0 /\ s.a \in 1..Len(heap) /\ k \in 1..Len(heap[s.a])
      BY <3>1, SliceSlot, Zenon
    <3> QED BY <1>1, <2>3, <2>7, <3>2, Zenon
  <2> QED BY <2>2, <2>4, <2>5, <2>6, <2>7, Zenon
<1> QED BY <1>2, <1>3, Zenon DEF Appended

(* add() of a filter with wildcards.                                       *)
LEMMA AddWildSubs ==
  ASSUME SubsInv, NEW c \in Clients, NEW f \in Filters, Add(c, f), IsWildcard(f)
  PROVE  SubsInv'
<1>0. TableInv /\ MessageInv /\ WorkerInv /\ ClientInv /\ OwnInv /\ AskInv /\ WantsInv /\ LookInv /\ DueInv
  BY DEF SubsInv
<1>1. /\ nsub' = nsub + 1
      /\ wildcards' = IF Valid(f)
                       THEN [k \in DOMAIN wildcards \cup {nsub'} |->
                               IF k = nsub' THEN [wild |-> f, c |-> c] ELSE wildcards[k]]
                       ELSE wildcards
      /\ asking' = [asking EXCEPT ![c] = f]
      /\ wants' = [wants EXCEPT ![c] = wants[c] \cup {f}]
      /\ ever' = [ever EXCEPT ![c] = ever[c] \cup {f}]
      /\ UNCHANGED <<heap, subs, retain, posts, pc, msg, res, at, gone, inbox, messages, due>>
  BY Zenon DEF Add, Accepts, worker
<1>2. /\ \A d \in Clients : ever[d] \subseteq ever'[d]
      /\ f \in ever'[c]
      /\ \A d \in Clients : asking'[d] = asking[d] \/ (d = c /\ asking'[d] = f)
      /\ \A d \in Clients : \A g \in wants'[d] : g \in wants[d] \/ g = f
      /\ f \notin Names
  BY <1>0, <1>1, NameFacts, Zenon DEF ClientInv
<1>3. ClientInv'
  <2>1. /\ asking' \in [Clients -> Filters \cup {<<>>}]
        /\ wants' \in [Clients -> SUBSET Filters]
        /\ ever' \in [Clients -> SUBSET Filters]
    BY <1>0, <1>1, SMTT(30) DEF ClientInv
  <2> QED BY <1>0, <1>1, <2>1, Zenon DEF ClientInv
<1>4. \A k \in DOMAIN wildcards' :
        \/ k \in DOMAIN wildcards /\ wildcards'[k] = wildcards[k]
        \/ k = nsub' /\ wildcards'[k] = [wild |-> f, c |-> c] /\ Valid(f)
  <2>1. CASE Valid(f)
    BY <1>1, <2>1, SMTT(30)
  <2>2. CASE ~Valid(f)
    BY <1>1, <2>2, Zenon
  <2> QED BY <2>1, <2>2
<1>5. TableInv'
  <2>1. nsub' \in Nat /\ \A k \in 1..nsub : k \in 1..nsub'
    BY <1>0, <1>1, SMTT(30) DEF TableInv
  <2>2. nsub' \in 1..nsub'
    BY <1>0, <1>1, SMTT(30) DEF TableInv
  <2>3. Valid(f) =>
          [wild |-> f, c |-> c] \in [wild : {g \in Filters : IsWildcard(g) /\ Valid(g)}, c : Clients]
    BY Zenon
  <2>4. \A k \in DOMAIN wildcards' :
          /\ k \in 1..nsub'
          /\ wildcards'[k] \in [wild : {g \in Filters : IsWildcard(g) /\ Valid(g)}, c : Clients]
    BY <1>0, <1>4, <2>1, <2>2, <2>3, Zenon DEF TableInv
  <2> QED BY <1>0, <1>1, <2>1, <2>4, Zenon DEF TableInv, InHeap, Cap
<1>6. AskInv'
  <2>1. \A k \in DOMAIN wildcards' : wildcards'[k].wild \in ever'[wildcards'[k].c]
    <3> SUFFICES ASSUME NEW k \in DOMAIN wildcards'
                 PROVE  wildcards'[k].wild \in ever'[wildcards'[k].c]
      OBVIOUS
    <3>1. CASE k \in DOMAIN wildcards /\ wildcards'[k] = wildcards[k]
      <4>1. wildcards[k].c \in Clients
        BY <1>0, <3>1, SMTT(30) DEF TableInv
      <4> QED BY <1>0, <1>2, <3>1, <4>1, Zenon DEF AskInv
    <3>2. CASE wildcards'[k] = [wild |-> f, c |-> c]
      BY <1>2, <3>2, SMTT(30)
    <3> QED BY <1>4, <3>1, <3>2
  <2>2. \A d \in Clients : asking'[d] # <<>> => asking'[d] \in ever'[d]
    BY <1>0, <1>2, Zenon DEF AskInv
  <2>3. NoStrangeMessage'
    BY <1>0, <1>1, <1>2, Zenon DEF AskInv, NoStrangeMessage
  <2> QED BY <2>1, <2>2, <2>3, Zenon DEF AskInv
<1>7. MessageInv' /\ WorkerInv'
  <2>1. UNCHANGED worker
    BY <1>1 DEF worker
  <2> QED BY <1>0, <1>1, <2>1, MessageKept, WorkerKept, Zenon
<1>8. WantsInv'
  <2>1. \A d \in Clients : \A t \in wants'[d] \cap Names : t \in wants[d] \cap Names
    BY <1>2, Zenon
  <2> QED BY <1>0, <1>1, <2>1, Zenon DEF WantsInv
<1>9. \A v \in Workers : Holds(v)' =>
        /\ Holds(v) /\ pc'[v] = pc[v] /\ at'[v] = at[v] /\ res'[v] = res[v] /\ msg'[v] = msg[v]
  BY <1>1, Zenon DEF Holds
<1>10. LookInv'
  BY <1>0, <1>1, <1>9, LookKept, Zenon
<1>11. DueInv'
  <2>1. \A d \in Clients : Live(d) \subseteq Live(d)'
    BY <1>1, Zenon DEF Live
  <2> QED BY <1>0, <1>1, <1>9, <2>1, DueKept, Zenon DEF WorkerInv
<1>12. OwnInv'
  <2>1. PICK owner \in [1..Len(heap) -> Names] : Owned(owner)
    BY <1>0, ZenonT(60) DEF OwnInv
  <2>2. \A a \in 1..Len(heap) : \A k \in 1..Len(heap[a]) :
          heap[a][k] # Nil => heap[a][k] \in Clients
    BY <1>0, SMTT(30) DEF TableInv, Heap, Member
  <2>3. \A d \in Clients : \A t : Entitled(d, t) => Entitled(d, t)'
    BY <1>2, Zenon DEF Entitled
  <2>4. \A a \in 1..Len(heap) : \A k \in 1..Len(heap[a]) :
          heap[a][k] # Nil => Entitled(heap[a][k], owner[a])'
    BY <1>1, <2>1, <2>2, <1>2, Zenon DEF Owned, Entitled
  <2>5. Owned(owner)'
    BY <1>1, <2>1, <2>4, <1>9, Zenon DEF Owned
  <2> QED BY <1>1, <2>1, <2>5 DEF OwnInv
<1> QED BY <1>3, <1>5, <1>6, <1>7, <1>8, <1>10, <1>11, <1>12 DEF SubsInv

(* add() of the name of a topic.                                           *)
LEMMA AddNameSubs ==
  ASSUME SubsInv, NEW c \in Clients, NEW f \in Filters, Add(c, f), ~IsWildcard(f)
  PROVE  SubsInv'
<1>0. TableInv /\ MessageInv /\ WorkerInv /\ ClientInv /\ OwnInv /\ AskInv /\ WantsInv /\ LookInv /\ DueInv
  BY DEF SubsInv
<1>f. f \in Names
  BY NameFacts
<1>1. PICK new : /\ new = GoAppend(heap, subs[f], c).s
                 /\ heap' = GoAppend(heap, subs[f], c).h
                 /\ subs' = [subs EXCEPT ![f] = new]
  BY Zenon DEF Add
<1>2. /\ Unlocked
      /\ nsub' = nsub + 1
      /\ asking' = [asking EXCEPT ![c] = f]
      /\ wants' = [wants EXCEPT ![c] = wants[c] \cup {f}]
      /\ ever' = [ever EXCEPT ![c] = ever[c] \cup {f}]
      /\ UNCHANGED <<wildcards, retain, posts, pc, msg, res, at, gone, inbox, messages, due>>
  BY Zenon DEF Add, worker
<1>3. /\ heap \in Heap /\ subs[f] \in Slice /\ InHeap(heap, subs[f]) /\ c \in Member
      /\ \A t \in Names : subs[t] \in Slice
  BY <1>0, <1>f, Zenon DEF TableInv, Member
<1>4. Appended(heap, subs[f], c, heap', new)
  BY <1>1, <1>3, GoAppendIsAppend, Zenon
<1>5. /\ heap' \in Heap /\ new \in Slice /\ InHeap(heap', new) /\ new.n = subs[f].n + 1
      /\ \A z \in Slice : InHeap(heap, z) => InHeap(heap', z)
      /\ \A z \in Slice : InHeap(heap, z) =>
           \A k \in 1..z.n : heap'[z.a][k] = heap[z.a][k] \/ (z.a = subs[f].a /\ k = subs[f].n + 1)
      /\ \A k \in 1..subs[f].n : heap'[new.a][k] = heap[subs[f].a][k]
      /\ subs[f].n + 1 \in 1..new.n /\ heap'[new.a][subs[f].n + 1] = c
      /\ new.a = subs[f].a \/ new.a = Len(heap) + 1
  <2>1. Writes(heap, subs[f], c, heap', new)
    BY <1>3, <1>4, AppendFrame, Zenon
  <2> QED BY <2>1, Zenon DEF Writes
<1>6. /\ subs'[f] = new
      /\ \A t \in Names \ {f} : subs'[t] = subs[t]
  BY <1>0, <1>1, <1>f, Zenon DEF TableInv
<1>7. /\ \A d \in Clients : ever[d] \subseteq ever'[d]
      /\ f \in ever'[c]
      /\ \A d \in Clients : asking'[d] = asking[d] \/ (d = c /\ asking'[d] = f)
      /\ \A d \in Clients : \A g \in wants'[d] : g \in wants[d] \/ (d = c /\ g = f)
  BY <1>0, <1>2, Zenon DEF ClientInv
<1>8. ClientInv'
  <2>1. /\ asking' \in [Clients -> Filters \cup {<<>>}]
        /\ wants' \in [Clients -> SUBSET Filters]
        /\ ever' \in [Clients -> SUBSET Filters]
    BY <1>0, <1>2, SMTT(30) DEF ClientInv
  <2> QED BY <1>0, <1>2, <2>1, Zenon DEF ClientInv
<1>9. TableInv'
  <2>1. nsub' \in Nat /\ \A k \in 1..nsub : k \in 1..nsub'
    BY <1>0, <1>2, SMTT(30) DEF TableInv
  <2>2. subs' \in [Names -> Slice]
    BY <1>0, <1>1, <1>5, Zenon DEF TableInv
  <2>3. \A t \in Names : InHeap(heap', subs'[t])
    <3> SUFFICES ASSUME NEW t \in Names PROVE InHeap(heap', subs'[t])
      OBVIOUS
    <3>1. CASE t = f
      BY <1>5, <1>6, <3>1
    <3>2. CASE t # f
      BY <1>0, <1>3, <1>5, <1>6, <3>2, Zenon DEF TableInv
    <3> QED BY <3>1, <3>2
  <2>4. \A k \in DOMAIN wildcards' :
          /\ k \in 1..nsub'
          /\ wildcards'[k] \in [wild : {g \in Filters : IsWildcard(g) /\ Valid(g)}, c : Clients]
    BY <1>0, <1>2, <2>1, Zenon DEF TableInv
  <2> QED BY <1>5, <2>1, <2>2, <2>3, <2>4, Zenon DEF TableInv
<1>10. AskInv'
  <2>1. \A k \in DOMAIN wildcards : wildcards[k].wild \in ever'[wildcards[k].c]
    <3>1. \A k \in DOMAIN wildcards : wildcards[k].c \in Clients
      BY <1>0, SMTT(30) DEF TableInv
    <3> QED BY <1>0, <1>7, <3>1, Zenon DEF AskInv
  <2>2. \A d \in Clients : asking'[d] # <<>> => asking'[d] \in ever'[d]
    BY <1>0, <1>7, Zenon DEF AskInv
  <2>3. NoStrangeMessage'
    BY <1>0, <1>2, <1>7, Zenon DEF AskInv, NoStrangeMessage
  <2> QED BY <1>2, <2>1, <2>2, <2>3, Zenon DEF AskInv
<1>11. MessageInv'
  BY <1>0, <1>2, MessageKept, Zenon
<1>12. WorkerInv'
  <2>1. \A v \in Workers : InHeap(heap', res[v])
    BY <1>0, <1>5, Zenon DEF WorkerInv
  <2>2. \A v \in Workers : InHeap(heap, res[v])'
    BY <1>2, <2>1, Zenon DEF InHeap, Cap
  <2> QED BY <1>0, <1>2, <2>2, Zenon DEF WorkerInv, IsPublished, Active
<1>13. PICK owner \in [1..Len(heap) -> Names] : Owned(owner)
  BY <1>0 DEF OwnInv
<1>14. /\ \A t \in Names : subs[t].a # 0 => owner[subs[t].a] = t
       /\ \A v \in Workers : Holds(v) /\ res[v].a # 0 => owner[res[v].a] = msg[v].topic
  BY <1>13 DEF Owned
<1>15. OwnInv'
  <2>o. PICK own \in [1..Len(heap') -> Names] :
          OwnsToo(own, owner, Len(heap), new.a, f, heap', ever')
    <3>1. /\ subs[f].a # 0 => owner[subs[f].a] = f
          /\ HeapOwned(heap, ever, owner)
          /\ \E g \in ever'[c] : g = f \/ (IsWildcard(g) /\ Covers(g, f))
      BY <1>f, <1>7, <1>13, Zenon DEF Owned, Entitled, HeapOwned
    <3> QED BY <1>f, <1>3, <1>4, <1>7, <3>1, AppendOwner, ZenonT(60)
  <2>1. /\ \A a \in 1..Len(heap) : own[a] = owner[a]
        /\ own[new.a] = f
        /\ HeapOwned(heap', ever', own)
    BY <2>o, Zenon DEF OwnsToo
  <2>2. \A t \in Names : subs'[t].a # 0 => own[subs'[t].a] = t
    <3> SUFFICES ASSUME NEW t \in Names, subs'[t].a # 0 PROVE own[subs'[t].a] = t
      OBVIOUS
    <3>1. CASE t = f
      BY <1>6, <2>1, <3>1
    <3>2. CASE t # f
      <4>1. subs[t].a \in 1..Len(heap) /\ subs'[t] = subs[t]
        BY <1>0, <1>3, <1>6, <3>2, SMTT(30) DEF TableInv, InHeap, Slice
      <4> QED BY <1>14, <2>1, <4>1, Zenon
    <3> QED BY <3>1, <3>2
  <2>3. \A v \in Workers : Holds(v) /\ res[v].a # 0 => own[res[v].a] = msg[v].topic
    <3>1. \A v \in Workers : res[v].a # 0 => res[v].a \in 1..Len(heap)
      BY <1>0, SMTT(30) DEF WorkerInv, InHeap, Slice
    <3> QED BY <1>14, <2>1, <3>1, Zenon
  <2>4. Owned(own)'
    BY <1>2, <2>1, <2>2, <2>3, Zenon DEF Owned, Entitled, Holds, HeapOwned
  <2> QED BY <2>4, Zenon DEF OwnInv
<1>16. WantsInv'
  <2> SUFFICES ASSUME NEW d \in Clients, NEW t \in wants'[d] \cap Names
               PROVE  \E k \in 1..subs'[t].n : heap'[subs'[t].a][k] = d
    BY Zenon DEF WantsInv
  <2>1. CASE t \notin wants[d]
    BY <1>5, <1>6, <1>7, <2>1, Zenon
  <2>2. CASE t \in wants[d] /\ t = f
    <3>1. PICK k \in 1..subs[f].n : heap[subs[f].a][k] = d
      BY <1>0, <2>2, Zenon DEF WantsInv
    <3>2. k \in 1..new.n
      BY <1>3, <1>5, <3>1, SMTT(30) DEF Slice
    <3> QED BY <1>5, <1>6, <2>2, <3>1, <3>2, Zenon
  <2>3. CASE t \in wants[d] /\ t # f
    <3>1. PICK k \in 1..subs[t].n : heap[subs[t].a][k] = d
      BY <1>0, <2>3, Zenon DEF WantsInv
    <3>2. subs[t] \in Slice /\ InHeap(heap, subs[t])
      BY <1>0, Zenon DEF TableInv
    <3>3. subs[t].a # 0
      BY <1>3, <3>1, <3>2, SliceSlot, Zenon
    <3>4. subs[t].a # subs[f].a
      BY <1>f, <1>14, <2>3, <3>3, Zenon
    <3>5. heap'[subs[t].a][k] = d
      BY <1>5, <3>1, <3>2, <3>4, Zenon
    <3> QED BY <1>6, <2>3, <3>1, <3>5, Zenon
  <2> QED BY <2>1, <2>2, <2>3
<1>17. LookInv'
  BY <1>2, Zenon DEF LookInv, Unlocked
<1>18. DueInv'
  <2> SUFFICES ASSUME NEW v \in Workers, Holds(v), NEW d \in due[v].exact \ gone
               PROVE  Ahead(v, d)' \/ (pc[v] = "fan" /\ msg[v].id \in Live(d))
    BY <1>2, ZenonT(60) DEF DueInv, Holds, Live
  <2>1. CASE ~Ahead(v, d)
    BY <1>0, <2>1, Zenon DEF DueInv
  <2>2. CASE Ahead(v, d)
    <3>1. PICK t : t = msg[v].topic
      OBVIOUS
    <3>2. PICK k \in (IF pc[v] = "fan" THEN at[v] ELSE 1)..res[v].n :
            heap[res[v].a][k] = d /\ (res[v].a = subs[t].a => k <= subs[t].n)
      BY <2>2, <3>1, ZenonT(60) DEF Ahead
    <3>3. k \in 1..res[v].n /\ res[v] \in Slice /\ InHeap(heap, res[v])
      BY <1>0, <3>2, SMTT(30) DEF WorkerInv
    <3>4. res[v].a # 0 /\ res[v].a \in 1..Len(heap)
      BY <1>3, <3>3, SliceSlot, Zenon
    <3>5. owner[res[v].a] = t
      BY <1>14, <3>1, <3>4, ZenonT(60)
    <3>6. ~(res[v].a = subs[f].a /\ k = subs[f].n + 1)
      <4> SUFFICES ASSUME res[v].a = subs[f].a, k = subs[f].n + 1 PROVE FALSE
        OBVIOUS
      <4>1. t = f
        BY <1>f, <1>14, <3>4, <3>5, Zenon
      <4>2. k <= subs[f].n
        BY <3>2, <4>1
      <4> QED BY <1>3, <4>2, SliceNat, NotPast, Zenon
    <3>7. heap'[res[v].a][k] = d
      BY <1>5, <3>2, <3>3, <3>6, ZenonT(60)
    <3>8. res[v].a = subs'[t].a => k <= subs'[t].n
      <4> SUFFICES ASSUME res[v].a = subs'[t].a PROVE k <= subs'[t].n
        BY Zenon
      <4>1. CASE t = f
        <5>1. res[v].a # Len(heap) + 1
          BY <1>3, <3>4, HeapLen, NextSlot, ZenonT(60)
        <5>2. k <= subs[f].n /\ k \in Int
          BY <1>5, <1>6, <3>2, <4>1, <5>1, SMTT(30)
        <5>3. subs[f].n \in Nat /\ subs'[t].n = subs[f].n + 1
          BY <1>3, <1>5, <1>6, <4>1, SliceNat, Zenon
        <5> QED BY <5>2, <5>3, StillWithin, Zenon
      <4>2. CASE t # f
        <5>1. t \in Names
          BY <1>13, <3>4, <3>5, Zenon
        <5> QED BY <1>6, <3>2, <4>2, <5>1, Zenon
      <4> QED BY <4>1, <4>2, SMTT(30)
    <3> QED BY <1>2, <3>1, <3>2, <3>7, <3>8, Zenon DEF Ahead
  <2> QED BY <2>1, <2>2
<1> QED BY <1>8, <1>9, <1>10, <1>11, <1>12, <1>15, <1>16, <1>17, <1>18 DEF SubsInv

LEMMA AppendWildSubs == ASSUME SubsInv, NEW w \in Workers, AppendWild(w) PROVE SubsInv'
<1>0. TableInv /\ MessageInv /\ WorkerInv /\ ClientInv /\ OwnInv /\ AskInv /\ WantsInv /\ LookInv /\ DueInv
  BY DEF SubsInv
<1>1. PICK j \in Matching(w) :
        /\ heap' = GoAppend(heap, res[w], wildcards[j].c).h
        /\ res' = [res EXCEPT ![w] = GoAppend(heap, res[w], wildcards[j].c).s]
        /\ at' = [at EXCEPT ![w] = j + 1]
  BY Zenon DEF AppendWild
<1>2. /\ pc[w] = "look"
      /\ UNCHANGED <<subs, wildcards, retain, posts, pc, msg, asking, gone, inbox, messages,
                     wants, ever, nsub, due>>
  BY ZenonT(60) DEF AppendWild, known
<1>3. PICK c, new, t, old :
        /\ c = wildcards[j].c /\ new = GoAppend(heap, res[w], wildcards[j].c).s
        /\ t = msg[w].topic /\ old = res[w]
  OBVIOUS
<1>4. /\ heap \in Heap /\ old \in Slice /\ InHeap(heap, old) /\ Holds(w)
      /\ \A v \in Workers : res[v] \in Slice /\ InHeap(heap, res[v])
      /\ \A u \in Names : subs[u] \in Slice /\ InHeap(heap, subs[u])
  BY <1>0, <1>2, <1>3, Zenon DEF TableInv, WorkerInv, Holds
<1>5. /\ c \in Clients /\ c \in Member
      /\ \E f \in ever[c] : f = t \/ (IsWildcard(f) /\ Covers(f, t))
  <2>1. j \in DOMAIN wildcards /\ Covers(wildcards[j].wild, t)
    BY <1>3, ZenonT(60) DEF Matching, Matches
  <2>2. wildcards[j].c \in Clients /\ IsWildcard(wildcards[j].wild)
    <3>1. wildcards[j] \in [wild : {f \in Filters : IsWildcard(f) /\ Valid(f)}, c : Clients]
      BY <1>0, <2>1, ZenonT(60) DEF TableInv
    <3> QED BY <3>1, FieldsOf, Zenon
  <2> QED BY <1>0, <1>3, <2>1, <2>2, Zenon DEF AskInv, Member
<1>6. t \in Names
  <2>1. IsPublished(msg[w])
    BY <1>0, <1>2, ZenonT(60) DEF WorkerInv, Active
  <2>2. msg[w] \in Message
    BY <1>0, <2>1, PublishedIsMessage, Zenon
  <2>3. msg[w].topic \in Names
    BY <2>2, TopicIsName, Zenon
  <2> QED BY <1>3, <2>3, Zenon
<1>7. Appended(heap, old, c, heap', new)
  BY <1>1, <1>3, <1>4, <1>5, GoAppendIsAppend, Zenon
<1>8. /\ heap' \in Heap /\ new \in Slice /\ InHeap(heap', new) /\ new.n = old.n + 1
      /\ \A z \in Slice : InHeap(heap, z) => InHeap(heap', z)
      /\ \A z \in Slice : InHeap(heap, z) =>
           \A k \in 1..z.n : heap'[z.a][k] = heap[z.a][k] \/ (z.a = old.a /\ k = old.n + 1)
      /\ \A k \in 1..old.n : heap'[new.a][k] = heap[old.a][k]
      /\ new.a = old.a \/ new.a = Len(heap) + 1
  <2>1. Writes(heap, old, c, heap', new)
    BY <1>4, <1>5, <1>7, AppendFrame, Zenon
  <2> QED BY <2>1, Zenon DEF Writes
<1>9. /\ res'[w] = new
      /\ \A v \in Workers \ {w} : res'[v] = res[v] /\ at'[v] = at[v]
  BY <1>0, <1>1, <1>3, Zenon DEF WorkerInv
<1>10. TableInv'
  BY <1>0, <1>2, <1>4, <1>8, Zenon DEF TableInv
<1>11. MessageInv' /\ ClientInv' /\ AskInv'
  BY <1>0, <1>2, MessageKept, ClientKept, AskKept, Zenon
<1>12. WorkerInv'
  <2>1. at' \in [Workers -> Nat \ {0}]
    <3>1. j \in 1..nsub /\ nsub \in Nat
      BY <1>0, Zenon DEF Matching, TableInv
    <3>2. j + 1 \in Nat \ {0}
      BY <3>1, SMTT(30)
    <3> QED BY <1>0, <1>1, <3>2, Zenon DEF WorkerInv
  <2>2. res' \in [Workers -> Slice]
    BY <1>0, <1>1, <1>3, <1>8, Zenon DEF WorkerInv
  <2>3. \A v \in Workers : InHeap(heap', res'[v])
    <3> SUFFICES ASSUME NEW v \in Workers PROVE InHeap(heap', res'[v])
      BY ZenonT(60)
    <3>1. CASE v = w
      BY <1>8, <1>9, <3>1
    <3>2. CASE v # w
      BY <1>4, <1>8, <1>9, <3>2, Zenon
    <3> QED BY <3>1, <3>2
  <2> QED BY <1>0, <1>2, <2>1, <2>2, <2>3, Zenon DEF WorkerInv, IsPublished, Active
<1>13. PICK owner \in [1..Len(heap) -> Names] : Owned(owner)
  BY <1>0 DEF OwnInv
<1>14. /\ \A u \in Names : subs[u].a # 0 => owner[subs[u].a] = u
       /\ \A v \in Workers : Holds(v) /\ res[v].a # 0 => owner[res[v].a] = msg[v].topic
       /\ old.a # 0 => owner[old.a] = t
  BY <1>3, <1>4, <1>13, Zenon DEF Owned
<1>15. OwnInv'
  <2>o. PICK own \in [1..Len(heap') -> Names] :
          OwnsToo(own, owner, Len(heap), new.a, t, heap', ever')
    <3>1. /\ HeapOwned(heap, ever, owner)
          /\ \A d \in Clients : ever[d] \subseteq ever'[d]
          /\ \E g \in ever'[c] : g = t \/ (IsWildcard(g) /\ Covers(g, t))
      BY <1>2, <1>5, <1>13, Zenon DEF Owned, Entitled, HeapOwned
    <3> QED BY <1>4, <1>5, <1>6, <1>7, <1>14, <3>1, AppendOwner, ZenonT(60)
  <2>1. /\ \A a \in 1..Len(heap) : own[a] = owner[a]
        /\ own[new.a] = t
        /\ HeapOwned(heap', ever', own)
    BY <2>o, Zenon DEF OwnsToo
  <2>2. \A u \in Names : subs[u].a # 0 => own[subs[u].a] = u
    <3>1. \A u \in Names : subs[u].a # 0 => subs[u].a \in 1..Len(heap)
      BY <1>4, SliceArray, Zenon
    <3> QED BY <1>14, <2>1, <3>1, Zenon
  <2>3. \A v \in Workers : Holds(v) /\ res'[v].a # 0 => own[res'[v].a] = msg[v].topic
    <3> SUFFICES ASSUME NEW v \in Workers, Holds(v), res'[v].a # 0
                 PROVE  own[res'[v].a] = msg[v].topic
      BY ZenonT(60)
    <3>1. CASE v = w
      BY <1>3, <1>9, <2>1, <3>1
    <3>2. CASE v # w
      <4>1. res'[v] = res[v] /\ res[v].a \in 1..Len(heap)
        BY <1>4, <1>9, <3>2, SMTT(30) DEF InHeap, Slice
      <4> QED BY <1>14, <2>1, <4>1, Zenon
    <3> QED BY <3>1, <3>2
  <2>4. Owned(own)'
    BY <1>2, <2>1, <2>2, <2>3, Zenon DEF Owned, Entitled, Holds, HeapOwned
  <2> QED BY <2>4, Zenon DEF OwnInv
<1>16. /\ subs[t].n <= old.n
       /\ old.a # 0 /\ old.a # subs[t].a => \A v \in Workers \ {w} : Holds(v) => res[v].a # old.a
  BY <1>0, <1>2, <1>3, Zenon DEF LookInv
<1>17. WantsInv'
  <2> SUFFICES ASSUME NEW d \in Clients, NEW u \in wants[d] \cap Names
               PROVE  \E k \in 1..subs[u].n : heap'[subs[u].a][k] = d
    BY <1>2, Zenon DEF WantsInv
  <2>1. PICK k \in 1..subs[u].n : heap[subs[u].a][k] = d
    BY <1>0, Zenon DEF WantsInv
  <2>2. subs[u].a # 0
    BY <1>4, <2>1, SliceSlot, Zenon
  <2>3. ~(subs[u].a = old.a /\ k = old.n + 1)
    <3> SUFFICES ASSUME subs[u].a = old.a, k = old.n + 1 PROVE FALSE
      OBVIOUS
    <3>1. u = t
      BY <1>14, <2>2, Zenon
    <3> QED BY <1>4, <1>16, <2>1, <3>1, SliceNat, NextSlot, Zenon
  <2> QED BY <1>4, <1>8, <2>1, <2>3, Zenon
<1>18. new.a # Len(heap) + 1 => new.a = old.a
  BY <1>8
<1>19. \A z \in Slice : InHeap(heap, z) => z.a # Len(heap) + 1
  BY <1>4, SMTT(30) DEF InHeap, Heap, Slice
<1>20. LookInv'
  <2> SUFFICES ASSUME NEW u \in Workers, pc[u] = "look"
               PROVE  /\ subs[msg[u].topic].n <= res'[u].n
                      /\ res'[u].a # 0 /\ res'[u].a # subs[msg[u].topic].a
                           => \A v \in Workers \ {u} : Holds(v) => res'[v].a # res'[u].a
    BY <1>2, Zenon DEF LookInv, Holds
  <2>1. u = w /\ msg[u].topic = t /\ res'[u] = new
    BY <1>0, <1>2, <1>3, <1>9, Zenon DEF WorkerInv
  <2>2. subs[t].n <= new.n
    <3>1. subs[t].n \in Int /\ old.n \in Nat /\ new.n = old.n + 1
      <4>1. subs[t].n \in Nat
        BY <1>4, <1>6, SliceNat, Zenon
      <4>2. old.n \in Nat /\ new.n = old.n + 1
        BY <1>4, <1>8, SliceNat, Zenon
      <4> QED BY <4>1, <4>2
    <3> QED BY <1>16, <3>1, StillWithin, Zenon
  <2>3. ASSUME new.a # 0, new.a # subs[t].a, NEW v \in Workers \ {w}, Holds(v)
        PROVE  res[v].a # new.a
    <3>1. CASE new.a = old.a
      BY <1>16, <2>3, <3>1, Zenon
    <3>2. CASE new.a = Len(heap) + 1
      BY <1>4, <1>19, <2>3, <3>2, ZenonT(60)
    <3> QED BY <1>18, <3>1, <3>2
  <2> QED BY <1>9, <2>1, <2>2, <2>3, Zenon
<1>21. DueInv'
  <2> SUFFICES ASSUME NEW v \in Workers, Holds(v), NEW d \in due[v].exact \ gone
               PROVE  Ahead(v, d)' \/ (pc[v] = "fan" /\ msg[v].id \in Live(d))
    BY <1>2, ZenonT(60) DEF DueInv, Holds, Live
  <2>1. CASE ~Ahead(v, d)
    BY <1>0, <2>1, Zenon DEF DueInv
  <2>2. CASE Ahead(v, d)
    <3>1. PICK u : u = msg[v].topic
      OBVIOUS
    <3>2. PICK k \in (IF pc[v] = "fan" THEN at[v] ELSE 1)..res[v].n :
            heap[res[v].a][k] = d /\ (res[v].a = subs[u].a => k <= subs[u].n)
      BY <2>2, <3>1, Zenon DEF Ahead
    <3>3. k \in 1..res[v].n
      BY <1>0, <3>2, SMTT(30) DEF WorkerInv
    <3>4. res[v].a # 0
      BY <1>4, <3>3, SliceSlot, Zenon
    <3>5. CASE v # w
      <4>1. ~(res[v].a = old.a /\ k = old.n + 1)
        <5> SUFFICES ASSUME res[v].a = old.a, k = old.n + 1 PROVE FALSE
          OBVIOUS
        <5>1. u = t
          BY <1>14, <3>1, <3>4, Zenon
        <5>2. old.a = subs[t].a
          BY <1>16, <3>4, <3>5, Zenon
        <5>3. k <= subs[t].n
          BY <3>2, <5>1, <5>2
        <5> QED BY <1>4, <1>6, <1>16, <5>3, SliceNat, NextSlot, Zenon
      <4>2. heap'[res[v].a][k] = d
        BY <1>4, <1>8, <3>2, <3>3, <4>1, Zenon
      <4> QED BY <1>2, <1>9, <3>1, <3>2, <3>5, <4>2, ZenonT(60) DEF Ahead
    <3>6. CASE v = w
      <4>1. u = t /\ res'[v] = new /\ pc'[v] # "fan" /\ k \in 1..old.n /\ heap[old.a][k] = d
        BY <1>2, <1>3, <1>9, <3>1, <3>2, <3>3, <3>6, SMTT(30)
      <4>2. heap'[new.a][k] = d
        BY <1>8, <4>1, ZenonT(60)
      <4>3. k \in 1..new.n
        BY <1>4, <1>8, <4>1, SMTT(30) DEF Slice
      <4>4. new.a = subs[t].a => k <= subs[t].n
        <5> HAVE new.a = subs[t].a
        <5>1. new.a = old.a
          BY <1>4, <1>6, <1>18, <1>19, Zenon
        <5> QED BY <1>3, <3>2, <3>6, <4>1, <5>1, Zenon
      <4> QED BY <1>2, <3>1, <4>1, <4>2, <4>3, <4>4, ZenonT(60) DEF Ahead
    <3> QED BY <3>5, <3>6
  <2> QED BY <2>1, <2>2
<1> QED BY <1>10, <1>11, <1>12, <1>15, <1>17, <1>20, <1>21 DEF SubsInv

(* Setting slots to nil keeps the shape of the heap.                       *)
Nulls(h, h2, c) ==
  /\ h2 \in Heap /\ Len(h2) = Len(h)
  /\ \A z \in Slice : InHeap(h, z) => InHeap(h2, z)
  /\ \A a \in 1..Len(h) : /\ Len(h2[a]) = Len(h[a])
                          /\ \A k \in 1..Len(h[a]) :
                               h2[a][k] = h[a][k] \/ (h[a][k] = c /\ h2[a][k] = Nil)

LEMMA ClearedNulls ==
  ASSUME heap \in Heap, NEW slices, NEW c, NEW h2, h2 = Cleared(slices, c)
  PROVE  /\ Nulls(heap, h2, c)
         /\ \A a \in 1..Len(heap) : \A k \in 1..Len(heap[a]) :
              h2[a][k] # heap[a][k] => \E s \in slices : s.a = a
<1> DEFINE row(a) == [k \in DOMAIN heap[a] |->
              IF heap[a][k] = c /\ \E s \in slices : s.a = a /\ k <= s.n THEN Nil ELSE heap[a][k]]
<1>2. h2 = [a \in DOMAIN heap |-> row(a)]
  BY Zenon DEF Cleared
<1>3. DOMAIN heap = 1..Len(heap) /\ Len(heap) \in Nat
      /\ \A a \in 1..Len(heap) : heap[a] \in Seq(Member) /\ DOMAIN heap[a] = 1..Len(heap[a])
                                 /\ Len(heap[a]) \in Nat
  BY SMTT(30) DEF Heap
<1>4. \A a \in 1..Len(heap) : \A k \in 1..Len(heap[a]) :
        /\ row(a)[k] = heap[a][k] \/ (heap[a][k] = c /\ row(a)[k] = Nil)
        /\ row(a)[k] # heap[a][k] => \E s \in slices : s.a = a
        /\ row(a)[k] \in Member
  <2> SUFFICES ASSUME NEW a \in 1..Len(heap), NEW k \in 1..Len(heap[a])
               PROVE  /\ row(a)[k] = heap[a][k] \/ (heap[a][k] = c /\ row(a)[k] = Nil)
                      /\ row(a)[k] # heap[a][k] => \E s \in slices : s.a = a
                      /\ row(a)[k] \in Member
    BY Zenon
  <2>1. k \in DOMAIN heap[a] /\ heap[a][k] \in Member /\ Nil \in Member
    BY <1>3, SMTT(30) DEF Member
  <2>2. row(a)[k] = IF heap[a][k] = c /\ \E s \in slices : s.a = a /\ k <= s.n
                    THEN Nil ELSE heap[a][k]
    BY <2>1, Zenon
  <2> QED BY <2>1, <2>2, ZenonT(60)
<1>5. \A a \in 1..Len(heap) : row(a) \in Seq(Member) /\ Len(row(a)) = Len(heap[a])
  <2> SUFFICES ASSUME NEW a \in 1..Len(heap)
               PROVE  row(a) \in Seq(Member) /\ Len(row(a)) = Len(heap[a])
    OBVIOUS
  <2>1. DOMAIN row(a) = 1..Len(heap[a]) /\ row(a) = [k \in 1..Len(heap[a]) |-> row(a)[k]]
    BY <1>3, Zenon
  <2> HIDE DEF row
  <2> QED BY <1>3, <1>4, <2>1, IsASeq, SMTT(30)
<1> HIDE DEF row
<1>6. /\ h2 \in Heap /\ Len(h2) = Len(heap)
      /\ \A a \in 1..Len(heap) : h2[a] = row(a)
  <2>1. /\ h2 = [a \in 1..Len(heap) |-> h2[a]]
        /\ \A a \in 1..Len(heap) : h2[a] = row(a)
    BY <1>2, <1>3, Zenon
  <2>2. \A a \in 1..Len(heap) : h2[a] \in Seq(Member)
    BY <1>5, <2>1, Zenon
  <2> QED BY <1>3, <2>1, <2>2, IsASeq, SMTT(30) DEF Heap
<1>7. \A z \in Slice : InHeap(heap, z) => InHeap(h2, z)
  BY <1>5, <1>6, SMTT(30) DEF InHeap, Cap, Slice
<1>8. Nulls(heap, h2, c)
  <2>1. \A a \in 1..Len(heap) :
          /\ Len(h2[a]) = Len(heap[a])
          /\ \A k \in 1..Len(heap[a]) :
               h2[a][k] = heap[a][k] \/ (heap[a][k] = c /\ h2[a][k] = Nil)
    <3> SUFFICES ASSUME NEW a \in 1..Len(heap)
                 PROVE  /\ Len(h2[a]) = Len(heap[a])
                        /\ \A k \in 1..Len(heap[a]) :
                             h2[a][k] = heap[a][k] \/ (heap[a][k] = c /\ h2[a][k] = Nil)
      OBVIOUS
    <3>1. h2[a] = row(a)
      BY <1>6
    <3>2. Len(h2[a]) = Len(heap[a])
      BY <1>5, <3>1
    <3>3. ASSUME NEW k \in 1..Len(heap[a])
          PROVE  h2[a][k] = heap[a][k] \/ (heap[a][k] = c /\ h2[a][k] = Nil)
      <4>1. h2[a][k] = row(a)[k]
        BY <3>1
      <4>2. row(a)[k] = heap[a][k] \/ (heap[a][k] = c /\ row(a)[k] = Nil)
        BY <1>4
      <4> QED BY <4>1, <4>2, Zenon
    <3> QED BY <3>2, <3>3
  <2> QED BY <1>6, <1>7, <2>1, Zenon DEF Nulls
<1> QED BY <1>4, <1>6, <1>8, Zenon

(* Whatever sets slots to nil keeps these parts of the invariant.          *)
LEMMA NullsKept ==
  ASSUME TableInv, WorkerInv, NEW owner \in [1..Len(heap) -> Names], Owned(owner), NEW c,
         Nulls(heap, heap', c),
         subs' \in [Names -> Slice],
         \A t \in Names : subs'[t] = subs[t] \/ subs'[t] = NilSlice,
         UNCHANGED <<nsub, worker, messages, ever>>,
         \A k \in DOMAIN wildcards' : k \in DOMAIN wildcards /\ wildcards'[k] = wildcards[k],
         due' \in [Workers -> [exact : SUBSET Clients, wild : SUBSET Clients]]
  PROVE  TableInv' /\ WorkerInv' /\ OwnInv'
<1>1. /\ heap' \in Heap /\ Len(heap') = Len(heap)
      /\ \A z \in Slice : InHeap(heap, z) => InHeap(heap', z)
      /\ \A a \in 1..Len(heap) : /\ Len(heap'[a]) = Len(heap[a])
                                 /\ \A k \in 1..Len(heap[a]) :
                                      heap'[a][k] = heap[a][k] \/ heap'[a][k] = Nil
  BY Zenon DEF Nulls
<1>2. UNCHANGED <<pc, msg, res, at>>
  BY DEF worker
<1>3. \A t \in Names : InHeap(heap', subs'[t])
  <2>1. InHeap(heap', NilSlice)
    BY <1>1, SMTT(30) DEF InHeap, Cap, NilSlice, Heap
  <2> QED BY <1>1, <2>1, ZenonT(60) DEF TableInv
<1>4. TableInv'
  BY <1>1, <1>3, Zenon DEF TableInv
<1>5. WorkerInv'
  <2>1. \A v \in Workers : InHeap(heap', res'[v])
    BY <1>1, <1>2, ZenonT(60) DEF WorkerInv
  <2> QED BY <1>2, <2>1, Zenon DEF WorkerInv, IsPublished, Active
<1>6. OwnInv'
  <2>1. NilSlice.a = 0
    BY DEF NilSlice
  <2>2. Owned(owner)'
    <3>1. \A a \in 1..Len(heap') : \A k \in 1..Len(heap'[a]) :
            heap'[a][k] # Nil => Entitled(heap'[a][k], owner[a])
      <4> SUFFICES ASSUME NEW a \in 1..Len(heap), NEW k \in 1..Len(heap[a]), heap'[a][k] # Nil
                   PROVE  Entitled(heap'[a][k], owner[a])
        BY <1>1, Zenon
      <4>1. heap'[a][k] = heap[a][k]
        BY <1>1, Zenon
      <4> QED BY <4>1, Zenon DEF Owned
    <3>2. \A t \in Names : subs'[t].a # 0 => owner[subs'[t].a] = t
      BY <2>1, Zenon DEF Owned
    <3>3. \A v \in Workers : Holds(v)' /\ res'[v].a # 0 => owner[res'[v].a] = msg'[v].topic
      BY <1>2, Zenon DEF Owned, Holds
    <3> QED BY <3>1, <3>2, <3>3, Zenon DEF Owned, Entitled
  <2> QED BY <1>1, <2>2, SMTT(30) DEF OwnInv
<1> QED BY <1>4, <1>5, <1>6

(* A client that was due and still is finds the slot as it was.            *)
LEMMA NullsDue ==
  ASSUME TableInv, WorkerInv, NEW c, Nulls(heap, heap', c),
         NEW v \in Workers, NEW d, Ahead(v, d),
         d = c /\ res[v].a \in 1..Len(heap) =>
           \A k \in 1..Len(heap[res[v].a]) : heap'[res[v].a][k] = heap[res[v].a][k],
         UNCHANGED worker,
         subs'[msg[v].topic] = subs[msg[v].topic] \/ subs'[msg[v].topic] = NilSlice
  PROVE  Ahead(v, d)'
<1>1. PICK t : t = msg[v].topic
  OBVIOUS
<1>2. PICK k \in (IF pc[v] = "fan" THEN at[v] ELSE 1)..res[v].n :
        heap[res[v].a][k] = d /\ (res[v].a = subs[t].a => k <= subs[t].n)
  BY <1>1, Zenon DEF Ahead
<1>3. k \in 1..res[v].n /\ res[v] \in Slice /\ InHeap(heap, res[v]) /\ heap \in Heap
  <2>1. k \in 1..res[v].n
    BY <1>2, SMTT(30) DEF WorkerInv
  <2> QED BY <2>1, ZenonT(60) DEF WorkerInv, TableInv
<1>4. res[v].a # 0 /\ res[v].a \in 1..Len(heap) /\ k \in 1..Len(heap[res[v].a])
  BY <1>3, SliceSlot, Zenon
<1>5. heap'[res[v].a][k] = d
  BY <1>2, <1>4, Zenon DEF Nulls
<1>6. res[v].a = subs'[t].a => k <= subs'[t].n
  <2>1. NilSlice.a = 0
    BY DEF NilSlice
  <2> QED BY <1>1, <1>2, <1>4, <2>1, ZenonT(60)
<1> QED BY <1>1, <1>2, <1>5, <1>6, ZenonT(60) DEF Ahead, worker

LEMMA UnsubSubs ==
  ASSUME SubsInv, NEW c \in Clients, NEW f \in Filters, Unsub(c, f) PROVE SubsInv'
<1>0. TableInv /\ MessageInv /\ WorkerInv /\ ClientInv /\ OwnInv /\ AskInv /\ WantsInv /\ LookInv /\ DueInv
  BY DEF SubsInv
<1>1. /\ Unlocked
      /\ IF f \in Names
         THEN /\ heap' = Cleared({subs[f]}, c)
              /\ subs' = IF AllNil(Slots(heap', subs[f])) THEN [subs EXCEPT ![f] = NilSlice]
                         ELSE subs
         ELSE UNCHANGED <<heap, subs>>
      /\ wants' = [wants EXCEPT ![c] = wants[c] \ {f}]
      /\ due' = [w \in Workers |->
                   IF msg[w].topic = f THEN [due[w] EXCEPT !.exact = due[w].exact \ {c}]
                   ELSE IF IsWildcard(f) /\ Valid(f)
                        THEN [due[w] EXCEPT !.wild = due[w].wild \ {c}] ELSE due[w]]
      /\ UNCHANGED <<wildcards, retain, posts, worker, asking, gone, inbox, messages, ever, nsub>>
  BY Zenon DEF Unsub
<1>w. UNCHANGED <<pc, msg, res, at, inbox, gone>>
  BY <1>1 DEF worker
<1>2. /\ due' \in [Workers -> [exact : SUBSET Clients, wild : SUBSET Clients]]
      /\ \A v \in Workers : due'[v].exact \subseteq due[v].exact
      /\ \A v \in Workers : msg[v].topic = f => c \notin due'[v].exact
  <2>1. due \in [Workers -> [exact : SUBSET Clients, wild : SUBSET Clients]]
    BY <1>0 DEF WorkerInv
  <2> QED BY <1>1, <2>1, SMTT(30)
<1>3. /\ wants' \in [Clients -> SUBSET Filters]
      /\ \A d \in Clients : wants'[d] \subseteq wants[d]
      /\ f \notin wants'[c]
  BY <1>0, <1>1, SMTT(30) DEF ClientInv
<1>4. MessageInv' /\ AskInv'
  BY <1>0, <1>1, MessageKept, AskKept, Zenon
<1>5. ClientInv'
  BY <1>0, <1>1, <1>3, Zenon DEF ClientInv
<1>6. LookInv'
  BY <1>1, Zenon DEF LookInv, Unlocked, worker
<1>7. PICK owner \in [1..Len(heap) -> Names] : Owned(owner)
  BY <1>0, SMTT(30) DEF OwnInv
<1>8. /\ \A t \in Names : subs[t].a # 0 => owner[subs[t].a] = t
      /\ \A v \in Workers : Holds(v) /\ res[v].a # 0 => owner[res[v].a] = msg[v].topic
  BY <1>7 DEF Owned
<1>9. CASE f \notin Names
  <2>1. UNCHANGED <<heap, subs>>
    BY <1>1, <1>9
  <2>2. TableInv'
    BY <1>0, <1>1, <2>1, TableKept, Zenon
  <2>3. WorkerInv'
    BY <1>0, <1>1, <1>2, <2>1, Zenon DEF WorkerInv, worker, IsPublished, Active, InHeap, Cap
  <2>4. \A w \in Workers : Holds(w)' => Holds(w) /\ res'[w] = res[w] /\ msg'[w] = msg[w]
    BY <1>1, Zenon DEF Holds, worker
  <2>5. OwnInv'
    BY <1>0, <1>1, <2>1, <2>4, OwnKept, Zenon
  <2>6. WantsInv'
    BY <1>0, <1>3, <2>1, Zenon DEF WantsInv
  <2>7. DueInv'
    <3> SUFFICES ASSUME NEW v \in Workers, Holds(v), NEW d \in due'[v].exact \ gone
                 PROVE  Ahead(v, d) \/ (pc[v] = "fan" /\ msg[v].id \in Live(d))
      BY <1>w, <2>1, ZenonT(60) DEF DueInv, Holds, Live, Ahead
    <3> QED BY <1>0, <1>2, Zenon DEF DueInv
  <2> QED BY <1>4, <1>5, <1>6, <2>2, <2>3, <2>5, <2>6, <2>7 DEF SubsInv
<1>10. CASE f \in Names
  <2>1. /\ Nulls(heap, heap', c)
        /\ \A a \in 1..Len(heap) : \A k \in 1..Len(heap[a]) :
             heap'[a][k] # heap[a][k] => a = subs[f].a
    <3>1. heap \in Heap /\ heap' = Cleared({subs[f]}, c)
      BY <1>0, <1>1, <1>10 DEF TableInv
    <3>2. PICK S : S = {subs[f]}
      BY Zenon
    <3>3. heap' = Cleared(S, c)
      BY <3>1, <3>2
    <3>4. Nulls(heap, heap', c)
      BY <3>1, <3>3, ClearedNulls, Zenon
    <3>5. \A a \in 1..Len(heap) : \A k \in 1..Len(heap[a]) :
            heap'[a][k] # heap[a][k] => \E s \in S : s.a = a
      BY <3>1, <3>3, ClearedNulls, SMTT(30)
    <3> QED BY <3>2, <3>4, <3>5, Zenon
  <2>2. /\ subs' \in [Names -> Slice]
        /\ \A t \in Names : subs'[t] = subs[t] \/ (t = f /\ subs'[t] = NilSlice)
        /\ ~AllNil(Slots(heap', subs[f])) => subs' = subs
    <3>1. NilSlice \in Slice
      BY SMTT(30) DEF NilSlice, Slice
    <3> QED BY <1>0, <1>1, <1>10, <3>1, Zenon DEF TableInv
  <2>3. TableInv' /\ WorkerInv' /\ OwnInv'
    BY <1>0, <1>1, <1>2, <1>7, <2>1, <2>2, NullsKept, Zenon
  <2>4. WantsInv'
    <3> SUFFICES ASSUME NEW d \in Clients, NEW t \in wants'[d] \cap Names
                 PROVE  \E k \in 1..subs'[t].n : heap'[subs'[t].a][k] = d
      BY Zenon DEF WantsInv
    <3>1. subs[t] \in Slice /\ InHeap(heap, subs[t]) /\ heap \in Heap /\ t \in wants[d] \cap Names
      BY <1>0, <1>3, Zenon DEF TableInv
    <3>2. PICK k \in 1..subs[t].n : heap[subs[t].a][k] = d
      BY <1>0, <3>1, Zenon DEF WantsInv
    <3>3. subs[t].a # 0 /\ subs[t].a \in 1..Len(heap) /\ k \in 1..Len(heap[subs[t].a])
      BY <3>1, <3>2, SliceSlot, Zenon
    <3>4. heap'[subs[t].a][k] = d
      <4>1. CASE t = f
        <5>1. d # c
          BY <1>3, <4>1
        <5> QED BY <2>1, <3>2, <3>3, <5>1, Zenon DEF Nulls
      <4>2. CASE t # f
        <5>1. subs[t].a # subs[f].a
          BY <1>8, <1>10, <3>1, <3>3, <4>2, Zenon
        <5> QED BY <2>1, <3>2, <3>3, <5>1, Zenon
      <4> QED BY <4>1, <4>2
    <3>5. subs'[t] = subs[t]
      <4>1. CASE t = f
        <5>1. d \in Slots(heap', subs[f]) /\ d # Nil
          BY <3>2, <3>4, <4>1, NameFacts, Zenon DEF Slots
        <5> QED BY <2>2, <5>1, Zenon DEF AllNil
      <4>2. CASE t # f
        BY <2>2, <3>1, <4>2, ZenonT(60)
      <4> QED BY <4>1, <4>2
    <3> QED BY <3>2, <3>4, <3>5, Zenon
  <2>5. DueInv'
    <3> SUFFICES ASSUME NEW v \in Workers, Holds(v), NEW d \in due'[v].exact \ gone
                 PROVE  Ahead(v, d)' \/ (pc[v] = "fan" /\ msg[v].id \in Live(d))
      BY <1>w, ZenonT(60) DEF DueInv, Holds, Live
    <3>1. CASE ~Ahead(v, d)
      BY <1>0, <1>2, <3>1, Zenon DEF DueInv
    <3>2. CASE Ahead(v, d)
      <4>1. d = c /\ res[v].a \in 1..Len(heap) =>
              \A k \in 1..Len(heap[res[v].a]) : heap'[res[v].a][k] = heap[res[v].a][k]
        <5> SUFFICES ASSUME d = c, res[v].a \in 1..Len(heap), res[v].a = subs[f].a PROVE FALSE
          BY <2>1, Zenon
        <5>1. res[v].a # 0
          BY SMTT(30)
        <5>2. msg[v].topic = f
          BY <1>8, <1>10, <5>1, Zenon
        <5> QED BY <1>2, <5>2
      <4>2. subs'[msg[v].topic] = subs[msg[v].topic] \/ subs'[msg[v].topic] = NilSlice
        <5>1. msg[v].topic \in Names
          <6>1. IsPublished(msg[v])
            BY <1>0, ZenonT(60) DEF WorkerInv, Active, Holds
          <6>2. msg[v] \in Message
            BY <1>0, <6>1, PublishedIsMessage, Zenon
          <6> QED BY <6>2, TopicIsName, Zenon
        <5> QED BY <2>2, <5>1, ZenonT(60)
      <4>3. UNCHANGED worker
        BY <1>1
      <4> QED BY <1>0, <2>1, <3>2, <4>1, <4>2, <4>3, NullsDue, Zenon
    <3> QED BY <3>1, <3>2
  <2> QED BY <1>4, <1>5, <1>6, <2>3, <2>4, <2>5 DEF SubsInv
<1> QED BY <1>9, <1>10

LEMMA UnsubAllSubs == ASSUME SubsInv, NEW c \in Clients, UnsubAll(c) PROVE SubsInv'
<1>0. TableInv /\ MessageInv /\ WorkerInv /\ ClientInv /\ OwnInv /\ AskInv /\ WantsInv /\ LookInv /\ DueInv
  BY DEF SubsInv
<1>1. /\ Unlocked
      /\ heap' = Cleared({subs[t] : t \in Names}, c)
      /\ wildcards' = [k \in {j \in DOMAIN wildcards : wildcards[j].c # c} |-> wildcards[k]]
      /\ gone' = gone \cup {c}
      /\ wants' = [wants EXCEPT ![c] = {}]
      /\ UNCHANGED <<subs, retain, posts, worker, asking, inbox, messages, ever, due, nsub>>
  BY SMTT(30) DEF UnsubAll
<1>w. UNCHANGED <<pc, msg, res, at, inbox, due>>
  BY <1>1 DEF worker
<1>2. Nulls(heap, heap', c)
  BY <1>0, <1>1, ClearedNulls, Zenon DEF TableInv
<1>3. \A k \in DOMAIN wildcards' : k \in DOMAIN wildcards /\ wildcards'[k] = wildcards[k]
  BY <1>1, Zenon
<1>4. TableInv' /\ WorkerInv' /\ OwnInv'
  <2>1. PICK owner \in [1..Len(heap) -> Names] : Owned(owner)
    BY <1>0 DEF OwnInv
  <2>2. /\ subs' \in [Names -> Slice]
        /\ due' \in [Workers -> [exact : SUBSET Clients, wild : SUBSET Clients]]
        /\ \A t \in Names : subs'[t] = subs[t] \/ subs'[t] = NilSlice
    BY <1>0, <1>1, ZenonT(60) DEF TableInv, WorkerInv
  <2> QED BY <1>0, <1>1, <1>2, <1>3, <2>1, <2>2, NullsKept, Zenon
<1>5. /\ wants' \in [Clients -> SUBSET Filters]
      /\ \A d \in Clients : wants'[d] \subseteq wants[d]
      /\ wants'[c] = {}
  BY <1>0, <1>1, SMTT(30) DEF ClientInv
<1>6. ClientInv'
  BY <1>0, <1>1, <1>5, Zenon DEF ClientInv
<1>7. MessageInv'
  BY <1>0, <1>1, MessageKept, Zenon
<1>8. AskInv'
  BY <1>0, <1>1, <1>3, Zenon DEF AskInv, NoStrangeMessage
<1>9. LookInv'
  BY <1>1, Zenon DEF LookInv, Unlocked, worker
<1>10. WantsInv'
  <2> SUFFICES ASSUME NEW d \in Clients, NEW t \in wants'[d] \cap Names
               PROVE  \E k \in 1..subs[t].n : heap'[subs[t].a][k] = d
    BY <1>1, Zenon DEF WantsInv
  <2>1. /\ subs[t] \in Slice /\ InHeap(heap, subs[t]) /\ heap \in Heap /\ t \in wants[d] \cap Names
        /\ d # c
    BY <1>0, <1>5, Zenon DEF TableInv
  <2>2. PICK k \in 1..subs[t].n : heap[subs[t].a][k] = d
    BY <1>0, <2>1, Zenon DEF WantsInv
  <2>3. subs[t].a \in 1..Len(heap) /\ k \in 1..Len(heap[subs[t].a])
    BY <2>1, <2>2, SliceSlot, Zenon
  <2>4. heap'[subs[t].a][k] = d
    BY <1>2, <2>1, <2>2, <2>3, ZenonT(60) DEF Nulls
  <2> QED BY <2>2, <2>4
<1>11. DueInv'
  <2> SUFFICES ASSUME NEW v \in Workers, Holds(v), NEW d \in due[v].exact \ gone'
               PROVE  Ahead(v, d)' \/ (pc[v] = "fan" /\ msg[v].id \in Live(d))
    BY <1>w, ZenonT(60) DEF DueInv, Holds, Live
  <2>1. CASE ~Ahead(v, d)
    BY <1>0, <1>1, <2>1, Zenon DEF DueInv
  <2>2. CASE Ahead(v, d)
    <3>1. d # c /\ UNCHANGED worker /\ subs'[msg[v].topic] = subs[msg[v].topic]
      BY <1>1, Zenon
    <3> QED BY <1>0, <1>2, <2>2, <3>1, NullsDue, Zenon
  <2> QED BY <2>1, <2>2
<1> QED BY <1>4, <1>6, <1>7, <1>8, <1>9, <1>10, <1>11, ZenonT(60) DEF SubsInv

LEMMA InitSubs == ASSUME Init PROVE SubsInv
<1>1. TableInv
  BY SMTT(30) DEF Init, TableInv, Heap, Slice, NilSlice, InHeap, Cap
<1>2. MessageInv
  BY SubscriptionsAssumption, SMTT(30) DEF Init, MessageInv
<1>3. WorkerInv
  <2>1. /\ res \in [Workers -> Slice] /\ at \in [Workers -> Nat \ {0}]
        /\ \A w \in Workers : InHeap(heap, res[w])
    BY SMTT(30) DEF Init, Slice, NilSlice, InHeap, Cap
  <2>2. /\ pc \in [Workers -> {"idle", "got", "look", "fan", "dead"}]
        /\ \A w \in Workers : msg[w] = NoMessage /\ ~Active(w) /\ pc[w] # "look"
    BY ZenonT(60) DEF Init, Active
  <2>3. /\ msg \in [Workers -> Message \cup {NoMessage}]
        /\ due \in [Workers -> [exact : SUBSET Clients, wild : SUBSET Clients]]
    BY SMTT(30) DEF Init
  <2> QED BY <2>1, <2>2, <2>3, Zenon DEF WorkerInv
<1>4. ClientInv
  BY SMTT(30) DEF Init, ClientInv
<1>5. OwnInv
  <2>1. /\ 1..Len(heap) = {}
        /\ \A t \in Names : subs[t].a = 0
        /\ \A w \in Workers : res[w].a = 0
    BY SMTT(30) DEF Init, NilSlice
  <2>2. PICK owner \in [1..Len(heap) -> Names] : TRUE
    <3>1. [a \in 1..Len(heap) |-> <<>>] \in [1..Len(heap) -> Names]
      BY <2>1, Zenon
    <3> QED BY <3>1, Zenon
  <2>3. Owned(owner)
    BY <2>1, ZenonT(60) DEF Owned
  <2> QED BY <2>3 DEF OwnInv
<1>6. AskInv
  BY SMTT(30) DEF Init, AskInv, NoStrangeMessage
<1>7. WantsInv
  BY Zenon DEF Init, WantsInv
<1>8. LookInv /\ DueInv
  <2>1. \A w \in Workers : pc[w] # "look" /\ ~Holds(w)
    BY SMTT(30) DEF Init, Holds
  <2> QED BY <2>1, Zenon DEF LookInv, DueInv
<1> QED BY <1>1, <1>2, <1>3, <1>4, <1>5, <1>6, <1>7, <1>8, SMTT(30) DEF SubsInv

LEMMA NextSubs == ASSUME SubsInv, [Next]_vars PROVE SubsInv'
<1>1. ASSUME NEW c \in Clients, NEW f \in Filters, Add(c, f) PROVE SubsInv'
  BY <1>1, AddWildSubs, AddNameSubs, Zenon
<1>2. ASSUME NEW c \in Clients, NEW f \in Filters, Unsub(c, f) PROVE SubsInv'
  BY <1>2, UnsubSubs, Zenon
<1>3. ASSUME NEW c \in Clients, SendRetain(c) \/ UnsubAll(c) PROVE SubsInv'
  BY <1>3, SendRetainSubs, UnsubAllSubs, Zenon
<1>4. ASSUME NEW t \in Published, NEW kind \in Kinds, Publish(t, kind) PROVE SubsInv'
  BY <1>4, PublishSubs, Zenon
<1>5. ASSUME NEW w \in Workers,
             TakePost(w) \/ ClearRetain(w) \/ Subscribers(w) \/ AppendWild(w) \/ LookedUp(w)
               \/ Deliver(w) \/ FinishPost(w)
      PROVE  SubsInv'
  BY <1>5, TakePostSubs, ClearRetainSubs, SubscribersSubs, AppendWildSubs, LookedUpSubs,
     DeliverSubs, FinishPostSubs, Zenon
<1>6. CASE UNCHANGED vars
  BY <1>6, StutterSubs
<1> QED BY <1>1, <1>2, <1>3, <1>4, <1>5, <1>6, Zenon DEF Next

LEMMA SubsAlways == Spec => []SubsInv
<1>1. Init => SubsInv
  BY InitSubs
<1>2. SubsInv /\ [Next]_vars => SubsInv'
  BY NextSubs
<1> QED BY <1>1, <1>2, PTL DEF Spec

----------------------------------------------------------------------------
(* Theorems                                                                *)

(* Slices stay within their arrays whatever append, unsub and unsubAll do  *)
(* to the arrays that they share, and queues and inboxes hold messages     *)
(* that were published.                                                    *)
THEOREM SubscriptionsTyped == Spec => []TypeOK
<1>1. SubsInv => TypeOK
  <2> SUFFICES ASSUME SubsInv PROVE TypeOK
    OBVIOUS
  <2>0. TableInv /\ MessageInv /\ WorkerInv /\ ClientInv
    BY DEF SubsInv
  <2>1. heap \in Seq(Seq(Clients \cup {Nil}))
    BY <2>0 DEF TableInv, Heap, Member
  <2>2. \A s \in {subs[t] : t \in Names} \cup {res[w] : w \in Workers} :
          s.a \in 0..Len(heap) /\ s.n <= Cap(heap, s)
    BY <2>0, Zenon DEF TableInv, WorkerInv, InHeap
  <2>3. retain \in [Names -> 0..Len(messages)]
    BY <2>0, SMTT(30) DEF MessageInv
  <2>7. at \in [Workers -> Nat]
    BY <2>0, SMTT(30) DEF WorkerInv
  <2>8. \A c \in Clients : inbox[c] \in Seq([id : 1..Len(messages), retained : BOOLEAN])
    <3> SUFFICES ASSUME NEW c \in Clients
                 PROVE  inbox[c] \in Seq([id : 1..Len(messages), retained : BOOLEAN])
      BY Zenon
    <3>1. /\ Len(inbox[c]) \in Nat /\ inbox[c] = [k \in 1..Len(inbox[c]) |-> inbox[c][k]]
          /\ inbox[c] \in Seq(Entry)
      BY <2>0, SMTT(30) DEF ClientInv
    <3>2. \A k \in 1..Len(inbox[c]) : inbox[c][k] \in Entry /\ inbox[c][k].id \in 1..Len(messages)
      BY <2>0, <3>1, SMTT(30) DEF ClientInv
    <3>3. \A k \in 1..Len(inbox[c]) : inbox[c][k] \in [id : 1..Len(messages), retained : BOOLEAN]
      BY <3>2, Zenon DEF Entry
    <3>4. PICK S : S = [id : 1..Len(messages), retained : BOOLEAN]
      BY Zenon
    <3>5. \A k \in 1..Len(inbox[c]) : inbox[c][k] \in S
      BY <3>3, <3>4
    <3>6. inbox[c] \in Seq(S)
      BY <3>1, <3>5, IsASeq, SMTT(30)
    <3> QED BY <3>4, <3>6
  <2> QED BY <2>0, <2>1, <2>2, <2>3, <2>7, <2>8, Zenon
          DEF TypeOK, TableInv, MessageInv, WorkerInv, ClientInv
<1> QED BY <1>1, SubsAlways, PTL

(* Workers send to whatever a shared array holds by the time they get to   *)
(* it; still, nobody gets a message of a topic that no filter of theirs    *)
(* has covered.                                                            *)
THEOREM NoStrangers == Spec => []NoStrangeMessage
<1>1. SubsInv => NoStrangeMessage
  BY DEF SubsInv, AskInv
<1> QED BY <1>1, SubsAlways, PTL

(* A client that subscribed to a topic by its name before the lookup, and  *)
(* stays, gets the message: appends of other workers and clients into the  *)
(* array, holes and dropped lists never cost it one.                       *)
THEOREM SubscribersServed == Spec => []ExactDelivered
<1>1. SubsInv => ExactDelivered
  <2> SUFFICES ASSUME SubsInv, NEW w \in Workers, FannedOut(w), NEW c \in due[w].exact \ gone
               PROVE  msg[w].id \in Live(c)
    BY Zenon DEF ExactDelivered
  <2>1. pc[w] = "fan" /\ at[w] > res[w].n /\ Holds(w)
    BY SMTT(30) DEF FannedOut, Holds
  <2>2. ~Ahead(w, c)
    <3>1. at[w] \in Nat /\ res[w].n \in Nat
      BY SMTT(30) DEF SubsInv, WorkerInv, Slice
    <3>2. at[w]..res[w].n = {}
      BY <2>1, <3>1, SMTT(30)
    <3> QED BY <2>1, <3>2, Zenon DEF Ahead
  <2> QED BY <2>1, <2>2, Zenon DEF SubsInv, DueInv
<1> QED BY <1>1, SubsAlways, PTL

----------------------------------------------------------------------------
(* The order of messages, for any number of workers                        *)

Taken == Len(messages) - Len(posts)

(* Messages are taken in the order of their publication, each by one       *)
(* worker; those that delete what is kept are not looked up.               *)
TurnInv ==
  /\ \A k \in 1..Len(posts) : posts[k].id = Taken + k
  /\ \A w \in Workers : Active(w) => msg[w].id <= Taken
  /\ \A v, w \in Workers : Active(v) /\ Active(w) /\ msg[v].id = msg[w].id => v = w
  /\ \A w \in Workers : Holds(w) => msg[w].kind # "clear"

Few(ids) == IsFiniteSet(ids) /\ Cardinality(ids) < Cardinality(Workers)

(* The earlier messages that client c has yet to get, or has got, after    *)
(* the one at position j are among those that the other workers held when  *)
(* it was delivered.                                                       *)
Among(c, j, ids) ==
  /\ Few(ids)
  /\ \A k \in 1..Len(inbox[c]) :
       k > j /\ ~inbox[c][k].retained /\ inbox[c][k].id < inbox[c][j].id => inbox[c][k].id \in ids
  /\ \A w \in Workers : Active(w) /\ msg[w].id < inbox[c][j].id => msg[w].id \in ids

LateInv ==
  \A c \in Clients : \A j \in 1..Len(inbox[c]) : ~inbox[c][j].retained =>
    inbox[c][j].id <= Taken /\ \E ids : Among(c, j, ids)

(* The positions of a sequence that grows or shrinks by one.               *)
LEMMA OneMore ==
  ASSUME NEW a \in Nat, NEW b, b = a + 1
  PROVE  /\ b \notin 1..a /\ b \in 1..b
         /\ \A k \in 1..b : k \in 1..a \/ k = b
         /\ \A k \in 1..a : k \in 1..b
BY SMTT(30)

LEMMA OneLess ==
  ASSUME NEW a \in Nat, NEW b, b = a - 1, NEW k \in 1..a, k # 1
  PROVE  k - 1 \in 1..b /\ k = (k - 1) + 1
BY SMTT(30)

LEMMA LenNat ==
  ASSUME NEW S, NEW s \in Seq(S)
  PROVE  Len(s) \in Nat
BY SMTT(30)

LEMMA LensNat ==
  ASSUME MessageInv
  PROVE  Len(messages) \in Nat /\ Len(posts) \in Nat
<1>1. messages \in Seq(Message) /\ posts \in Seq(Message)
  BY Zenon DEF MessageInv
<1> QED BY <1>1, LenNat, Zenon

LEMMA TakenFacts ==
  ASSUME MessageInv, TurnInv
  PROVE  /\ Len(messages) \in Nat /\ Len(posts) \in Nat /\ Taken \in Int
         /\ posts # <<>> => Head(posts) = posts[1] /\ 1 \in 1..Len(posts)
                            /\ Head(posts).id = Taken + 1 /\ Taken \in Nat
<1>1. Len(messages) \in Nat /\ Len(posts) \in Nat /\ Taken \in Int
  BY SMTT(30) DEF MessageInv, Taken
<1>2. ASSUME posts # <<>>
      PROVE  /\ Head(posts) = posts[1] /\ 1 \in 1..Len(posts)
             /\ Head(posts).id = Taken + 1 /\ Taken \in Nat
  <2>1. Head(posts) = posts[1] /\ 1 \in 1..Len(posts)
    BY <1>2, HeadTailProperties, SMTT(30) DEF MessageInv
  <2>2. posts[1].id = Taken + 1 /\ posts[1].id \in 1..Len(messages)
    BY <2>1, Zenon DEF TurnInv, MessageInv, IsPublished
  <2> QED BY <1>1, <2>1, <2>2, SMTT(30)
<1> QED BY <1>1, <1>2

(* What the actions do to the queue and to what the workers are at.        *)
Takes(w) ==
  /\ posts # <<>> /\ ~Active(w) /\ Active(w)' /\ ~Holds(w)'
  /\ msg'[w] = Head(posts)
  /\ Len(posts') = Len(posts) - 1
  /\ \A k \in 1..Len(posts') : k + 1 \in 1..Len(posts) /\ posts'[k] = posts[k + 1]
  /\ \A v \in Workers \ {w} : pc'[v] = pc[v] /\ msg'[v] = msg[v]
  /\ UNCHANGED <<messages, retain, stale, inbox>>

LEMMA TakePostTakes ==
  ASSUME MessageInv, WorkerInv, NEW w \in Workers, TakePost(w) PROVE Takes(w)
<1>1. /\ posts # <<>> /\ msg' = [msg EXCEPT ![w] = Head(posts)] /\ posts' = Tail(posts)
      /\ pc[w] = "idle" /\ pc' = [pc EXCEPT ![w] = "got"]
      /\ UNCHANGED <<messages, retain, stale, inbox>>
  BY Zenon DEF TakePost, known
<1>2. /\ Len(posts') = Len(posts) - 1
      /\ \A k \in 1..Len(posts') : k + 1 \in 1..Len(posts) /\ posts'[k] = posts[k + 1]
  BY <1>1, HeadTailProperties, SMTT(30) DEF MessageInv
<1>3. /\ pc'[w] = "got" /\ msg'[w] = Head(posts)
      /\ \A v \in Workers \ {w} : pc'[v] = pc[v] /\ msg'[v] = msg[v]
  BY <1>1, Zenon DEF WorkerInv
<1>4. ~Active(w) /\ Active(w)' /\ ~Holds(w)'
  BY <1>1, <1>3, SMTT(30) DEF Active, Holds
<1> QED BY <1>1, <1>2, <1>3, <1>4, Zenon DEF Takes

(* A worker is done with its message.                                      *)
Ends(w) ==
  /\ Active(w) /\ ~Active(w)' /\ ~Holds(w)'
  /\ \A v \in Workers \ {w} : pc'[v] = pc[v] /\ msg'[v] = msg[v]
  /\ UNCHANGED <<messages, posts, stale, inbox>>

LEMMA FinishEnds ==
  ASSUME WorkerInv, NEW w \in Workers, ClearRetain(w) \/ FinishPost(w) PROVE Ends(w)
<1>1. PICK q \in {"dead", "idle"} : pc' = [pc EXCEPT ![w] = q]
  BY SMTT(30) DEF ClearRetain, FinishPost
<1>2. /\ pc[w] \in {"got", "fan"} /\ UNCHANGED <<messages, posts, stale, inbox>>
      /\ msg' = msg \/ msg' = [msg EXCEPT ![w] = NoMessage]
  BY ZenonT(60) DEF ClearRetain, FinishPost, FannedOut, known
<1>3. pc'[w] = q /\ \A v \in Workers \ {w} : pc'[v] = pc[v] /\ msg'[v] = msg[v]
  BY <1>1, <1>2, Zenon DEF WorkerInv
<1>4. Active(w) /\ ~Active(w)' /\ ~Holds(w)'
  BY <1>2, <1>3, SMTT(30) DEF Active, Holds
<1> QED BY <1>2, <1>3, <1>4, Zenon DEF Ends

(* A worker goes on with its message.                                      *)
Goes(w) ==
  /\ Active(w) /\ Active(w)'
  /\ Holds(w)' => Holds(w) \/ msg[w].kind # "clear"
  /\ \A v \in Workers \ {w} : pc'[v] = pc[v]
  /\ UNCHANGED <<messages, posts, retain, stale, msg>>

LEMMA LookupGoes ==
  ASSUME WorkerInv, NEW w \in Workers, Subscribers(w) \/ AppendWild(w) \/ LookedUp(w) \/ Deliver(w)
  PROVE  Goes(w)
<1>1. PICK q \in {"look", "fan"} : pc' = [pc EXCEPT ![w] = q] \/ (pc' = pc /\ pc[w] = q)
  <2>1. \/ pc' = [pc EXCEPT ![w] = "look"] \/ pc' = [pc EXCEPT ![w] = "fan"]
        \/ pc' = pc /\ (pc[w] = "look" \/ pc[w] = "fan")
    BY Zenon DEF Subscribers, AppendWild, LookedUp, Deliver
  <2> QED BY <2>1, Zenon
<1>2. /\ (pc[w] = "got" /\ msg[w].kind # "clear") \/ pc[w] = "look" \/ pc[w] = "fan"
      /\ UNCHANGED <<messages, posts, retain, stale, msg>>
  BY Zenon DEF Subscribers, AppendWild, LookedUp, Deliver, known
<1>3. pc'[w] = q /\ \A v \in Workers \ {w} : pc'[v] = pc[v]
  BY <1>1, Zenon DEF WorkerInv
<1>4. Active(w) /\ Active(w)' /\ (Holds(w) \/ msg[w].kind # "clear")
  BY <1>2, <1>3, SMTT(30) DEF Active, Holds
<1> QED BY <1>2, <1>3, <1>4, Zenon DEF Goes

(* A message is published.                                                 *)
Publishes(t, kind) ==
  \E m : /\ m.id = Len(messages) + 1 /\ m.topic = t /\ m.kind = kind
         /\ Len(messages') = Len(messages) + 1 /\ Len(posts') = Len(posts) + 1
         /\ \A k \in 1..Len(messages) : messages'[k] = messages[k]
         /\ messages'[Len(messages) + 1] = m
         /\ \A k \in 1..Len(posts) : posts'[k] = posts[k]
         /\ posts'[Len(posts) + 1] = m
         /\ stale' = IF kind = "plain" THEN stale ELSE stale \cup (Retaining(t) \ UnderWay)
         /\ UNCHANGED <<pc, msg, retain, inbox>>

LEMMA PublishAdds ==
  ASSUME MessageInv, NEW t \in Published, NEW kind \in Kinds, Publish(t, kind)
  PROVE  Publishes(t, kind)
<1>1. PICK m : m = [id |-> Len(messages) + 1, topic |-> t, kind |-> kind]
  BY Zenon
<1>2. m.id = Len(messages) + 1 /\ m.topic = t /\ m.kind = kind
  BY <1>1
<1>3. m \in Message
  BY <1>1, SMTT(30) DEF Message, MessageInv
<1>4. /\ messages' = Append(messages, m) /\ posts' = Append(posts, m)
      /\ stale' = IF kind = "plain" THEN stale ELSE stale \cup (Retaining(t) \ UnderWay)
      /\ UNCHANGED <<pc, msg, retain, inbox>>
  BY <1>1, Zenon DEF Publish, worker
<1>5. /\ Len(messages') = Len(messages) + 1 /\ Len(posts') = Len(posts) + 1
      /\ \A k \in 1..Len(messages) : messages'[k] = messages[k]
      /\ messages'[Len(messages) + 1] = m
      /\ \A k \in 1..Len(posts) : posts'[k] = posts[k]
      /\ posts'[Len(posts) + 1] = m
  BY <1>3, <1>4, AppendProperties, SMTT(30) DEF MessageInv
<1> QED BY <1>2, <1>4, <1>5, Zenon DEF Publishes

LEMMA NextTurn ==
  ASSUME SubsInv, TurnInv, [Next]_vars
  PROVE  TurnInv'
<1>0. MessageInv /\ WorkerInv
  BY DEF SubsInv
<1>1. /\ Len(messages) \in Nat /\ Len(posts) \in Nat /\ Taken \in Int
      /\ posts # <<>> => Head(posts) = posts[1] /\ 1 \in 1..Len(posts)
                         /\ Head(posts).id = Taken + 1 /\ Taken \in Nat
  BY <1>0, TakenFacts, Zenon
<1>2. CASE UNCHANGED <<messages, posts, pc, msg>>
  <2>1. Taken' = Taken
    BY <1>2, Zenon DEF Taken
  <2> QED BY <1>2, <2>1, Zenon DEF TurnInv, Active, Holds
<1>3. ASSUME NEW t \in Published, NEW kind \in Kinds, Publish(t, kind) PROVE TurnInv'
  <2>1. PICK m : /\ m.id = Len(messages) + 1
                 /\ Len(messages') = Len(messages) + 1 /\ Len(posts') = Len(posts) + 1
                 /\ \A k \in 1..Len(posts) : posts'[k] = posts[k]
                 /\ posts'[Len(posts) + 1] = m
                 /\ UNCHANGED <<pc, msg>>
    BY <1>0, <1>3, PublishAdds, Zenon DEF Publishes
  <2>2. Taken' = Taken
    BY <1>1, <2>1, SMTT(30) DEF Taken
  <2>3. \A k \in 1..Len(posts') : posts'[k].id = Taken + k
    <3> SUFFICES ASSUME NEW k \in 1..Len(posts') PROVE posts'[k].id = Taken + k
      OBVIOUS
    <3>1. CASE k \in 1..Len(posts)
      BY <2>1, <3>1, Zenon DEF TurnInv
    <3>2. CASE k = Len(posts) + 1
      BY <1>1, <2>1, <3>2, SMTT(30) DEF Taken
    <3> QED BY <1>1, <2>1, <3>1, <3>2, SMTT(30)
  <2> QED BY <2>1, <2>2, <2>3, Zenon DEF TurnInv, Active, Holds
<1>4. ASSUME NEW w \in Workers, TakePost(w) PROVE TurnInv'
  <2>1. /\ posts # <<>> /\ ~Active(w) /\ Active(w)' /\ ~Holds(w)'
        /\ msg'[w] = Head(posts)
        /\ Len(posts') = Len(posts) - 1
        /\ \A k \in 1..Len(posts') : k + 1 \in 1..Len(posts) /\ posts'[k] = posts[k + 1]
        /\ \A v \in Workers \ {w} : pc'[v] = pc[v] /\ msg'[v] = msg[v]
        /\ messages' = messages
    BY <1>0, <1>4, TakePostTakes, Zenon DEF Takes
  <2>2. Taken' = Taken + 1
    BY <1>1, <2>1, SMTT(30) DEF Taken
  <2>3. \A k \in 1..Len(posts') : posts'[k].id = Taken' + k
    <3> SUFFICES ASSUME NEW k \in 1..Len(posts') PROVE posts'[k].id = Taken' + k
      OBVIOUS
    <3>1. posts'[k].id = Taken + (k + 1)
      BY <2>1, Zenon DEF TurnInv
    <3> QED BY <1>1, <2>2, <3>1, SMTT(30)
  <2>4. \A v \in Workers \ {w} : Active(v)' => Active(v) /\ msg'[v].id = msg[v].id /\ msg[v].id <= Taken
    BY <2>1, Zenon DEF TurnInv, Active
  <2>5. \A v \in Workers \ {w} : Active(v)' => msg'[v].id \in Int
    <3> SUFFICES ASSUME NEW v \in Workers \ {w}, Active(v)' PROVE msg'[v].id \in Int
      OBVIOUS
    <3>1. msg[v].id \in 1..Len(messages) /\ msg'[v].id = msg[v].id
      BY <1>0, <2>4, Zenon DEF WorkerInv, IsPublished
    <3> QED BY <3>1, SMTT(30)
  <2>6. \A x \in Int : x <= Taken => x <= Taken + 1 /\ x # Taken + 1
    BY <1>1, SMTT(30)
  <2>7. msg'[w].id = Taken + 1 /\ Taken + 1 <= Taken + 1
    BY <1>1, <2>1, SMTT(30)
  <2>8. /\ \A v \in Workers : Active(v)' => msg'[v].id <= Taken'
        /\ \A v \in Workers \ {w} : Active(v)' => msg'[v].id # msg'[w].id
    BY <2>2, <2>4, <2>5, <2>6, <2>7, Zenon
  <2>9. \A u, v \in Workers : Active(u)' /\ Active(v)' /\ msg'[u].id = msg'[v].id => u = v
    BY <2>4, <2>8, Zenon DEF TurnInv
  <2>10. \A v \in Workers : Holds(v)' => msg'[v].kind # "clear"
    BY <2>1, Zenon DEF TurnInv, Holds
  <2> QED BY <2>3, <2>8, <2>9, <2>10, Zenon DEF TurnInv
<1>5. ASSUME NEW w \in Workers, ClearRetain(w) \/ FinishPost(w) PROVE TurnInv'
  <2>1. Ends(w)
    BY <1>0, <1>5, FinishEnds, Zenon
  <2>2. Taken' = Taken /\ posts' = posts
    BY <2>1, Zenon DEF Ends, Taken
  <2>3. /\ \A v \in Workers : Active(v)' => Active(v) /\ msg'[v] = msg[v]
        /\ \A v \in Workers : Holds(v)' => Holds(v) /\ msg'[v] = msg[v]
    BY <2>1, Zenon DEF Ends, Active, Holds
  <2> QED BY <2>2, <2>3, Zenon DEF TurnInv
<1>6. ASSUME NEW w \in Workers, Subscribers(w) \/ AppendWild(w) \/ LookedUp(w) \/ Deliver(w)
      PROVE TurnInv'
  <2>1. Goes(w)
    BY <1>0, <1>6, LookupGoes, Zenon
  <2>2. Taken' = Taken /\ posts' = posts /\ msg' = msg
    BY <2>1, Zenon DEF Goes, Taken
  <2>3. /\ \A v \in Workers : Active(v)' => Active(v)
        /\ \A v \in Workers : Holds(v)' => Holds(v) \/ msg[v].kind # "clear"
    BY <2>1, Zenon DEF Goes, Active, Holds
  <2> QED BY <2>2, <2>3, Zenon DEF TurnInv
<1>7. ASSUME NEW c \in Clients, NEW f \in Filters, Add(c, f) \/ Unsub(c, f) PROVE TurnInv'
  BY <1>2, <1>7, Zenon DEF Add, Unsub, worker
<1>8. ASSUME NEW c \in Clients, SendRetain(c) \/ UnsubAll(c) PROVE TurnInv'
  BY <1>2, <1>8, Zenon DEF SendRetain, UnsubAll, worker, known
<1>9. CASE UNCHANGED vars
  BY <1>2, <1>9, Zenon DEF vars
<1> QED BY <1>3, <1>4, <1>5, <1>6, <1>7, <1>8, <1>9, Zenon DEF Next

(* The other workers are fewer than the workers.                           *)
LEMMA OthersFew ==
  ASSUME NEW w \in Workers
  PROVE  Few({msg[v].id : v \in Workers \ {w}})
<1>1. PICK S : S = Workers \ {w}
  BY Zenon
<1>2. PICK T : T = {msg[v].id : v \in S}
  BY Zenon
<1>3. PICK f : f = [v \in S |-> msg[v].id]
  BY Zenon
<1>4. f \in Surjection(S, T)
  BY <1>2, <1>3, Zenon DEF Surjection
<1>5. IsFiniteSet(Workers) /\ Cardinality(Workers) \in Nat
  BY SubscriptionsAssumption, FS_CardinalityType, Zenon
<1>6. IsFiniteSet(S) /\ Cardinality(S) = Cardinality(Workers) - 1
  BY <1>1, <1>5, FS_RemoveElement, Zenon
<1>7. IsFiniteSet(T) /\ Cardinality(T) <= Cardinality(S)
  BY <1>4, <1>6, FS_Surjection, Zenon
<1>8. Cardinality(T) \in Nat
  BY <1>7, FS_CardinalityType, Zenon
<1>9. Cardinality(T) < Cardinality(Workers)
  BY <1>5, <1>6, <1>7, <1>8, SMTT(30)
<1> QED BY <1>1, <1>2, <1>7, <1>9, Zenon DEF Few

(* No worker begins with a message, and nobody gets one.                   *)
LEMMA LateKept ==
  ASSUME LateInv, inbox' = inbox, Taken' = Taken,
         \A w \in Workers : Active(w)' => Active(w) /\ msg'[w] = msg[w]
  PROVE  LateInv'
<1> SUFFICES ASSUME NEW c \in Clients, NEW j \in 1..Len(inbox[c]), ~inbox[c][j].retained
             PROVE  inbox[c][j].id <= Taken /\ \E ids : Among(c, j, ids)'
  BY Zenon DEF LateInv
<1>1. PICK ids : Among(c, j, ids) /\ inbox[c][j].id <= Taken
  BY Zenon DEF LateInv
<1>2. Among(c, j, ids)'
  BY <1>1, Zenon DEF Among, Few
<1> QED BY <1>1, <1>2, Zenon

LEMMA PastNext ==
  \A n \in Nat : ~(n + 1 > n + 1) /\ \A k \in 1..n : ~(k > n + 1)
OBVIOUS

(* A message that a worker delivers, or a retained one.                    *)
LEMMA LateSubmitted ==
  ASSUME ClientInv, TurnInv, LateInv, NEW c \in Clients, NEW id \in Nat, NEW r \in BOOLEAN,
         Submit(c, id, r), NEW w, ~r => w \in Workers /\ Active(w) /\ id = msg[w].id,
         UNCHANGED <<messages, posts, msg>>,
         \A v \in Workers : Active(v)' => Active(v)
  PROVE  LateInv'
<1>0. Taken' = Taken
  BY Zenon DEF Taken
<1>1. inbox \in [Clients -> Seq(Entry)]
  BY DEF ClientInv
<1>2. /\ \A d \in Clients : \A k \in 1..Len(inbox'[d]) :
           \/ k \in 1..Len(inbox[d]) /\ inbox'[d][k] = inbox[d][k]
           \/ /\ d = c /\ k = Len(inbox[c]) + 1
              /\ inbox'[d][k].id = id /\ (inbox'[d][k].retained <=> r)
  <2>1. Adds(c, id, r)
    BY <1>1, Submitted, Zenon
  <2> QED BY <2>1, Zenon DEF Adds
<1> SUFFICES ASSUME NEW d \in Clients, NEW j \in 1..Len(inbox'[d]), ~inbox'[d][j].retained
             PROVE  inbox'[d][j].id <= Taken /\ \E ids : Among(d, j, ids)'
  BY <1>0, Zenon DEF LateInv
<1>3. CASE j \in 1..Len(inbox[d]) /\ inbox'[d][j] = inbox[d][j]
  <2>1. PICK ids : Among(d, j, ids) /\ inbox[d][j].id <= Taken
    BY <1>3, Zenon DEF LateInv
  <2>2. \A k \in 1..Len(inbox'[d]) :
          k > j /\ ~inbox'[d][k].retained /\ inbox'[d][k].id < inbox'[d][j].id
            => inbox'[d][k].id \in ids
    <3> SUFFICES ASSUME NEW k \in 1..Len(inbox'[d]), k > j, ~inbox'[d][k].retained,
                        inbox'[d][k].id < inbox'[d][j].id
                 PROVE  inbox'[d][k].id \in ids
      BY Zenon
    <3>1. CASE k \in 1..Len(inbox[d]) /\ inbox'[d][k] = inbox[d][k]
      BY <1>3, <2>1, <3>1, Zenon DEF Among
    <3>2. CASE inbox'[d][k].id = id /\ (inbox'[d][k].retained <=> r)
      BY <1>3, <2>1, <3>2, Zenon DEF Among
    <3> QED BY <1>2, <3>1, <3>2, Zenon
  <2>3. Among(d, j, ids)'
    BY <1>3, <2>1, <2>2, Zenon DEF Among, Few
  <2> QED BY <1>3, <2>1, <2>3, Zenon
<1>4. CASE /\ d = c /\ j = Len(inbox[c]) + 1
           /\ inbox'[d][j].id = id /\ (inbox'[d][j].retained <=> r)
  <2>1. w \in Workers /\ Active(w) /\ id = msg[w].id /\ id <= Taken
    BY <1>4, Zenon DEF TurnInv
  <2>2. PICK ids : ids = {msg[v].id : v \in Workers \ {w}} /\ Few(ids)
    BY <2>1, OthersFew, Zenon
  <2>3. \A k \in 1..Len(inbox'[d]) : ~(k > j)
    <3>1. Len(inbox[c]) \in Nat
      BY <1>1, SMTT(30)
    <3> QED BY <1>2, <1>4, <3>1, PastNext, Zenon
  <2>4. ~(id < id)
    BY SMTT(30)
  <2>5. \A v \in Workers : Active(v)' /\ msg'[v].id < id => msg'[v].id \in ids
    BY <2>1, <2>2, <2>4, Zenon
  <2>6. Among(d, j, ids)'
    BY <1>4, <2>2, <2>3, <2>5, Zenon DEF Among, Few
  <2> QED BY <1>4, <2>1, <2>6, Zenon
<1> QED BY <1>2, <1>3, <1>4, Zenon

LEMMA NextLate ==
  ASSUME SubsInv, TurnInv, LateInv, [Next]_vars
  PROVE  LateInv'
<1>0. MessageInv /\ WorkerInv /\ ClientInv
  BY DEF SubsInv
<1>1. /\ Len(messages) \in Nat /\ Len(posts) \in Nat /\ Taken \in Int
      /\ posts # <<>> => Head(posts).id = Taken + 1
  BY <1>0, TakenFacts, Zenon
<1>2. CASE UNCHANGED <<messages, posts, pc, msg, inbox>>
  BY <1>2, LateKept, Zenon DEF Active, Taken
<1>3. ASSUME NEW t \in Published, NEW kind \in Kinds, Publish(t, kind) PROVE LateInv'
  <2>1. /\ Len(messages') = Len(messages) + 1 /\ Len(posts') = Len(posts) + 1
        /\ UNCHANGED <<pc, msg, inbox>>
    BY <1>0, <1>3, PublishAdds, Zenon DEF Publishes
  <2>2. Taken' = Taken
    BY <1>1, <2>1, SMTT(30) DEF Taken
  <2> QED BY <2>1, <2>2, LateKept, Zenon DEF Active
<1>4. ASSUME NEW w \in Workers, TakePost(w) PROVE LateInv'
  <2>1. /\ posts # <<>> /\ msg'[w] = Head(posts)
        /\ Len(posts') = Len(posts) - 1
        /\ \A v \in Workers \ {w} : pc'[v] = pc[v] /\ msg'[v] = msg[v]
        /\ messages' = messages /\ inbox' = inbox
    BY <1>0, <1>4, TakePostTakes, Zenon DEF Takes
  <2>2. Taken' = Taken + 1 /\ msg'[w].id = Taken + 1
    BY <1>1, <2>1, SMTT(30) DEF Taken
  <2> SUFFICES ASSUME NEW c \in Clients, NEW j \in 1..Len(inbox[c]), ~inbox[c][j].retained
               PROVE  inbox[c][j].id <= Taken' /\ \E ids : Among(c, j, ids)'
    BY <2>1, Zenon DEF LateInv
  <2>3. PICK ids : Among(c, j, ids) /\ inbox[c][j].id <= Taken
    BY Zenon DEF LateInv
  <2>4. inbox[c][j].id \in 1..Len(messages)
    BY <1>0, Zenon DEF ClientInv
  <2>5. inbox[c][j].id <= Taken' /\ ~(msg'[w].id < inbox[c][j].id)
    BY <1>1, <2>2, <2>3, <2>4, SMTT(30)
  <2>6. \A v \in Workers : Active(v)' /\ msg'[v].id < inbox[c][j].id => msg'[v].id \in ids
    BY <2>1, <2>3, <2>5, Zenon DEF Among, Active
  <2>7. Among(c, j, ids)'
    BY <2>1, <2>3, <2>6, Zenon DEF Among, Few
  <2> QED BY <2>5, <2>7, Zenon
<1>5. ASSUME NEW w \in Workers, ClearRetain(w) \/ FinishPost(w) PROVE LateInv'
  <2>1. Ends(w)
    BY <1>0, <1>5, FinishEnds, Zenon
  <2>2. inbox' = inbox /\ Taken' = Taken
    BY <2>1, Zenon DEF Ends, Taken
  <2>3. \A v \in Workers : Active(v)' => Active(v) /\ msg'[v] = msg[v]
    BY <2>1, Zenon DEF Ends, Active
  <2> QED BY <2>2, <2>3, LateKept, Zenon
<1>6. ASSUME NEW w \in Workers, Subscribers(w) \/ AppendWild(w) \/ LookedUp(w) PROVE LateInv'
  <2>1. Goes(w)
    BY <1>0, <1>6, LookupGoes, Zenon
  <2>2. inbox' = inbox
    BY <1>6, Zenon DEF Subscribers, AppendWild, LookedUp
  <2>3. Taken' = Taken
    BY <2>1, Zenon DEF Goes, Taken
  <2>4. \A v \in Workers : Active(v)' => Active(v) /\ msg'[v] = msg[v]
    BY <2>1, Zenon DEF Goes, Active
  <2> QED BY <2>2, <2>3, <2>4, LateKept, Zenon
<1>7. ASSUME NEW w \in Workers, Deliver(w) PROVE LateInv'
  <2>1. /\ pc[w] = "fan" /\ UNCHANGED <<messages, posts, pc, msg>>
        /\ \/ \E c \in Clients : Submit(c, msg[w].id, FALSE)
           \/ UNCHANGED inbox
    BY <1>7, Zenon DEF Deliver, known
  <2>2. Active(w)
    BY <2>1, SMTT(30) DEF Active
  <2>3. \A v \in Workers : Active(v)' => Active(v)
    BY <2>1, Zenon DEF Active
  <2>4. ASSUME NEW c \in Clients, Submit(c, msg[w].id, FALSE) PROVE LateInv'
    <3>1. PICK id \in Nat : id = msg[w].id
      <4>1. msg[w].id \in 1..Len(messages)
        BY <1>0, <2>2, Zenon DEF WorkerInv, IsPublished
      <4> QED BY <4>1, SMTT(30)
    <3>2. Submit(c, id, FALSE) /\ FALSE \in BOOLEAN
      BY <2>4, <3>1, Zenon
    <3> QED BY <1>0, <2>1, <2>2, <2>3, <3>1, <3>2, LateSubmitted, Zenon
  <2> QED BY <1>2, <2>1, <2>4, Zenon
<1>8. ASSUME NEW c \in Clients, SendRetain(c) PROVE LateInv'
  <2>1. /\ UNCHANGED <<messages, posts, pc, msg>> /\ asking[c] # <<>>
        /\ IF c \notin gone /\ ~IsWildcard(asking[c]) /\ retain[asking[c]] # 0
           THEN Submit(c, retain[asking[c]], TRUE) ELSE UNCHANGED inbox
    BY <1>8, Zenon DEF SendRetain, worker, known
  <2>2. CASE c \notin gone /\ ~IsWildcard(asking[c]) /\ retain[asking[c]] # 0
    <3>1. PICK id \in Nat : id = retain[asking[c]]
      <4>1. asking[c] \in Names
        BY <1>0, <2>1, <2>2, NameFacts, Zenon DEF ClientInv
      <4> QED BY <1>0, <4>1, Zenon DEF MessageInv
    <3>2. Submit(c, id, TRUE) /\ TRUE \in BOOLEAN
      BY <2>1, <2>2, <3>1, Zenon
    <3>3. \A v \in Workers : Active(v)' => Active(v)
      BY <2>1, Zenon DEF Active
    <3> QED BY <1>0, <2>1, <3>2, <3>3, LateSubmitted, Zenon
  <2>3. CASE ~(c \notin gone /\ ~IsWildcard(asking[c]) /\ retain[asking[c]] # 0)
    BY <1>2, <2>1, <2>3, Zenon
  <2> QED BY <2>2, <2>3
<1>9. ASSUME NEW c \in Clients, NEW f \in Filters, Add(c, f) \/ Unsub(c, f) PROVE LateInv'
  BY <1>2, <1>9, Zenon DEF Add, Unsub, worker
<1>10. ASSUME NEW c \in Clients, UnsubAll(c) PROVE LateInv'
  BY <1>2, <1>10, Zenon DEF UnsubAll, worker
<1>11. CASE UNCHANGED vars
  BY <1>2, <1>11, Zenon DEF vars
<1> QED BY <1>3, <1>4, <1>5, <1>6, <1>7, <1>8, <1>9, <1>10, <1>11, Zenon DEF Next

LEMMA InitTurn == ASSUME Init PROVE TurnInv /\ LateInv
<1>1. \A w \in Workers : ~Active(w) /\ ~Holds(w)
  BY SMTT(30) DEF Init, Active, Holds
<1>2. posts = <<>> /\ \A c \in Clients : inbox[c] = <<>>
  BY Zenon DEF Init
<1>3. 1..Len(<<>>) = {}
  OBVIOUS
<1> QED BY <1>1, <1>2, <1>3, Zenon DEF TurnInv, LateInv

(* A message comes to a client ahead of fewer earlier ones than there are  *)
(* workers: only those that the other workers were at when it was          *)
(* delivered can come later.                                               *)
THEOREM WorkersOvertakeFew == Spec => []OvertakesFew
<1>1. Init => TurnInv /\ LateInv
  BY InitTurn
<1>2. SubsInv /\ TurnInv /\ LateInv /\ [Next]_vars => TurnInv' /\ LateInv'
  BY NextTurn, NextLate
<1>3. SubsInv /\ LateInv => OvertakesFew
  <2> SUFFICES ASSUME SubsInv, LateInv, NEW c \in Clients, NEW j \in 1..Len(inbox[c]),
                      ~inbox[c][j].retained
               PROVE  Cardinality(Overtaken(c, j)) < Cardinality(Workers)
    BY Zenon DEF OvertakesFew
  <2>1. PICK ids : Among(c, j, ids)
    BY Zenon DEF LateInv
  <2>2. Len(inbox[c]) \in Nat
    BY SMTT(30) DEF SubsInv, ClientInv
  <2>3. \A k \in j + 1..Len(inbox[c]) : k \in 1..Len(inbox[c]) /\ k > j
    BY <2>2, SMTT(30)
  <2>4. Overtaken(c, j) \subseteq ids
    BY <2>1, <2>3, Zenon DEF Among, Overtaken
  <2>5. PICK T \in SUBSET ids : T = Overtaken(c, j)
    BY <2>4, Zenon
  <2>6. IsFiniteSet(ids) /\ Cardinality(ids) < Cardinality(Workers)
    BY <2>1, Zenon DEF Among, Few
  <2>7. IsFiniteSet(T) /\ Cardinality(T) <= Cardinality(ids)
    BY <2>6, FS_Subset, Zenon
  <2>8. Cardinality(T) \in Nat /\ Cardinality(ids) \in Nat /\ Cardinality(Workers) \in Nat
    BY <2>6, <2>7, SubscriptionsAssumption, FS_CardinalityType, Zenon
  <2>9. Cardinality(T) < Cardinality(Workers)
    BY <2>6, <2>7, <2>8, SMTT(30)
  <2> QED BY <2>5, <2>9, Zenon
<1> QED BY <1>1, <1>2, <1>3, SubsAlways, PTL DEF Spec

----------------------------------------------------------------------------
(* Retained messages, for any number of workers                            *)

(* What has been handled and is not out of date decides what is kept.      *)
Settled(t) == (Retaining(t) \ UnderWay) \ stale

KeptInv ==
  /\ stale \subseteq 1..Len(messages)
  /\ UnderWay \cap stale = {}
  /\ \A t \in Names :
       /\ Retaining(t) = {} => retain[t] = 0
       /\ Retaining(t) # {} => Retaining(t) \ stale # {}
       /\ Settled(t) # {} => \E k \in Settled(t) : retain[t] = KeptFor(k)

LEMMA WayOf ==
  /\ \A x : x \in UnderWay <=> \/ \E k \in 1..Len(posts) : x = posts[k].id
                               \/ \E w \in Workers : Active(w) /\ x = msg[w].id
  /\ \A x : x \in UnderWay' <=> \/ \E k \in 1..Len(posts') : x = posts'[k].id
                                \/ \E w \in Workers : Active(w)' /\ x = msg'[w].id
BY Zenon DEF UnderWay, Active

(* No message to keep is published or handled.                             *)
LEMMA KeptKept ==
  ASSUME KeptInv, UNCHANGED <<messages, retain, stale>>, UnderWay' = UnderWay
  PROVE  KeptInv'
<1>1. \A t \in Names : Retaining(t)' = Retaining(t) /\ Settled(t)' = Settled(t)
  BY Zenon DEF Retaining, Settled
<1>2. \A k : KeptFor(k)' = KeptFor(k)
  BY Zenon DEF KeptFor
<1> QED BY <1>1, <1>2, ZenonT(60) DEF KeptInv

(* A message is published: it is under way, and what was handled of its    *)
(* topic is out of date if it is one to keep.                              *)
LEMMA KeptPublished ==
  ASSUME MessageInv, KeptInv, NEW t \in Published, NEW kind \in Kinds, Publishes(t, kind)
  PROVE  KeptInv'
<1>1. PICK m : /\ m.id = Len(messages) + 1 /\ m.topic = t /\ m.kind = kind
               /\ Len(messages') = Len(messages) + 1 /\ Len(posts') = Len(posts) + 1
               /\ \A k \in 1..Len(messages) : messages'[k] = messages[k]
               /\ messages'[Len(messages) + 1] = m
               /\ \A k \in 1..Len(posts) : posts'[k] = posts[k]
               /\ posts'[Len(posts) + 1] = m
               /\ stale' = IF kind = "plain" THEN stale ELSE stale \cup (Retaining(t) \ UnderWay)
               /\ UNCHANGED <<pc, msg, retain>>
  BY Zenon DEF Publishes
<1>2. PICK n : n = Len(messages) + 1
  BY Zenon
<1>3. /\ Len(messages) \in Nat /\ Len(posts) \in Nat
      /\ n \notin 1..Len(messages) /\ n \in 1..Len(messages')
      /\ \A k \in 1..Len(messages') : k \in 1..Len(messages) \/ k = n
      /\ \A k \in 1..Len(messages) : k \in 1..Len(messages')
  <2>1. Len(messages) \in Nat /\ Len(posts) \in Nat
    BY LensNat, Zenon
  <2>2. /\ n \notin 1..Len(messages) /\ n \in 1..n
        /\ \A k \in 1..n : k \in 1..Len(messages) \/ k = n
        /\ \A k \in 1..Len(messages) : k \in 1..n
    BY <1>2, <2>1, OneMore, Zenon
  <2>3. Len(messages') = n
    BY <1>1, <1>2, Zenon
  <2> QED BY <2>1, <2>2, <2>3, Zenon
<1>4. /\ \A k \in 1..Len(posts') : k \in 1..Len(posts) \/ k = Len(posts) + 1
      /\ \A k \in 1..Len(posts) : k \in 1..Len(posts')
      /\ Len(posts) + 1 \in 1..Len(posts')
  BY <1>1, <1>3, OneMore, Zenon
<1>5. \A x : x \in UnderWay' <=> x \in UnderWay \/ x = n
  <2>1. \A v \in Workers : (Active(v)' <=> Active(v)) /\ msg'[v] = msg[v]
    BY <1>1, Zenon DEF Active
  <2>2. ASSUME NEW x, x \in UnderWay \/ x = n PROVE x \in UnderWay'
    <3>1. CASE x = n
      <4>1. x = posts'[Len(posts) + 1].id
        BY <1>1, <1>2, <3>1, Zenon
      <4> QED BY <1>4, <4>1, WayOf, Zenon
    <3>2. CASE \E k \in 1..Len(posts) : x = posts[k].id
      <4>1. PICK k \in 1..Len(posts) : x = posts[k].id
        BY <3>2
      <4>2. k \in 1..Len(posts') /\ x = posts'[k].id
        BY <1>1, <1>4, <4>1, Zenon
      <4> QED BY <4>2, WayOf, Zenon
    <3>3. CASE \E v \in Workers : Active(v) /\ x = msg[v].id
      BY <2>1, <3>3, WayOf, Zenon
    <3> QED BY <2>2, <3>1, <3>2, <3>3, WayOf, Zenon
  <2>3. ASSUME NEW x \in UnderWay' PROVE x \in UnderWay \/ x = n
    <3>1. CASE \E k \in 1..Len(posts') : x = posts'[k].id
      <4>1. PICK k \in 1..Len(posts') : x = posts'[k].id
        BY <3>1
      <4>2. CASE k \in 1..Len(posts)
        <5>1. x = posts[k].id
          BY <1>1, <4>1, <4>2, Zenon
        <5> QED BY <4>2, <5>1, WayOf, Zenon
      <4>3. CASE k = Len(posts) + 1
        BY <1>1, <1>2, <4>1, <4>3, Zenon
      <4> QED BY <1>4, <4>2, <4>3, Zenon
    <3>2. CASE \E v \in Workers : Active(v)' /\ x = msg'[v].id
      BY <2>1, <3>2, WayOf, Zenon
    <3> QED BY <3>1, <3>2, WayOf, Zenon
  <2> QED BY <2>2, <2>3, Zenon
<1>6. /\ \A u \in Names : \A k : k \in Retaining(u)' <=>
           k \in Retaining(u) \/ (k = n /\ u = t /\ kind # "plain")
      /\ \A u : \A k \in Retaining(u) : k \in 1..Len(messages) /\ messages[k].topic = u
  BY <1>1, <1>2, <1>3, ZenonT(60) DEF Retaining
<1>7. /\ stale' \subseteq 1..Len(messages) /\ stale' \subseteq 1..Len(messages')
      /\ n \notin stale'
  BY <1>1, <1>3, <1>6, Zenon DEF KeptInv
<1>8. UnderWay' \cap stale' = {}
  BY <1>1, <1>5, <1>7, Zenon DEF KeptInv
<1>9. \A k \in 1..Len(messages) : KeptFor(k)' = KeptFor(k)
  BY <1>1, Zenon DEF KeptFor
<1>10. ASSUME NEW u \in Names
       PROVE  /\ Retaining(u)' = {} => retain'[u] = 0
              /\ Retaining(u)' # {} => Retaining(u)' \ stale' # {}
              /\ Settled(u)' # {} => \E k \in Settled(u)' : retain'[u] = KeptFor(k)'
  <2>1. CASE u = t /\ kind # "plain"
    <3>1. n \in Retaining(u)' /\ n \notin stale'
      BY <1>6, <1>7, <2>1, Zenon
    <3>2. Settled(u)' = {}
      BY <1>1, <1>5, <1>6, <2>1, Zenon DEF Settled
    <3> QED BY <3>1, <3>2, Zenon
  <2>2. CASE ~(u = t /\ kind # "plain")
    <3>1. Retaining(u)' = Retaining(u)
      BY <1>6, <2>2, Zenon
    <3>2. \A k \in Retaining(u) : k \in stale' <=> k \in stale
      <4>1. CASE kind = "plain"
        BY <1>1, <4>1, Zenon
      <4>2. CASE kind # "plain"
        <5>1. \A k \in Retaining(u) : k \notin Retaining(t)
          <6>1. u # t
            BY <2>2, <4>2, Zenon
          <6> QED BY <6>1, Zenon DEF Retaining
        <5>2. stale' = stale \cup (Retaining(t) \ UnderWay)
          BY <1>1, <4>2, Zenon
        <5> QED BY <5>1, <5>2, Zenon
      <4> QED BY <4>1, <4>2
    <3>3. \A k \in Retaining(u) : k \in UnderWay' <=> k \in UnderWay
      BY <1>3, <1>5, <1>6, Zenon
    <3>4. Settled(u)' = Settled(u)
      BY <3>1, <3>2, <3>3, Zenon DEF Settled
    <3>5. \A k \in Settled(u) : KeptFor(k)' = KeptFor(k)
      BY <1>6, <1>9, Zenon DEF Settled
    <3>6. retain' = retain
      BY <1>1
    <3> QED BY <3>1, <3>2, <3>4, <3>5, <3>6, ZenonT(60) DEF KeptInv
  <2> QED BY <2>1, <2>2
<1> QED BY <1>7, <1>8, <1>10, Zenon DEF KeptInv

(* A worker is done with message n, and has kept or deleted what it says.  *)
LEMMA KeptEnded ==
  ASSUME KeptInv, UNCHANGED <<messages, stale>>,
         NEW n \in UnderWay, n \in 1..Len(messages), \A x : x \in UnderWay' <=> x \in UnderWay \ {n},
         NEW t \in Names, messages[n].topic = t,
         retain \in [Names -> Nat],
         retain' = IF messages[n].kind = "plain" THEN retain
                   ELSE [retain EXCEPT ![t] = KeptFor(n)]
  PROVE  KeptInv'
<1>1. /\ \A u : Retaining(u)' = Retaining(u)
      /\ \A k : KeptFor(k)' = KeptFor(k)
  BY Zenon DEF Retaining, KeptFor
<1>2. n \notin stale /\ UnderWay' \cap stale' = {}
  BY Zenon DEF KeptInv
<1>3. ASSUME NEW u \in Names
      PROVE  /\ Retaining(u) = {} => retain'[u] = 0
             /\ Settled(u)' # {} => \E k \in Settled(u)' : retain'[u] = KeptFor(k)
  <2>1. CASE u = t /\ messages[n].kind # "plain"
    <3>1. n \in Retaining(u)
      BY <2>1, Zenon DEF Retaining
    <3>2. n \in Settled(u)'
      BY <1>1, <1>2, <3>1, Zenon DEF Settled
    <3>3. retain'[u] = KeptFor(n)
      BY <2>1, Zenon
    <3> QED BY <3>1, <3>2, <3>3, Zenon
  <2>2. CASE ~(u = t /\ messages[n].kind # "plain")
    <3>1. retain'[u] = retain[u]
      BY <2>2, Zenon
    <3>2. n \notin Retaining(u)
      BY <2>2, Zenon DEF Retaining
    <3>3. Settled(u)' = Settled(u)
      BY <1>1, <3>2, Zenon DEF Settled
    <3> QED BY <3>1, <3>3, Zenon DEF KeptInv
  <2> QED BY <2>1, <2>2
<1> QED BY <1>1, <1>2, <1>3, ZenonT(60) DEF KeptInv

LEMMA NextKept ==
  ASSUME SubsInv, TurnInv, KeptInv, [Next]_vars
  PROVE  KeptInv'
<1>0. MessageInv /\ WorkerInv
  BY DEF SubsInv
<1>1. /\ Len(messages) \in Nat /\ Len(posts) \in Nat /\ Taken \in Int
      /\ posts # <<>> => Head(posts) = posts[1] /\ 1 \in 1..Len(posts)
  BY <1>0, TakenFacts, Zenon
<1>2. CASE UNCHANGED <<messages, posts, retain, pc, msg, stale>>
  <2>1. UnderWay' = UnderWay
    BY <1>2, Zenon DEF UnderWay
  <2> QED BY <1>2, <2>1, KeptKept, Zenon
<1>3. ASSUME NEW t \in Published, NEW kind \in Kinds, Publish(t, kind) PROVE KeptInv'
  BY <1>0, <1>3, PublishAdds, KeptPublished, Zenon
<1>4. ASSUME NEW w \in Workers, TakePost(w) PROVE KeptInv'
  <2>1. /\ posts # <<>> /\ ~Active(w) /\ Active(w)' /\ msg'[w] = Head(posts)
        /\ Len(posts') = Len(posts) - 1
        /\ \A k \in 1..Len(posts') : k + 1 \in 1..Len(posts) /\ posts'[k] = posts[k + 1]
        /\ \A v \in Workers \ {w} : pc'[v] = pc[v] /\ msg'[v] = msg[v]
        /\ UNCHANGED <<messages, retain, stale>>
    BY <1>0, <1>4, TakePostTakes, Zenon DEF Takes
  <2>2. \A k \in 1..Len(posts) : k = 1 \/ \E i \in 1..Len(posts') : k = i + 1
    <3> SUFFICES ASSUME NEW k \in 1..Len(posts), k # 1 PROVE \E i \in 1..Len(posts') : k = i + 1
      OBVIOUS
    <3>1. k - 1 \in 1..Len(posts') /\ k = (k - 1) + 1
      BY <1>1, <2>1, OneLess, Zenon
    <3> QED BY <3>1, Zenon
  <2>3. \A v \in Workers \ {w} : (Active(v)' <=> Active(v)) /\ msg'[v] = msg[v]
    BY <2>1, Zenon DEF Active
  <2>4. ASSUME NEW x \in UnderWay PROVE x \in UnderWay'
    <3>1. CASE \E k \in 1..Len(posts) : x = posts[k].id
      <4>1. PICK k \in 1..Len(posts) : x = posts[k].id
        BY <3>1
      <4>2. CASE k = 1
        <5>1. x = msg'[w].id
          BY <1>1, <2>1, <4>1, <4>2, Zenon
        <5> QED BY <2>1, <5>1, WayOf, Zenon
      <4>3. ASSUME NEW i \in 1..Len(posts'), k = i + 1 PROVE x \in UnderWay'
        <5>1. x = posts'[i].id
          BY <2>1, <4>1, <4>3, Zenon
        <5> QED BY <5>1, WayOf, Zenon
      <4> QED BY <2>2, <4>2, <4>3, Zenon
    <3>2. CASE \E v \in Workers : Active(v) /\ x = msg[v].id
      BY <2>1, <2>3, <3>2, WayOf, ZenonT(60)
    <3> QED BY <3>1, <3>2, WayOf, Zenon
  <2>5. ASSUME NEW x \in UnderWay' PROVE x \in UnderWay
    <3>1. CASE \E k \in 1..Len(posts') : x = posts'[k].id
      BY <2>1, <3>1, WayOf, ZenonT(60)
    <3>2. CASE \E v \in Workers : Active(v)' /\ x = msg'[v].id
      BY <1>1, <2>1, <2>3, <3>2, WayOf, ZenonT(60)
    <3> QED BY <3>1, <3>2, WayOf, Zenon
  <2>6. UnderWay' = UnderWay
    BY <2>4, <2>5, Zenon
  <2> QED BY <2>1, <2>6, KeptKept, Zenon
<1>5. ASSUME NEW w \in Workers, ClearRetain(w) \/ FinishPost(w) PROVE KeptInv'
  <2>1. /\ Active(w) /\ ~Active(w)'
        /\ \A v \in Workers \ {w} : pc'[v] = pc[v] /\ msg'[v] = msg[v]
        /\ UNCHANGED <<messages, posts, stale>>
    BY <1>0, <1>5, FinishEnds, Zenon DEF Ends
  <2>2. PICK n \in 1..Len(messages) : n = msg[w].id /\ messages[n] = msg[w]
    BY <1>0, <2>1, Zenon DEF WorkerInv, IsPublished
  <2>3. PICK t \in Names : t = msg[w].topic
    <3>1. msg[w] \in Message
      BY <1>0, <2>2, SMTT(30) DEF MessageInv
    <3> QED BY <3>1, TopicIsName, Zenon
  <2>4. msg[w].kind \in {"plain", "retain", "clear"}
    <3>1. msg[w] \in Message
      BY <1>0, <2>2, SMTT(30) DEF MessageInv
    <3>2. msg[w].kind \in Kinds
      BY <3>1, SMTT(30) DEF Message
    <3> QED BY <3>2, SubscriptionsAssumption, Zenon
  <2>5. retain' = IF messages[n].kind = "plain" THEN retain
                  ELSE [retain EXCEPT ![t] = KeptFor(n)]
    <3>1. CASE ClearRetain(w)
      <4>1. msg[w].kind = "clear" /\ msg[w].kind # "plain" /\ retain' = [retain EXCEPT ![t] = 0]
        BY <2>3, <3>1, ZenonT(60) DEF ClearRetain
      <4> QED BY <2>2, <4>1, Zenon DEF KeptFor
    <3>2. CASE FinishPost(w)
      <4>1. pc[w] = "fan" /\ retain' = IF msg[w].kind = "retain" THEN [retain EXCEPT ![t] = n]
                                       ELSE retain
        BY <2>2, <2>3, <3>2, Zenon DEF FinishPost, FannedOut, Keep
      <4>2. msg[w].kind # "clear"
        <5>1. Holds(w)
          BY <4>1, SMTT(30) DEF Holds
        <5> QED BY <5>1, Zenon DEF TurnInv
      <4>3. KeptFor(n) = n
        BY <2>2, <4>2, Zenon DEF KeptFor
      <4>4. CASE msg[w].kind = "retain"
        BY <2>2, <4>1, <4>3, <4>4, SMTT(30)
      <4>5. CASE msg[w].kind = "plain"
        BY <2>2, <4>1, <4>5, SMTT(30)
      <4> QED BY <2>4, <4>2, <4>4, <4>5, Zenon
    <3> QED BY <1>5, <3>1, <3>2
  <2>6. n \in UnderWay
    BY <2>1, <2>2, WayOf, Zenon
  <2>7. \A v \in Workers : Active(v)' <=> Active(v) /\ v # w
    BY <2>1, Zenon DEF Active
  <2>8. \A k \in 1..Len(posts) : posts[k].id # n
    <3> SUFFICES ASSUME NEW k \in 1..Len(posts) PROVE posts[k].id # n
      OBVIOUS
    <3>1. posts[k].id = Taken + k /\ n <= Taken
      BY <2>1, <2>2, Zenon DEF TurnInv
    <3> QED BY <1>1, <3>1, SMTT(30)
  <2>9. \A v \in Workers : Active(v) /\ v # w => msg[v].id # n
    BY <2>1, <2>2, Zenon DEF TurnInv
  <2>10. \A x : x \in UnderWay' <=> x \in UnderWay \ {n}
    <3>1. ASSUME NEW x \in UnderWay' PROVE x \in UnderWay \ {n}
      <4>1. CASE \E k \in 1..Len(posts') : x = posts'[k].id
        BY <2>1, <2>8, <4>1, WayOf, ZenonT(60)
      <4>2. CASE \E v \in Workers : Active(v)' /\ x = msg'[v].id
        BY <2>1, <2>7, <2>9, <4>2, WayOf, ZenonT(60)
      <4> QED BY <4>1, <4>2, WayOf, Zenon
    <3>2. ASSUME NEW x \in UnderWay \ {n} PROVE x \in UnderWay'
      <4>1. CASE \E k \in 1..Len(posts) : x = posts[k].id
        BY <2>1, <4>1, WayOf, ZenonT(60)
      <4>2. CASE \E v \in Workers : Active(v) /\ x = msg[v].id
        BY <2>1, <2>2, <2>7, <4>2, WayOf, ZenonT(60)
      <4> QED BY <4>1, <4>2, WayOf, Zenon
    <3> QED BY <3>1, <3>2, Zenon
  <2>11. messages[n].topic = t /\ retain \in [Names -> Nat]
    BY <1>0, <2>2, <2>3, Zenon DEF MessageInv
  <2> QED BY <2>1, <2>2, <2>5, <2>6, <2>10, <2>11, KeptEnded, Zenon
<1>6. ASSUME NEW w \in Workers, Subscribers(w) \/ AppendWild(w) \/ LookedUp(w) \/ Deliver(w)
      PROVE KeptInv'
  <2>1. Goes(w)
    BY <1>0, <1>6, LookupGoes, Zenon
  <2>2. UNCHANGED <<messages, posts, retain, stale, msg>>
    BY <2>1 DEF Goes
  <2>3. \A v \in Workers : Active(v)' <=> Active(v)
    BY <2>1, Zenon DEF Goes, Active
  <2>4. UnderWay' = UnderWay
    BY <2>2, <2>3, WayOf, Zenon
  <2> QED BY <2>2, <2>4, KeptKept, Zenon
<1>7. ASSUME NEW c \in Clients, NEW f \in Filters, Add(c, f) \/ Unsub(c, f) PROVE KeptInv'
  BY <1>2, <1>7, Zenon DEF Add, Unsub, worker
<1>8. ASSUME NEW c \in Clients, SendRetain(c) \/ UnsubAll(c) PROVE KeptInv'
  BY <1>2, <1>8, Zenon DEF SendRetain, UnsubAll, worker, known
<1>9. CASE UNCHANGED vars
  BY <1>2, <1>9, Zenon DEF vars
<1> QED BY <1>3, <1>4, <1>5, <1>6, <1>7, <1>8, <1>9, Zenon DEF Next

(* Workers that handle retained messages of one topic together leave what  *)
(* one of them keeps or deletes, never what was handled before the last of *)
(* them was published.                                                     *)
THEOREM WorkersKeepRecent == Spec => []RetainedIsRecent
<1>1. Init => TurnInv
  BY InitTurn
<1>2. SubsInv /\ TurnInv /\ [Next]_vars => TurnInv'
  BY NextTurn
<1>3. Init => KeptInv
  <2> SUFFICES ASSUME Init PROVE KeptInv
    OBVIOUS
  <2>1. messages = <<>> /\ stale = {} /\ \A t \in Names : retain[t] = 0
    BY Zenon DEF Init
  <2>2. 1..Len(<<>>) = {}
    OBVIOUS
  <2>3. \A t : Retaining(t) = {} /\ Settled(t) = {}
    BY <2>1, <2>2, Zenon DEF Retaining, Settled
  <2> QED BY <2>1, <2>3, Zenon DEF KeptInv
<1>4. SubsInv /\ TurnInv /\ KeptInv /\ [Next]_vars => KeptInv'
  BY NextKept
<1>5. KeptInv => RetainedIsRecent
  <2> SUFFICES ASSUME KeptInv, NEW t \in Names, Retaining(t) \cap UnderWay = {}
               PROVE  IF Retaining(t) = {} THEN retain[t] = 0
                      ELSE \E k \in Retaining(t) \ stale : retain[t] = KeptFor(k)
    BY Zenon DEF RetainedIsRecent
  <2>1. Settled(t) = Retaining(t) \ stale
    BY Zenon DEF Settled
  <2> QED BY <2>1, Zenon DEF KeptInv
<1> QED BY <1>1, <1>2, <1>3, <1>4, <1>5, SubsAlways, PTL DEF Spec

----------------------------------------------------------------------------
(* wild.matches(), on which the lookup of the wildcards rests, computes    *)
(* Covers for topics and filters of any length over any set of words.      *)

(* The invariant of the loop: the filter is valid, and all the parts       *)
(* before the index have matched without the help of a #.                  *)
LoopInv ==
  /\ InRange
  /\ \A j \in 1..Len(wild) : wild[j] = "#" => j = Len(wild)
  /\ result = "none" => \A j \in 1..(idx - 1) : /\ wild[j] \in {parts[j], "+"}
                                              /\ wild[j] # "#"
  /\ ReturnsCovers

LEMMA MatcherInit == MatchInit => LoopInv
<1> SUFFICES ASSUME MatchInit PROVE LoopInv
  OBVIOUS
<1>1. wild \in Inputs /\ Valid(wild) /\ parts \in Inputs /\ idx = 1 /\ result = "none"
  BY DEF MatchInit
<1>2. \A s \in Inputs : s \in Seq(Parts) /\ Len(s) \in Nat \ {0}
  BY MatcherAssumption DEF Inputs
<1>3. wild \in Topic /\ parts \in Topic /\ Len(wild) \in Nat \ {0} /\ Len(parts) \in Nat \ {0}
  BY <1>1, <1>2 DEF Topic
<1>4. InRange
  BY <1>1, <1>3 DEF InRange
<1> QED BY <1>1, <1>3, <1>4 DEF LoopInv, Valid, ReturnsCovers

LEMMA MatcherStep == LoopInv /\ [MatchNext]_matchVars => LoopInv'
<1> SUFFICES ASSUME LoopInv, [MatchNext]_matchVars PROVE LoopInv'
  OBVIOUS
<1>0. /\ wild \in Seq(Parts) /\ parts \in Seq(Parts)
      /\ Len(wild) \in Nat \ {0} /\ Len(parts) \in Nat \ {0}
      /\ idx \in Nat \ {0} /\ idx <= Len(parts) + 1 /\ idx <= Len(wild) + 1
  BY DEF LoopInv, InRange, Topic
<1>h. \A j \in 1..Len(wild) : wild[j] = "#" => j = Len(wild)
  BY DEF LoopInv
<1>1. CASE UNCHANGED matchVars
  BY <1>1 DEF matchVars, LoopInv, InRange, ReturnsCovers
<1>2. ASSUME MatchNext PROVE LoopInv'
  <2>0. UNCHANGED <<wild, parts>> /\ result = "none"
    BY <1>2 DEF MatchNext, Iterate, Finish, Return
  <2>1. \A j \in 1..(idx - 1) : wild[j] \in {parts[j], "+"} /\ wild[j] # "#"
    BY <2>0 DEF LoopInv
  <2>2. ASSUME idx' = idx + 1, idx <= Len(wild), idx <= Len(parts), wild[idx] # "#", PartMatches,
               result' = "none"
        PROVE  LoopInv'
    <3>1. InRange'
      BY <1>0, <2>0, <2>2 DEF InRange, LoopInv
    <3>2. \A j \in 1..(idx' - 1) : wild[j] \in {parts[j], "+"} /\ wild[j] # "#"
      BY <1>0, <2>1, <2>2 DEF PartMatches
    <3> QED BY <1>h, <2>0, <2>2, <3>1, <3>2, SMTT(30) DEF LoopInv, ReturnsCovers
  <2>3. ASSUME idx' = idx, result' \in {"true", "false"}, result' = "true" <=> Covers(wild, parts)
        PROVE  LoopInv'
    <3>1. InRange'
      BY <1>0, <2>0, <2>3, SMTT(30) DEF InRange, LoopInv
    <3>2. ReturnsCovers'
      BY <2>0, <2>3 DEF ReturnsCovers, Covers
    <3> QED BY <1>h, <2>0, <2>3, <3>1, <3>2, SMTT(30) DEF LoopInv
  <2>4. CASE Iterate
    <3>1. CASE idx > Len(wild) /\ Return("false")
      <4>1. idx = Len(wild) + 1 /\ Len(wild) < Len(parts)
        BY <1>0, <2>4, <3>1 DEF Iterate
      <4>2. wild[Len(wild)] # "#"
        BY <1>0, <2>1, <4>1
      <4>3. ~Covers(wild, parts)
        BY <1>0, <4>1, <4>2 DEF Covers
      <4> QED BY <2>3, <3>1, <4>3 DEF Return
    <3>2. CASE idx <= Len(wild) /\ wild[idx] = "#" /\ Return("true")
      <4>1. idx = Len(wild)
        BY <1>0, <1>h, <3>2, SMTT(30)
      <4>2. Covers(wild, parts)
        BY <1>0, <2>1, <2>4, <3>2, <4>1 DEF Covers, Iterate
      <4> QED BY <2>3, <3>2, <4>2 DEF Return
    <3>3. CASE idx <= Len(wild) /\ wild[idx] # "#" /\ ~PartMatches /\ Return("false")
      <4>1. wild[idx] \notin {parts[idx], "+"}
        BY <3>3 DEF PartMatches
      <4>2. ~Covers(wild, parts)
        BY <1>0, <3>3, <4>1 DEF Covers
      <4> QED BY <2>3, <3>3, <4>2 DEF Return
    <3>4. CASE /\ idx <= Len(wild) /\ wild[idx] # "#" /\ PartMatches
               /\ idx' = Increment
               /\ UNCHANGED <<wild, parts, result>>
      BY <2>0, <2>2, <2>4, <3>4 DEF Increment, Iterate
    <3> QED BY <2>4, <3>1, <3>2, <3>3, <3>4 DEF Iterate
  <2>5. CASE Finish
    <3>1. idx = Len(parts) + 1 /\ idx' = idx
      BY <1>0, <2>5 DEF Finish, Return
    <3>2. FilterUsedUp <=> Covers(wild, parts)
      <4>1. CASE wild[Len(wild)] = "#"
        <5>1. idx <= Len(wild)
          BY <1>0, <2>1, <4>1
        <5>2. FilterUsedUp <=> idx = Len(wild)
          BY <1>0, <4>1, <5>1 DEF FilterUsedUp
        <5>3. Covers(wild, parts) <=> idx >= Len(wild)
          BY <1>0, <2>1, <3>1, <4>1, <5>1 DEF Covers
        <5> QED BY <1>0, <5>1, <5>2, <5>3
      <4>2. CASE wild[Len(wild)] # "#"
        <5>1. FilterUsedUp <=> idx = Len(wild) + 1
          BY <4>2 DEF FilterUsedUp
        <5>2. Covers(wild, parts) <=> idx = Len(wild) + 1
          BY <1>0, <2>1, <3>1, <4>2 DEF Covers
        <5> QED BY <5>1, <5>2
      <4> QED BY <4>1, <4>2
    <3>3. result' = IF FilterUsedUp THEN "true" ELSE "false"
      BY <2>5 DEF Finish, Return
    <3> QED BY <2>3, <3>1, <3>2, <3>3
  <2> QED BY <1>2, <2>4, <2>5, SMTT(30) DEF MatchNext
<1> QED BY <1>1, <1>2

(* For topics and filters of every length, matches() never indexes a slice *)
(* out of range.                                                           *)
THEOREM MatchesInRange == MatchSpec => []InRange
<1>1. LoopInv => InRange
  BY DEF LoopInv
<1> QED BY <1>1, MatcherInit, MatcherStep, PTL DEF MatchSpec

(* For topics and filters of every length, matches() returns what the      *)
(* filter means.                                                           *)
THEOREM MatchesIsCovers == MatchSpec => []ReturnsCovers
<1>1. LoopInv => ReturnsCovers
  BY DEF LoopInv
<1> QED BY <1>1, MatcherInit, MatcherStep, PTL DEF MatchSpec

=============================================================================
