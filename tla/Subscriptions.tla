--------------------------- MODULE Subscriptions ---------------------------
(***************************************************************************)
(* The subscription table of one broker and its workers (broker/subs.go):  *)
(* which messages reach which clients.  Module Broker is about the         *)
(* goroutines that wait for each other here; this one is about the data.   *)
(* The lists of subscribers are Go slices: subscribers() appends to one    *)
(* while others hold slices of the same backing array.  Job channels       *)
(* always have room, and a client is alive until it leaves.                *)
(***************************************************************************)
EXTENDS Topics, FiniteSets

CONSTANTS
  Clients,
  Nil,             \* a nil *incomingConn
  Filters,         \* what clients subscribe to
  Published,       \* the topics that are published to
  Kinds,           \* the kinds of messages: "plain", "retain" or "clear"
  Workers,         \* cf.Broker.SubscriptionsWorkers goroutines
  PostsLen,        \* cf.Broker.SubscriptionsQueueLen
  MaxSubscribes,   \* bound on the number of SUBSCRIBEs of all clients
  MaxMessages      \* bound on the number of messages

ASSUME SubscriptionsAssumption ==
  /\ Nil \notin Clients
  /\ Filters \subseteq Topic
  /\ Published \subseteq {t \in Topic : ~IsWildcard(t)}
  /\ Kinds \subseteq {"plain", "retain", "clear"}
  /\ IsFiniteSet(Workers)
  /\ PostsLen \in Nat \ {0}
  /\ {MaxSubscribes, MaxMessages} \subseteq Nat

VARIABLES
  heap,       \* the backing arrays, each as long as its capacity
  subs,       \* subs[topic]: a slice, that is an array and a length
  wildcards,  \* the filters with wildcards and their clients, by the number of
              \* the SUBSCRIBE: the list is in that order
  retain,     \* retain[topic]: the id of the message kept, or 0
  posts,      \* the queue of published messages
  pc,         \* where a worker is in run()
  msg,        \* the message that it handles
  res,        \* the slice that subscribers() makes and returns
  at,         \* the index in that slice, or before in the list of wildcards
  asking,     \* the filter whose retained message doSubscribe has yet to send
  gone,       \* clients that have left
  inbox,      \* what was submitted to each client
  \* What the clients know:
  messages,   \* all messages, in the order of their publication
  wants,      \* the filters that a client is subscribed to
  ever,       \* the filters that it was ever subscribed to
  stale,      \* messages that were handled when a later one to keep was published
  due,        \* subscribers of the message of a worker, since subscribers()
  nsub        \* the number of SUBSCRIBEs so far

table == <<heap, subs, wildcards>>
worker == <<pc, msg, res, at>>
known == <<messages, wants, ever, stale, nsub>>
vars == <<heap, subs, wildcards, retain, posts, pc, msg, res, at, asking, gone,
          inbox, messages, wants, ever, stale, due, nsub>>

Names == Published \cup {f \in Filters : ~IsWildcard(f)}

NilSlice == [a |-> 0, n |-> 0]

NoMessage == [id |-> 0, topic |-> <<>>, kind |-> "plain"]

Init ==
  /\ heap = <<>>
  /\ subs = [t \in Names |-> NilSlice]
  /\ wildcards = <<>>
  /\ retain = [t \in Names |-> 0]
  /\ posts = <<>>
  /\ pc = [w \in Workers |-> "idle"]
  /\ msg = [w \in Workers |-> NoMessage]
  /\ res = [w \in Workers |-> NilSlice]
  /\ at = [w \in Workers |-> 1]
  /\ asking = [c \in Clients |-> <<>>]
  /\ gone = {}
  /\ inbox = [c \in Clients |-> <<>>]
  /\ messages = <<>>
  /\ wants = [c \in Clients |-> {}]
  /\ ever = [c \in Clients |-> {}]
  /\ stale = {}
  /\ due = [w \in Workers |-> [exact |-> {}, wild |-> {}]]
  /\ nsub = 0

----------------------------------------------------------------------------
(* Go slices                                                               *)

Cap(h, s) == IF s.a = 0 THEN 0 ELSE Len(h[s.a])

HasRoom(h, s) == s.n < Cap(h, s)

(* append(s, x): in place while there is capacity, else in a copy of twice *)
(* the capacity.                                                           *)
GoAppend(h, s, x) ==
  IF HasRoom(h, s)
  THEN [h |-> [h EXCEPT ![s.a][s.n + 1] = x],
        s |-> [s EXCEPT !.n = @ + 1]]
  ELSE [h |-> Append(h, [k \in 1..(IF s.n = 0 THEN 1 ELSE 2 * s.n) |->
                           IF k <= s.n THEN h[s.a][k] ELSE IF k = s.n + 1 THEN x ELSE Nil]),
        s |-> [a |-> Len(h) + 1, n |-> s.n + 1]]

Slots(h, s) == {h[s.a][k] : k \in 1..s.n}

(* Set the elements of the slices to nil where they are c.                 *)
Cleared(slices, c) ==
  [a \in DOMAIN heap |->
     [k \in DOMAIN heap[a] |->
        IF heap[a][k] = c /\ \E s \in slices : s.a = a /\ k <= s.n THEN Nil ELSE heap[a][k]]]

----------------------------------------------------------------------------
(* The calls that the request handlers make.                               *)

(* Nobody holds mu, which all but subscribers() take for one step.         *)
Unlocked == \A w \in Workers : pc[w] # "look"

(* Mutant: w.valid() is not asked.                                         *)
AcceptsAny(f) == TRUE

Accepts(f) == Valid(f)

(* add(), as the first half of doSubscribe.  Filters with wildcards go to  *)
(* a list of their own, or nowhere if they are not valid.                  *)
Add(c, f) ==
  /\ Unlocked
  /\ c \notin gone
  /\ asking[c] = <<>>
  /\ nsub < MaxSubscribes
  /\ nsub' = nsub + 1
  /\ IF IsWildcard(f)
     THEN /\ wildcards' = IF Accepts(f)
                          THEN [k \in DOMAIN wildcards \cup {nsub'} |->
                                  IF k = nsub' THEN [wild |-> f, c |-> c] ELSE wildcards[k]]
                          ELSE wildcards
          /\ UNCHANGED <<heap, subs>>
     ELSE /\ LET new == GoAppend(heap, subs[f], c) IN
               /\ heap' = new.h
               /\ subs' = [subs EXCEPT ![f] = new.s]
          /\ UNCHANGED wildcards
  /\ asking' = [asking EXCEPT ![c] = f]
  /\ wants' = [wants EXCEPT ![c] = @ \cup {f}]
  /\ ever' = [ever EXCEPT ![c] = @ \cup {f}]
  /\ UNCHANGED <<retain, posts, worker, gone, inbox, messages, stale, due>>

(* Mutant: each message is handed over by a goroutine of its own, and they *)
(* get through in any order.                                               *)
SubmitLater(c, id, retained) ==
  \E n \in 0..Len(inbox[c]) :
    inbox' = [inbox EXCEPT ![c] = SubSeq(@, 1, n) \o <<[id |-> id, retained |-> retained]>>
                                    \o SubSeq(@, n + 1, Len(@))]

Submit(c, id, retained) ==
  inbox' = [inbox EXCEPT ![c] = Append(@, [id |-> id, retained |-> retained])]

(* sendRetain(), the second half.  Nothing is kept under a wildcard, and a *)
(* client that has left gets nothing.                                      *)
SendRetain(c) ==
  /\ Unlocked
  /\ asking[c] # <<>>
  /\ asking' = [asking EXCEPT ![c] = <<>>]
  /\ IF c \notin gone /\ ~IsWildcard(asking[c]) /\ retain[asking[c]] # 0
     THEN Submit(c, retain[asking[c]], TRUE)
     ELSE UNCHANGED inbox
  /\ UNCHANGED <<table, retain, posts, worker, gone, known, due>>

(* Mutant: the list is dropped as soon as it has a hole.                   *)
HasNil(slots) == Nil \in slots

(* There are as many nils as elements.                                     *)
AllNil(slots) == slots \subseteq {Nil}

(* unsub() looks for the very filter, and only in subs.                    *)
Unsub(c, f) ==
  /\ Unlocked
  /\ c \notin gone
  /\ asking[c] = <<>>
  /\ f \in wants[c]
  /\ IF f \in Names
     THEN /\ heap' = Cleared({subs[f]}, c)
          /\ subs' = IF AllNil(Slots(heap', subs[f]))
                     THEN [subs EXCEPT ![f] = NilSlice] ELSE subs
     ELSE UNCHANGED <<heap, subs>>
  /\ wants' = [wants EXCEPT ![c] = @ \ {f}]
  /\ due' = [w \in Workers |->
               IF msg[w].topic = f THEN [due[w] EXCEPT !.exact = @ \ {c}]
               ELSE IF IsWildcard(f) /\ Valid(f) THEN [due[w] EXCEPT !.wild = @ \ {c}]
               ELSE due[w]]
  /\ UNCHANGED <<wildcards, retain, posts, worker, asking, gone, inbox, messages, ever,
                 stale, nsub>>

(* unsubAll() at the end of a session, whatever its handler is doing.      *)
UnsubAll(c) ==
  /\ Unlocked
  /\ c \notin gone
  /\ heap' = Cleared({subs[t] : t \in Names}, c)
  /\ wildcards' = [k \in {j \in DOMAIN wildcards : wildcards[j].c # c} |-> wildcards[k]]
  /\ gone' = gone \cup {c}
  /\ wants' = [wants EXCEPT ![c] = {}]
  /\ UNCHANGED <<subs, retain, posts, worker, asking, inbox, messages, ever, stale, due,
                 nsub>>

(* The messages to keep, or to delete what is kept, under t.               *)
Retaining(t) ==
  {k \in 1..Len(messages) : messages[k].topic = t /\ messages[k].kind # "plain"}

(* The messages that no worker has handled to the end.                     *)
UnderWay ==
  {posts[k].id : k \in 1..Len(posts)}
    \cup {msg[w].id : w \in {v \in Workers : pc[v] \in {"got", "look", "fan"}}}

(* submit(), from a client of this broker or from a peer.                  *)
Publish(t, kind) ==
  /\ Len(messages) < MaxMessages
  /\ Len(posts) < PostsLen
  /\ LET m == [id |-> Len(messages) + 1, topic |-> t, kind |-> kind] IN
       /\ messages' = Append(messages, m)
       /\ posts' = Append(posts, m)
  /\ stale' = IF kind = "plain" THEN stale ELSE stale \cup (Retaining(t) \ UnderWay)
  /\ UNCHANGED <<table, retain, worker, asking, gone, inbox, wants, ever, due, nsub>>

----------------------------------------------------------------------------
(* run()                                                                   *)

TakePost(w) ==
  /\ pc[w] = "idle"
  /\ posts # <<>>
  /\ msg' = [msg EXCEPT ![w] = Head(posts)]
  /\ posts' = Tail(posts)
  /\ pc' = [pc EXCEPT ![w] = "got"]
  /\ UNCHANGED <<table, retain, res, at, asking, gone, inbox, known, due>>

(* A retained message without payload deletes what is kept, and the worker *)
(* returns.                                                                *)
ClearRetain(w) ==
  /\ Unlocked
  /\ pc[w] = "got"
  /\ msg[w].kind = "clear"
  /\ retain' = [retain EXCEPT ![msg[w].topic] = 0]
  /\ pc' = [pc EXCEPT ![w] = "dead"]
  /\ UNCHANGED <<table, posts, msg, res, at, asking, gone, inbox, known, due>>

(* Mutant: matches() is not asked.                                         *)
AnyFilter(x, topic) == TRUE

Matches(x, topic) == Covers(x.wild, topic)

(* subscribers() locks mu and begins with the list of the topic ...        *)
Subscribers(w) ==
  /\ Unlocked
  /\ pc[w] = "got"
  /\ msg[w].kind # "clear"
  /\ LET topic == msg[w].topic IN
       /\ res' = [res EXCEPT ![w] = subs[topic]]
       /\ due' = [due EXCEPT ![w] =
            [exact |-> {c \in Clients : topic \in wants[c]},
             wild  |-> {c \in Clients : \E f \in wants[c] :
                          IsWildcard(f) /\ Valid(f) /\ Covers(f, topic)}]]
  /\ at' = [at EXCEPT ![w] = 1]
  /\ pc' = [pc EXCEPT ![w] = "look"]
  /\ UNCHANGED <<table, retain, posts, msg, asking, gone, inbox, known>>

Matching(w) == {k \in DOMAIN wildcards : k >= at[w] /\ Matches(wildcards[k], msg[w].topic)}

(* ... appends the client of each wildcard that matches, in turn ...       *)
AppendWild(w) ==
  /\ pc[w] = "look"
  /\ \E k \in Matching(w) :
       /\ \A j \in Matching(w) : k <= j
       /\ LET new == GoAppend(heap, res[w], wildcards[k].c) IN
            /\ heap' = new.h
            /\ res' = [res EXCEPT ![w] = new.s]
       /\ at' = [at EXCEPT ![w] = k + 1]
  /\ UNCHANGED <<subs, wildcards, retain, posts, pc, msg, asking, gone, inbox, known, due>>

(* ... and unlocks mu.                                                     *)
LookedUp(w) ==
  /\ pc[w] = "look"
  /\ Matching(w) = {}
  /\ at' = [at EXCEPT ![w] = 1]
  /\ pc' = [pc EXCEPT ![w] = "fan"]
  /\ UNCHANGED <<table, retain, posts, msg, res, asking, gone, inbox, known, due>>

(* The next element of the slice: nil, a dead client, or one to submit to. *)
Deliver(w) ==
  /\ pc[w] = "fan"
  /\ at[w] <= res[w].n
  /\ LET c == heap[res[w].a][at[w]] IN
       IF c \in Clients \ gone THEN Submit(c, msg[w].id, FALSE) ELSE UNCHANGED inbox
  /\ at' = [at EXCEPT ![w] = @ + 1]
  /\ UNCHANGED <<table, retain, posts, pc, msg, res, asking, gone, known, due>>

FannedOut(w) == pc[w] = "fan" /\ at[w] > res[w].n

(* Mutant: what is kept is not replaced.                                   *)
KeepFirst(t, id) == IF retain[t] = 0 THEN id ELSE retain[t]

Keep(t, id) == id

FinishPost(w) ==
  /\ FannedOut(w)
  /\ msg[w].kind = "retain" => Unlocked
  /\ retain' = IF msg[w].kind = "retain"
               THEN [retain EXCEPT ![msg[w].topic] = Keep(msg[w].topic, msg[w].id)]
               ELSE retain
  /\ pc' = [pc EXCEPT ![w] = "idle"]
  /\ msg' = [msg EXCEPT ![w] = NoMessage]
  /\ UNCHANGED <<table, posts, res, at, asking, gone, inbox, known, due>>

Next ==
  \/ \E c \in Clients, f \in Filters : Add(c, f) \/ Unsub(c, f)
  \/ \E c \in Clients : SendRetain(c) \/ UnsubAll(c)
  \/ \E t \in Published, kind \in Kinds : Publish(t, kind)
  \/ \E w \in Workers : \/ TakePost(w) \/ ClearRetain(w)
                        \/ Subscribers(w) \/ AppendWild(w) \/ LookedUp(w)
                        \/ Deliver(w) \/ FinishPost(w)

Spec == Init /\ [][Next]_vars

----------------------------------------------------------------------------
(* Properties                                                              *)

IsPublished(m) == m.id \in 1..Len(messages) /\ messages[m.id] = m

(* Slices stay within their arrays, and what is kept was published.        *)
TypeOK ==
  /\ heap \in Seq(Seq(Clients \cup {Nil}))
  /\ \A s \in {subs[t] : t \in Names} \cup {res[w] : w \in Workers} :
       s.a \in 0..Len(heap) /\ s.n <= Cap(heap, s)
  /\ \A k \in DOMAIN wildcards :
       /\ k \in 1..nsub
       /\ wildcards[k] \in [wild : {f \in Filters : IsWildcard(f) /\ Valid(f)}, c : Clients]
  /\ retain \in [Names -> 0..Len(messages)]
  /\ Len(posts) <= PostsLen /\ \A k \in 1..Len(posts) : IsPublished(posts[k])
  /\ pc \in [Workers -> {"idle", "got", "look", "fan", "dead"}]
  /\ \A w \in Workers : msg[w] = NoMessage \/ IsPublished(msg[w])
  /\ at \in [Workers -> Nat]
  /\ asking \in [Clients -> Filters \cup {<<>>}]
  /\ gone \subseteq Clients
  /\ \A c \in Clients : inbox[c] \in Seq([id : 1..Len(messages), retained : BOOLEAN])

Live(c) == {inbox[c][k].id : k \in {j \in 1..Len(inbox[c]) : ~inbox[c][j].retained}}

(* A client that subscribed to a topic by its name, before a worker looked *)
(* up the subscribers, and that stays, gets the message: the holes, the    *)
(* dropped lists and the shared arrays never cost it one.                  *)
ExactDelivered ==
  \A w \in Workers : FannedOut(w) =>
    \A c \in due[w].exact \ gone : msg[w].id \in Live(c)

(* Nobody gets a message of a topic that no filter of theirs has covered,  *)
(* although workers send to whatever a shared array holds by then.         *)
NoStrangeMessage ==
  \A c \in Clients : \A k \in 1..Len(inbox[c]) :
    \E f \in ever[c] : LET topic == messages[inbox[c][k].id].topic IN
      f = topic \/ (IsWildcard(f) /\ Covers(f, topic))

(* The messages that client c gets after the one at position j, although   *)
(* they were published before it.                                          *)
Overtaken(c, j) ==
  {inbox[c][k].id : k \in {i \in j + 1..Len(inbox[c]) :
                             ~inbox[c][i].retained /\ inbox[c][i].id < inbox[c][j].id}}

(* A message comes to a client ahead of fewer earlier ones than there are  *)
(* workers, however long a worker takes over its own in run(): one worker  *)
(* keeps the order.                                                        *)
OvertakesFew ==
  \A c \in Clients : \A j \in 1..Len(inbox[c]) :
    ~inbox[c][j].retained => Cardinality(Overtaken(c, j)) < Cardinality(Workers)

KeptFor(k) == IF messages[k].kind = "clear" THEN 0 ELSE k

(* Workers that handle retained messages of one topic together leave what  *)
(* one of them keeps or deletes, never what was handled before the last of *)
(* them was published.                                                     *)
RetainedIsRecent ==
  \A t \in Names : Retaining(t) \cap UnderWay = {} =>
    IF Retaining(t) = {} THEN retain[t] = 0
    ELSE \E k \in Retaining(t) \ stale : retain[t] = KeptFor(k)

----------------------------------------------------------------------------
(* What comments and documents say, and the code does not always do: the   *)
(* README beside this module names an instance that shows each (Known      *)
(* departures).                                                            *)

(* "a client PUBLISH ... will be pushed to all the topic subscribers"      *)
(* (README.md:83): those with a wildcard get the message as well.          *)
WildcardDelivered ==
  \A w \in Workers : FannedOut(w) =>
    \A c \in due[w].wild \ gone : msg[w].id \in Live(c)

(* "Remove the subscription to topic for a given connection" (subs.go:149) *)
(* leaves no entry of a client that has unsubscribed.                      *)
UnsubRemoves ==
  \A k \in DOMAIN wildcards : wildcards[k].wild \in wants[wildcards[k].c]

(* Each client gets new messages in the order of their publication, as the *)
(* feeder needs it ("For a given user's msg, must be ordered",             *)
(* cmd/feeder/README.md:6).                                                *)
Ordered ==
  \A c \in Clients : \A j \in 1..Len(inbox[c]) :
    ~inbox[c][j].retained => Overtaken(c, j) = {}

(* "retain is 'last known good value'" (README.md:124): with no retained   *)
(* message of a topic under way, the last one that was published is kept,  *)
(* or none after an empty one.                                             *)
RetainedIsLast ==
  \A t \in Names : Retaining(t) # {} /\ Retaining(t) \cap UnderWay = {} =>
    retain[t] = KeptFor(CHOOSE k \in Retaining(t) : \A j \in Retaining(t) : j <= k)

(* "when the late arrivers ... create a new subscription they get all the  *)
(* relevant retained messages" (README.md:125): at rest, every subscriber  *)
(* of a topic has got the message that is kept for it, one way or another. *)
RetainedReachesAll ==
  \A c \in Clients \ gone : \A t \in wants[c] \cap Names :
    asking[c] = <<>> /\ Retaining(t) \cap UnderWay = {} /\ retain[t] # 0
      => \E k \in 1..Len(inbox[c]) : inbox[c][k].id = retain[t]

=============================================================================
