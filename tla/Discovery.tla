----------------------------- MODULE Discovery -----------------------------
(***************************************************************************)
(* How broker nodes find each other through etcd (cluster/discovery.go).   *)
(* A node registers itself, tries to become the initial leader by creating *)
(* the key _state, and otherwise reads the list of all registered nodes.   *)
(* A background goroutine renews the registration.  etcd is external: its  *)
(* calls are atomic, may fail, and do not list the hidden key _state.      *)
(***************************************************************************)
EXTENDS Naturals, FiniteSets

CONSTANTS
  Nodes,
  EtcdMayFail,   \* whether calls of etcd may return an unexpected error
  MaxCrashes     \* bound on the crashes of nodes

ASSUME DiscoveryAssumption == EtcdMayFail \in BOOLEAN /\ MaxCrashes \in Nat

VARIABLES
  pc,          \* where a node is in Do()
  beating,     \* nodes whose startHeartbeat goroutine runs
  registered,  \* etcd: the keys of nodes
  lapsed,      \* running nodes whose key has expired since they started
  state,       \* etcd: whether _state exists
  found,       \* the peers that Do() returned
  crashes,     \* the number of crashes so far
  errors       \* whether a call of etcd has failed so far

vars == <<pc, beating, registered, lapsed, state, found, crashes, errors>>

Init ==
  /\ pc = [n \in Nodes |-> "start"]
  /\ beating = {}
  /\ registered = {}
  /\ lapsed = {}
  /\ state = FALSE
  /\ found = [n \in Nodes |-> {}]
  /\ crashes = 0
  /\ errors = FALSE

Goto(n, to) == pc' = [pc EXCEPT ![n] = to]

(* A call of etcd returns an error, and Do() returns it.                   *)
EtcdFails(n) ==
  /\ EtcdMayFail
  /\ errors' = TRUE
  /\ Goto(n, "failed")

(* Mutant: only the goroutine registers the node.                          *)
RegisterLater(n) ==
  /\ pc[n] = "start"
  /\ \/ /\ beating' = beating \cup {n}
        /\ Goto(n, "create")
        /\ UNCHANGED errors
     \/ EtcdFails(n) /\ UNCHANGED beating
  /\ UNCHANGED <<registered, lapsed, state, found, crashes>>

(* heartbeat() in Do(): without it there is no registration, and no        *)
(* goroutine to renew it.  A failed Set may have been applied.             *)
Register(n) ==
  /\ pc[n] = "start"
  /\ \/ /\ registered' = registered \cup {n}
        /\ beating' = beating \cup {n}
        /\ Goto(n, "create")
        /\ UNCHANGED errors
     \/ /\ EtcdFails(n)
        /\ registered' \in {registered, registered \cup {n}}
        /\ UNCHANGED beating
  /\ UNCHANGED <<lapsed, state, found, crashes>>

(* Create(_state) succeeds: the node is the leader and has no peers.       *)
Lead(n) ==
  /\ pc[n] = "create"
  /\ ~state
  /\ state' = TRUE
  /\ Goto(n, "leader")
  /\ UNCHANGED <<beating, registered, lapsed, found, crashes, errors>>

(* Create(_state) says that the key exists, or fails in another way, in    *)
(* which case it may have been applied.                                    *)
Follow(n) ==
  /\ pc[n] = "create"
  /\ \/ state /\ Goto(n, "find") /\ UNCHANGED <<state, errors>>
     \/ EtcdFails(n) /\ state' \in {state, TRUE}
  /\ UNCHANGED <<beating, registered, lapsed, found, crashes>>

(* The listed nodes but for the own entry.                                 *)
Others(n) == registered \ {n}

(* Mutant: the first of the other nodes stands for all.                    *)
FindOne(n) ==
  /\ pc[n] = "find"
  /\ \/ /\ \E m \in Others(n) : found' = [found EXCEPT ![n] = {m}]
        /\ Goto(n, "member")
        /\ UNCHANGED errors
     \/ Others(n) = {} /\ Goto(n, "failed") /\ UNCHANGED <<found, errors>>
     \/ EtcdFails(n) /\ UNCHANGED found
  /\ UNCHANGED <<beating, registered, lapsed, state, crashes>>

(* findPeers(): no peers is an error, as is a failed Get.                  *)
FindPeers(n) ==
  /\ pc[n] = "find"
  /\ \/ /\ Others(n) # {}
        /\ found' = [found EXCEPT ![n] = Others(n)]
        /\ Goto(n, "member")
        /\ UNCHANGED errors
     \/ Others(n) = {} /\ Goto(n, "failed") /\ UNCHANGED <<found, errors>>
     \/ EtcdFails(n) /\ UNCHANGED found
  /\ UNCHANGED <<beating, registered, lapsed, state, crashes>>

(* Mutant: every renewal also replaces the list of peers.                  *)
HeartbeatFinds(n) ==
  /\ n \in beating
  /\ registered' = registered \cup {n}
  /\ found' = [found EXCEPT ![n] = Others(n)]
  /\ UNCHANGED <<pc, beating, lapsed, state, crashes, errors>>

(* startHeartbeat renews the registration, whatever Do() returned.  A      *)
(* failure is only logged.                                                 *)
Heartbeat(n) ==
  /\ n \in beating
  /\ \/ registered' = registered \cup {n} /\ UNCHANGED errors
     \/ /\ EtcdMayFail
        /\ errors' = TRUE
        /\ registered' \in {registered, registered \cup {n}}
  /\ UNCHANGED <<pc, beating, lapsed, state, found, crashes>>

(* The process ends.  It may be started again at any time.                 *)
Crash(n) ==
  /\ pc[n] # "start"
  /\ crashes < MaxCrashes
  /\ crashes' = crashes + 1
  /\ beating' = beating \ {n}
  /\ lapsed' = lapsed \ {n}
  /\ Goto(n, "start")
  /\ found' = [found EXCEPT ![n] = {}]
  /\ UNCHANGED <<registered, state, errors>>

(* A registration that is not renewed for defaultTTL is removed by etcd.   *)
(* Eight renewals fit into that time, so those of a running node must have *)
(* failed.                                                                 *)
Expire(n) ==
  /\ n \in registered
  /\ n \in beating => errors
  /\ registered' = registered \ {n}
  /\ lapsed' = lapsed \cup ({n} \cap beating)
  /\ UNCHANGED <<pc, beating, state, found, crashes, errors>>

Step(n) ==
  \/ Register(n) \/ Lead(n) \/ Follow(n) \/ FindPeers(n)
  \/ Heartbeat(n) \/ Crash(n) \/ Expire(n)

Next == \E n \in Nodes : Step(n)

Spec == Init /\ [][Next]_vars

----------------------------------------------------------------------------
(* Properties                                                              *)

(* Every variable keeps its type, and a node is no peer of its own.        *)
TypeOK ==
  /\ pc \in [Nodes -> {"start", "create", "find", "leader", "member", "failed"}]
  /\ beating \subseteq Nodes
  /\ registered \subseteq Nodes
  /\ lapsed \subseteq Nodes
  /\ state \in BOOLEAN
  /\ found \in [Nodes -> SUBSET Nodes]
  /\ \A n \in Nodes : n \notin found[n]
  /\ crashes \in Nat
  /\ errors \in BOOLEAN

Ready(n) == pc[n] \in {"leader", "member"}

(* A member can be found through etcd as long as its key has not expired.  *)
Member(n) == Ready(n) /\ n \notin lapsed

Introduced(m, n) == m \in found[n] \/ n \in found[m]

(* Of any two nodes that Do() has let into the cluster, and that are still *)
(* in it with their keys renewed, at least one was told about the other,   *)
(* in whatever order they came, and with others crashing, expiring and     *)
(* coming back in between.  So a connection between them can be made.      *)
PairsIntroduced ==
  \A m, n \in Nodes : m # n /\ Member(m) /\ Member(n) => Introduced(m, n)

(* A node is turned away only after something has gone wrong: as long as   *)
(* no call of etcd has failed and no node has crashed, Do() succeeds for   *)
(* everybody, whoever is the first and however the calls interleave.  The  *)
(* crash of the only other member is enough for Do() to fail, because      *)
(* _state stays in etcd.                                                   *)
JoinsUnlessFault ==
  (\E n \in Nodes : pc[n] = "failed") => errors \/ crashes > 0

(* What Do() promises to the cluster: every node that it lets in has been  *)
(* told about every member there is at that moment.                        *)
Abstract == INSTANCE Membership WITH
              members <- {n \in Nodes : Member(n)},
              knows <- [n \in Nodes |-> IF Member(n) THEN found[n] ELSE {}]

JoinsInformed == Abstract!Spec

----------------------------------------------------------------------------
(* What comments and documents say, and the code does not always do: the   *)
(* README beside this module names an instance that shows each (Known      *)
(* departures).                                                            *)

(* "new broker node automatically joins a cluster" (README.md:86): Do()    *)
(* does not fail as long as etcd does not.                                 *)
Joins == \A n \in Nodes : pc[n] # "failed"

(* "In case of errors we should attempt to heartbeat fairly frequently"    *)
(* (discovery.go:115): failing renewals do not keep two nodes apart.       *)
AllPairsIntroduced ==
  \A m, n \in Nodes : m # n /\ Ready(m) /\ Ready(n) => Introduced(m, n)

=============================================================================
