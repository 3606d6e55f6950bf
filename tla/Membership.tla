----------------------------- MODULE Membership -----------------------------
(***************************************************************************)
(* What discovery promises to a cluster of brokers, whatever it does with  *)
(* etcd: nodes join and leave one at a time, and a node that joins is told *)
(* about all members.  It may also be told about nodes that are not in the *)
(* cluster yet, or not any more; dialling those fails.                     *)
(***************************************************************************)
CONSTANT Nodes

VARIABLES
  members,  \* the nodes in the cluster
  knows     \* the nodes that each member was told about when it joined

Init ==
  /\ members = {}
  /\ knows = [n \in Nodes |-> {}]

Join(n) ==
  /\ n \notin members
  /\ members' = members \cup {n}
  /\ \E told \in SUBSET (Nodes \ {n}) :
       /\ members \subseteq told
       /\ knows' = [knows EXCEPT ![n] = told]

Leave(n) ==
  /\ n \in members
  /\ members' = members \ {n}
  /\ knows' = [knows EXCEPT ![n] = {}]

Next == \E n \in Nodes : Join(n) \/ Leave(n)

Spec == Init /\ [][Next]_<<members, knows>>

=============================================================================
