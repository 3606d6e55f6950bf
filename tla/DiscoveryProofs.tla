-------------------------- MODULE DiscoveryProofs --------------------------
(***************************************************************************)
(* Discovery introduces the nodes of a cluster of any size, with any       *)
(* number of crashes.                                                      *)
(***************************************************************************)
EXTENDS Discovery, TLAPS

(* A node on its way into the cluster renews its registration, which is    *)
(* there unless it has lapsed; while there is no _state, nobody is in the  *)
(* cluster or looks for peers.                                             *)
DiscoveryInv ==
  /\ TypeOK
  /\ \A n \in Nodes : pc[n] \in {"create", "find", "leader", "member"} => n \in beating
  /\ beating \ lapsed \subseteq registered
  /\ ~state => \A n \in Nodes : pc[n] \notin {"find", "leader", "member"}
  /\ PairsIntroduced

LEMMA DiscoveryInit == Init => DiscoveryInv
<1> SUFFICES ASSUME Init PROVE DiscoveryInv
  OBVIOUS
<1>1. \A n \in Nodes : pc[n] = "start" /\ found[n] = {}
  BY DEF Init
<1>2. TypeOK
  BY <1>1, Zenon DEF Init, TypeOK
<1> QED BY <1>1, <1>2 DEF Init, DiscoveryInv, PairsIntroduced, Ready, Member

LEMMA DiscoveryStep == DiscoveryInv /\ [Next]_vars => DiscoveryInv'
<1> SUFFICES ASSUME DiscoveryInv, [Next]_vars PROVE DiscoveryInv'
  OBVIOUS
<1>0. /\ pc \in [Nodes -> {"start", "create", "find", "leader", "member", "failed"}]
      /\ beating \subseteq Nodes /\ registered \subseteq Nodes /\ lapsed \subseteq Nodes
      /\ state \in BOOLEAN
      /\ found \in [Nodes -> SUBSET Nodes] /\ crashes \in Nat /\ errors \in BOOLEAN
      /\ \A n \in Nodes : n \notin found[n]
  BY DEF DiscoveryInv, TypeOK
<1>i. /\ \A n \in Nodes : pc[n] \in {"create", "find", "leader", "member"} => n \in beating
      /\ beating \ lapsed \subseteq registered
      /\ ~state => \A n \in Nodes : pc[n] \notin {"find", "leader", "member"}
      /\ \A m, n \in Nodes : m # n /\ Member(m) /\ Member(n) => Introduced(m, n)
  BY DEF DiscoveryInv, PairsIntroduced
<1>1. CASE UNCHANGED vars
  BY <1>0, <1>i, <1>1 DEF vars, DiscoveryInv, TypeOK, PairsIntroduced, Ready, Member, Introduced
<1>2. ASSUME NEW n \in Nodes, Register(n) PROVE DiscoveryInv'
  BY <1>0, <1>i, <1>2, ZenonT(60)
     DEF Register, EtcdFails, Goto, DiscoveryInv, TypeOK, PairsIntroduced, Ready, Member, Introduced
<1>3. ASSUME NEW n \in Nodes, Lead(n) PROVE DiscoveryInv'
  <2>1. \A m \in Nodes : Member(m)' => m = n
    BY <1>0, <1>i, <1>3 DEF Lead, Goto, Ready, Member
  <2> QED BY <1>0, <1>i, <1>3, <2>1 DEF Lead, Goto, DiscoveryInv, TypeOK, PairsIntroduced
<1>4. ASSUME NEW n \in Nodes, Follow(n) PROVE DiscoveryInv'
  <2>1. state' \in BOOLEAN /\ (state => state')
    BY <1>0, <1>4, Zenon DEF Follow
  <2>2. UNCHANGED <<beating, registered, lapsed, found, crashes>> /\ errors' \in BOOLEAN
    BY <1>0, <1>4, Zenon DEF Follow, EtcdFails
  <2>3. /\ pc' \in [Nodes -> {"start", "create", "find", "leader", "member", "failed"}]
        /\ pc[n] = "create"
        /\ pc'[n] \in {"find", "failed"}
        /\ \A m \in Nodes \ {n} : pc'[m] = pc[m]
    BY <1>0, <1>4, Zenon DEF Follow, EtcdFails, Goto
  <2>4. pc'[n] = "find" => state'
    BY <1>0, <1>4, Zenon DEF Follow, EtcdFails, Goto
  <2>5. TypeOK'
    BY <1>0, <2>1, <2>2, <2>3 DEF TypeOK
  <2>6. \A m \in Nodes : pc'[m] \in {"create", "find", "leader", "member"} => m \in beating'
    BY <1>i, <2>2, <2>3
  <2>7. ~state' => \A m \in Nodes : pc'[m] \notin {"find", "leader", "member"}
    BY <1>i, <2>1, <2>3, <2>4
  <2>8. PairsIntroduced'
    <3>1. \A m \in Nodes : Member(m)' => Member(m)
      BY <2>2, <2>3 DEF Ready, Member
    <3> QED BY <1>i, <2>2, <3>1 DEF PairsIntroduced, Introduced
  <2> QED BY <1>i, <2>2, <2>5, <2>6, <2>7, <2>8 DEF DiscoveryInv
<1>5. ASSUME NEW n \in Nodes, FindPeers(n) PROVE DiscoveryInv'
  <2>1. \A m \in Nodes : m # n /\ Member(m) => m \in Others(n)
    BY <1>i DEF Ready, Member, Others
  <2>2. \A k, m \in Nodes : k # m /\ Member(k)' /\ Member(m)' => Introduced(k, m)'
    <3>1. \A m \in Nodes \ {n} : (Member(m)' <=> Member(m)) /\ found'[m] = found[m]
      BY <1>0, <1>5 DEF FindPeers, EtcdFails, Goto, Ready, Member
    <3>2. Member(n)' => found'[n] = Others(n)
      BY <1>0, <1>5 DEF FindPeers, EtcdFails, Goto, Ready, Member
    <3> QED BY <1>i, <2>1, <3>1, <3>2 DEF Introduced
  <2>3. /\ found' \in [Nodes -> SUBSET Nodes]
        /\ \A m \in Nodes : m \notin found'[m]
    BY <1>0, <1>5 DEF FindPeers, EtcdFails, Others
  <2> QED BY <1>0, <1>i, <1>5, <2>2, <2>3, Zenon DEF FindPeers, EtcdFails, Goto, DiscoveryInv, TypeOK, PairsIntroduced
<1>6. ASSUME NEW n \in Nodes, Heartbeat(n) \/ Expire(n) PROVE DiscoveryInv'
  <2>1. /\ UNCHANGED <<pc, beating, state, found, crashes>> /\ errors' \in BOOLEAN
        /\ lapsed \subseteq lapsed'
    BY <1>0, <1>6, Zenon DEF Heartbeat, Expire
  <2>2. registered' \subseteq Nodes /\ lapsed' \subseteq Nodes /\ beating' \ lapsed' \subseteq registered'
    BY <1>0, <1>i, <1>6 DEF Heartbeat, Expire
  <2>3. TypeOK'
    BY <1>0, <2>1, <2>2 DEF TypeOK
  <2>4. PairsIntroduced'
    BY <1>i, <2>1 DEF PairsIntroduced, Ready, Member, Introduced
  <2> QED BY <1>i, <2>1, <2>2, <2>3, <2>4 DEF DiscoveryInv
<1>7. ASSUME NEW n \in Nodes, Crash(n) PROVE DiscoveryInv'
  <2>1. ~Member(n)' /\ \A m \in Nodes \ {n} : (Member(m)' <=> Member(m)) /\ found'[m] = found[m]
    BY <1>0, <1>7 DEF Crash, Goto, Ready, Member
  <2>2. PairsIntroduced'
    BY <1>i, <2>1 DEF PairsIntroduced, Introduced
  <2> QED BY <1>0, <1>i, <1>7, <2>2 DEF Crash, Goto, DiscoveryInv, TypeOK
<1> QED BY <1>1, <1>2, <1>3, <1>4, <1>5, <1>6, <1>7 DEF Next, Step

(* In a cluster of any size, of any two nodes that Do() has let in and     *)
(* whose keys are renewed, at least one was told about the other.          *)
THEOREM DiscoverySafe == Spec => [](TypeOK /\ PairsIntroduced)
<1>1. DiscoveryInv => TypeOK /\ PairsIntroduced
  BY DEF DiscoveryInv
<1> QED BY <1>1, DiscoveryInit, DiscoveryStep, PTL DEF Spec

(* Without a fault so far, _state was created by a node that is still the  *)
(* leader, nobody was turned away, and no running node's key has expired.  *)
FaultInv ==
  /\ JoinsUnlessFault
  /\ ~errors /\ crashes = 0 /\ state => \E n \in Nodes : pc[n] = "leader"
  /\ ~errors => lapsed = {}
  /\ \A n \in Nodes : ~Ready(n) => found[n] = {}

LEMMA FaultInit == Init => FaultInv
BY DEF Init, FaultInv, JoinsUnlessFault

LEMMA FaultStep == DiscoveryInv /\ FaultInv /\ [Next]_vars => FaultInv'
<1> SUFFICES ASSUME DiscoveryInv, FaultInv, [Next]_vars PROVE FaultInv'
  OBVIOUS
<1>0. /\ pc \in [Nodes -> {"start", "create", "find", "leader", "member", "failed"}]
      /\ found \in [Nodes -> SUBSET Nodes]
      /\ crashes \in Nat /\ errors \in BOOLEAN /\ state \in BOOLEAN
  BY DEF DiscoveryInv, TypeOK
<1>i. /\ \A n \in Nodes : pc[n] \in {"create", "find", "leader", "member"} => n \in beating
      /\ beating \ lapsed \subseteq registered
      /\ ~state => \A n \in Nodes : pc[n] \notin {"find", "leader", "member"}
  BY DEF DiscoveryInv
<1>f. /\ (\E n \in Nodes : pc[n] = "failed") => errors \/ crashes > 0
      /\ ~errors /\ crashes = 0 /\ state => \E n \in Nodes : pc[n] = "leader"
      /\ ~errors => lapsed = {}
      /\ \A n \in Nodes : ~Ready(n) => found[n] = {}
  BY DEF FaultInv, JoinsUnlessFault
<1>1. CASE UNCHANGED vars
  BY <1>f, <1>1 DEF vars, FaultInv, JoinsUnlessFault, Ready
<1>2. ASSUME NEW n \in Nodes, Register(n) PROVE FaultInv'
  <2>1. CASE EtcdFails(n)
    BY <1>0, <1>f, <1>2, <2>1 DEF Register, EtcdFails, Goto, FaultInv, JoinsUnlessFault, Ready
  <2>2. CASE Goto(n, "create") /\ UNCHANGED errors
    BY <1>0, <1>f, <1>2, <2>2 DEF Register, Goto, FaultInv, JoinsUnlessFault, Ready
  <2> QED BY <1>2, <2>1, <2>2 DEF Register
<1>3. ASSUME NEW n \in Nodes, Lead(n) PROVE FaultInv'
  BY <1>0, <1>f, <1>3 DEF Lead, Goto, FaultInv, JoinsUnlessFault, Ready
<1>4. ASSUME NEW n \in Nodes, Follow(n) PROVE FaultInv'
  <2>1. CASE EtcdFails(n)
    BY <1>0, <1>f, <1>4, <2>1 DEF Follow, EtcdFails, Goto, FaultInv, JoinsUnlessFault, Ready
  <2>2. CASE Goto(n, "find") /\ UNCHANGED <<state, errors>>
    BY <1>0, <1>f, <1>4, <2>2 DEF Follow, Goto, FaultInv, JoinsUnlessFault, Ready
  <2> QED BY <1>4, <2>1, <2>2, Zenon DEF Follow
<1>5. ASSUME NEW n \in Nodes, FindPeers(n) PROVE FaultInv'
  <2>1. CASE EtcdFails(n)
    BY <1>0, <1>f, <1>5, <2>1, Zenon DEF FindPeers, EtcdFails, Goto, FaultInv, JoinsUnlessFault, Ready
  <2>2. CASE Others(n) = {} /\ Goto(n, "failed") /\ UNCHANGED <<found, errors>>
    <3>1. errors \/ crashes > 0
      <4> SUFFICES ASSUME ~errors, crashes = 0 PROVE FALSE
        BY <1>0
      <4>1. pc[n] = "find" /\ state
        BY <1>0, <1>i, <1>5 DEF FindPeers
      <4>2. PICK l \in Nodes : pc[l] = "leader"
        BY <1>f, <4>1
      <4>3. l # n /\ l \in registered
        BY <1>i, <1>f, <4>1, <4>2
      <4> QED BY <2>2, <4>3 DEF Others
    <3> QED BY <1>0, <1>f, <1>5, <2>2, <3>1
            DEF FindPeers, Goto, FaultInv, JoinsUnlessFault, Ready
  <2>3. CASE /\ found' = [found EXCEPT ![n] = Others(n)]
             /\ Goto(n, "member") /\ UNCHANGED errors
    BY <1>0, <1>f, <1>5, <2>3 DEF FindPeers, Goto, FaultInv, JoinsUnlessFault, Ready
  <2> QED BY <1>5, <2>1, <2>2, <2>3 DEF FindPeers
<1>6. ASSUME NEW n \in Nodes, Heartbeat(n) \/ Expire(n) PROVE FaultInv'
  BY <1>0, <1>f, <1>6 DEF Heartbeat, Expire, FaultInv, JoinsUnlessFault, Ready
<1>7. ASSUME NEW n \in Nodes, Crash(n) PROVE FaultInv'
  BY <1>0, <1>f, <1>7 DEF Crash, Goto, FaultInv, JoinsUnlessFault, Ready
<1> QED BY <1>1, <1>2, <1>3, <1>4, <1>5, <1>6, <1>7 DEF Next, Step

(* In a cluster of any size, nobody is turned away before a call of etcd   *)
(* has failed or a node has crashed.                                       *)
THEOREM DiscoveryJoins == Spec => []JoinsUnlessFault
<1>1. FaultInv => JoinsUnlessFault
  BY DEF FaultInv
<1> QED BY <1>1, DiscoveryInit, DiscoveryStep, FaultInit, FaultStep, PTL DEF Spec

(* One step of discovery is a step of the abstract cluster, or none.       *)
LEMMA AbstractStep ==
  DiscoveryInv /\ FaultInv /\ [Next]_vars
    => [Abstract!Next]_<<{n \in Nodes : Member(n)}, [n \in Nodes |-> IF Member(n) THEN found[n] ELSE {}]>>
<1> DEFINE members == {n \in Nodes : Member(n)}
           knows == [n \in Nodes |-> IF Member(n) THEN found[n] ELSE {}]
<1> SUFFICES ASSUME DiscoveryInv, FaultInv, [Next]_vars
             PROVE [Abstract!Next]_<<members, knows>>
  OBVIOUS
<1>0. /\ pc \in [Nodes -> {"start", "create", "find", "leader", "member", "failed"}]
      /\ found \in [Nodes -> SUBSET Nodes] /\ registered \subseteq Nodes
  BY DEF DiscoveryInv, TypeOK
<1>i. /\ \A n \in Nodes : pc[n] \in {"create", "find", "leader", "member"} => n \in beating
      /\ beating \ lapsed \subseteq registered
      /\ ~state => \A n \in Nodes : pc[n] \notin {"find", "leader", "member"}
  BY DEF DiscoveryInv
<1>f. \A n \in Nodes : ~Ready(n) => found[n] = {}
  BY DEF FaultInv
<1>2. CASE UNCHANGED vars
  BY <1>2, Zenon DEF vars, Ready, Member
<1>3. ASSUME NEW n \in Nodes, Register(n) \/ Follow(n) \/ Heartbeat(n) PROVE UNCHANGED <<members, knows>>
  <2>1. /\ lapsed' = lapsed /\ found' = found
        /\ pc' = pc \/ (pc[n] \in {"start", "create"}
                        /\ \E s \in {"create", "find", "failed"} : pc' = [pc EXCEPT ![n] = s])
    BY <1>3, ZenonT(60) DEF Register, Follow, Heartbeat, EtcdFails, Goto
  <2>2. \A m \in Nodes : Member(m)' <=> Member(m)
    BY <1>0, <2>1 DEF Ready, Member
  <2> QED BY <2>1, <2>2
<1>4. ASSUME NEW n \in Nodes, Lead(n) PROVE Abstract!Join(n) \/ UNCHANGED <<members, knows>>
  <2>1. /\ \A m \in Nodes : ~Member(m)
        /\ \A m \in Nodes : Member(m)' => m = n
        /\ found' = found /\ found[n] = {}
    BY <1>0, <1>i, <1>f, <1>4 DEF Lead, Goto, Ready, Member
  <2>2. knows' = knows /\ knows' = [knows EXCEPT ![n] = {}]
    BY <2>1
  <2>3. members = {} /\ (members' = {n} \/ members' = {})
    BY <2>1
  <2> QED BY <2>2, <2>3, Zenon DEF Abstract!Join
<1>5. ASSUME NEW n \in Nodes, FindPeers(n) PROVE Abstract!Join(n) \/ UNCHANGED <<members, knows>>
  <2>1. lapsed' = lapsed /\ pc[n] = "find"
    BY <1>5, Zenon DEF FindPeers
  <2>2. CASE Goto(n, "failed") /\ UNCHANGED found
    <3>1. \A m \in Nodes : Member(m)' <=> Member(m)
      BY <1>0, <2>1, <2>2 DEF Goto, Ready, Member
    <3> QED BY <2>2, <3>1
  <2>3. CASE found' = [found EXCEPT ![n] = Others(n)] /\ Goto(n, "member")
    <3>1. /\ ~Member(n) /\ (Member(n)' <=> n \notin lapsed)
          /\ \A m \in Nodes \ {n} : (Member(m)' <=> Member(m)) /\ found'[m] = found[m]
          /\ found'[n] = Others(n)
      BY <1>0, <2>1, <2>3 DEF Goto, Ready, Member
    <3>2. Others(n) \in SUBSET (Nodes \ {n}) /\ members \subseteq Others(n)
      BY <1>0, <1>i, <3>1 DEF Ready, Member, Others
    <3>3. CASE n \in lapsed
      BY <3>1, <3>3
    <3>4. CASE n \notin lapsed
      <4>1. n \notin members /\ members' = members \cup {n}
        BY <3>1, <3>4
      <4>2. knows' = [knows EXCEPT ![n] = Others(n)]
        BY <3>1, <3>4, Zenon
      <4> QED BY <3>2, <4>1, <4>2, Zenon DEF Abstract!Join
    <3> QED BY <3>3, <3>4
  <2> QED BY <1>5, <2>2, <2>3 DEF FindPeers, EtcdFails
<1>6. ASSUME NEW n \in Nodes, Crash(n) \/ Expire(n) PROVE Abstract!Leave(n) \/ UNCHANGED <<members, knows>>
  <2>1. /\ ~Member(n)' \/ (Member(n)' /\ Member(n) /\ found'[n] = found[n])
        /\ \A m \in Nodes \ {n} : (Member(m)' <=> Member(m)) /\ found'[m] = found[m]
    BY <1>0, <1>6 DEF Crash, Expire, Goto, Ready, Member
  <2>2. CASE Member(n) /\ ~Member(n)'
    <3>1. n \in members /\ members' = members \ {n} /\ knows' = [knows EXCEPT ![n] = {}]
      BY <2>1, <2>2, Zenon
    <3> QED BY <3>1, Zenon DEF Abstract!Leave
  <2>3. CASE (Member(n) <=> Member(n)')
    BY <2>1, <2>3
  <2> QED BY <2>1, <2>2, <2>3
<1> QED
  BY <1>2, <1>3, <1>4, <1>5, <1>6 DEF Next, Step, Abstract!Next

(* Discovery implements the abstract cluster: whoever joins was told about *)
(* every member of that moment.                                            *)
THEOREM DiscoveryImplements == Spec => JoinsInformed
<1>1. Init => Abstract!Init
  BY DEF Init, Abstract!Init, Ready, Member
<1> QED
  BY <1>1, DiscoveryInit, DiscoveryStep, FaultInit, FaultStep, AbstractStep, PTL
     DEF Spec, JoinsInformed, Abstract!Spec

=============================================================================
