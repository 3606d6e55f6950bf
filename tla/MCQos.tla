------------------------------- MODULE MCQos -------------------------------
(* Small instances of Qos: c1 publishes m1 and m2, c2 publishes m3, and c3 *)
(* publishes m4.                                                           *)
EXTENDS Qos

CONSTANTS c1, c2, c3, m1, m2, m3, m4, none

Publishers ==
  [m \in Msgs |-> CASE m \in {m1, m2} -> c1 [] m = m3 -> c2 [] OTHER -> c3]

(* All ids but that of m2 agree: the clients choose them independently.    *)
Ids == [m \in Msgs |-> IF m = m2 THEN 2 ELSE 1]

=============================================================================
