------------------------------ MODULE MCBroker ------------------------------
(* Small instances of Broker for TLC.                                      *)
EXTENDS Broker

CONSTANTS c1, c2, i1, i2, w1, w2

(* Every client has an id of its own.                                      *)
OwnIds == [c \in Conns |-> IF c = c1 THEN {i1} ELSE {i2}]

OneUserPerId == [id \in Ids |-> id]

(* Clients publish and subscribe.                                          *)
Both == [c \in Conns |-> {"Publish", "Subscribe"}]

(* Every kind of request.                                                  *)
All == [c \in Conns |-> {"Publish", "Subscribe", "Unsubscribe", "PingReq"}]

(* With and without a keep-alive timer.                                    *)
Flags == BOOLEAN

No == {FALSE}

=============================================================================
