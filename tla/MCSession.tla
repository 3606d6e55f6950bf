----------------------------- MODULE MCSession -----------------------------
(* Small instances of Session for TLC.                                     *)
EXTENDS Session, TLC

CONSTANTS c1, c2, c3, i1

(* All clients use the same id.                                            *)
SharedIds == [c \in Conns |-> {i1}]

OneUserPerId == [id \in Ids |-> id]

(* All connections are alike: they have the same id and send the same.     *)
Symmetry == Permutations(Conns)

(* Clients send nothing besides CONNECT and DISCONNECT.                    *)
Silent == [c \in Conns |-> {}]

(* Clients send PINGREQ as well.                                           *)
Pinging == [c \in Conns |-> {"PingReq"}]

(* With and without a keep-alive timer.                                    *)
Flags == BOOLEAN

No == {FALSE}

=============================================================================
