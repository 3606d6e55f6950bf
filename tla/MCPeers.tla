------------------------------ MODULE MCPeers ------------------------------
(* Small instances of Peers.                                               *)
EXTENDS Peers

CONSTANTS p1, p2, none, c1, c2

=============================================================================
