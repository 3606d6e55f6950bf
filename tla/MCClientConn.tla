---------------------------- MODULE MCClientConn ----------------------------
(* Small instances of ClientConn.                                          *)
EXTENDS ClientConn

=============================================================================
