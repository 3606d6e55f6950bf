---------------------------- MODULE MCDiscovery ----------------------------
(* Four nodes, of which some crash and come back.                          *)
EXTENDS Discovery, TLC

CONSTANTS n1, n2, n3, n4

Symmetry == Permutations({n1, n2, n3, n4})

=============================================================================
