--------------------------- MODULE MCPendingRing ---------------------------
(* Small instance of PendingRing.                                          *)
EXTENDS PendingRing, TLC

Symmetry == Permutations(Tasks)
=============================================================================
