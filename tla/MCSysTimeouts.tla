--------------------------- MODULE MCSysTimeouts ----------------------------
(* An instance of SysTimeouts for TLC. *)
EXTENDS SysTimeouts, TLC

CONSTANTS n1, n2, n3, n4, a, b

Symmetry == Permutations(Node) \cup Permutations(Handler)
=============================================================================
