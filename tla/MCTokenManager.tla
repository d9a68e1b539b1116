--------------------------- MODULE MCTokenManager ---------------------------
(* Instances of TokenManager for TLC. *)
EXTENDS TokenManager, TLC

CONSTANTS o1, s1, r1, r2, r3

Symmetry == Permutations(Request)
=============================================================================
