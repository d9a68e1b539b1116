--------------------------- MODULE MCTransportPool ---------------------------
(* Instances of TransportPool for TLC. *)
EXTENDS TransportPool, TLC

CONSTANTS direct, k1, k2, k3, g1, g2

\* Keys other than the empty one are alike, and so are goroutines.
Symmetry == Permutations(Key \ {Direct}) \union Permutations(Goroutine)
=============================================================================
