--------------------------- MODULE MCSidecarRunner ---------------------------
(* Instances of SidecarRunner for TLC. *)
EXTENDS SidecarRunner

CONSTANTS c1, c2
=============================================================================
