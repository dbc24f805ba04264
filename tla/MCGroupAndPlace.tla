--------------------------- MODULE MCGroupAndPlace ---------------------------
(* Four nodes, one or none, in every id permutation, with depths of up to   *)
(* three bytes of two values each.  Depth 2 is grouped densely and leaves a *)
(* depth without nodes, 3 is below the number of nodes but past the dense   *)
(* limit, and 5 is past both.  The orders have cycles of every length.      *)
EXTENDS GroupAndPlace
=============================================================================
