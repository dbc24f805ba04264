------------------------------ MODULE MCDepth ------------------------------
(* Four nodes with every parent vector and every set of sentinel parents;  *)
(* the limit of two is passed by a chain of four nodes.                    *)
EXTENDS Depth
=============================================================================
