----------------------------- MODULE MCForestApi -----------------------------
(* Up to three nodes, four ids of which 0 is the sentinel, bytes of two     *)
(* values: a chain of three needs two bytes.  Supplied depths are too few,  *)
(* too many, or of one to four bytes, with 16 past the last depth, 15.      *)
EXTENDS ForestApi
=============================================================================
