-------------------------- MODULE MCDemonstration --------------------------
(* Four nodes over five ids and a depth limit of 1, which a chain of three  *)
(* passes: duplicates, cycles, missing and late parents, and wrong orders;  *)
(* and every forest of four nodes the demonstration program can make.       *)
EXTENDS Demonstration
=============================================================================
