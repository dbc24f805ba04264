-------------------------- MODULE MCPrefixDirectory --------------------------
(* Up to three nodes in tables of one, four or eight slots: flat, with      *)
(* groups of two and with groups of eight, wider than the small tables.     *)
(* Searches start at the first slot or at the last one, and give up in the  *)
(* flat table.  The directory has a prefix with the ids 0 to 2 and another  *)
(* with 3 only.                                                             *)
EXTENDS PrefixDirectory

ManyHashes == {h \in [Ids -> {0, 7}] : h[0] = 0}

Limits == [w \in {1, 2, 8} |-> IF w = 8 THEN 1 ELSE 2]
=============================================================================
