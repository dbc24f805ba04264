---------------------------- MODULE MCRadixJoin ----------------------------
(* Three nodes over five ids, of which 0 is the sentinel: duplicate ids,   *)
(* missing parents, siblings, self parents and a node with a sentinel id.  *)
(* Ids have three bits; the kinds are those that are sorted and compared   *)
(* by cached chunks, the last of them padded, whether made of bytes or     *)
(* given by a hook, and those with hooks.                                  *)
EXTENDS RadixJoin

BytesAnd(hooks) == [idBytes |-> 3, less |-> FALSE, equal |-> FALSE, chunkHooks |-> hooks]

Kinds == {BytesAnd({}), BytesAnd({2}), UInt128Traits(3)}
=============================================================================
