----------------------------- MODULE MCIdRadix -----------------------------
(* Two sorts of up to five ids on one workspace, for traits with and without *)
(* hooks.  Bytes are bits, chunks two bytes and cached chunks four.  The ids *)
(* of five bytes are cached, in chunks of which the last is padded, and the  *)
(* same ids of four bytes are not.  0, 1 and 2 agree in the first chunk, and *)
(* of five bytes 0 and 1 in the second.  Hooks that leave a partial chunk    *)
(* are read by the sort of ids that are not cached, and to cache ids.  Five  *)
(* entries are counted in local counters, four in the workspace's, fewer are *)
(* inserted.                                                                 *)
EXTENDS IdRadix

BytesOnly(bytes) == [idBytes |-> bytes, less |-> FALSE, equal |-> FALSE, chunkHooks |-> {}]

\* HashFreeTestBytesTraits, of any number of bytes, and the same without less
\* and equal.
TestBytesTraits(bytes) == [idBytes |-> bytes, less |-> TRUE, equal |-> TRUE, chunkHooks |-> {1, 2, 4, 8}]
ChunksOnly(bytes) == [TestBytesTraits(bytes) EXCEPT !.less = FALSE, !.equal = FALSE]

Kinds == {UInt128Traits(4), BytesOnly(4), BytesOnly(5), TestBytesTraits(5), ChunksOnly(5)}
=============================================================================
