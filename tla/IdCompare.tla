------------------------------ MODULE IdCompare ------------------------------
(***************************************************************************)
(* Ids as the library reads them: byte by byte, in chunks of several bytes *)
(* and as lists of cached chunks (detail/id_chunks.hpp), and how they are  *)
(* compared (detail/id_compare.hpp, detail/id_permutation_compare.hpp).    *)
(* Which of the ways is taken depends on what the traits offer besides     *)
(* bytes (traits.hpp).  All of them must give one order: that of the bytes.*)
(*                                                                         *)
(* An id is the number its bytes spell, most significant first.            *)
(***************************************************************************)
EXTENDS Integers

CONSTANTS
  Radix,        \* the values of a byte
  CachedBytes   \* cached_comparison_chunk_bytes

ASSUME RadixAssumption == Radix \in Nat \ {0, 1}
ASSUME CachedAssumption == CachedBytes \in Nat \ {0}

\* What the concepts detect of traits: ids of any positive width, the hooks less
\* and equal, and the chunk widths that chunk_msb_first is there for, each
\* detected by itself and whether or not it divides the id.
ForestTraits ==
  [idBytes : Nat \ {0}, less : BOOLEAN, equal : BOOLEAN, chunkHooks : SUBSET {1, 2, 4, 8}]

\* UInt128Traits, of any number of bytes: its shifts leave no partial chunk.
UInt128Traits(bytes) ==
  [idBytes |-> bytes, less |-> TRUE, equal |-> TRUE,
   chunkHooks |-> {width \in {1, 2, 4, 8} : bytes % width = 0}]

-----------------------------------------------------------------------------
(* Bytes and chunks *)

\* The values of so many bytes.
Power[bytes \in Nat] == IF bytes = 0 THEN 1 ELSE Radix * Power[bytes - 1]

ByteMsbFirst(t, i, byte) == (i \div Power[t.idBytes - 1 - byte]) % Radix

ChunkCount(t, width) == t.idBytes \div width + (IF t.idBytes % width # 0 THEN 1 ELSE 0)

\* buildChunkFromBytes: a byte the id does not have is zero, at the end.  The
\* mistake is to shift for bytes of the id only.
PackedShort(t, width, chunkIndex, bytes) ==
  LET value[n \in 0 .. width] ==
        IF n = 0 THEN 0
        ELSE LET byte == chunkIndex * width + n - 1
             IN  IF byte < t.idBytes THEN value[n - 1] * Radix + bytes[byte] ELSE value[n - 1]
  IN  value[width]
Packed(t, width, chunkIndex, bytes) ==
  LET value[n \in 0 .. width] ==
        IF n = 0 THEN 0
        ELSE LET byte == chunkIndex * width + n - 1
             IN  value[n - 1] * Radix + (IF byte < t.idBytes THEN bytes[byte] ELSE 0)
  IN  value[width]

\* The number the first so many bytes of an id spell; bytes it does not have are
\* zero, at the end.
Leading(t, i, bytes) ==
  IF bytes <= t.idBytes THEN i \div Power[t.idBytes - bytes]
                        ELSE i * Power[bytes - t.idBytes]

\* chunk_msb_first of traits: the number is shifted and truncated (uint128.hpp).
\* What the id lacks of its last chunk is zero, for a hook is a view of the bytes.
HookedChunk(t, i, width, chunkIndex) == Leading(t, i, width * (chunkIndex + 1)) % Power[width]

ChunkMsbFirst(t, i, width, chunkIndex) ==
  IF width \in t.chunkHooks
    THEN HookedChunk(t, i, width, chunkIndex)
    ELSE Packed(t, width, chunkIndex, [byte \in 0 .. t.idBytes - 1 |-> ByteMsbFirst(t, i, byte)])

-----------------------------------------------------------------------------
(* Cached ids: their chunks of CachedBytes bytes *)

ShouldCacheChunkIds(t) == ChunkCount(t, CachedBytes) > 1 /\ ~t.less

CachedId(t, i) == [k \in 0 .. ChunkCount(t, CachedBytes) - 1 |-> ChunkMsbFirst(t, i, CachedBytes, k)]

CachedByte(cached, byte) ==
  (cached[byte \div CachedBytes] \div Power[CachedBytes - 1 - (byte % CachedBytes)]) % Radix

\* chunk_msb_first of a cached id: a whole chunk of it, the upper or lower half
\* of one, or what its bytes give.  The mistake is to take the other half.
OtherHalf(chunk, width, chunkIndex) ==
  IF chunkIndex % 2 = 0 THEN chunk % Power[width] ELSE chunk \div Power[width]
Half(chunk, width, chunkIndex) ==
  IF chunkIndex % 2 = 0 THEN chunk \div Power[width] ELSE chunk % Power[width]

CachedChunk(t, cached, width, chunkIndex) ==
  CASE width = CachedBytes -> cached[chunkIndex]
    [] 2 * width = CachedBytes -> Half(cached[chunkIndex \div 2], width, chunkIndex)
    [] OTHER -> Packed(t, width, chunkIndex, [byte \in 0 .. t.idBytes - 1 |-> CachedByte(cached, byte)])

-----------------------------------------------------------------------------
(* Comparison *)

\* compareChunkSequence: negative, zero or positive, by the first chunk that
\* differs.  The mistake is to go by the last chunk.
CompareLastChunk(lhs, rhs) ==
  LET last == CHOOSE k \in DOMAIN lhs : \A j \in DOMAIN lhs : j <= k
  IN  IF lhs[last] < rhs[last] THEN -1 ELSE IF lhs[last] > rhs[last] THEN 1 ELSE 0
CompareChunkSequence(lhs, rhs) ==
  LET first(k) == lhs[k] # rhs[k] /\ \A j \in DOMAIN lhs : j < k => lhs[j] = rhs[j]
  IN  IF lhs = rhs THEN 0 ELSE IF \E k \in DOMAIN lhs : first(k) /\ lhs[k] < rhs[k] THEN -1 ELSE 1

CompareIdsMsbFirst(t, a, b) == CompareChunkSequence(CachedId(t, a), CachedId(t, b))

\* The hooks of traits agree with their bytes (traits.hpp:82).
CompareNodeIds(t, a, b) ==
  IF ~t.less THEN CompareIdsMsbFirst(t, a, b)
  ELSE IF a < b THEN -1 ELSE IF b < a THEN 1 ELSE 0

IdLess(t, a, b) == IF t.less THEN a < b ELSE CompareNodeIds(t, a, b) < 0

IdEqual(t, a, b) == IF t.equal THEN a = b ELSE CompareIdsMsbFirst(t, a, b) = 0

\* DirectIdPermutationComparator and CachedIdPermutationComparator.
Compare(t, left, right) ==
  IF ShouldCacheChunkIds(t) THEN CompareChunkSequence(CachedId(t, left), CachedId(t, right))
  ELSE CompareNodeIds(t, left, right)

LeftEqual(t, left, other) ==
  /\ ShouldCacheChunkIds(t) => CompareChunkSequence(CachedId(t, left), CachedId(t, other)) = 0
  /\ IdEqual(t, left, other)

CrossEqual(t, left, right) == IdEqual(t, left, right)
=============================================================================
