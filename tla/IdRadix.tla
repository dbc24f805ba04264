------------------------------- MODULE IdRadix -------------------------------
(***************************************************************************)
(* The sort of a permutation by id (detail/id_radix.hpp): ranges of the    *)
(* permutation wait on a stack; a range is sorted by one chunk of the ids, *)
(* byte after byte from the least significant, and split into the ranges   *)
(* with equal chunks; a small range is sorted by insertion on whole ids.   *)
(* The workspace outlives a range and a sort: the parent join uses one for *)
(* the ids and again for the parent ids.  Its counters are cleared only    *)
(* where they were touched, and only after they were used.                 *)
(*                                                                         *)
(* The parent join sorts what its comparator holds, cached ids where the   *)
(* traits have no cheap order; the public id order sorts the ids.          *)
(***************************************************************************)
EXTENDS IdCompare, FiniteSets, Sequences, FiniteSetsExt

CONSTANTS
  Sizes,           \* the sizes of the permutations to sort
  Ids,             \* the ids nodes may have, as numbers
  Sorts,           \* how many sorts use the workspace
  TraitsKinds,     \* the traits a client may have
  ChunkBytes,      \* RadixChunkBytes
  SmallThreshold,  \* the largest range sorted by insertion
  TouchedMax       \* the largest range counted in the workspace's counters

ASSUME SizesAssumption == Sizes \subseteq Nat
ASSUME WidthAssumption == ChunkBytes \in Nat \ {0}
ASSUME TraitsAssumption == TraitsKinds \subseteq ForestTraits
ASSUME IdsAssumption == \A t \in TraitsKinds : Ids \subseteq 0 .. Power[t.idBytes] - 1
ASSUME ThresholdAssumption == SmallThreshold \in Nat \ {0} /\ TouchedMax \in Nat

Digits == 0 .. Radix - 1

VARIABLES
  traits,       \* what the client's ids can do
  joins,        \* whether the client is the parent join
  sortsLeft,    \* sorts the workspace is still to be used for
  size,         \* permutation.size()
  id,           \* idForIndex
  pc,           \* "ready", "pop", "small", "count", "scatter", "clear", "write" or "sorted"
  order,        \* the permutation that is sorted
  pending,      \* ranges still to be sorted, next one last
  range,        \* the range being sorted
  source,       \* the entries in the order of the passes so far
  destination,  \* the entries the running pass has written
  bytePass,     \* the byte the running pass sorts by, 0 for the last of the chunk
  scratch,      \* "touched": the workspace's counters; "full": local ones
  keys,         \* cached ids of a small range
  rangeIdx,     \* the entry to insert next
  capacity      \* the entries each buffer of the workspace has room for

client == <<traits, joins, sortsLeft>>
workspace == <<pending, scratch, capacity>>
vars == <<client, size, id, pc, order, range, source, destination, bytePass, keys, rangeIdx, workspace>>

-----------------------------------------------------------------------------
(* What is sorted *)

Chunks == ChunkCount(traits, ChunkBytes)

\* chunkExtractor, on a cached id or on the id itself.
ChunkOf(i, chunkIndex) ==
  IF joins /\ ShouldCacheChunkIds(traits)
    THEN CachedChunk(traits, CachedId(traits, i), ChunkBytes, chunkIndex)
    ELSE ChunkMsbFirst(traits, i, ChunkBytes, chunkIndex)

\* wordByte, and the bytes of a chunk taken from the other end.
MostSignificantFirst(chunk, pass) == (chunk \div Power[ChunkBytes - 1 - pass]) % Radix
WordByte(chunk, pass) == (chunk \div Power[pass]) % Radix

-----------------------------------------------------------------------------

NoRange == [begin |-> 0, end |-> 0, chunk |-> 0]
Clear == [counts |-> [d \in Digits |-> 0], touched |-> {}]

Init ==
  /\ traits \in TraitsKinds /\ joins \in BOOLEAN
  /\ sortsLeft = Sorts
  /\ size = 0 /\ id = <<>> /\ order = <<>>
  /\ pc = "ready"
  /\ pending = <<>> /\ range = NoRange
  /\ source = <<>> /\ destination = <<>> /\ bytePass = 0
  /\ scratch = [kind \in {"touched", "full"} |-> Clear]
  /\ keys = <<>> /\ rangeIdx = 0
  /\ capacity = 0

\* The permutation is iota; the buffers only ever grow.
BeginSort ==
  /\ pc = "ready" /\ sortsLeft > 0
  /\ sortsLeft' = sortsLeft - 1
  /\ size' \in Sizes
  /\ id' \in [0 .. size' - 1 -> Ids]
  /\ order' = [i \in 0 .. size' - 1 |-> i]
  /\ capacity' = IF size' <= capacity THEN capacity ELSE size'
  /\ IF size' <= 1 THEN pc' = "sorted" /\ pending' = pending
     ELSE pc' = "pop" /\ pending' = <<[begin |-> 0, end |-> size', chunk |-> 0]>>
  /\ UNCHANGED <<traits, joins, range, source, destination, bytePass, scratch, keys, rangeIdx>>

Top == pending[Len(pending)]
Popped == SubSeq(pending, 1, Len(pending) - 1)
SizeOf(r) == r.end - r.begin

SkipRange ==
  /\ pc = "pop" /\ pending # <<>>
  /\ SizeOf(Top) <= 1 \/ Top.chunk >= Chunks
  /\ pending' = Popped
  /\ UNCHANGED <<client, size, id, pc, order, range, source, destination, bytePass, scratch, keys, rangeIdx, capacity>>

-----------------------------------------------------------------------------
(* A small range, by insertion.  Cached keys move with the permutation. *)

BeginSmall ==
  /\ pc = "pop" /\ pending # <<>>
  /\ SizeOf(Top) \in 2 .. SmallThreshold /\ Top.chunk < Chunks
  /\ pending' = Popped
  /\ range' = Top
  /\ keys' = IF ShouldCacheChunkIds(traits)
               THEN [offset \in 0 .. SizeOf(Top) - 1 |-> CachedId(traits, id[order[Top.begin + offset]])]
               ELSE <<>>
  /\ rangeIdx' = Top.begin + 1
  /\ pc' = "small"
  /\ UNCHANGED <<client, size, id, order, source, destination, bytePass, scratch, capacity>>

\* isLessOrEqual, of the cached keys or of the ids: the entry at i and the one saved.
IsLessOrEqual(i) ==
  IF ShouldCacheChunkIds(traits)
    THEN CompareChunkSequence(keys[i - range.begin], keys[rangeIdx - range.begin]) <= 0
    ELSE ~IdLess(traits, id[order[rangeIdx]], id[order[i]])

\* Where the inner loop stops: after the last entry that is not larger.
AfterLessOrEqual ==
  Max({range.begin} \cup {i + 1 : i \in {j \in range.begin .. rangeIdx - 1 : IsLessOrEqual(j)}})

\* list with the items from place "at" up to "last" one further on and the item
\* at "last" put at "at".
Moved(list, at, last) ==
  [i \in DOMAIN list |-> IF i = at THEN list[last] ELSE IF i \in at + 1 .. last THEN list[i - 1] ELSE list[i]]

\* The mistake is to leave the keys where they are.
KeysStay(at) == keys
InsertInOrder(at) == Moved(order, at, rangeIdx)
InsertInKeys(at) == Moved(keys, at - range.begin, rangeIdx - range.begin)

InsertNext ==
  /\ pc = "small" /\ rangeIdx < range.end
  /\ order' = InsertInOrder(AfterLessOrEqual)
  /\ keys' = InsertInKeys(AfterLessOrEqual)
  /\ rangeIdx' = rangeIdx + 1
  /\ UNCHANGED <<client, size, id, pc, range, source, destination, bytePass, workspace>>

EndSmall ==
  /\ pc = "small" /\ rangeIdx >= range.end
  /\ pc' = "pop" /\ range' = NoRange /\ keys' = <<>> /\ rangeIdx' = 0
  /\ UNCHANGED <<client, size, id, order, source, destination, bytePass, workspace>>

-----------------------------------------------------------------------------
(* A large range, by one chunk. *)

Offsets(r) == 0 .. SizeOf(r) - 1
EntriesOf(r) ==
  [offset \in Offsets(r) |->
     [chunk |-> ChunkOf(id[order[r.begin + offset]], r.chunk), index |-> order[r.begin + offset]]]
DifferingBits(r) ==
  LET first == ChunkOf(id[order[r.begin]], r.chunk)
  IN  \E o \in Offsets(r) : ChunkOf(id[order[r.begin + o]], r.chunk) # first

\* The chunk a range is looked at next for; the mistakes are to stay, and to skip one.
SameChunk(r) == r.chunk
SecondNext(r) == r.chunk + 2
NextChunk(r) == r.chunk + 1

HasNextRange(r) == NextChunk(r) < Chunks

IsLarge(r) == SizeOf(r) > SmallThreshold /\ SizeOf(r) > 1 /\ r.chunk < Chunks

\* All chunks are equal: nothing moves.
PassRangeOn ==
  /\ pc = "pop" /\ pending # <<>>
  /\ IsLarge(Top) /\ ~DifferingBits(Top)
  /\ pending' = IF HasNextRange(Top) THEN Append(Popped, [Top EXCEPT !.chunk = NextChunk(Top)]) ELSE Popped
  /\ UNCHANGED <<client, size, id, pc, order, range, source, destination, bytePass, scratch, keys, rangeIdx, capacity>>

\* The local counters are new for every range.
BeginPasses ==
  /\ pc = "pop" /\ pending # <<>>
  /\ IsLarge(Top) /\ DifferingBits(Top)
  /\ pending' = Popped
  /\ range' = Top
  /\ source' = EntriesOf(Top) /\ destination' = <<>> /\ bytePass' = 0
  /\ scratch' = [scratch EXCEPT !["full"] = Clear]
  /\ pc' = "count"
  /\ UNCHANGED <<client, size, id, order, keys, rangeIdx, capacity>>

UsesWorkspaceCounters == SizeOf(range) <= TouchedMax
Kind == IF UsesWorkspaceCounters THEN "touched" ELSE "full"
DigitAt(offset) == WordByte(source[offset].chunk, bytePass)
Counts == scratch[Kind].counts

\* resetRadixCounts does nothing to the workspace's counters.
Reset == IF Kind = "full" THEN Clear ELSE scratch[Kind]

CountDigits ==
  /\ pc = "count" /\ bytePass < ChunkBytes
  /\ scratch' = [scratch EXCEPT ![Kind] =
       [counts  |-> [d \in Digits |-> Reset.counts[d] + Cardinality({o \in Offsets(range) : DigitAt(o) = d})],
        touched |-> IF Kind = "full" THEN {}
                    ELSE Reset.touched \cup {DigitAt(o) : o \in Offsets(range)}]]
  /\ pc' = "scatter"
  /\ UNCHANGED <<client, size, id, order, pending, range, source, destination, bytePass, keys, rangeIdx, capacity>>

\* prefixRadixCounts: writeOffset, as it is before a bucket.
Buckets == IF Kind = "full" THEN Digits ELSE scratch[Kind].touched
WriteOffset[d \in 0 .. Radix] ==
  IF d = 0 THEN 0
  ELSE IF d - 1 \in Buckets THEN WriteOffset[d - 1] + Counts[d - 1] ELSE WriteOffset[d - 1]
BucketStart(d) == IF d \in Buckets THEN WriteOffset[d] ELSE Counts[d]

\* counts[digit]++ hands out the positions of a bucket one by one.
SameDigitBefore(offset) == Cardinality({o \in 0 .. offset - 1 : DigitAt(o) = DigitAt(offset)})
Position(offset) == BucketStart(DigitAt(offset)) + SameDigitBefore(offset)

ScatterPass ==
  /\ pc = "scatter"
  /\ destination' = [p \in {Position(o) : o \in Offsets(range)} |->
                       source[Max({o \in Offsets(range) : Position(o) = p})]]
  /\ scratch' = [scratch EXCEPT ![Kind].counts =
       [d \in Digits |-> BucketStart(d) + Cardinality({o \in Offsets(range) : DigitAt(o) = d})]]
  /\ pc' = "clear"
  /\ UNCHANGED <<client, size, id, order, pending, range, source, bytePass, keys, rangeIdx, capacity>>

\* clearRadixCounts: the touched buckets and the mask.  Local counters are left
\* alone.  The mistake is to clear no mask, so that
\* buckets stay touched.
CountsOnly ==
  [scratch EXCEPT ![Kind].counts = [d \in Digits |-> IF d \in scratch[Kind].touched THEN 0 ELSE @[d]]]
Cleared ==
  IF Kind = "full" THEN scratch
  ELSE [scratch EXCEPT !["touched"] =
          [counts  |-> [d \in Digits |-> IF d \in @.touched THEN 0 ELSE @.counts[d]],
           touched |-> {}]]

EndPass ==
  /\ pc = "clear"
  /\ scratch' = Cleared
  /\ source' = destination /\ destination' = source
  /\ bytePass' = bytePass + 1
  /\ pc' = IF bytePass + 1 < ChunkBytes THEN "count" ELSE "write"
  /\ UNCHANGED <<client, size, id, order, pending, range, keys, rangeIdx, capacity>>

\* What dispatchLsdIndexMsdChunkSortPreFilled returns: the buffer the last pass wrote.
SortedChunks == source

\* The ranges with equal chunks, in ascending order, for the next chunk.
ChunkRanges ==
  LET starts == {o \in Offsets(range) : o = 0 \/ SortedChunks[o].chunk # SortedChunks[o - 1].chunk}
      endOf(o) == Min({p \in starts \cup {SizeOf(range)} : p > o})
      rangesFrom[o \in 0 .. SizeOf(range)] ==
        IF o = 0 THEN <<>>
        ELSE IF o - 1 \in starts
               THEN Append(rangesFrom[o - 1],
                           [begin |-> range.begin + o - 1, end |-> range.begin + endOf(o - 1),
                            chunk |-> NextChunk(range)])
               ELSE rangesFrom[o - 1]
  IN  rangesFrom[SizeOf(range)]

WriteOrder ==
  /\ pc = "write"
  /\ order' = [i \in 0 .. size - 1 |->
                 IF i \in range.begin .. range.end - 1 THEN source[i - range.begin].index ELSE order[i]]
  /\ pending' = IF HasNextRange(range) THEN pending \o ChunkRanges ELSE pending
  /\ range' = NoRange /\ source' = <<>> /\ destination' = <<>> /\ bytePass' = 0
  /\ pc' = "pop"
  /\ UNCHANGED <<client, size, id, scratch, keys, rangeIdx, capacity>>

EndSort ==
  /\ pc = "pop" /\ pending = <<>>
  /\ pc' = "sorted"
  /\ UNCHANGED <<client, size, id, order, range, source, destination, bytePass, keys, rangeIdx, workspace>>

\* The permutation is the caller's; the workspace keeps its counters and room.
Return ==
  /\ pc = "sorted"
  /\ size' = 0 /\ id' = <<>> /\ order' = <<>>
  /\ pc' = "ready"
  /\ UNCHANGED <<client, range, source, destination, bytePass, keys, rangeIdx, workspace>>

-----------------------------------------------------------------------------

AllSorted == pc = "ready" /\ sortsLeft = 0 /\ UNCHANGED vars

SmallStep == BeginSmall \/ InsertNext \/ EndSmall
ChunkStep == PassRangeOn \/ BeginPasses \/ CountDigits \/ ScatterPass \/ EndPass \/ WriteOrder
Step == BeginSort \/ SkipRange \/ SmallStep \/ ChunkStep \/ EndSort \/ Return

Next == Step \/ AllSorted

Spec == Init /\ [][Next]_vars

FairSpec == Spec /\ WF_vars(Step)

-----------------------------------------------------------------------------

Ranges == [begin : 0 .. size, end : 0 .. size, chunk : 0 .. Chunks - 1]
Entries == [chunk : 0 .. Power[ChunkBytes] - 1, index : 0 .. size - 1]

\* Every index stays within its vector: a pass writes each position of the
\* buffer, and none past the entries of the range.
TypeOK ==
  /\ traits \in TraitsKinds /\ joins \in BOOLEAN
  /\ sortsLeft \in 0 .. Sorts /\ size \in Sizes \cup {0}
  /\ id \in [0 .. size - 1 -> Ids]
  /\ pc \in {"ready", "pop", "small", "count", "scatter", "clear", "write", "sorted"}
  /\ order \in [0 .. size - 1 -> 0 .. size - 1]
  /\ pending \in Seq(Ranges) /\ range \in Ranges \cup {NoRange}
  /\ pc \in {"count", "scatter", "clear", "write"} => source \in [Offsets(range) -> Entries]
  /\ pc = "clear" => destination \in [Offsets(range) -> Entries]
  /\ SizeOf(range) <= capacity

\* Whenever counting starts, the workspace's counters are as new, whatever
\* ranges and sorts have used them before: the reset that does nothing is enough.
CountersAreClear == pc \notin {"scatter", "clear"} => scratch["touched"] = Clear

\* The entries of a waiting range agree in all bytes before its chunk, and
\* entries no waiting range has both of are in their final order.
RangesAreSeparated ==
  pc = "pop" =>
    \A i, j \in 0 .. size - 1 : i < j =>
      \/ \E k \in 1 .. Len(pending) :
           /\ {i, j} \subseteq pending[k].begin .. pending[k].end - 1
           /\ LET suffix == Power[traits.idBytes - pending[k].chunk * ChunkBytes]
              IN  id[order[i]] \div suffix = id[order[j]] \div suffix
      \/ id[order[i]] <= id[order[j]]

\* Every sort ends with the entries by id, equal ids as they came in: what the
\* parent join, the duplicate check and the depth grouping take for granted.
SortedStably ==
  pc = "sorted" =>
    \A i, j \in 0 .. size - 1 : i < j =>
      id[order[i]] < id[order[j]] \/ (id[order[i]] = id[order[j]] /\ order[i] < order[j])

\* No range comes back for ever.
Terminates == <>(pc = "ready" /\ sortsLeft = 0)
=============================================================================
