----------------------------- MODULE DepthGroup -----------------------------
(***************************************************************************)
(* The grouping of the id permutation by depth (detail/order.hpp,          *)
(* detail/adaptive_sort.hpp, detail/radix.hpp).  Nodes of one depth must   *)
(* stay in the order the ids gave them.  When the depths are small there   *)
(* is a counter for every depth (dense); else the order is partitioned by  *)
(* the bytes of the depth, most significant first, with a stack of the     *)
(* ranges still to be partitioned (MSD).                                   *)
(***************************************************************************)
EXTENDS DepthWidth, FiniteSets, Sequences

CONSTANTS
  Sizes,         \* the sizes the permutation may have
  Depths,        \* the depths a node may have
  DenseBuckets   \* max_dense_depth_buckets

\* What is assumed of the constants; GroupAndPlace states it.
ConstantsAssumed ==
  /\ Sizes \subseteq Nat /\ Radix \in Nat \ {0, 1} /\ DenseBuckets \in Nat \ {0, 1}
  /\ Depths \subseteq 0 .. MaxDepthForPrefix(4)

VARIABLES
  size,          \* order.size()
  depths,        \* the depth of each node
  idOrder,       \* the permutation that is passed in
  pc,            \* "choose", "count", "prefix", "scatter", "tell", "partition" or "done"
  order,         \* the permutation that is rearranged
  scratch,       \* the second buffer of the dense grouping
  depthStarts,   \* dense: counts, then the first position of each depth
  depthOffsets,  \* dense: the next position of each depth
  offset,        \* the loop counter of the loop that runs
  stack,         \* MSD: ranges still to be partitioned, next one last
  ranges         \* the ranges of one depth the consumer has been told of

inputs == <<size, depths, idOrder>>
vars == <<inputs, pc, order, scratch, depthStarts, depthOffsets, offset, stack, ranges>>

-----------------------------------------------------------------------------

Positions == 0 .. size - 1
Nodes == Positions

Permutations == {p \in [Positions -> Nodes] : \A i, j \in Positions : p[i] = p[j] => i = j}

ObservedMax == IF size = 0 THEN 0
               ELSE CHOOSE d \in {depths[n] : n \in Nodes} : \A n \in Nodes : depths[n] <= d

PrefixBytes == PrefixBytesForMax(ObservedMax)

\* shouldUseDenseDepthGrouping
UsesDense ==
  size > 0 /\ ObservedMax < size /\ ObservedMax <= DenseBuckets - 2

\* depthByteMsbFirst
MsbFirst(depth, digit) == (depth \div RadixPower[PrefixBytes - 1 - digit]) % Radix
DigitOf(n, digit) == MsbFirst(depths[n], digit)

Init ==
  /\ size \in Sizes
  /\ depths \in [Nodes -> Depths]
  /\ idOrder \in Permutations
  /\ pc = "choose"
  /\ order = idOrder
  /\ scratch = [i \in Positions |-> 0]
  /\ depthStarts = <<>>
  /\ depthOffsets = <<>>
  /\ offset = 0
  /\ stack = <<>>
  /\ ranges = <<>>

\* Nothing to group.
ReturnEarly ==
  /\ pc = "choose" /\ size <= 1
  /\ pc' = "done"
  /\ UNCHANGED <<inputs, order, scratch, depthStarts, depthOffsets, offset, stack, ranges>>

-----------------------------------------------------------------------------
(* One counter per depth. *)

BeginDense ==
  /\ pc = "choose" /\ size > 1 /\ UsesDense
  /\ depthStarts' = [d \in 0 .. ObservedMax + 1 |-> 0]
  /\ offset' = 0
  /\ pc' = "count"
  /\ UNCHANGED <<inputs, order, scratch, depthOffsets, stack, ranges>>

\* Depth d is counted where the next depth starts.
CountNode ==
  /\ pc = "count" /\ offset < size
  /\ depthStarts' = [depthStarts EXCEPT ![depths[order[offset]] + 1] = @ + 1]
  /\ offset' = offset + 1
  /\ UNCHANGED <<inputs, pc, order, scratch, depthOffsets, stack, ranges>>

BeginPrefix ==
  /\ pc = "count" /\ offset >= size
  /\ offset' = 1
  /\ pc' = "prefix"
  /\ UNCHANGED <<inputs, order, scratch, depthStarts, depthOffsets, stack, ranges>>

\* What the prefix sum adds to a count.
StartBefore(d) == depthStarts[d - 1]

PrefixDepth ==
  /\ pc = "prefix" /\ offset <= ObservedMax + 1
  /\ depthStarts' = [depthStarts EXCEPT ![offset] = @ + StartBefore(offset)]
  /\ offset' = offset + 1
  /\ UNCHANGED <<inputs, pc, order, scratch, depthOffsets, stack, ranges>>

BeginScatter ==
  /\ pc = "prefix" /\ offset > ObservedMax + 1
  /\ depthOffsets' = depthStarts
  /\ offset' = 0
  /\ pc' = "scatter"
  /\ UNCHANGED <<inputs, order, scratch, depthStarts, stack, ranges>>

\* The next free position of a depth after one is used, and that not moved.
SamePosition(p) == p
NextPosition(p) == p + 1

ScatterNode ==
  /\ pc = "scatter" /\ offset < size
  /\ LET node == order[offset]
     IN  /\ scratch' = [scratch EXCEPT ![depthOffsets[depths[node]]] = node]
         /\ depthOffsets' = [depthOffsets EXCEPT ![depths[node]] = NextPosition(@)]
  /\ offset' = offset + 1
  /\ UNCHANGED <<inputs, pc, order, depthStarts, stack, ranges>>

\* order.swap(scratch)
SwapScratch ==
  /\ pc = "scatter" /\ offset >= size
  /\ order' = scratch
  /\ scratch' = order
  /\ offset' = 0
  /\ pc' = "tell"
  /\ UNCHANGED <<inputs, depthStarts, depthOffsets, stack, ranges>>

\* The range of a depth, if it has nodes.
TellDepth ==
  /\ pc = "tell" /\ offset <= ObservedMax
  /\ LET begin == depthStarts[offset]
         end == depthStarts[offset + 1]
     IN  ranges' = IF begin = end THEN ranges
                   ELSE Append(ranges, [depth |-> offset, begin |-> begin, end |-> end])
  /\ offset' = offset + 1
  /\ UNCHANGED <<inputs, pc, order, scratch, depthStarts, depthOffsets, stack>>

AllTold ==
  /\ pc = "tell" /\ offset > ObservedMax
  /\ pc' = "done"
  /\ UNCHANGED <<inputs, order, scratch, depthStarts, depthOffsets, offset, stack, ranges>>

-----------------------------------------------------------------------------
(* One byte of the depth after the other. *)

BeginMsd ==
  /\ pc = "choose" /\ size > 1 /\ ~UsesDense
  /\ stack' = <<[begin |-> 0, end |-> size, digit |-> 0]>>
  /\ pc' = "partition"
  /\ UNCHANGED <<inputs, order, scratch, depthStarts, depthOffsets, offset, ranges>>

Top == stack[Len(stack)]
Popped == SubSeq(stack, 1, Len(stack) - 1)
PositionsOf(range) == range.begin .. range.end - 1

\* A range that needs no partition: one node, or no digit left.
IsFinished(range) == range.end - range.begin <= 1 \/ range.digit = PrefixBytes

RangeDone ==
  /\ pc = "partition" /\ stack # <<>>
  /\ IsFinished(Top)
  /\ stack' = Popped
  /\ ranges' = IF Top.end > Top.begin
                 THEN Append(ranges, [depth |-> depths[order[Top.begin]], begin |-> Top.begin, end |-> Top.end])
                 ELSE ranges
  /\ UNCHANGED <<inputs, pc, order, scratch, depthStarts, depthOffsets, offset>>

\* The position the node at position i of a range is moved to: after the nodes
\* with smaller digits and after the earlier ones with its own.  The mistake is
\* to fill the buckets from behind.
Precedes(i, j, digit) ==
  \/ DigitOf(order[i], digit) < DigitOf(order[j], digit)
  \/ DigitOf(order[i], digit) = DigitOf(order[j], digit) /\ i < j

PrecedesReversed(i, j, digit) ==
  \/ DigitOf(order[i], digit) < DigitOf(order[j], digit)
  \/ DigitOf(order[i], digit) = DigitOf(order[j], digit) /\ i > j

TargetReversed(range, i) ==
  range.begin + Cardinality({j \in PositionsOf(range) : PrecedesReversed(j, i, range.digit)})
Target(range, i) ==
  range.begin + Cardinality({j \in PositionsOf(range) : Precedes(j, i, range.digit)})

\* partitionSingleRange: the order with the range rearranged through scratch.
Partitioned(range) ==
  [p \in Positions |->
     IF p \in PositionsOf(range)
       THEN order[CHOOSE i \in PositionsOf(range) : Target(range, i) = p]
       ELSE order[p]]

\* bucketStarts: the first position of a digit's bucket, and the first after it.
BucketStart(range, d) ==
  range.begin + Cardinality({i \in PositionsOf(range) : DigitOf(order[i], range.digit) < d})

\* The range of a digit's bucket, whose next byte is still to be looked at; the
\* mistakes are to look at the same byte again, and to skip one.
SameDigit(range, d) ==
  [begin |-> BucketStart(range, d), end |-> BucketStart(range, d + 1), digit |-> range.digit]
NextDigitButOne(range, d) ==
  [begin |-> BucketStart(range, d), end |-> BucketStart(range, d + 1), digit |-> range.digit + 2]
BucketRange(range, d) ==
  [begin |-> BucketStart(range, d), end |-> BucketStart(range, d + 1), digit |-> range.digit + 1]

\* pushPartitionedRanges: the buckets that are not empty, the last one first,
\* so that the first one is popped next: the k-th one pushed is the bucket with
\* k - 1 digits above it.  The mistake is to push them in order.
DigitsIn(range) == {DigitOf(order[i], range.digit) : i \in PositionsOf(range)}
Above(digits, d) == {e \in digits : e > d}
Below(digits, d) == {e \in digits : e < d}

FirstAtTheBottom(range) ==
  LET digits == DigitsIn(range)
  IN  [k \in 1 .. Cardinality(digits) |->
         BucketRange(range, CHOOSE d \in digits : Cardinality(Below(digits, d)) = k - 1)]
BucketRanges(range) ==
  LET digits == DigitsIn(range)
  IN  [k \in 1 .. Cardinality(digits) |->
         BucketRange(range, CHOOSE d \in digits : Cardinality(Above(digits, d)) = k - 1)]

PartitionRange ==
  /\ pc = "partition" /\ stack # <<>>
  /\ ~IsFinished(Top)
  /\ order' = Partitioned(Top)
  /\ stack' = Popped \o BucketRanges(Top)
  /\ UNCHANGED <<inputs, pc, scratch, depthStarts, depthOffsets, offset, ranges>>

AllPartitioned ==
  /\ pc = "partition" /\ stack = <<>>
  /\ pc' = "done"
  /\ UNCHANGED <<inputs, order, scratch, depthStarts, depthOffsets, offset, stack, ranges>>

-----------------------------------------------------------------------------

Returned == pc = "done" /\ UNCHANGED vars

DenseStep ==
  \/ BeginDense \/ CountNode \/ BeginPrefix \/ PrefixDepth \/ BeginScatter
  \/ ScatterNode \/ SwapScratch \/ TellDepth \/ AllTold

MsdStep == BeginMsd \/ RangeDone \/ PartitionRange \/ AllPartitioned

Step == ReturnEarly \/ DenseStep \/ MsdStep

Next == Step \/ Returned

Spec == Init /\ [][Next]_vars

FairSpec == Spec /\ WF_vars(Step)

-----------------------------------------------------------------------------

StackRanges == [begin : 0 .. size, end : 0 .. size, digit : 0 .. PrefixBytes]

\* Every index stays within its vector.
TypeOK ==
  /\ size \in Sizes
  /\ depths \in [Nodes -> Depths] /\ idOrder \in Permutations
  /\ pc \in {"choose", "count", "prefix", "scatter", "tell", "partition", "done"}
  /\ order \in [Positions -> Nodes]
  /\ scratch \in [Positions -> Nodes]
  /\ pc \in {"count", "prefix", "scatter"} =>
       depthStarts \in [0 .. ObservedMax + 1 -> 0 .. size]
  /\ pc = "scatter" => depthOffsets \in [0 .. ObservedMax + 1 -> 0 .. size]
  /\ offset \in 0 .. size + 1
  /\ stack \in Seq(StackRanges)
  /\ ranges \in Seq([depth : Depths, begin : 0 .. size, end : 0 .. size])

\* A permutation stays one: the buckets of a partition, and the positions of
\* the counted depths, take every node exactly once.
NodesAreKept == order \in Permutations

\* Ranges on the stack never overlap, and the one popped next is the first.
\* The nodes of a range on the stack agree in the bytes already looked at, and
\* positions that share no range on the stack already hold the smaller depth
\* first: no later partition has to move a node across ranges.
RangesAreSeparated ==
  pc = "partition" =>
    /\ \A k, l \in 1 .. Len(stack) : k < l => stack[l].end <= stack[k].begin
    /\ \A i, j \in Positions :
      i < j =>
        \/ \E k \in 1 .. Len(stack) :
             /\ {i, j} \subseteq PositionsOf(stack[k])
             /\ \A digit \in 0 .. stack[k].digit - 1 :
                  DigitOf(order[i], digit) = DigitOf(order[j], digit)
        \/ depths[order[i]] <= depths[order[j]]

\* The order in which node m came in before node n.
CameBefore(m, n) == \E i, j \in Positions : i < j /\ idOrder[i] = m /\ idOrder[j] = n

\* On return the order is by depth, and nodes of one depth are in the order in
\* which they came: the same result from both groupings.
ResultIsStable ==
  pc = "done" =>
    \A i, j \in Positions : i < j =>
      \/ depths[order[i]] < depths[order[j]]
      \/ depths[order[i]] = depths[order[j]] /\ CameBefore(order[i], order[j])

\* The consumer is told of the order from front to back, one depth after the
\* other, each in one piece, and of nothing that still moves: the ranges told so
\* far cover a front part of the order that is final, and in the end all of it.
RangesTileTheOrder ==
  /\ \A k \in 1 .. Len(ranges) :
       /\ ranges[k].begin = IF k = 1 THEN 0 ELSE ranges[k - 1].end
       /\ k > 1 => ranges[k - 1].depth < ranges[k].depth
       /\ {order[i] : i \in PositionsOf(ranges[k])} = {n \in Nodes : depths[n] = ranges[k].depth}
  /\ pc = "done" /\ size > 1 => ranges # <<>> /\ ranges[Len(ranges)].end = size

\* No range is pushed for ever: each has one byte less to look at.
Terminates == <>(pc = "done")
=============================================================================
