----------------------------- MODULE SmallSorts -----------------------------
(***************************************************************************)
(* The sorts of small ranges that the tail benchmark compares              *)
(* (tail_sort_variants.hpp): insertion by a linear, binary or exponential  *)
(* search, a partition by one bit at a time, and shell sorts.  The         *)
(* insertions look at keys that are cached beside the entries and must     *)
(* move with them (CachedKeyAccessor), or at the ids of the entries        *)
(* themselves (DirectKeyAccessor).                                         *)
(*                                                                         *)
(* The oracle the benchmark holds each of them to is the stable order by   *)
(* id (verifySorterOnCorpus in tail_benchmark_app.cpp).                    *)
(***************************************************************************)
EXTENDS Integers, Sequences, SequencesExt, FiniteSetsExt

CONSTANTS
  RangeSizes,     \* sizes of the range
  MaxRangeSize,   \* small_id_range_sort_threshold: what the fixed scratch holds
  Bits,           \* the bits of an id
  GapSequences    \* the gaps of each shell sort

ASSUME RangeAssumption == RangeSizes \subseteq Nat /\ MaxRangeSize \in Nat /\ Bits \in Nat
ASSUME GapsAssumption ==
  \A g \in GapSequences :
    /\ g \in Seq(Nat \ {0}) /\ g # <<>> /\ Last(g) = 1
    /\ \A i \in 1 .. Len(g) - 1 : g[i] > g[i + 1]

VARIABLES
  ids,          \* the id of each entry of the range, entries named by where they start
  method,       \* "linear", "binary", "exponential", "bitwise" or "shell"
  gaps,         \* the gaps of the passes still to make; <<1>> for an insertion sort
  isCached,     \* whether ids are cached (shouldCacheChunkIds)
  sorterPc,     \* "entry", "insert", "probe", "search", "split", "done" or "throw"
  next,         \* the place whose entry is inserted next
  searchBegin,  \* the places among which its own is searched for
  searchEnd,
  bound,        \* how far back the exponential search looks next
  order,        \* the entries
  keys,         \* the cached ids, by place
  pending       \* ranges still to split, the next one last

sorterInputs == <<ids, method, isCached>>
searched == <<searchBegin, searchEnd, bound>>
sorterVars == <<sorterInputs, gaps, sorterPc, next, searched, order, keys, pending>>

-----------------------------------------------------------------------------

Places == DOMAIN ids
RangeSize == Cardinality(Places)

\* What the lowest bit of an id is worth, the one above it, and so on.
Weight[n \in 0 .. Bits] == IF n = 0 THEN 1 ELSE 2 * Weight[n - 1]
RangeIds == 0 .. Weight[Bits] - 1

\* The bits of an id, the most significant first.
Bit(i, b) == (i \div Weight[Bits - 1 - b]) % 2

RangeSorters == ({"linear", "binary", "exponential", "bitwise"} \X {<<1>>})
                  \cup ({"shell"} \X GapSequences)

SorterInit ==
  /\ \E size \in RangeSizes : ids \in [0 .. size - 1 -> RangeIds]
  /\ \E s \in RangeSorters : method = s[1] /\ gaps = s[2]
  /\ isCached \in BOOLEAN
  /\ sorterPc = "entry"
  /\ next = 0 /\ searchBegin = 0 /\ searchEnd = 0 /\ bound = 0
  /\ order = [p \in Places |-> p]
  /\ keys = ids
  /\ pending = <<>>

\* withFixedSmallSortAccessor and its copy in the bitwise sort: nothing to do
\* for one entry, and too many for the scratch is an error before any is moved.
IsTrivial == RangeSize <= 1
Overflows == RangeSize > MaxRangeSize /\ (isCached \/ method = "bitwise")

EnterSorter ==
  /\ sorterPc = "entry"
  /\ sorterPc' = CASE IsTrivial -> "done"
                   [] ~IsTrivial /\ Overflows -> "throw"
                   [] ~IsTrivial /\ ~Overflows -> IF method = "bitwise" THEN "split" ELSE "insert"
  /\ next' = gaps[1]
  /\ pending' = <<[begin |-> 0, end |-> RangeSize, bit |-> 0]>>
  /\ UNCHANGED <<sorterInputs, gaps, searched, order, keys>>

-----------------------------------------------------------------------------
(* Insertion, with a gap of one, or of more in a shell sort. *)

KeyAt(place) == IF isCached THEN keys[place] ELSE ids[order[place]]
SavedKey == KeyAt(next)
IsLessOrEqual(place) == KeyAt(place) <= SavedKey

\* Places a gap apart, from some place up to the one inserted from.
Chain(place) == {p \in place .. next : (next - p) % gaps[1] = 0}

\* A row of entries or keys after the one at "next" went to a place and those
\* between moved up by the gap.
CameFrom(p, place) ==
  IF p = place THEN next ELSE IF p \in Chain(place) THEN p - gaps[1] ELSE p
Shifted(row, place) == [p \in Places |-> row[CameFrom(p, place)]]

\* The keys move as the entries do; the mistake is to leave them.
KeysStay(place) == keys
MovedKeys(place) == IF isCached THEN Shifted(keys, place) ELSE keys

InsertNextAt(place) ==
  /\ order' = Shifted(order, place)
  /\ keys' = MovedKeys(place)
  /\ next' = next + 1
  /\ sorterPc' = "insert"
  /\ UNCHANGED <<sorterInputs, gaps, searched, pending>>

\* An entry that is not below the one before it, a gap away, stays.
StaysThere == IsLessOrEqual(next - gaps[1])

KeepNext ==
  /\ sorterPc = "insert" /\ next < RangeSize /\ StaysThere
  /\ next' = next + 1
  /\ UNCHANGED <<sorterInputs, gaps, sorterPc, searched, order, keys, pending>>

\* The linear search, which shell sorts use too, walks down while keys are greater.
LinearPlace ==
  Min({p \in Chain(0) : \A q \in Chain(p) \ {next} : ~IsLessOrEqual(q)})

InsertByScan ==
  /\ sorterPc = "insert" /\ next < RangeSize /\ ~StaysThere
  /\ method \in {"linear", "shell"}
  /\ InsertNextAt(LinearPlace)

SearchPlace ==
  /\ sorterPc = "insert" /\ next < RangeSize /\ ~StaysThere
  /\ method \in {"binary", "exponential"}
  /\ searchBegin' = 0
  /\ searchEnd' = IF method = "binary" THEN next ELSE next - 1
  /\ bound' = 2
  /\ sorterPc' = IF method = "binary" THEN "search" ELSE "probe"
  /\ UNCHANGED <<sorterInputs, gaps, next, order, keys, pending>>

\* The exponential search looks 2, 4, 8, ... places back for a key that is not
\* greater, and then between the last two it looked at.
ProbeBack ==
  /\ sorterPc = "probe" /\ bound <= next
  /\ IF IsLessOrEqual(next - bound)
       THEN /\ searchBegin' = next - bound + 1
            /\ sorterPc' = "search"
            /\ UNCHANGED <<searchEnd, bound>>
       ELSE /\ searchEnd' = next - bound
            /\ bound' = 2 * bound
            /\ UNCHANGED <<searchBegin, sorterPc>>
  /\ UNCHANGED <<sorterInputs, gaps, next, order, keys, pending>>

NothingBack ==
  /\ sorterPc = "probe" /\ bound > next
  /\ sorterPc' = "search"
  /\ UNCHANGED <<sorterInputs, gaps, next, searched, order, keys, pending>>

\* The first place with a greater key, by halves.
Bisect ==
  /\ sorterPc = "search" /\ searchBegin < searchEnd
  /\ LET middle == searchBegin + (searchEnd - searchBegin) \div 2
     IN  IF IsLessOrEqual(middle)
           THEN searchBegin' = middle + 1 /\ UNCHANGED searchEnd
           ELSE searchEnd' = middle /\ UNCHANGED searchBegin
  /\ UNCHANGED <<sorterInputs, gaps, sorterPc, next, bound, order, keys, pending>>

InsertFound ==
  /\ sorterPc = "search" /\ searchBegin >= searchEnd
  /\ InsertNextAt(searchBegin)

\* A gap as large as the range makes a pass with nothing to insert.
NextGap ==
  /\ sorterPc = "insert" /\ next >= RangeSize /\ gaps # <<1>>
  /\ gaps' = Tail(gaps)
  /\ next' = gaps'[1]
  /\ UNCHANGED <<sorterInputs, sorterPc, searched, order, keys, pending>>

InsertionDone ==
  /\ sorterPc = "insert" /\ next >= RangeSize /\ gaps = <<1>>
  /\ sorterPc' = "done"
  /\ UNCHANGED <<sorterInputs, gaps, next, searched, order, keys, pending>>

-----------------------------------------------------------------------------
(* The partition by bits. *)

Top == Last(pending)
RangePlaces == Top.begin .. Top.end - 1
BitAt(place, bit) == Bit(ids[order[place]], bit)

\* The first bit, from the range's own on, in which its ids differ.
DifferingBits == {b \in Top.bit .. Bits - 1 : \E p, q \in RangePlaces : BitAt(p, b) # BitAt(q, b)}
SplitBit == Min(DifferingBits)

\* Entries with a zero before those with a one, in the order they had; the
\* mistake is to write the ones backwards.
Zeros == {p \in RangePlaces : BitAt(p, SplitBit) = 0}
Middle == Top.begin + Cardinality(Zeros)
BackwardDestination(p) ==
  IF p \in Zeros THEN Top.begin + Cardinality({q \in Zeros : q < p})
  ELSE Middle + Cardinality({q \in RangePlaces \ Zeros : q > p})
Destination(p) ==
  IF p \in Zeros THEN Top.begin + Cardinality({q \in Zeros : q < p})
  ELSE Middle + Cardinality({q \in RangePlaces \ Zeros : q < p})

\* pushRange: a half with one entry, or after the last bit, needs no more.
Half(begin, end) ==
  IF end - begin > 1 /\ SplitBit + 1 < Bits
    THEN <<[begin |-> begin, end |-> end, bit |-> SplitBit + 1]>>
    ELSE <<>>

Split ==
  /\ sorterPc = "split" /\ pending # <<>> /\ DifferingBits # {}
  /\ order' = [p \in Places |->
                 IF p \in RangePlaces
                   THEN order[CHOOSE q \in RangePlaces : Destination(q) = p] ELSE order[p]]
  /\ pending' = Front(pending) \o Half(Middle, Top.end) \o Half(Top.begin, Middle)
  /\ UNCHANGED <<sorterInputs, gaps, sorterPc, next, searched, keys>>

AllEqual ==
  /\ sorterPc = "split" /\ pending # <<>> /\ DifferingBits = {}
  /\ pending' = Front(pending)
  /\ UNCHANGED <<sorterInputs, gaps, sorterPc, next, searched, order, keys>>

SplitDone ==
  /\ sorterPc = "split" /\ pending = <<>>
  /\ sorterPc' = "done"
  /\ UNCHANGED <<sorterInputs, gaps, next, searched, order, keys, pending>>

SorterReturned == sorterPc \in {"done", "throw"} /\ UNCHANGED sorterVars

SorterNext ==
  \/ EnterSorter
  \/ KeepNext \/ InsertByScan \/ NextGap \/ InsertionDone
  \/ SearchPlace \/ ProbeBack \/ NothingBack \/ Bisect \/ InsertFound
  \/ Split \/ AllEqual \/ SplitDone
  \/ SorterReturned

SorterSpec == SorterInit /\ [][SorterNext]_sorterVars

-----------------------------------------------------------------------------

SortedById == \A p, q \in Places : p < q => ids[order[p]] <= ids[order[q]]

TiesInOrder ==
  \A p, q \in Places : p < q /\ ids[order[p]] = ids[order[q]] => order[p] < order[q]

\* What is behind an insertion is in order already, whichever way places are
\* looked for: with a cached key left behind, or a search that stops one place
\* off, it is not.  The ranges still to split do not meet, so that the fixed
\* scratch holds them, and are in order among themselves.
ProgressIsKept ==
  /\ sorterPc \in {"insert", "probe", "search"} =>
       \A p, q \in 0 .. next - 1 :
         p < q /\ q < RangeSize /\ (q - p) % gaps[1] = 0 => ids[order[p]] <= ids[order[q]]
  /\ sorterPc = "split" =>
       /\ Len(pending) <= MaxRangeSize
       /\ \A i, j \in DOMAIN pending : i < j => pending[j].end <= pending[i].begin
       /\ \A p, q \in Places :
            \/ p >= q \/ ids[order[p]] <= ids[order[q]]
            \/ \E i \in DOMAIN pending : {p, q} \subseteq pending[i].begin .. pending[i].end - 1

\* Every sorter ends with the entries in order by id, each there once, and
\* those that are not shell sorts leave equal ids as they came.
SortsById ==
  sorterPc = "done" =>
    /\ \A n \in Places : \E p \in Places : order[p] = n
    /\ SortedById
    /\ method # "shell" => TiesInOrder

\* The oracle the benchmark holds every sorter it offers to: "exact stable
\* ID-order" (tail_benchmark_app.cpp:392).  The ids of a captured parent-query
\* range may be equal, those of siblings are, and shell sorts are not stable.
MatchesOracle == sorterPc = "done" => SortedById /\ TiesInOrder
=============================================================================
