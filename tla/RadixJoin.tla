------------------------------ MODULE RadixJoin ------------------------------
(***************************************************************************)
(* The parent index as production builds it                                *)
(* (buildParentIndexRadixJoinResultByMsdChunks, detail/parent_index.hpp):  *)
(* ParentIndex with both sorts done by IdRadix, on one workspace and on    *)
(* what the comparator holds (detail/id_permutation_compare.hpp), and with *)
(* duplicates and matches found by the comparator.                         *)
(*                                                                         *)
(* The sorts of IdRadix count from 0, the permutations of ParentIndex      *)
(* from 1.                                                                 *)
(***************************************************************************)
EXTENDS ParentIndex, IdCompare

CONSTANTS
  TraitsKinds,     \* the traits a client may have
  ChunkBytes,      \* RadixChunkBytes
  SmallThreshold,  \* the largest range sorted by insertion
  TouchedMax       \* the largest range counted in the workspace's counters

\* What IdRadix states of the same constants, and that ids fit their bytes.
ASSUME WidthAssumption == ChunkBytes \in Nat \ {0}
ASSUME TraitsAssumption == TraitsKinds \subseteq ForestTraits
ASSUME IdBytesAssumption == \A t \in TraitsKinds : Ids \subseteq 0 .. Power[t.idBytes] - 1
ASSUME ThresholdAssumption == SmallThreshold \in Nat \ {0} /\ TouchedMax \in Nat

VARIABLES
  traits,          \* what the client's ids can do
  joins,           \* TRUE: the ids sorted are the comparator's
  sortedIds,       \* idPermutation once its sort has returned
  sortsLeft, size, key, sortPc, order, pending, range, source, destination,
  bytePass, scratch, keys, rangeIdx, capacity  \* of the running sort; key is its idForIndex

workspace == <<sortsLeft, size, key, sortPc, order, pending, range, source, destination,
               bytePass, scratch, keys, rangeIdx, capacity>>
client == <<traits, joins>>
joinVars == <<vars, client, sortedIds, workspace>>

Sort == INSTANCE IdRadix WITH pc <- sortPc, id <- key, Sizes <- 0 .. NodeCount, Sorts <- 2

RadixInit ==
  /\ Init
  /\ sortedIds = <<>>
  /\ Sort!Init /\ joins = TRUE

-----------------------------------------------------------------------------

\* The loop over the nodes; the comparator is built at its end.
CollectStep ==
  /\ CollectQuery \/ Collected
  /\ UNCHANGED <<client, sortedIds, workspace>>

\* idForEntryIndex and idForQueryIndex: the mistake is to sort the queries by the node ids.
SameIds == [query \in 1 .. QueryCount |-> id[childIndexes[query]]]
QueryKeys == [query \in 1 .. QueryCount |-> WantedId(query)]

Keyed(values, count, first) == [i \in 0 .. count - 1 |-> values[first + i]]

BeginIdSort ==
  /\ pc = "sort" /\ sortsLeft = 2
  /\ size' = NodeCount /\ key' = Keyed(id, NodeCount, 0)
  /\ Sort!BeginSort
  /\ UNCHANGED <<vars, sortedIds>>

EndIdSort ==
  /\ sortsLeft = 1 /\ sortPc = "sorted"
  /\ sortedIds' = order
  /\ Sort!Return
  /\ UNCHANGED vars

BeginQuerySort ==
  /\ pc = "sort" /\ sortsLeft = 1
  /\ size' = QueryCount /\ key' = Keyed(QueryKeys, QueryCount, 1)
  /\ Sort!BeginSort
  /\ UNCHANGED <<vars, sortedIds>>

SortRange ==
  /\ Sort!SkipRange \/ Sort!SmallStep \/ Sort!ChunkStep \/ Sort!EndSort
  /\ UNCHANGED <<vars, sortedIds>>

\* Both permutations are in order: SortBoth of ParentIndex.
EndQuerySort ==
  /\ pc = "sort" /\ sortsLeft = 0 /\ sortPc = "sorted"
  /\ idPermutation' = [i \in 1 .. NodeCount |-> sortedIds[i - 1]]
  /\ queryOrder' = [i \in 1 .. QueryCount |-> order[i - 1] + 1]
  /\ pc' = "reject"
  /\ sortedIds' = <<>>
  /\ Sort!Return
  /\ UNCHANGED <<inputs, collected, childIndexes, idOffset, queryOffset, parentIndex>>

-----------------------------------------------------------------------------
(* The comparator decides.  leftEqual, compare and crossEqual take indexes. *)

joined == <<client, sortedIds, workspace>>

\* rejectAdjacentDuplicates: the mistake is to end a pair early.
AllButLast(p) == \E i \in 2 .. NodeCount - 1 : LeftEqual(traits, id[p[i - 1]], id[p[i]])
AdjacentEqual(p) == \E i \in 2 .. NodeCount : LeftEqual(traits, id[p[i - 1]], id[p[i]])

RejectAdjacent ==
  /\ pc = "reject"
  /\ pc' = IF AdjacentEqual(idPermutation) THEN "throw" ELSE "join"
  /\ UNCHANGED <<inputs, collected, childIndexes, permutations, idOffset, queryOffset, parentIndex, joined>>

Cmp == Compare(traits, id[IdNode], WantedId(Query))
Equal == CrossEqual(traits, id[IdNode], WantedId(Query))

Advance ==
  /\ pc = "join" /\ queryOffset < QueryCount /\ idOffset < NodeCount
  /\ Cmp < 0
  /\ idOffset' = idOffset + 1
  /\ UNCHANGED <<inputs, pc, collected, childIndexes, permutations, queryOffset, parentIndex, joined>>

SetParent ==
  /\ pc = "join" /\ queryOffset < QueryCount /\ idOffset < NodeCount
  /\ Cmp = 0 /\ Equal
  /\ parentIndex' = [parentIndex EXCEPT ![childIndexes[Query]] = IdNode]
  /\ queryOffset' = queryOffset + 1
  /\ UNCHANGED <<inputs, pc, collected, childIndexes, permutations, idOffset, joined>>

NoParentFound ==
  /\ pc = "join" /\ queryOffset < QueryCount
  /\ idOffset < NodeCount => Cmp > 0 \/ (Cmp = 0 /\ ~Equal)
  /\ queryOffset' = queryOffset + 1
  /\ UNCHANGED <<inputs, pc, collected, childIndexes, permutations, idOffset, parentIndex, joined>>

EndJoin == Finish /\ UNCHANGED joined

-----------------------------------------------------------------------------

SortStep == BeginIdSort \/ EndIdSort \/ BeginQuerySort \/ SortRange \/ EndQuerySort
MergeStep == RejectAdjacent \/ Advance \/ SetParent \/ NoParentFound \/ EndJoin

RadixNext ==
  \/ CollectStep \/ SortStep \/ MergeStep
  \/ Returned /\ UNCHANGED joined

RadixSpec == RadixInit /\ [][RadixNext]_joinVars

-----------------------------------------------------------------------------

\* Production's index is one ParentIndex may return, for the same reason: the
\* radix sorts put both permutations in an order by id, the queries' too
\* although the ids were sorted before on the same workspace, and what the
\* comparator answers from cached chunks, ids or hooks is how the ids compare.
ImplementsParentIndex == Spec
=============================================================================
