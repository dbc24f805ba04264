---------------------------- MODULE ParentIndex ----------------------------
(***************************************************************************)
(* buildParentIndexRadixJoin (detail/parent_index.hpp): the index of every *)
(* node's parent without a hash table.  The node ids and the parent ids    *)
(* that are no sentinel (the queries) are sorted, equal neighbours among   *)
(* the ids are rejected, and one pass over both joins each query with the  *)
(* id it equals.  Several queries may equal one id: siblings.              *)
(*                                                                         *)
(* The two sorts are taken by their contract: some permutation that puts   *)
(* the ids in order.  Ids are numbers, ordered as their bytes are compared.*)
(***************************************************************************)
EXTENDS Naturals, Sequences

CONSTANTS
  NodeCount,   \* nodes.size()
  Ids,         \* the ids nodes and parents may have
  Sentinels,   \* the ids the traits take for "no parent"
  NoParent     \* no_parent

Nodes == 0 .. NodeCount - 1

ASSUME NodeCountAssumption == NodeCount \in Nat
ASSUME IdsAssumption == Ids \subseteq Nat
ASSUME NoParentAssumption == NoParent \notin Nat

VARIABLES
  id,             \* traits.id of each node
  parentId,       \* traits.parent_id of each node
  pc,             \* "collect", "sort", "reject", "join", "done" or "throw"
  collected,      \* nodes collected so far
  childIndexes,   \* the node each query is for
  idPermutation,  \* the nodes in the order of their ids
  queryOrder,     \* queryPermutation: the queries in the order of their parent ids
  idOffset,       \* ids the join has passed
  queryOffset,    \* queries the join has passed
  parentIndex     \* the result

inputs == <<id, parentId>>
permutations == <<idPermutation, queryOrder>>
vars == <<inputs, pc, collected, childIndexes, permutations, idOffset, queryOffset, parentIndex>>

-----------------------------------------------------------------------------

QueryCount == Len(childIndexes)

\* The parent id a query looks for.
WantedId(query) == parentId[childIndexes[query]]

WantedIds == [query \in 1 .. QueryCount |-> WantedId(query)]

\* The ways to list the elements of S in the order of their keys.
SortedLists(S, n, key) ==
  {p \in [1 .. n -> S] :
     /\ \A i, j \in 1 .. n : p[i] = p[j] => i = j
     /\ \A i, j \in 1 .. n : i < j => key[p[i]] <= key[p[j]]}

Init ==
  /\ id \in [Nodes -> Ids]
  /\ parentId \in [Nodes -> Ids]
  /\ pc = "collect"
  /\ collected = 0
  /\ childIndexes = <<>>
  /\ idPermutation = <<>>
  /\ queryOrder = <<>>
  /\ idOffset = 0
  /\ queryOffset = 0
  /\ parentIndex = [n \in Nodes |-> NoParent]

\* isParentSentinel: the mistake is to query sentinel parents too.
NeverSentinel(parent) == FALSE
IsSentinel(parent) == parent \in Sentinels

CollectQuery ==
  /\ pc = "collect" /\ collected < NodeCount
  /\ childIndexes' = IF IsSentinel(parentId[collected])
                       THEN childIndexes
                       ELSE Append(childIndexes, collected)
  /\ collected' = collected + 1
  /\ UNCHANGED <<inputs, pc, permutations, idOffset, queryOffset, parentIndex>>

Collected ==
  /\ pc = "collect" /\ collected >= NodeCount
  /\ pc' = "sort"
  /\ UNCHANGED <<inputs, collected, childIndexes, permutations, idOffset, queryOffset, parentIndex>>

\* The orders the queries may be read in.
SortedQueries == SortedLists(1 .. QueryCount, QueryCount, WantedIds)

\* sortPermutation on both permutations, with one workspace.
SortBoth ==
  /\ pc = "sort"
  /\ idPermutation' \in SortedLists(Nodes, NodeCount, id)
  /\ queryOrder' \in SortedQueries
  /\ pc' = "reject"
  /\ UNCHANGED <<inputs, collected, childIndexes, idOffset, queryOffset, parentIndex>>

\* rejectAdjacentDuplicates, and the loop bound that misses the last pair.
MissesLastPair(p) == \E i \in 2 .. NodeCount - 1 : id[p[i - 1]] = id[p[i]]
HasEqualNeighbours(p) == \E i \in 2 .. NodeCount : id[p[i - 1]] = id[p[i]]

RejectDuplicates ==
  /\ pc = "reject"
  /\ pc' = IF HasEqualNeighbours(idPermutation) THEN "throw" ELSE "join"
  /\ UNCHANGED <<inputs, collected, childIndexes, permutations, idOffset, queryOffset, parentIndex>>

\* The id and the query the join looks at.
IdNode == idPermutation[idOffset + 1]
Query == queryOrder[queryOffset + 1]

JoinPassesId ==
  /\ pc = "join" /\ queryOffset < QueryCount /\ idOffset < NodeCount
  /\ id[IdNode] < WantedId(Query)
  /\ idOffset' = idOffset + 1
  /\ UNCHANGED <<inputs, pc, collected, childIndexes, permutations, queryOffset, parentIndex>>

\* The id offset after a match: it stays, for the siblings; the mistake moves it.
ConsumedId == idOffset + 1
IdAfterMatch == idOffset

JoinMatches ==
  /\ pc = "join" /\ queryOffset < QueryCount /\ idOffset < NodeCount
  /\ id[IdNode] = WantedId(Query)
  /\ parentIndex' = [parentIndex EXCEPT ![childIndexes[Query]] = IdNode]
  /\ queryOffset' = queryOffset + 1
  /\ idOffset' = IdAfterMatch
  /\ UNCHANGED <<inputs, pc, collected, childIndexes, permutations>>

NextQuery == queryOffset + 1

\* The id is past the query, or no id is left: no node has the wanted id.
JoinPassesQuery ==
  /\ pc = "join" /\ queryOffset < QueryCount
  /\ idOffset < NodeCount => id[IdNode] > WantedId(Query)
  /\ queryOffset' = NextQuery
  /\ UNCHANGED <<inputs, pc, collected, childIndexes, permutations, idOffset, parentIndex>>

Finish ==
  /\ pc = "join" /\ queryOffset >= QueryCount
  /\ pc' = "done"
  /\ UNCHANGED <<inputs, collected, childIndexes, permutations, idOffset, queryOffset, parentIndex>>

Returned == pc \in {"done", "throw"} /\ UNCHANGED vars

Step ==
  \/ CollectQuery \/ Collected \/ SortBoth \/ RejectDuplicates
  \/ JoinPassesId \/ JoinMatches \/ JoinPassesQuery \/ Finish

Next == Step \/ Returned

Spec == Init /\ [][Next]_vars

-----------------------------------------------------------------------------

\* Offsets stay within the permutations, which are permutations in order.
TypeOK ==
  /\ id \in [Nodes -> Ids] /\ parentId \in [Nodes -> Ids]
  /\ pc \in {"collect", "sort", "reject", "join", "done", "throw"}
  /\ collected \in 0 .. NodeCount
  /\ childIndexes \in Seq(Nodes)
  /\ pc \notin {"collect", "sort"} =>
       /\ idPermutation \in SortedLists(Nodes, NodeCount, id)
       /\ queryOrder \in SortedLists(1 .. QueryCount, QueryCount, WantedIds)
  /\ idOffset \in 0 .. NodeCount
  /\ queryOffset \in 0 .. QueryCount
  /\ parentIndex \in [Nodes -> Nodes \cup {NoParent}]

\* Every id the join has passed is smaller than every parent id it has still
\* to look for: moving on from an id can lose no child, sibling or not.
PassedIdsAreSmaller ==
  pc \in {"join", "done"} =>
    \A i \in 1 .. idOffset : \A q \in queryOffset + 1 .. QueryCount :
      id[idPermutation[i]] < WantedId(queryOrder[q])

\* On return a node's parent index is the node that has its parent id, or
\* NoParent when its parent id is a sentinel or no node has it: siblings, nodes
\* that are their own parent and nodes whose id is a sentinel included.
JoinIsExact ==
  pc = "done" =>
    \A n \in Nodes :
      IF parentId[n] \notin Sentinels /\ \E m \in Nodes : id[m] = parentId[n]
        THEN parentIndex[n] \in Nodes /\ id[parentIndex[n]] = parentId[n]
        ELSE parentIndex[n] = NoParent

\* Two nodes with one id are found although only neighbours are compared, and
\* nothing else is rejected.
DuplicatesAreRejected ==
  /\ pc = "throw" => \E m, n \in Nodes : m # n /\ id[m] = id[n]
  /\ pc \in {"join", "done"} => \A m, n \in Nodes : id[m] = id[n] => m = n
=============================================================================
