------------------------- MODULE ParentIndexProofs -------------------------
(***************************************************************************)
(* Proofs about ParentIndex for every node count and every set of ids, and  *)
(* that production's join, RadixJoin, implements it.                        *)
(***************************************************************************)
EXTENDS RadixJoin, FiniteSets, Functions, TLAPS, FiniteSetTheorems, SequenceTheorems

\* A list of n different elements of a set of n elements holds all of them.
LEMMA ListHoldsAll ==
  ASSUME NEW n \in Nat, NEW S, IsFiniteSet(S), Cardinality(S) = n, NEW p \in [1 .. n -> S],
         \A i, j \in 1 .. n : p[i] = p[j] => i = j
  PROVE  \A x \in S : \E i \in 1 .. n : p[i] = x
<1>1. p \in Injection(1 .. n, S)
  BY DEF Injection, IsInjective
<1>2. Cardinality(1 .. n) = n
  BY FS_Interval
<1>3. p \in Surjection(1 .. n, S)
  BY <1>1, <1>2, FS_Injection
<1>. QED  BY <1>3 DEF Surjection

LEMMA PermutationHoldsAll ==
  ASSUME NEW n \in Nat, NEW p \in [1 .. n -> 1 .. n],
         \A i, j \in 1 .. n : p[i] = p[j] => i = j
  PROVE  \A x \in 1 .. n : \E i \in 1 .. n : p[i] = x
<1>1. p \in Injection(1 .. n, 1 .. n)
  BY DEF Injection, IsInjective
<1>2. IsFiniteSet(1 .. n)
  BY FS_Interval
<1>3. p \in Surjection(1 .. n, 1 .. n)
  BY <1>1, <1>2, FS_Injection
<1>. QED  BY <1>3 DEF Surjection

LEMMA NodesFinite == IsFiniteSet(Nodes) /\ Cardinality(Nodes) = NodeCount
BY FS_Interval, NodeCountAssumption DEF Nodes

-----------------------------------------------------------------------------
(* What each phase has established. *)

InputsOK == id \in [Nodes -> Ids] /\ parentId \in [Nodes -> Ids]

\* The queries are the nodes collected whose parent id is no sentinel.
QueriesOK ==
  /\ collected \in 0 .. NodeCount
  /\ childIndexes \in [1 .. QueryCount -> Nodes] /\ QueryCount \in Nat
  /\ childIndexes \in Seq(Nodes)
  /\ \A k \in 1 .. QueryCount :
       childIndexes[k] < collected /\ parentId[childIndexes[k]] \notin Sentinels
  /\ \A j, k \in 1 .. QueryCount : childIndexes[j] = childIndexes[k] => j = k
  /\ \A n \in Nodes : n < collected /\ parentId[n] \notin Sentinels =>
       \E k \in 1 .. QueryCount : childIndexes[k] = n
  /\ pc # "collect" => collected = NodeCount

PermutationsOK ==
  pc \notin {"collect", "sort"} =>
    /\ idPermutation \in SortedLists(Nodes, NodeCount, id)
    /\ queryOrder \in SortedLists(1 .. QueryCount, QueryCount, WantedIds)

\* The parent index of a node whose query has been answered.
AnsweredBy(index, n) ==
  IF \E m \in Nodes : id[m] = parentId[n]
    THEN index[n] \in Nodes /\ id[index[n]] = parentId[n]
    ELSE index[n] = NoParent

Answered(n) == AnsweredBy(parentIndex, n)

JoinOK ==
  /\ idOffset \in 0 .. NodeCount /\ queryOffset \in 0 .. QueryCount
  /\ parentIndex \in [Nodes -> Nodes \cup {NoParent}]
  /\ pc \in {"collect", "sort", "reject"} => idOffset = 0 /\ queryOffset = 0
  /\ \A q \in 1 .. queryOffset : Answered(childIndexes[queryOrder[q]])
  /\ \A n \in Nodes :
       (\A q \in 1 .. queryOffset : childIndexes[queryOrder[q]] # n) => parentIndex[n] = NoParent
  /\ pc = "done" => queryOffset = QueryCount

\* The inductive invariant.
JoinInv ==
  /\ InputsOK
  /\ pc \in {"collect", "sort", "reject", "join", "done", "throw"}
  /\ QueriesOK
  /\ PermutationsOK
  /\ DuplicatesAreRejected
  /\ PassedIdsAreSmaller
  /\ JoinOK

LEMMA InitJoinInv == Init => JoinInv
<1> SUFFICES ASSUME Init PROVE JoinInv
  OBVIOUS
<1>1. QueriesOK
  BY EmptySeq, NodeCountAssumption DEF Init, QueriesOK, QueryCount, Nodes
<1>2. JoinOK
  BY <1>1, NodeCountAssumption DEF Init, JoinOK, QueryCount, QueriesOK
<1>. QED
  BY <1>1, <1>2 DEF Init, JoinInv, InputsOK, PermutationsOK, DuplicatesAreRejected,
     PassedIdsAreSmaller

LEMMA CollectKeepsJoinInv ==
  ASSUME JoinInv, CollectQuery \/ Collected
  PROVE  JoinInv'
<1>1. /\ pc = "collect" /\ pc' \in {"collect", "sort"} /\ UNCHANGED inputs
      /\ id' = id /\ parentId' = parentId
      /\ UNCHANGED <<idOffset, queryOffset, parentIndex>> /\ idOffset = 0 /\ queryOffset = 0
      /\ QueriesOK /\ JoinOK /\ InputsOK
  BY DEF CollectQuery, Collected, inputs, JoinInv, JoinOK
<1>2. QueriesOK'
  <2>1. CASE Collected
    BY <1>1, <2>1, NodeCountAssumption DEF Collected, QueriesOK, QueryCount
  <2>2. CASE CollectQuery /\ parentId[collected] \in Sentinels
    BY <1>1, <2>2, NodeCountAssumption DEF CollectQuery, IsSentinel, QueriesOK, QueryCount, Nodes
  <2>3. CASE CollectQuery /\ parentId[collected] \notin Sentinels
    <3>1. /\ collected \in Nodes /\ childIndexes \in Seq(Nodes)
          /\ childIndexes' = Append(childIndexes, collected)
          /\ collected' = collected + 1 /\ collected' \in 0 .. NodeCount /\ pc' = "collect"
      BY <1>1, <2>3, NodeCountAssumption DEF CollectQuery, IsSentinel, QueriesOK, Nodes
    <3>2. /\ childIndexes' \in Seq(Nodes) /\ Len(childIndexes') = Len(childIndexes) + 1
          /\ \A k \in 1 .. Len(childIndexes) : childIndexes'[k] = childIndexes[k]
          /\ childIndexes'[Len(childIndexes) + 1] = collected
      BY <3>1, AppendProperties
    <3>3. childIndexes' \in [1 .. Len(childIndexes') -> Nodes] /\ Len(childIndexes') \in Nat
      BY <3>2, LenProperties
    <3>4. \A k \in 1 .. Len(childIndexes') : k \in 1 .. Len(childIndexes) \/ k = Len(childIndexes) + 1
      BY <3>2, <1>1 DEF QueriesOK, QueryCount
    <3>5. \A k \in 1 .. Len(childIndexes') :
            childIndexes'[k] < collected' /\ parentId[childIndexes'[k]] \notin Sentinels
      BY <3>1, <3>2, <3>4, <1>1, <2>3 DEF QueriesOK, QueryCount, Nodes
    <3>6. \A j, k \in 1 .. Len(childIndexes') : childIndexes'[j] = childIndexes'[k] => j = k
      BY <3>1, <3>2, <3>4, <1>1 DEF QueriesOK, QueryCount, Nodes
    <3>7. ASSUME NEW n \in Nodes, n < collected', parentId[n] \notin Sentinels
          PROVE  \E k \in 1 .. Len(childIndexes') : childIndexes'[k] = n
      <4>1. CASE n = collected
        BY <4>1, <3>2, <3>3
      <4>2. CASE n # collected
        <5>1. n < collected
          BY <4>2, <3>1, <3>7 DEF Nodes
        <5>2. PICK k \in 1 .. Len(childIndexes) : childIndexes[k] = n
          BY <5>1, <3>7, <1>1 DEF QueriesOK, QueryCount
        <5>. QED  BY <5>2, <3>2, <3>3
      <4>. QED  BY <4>1, <4>2
    <3>. QED  BY <1>1, <3>1, <3>2, <3>3, <3>5, <3>6, <3>7 DEF QueriesOK, QueryCount
  <2>. QED  BY <2>1, <2>2, <2>3 DEF IsSentinel
<1>3. JoinOK'
  BY <1>1, <1>2 DEF JoinOK, QueriesOK, Answered, AnsweredBy
<1>. QED
  BY <1>1, <1>2, <1>3 DEF JoinInv, InputsOK, PermutationsOK, DuplicatesAreRejected,
     PassedIdsAreSmaller

LEMMA SortKeepsJoinInv ==
  ASSUME JoinInv, SortBoth
  PROVE  JoinInv'
<1>1. /\ pc = "sort" /\ pc' = "reject" /\ UNCHANGED <<id, parentId, collected, childIndexes>>
      /\ UNCHANGED <<idOffset, queryOffset, parentIndex>> /\ idOffset = 0 /\ queryOffset = 0
      /\ idPermutation' \in SortedLists(Nodes, NodeCount, id)
      /\ queryOrder' \in SortedLists(1 .. QueryCount, QueryCount, WantedIds)
  BY DEF SortBoth, SortedQueries, inputs, JoinInv, JoinOK
<1>2. PermutationsOK'
  BY <1>1 DEF PermutationsOK, SortedLists, WantedIds, WantedId, QueryCount
<1>3. JoinOK' /\ QueriesOK'
  BY <1>1 DEF JoinInv, JoinOK, QueriesOK, QueryCount, Answered, AnsweredBy
<1>. QED
  BY <1>1, <1>2, <1>3 DEF JoinInv, InputsOK, DuplicatesAreRejected, PassedIdsAreSmaller

\* In an ordered list without equal neighbours no two entries are equal.
LEMMA NeighboursSuffice ==
  ASSUME JoinInv, pc = "reject", ~HasEqualNeighbours(idPermutation)
  PROVE  \A m, n \in Nodes : id[m] = id[n] => m = n
<1>1. /\ idPermutation \in [1 .. NodeCount -> Nodes]
      /\ \A i, j \in 1 .. NodeCount : idPermutation[i] = idPermutation[j] => i = j
      /\ \A i, j \in 1 .. NodeCount : i < j => id[idPermutation[i]] <= id[idPermutation[j]]
      /\ id \in [Nodes -> Nat]
  BY IdsAssumption DEF JoinInv, PermutationsOK, SortedLists, WantedIds, InputsOK
<1>2. \A i \in 2 .. NodeCount : id[idPermutation[i - 1]] # id[idPermutation[i]]
  BY DEF HasEqualNeighbours
<1>3. ASSUME NEW i \in 1 .. NodeCount, NEW j \in 1 .. NodeCount, i < j
      PROVE  id[idPermutation[i]] # id[idPermutation[j]]
  <2>1. j \in 2 .. NodeCount /\ j - 1 \in 1 .. NodeCount /\ j - 1 < j /\ (i < j - 1 \/ i = j - 1)
    BY <1>3, NodeCountAssumption
  <2>2. id[idPermutation[j - 1]] # id[idPermutation[j]]
    BY <1>2, <2>1
  <2>3. id[idPermutation[j - 1]] <= id[idPermutation[j]]
    BY <1>1, <2>1
  <2>4. id[idPermutation[i]] <= id[idPermutation[j - 1]]
    BY <1>1, <2>1
  <2>5. /\ id[idPermutation[i]] \in Nat /\ id[idPermutation[j]] \in Nat
        /\ id[idPermutation[j - 1]] \in Nat
    BY <1>1, <2>1
  <2>. QED  BY <2>2, <2>3, <2>4, <2>5
<1>4. ASSUME NEW m \in Nodes, NEW n \in Nodes, id[m] = id[n] PROVE m = n
  <2>1. PICK i \in 1 .. NodeCount : idPermutation[i] = m
    BY <1>1, NodesFinite, ListHoldsAll, NodeCountAssumption
  <2>2. PICK j \in 1 .. NodeCount : idPermutation[j] = n
    BY <1>1, NodesFinite, ListHoldsAll, NodeCountAssumption
  <2>3. ~(i < j) /\ ~(j < i)
    BY <1>3, <1>4, <2>1, <2>2
  <2>4. i = j
    BY <2>3
  <2>. QED  BY <2>1, <2>2, <2>4
<1>. QED  BY <1>4

LEMMA RejectKeepsJoinInv ==
  ASSUME JoinInv, RejectDuplicates
  PROVE  JoinInv'
<1>1. /\ pc = "reject" /\ UNCHANGED <<id, parentId, collected, childIndexes>>
      /\ UNCHANGED <<idOffset, queryOffset, parentIndex, idPermutation, queryOrder>>
      /\ idOffset = 0 /\ queryOffset = 0
      /\ pc' = IF HasEqualNeighbours(idPermutation) THEN "throw" ELSE "join"
  BY DEF RejectDuplicates, inputs, permutations, JoinInv, JoinOK
<1>2. JoinOK' /\ QueriesOK' /\ PermutationsOK' /\ InputsOK'
  BY <1>1 DEF JoinInv, JoinOK, QueriesOK, QueryCount, Answered, AnsweredBy, PermutationsOK, InputsOK,
     SortedLists, WantedIds, WantedId
<1>3. PassedIdsAreSmaller'
  BY <1>1 DEF PassedIdsAreSmaller
<1>4. DuplicatesAreRejected'
  <2>1. CASE HasEqualNeighbours(idPermutation)
    <3>1. PICK i \in 2 .. NodeCount : id[idPermutation[i - 1]] = id[idPermutation[i]]
      BY <2>1 DEF HasEqualNeighbours
    <3>2. i - 1 \in 1 .. NodeCount /\ i \in 1 .. NodeCount /\ i - 1 # i
      BY NodeCountAssumption
    <3>3. /\ idPermutation[i - 1] \in Nodes /\ idPermutation[i] \in Nodes
          /\ idPermutation[i - 1] # idPermutation[i]
      BY <1>1, <3>2 DEF JoinInv, PermutationsOK, SortedLists
    <3>. QED  BY <1>1, <2>1, <3>1, <3>3 DEF DuplicatesAreRejected
  <2>2. CASE ~HasEqualNeighbours(idPermutation)
    BY <1>1, <2>2, NeighboursSuffice DEF DuplicatesAreRejected
  <2>. QED  BY <2>1, <2>2
<1>. QED  BY <1>1, <1>2, <1>3, <1>4 DEF JoinInv

\* What the join knows when it looks at a query.
LEMMA JoinFacts ==
  ASSUME JoinInv, pc = "join", queryOffset < QueryCount
  PROVE  /\ id \in [Nodes -> Nat] /\ parentId \in [Nodes -> Nat]
         /\ idOffset \in 0 .. NodeCount /\ queryOffset + 1 \in 1 .. QueryCount
         /\ Query \in 1 .. QueryCount /\ childIndexes[Query] \in Nodes
         /\ WantedId(Query) \in Nat
         /\ \A i \in 1 .. NodeCount : idPermutation[i] \in Nodes
         /\ \A i, j \in 1 .. NodeCount :
              i < j => id[idPermutation[i]] <= id[idPermutation[j]]
         /\ \A q \in 1 .. QueryCount : queryOrder[q] \in 1 .. QueryCount
         /\ \A q \in queryOffset + 1 .. QueryCount : WantedId(Query) <= WantedId(queryOrder[q])
         /\ \A i \in 1 .. idOffset : id[idPermutation[i]] < WantedId(Query)
         /\ idOffset < NodeCount => IdNode \in Nodes
         /\ \A m \in Nodes : \E i \in 1 .. NodeCount : idPermutation[i] = m
         /\ \A q \in 1 .. queryOffset : childIndexes[queryOrder[q]] # childIndexes[Query]
<1>1. /\ id \in [Nodes -> Nat] /\ parentId \in [Nodes -> Nat]
      /\ idOffset \in 0 .. NodeCount /\ queryOffset \in 0 .. QueryCount /\ QueryCount \in Nat
      /\ childIndexes \in [1 .. QueryCount -> Nodes]
      /\ \A j, k \in 1 .. QueryCount : childIndexes[j] = childIndexes[k] => j = k
  BY IdsAssumption DEF JoinInv, InputsOK, JoinOK, QueriesOK
<1>2. /\ idPermutation \in [1 .. NodeCount -> Nodes]
      /\ \A i, j \in 1 .. NodeCount : idPermutation[i] = idPermutation[j] => i = j
      /\ \A i, j \in 1 .. NodeCount : i < j => id[idPermutation[i]] <= id[idPermutation[j]]
      /\ queryOrder \in [1 .. QueryCount -> 1 .. QueryCount]
      /\ \A i, j \in 1 .. QueryCount : queryOrder[i] = queryOrder[j] => i = j
      /\ \A i, j \in 1 .. QueryCount : i < j => WantedId(queryOrder[i]) <= WantedId(queryOrder[j])
  BY DEF JoinInv, PermutationsOK, SortedLists, WantedIds
<1>3. /\ queryOffset + 1 \in 1 .. QueryCount /\ Query \in 1 .. QueryCount
      /\ childIndexes[Query] \in Nodes /\ WantedId(Query) \in Nat
  BY <1>1, <1>2 DEF Query, WantedId
<1>4. \A q \in queryOffset + 1 .. QueryCount : WantedId(Query) <= WantedId(queryOrder[q])
  <2> SUFFICES ASSUME NEW q \in queryOffset + 1 .. QueryCount
               PROVE  WantedId(Query) <= WantedId(queryOrder[q])
    OBVIOUS
  <2>1. q \in 1 .. QueryCount /\ (queryOffset + 1 < q \/ queryOffset + 1 = q)
    BY <1>1
  <2>. QED  BY <2>1, <1>2, <1>3 DEF Query
<1>5. \A i \in 1 .. idOffset : id[idPermutation[i]] < WantedId(Query)
  BY <1>3 DEF JoinInv, PassedIdsAreSmaller, Query
<1>6. idOffset < NodeCount => IdNode \in Nodes
  BY <1>1, <1>2, NodeCountAssumption DEF IdNode
<1>7. \A m \in Nodes : \E i \in 1 .. NodeCount : idPermutation[i] = m
  BY <1>2, NodesFinite, NodeCountAssumption, ListHoldsAll
<1>8. \A q \in 1 .. queryOffset : childIndexes[queryOrder[q]] # childIndexes[Query]
  <2> SUFFICES ASSUME NEW q \in 1 .. queryOffset
               PROVE  childIndexes[queryOrder[q]] # childIndexes[Query]
    OBVIOUS
  <2>1. q \in 1 .. QueryCount /\ q # queryOffset + 1
    BY <1>1
  <2>. QED  BY <2>1, <1>1, <1>2, <1>3 DEF Query
<1>. QED  BY <1>1, <1>2, <1>3, <1>4, <1>5, <1>6, <1>7, <1>8

\* Passing an id smaller than this query's parent id loses no later query.
LEMMA PassIdKeepsJoinInv ==
  ASSUME JoinInv, JoinPassesId
  PROVE  JoinInv'
<1>1. /\ pc = "join" /\ pc' = "join" /\ UNCHANGED <<id, parentId, collected, childIndexes>>
      /\ UNCHANGED <<queryOffset, parentIndex, idPermutation, queryOrder>>
      /\ idOffset' = idOffset + 1 /\ idOffset < NodeCount /\ queryOffset < QueryCount
      /\ id[IdNode] < WantedId(Query)
  BY DEF JoinPassesId, inputs, permutations
<1>2. idOffset' \in 0 .. NodeCount
  BY <1>1, JoinFacts, NodeCountAssumption
<1>3. JoinOK' /\ QueriesOK' /\ PermutationsOK' /\ InputsOK' /\ DuplicatesAreRejected'
  <2>1. JoinOK'
    BY <1>1, <1>2 DEF JoinInv, JoinOK, QueryCount, Answered, AnsweredBy
  <2>2. QueriesOK' /\ InputsOK' /\ DuplicatesAreRejected'
    BY <1>1 DEF JoinInv, QueriesOK, QueryCount, InputsOK, DuplicatesAreRejected
  <2>3. PermutationsOK'
    BY <1>1 DEF JoinInv, PermutationsOK, QueryCount, SortedLists, WantedIds, WantedId
  <2> QED
    BY <2>1, <2>2, <2>3
<1>4. ASSUME NEW i \in 1 .. idOffset + 1, NEW q \in queryOffset + 1 .. QueryCount
      PROVE  id[idPermutation[i]] < WantedId(queryOrder[q])
  <2>1. CASE i = idOffset + 1
    <3>1. id[IdNode] \in Nat /\ WantedId(Query) \in Nat /\ q \in 1 .. QueryCount
          /\ WantedId(Query) <= WantedId(queryOrder[q])
      BY <1>1, JoinFacts
    <3>2. WantedId(queryOrder[q]) \in Nat
      BY <3>1, <1>1, JoinFacts DEF WantedId, JoinInv, QueriesOK
    <3>. QED  BY <3>1, <3>2, <2>1, <1>1 DEF IdNode
  <2>2. CASE i \in 1 .. idOffset
    BY <2>2, <1>1 DEF JoinInv, PassedIdsAreSmaller
  <2>3. i = idOffset + 1 \/ i \in 1 .. idOffset
    BY <1>1, JoinFacts
  <2>. QED  BY <2>1, <2>2, <2>3
<1>5. PassedIdsAreSmaller'
  BY <1>1, <1>4 DEF PassedIdsAreSmaller, QueryCount, WantedId
<1>. QED  BY <1>1, <1>3, <1>5 DEF JoinInv

\* A query is answered, by a match or by nobody: later answers leave it alone.
LEMMA AnswerKeepsJoinInv ==
  ASSUME JoinInv, JoinMatches \/ JoinPassesQuery
  PROVE  JoinInv'
<1> DEFINE child == childIndexes[Query]
<1>1. /\ pc = "join" /\ pc' = "join" /\ UNCHANGED <<id, parentId, collected, childIndexes>>
      /\ UNCHANGED <<idPermutation, queryOrder, idOffset>>
      /\ queryOffset' = queryOffset + 1 /\ queryOffset < QueryCount
  BY DEF JoinMatches, JoinPassesQuery, inputs, permutations, IdAfterMatch, NextQuery
<1>2. /\ queryOffset \in Nat /\ QueryCount \in Nat /\ QueryCount' = QueryCount
      /\ queryOffset' \in 0 .. QueryCount /\ child \in Nodes /\ Query = queryOrder[queryOffset + 1]
      /\ \A q \in 1 .. queryOffset : childIndexes[queryOrder[q]] # child
      /\ parentIndex \in [Nodes -> Nodes \cup {NoParent}]
      /\ \A q \in 1 .. queryOffset' : q \in 1 .. queryOffset \/ q = queryOffset + 1
  <2>1. queryOffset \in 0 .. QueryCount /\ QueryCount \in Nat /\ QueryCount' = QueryCount
    BY <1>1 DEF QueryCount, JoinInv, QueriesOK, JoinOK
  <2>2. /\ child \in Nodes /\ Query = queryOrder[queryOffset + 1]
        /\ \A q \in 1 .. queryOffset : childIndexes[queryOrder[q]] # child
    BY <1>1, JoinFacts DEF Query
  <2>3. /\ queryOffset' \in 0 .. QueryCount
        /\ \A q \in 1 .. queryOffset' : q \in 1 .. queryOffset \/ q = queryOffset + 1
    BY <2>1, <1>1
  <2>4. parentIndex \in [Nodes -> Nodes \cup {NoParent}]
    BY DEF JoinInv, JoinOK
  <2>. QED  BY <2>1, <2>2, <2>3, <2>4
<1>3. QueriesOK' /\ PermutationsOK' /\ InputsOK' /\ DuplicatesAreRejected'
  BY <1>1 DEF JoinInv, QueriesOK, QueryCount, PermutationsOK, InputsOK,
     SortedLists, WantedIds, WantedId, DuplicatesAreRejected
<1>4. PassedIdsAreSmaller'
  BY <1>1, <1>2 DEF JoinInv, PassedIdsAreSmaller, QueryCount, WantedId
<1>5. /\ parentIndex' \in [Nodes -> Nodes \cup {NoParent}]
      /\ \A n \in Nodes : n # child => parentIndex'[n] = parentIndex[n]
      /\ AnsweredBy(parentIndex', child)
  <2>1. CASE JoinMatches
    <3>1. /\ idOffset < NodeCount /\ id[IdNode] = WantedId(Query)
          /\ parentIndex' = [parentIndex EXCEPT ![child] = IdNode]
      BY <2>1 DEF JoinMatches
    <3>2. IdNode \in Nodes
      BY <3>1, <1>1, JoinFacts
    <3>. QED  BY <3>1, <3>2, <1>1, <1>2 DEF AnsweredBy, WantedId
  <2>2. CASE JoinPassesQuery
    <3>1. parentIndex' = parentIndex /\ (idOffset < NodeCount => id[IdNode] > WantedId(Query))
      BY <2>2 DEF JoinPassesQuery
    <3>2. ASSUME NEW m \in Nodes PROVE id[m] # parentId[child]
      <4>1. PICK i \in 1 .. NodeCount : idPermutation[i] = m
        BY <1>1, JoinFacts
      <4>2. /\ WantedId(Query) \in Nat /\ id[m] \in Nat /\ idOffset \in 0 .. NodeCount
            /\ WantedId(Query) = parentId[child]
        BY <1>1, JoinFacts DEF WantedId
      <4>3. CASE i <= idOffset
        <5>1. id[m] < WantedId(Query)
          BY <4>1, <4>2, <4>3, <1>1, JoinFacts
        <5>. QED  BY <5>1, <4>2
      <4>4. CASE i > idOffset
        <5>1. idOffset < NodeCount /\ idOffset + 1 \in 1 .. NodeCount
              /\ (idOffset + 1 < i \/ idOffset + 1 = i)
          BY <4>2, <4>4, NodeCountAssumption
        <5>2. id[IdNode] <= id[m] /\ id[IdNode] \in Nat
          BY <5>1, <4>1, <4>2, <1>1, JoinFacts DEF IdNode
        <5>. QED  BY <5>1, <5>2, <4>2, <3>1
      <4>. QED  BY <4>2, <4>3, <4>4
    <3>3. parentIndex[child] = NoParent
      BY <1>2 DEF JoinInv, JoinOK
    <3>. QED  BY <3>1, <3>2, <3>3, <1>1, <1>2 DEF AnsweredBy
  <2>. QED  BY <2>1, <2>2
<1>6. \A q \in 1 .. queryOffset' : AnsweredBy(parentIndex', childIndexes[queryOrder[q]])
  <2> SUFFICES ASSUME NEW q \in 1 .. queryOffset'
               PROVE  AnsweredBy(parentIndex', childIndexes[queryOrder[q]])
    OBVIOUS
  <2>1. CASE q = queryOffset + 1
    BY <2>1, <1>2, <1>5
  <2>2. CASE q \in 1 .. queryOffset
    <3>1. Answered(childIndexes[queryOrder[q]]) /\ childIndexes[queryOrder[q]] # child
      BY <2>2, <1>2 DEF JoinInv, JoinOK
    <3>2. childIndexes[queryOrder[q]] \in Nodes
      <4>1. q \in 1 .. QueryCount
        BY <2>2, <1>1, <1>2
      <4>. QED  BY <4>1, <1>1, JoinFacts DEF JoinInv, QueriesOK
    <3>. QED  BY <3>1, <3>2, <1>5 DEF Answered, AnsweredBy
  <2>. QED  BY <2>1, <2>2, <1>2
<1>7. ASSUME NEW n \in Nodes, \A q \in 1 .. queryOffset' : childIndexes[queryOrder[q]] # n
      PROVE  parentIndex'[n] = NoParent
  <2>1. n # child
    BY <1>7, <1>1, <1>2
  <2>2. parentIndex[n] = NoParent
    BY <1>7, <1>1, <1>2 DEF JoinInv, JoinOK
  <2>. QED  BY <2>1, <2>2, <1>5
<1>8. JoinOK'
  BY <1>1, <1>2, <1>5, <1>6, <1>7 DEF JoinInv, JoinOK, QueryCount, Answered, AnsweredBy
<1>. QED  BY <1>1, <1>3, <1>4, <1>8 DEF JoinInv

LEMMA OtherStepsKeepJoinInv ==
  ASSUME JoinInv, Finish \/ UNCHANGED vars
  PROVE  JoinInv'
<1>1. /\ pc' = pc \/ (pc = "join" /\ pc' = "done" /\ queryOffset >= QueryCount)
      /\ UNCHANGED <<id, parentId, collected, childIndexes, idPermutation, queryOrder>>
      /\ UNCHANGED <<idOffset, queryOffset, parentIndex>>
  BY DEF Finish, vars, inputs, permutations
<1>2. pc = "join" /\ pc' = "done" => queryOffset = QueryCount
  BY <1>1 DEF JoinInv, JoinOK, QueriesOK
<1>3. QueriesOK' /\ PermutationsOK' /\ InputsOK' /\ DuplicatesAreRejected' /\ PassedIdsAreSmaller'
  BY <1>1 DEF JoinInv, QueriesOK, QueryCount, PermutationsOK, InputsOK,
     SortedLists, WantedIds, WantedId, DuplicatesAreRejected, PassedIdsAreSmaller
<1>4. JoinOK'
  BY <1>1, <1>2 DEF JoinInv, JoinOK, QueryCount, Answered, AnsweredBy
<1>. QED  BY <1>1, <1>3, <1>4 DEF JoinInv

\* Every step keeps it.
LEMMA NextKeepsJoinInv ==
  ASSUME JoinInv, [Next]_vars
  PROVE  JoinInv'
BY CollectKeepsJoinInv, SortKeepsJoinInv, RejectKeepsJoinInv, PassIdKeepsJoinInv,
   AnswerKeepsJoinInv, OtherStepsKeepJoinInv DEF Next, Step, Returned

LEMMA JoinInvCorrect == Spec => []JoinInv
BY InitJoinInv, NextKeepsJoinInv, PTL DEF Spec

-----------------------------------------------------------------------------

\* The offsets never run past their permutations and every write to the parent
\* index is one of a node's index.
THEOREM TypeCorrect == Spec => []TypeOK
<1>1. JoinInv => TypeOK
  BY DEF JoinInv, InputsOK, QueriesOK, PermutationsOK, JoinOK, TypeOK
<1>. QED  BY <1>1, JoinInvCorrect, PTL

\* No id the join has moved past is one that a later query looks for.
THEOREM NoQueryIsMissed == Spec => []PassedIdsAreSmaller
<1>1. JoinInv => PassedIdsAreSmaller
  BY DEF JoinInv
<1>. QED  BY <1>1, JoinInvCorrect, PTL

\* Comparing neighbours of the sorted ids finds every duplicate and no other.
THEOREM NoDuplicateIsMissed == Spec => []DuplicatesAreRejected
<1>1. JoinInv => DuplicatesAreRejected
  BY DEF JoinInv
<1>. QED  BY <1>1, JoinInvCorrect, PTL

\* The parent index is exact for every node when the join returns.
THEOREM JoinComputesParents == Spec => []JoinIsExact
<1>1. ASSUME JoinInv, pc = "done", NEW n \in Nodes,
             parentId[n] \notin Sentinels
      PROVE  Answered(n)
  <2>1. PICK k \in 1 .. QueryCount : childIndexes[k] = n
    <3>1. n < collected
      BY <1>1, NodeCountAssumption DEF JoinInv, QueriesOK, Nodes
    <3>. QED  BY <3>1, <1>1 DEF JoinInv, QueriesOK
  <2>2. QueryCount \in Nat /\ queryOffset = QueryCount
    BY <1>1 DEF JoinInv, QueriesOK, JoinOK
  <2>3. /\ queryOrder \in [1 .. QueryCount -> 1 .. QueryCount]
        /\ \A i, j \in 1 .. QueryCount : queryOrder[i] = queryOrder[j] => i = j
    BY <1>1 DEF JoinInv, PermutationsOK, SortedLists
  <2>4. PICK q \in 1 .. QueryCount : queryOrder[q] = k
    BY <2>2, <2>3, PermutationHoldsAll
  <2>. QED  BY <2>1, <2>2, <2>4, <1>1 DEF JoinInv, JoinOK
<1>2. ASSUME JoinInv, pc = "done", NEW n \in Nodes,
             parentId[n] \in Sentinels
      PROVE  parentIndex[n] = NoParent
  <2>1. /\ queryOffset = QueryCount
        /\ queryOrder \in [1 .. QueryCount -> 1 .. QueryCount]
    BY <1>2 DEF JoinInv, JoinOK, PermutationsOK, SortedLists
  <2>2. \A q \in 1 .. queryOffset : childIndexes[queryOrder[q]] # n
    BY <2>1, <1>2 DEF JoinInv, QueriesOK
  <2>. QED  BY <2>2, <1>2 DEF JoinInv, JoinOK
<1>3. JoinInv => JoinIsExact
  BY <1>1, <1>2 DEF JoinIsExact, Answered, AnsweredBy
<1>. QED  BY <1>3, JoinInvCorrect, PTL
-----------------------------------------------------------------------------
(* RadixJoin, whose sorts are those of IdRadix: what is proved about them   *)
(* there is cited here through an instance of its proofs.                   *)

Proved == INSTANCE IdRadixProofs WITH pc <- sortPc, id <- key, Sizes <- 0 .. NodeCount, Sorts <- 2

\* What the results cited assume of the constants.
LEMMA SortsAssumed ==
  /\ 0 .. NodeCount \subseteq Nat
  /\ ChunkBytes \in Nat \ {0}
  /\ TraitsKinds \subseteq Proved!ForestTraits
  /\ \A t \in TraitsKinds : Ids \subseteq 0 .. Proved!Power[t.idBytes] - 1
  /\ SmallThreshold \in Nat \ {0} /\ TouchedMax \in Nat
<1>1. ForestTraits = Proved!ForestTraits
  BY DEF ForestTraits, Proved!ForestTraits
<1>2. Power = Proved!Power
  BY DEF Power, Proved!Power
<1>. QED
  BY <1>1, <1>2, NodeCountAssumption, WidthAssumption, TraitsAssumption, IdBytesAssumption,
     ThresholdAssumption

(* The operators of the two instances are the same. *)

\* Chunks of bytes.
LEMMA SameBytes ==
  /\ Sort!Power = Proved!Power
  /\ \A t, width : Sort!ChunkCount(t, width) = Proved!ChunkCount(t, width)
  /\ \A t : Sort!ShouldCacheChunkIds(t) <=> Proved!ShouldCacheChunkIds(t)
  /\ \A t, i, width, chunkIndex :
       Sort!ChunkMsbFirst(t, i, width, chunkIndex) = Proved!ChunkMsbFirst(t, i, width, chunkIndex)
  /\ \A t, i : Sort!CachedId(t, i) = Proved!CachedId(t, i)
<1>1. Sort!Power = Proved!Power
  BY DEF Sort!Power, Proved!Power
<1>2. \A t, width : Sort!ChunkCount(t, width) = Proved!ChunkCount(t, width)
  BY DEF Sort!ChunkCount, Proved!ChunkCount
<1>3. \A t : Sort!ShouldCacheChunkIds(t) <=> Proved!ShouldCacheChunkIds(t)
  BY <1>2 DEF Sort!ShouldCacheChunkIds, Proved!ShouldCacheChunkIds
<1>4. \A t, width, chunkIndex, bytes :
        Sort!Packed(t, width, chunkIndex, bytes) = Proved!Packed(t, width, chunkIndex, bytes)
  BY DEF Sort!Packed, Proved!Packed
<1>5. \A t, i, byte : Sort!ByteMsbFirst(t, i, byte) = Proved!ByteMsbFirst(t, i, byte)
  BY <1>1 DEF Sort!ByteMsbFirst, Proved!ByteMsbFirst
<1>6. \A t, i, width, chunkIndex :
        Sort!HookedChunk(t, i, width, chunkIndex) = Proved!HookedChunk(t, i, width, chunkIndex)
  BY <1>1 DEF Sort!HookedChunk, Proved!HookedChunk, Sort!Leading, Proved!Leading
<1>7. \A t, i, width, chunkIndex :
        Sort!ChunkMsbFirst(t, i, width, chunkIndex) = Proved!ChunkMsbFirst(t, i, width, chunkIndex)
  BY <1>4, <1>5, <1>6 DEF Sort!ChunkMsbFirst, Proved!ChunkMsbFirst
<1>8. \A t, i : Sort!CachedId(t, i) = Proved!CachedId(t, i)
  BY <1>2, <1>7 DEF Sort!CachedId, Proved!CachedId
<1>. QED  BY <1>1, <1>2, <1>3, <1>7, <1>8

\* The chunks the sort takes.
LEMMA SameChunkOf ==
  /\ Sort!Chunks = Proved!Chunks
  /\ \A i, chunkIndex : Sort!ChunkOf(i, chunkIndex) = Proved!ChunkOf(i, chunkIndex)
<1>1. \A cached, byte : Sort!CachedByte(cached, byte) = Proved!CachedByte(cached, byte)
  BY SameBytes DEF Sort!CachedByte, Proved!CachedByte
<1>2. \A chunk, width, chunkIndex : Sort!Half(chunk, width, chunkIndex) = Proved!Half(chunk, width, chunkIndex)
  BY SameBytes DEF Sort!Half, Proved!Half
<1>3. \A t, width, chunkIndex, bytes :
        Sort!Packed(t, width, chunkIndex, bytes) = Proved!Packed(t, width, chunkIndex, bytes)
  BY DEF Sort!Packed, Proved!Packed
<1>4. \A t, cached, width, chunkIndex :
        Sort!CachedChunk(t, cached, width, chunkIndex) = Proved!CachedChunk(t, cached, width, chunkIndex)
  BY <1>1, <1>2, <1>3 DEF Sort!CachedChunk, Proved!CachedChunk
<1>5. \A i, chunkIndex : Sort!ChunkOf(i, chunkIndex) = Proved!ChunkOf(i, chunkIndex)
  BY <1>4, SameBytes DEF Sort!ChunkOf, Proved!ChunkOf
<1>6. Sort!Chunks = Proved!Chunks
  BY SameBytes DEF Sort!Chunks, Proved!Chunks
<1>. QED  BY <1>5, <1>6

\* Its ranges.
LEMMA SameRanges ==
  /\ \A r : Sort!SizeOf(r) = Proved!SizeOf(r)
  /\ \A r : Sort!Offsets(r) = Proved!Offsets(r)
  /\ \A r : Sort!DifferingBits(r) <=> Proved!DifferingBits(r)
  /\ \A r : Sort!EntriesOf(r) = Proved!EntriesOf(r)
  /\ \A r : Sort!IsLarge(r) <=> Proved!IsLarge(r)
  /\ \A r : Sort!NextChunk(r) = Proved!NextChunk(r)
  /\ \A r : Sort!HasNextRange(r) <=> Proved!HasNextRange(r)
  /\ \A S : Sort!Max(S) = Proved!Max(S)
  /\ \A S : Sort!Min(S) = Proved!Min(S)
  /\ Sort!client = Proved!client /\ Sort!workspace = Proved!workspace
  /\ Sort!Top = Proved!Top /\ Sort!Popped = Proved!Popped
  /\ Sort!NoRange = Proved!NoRange /\ Sort!Clear = Proved!Clear
<1>1. \A r : Sort!SizeOf(r) = Proved!SizeOf(r)
  BY DEF Sort!SizeOf, Proved!SizeOf
<1>2. \A r : Sort!Offsets(r) = Proved!Offsets(r)
  BY <1>1 DEF Sort!Offsets, Proved!Offsets
<1>3. \A r : Sort!DifferingBits(r) <=> Proved!DifferingBits(r)
  BY <1>2, SameChunkOf DEF Sort!DifferingBits, Proved!DifferingBits
<1>4. \A r : Sort!EntriesOf(r) = Proved!EntriesOf(r)
  BY <1>2, SameChunkOf DEF Sort!EntriesOf, Proved!EntriesOf
<1>5. \A r : Sort!IsLarge(r) <=> Proved!IsLarge(r)
  BY <1>1, SameChunkOf DEF Sort!IsLarge, Proved!IsLarge
<1>6. \A r : Sort!NextChunk(r) = Proved!NextChunk(r)
  BY DEF Sort!NextChunk, Proved!NextChunk
<1>7. \A r : Sort!HasNextRange(r) <=> Proved!HasNextRange(r)
  BY <1>6, SameChunkOf DEF Sort!HasNextRange, Proved!HasNextRange
<1>8. (\A S : Sort!Max(S) = Proved!Max(S)) /\ (\A S : Sort!Min(S) = Proved!Min(S))
  BY DEF Sort!Max, Proved!Max, Sort!Min, Proved!Min
<1>9. /\ Sort!client = Proved!client /\ Sort!workspace = Proved!workspace
      /\ Sort!Top = Proved!Top /\ Sort!Popped = Proved!Popped
      /\ Sort!NoRange = Proved!NoRange
  BY DEF Sort!client, Proved!client, Sort!workspace, Proved!workspace, Sort!Top, Proved!Top,
     Sort!Popped, Proved!Popped, Sort!NoRange, Proved!NoRange
<1>10. Sort!Clear = Proved!Clear
  BY DEF Sort!Clear, Proved!Clear, Sort!Digits, Proved!Digits
<1>. QED  BY <1>1, <1>2, <1>3, <1>4, <1>5, <1>6, <1>7, <1>8, <1>9, <1>10

\* Its comparisons.
LEMMA SameComparison ==
  /\ \A lhs, rhs : Sort!CompareChunkSequence(lhs, rhs) = Proved!CompareChunkSequence(lhs, rhs)
  /\ \A t, a, b : Sort!IdLess(t, a, b) <=> Proved!IdLess(t, a, b)
<1>1. \A lhs, rhs : Sort!CompareChunkSequence(lhs, rhs) = Proved!CompareChunkSequence(lhs, rhs)
  BY DEF Sort!CompareChunkSequence, Proved!CompareChunkSequence
<1>2. \A t, a, b : Sort!CompareNodeIds(t, a, b) = Proved!CompareNodeIds(t, a, b)
  BY <1>1, SameBytes DEF Sort!CompareNodeIds, Proved!CompareNodeIds, Sort!CompareIdsMsbFirst,
     Proved!CompareIdsMsbFirst
<1>3. \A t, a, b : Sort!IdLess(t, a, b) <=> Proved!IdLess(t, a, b)
  BY <1>2 DEF Sort!IdLess, Proved!IdLess
<1>. QED  BY <1>1, <1>3

\* A sort's begin and end.
LEMMA SameBeginAndEnd ==
  /\ Sort!Init => Proved!Init
  /\ Sort!BeginSort => Proved!BeginSort
  /\ Sort!EndSort => Proved!EndSort
  /\ Sort!Return => Proved!Return
  /\ Sort!SkipRange => Proved!SkipRange
<1>1. Sort!Init => Proved!Init
  BY SameRanges DEF Sort!Init, Proved!Init
<1>2. Sort!BeginSort => Proved!BeginSort
  BY DEF Sort!BeginSort, Proved!BeginSort
<1>3. Sort!EndSort => Proved!EndSort
  BY DEF Sort!EndSort, Proved!EndSort, Sort!client, Proved!client, Sort!workspace, Proved!workspace
<1>4. Sort!Return => Proved!Return
  BY DEF Sort!Return, Proved!Return, Sort!client, Proved!client, Sort!workspace, Proved!workspace
<1>5. Sort!SkipRange => Proved!SkipRange
  BY SameRanges, SameChunkOf DEF Sort!SkipRange, Proved!SkipRange, Sort!client, Proved!client
<1>. QED  BY <1>1, <1>2, <1>3, <1>4, <1>5

\* Its small ranges.
LEMMA SameSmallStep == Sort!SmallStep => Proved!SmallStep
<1>1. Sort!BeginSmall => Proved!BeginSmall
  BY SameRanges, SameChunkOf, SameBytes DEF Sort!BeginSmall, Proved!BeginSmall, Sort!client, Proved!client
<1>2. \A i : Sort!IsLessOrEqual(i) <=> Proved!IsLessOrEqual(i)
  BY SameBytes, SameComparison DEF Sort!IsLessOrEqual, Proved!IsLessOrEqual
<1>3. Sort!AfterLessOrEqual = Proved!AfterLessOrEqual
  BY <1>2, SameRanges DEF Sort!AfterLessOrEqual, Proved!AfterLessOrEqual
<1>4. \A list, at, last : Sort!Moved(list, at, last) = Proved!Moved(list, at, last)
  BY DEF Sort!Moved, Proved!Moved
<1>5. \A at : /\ Sort!InsertInOrder(at) = Proved!InsertInOrder(at)
              /\ Sort!InsertInKeys(at) = Proved!InsertInKeys(at)
  BY <1>4 DEF Sort!InsertInOrder, Proved!InsertInOrder, Sort!InsertInKeys, Proved!InsertInKeys
<1>6. Sort!InsertNext => Proved!InsertNext
  BY <1>3, <1>5 DEF Sort!InsertNext, Proved!InsertNext, Sort!client, Proved!client,
     Sort!workspace, Proved!workspace
<1>7. Sort!EndSmall => Proved!EndSmall
  BY SameRanges DEF Sort!EndSmall, Proved!EndSmall, Sort!client, Proved!client,
     Sort!workspace, Proved!workspace
<1>. QED  BY <1>1, <1>6, <1>7 DEF Sort!SmallStep, Proved!SmallStep

\* Its passes over large ranges.
LEMMA SameChunkStep == Sort!ChunkStep => Proved!ChunkStep
<1>1. Sort!PassRangeOn => Proved!PassRangeOn
  BY SameRanges DEF Sort!PassRangeOn, Proved!PassRangeOn, Sort!client, Proved!client
<1>2. Sort!BeginPasses => Proved!BeginPasses
  BY SameRanges DEF Sort!BeginPasses, Proved!BeginPasses, Sort!client, Proved!client
<1>3. Sort!Kind = Proved!Kind
  BY SameRanges DEF Sort!Kind, Proved!Kind, Sort!UsesWorkspaceCounters, Proved!UsesWorkspaceCounters
<1>4. Sort!Digits = Proved!Digits /\ Sort!Reset = Proved!Reset /\ Sort!Counts = Proved!Counts
  BY <1>3, SameRanges DEF Sort!Digits, Proved!Digits, Sort!Reset, Proved!Reset, Sort!Counts, Proved!Counts
<1>5. Sort!CountDigits => Proved!CountDigits
  BY DEF Sort!CountDigits, Proved!CountDigits, Sort!Kind, Proved!Kind,
     Sort!UsesWorkspaceCounters, Proved!UsesWorkspaceCounters, Sort!SizeOf, Proved!SizeOf,
     Sort!Offsets, Proved!Offsets, Sort!DigitAt, Proved!DigitAt,
     Sort!WordByte, Proved!WordByte, Sort!Digits, Proved!Digits,
     Sort!Reset, Proved!Reset, Sort!Clear, Proved!Clear,
     Sort!Power, Proved!Power, Sort!Cardinality, Proved!Cardinality,
     Sort!client, Proved!client
<1>6. Sort!ScatterPass => Proved!ScatterPass
  BY DEF Sort!ScatterPass, Proved!ScatterPass, Sort!Position, Proved!Position,
     Sort!BucketStart, Proved!BucketStart, Sort!Buckets, Proved!Buckets,
     Sort!SameDigitBefore, Proved!SameDigitBefore, Sort!WriteOffset, Proved!WriteOffset,
     Sort!Counts, Proved!Counts, Sort!Kind, Proved!Kind,
     Sort!UsesWorkspaceCounters, Proved!UsesWorkspaceCounters, Sort!SizeOf, Proved!SizeOf,
     Sort!Offsets, Proved!Offsets, Sort!DigitAt, Proved!DigitAt,
     Sort!WordByte, Proved!WordByte, Sort!Digits, Proved!Digits,
     Sort!Power, Proved!Power, Sort!Max, Proved!Max,
     Sort!Cardinality, Proved!Cardinality, Sort!client, Proved!client
<1>7. Sort!EndPass => Proved!EndPass
  BY <1>3, <1>4, SameRanges DEF Sort!EndPass, Proved!EndPass, Sort!Cleared, Proved!Cleared,
     Sort!client, Proved!client
<1>8. Sort!ChunkRanges = Proved!ChunkRanges
  BY SameRanges DEF Sort!ChunkRanges, Proved!ChunkRanges, Sort!SortedChunks, Proved!SortedChunks
<1>9. Sort!WriteOrder => Proved!WriteOrder
  BY <1>8, SameRanges DEF Sort!WriteOrder, Proved!WriteOrder, Sort!client, Proved!client
<1>. QED
  BY <1>1, <1>2, <1>5, <1>6, <1>7, <1>9 DEF Sort!ChunkStep, Proved!ChunkStep

-----------------------------------------------------------------------------
(* The sorts as the join uses them *)

\* A list of the nodes by id, equal ids as they came.
IsInOrder(list) ==
  /\ list \in [0 .. NodeCount - 1 -> 0 .. NodeCount - 1]
  /\ \A i, j \in 0 .. NodeCount - 1 :
       i < j => id[list[i]] < id[list[j]] \/ (id[list[i]] = id[list[j]] /\ list[i] < list[j])

\* What is sorted when, and what of it is kept.
SortsOK ==
  /\ sortsLeft \in 0 .. 2
  /\ pc = "collect" => sortsLeft = 2
  /\ sortsLeft = 2 => sortPc = "ready"
  /\ sortsLeft = 1 /\ sortPc # "ready" => size = NodeCount /\ key = Keyed(id, NodeCount, 0)
  /\ sortsLeft = 1 /\ sortPc = "ready" => IsInOrder(sortedIds)
  /\ pc = "sort" /\ sortsLeft = 0 =>
       sortPc # "ready" /\ IsInOrder(sortedIds) /\ size = QueryCount /\ key = Keyed(QueryKeys, QueryCount, 1)
  /\ sortPc = "sorted" => size \in Nat /\ order \in [0 .. size - 1 -> 0 .. size - 1]

\* The inductive invariant: that of the join, that of the sorts, and what the
\* join knows of the workspace.
RadixInv == JoinInv /\ Proved!CountersInv /\ Proved!SortInv /\ SortsOK

SortVars == <<client, workspace>>

\* A step that leaves the workspace is none of the sort's.
LEMMA SortUnchanged == UNCHANGED SortVars => UNCHANGED Proved!vars
BY DEF SortVars, client, workspace, Proved!vars, Proved!client, Proved!workspace

\* Every step is one of the sort or leaves it as it is.
LEMMA RadixNextSorts ==
  ASSUME [RadixNext]_joinVars
  PROVE  [Proved!Next]_Proved!vars
<1>1. CASE CollectStep
  BY <1>1, SortUnchanged DEF CollectStep, SortVars
<1>2. CASE SortStep
  <2>1. \/ Sort!BeginSort \/ Sort!Return \/ Sort!SkipRange \/ Sort!SmallStep \/ Sort!ChunkStep \/ Sort!EndSort
    BY <1>2 DEF SortStep, BeginIdSort, EndIdSort, BeginQuerySort, SortRange, EndQuerySort
  <2>. QED
    BY <2>1, SameBeginAndEnd, SameSmallStep, SameChunkStep DEF Proved!Next, Proved!Step
<1>3. CASE MergeStep \/ (Returned /\ UNCHANGED joined) \/ UNCHANGED joinVars
  BY <1>3, SortUnchanged DEF MergeStep, RejectAdjacent, Advance, SetParent, NoParentFound, EndJoin,
     joined, joinVars, SortVars
<1>. QED  BY <1>1, <1>2, <1>3 DEF RadixNext

\* So the sorts keep their invariant.
LEMMA SortsKeepInv ==
  ASSUME Proved!CountersInv, Proved!SortInv, [RadixNext]_joinVars
  PROVE  Proved!CountersInv' /\ Proved!SortInv'
<1>1. [Proved!Next]_Proved!vars
  BY RadixNextSorts
<1>2. Proved!CountersInv'
  BY <1>1, SortsAssumed, RadixAssumption, CachedAssumption, Proved!NextKeepsCountersInv
<1>3. Proved!SortInv'
  BY <1>1, SortsAssumed, RadixAssumption, CachedAssumption, Proved!NextKeepsSortInv
<1>. QED  BY <1>2, <1>3

\* What a sort returns.
LEMMA SortReturns ==
  ASSUME RadixInv, sortPc = "sorted"
  PROVE  /\ size \in Nat /\ order \in [0 .. size - 1 -> 0 .. size - 1]
         /\ \A i, j \in 0 .. size - 1 : i < j =>
              key[order[i]] < key[order[j]] \/ (key[order[i]] = key[order[j]] /\ order[i] < order[j])
BY DEF RadixInv, SortsOK, Proved!SortInv, Proved!SortedStably

\* The lists the two sorts leave are lists ParentIndex takes.
LEMMA IdsAreSorted ==
  ASSUME IsInOrder(sortedIds), InputsOK
  PROVE  [i \in 1 .. NodeCount |-> sortedIds[i - 1]] \in SortedLists(Nodes, NodeCount, id)
<1> DEFINE p == [i \in 1 .. NodeCount |-> sortedIds[i - 1]]
<1>1. NodeCount \in Nat /\ id \in [Nodes -> Nat] /\ Nodes = 0 .. NodeCount - 1
  BY NodeCountAssumption, IdsAssumption DEF InputsOK, Nodes
<1>2. \A i \in 1 .. NodeCount : i - 1 \in 0 .. NodeCount - 1 /\ i \in Nat
  BY <1>1
<1>3. p \in [1 .. NodeCount -> Nodes]
  BY <1>1, <1>2 DEF IsInOrder
<1>4. ASSUME NEW i \in 1 .. NodeCount, NEW j \in 1 .. NodeCount, i < j
      PROVE  id[p[i]] <= id[p[j]] /\ p[i] # p[j]
  <2>1. i - 1 < j - 1 /\ p[i] = sortedIds[i - 1] /\ p[j] = sortedIds[j - 1]
    BY <1>2, <1>4
  <2>2. /\ p[i] \in Nodes /\ p[j] \in Nodes
        /\ id[p[i]] < id[p[j]] \/ (id[p[i]] = id[p[j]] /\ p[i] < p[j])
    BY <2>1, <1>1, <1>2 DEF IsInOrder
  <2> HIDE DEF p
  <2>3. id[p[i]] \in Nat /\ id[p[j]] \in Nat /\ p[i] \in Int /\ p[j] \in Int
    BY <2>2, <1>1
  <2>. QED  BY <2>2, <2>3
<1> HIDE DEF p
<1>5. \A i, j \in 1 .. NodeCount : p[i] = p[j] => i = j
  <2> SUFFICES ASSUME NEW i \in 1 .. NodeCount, NEW j \in 1 .. NodeCount, p[i] = p[j]
               PROVE  i = j
    OBVIOUS
  <2>1. i < j \/ j < i \/ i = j
    BY <1>2
  <2>. QED  BY <2>1, <1>4
<1>6. p \in SortedLists(Nodes, NodeCount, id)
  BY <1>3, <1>4, <1>5 DEF SortedLists
<1>. QED  BY <1>6 DEF p

\* And the queries, which are counted from 1.
LEMMA QueriesAreSorted ==
  ASSUME RadixInv, pc = "sort", sortsLeft = 0, sortPc = "sorted"
  PROVE  [i \in 1 .. QueryCount |-> order[i - 1] + 1] \in SortedQueries
<1> DEFINE p == [i \in 1 .. QueryCount |-> order[i - 1] + 1]
<1>1. /\ QueryCount \in Nat /\ \A query \in 1 .. QueryCount : WantedId(query) \in Nat
      /\ size = QueryCount /\ key = Keyed(QueryKeys, QueryCount, 1)
  BY IdsAssumption DEF RadixInv, SortsOK, JoinInv, QueriesOK, InputsOK, WantedId
<1>2. /\ order \in [0 .. QueryCount - 1 -> 0 .. QueryCount - 1]
      /\ \A i, j \in 0 .. QueryCount - 1 : i < j =>
           key[order[i]] < key[order[j]] \/ (key[order[i]] = key[order[j]] /\ order[i] < order[j])
  BY <1>1, SortReturns
<1>3. \A k \in 0 .. QueryCount - 1 : k + 1 \in 1 .. QueryCount /\ 1 + k = k + 1 /\ key[k] = WantedIds[k + 1]
  BY <1>1 DEF Keyed, QueryKeys, WantedIds
<1>4. \A i \in 1 .. QueryCount : i - 1 \in 0 .. QueryCount - 1 /\ i \in Nat
  BY <1>1
<1>5. p \in [1 .. QueryCount -> 1 .. QueryCount]
  BY <1>2, <1>3, <1>4
<1>6. ASSUME NEW i \in 1 .. QueryCount, NEW j \in 1 .. QueryCount, i < j
      PROVE  WantedIds[p[i]] <= WantedIds[p[j]] /\ p[i] # p[j]
  <2>1. PICK a \in 0 .. QueryCount - 1 : a = order[i - 1]
    BY <1>2, <1>4
  <2>2. PICK b \in 0 .. QueryCount - 1 : b = order[j - 1]
    BY <1>2, <1>4
  <2>3. p[i] = a + 1 /\ p[j] = b + 1
    BY <2>1, <2>2
  <2>4. key[a] < key[b] \/ (key[a] = key[b] /\ a < b)
    BY <1>2, <1>4, <1>6, <2>1, <2>2
  <2> HIDE DEF p
  <2>5. /\ key[a] = WantedIds[a + 1] /\ key[b] = WantedIds[b + 1]
        /\ WantedIds[a + 1] \in Nat /\ WantedIds[b + 1] \in Nat
    BY <1>1, <1>3 DEF WantedIds
  <2>. QED  BY <2>3, <2>4, <2>5
<1> HIDE DEF p
<1>7. \A i, j \in 1 .. QueryCount : p[i] = p[j] => i = j
  <2> SUFFICES ASSUME NEW i \in 1 .. QueryCount, NEW j \in 1 .. QueryCount, p[i] = p[j]
               PROVE  i = j
    OBVIOUS
  <2>1. i < j \/ j < i \/ i = j
    BY <1>4
  <2>. QED  BY <2>1, <1>6
<1>8. p \in SortedQueries
  BY <1>5, <1>6, <1>7 DEF SortedQueries, SortedLists
<1>. QED  BY <1>8 DEF p

-----------------------------------------------------------------------------
(* The comparator *)

\* The ids' cached chunks compare as the ids do.
LEMMA SameCached ==
  ASSUME NEW t \in TraitsKinds, NEW i \in Ids, NEW j \in Ids
  PROVE  CompareChunkSequence(CachedId(t, i), CachedId(t, j)) = IF i = j THEN 0 ELSE IF i < j THEN -1 ELSE 1
<1>1. \A lhs, rhs : CompareChunkSequence(lhs, rhs) = Proved!CompareChunkSequence(lhs, rhs)
  BY DEF CompareChunkSequence, Proved!CompareChunkSequence
<1>2. Power = Proved!Power
  BY DEF Power, Proved!Power
<1>3. \A width : ChunkCount(t, width) = Proved!ChunkCount(t, width)
  BY DEF ChunkCount, Proved!ChunkCount
<1>4. \A v, width, chunkIndex : ChunkMsbFirst(t, v, width, chunkIndex) = Proved!ChunkMsbFirst(t, v, width, chunkIndex)
  <2>1. \A width, chunkIndex, bytes :
          Packed(t, width, chunkIndex, bytes) = Proved!Packed(t, width, chunkIndex, bytes)
    BY DEF Packed, Proved!Packed
  <2>2. \A v, byte : ByteMsbFirst(t, v, byte) = Proved!ByteMsbFirst(t, v, byte)
    BY <1>2 DEF ByteMsbFirst, Proved!ByteMsbFirst
  <2>3. \A v, width, chunkIndex :
          HookedChunk(t, v, width, chunkIndex) = Proved!HookedChunk(t, v, width, chunkIndex)
    BY <1>2 DEF HookedChunk, Proved!HookedChunk, Leading, Proved!Leading
  <2>. QED  BY <2>1, <2>2, <2>3 DEF ChunkMsbFirst, Proved!ChunkMsbFirst
<1>5. \A v : CachedId(t, v) = Proved!CachedId(t, v)
  BY <1>3, <1>4 DEF CachedId, Proved!CachedId
<1>6. t \in Proved!ForestTraits /\ i \in Proved!IdsOf(t) /\ j \in Proved!IdsOf(t)
  BY SortsAssumed DEF Proved!IdsOf
<1>7. Proved!CompareChunkSequence(Proved!CachedId(t, i), Proved!CachedId(t, j))
        = IF i = j THEN 0 ELSE IF i < j THEN -1 ELSE 1
  BY <1>6, SortsAssumed, RadixAssumption, CachedAssumption, Proved!CachedCompare
<1>. QED  BY <1>1, <1>5, <1>7

\* Whatever the traits offer, the comparator answers as the ids compare.
LEMMA ComparatorIsExact ==
  ASSUME NEW t \in TraitsKinds, NEW i \in Ids, NEW j \in Ids
  PROVE  /\ Compare(t, i, j) = IF i = j THEN 0 ELSE IF i < j THEN -1 ELSE 1
         /\ IdEqual(t, i, j) <=> i = j
         /\ LeftEqual(t, i, j) <=> i = j
         /\ CrossEqual(t, i, j) <=> i = j
<1>1. i \in Nat /\ j \in Nat
  BY IdsAssumption
<1>2. CompareIdsMsbFirst(t, i, j) = IF i = j THEN 0 ELSE IF i < j THEN -1 ELSE 1
  BY SameCached DEF CompareIdsMsbFirst
<1>3. CompareNodeIds(t, i, j) = IF i = j THEN 0 ELSE IF i < j THEN -1 ELSE 1
  BY <1>1, <1>2 DEF CompareNodeIds
<1>4. IdEqual(t, i, j) <=> i = j
  BY <1>1, <1>2 DEF IdEqual
<1>5. Compare(t, i, j) = IF i = j THEN 0 ELSE IF i < j THEN -1 ELSE 1
  BY <1>3, SameCached DEF Compare
<1>6. LeftEqual(t, i, j) <=> i = j
  BY <1>4, SameCached DEF LeftEqual
<1>. QED  BY <1>4, <1>5, <1>6 DEF CrossEqual

-----------------------------------------------------------------------------
(* The refinement *)

\* The sort answers for SortBoth.
LEMMA SortRefines ==
  ASSUME RadixInv, EndQuerySort
  PROVE  SortBoth
<1>1. /\ pc = "sort" /\ sortsLeft = 0 /\ sortPc = "sorted"
      /\ idPermutation' = [i \in 1 .. NodeCount |-> sortedIds[i - 1]]
      /\ queryOrder' = [i \in 1 .. QueryCount |-> order[i - 1] + 1]
      /\ pc' = "reject"
      /\ UNCHANGED <<inputs, collected, childIndexes, idOffset, queryOffset, parentIndex>>
  BY DEF EndQuerySort
<1>2. IsInOrder(sortedIds) /\ InputsOK
  BY <1>1 DEF RadixInv, SortsOK, JoinInv
<1>3. idPermutation' \in SortedLists(Nodes, NodeCount, id)
  BY <1>1, <1>2, IdsAreSorted
<1>4. queryOrder' \in SortedQueries
  BY <1>1, QueriesAreSorted
<1>. QED  BY <1>1, <1>3, <1>4 DEF SortBoth

\* The comparator finds the equal neighbours.
LEMMA RejectRefines ==
  ASSUME RadixInv, RejectAdjacent
  PROVE  RejectDuplicates
<1>1. /\ pc = "reject" /\ pc' = IF AdjacentEqual(idPermutation) THEN "throw" ELSE "join"
      /\ UNCHANGED <<inputs, collected, childIndexes, permutations, idOffset, queryOffset, parentIndex>>
  BY DEF RejectAdjacent
<1>2. /\ idPermutation \in [1 .. NodeCount -> Nodes] /\ id \in [Nodes -> Ids] /\ traits \in TraitsKinds
  BY <1>1 DEF RadixInv, JoinInv, InputsOK, PermutationsOK, SortedLists, Proved!SortInv
<1>3. ASSUME NEW i \in 2 .. NodeCount
      PROVE  LeftEqual(traits, id[idPermutation[i - 1]], id[idPermutation[i]])
               <=> id[idPermutation[i - 1]] = id[idPermutation[i]]
  <2>1. i - 1 \in 1 .. NodeCount /\ i \in 1 .. NodeCount
    BY NodeCountAssumption
  <2>2. id[idPermutation[i - 1]] \in Ids /\ id[idPermutation[i]] \in Ids
    BY <1>2, <2>1
  <2>. QED  BY <1>2, <2>2, ComparatorIsExact
<1>4. AdjacentEqual(idPermutation) <=> HasEqualNeighbours(idPermutation)
  BY <1>3 DEF AdjacentEqual, HasEqualNeighbours
<1>. QED  BY <1>1, <1>4 DEF RejectDuplicates

\* What the comparator says of the id and the query the join looks at.
LEMMA JoinCompares ==
  ASSUME RadixInv, pc = "join", queryOffset < QueryCount, idOffset < NodeCount
  PROVE  /\ id[IdNode] \in Nat /\ WantedId(Query) \in Nat
         /\ Cmp < 0 <=> id[IdNode] < WantedId(Query)
         /\ Cmp > 0 <=> id[IdNode] > WantedId(Query)
         /\ Cmp = 0 <=> id[IdNode] = WantedId(Query)
         /\ Equal <=> id[IdNode] = WantedId(Query)
<1>1. IdNode \in Nodes /\ childIndexes[Query] \in Nodes
  BY JoinFacts DEF RadixInv
<1>2. traits \in TraitsKinds /\ id[IdNode] \in Ids /\ WantedId(Query) \in Ids
  BY <1>1 DEF RadixInv, JoinInv, InputsOK, WantedId, Proved!SortInv
<1>3. Cmp = IF id[IdNode] = WantedId(Query) THEN 0 ELSE IF id[IdNode] < WantedId(Query) THEN -1 ELSE 1
  BY <1>2, ComparatorIsExact DEF Cmp
<1>4. Equal <=> id[IdNode] = WantedId(Query)
  BY <1>2, ComparatorIsExact DEF Equal
<1>5. id[IdNode] \in Nat /\ WantedId(Query) \in Nat
  BY <1>2, IdsAssumption
<1>. QED  BY <1>3, <1>4, <1>5

\* The merge goes on as the ids compare.
LEMMA JoinRefines ==
  ASSUME RadixInv, Advance \/ SetParent \/ NoParentFound
  PROVE  JoinPassesId \/ JoinMatches \/ JoinPassesQuery
<1>1. pc = "join" /\ queryOffset < QueryCount
  BY DEF Advance, SetParent, NoParentFound
<1>2. CASE Advance
  <2>1. id[IdNode] < WantedId(Query)
    BY <1>1, <1>2, JoinCompares DEF Advance
  <2>. QED  BY <1>2, <2>1 DEF Advance, JoinPassesId
<1>3. CASE SetParent
  <2>1. id[IdNode] = WantedId(Query)
    BY <1>1, <1>3, JoinCompares DEF SetParent
  <2>. QED  BY <1>3, <2>1 DEF SetParent, JoinMatches, IdAfterMatch
<1>4. CASE NoParentFound
  <2>1. idOffset < NodeCount => id[IdNode] > WantedId(Query)
    BY <1>1, <1>4, JoinCompares DEF NoParentFound
  <2>. QED  BY <1>4, <2>1 DEF NoParentFound, JoinPassesQuery, NextQuery
<1>. QED  BY <1>2, <1>3, <1>4

\* Every step of production's join is one of ParentIndex, or one of its sorts,
\* of which ParentIndex sees only the end.
LEMMA RadixNextRefines ==
  ASSUME RadixInv, [RadixNext]_joinVars
  PROVE  [Next]_vars
<1>1. CASE CollectStep
  BY <1>1 DEF CollectStep, Next, Step
<1>2. CASE BeginIdSort \/ EndIdSort \/ BeginQuerySort \/ SortRange
  BY <1>2 DEF BeginIdSort, EndIdSort, BeginQuerySort, SortRange
<1>3. CASE EndQuerySort
  BY <1>3, SortRefines DEF Next, Step
<1>4. CASE RejectAdjacent
  BY <1>4, RejectRefines DEF Next, Step
<1>5. CASE Advance \/ SetParent \/ NoParentFound
  BY <1>5, JoinRefines DEF Next, Step
<1>6. CASE EndJoin
  BY <1>6 DEF EndJoin, Next, Step
<1>7. CASE Returned \/ UNCHANGED joinVars
  BY <1>7 DEF Next, joinVars
<1>. QED
  BY <1>1, <1>2, <1>3, <1>4, <1>5, <1>6, <1>7 DEF RadixNext, SortStep, MergeStep

-----------------------------------------------------------------------------
(* The invariant *)

\* It holds at first.
LEMMA InitRadixInv == RadixInit => RadixInv
<1> SUFFICES ASSUME RadixInit PROVE RadixInv
  OBVIOUS
<1>1. Init /\ Sort!Init
  BY DEF RadixInit
<1>2. Proved!Init
  BY <1>1, SameBeginAndEnd
<1>3. Proved!CountersInv
  BY <1>2, SortsAssumed, RadixAssumption, CachedAssumption, Proved!InitCountersInv
<1>4. Proved!SortInv
  BY <1>2, SortsAssumed, RadixAssumption, CachedAssumption, Proved!InitSortInv
<1>5. SortsOK
  BY <1>1 DEF Init, Sort!Init, SortsOK
<1>. QED  BY <1>1, <1>3, <1>4, <1>5, InitJoinInv DEF RadixInv

\* The ids and the queries a sort reads do not change.
LEMMA InputsStay ==
  ASSUME UNCHANGED <<id, parentId, childIndexes>>
  PROVE  /\ Keyed(id, NodeCount, 0)' = Keyed(id, NodeCount, 0)
         /\ Keyed(QueryKeys, QueryCount, 1)' = Keyed(QueryKeys, QueryCount, 1)
         /\ QueryCount' = QueryCount
         /\ \A list : IsInOrder(list)' <=> IsInOrder(list)
BY DEF Keyed, QueryKeys, QueryCount, WantedId, IsInOrder

\* A sort begins with what it is to sort.
LEMMA BeginKeepsSortsOK ==
  ASSUME RadixInv, BeginIdSort \/ BeginQuerySort
  PROVE  SortsOK'
<1>1. /\ pc = "sort" /\ UNCHANGED <<vars, sortedIds>> /\ UNCHANGED <<id, parentId, childIndexes>> /\ pc' = pc
      /\ sortsLeft \in {1, 2} /\ sortsLeft' = sortsLeft - 1 /\ sortPc = "ready" /\ sortPc' \in {"sorted", "pop"}
      /\ order' = [i \in 0 .. size' - 1 |-> i] /\ size' \in 0 .. NodeCount
  BY DEF BeginIdSort, BeginQuerySort, Sort!BeginSort, vars, inputs
<1>2. order' \in [0 .. size' - 1 -> 0 .. size' - 1] /\ size' \in Nat
  <2>1. \A n \in 0 .. NodeCount : n \in Nat /\ [i \in 0 .. n - 1 |-> i] \in [0 .. n - 1 -> 0 .. n - 1]
    BY NodeCountAssumption
  <2>. QED  BY <1>1, <2>1, Zenon
<1>3. CASE BeginIdSort
  BY <1>1, <1>2, <1>3, InputsStay DEF BeginIdSort, SortsOK
<1>4. CASE BeginQuerySort
  BY <1>1, <1>2, <1>4, InputsStay DEF BeginQuerySort, SortsOK, RadixInv
<1>. QED  BY <1>3, <1>4

\* The entries in the order of their keys, which are the node ids.
LEMMA EndIdSortKeepsSortsOK ==
  ASSUME RadixInv, EndIdSort
  PROVE  SortsOK'
<1>1. /\ UNCHANGED <<vars, sortsLeft>> /\ UNCHANGED <<id, parentId, childIndexes, pc>>
      /\ sortsLeft = 1 /\ sortPc = "sorted" /\ sortPc' = "ready" /\ sortedIds' = order
  BY DEF EndIdSort, Sort!Return, Sort!client, vars, inputs
<1>2. size = NodeCount /\ key = Keyed(id, NodeCount, 0) /\ pc # "collect"
  BY <1>1 DEF RadixInv, SortsOK
<1>3. \A k \in 0 .. NodeCount - 1 : key[k] = id[k]
  <2>1. \A k \in 0 .. NodeCount - 1 : 0 + k = k
    BY NodeCountAssumption
  <2>. QED  BY <1>2, <2>1 DEF Keyed
<1>4. IsInOrder(order)
  BY <1>1, <1>2, <1>3, SortReturns DEF IsInOrder
<1>. QED  BY <1>1, <1>2, <1>4, InputsStay DEF SortsOK

\* While a sort runs.
LEMMA SortRangeKeepsSortsOK ==
  ASSUME RadixInv, SortRange
  PROVE  SortsOK'
<1>1. /\ UNCHANGED <<vars, sortedIds, sortsLeft, size, key>>
      /\ UNCHANGED <<id, parentId, childIndexes, pc>>
      /\ sortPc \notin {"ready", "sorted"} /\ sortPc' # "ready"
  BY DEF SortRange, Sort!SkipRange, Sort!SmallStep, Sort!ChunkStep, Sort!EndSort, Sort!BeginSmall,
     Sort!InsertNext, Sort!EndSmall, Sort!PassRangeOn, Sort!BeginPasses, Sort!CountDigits,
     Sort!ScatterPass, Sort!EndPass, Sort!WriteOrder, Sort!client, vars, inputs
<1>2. sortPc' = "sorted" => size \in Nat /\ order' \in [0 .. size - 1 -> 0 .. size - 1]
  <2> SUFFICES ASSUME sortPc' = "sorted"
               PROVE  size \in Nat /\ order' \in [0 .. size - 1 -> 0 .. size - 1]
    OBVIOUS
  <2>1. sortPc = "pop" /\ order' = order
    BY DEF SortRange, Sort!SkipRange, Sort!SmallStep, Sort!ChunkStep, Sort!EndSort, Sort!BeginSmall,
       Sort!InsertNext, Sort!EndSmall, Sort!PassRangeOn, Sort!BeginPasses, Sort!CountDigits,
       Sort!ScatterPass, Sort!EndPass, Sort!WriteOrder
  <2>2. Proved!StackInv
    BY <2>1 DEF RadixInv, Proved!SortInv, Proved!IsActive
  <2>. QED  BY <2>1, <2>2 DEF Proved!StackInv, Proved!Places
<1>. QED
  BY <1>1, <1>2, InputsStay DEF RadixInv, SortsOK

\* Every step keeps it.
LEMMA RadixNextKeepsInv ==
  ASSUME RadixInv, [RadixNext]_joinVars
  PROVE  RadixInv'
<1>1. JoinInv'
  BY RadixNextRefines, NextKeepsJoinInv DEF RadixInv
<1>2. Proved!CountersInv' /\ Proved!SortInv'
  BY SortsKeepInv DEF RadixInv
<1>3. SortsOK'
  <2>1. CASE CollectStep
    <3>1. /\ UNCHANGED <<sortsLeft, sortPc>> /\ pc = "collect" /\ pc' \in {"collect", "sort"}
      BY <2>1 DEF CollectStep, CollectQuery, Collected, workspace
    <3>. QED  BY <3>1 DEF RadixInv, SortsOK
  <2>2. CASE BeginIdSort \/ BeginQuerySort
    BY <2>2, BeginKeepsSortsOK
  <2>3. CASE EndIdSort
    BY <2>3, EndIdSortKeepsSortsOK
  <2>4. CASE SortRange
    BY <2>4, SortRangeKeepsSortsOK
  <2>5. CASE EndQuerySort
    BY <2>5 DEF EndQuerySort, Sort!Return, Sort!client, RadixInv, SortsOK
  <2>6. CASE MergeStep
    <3>1. /\ UNCHANGED <<sortedIds, sortsLeft, size, key, sortPc, order>>
          /\ UNCHANGED <<id, parentId, childIndexes>>
          /\ pc' \notin {"collect", "sort"}
      BY <2>6 DEF MergeStep, RejectAdjacent, Advance, SetParent, NoParentFound, EndJoin, Finish, joined,
         workspace, inputs
    <3>. QED  BY <3>1, InputsStay DEF RadixInv, SortsOK
  <2>7. CASE (Returned /\ UNCHANGED joined) \/ UNCHANGED joinVars
    <3>1. /\ UNCHANGED <<sortedIds, sortsLeft, size, key, sortPc, order>>
          /\ UNCHANGED <<id, parentId, childIndexes, pc>>
      BY <2>7 DEF Returned, joined, joinVars, workspace, vars, inputs
    <3>. QED  BY <3>1, InputsStay DEF RadixInv, SortsOK
  <2>. QED  BY <2>1, <2>2, <2>3, <2>4, <2>5, <2>6, <2>7 DEF RadixNext, SortStep
<1>. QED  BY <1>1, <1>2, <1>3 DEF RadixInv

\* So it always holds.
LEMMA RadixInvCorrect == RadixSpec => []RadixInv
BY InitRadixInv, RadixNextKeepsInv, PTL DEF RadixSpec

\* Production's parent index, with its radix sorts, one workspace for both and
\* the comparator over cached chunks, ids or hooks, does what ParentIndex may.
THEOREM RadixJoinRefines == RadixSpec => ImplementsParentIndex
<1>1. RadixInit => Init
  BY DEF RadixInit
<1>2. RadixInv /\ [RadixNext]_joinVars => [Next]_vars
  BY RadixNextRefines
<1>. QED
  BY <1>1, <1>2, RadixInvCorrect, PTL DEF RadixSpec, Spec, ImplementsParentIndex

\* So its result is exact and its rejections are justified.
THEOREM RadixJoinComputesParents ==
  RadixSpec => [](PassedIdsAreSmaller /\ JoinIsExact /\ DuplicatesAreRejected)
BY RadixJoinRefines, NoQueryIsMissed, JoinComputesParents, NoDuplicateIsMissed, PTL
DEF ImplementsParentIndex
=============================================================================
