-------------------------- MODULE ForestApiProofs --------------------------
(***************************************************************************)
(* Proofs about ForestApi: every operation keeps the promise of            *)
(* ForestOrder, with the answer that the nodes determine.                  *)
(***************************************************************************)
EXTENDS ForestApi, TLAPS, FiniteSetTheorems, Functions

\* The lemmas about bytes and least numbers are those of the grouping, which
\* takes the depths and the order; the rest of its state does not matter here.
Grouping ==
  INSTANCE DepthGroupProofs WITH
    DenseBuckets <- 2, idOrder <- idPermutation, scratch <- nodes, depthStarts <- narrowed,
    depthOffsets <- narrowed, offset <- 0, stack <- <<>>, ranges <- <<>>

LEMMA SameWidths ==
  /\ RadixPower = Grouping!RadixPower
  /\ \A bytes : MaxDepthForPrefix(bytes) = Grouping!MaxDepthForPrefix(bytes)
  /\ \A m : PrefixBytesForMax(m) = Grouping!PrefixBytesForMax(m)
<1>1. RadixPower = Grouping!RadixPower
  BY DEF RadixPower, Grouping!RadixPower
<1>2. \A bytes : MaxDepthForPrefix(bytes) = Grouping!MaxDepthForPrefix(bytes)
  BY <1>1 DEF MaxDepthForPrefix, Grouping!MaxDepthForPrefix
<1>3. \A m :
        (CHOOSE bytes \in 1 .. 4 :
           /\ m <= MaxDepthForPrefix(bytes) \/ bytes = 4
           /\ \A fewer \in 1 .. bytes - 1 : m > MaxDepthForPrefix(fewer))
        = (CHOOSE bytes \in 1 .. 4 :
             /\ m <= Grouping!MaxDepthForPrefix(bytes) \/ bytes = 4
             /\ \A fewer \in 1 .. bytes - 1 : m > Grouping!MaxDepthForPrefix(fewer))
  BY <1>2, Zenon
<1> QED
  BY <1>1, <1>2, <1>3, Zenon DEF PrefixBytesForMax, Grouping!PrefixBytesForMax

LEMMA WidthSuffices ==
  ASSUME NEW m \in 0 .. MaxDepthForPrefix(4)
  PROVE  /\ PrefixBytesForMax(m) \in 1 .. 4
         /\ m < RadixPower[PrefixBytesForMax(m)]
BY SameWidths, RadixAssumption, Grouping!PrefixBytesSuffice

LEMMA LeastNumber ==
  ASSUME NEW S \in SUBSET Nat, S # {}
  PROVE  \E m \in S : \A x \in S : m <= x
BY Grouping!LeastNatural

-----------------------------------------------------------------------------
(* The call, in the words of both modules.                                  *)

CallOK ==
  /\ op \in Ops /\ size \in Sizes
  /\ id \in [Nodes -> Ids] /\ parentId \in [Nodes -> ParentIds]
  /\ supplied \in IF op = "withDepths" THEN SuppliedDepths ELSE {<<>>}

LEMMA CallFacts ==
  ASSUME CallOK
  PROVE  /\ size \in Nat /\ Nodes = 0 .. size - 1 /\ Nodes \in SUBSET Nat
         /\ \A n \in Nodes : id[n] \in Nat
         /\ Promise!Nodes = Nodes /\ Promise!Permutations = Permutations
         /\ (Promise!DistinctIds <=> ~HasDuplicate)
         /\ \A m, n : Promise!IsParent(m, n) <=> IsParent(m, n)
<1>1. size \in Nat /\ Nodes = 0 .. size - 1 /\ Nodes \in SUBSET Nat
  BY SizesAssumption DEF CallOK, Nodes
<1>2. \A n \in Nodes : id[n] \in Nat
  BY IdsAssumption DEF CallOK
<1>3. Promise!Nodes = Nodes /\ Promise!Permutations = Permutations
  BY DEF Promise!Nodes, Nodes, Promise!Permutations, Permutations
<1>4. Promise!DistinctIds <=> ~HasDuplicate
  BY <1>3 DEF Promise!DistinctIds, HasDuplicate
<1>5. \A m, n : Promise!IsParent(m, n) <=> IsParent(m, n)
  BY DEF Promise!IsParent, IsParent
<1> QED
  BY <1>1, <1>2, <1>3, <1>4, <1>5

\* A property that fails for a node fails for a first one.
LEMMA FirstNode ==
  ASSUME CallOK, NEW B \in SUBSET Nodes, B # {}
  PROVE  \E n \in B : n \in Nodes /\ \A m \in Nodes : m < n => m \notin B
<1>1. PICK n \in B : \A m \in B : n <= m
  BY CallFacts, LeastNumber
<1>2. ASSUME NEW m \in Nodes, m < n
      PROVE  m \notin B
  <2>1. m \in Nat /\ n \in Nat
    BY CallFacts
  <2> QED
    BY <1>1, <1>2, <2>1
<1> QED
  BY <1>1, <1>2

\* With distinct ids, a node has one parent and one depth.
LEMMA DepthsAreUnique ==
  ASSUME CallOK, Promise!DistinctIds, NEW c \in [Nodes -> Nat], NEW d \in [Nodes -> Nat],
         Promise!AreDepths(c), Promise!AreDepths(d)
  PROVE  c = d
<1> DEFINE B == {n \in Nodes : c[n] # d[n]}
           V == {c[n] : n \in B}
<1>1. SUFFICES ASSUME B # {} PROVE FALSE
  OBVIOUS
<1>2. V \in SUBSET Nat /\ V # {}
  BY <1>1
<1>3. PICK v \in V : \A w \in V : v <= w
  BY <1>2, LeastNumber
<1>4. PICK n \in B : c[n] = v
  BY <1>3
<1>5. n \in Nodes /\ \A m \in Nodes : c[m] < c[n] => c[m] = d[m]
  <2>1. \A m \in Nodes : c[m] \in Nat
    OBVIOUS
  <2> QED
    BY <1>3, <1>4, <2>1
<1>6. CASE \E m \in Nodes : IsParent(m, n)
  <2>1. PICK m \in Nodes : IsParent(m, n) /\ c[n] = c[m] + 1
    BY <1>5, <1>6, CallFacts DEF Promise!AreDepths
  <2>2. PICK k \in Nodes : IsParent(k, n) /\ d[n] = d[k] + 1
    BY <1>5, <1>6, CallFacts DEF Promise!AreDepths
  <2>3. m = k
    BY <2>1, <2>2, CallFacts DEF IsParent, Promise!DistinctIds
  <2>4. c[m] = d[m]
    BY <1>5, <2>1
  <2> QED
    BY <1>4, <2>1, <2>2, <2>3, <2>4
<1>7. CASE ~\E m \in Nodes : IsParent(m, n)
  <2>1. c[n] = 0 /\ d[n] = 0
    BY <1>5, <1>7, CallFacts DEF Promise!AreDepths
  <2> QED
    BY <1>4, <2>1
<1> QED
  BY <1>6, <1>7

\* The parents that the join finds.
JoinedParents ==
  [n \in Nodes |-> IF \E m \in Nodes : IsParent(m, n) THEN CHOOSE m \in Nodes : IsParent(m, n)
                                                       ELSE NoParent]

\* The depths that the depth pass computes are those of the promise.
LEMMA ConsistentDepthsAreDepths ==
  ASSUME CallOK, Promise!DistinctIds, parentIndex = JoinedParents
  PROVE  \A d \in [Nodes -> Nodes] : d \in ConsistentDepths <=> Promise!AreDepths(d)
<1> SUFFICES ASSUME NEW d \in [Nodes -> Nodes], NEW n \in Nodes
             PROVE  (IF parentIndex[n] = NoParent THEN d[n] = 0
                     ELSE parentIndex[n] \in Nodes /\ d[n] = d[parentIndex[n]] + 1)
                      <=> IF \E m \in Nodes : IsParent(m, n)
                            THEN \E m \in Nodes : IsParent(m, n) /\ d[n] = d[m] + 1
                            ELSE d[n] = 0
  BY CallFacts DEF ConsistentDepths, DepthsOf, Promise!AreDepths
<1>1. CASE \E m \in Nodes : IsParent(m, n)
  <2>1. PICK k \in Nodes : k = parentIndex[n] /\ IsParent(k, n)
    BY <1>1 DEF JoinedParents
  <2>2. k # NoParent
    BY NoParentAssumption, CallFacts
  <2>3. \A m \in Nodes : IsParent(m, n) => m = k
    BY <2>1, CallFacts DEF IsParent, Promise!DistinctIds
  <2> QED
    BY <1>1, <2>1, <2>2, <2>3
<1>2. CASE ~\E m \in Nodes : IsParent(m, n)
  BY <1>2 DEF JoinedParents
<1> QED
  BY <1>1, <1>2

\* The depths of some of the nodes are what they are in the whole forest.
LEMMA DepthsAgree ==
  ASSUME CallOK, NEW c \in ConsistentDepths, NEW S \in SUBSET Nodes, NEW d \in DepthsOf(S)
  PROVE  \A n \in S : d[n] = c[n]
<1> DEFINE B == {n \in S : d[n] # c[n]}
           V == {d[n] : n \in B}
<1>1. SUFFICES ASSUME B # {} PROVE FALSE
  OBVIOUS
<1>2. /\ c \in [Nodes -> Nat] /\ d \in [S -> Nat]
      /\ \A n \in Nodes : IF parentIndex[n] = NoParent THEN c[n] = 0 ELSE c[n] = c[parentIndex[n]] + 1
      /\ \A n \in S : IF parentIndex[n] = NoParent THEN d[n] = 0
                       ELSE parentIndex[n] \in S /\ d[n] = d[parentIndex[n]] + 1
  BY CallFacts DEF ConsistentDepths, DepthsOf
<1>3. V \in SUBSET Nat /\ V # {}
  BY <1>1, <1>2
<1>4. PICK v \in V : \A w \in V : v <= w
  BY <1>3, LeastNumber
<1>5. PICK n \in B : d[n] = v
  BY <1>4
<1>6. n \in S /\ \A m \in S : d[m] < d[n] => d[m] = c[m]
  <2>1. \A m \in S : d[m] \in Nat
    BY <1>2
  <2> QED
    BY <1>4, <1>5, <2>1
<1>7. CASE parentIndex[n] = NoParent
  BY <1>2, <1>5, <1>6, <1>7
<1>8. CASE parentIndex[n] # NoParent
  <2>1. PICK m \in S : m = parentIndex[n]
    BY <1>2, <1>6, <1>8
  <2>2. d[n] = d[m] + 1 /\ c[n] = c[m] + 1 /\ d[m] \in Nat
    BY <1>2, <1>6, <1>8, <2>1
  <2>3. d[m] = c[m]
    BY <1>6, <2>2
  <2> QED
    BY <1>5, <2>2, <2>3
<1> QED
  BY <1>7, <1>8

\* Every node is listed in a permutation.
LEMMA EveryNodeIsListed ==
  ASSUME CallOK, NEW p \in Permutations, NEW n \in Nodes
  PROVE  \E i \in Nodes : p[i] = n
<1>1. IsFiniteSet(Nodes)
  BY CallFacts, FS_Interval
<1>2. p \in Injection(Nodes, Nodes)
  BY DEF Permutations, Injection, IsInjective
<1>3. p \in Surjection(Nodes, Nodes)
  BY <1>1, <1>2, FS_Injection
<1> QED
  BY <1>3 DEF Surjection

\* Depths and ids leave one order.
LEMMA OrderIsUnique ==
  ASSUME CallOK, NEW d \in [Nodes -> Nat], NEW p \in Permutations, NEW q \in Permutations,
         Promise!OrderedBy(p, d), Promise!OrderedBy(q, d)
  PROVE  p = q
<1> DEFINE B == {i \in Nodes : p[i] # q[i]}
<1>1. /\ p \in [Nodes -> Nodes] /\ q \in [Nodes -> Nodes]
      /\ \A i, j \in Nodes : p[i] = p[j] => i = j
      /\ \A i, j \in Nodes : q[i] = q[j] => i = j
  BY DEF Permutations
<1>2. SUFFICES ASSUME B # {} PROVE FALSE
  BY <1>1
<1>3. PICK i \in Nodes : p[i] # q[i] /\ \A m \in Nodes : m < i => p[m] = q[m]
  <2>1. \E n \in B : n \in Nodes /\ \A m \in Nodes : m < n => m \notin B
    <3> HIDE DEF B
    <3>1. B \in SUBSET Nodes
      BY DEF B
    <3> QED
      BY <1>2, <3>1, FirstNode
  <2> QED
    BY <2>1
<1>4. PICK j \in Nodes : q[j] = p[i]
  BY <1>1, EveryNodeIsListed
<1>5. PICK k \in Nodes : p[k] = q[i]
  BY <1>1, EveryNodeIsListed
<1>6. i < j /\ i < k
  <2>1. i \in Nat /\ j \in Nat /\ k \in Nat
    BY CallFacts
  <2>2. j # i /\ k # i /\ ~(j < i) /\ ~(k < i)
    BY <1>1, <1>3, <1>4, <1>5, <2>1
  <2> QED
    BY <2>1, <2>2
<1> DEFINE x == p[i]
           y == q[i]
<1>7. x \in Nodes /\ y \in Nodes
  BY <1>1
<1>8. d[y] < d[x] \/ (d[y] = d[x] /\ id[y] < id[x])
  BY <1>4, <1>6, CallFacts DEF Promise!OrderedBy
<1>9. d[x] < d[y] \/ (d[x] = d[y] /\ id[x] < id[y])
  BY <1>5, <1>6, CallFacts DEF Promise!OrderedBy
<1>10. d[x] \in Nat /\ d[y] \in Nat /\ id[x] \in Nat /\ id[y] \in Nat
  BY <1>7, CallFacts
<1> QED
  BY <1>8, <1>9, <1>10

\* A call has at most one answer.
LEMMA AnswersAreUnique ==
  ASSUME CallOK, NEW p \in Promise!Answers, NEW q \in Promise!Answers
  PROVE  p = q
<1>1. p \in Permutations /\ q \in Permutations
  BY CallFacts DEF Promise!Answers
<1>2. CASE Promise!Trivial
  <2>1. \A i, j \in Nodes : i = j
    BY <1>2, CallFacts DEF Promise!Trivial
  <2> QED
    BY <1>1, <2>1 DEF Permutations
<1>3. CASE ~Promise!Trivial
  <2>1. PICK c \in Promise!SortingDepths : Promise!OrderedBy(p, c)
    BY <1>3 DEF Promise!Answers
  <2>2. PICK d \in Promise!SortingDepths : Promise!OrderedBy(q, d)
    BY <1>3 DEF Promise!Answers
  <2>3. c \in [Nodes -> Nat] /\ c = d
    <3>1. CASE op = "withDepths"
      <4>1. c = supplied /\ d = supplied /\ DOMAIN supplied = Nodes
        BY <2>1, <2>2, <3>1, CallFacts DEF Promise!SortingDepths
      <4>2. PICK n \in Sizes : supplied \in [0 .. n - 1 -> Depths]
        BY <3>1 DEF CallOK, SuppliedDepths
      <4>3. supplied \in [Nodes -> Nat]
        BY <4>1, <4>2, DepthsAssumption
      <4> QED
        BY <4>1, <4>3
    <3>2. CASE op # "withDepths"
      <4>1. /\ c \in [Nodes -> Nodes] /\ d \in [Nodes -> Nodes]
            /\ Promise!AreDepths(c) /\ Promise!AreDepths(d)
        BY <2>1, <2>2, <3>2, CallFacts DEF Promise!SortingDepths, Promise!ForestDepths
      <4>2. c \in [Nodes -> Nat] /\ d \in [Nodes -> Nat]
        BY <4>1, CallFacts
      <4>3. Promise!DistinctIds
        BY <1>3 DEF Promise!Answers
      <4> QED
        BY <4>1, <4>2, <4>3, DepthsAreUnique
    <3> QED
      BY <3>1, <3>2
  <2> QED
    BY <1>1, <2>1, <2>2, <2>3, OrderIsUnique
<1> QED
  BY <1>2, <1>3

\* The order of a stable grouping of the sorted ids is by depth and id.
LEMMA GroupingSorts ==
  ASSUME CallOK, Promise!DistinctIds, idPermutation \in SortedById, narrowed \in [Nodes -> Nat],
         NEW o \in StableGrouping
  PROVE  o \in Permutations /\ Promise!OrderedBy(o, narrowed)
<1>1. PICK p \in Permutations :
        /\ o = [i \in Nodes |-> Listed(p[i])]
        /\ \A i, j \in Nodes : i < j =>
             \/ narrowed[Listed(p[i])] < narrowed[Listed(p[j])]
             \/ narrowed[Listed(p[i])] = narrowed[Listed(p[j])] /\ p[i] < p[j]
  BY DEF StableGrouping
<1>2. /\ p \in [Nodes -> Nodes] /\ \A i, j \in Nodes : p[i] = p[j] => i = j
      /\ idPermutation \in [Nodes -> Nodes]
      /\ \A i, j \in Nodes : idPermutation[i] = idPermutation[j] => i = j
      /\ \A i, j \in Nodes : i < j => id[idPermutation[i]] <= id[idPermutation[j]]
  BY DEF Permutations, SortedById
<1>3. \A i \in Nodes : o[i] = idPermutation[p[i]] /\ o[i] \in Nodes
  BY <1>1, <1>2 DEF Listed
<1>4. o \in Permutations
  <2>1. o \in [Nodes -> Nodes]
    BY <1>1, <1>3
  <2>2. \A i, j \in Nodes : o[i] = o[j] => i = j
    BY <1>2, <1>3
  <2> QED
    BY <2>1, <2>2 DEF Permutations
<1>5. ASSUME NEW i \in Nodes, NEW j \in Nodes, i < j
      PROVE  narrowed[o[i]] < narrowed[o[j]] \/ (narrowed[o[i]] = narrowed[o[j]] /\ id[o[i]] < id[o[j]])
  <2>1. \/ narrowed[o[i]] < narrowed[o[j]]
        \/ narrowed[o[i]] = narrowed[o[j]] /\ p[i] < p[j]
    BY <1>1, <1>3, <1>5 DEF Listed
  <2>2. ASSUME p[i] < p[j]
        PROVE  id[o[i]] < id[o[j]]
    <3>1. id[o[i]] <= id[o[j]]
      BY <1>2, <1>3, <2>2
    <3>2. o[i] # o[j]
      <4>1. i \in Nat /\ j \in Nat
        BY CallFacts
      <4>2. i # j
        BY <1>5, <4>1
      <4> QED
        BY <1>4, <4>2 DEF Permutations
    <3>3. id[o[i]] # id[o[j]]
      BY <1>3, <3>2, CallFacts DEF HasDuplicate
    <3>4. id[o[i]] \in Nat /\ id[o[j]] \in Nat
      BY <1>3, CallFacts
    <3> QED
      BY <3>1, <3>3, <3>4
  <2> QED
    BY <2>1, <2>2
<1>6. Promise!OrderedBy(o, narrowed)
  BY <1>5, CallFacts DEF Promise!OrderedBy
<1> QED
  BY <1>4, <1>6

\* The largest of the depths of a vector.
LEMMA MaxOfFacts ==
  ASSUME NEW n \in Nat, NEW d \in [0 .. n - 1 -> Nat], ~TooDeep(d)
  PROVE  /\ MaxOf(d) \in 0 .. MaxDepthForPrefix(4)
         /\ \A i \in 0 .. n - 1 : d[i] <= MaxOf(d)
<1> DEFINE Upper == {b \in Nat : \A i \in 0 .. n - 1 : d[i] <= b}
           max == MaxDepthForPrefix(4)
<1>1. max \in Nat
  <2>1. RadixPower[4] = Grouping!RadixPower[4]
    BY SameWidths
  <2>2. RadixPower[4] \in Nat \ {0}
    BY <2>1, RadixAssumption, Grouping!Powers
  <2> QED
    BY <2>2 DEF MaxDepthForPrefix
<1>2. \A i \in 0 .. n - 1 : d[i] \in Nat /\ d[i] <= max
  BY <1>1 DEF TooDeep
<1>3. CASE n = 0
  <2>1. DOMAIN d = {}
    BY <1>3
  <2> QED
    BY <1>1, <1>3, <2>1 DEF MaxOf
<1>4. CASE n # 0
  <2>1. 0 \in 0 .. n - 1 /\ DOMAIN d = 0 .. n - 1
    BY <1>4
  <2>2. max \in Upper
    BY <1>1, <1>2
  <2>3. PICK m \in Upper : \A b \in Upper : m <= b
    <3>1. Upper \in SUBSET Nat /\ Upper # {}
      BY <2>2
    <3> HIDE DEF Upper
    <3> QED
      BY <3>1, LeastNumber
  <2>4. \E i \in 0 .. n - 1 : d[i] = m
    <3>1. SUFFICES ASSUME \A i \in 0 .. n - 1 : d[i] # m PROVE FALSE
      OBVIOUS
    <3>2. m # 0
      BY <1>2, <2>1, <2>3, <3>1
    <3>3. m - 1 \in Nat /\ \A i \in 0 .. n - 1 : d[i] <= m - 1
      BY <1>2, <2>3, <3>1, <3>2
    <3>4. m - 1 \in Upper
      BY <3>3
    <3> QED
      BY <2>3, <3>4
  <2>5. /\ m \in {d[i] : i \in DOMAIN d} /\ \A i \in DOMAIN d : d[i] <= m
    BY <2>1, <2>3, <2>4
  <2>6. MaxOf(d) \in {d[i] : i \in DOMAIN d} /\ \A i \in DOMAIN d : d[i] <= MaxOf(d)
    <3>1. MaxOf(d) = CHOOSE x \in {d[i] : i \in DOMAIN d} : \A i \in DOMAIN d : d[i] <= x
      BY <2>1 DEF MaxOf
    <3> QED
      BY <2>5, <3>1
  <2> QED
    BY <1>1, <1>2, <2>1, <2>6
<1> QED
  BY <1>3, <1>4

\* Narrowing loses no bit of a depth that is at most the largest observed.
LEMMA NarrowingIsIdentity ==
  ASSUME NEW m \in 0 .. MaxDepthForPrefix(4), NEW x \in Nat, x <= m
  PROVE  x % DepthValues(PrefixBytesForMax(m)) = x
<1> DEFINE b == PrefixBytesForMax(m)
<1>1. b \in 1 .. 4 /\ m < RadixPower[b]
  BY WidthSuffices
<1>2. /\ \A k \in 0 .. 4 : RadixPower[k] \in Nat \ {0}
      /\ RadixPower[4] = Radix * RadixPower[3]
  <2>1. /\ \A k \in 0 .. 4 : Grouping!RadixPower[k] \in Nat \ {0}
        /\ Grouping!RadixPower[3 + 1] = Radix * Grouping!RadixPower[3]
    BY RadixAssumption, Grouping!Powers
  <2> QED
    BY <2>1, SameWidths
<1>3. m \in Nat
  <2>1. MaxDepthForPrefix(4) \in Int
    BY <1>2 DEF MaxDepthForPrefix
  <2> QED
    BY <2>1
<1>4. DepthValues(b) \in Nat \ {0} /\ m < DepthValues(b)
  <2> HIDE DEF b
  <2>1. CASE b = 3
    <3>1. DepthValues(b) = RadixPower[4]
      BY <2>1 DEF DepthValues
    <3>2. RadixPower[3] <= Radix * RadixPower[3]
      BY <1>2, RadixAssumption
    <3> QED
      BY <1>1, <1>2, <1>3, <2>1, <3>1, <3>2
  <2>2. CASE b # 3
    <3>1. DepthValues(b) = RadixPower[b]
      BY <2>2 DEF DepthValues
    <3> QED
      BY <1>1, <1>2, <3>1
  <2> QED
    BY <2>1, <2>2
<1> HIDE DEF b
<1>5. x < DepthValues(b)
  BY <1>3, <1>4
<1>6. x % DepthValues(b) = x
  BY <1>4, <1>5
<1> QED
  BY <1>6 DEF b

-----------------------------------------------------------------------------
(* The inductive invariant: what the steps so far have established.         *)

\* Depths that the order may be by, none above the largest observed.
DepthsReady ==
  /\ depths \in Promise!SortingDepths /\ depths \in [Nodes -> Nat]
  /\ observedMax \in 0 .. MaxDepthForPrefix(4)
  /\ \A n \in Nodes : depths[n] <= observedMax

ApiInv ==
  /\ CallOK
  /\ pc \in {"entry", "join", "depths", "narrow", "ids", "group", "place", "done", "throw"}
  /\ pc # "done" => nodes = Identity
  /\ pc \in {"entry", "ids"} \/ (pc = "narrow" /\ op = "withDepths") => idPermutation = <<>>
  /\ pc \in {"join", "depths"} => op # "withDepths"
  /\ pc = "ids" => op = "withDepths"
  /\ pc \in {"join", "depths", "narrow", "ids", "group"} => ~Promise!Trivial
  /\ pc = "depths" => parentIndex = JoinedParents
  /\ pc \in {"narrow", "ids", "group"} => DepthsReady
  /\ pc \in {"depths", "group"} \/ (pc = "narrow" /\ op # "withDepths") =>
       Promise!DistinctIds /\ idPermutation \in SortedById
  /\ pc \in {"ids", "group"} => narrowed = depths
  /\ pc = "place" => order \in Promise!Answers /\ op = "inPlace"
  /\ pc = "done" => order \in Promise!Answers /\ nodes = IF op = "inPlace" THEN order ELSE Identity
  /\ pc = "throw" => Promise!Answers = {}
  /\ DepthErrorsComeFirst

\* The call does not change, and neither does what is promised for it.
LEMMA CallStays ==
  ASSUME CallOK, UNCHANGED call
  PROVE  /\ CallOK' /\ op' = op /\ size' = size /\ id' = id /\ supplied' = supplied /\ parentId' = parentId
         /\ Nodes' = Nodes /\ Identity' = Identity /\ SortedById' = SortedById
         /\ JoinedParents' = JoinedParents
         /\ (Promise!DistinctIds)' = Promise!DistinctIds
         /\ (Promise!Trivial)' = Promise!Trivial
         /\ (Promise!SortingDepths)' = Promise!SortingDepths
         /\ (Promise!Answers)' = Promise!Answers
<1>1. op' = op /\ size' = size /\ id' = id /\ supplied' = supplied /\ parentId' = parentId
  BY DEF call
<1>2. Nodes' = Nodes /\ Identity' = Identity
  BY <1>1 DEF Nodes, Identity
<1>3. CallOK'
  BY <1>1, <1>2 DEF CallOK
<1>4. SortedById' = SortedById
  BY <1>1, <1>2 DEF SortedById, Permutations
<1>5. JoinedParents' = JoinedParents
  BY <1>1, <1>2 DEF JoinedParents, IsParent
<1>6. (Promise!DistinctIds)' = Promise!DistinctIds /\ (Promise!Trivial)' = Promise!Trivial
  BY <1>1 DEF Promise!DistinctIds, Promise!Nodes, Promise!Trivial
<1>7. (Promise!SortingDepths)' = Promise!SortingDepths
  BY <1>1 DEF Promise!SortingDepths, Promise!ForestDepths, Promise!AreDepths, Promise!IsParent, Promise!Nodes
<1>8. (Promise!Answers)' = Promise!Answers
  BY <1>1, <1>6, <1>7 DEF Promise!Answers, Promise!Permutations, Promise!Nodes, Promise!OrderedBy
<1> QED
  BY <1>1, <1>2, <1>3, <1>4, <1>5, <1>6, <1>7, <1>8

LEMMA InitApiInv == Init => ApiInv /\ Promise!Init
<1> SUFFICES ASSUME Init PROVE ApiInv /\ Promise!Init
  OBVIOUS
<1>1. parentId \in [Nodes -> ParentIds]
  BY ParentIdsAssumption DEF Init, ParentIdsRead
<1>2. CallOK
  BY <1>1 DEF Init, CallOK
<1>3. ApiInv
  BY <1>2 DEF Init, ApiInv, DepthErrorsComeFirst
<1>4. Promise!SuppliedDepths = SuppliedDepths /\ Promise!Unmoved = Identity /\ Promise!Nodes = Nodes
  BY CallFacts, <1>2 DEF Promise!SuppliedDepths, SuppliedDepths, Promise!Unmoved, Identity
<1>5. Promise!Init
  BY <1>1, <1>4 DEF Init, Promise!Init
<1> QED
  BY <1>3, <1>5

\* The order of no node, and of one node that is to be sorted in place.
LEMMA TrivialAnswer ==
  ASSUME CallOK, op = "withDepths" => Promise!SortingDepths # {}, IsTrivial
  PROVE  Identity \in Promise!Answers
<1>1. \A i, j \in Nodes : i = j
  BY CallFacts DEF IsTrivial
<1>2. Identity \in Permutations
  BY DEF Identity, Permutations
<1>3. CASE op = "inPlace"
  <2>1. Promise!Trivial
    BY <1>3, CallFacts DEF IsTrivial, Promise!Trivial
  <2> QED
    BY <1>2, <2>1, CallFacts DEF Promise!Answers
<1>4. CASE op # "inPlace"
  <2>1. Nodes = {}
    BY <1>4, CallFacts DEF IsTrivial
  <2>2. Promise!DistinctIds
    BY <2>1, CallFacts DEF Promise!DistinctIds
  <2>3. \A d : Promise!OrderedBy(Identity, d)
    BY <2>1, CallFacts DEF Promise!OrderedBy
  <2>4. Promise!SortingDepths # {}
    <3>1. Identity \in Promise!ForestDepths
      BY <2>1, CallFacts DEF Promise!ForestDepths, Promise!AreDepths, Identity
    <3> QED
      BY <3>1 DEF Promise!SortingDepths
  <2> QED
    BY <1>2, <2>2, <2>3, <2>4, CallFacts DEF Promise!Answers
<1> QED
  BY <1>3, <1>4

LEMMA ReturnEarlyKeeps ==
  ASSUME ApiInv, ReturnEarly
  PROVE  ApiInv' /\ Promise!Return
<1>1. /\ CallOK /\ UNCHANGED call /\ pc = "entry" /\ pc' = "done" /\ op # "withDepths"
      /\ order' = Identity /\ nodes = Identity /\ nodes' = nodes
  BY DEF ApiInv, ReturnEarly
<1>2. Identity \in Promise!Answers
  BY <1>1, TrivialAnswer DEF ReturnEarly
<1>3. ApiInv'
  BY <1>1, <1>2, CallStays DEF ApiInv, DepthErrorsComeFirst
<1>4. Promise!Return
  BY <1>1, <1>2, CallStays DEF Promise!Return, Promise!call
<1> QED
  BY <1>3, <1>4

LEMMA EnterSortKeeps ==
  ASSUME ApiInv, EnterSort
  PROVE  ApiInv' /\ UNCHANGED Promise!vars
<1>1. /\ CallOK /\ UNCHANGED call /\ pc = "entry" /\ pc' = "join" /\ op # "withDepths"
      /\ nodes = Identity /\ nodes' = nodes
  BY DEF ApiInv, EnterSort
<1>2. ~Promise!Trivial
  BY DEF EnterSort, IsTrivial, Promise!Trivial
<1>3. ApiInv'
  BY <1>1, <1>2, CallStays DEF ApiInv, DepthErrorsComeFirst
<1>4. UNCHANGED Promise!vars
  BY <1>1, CallStays DEF Promise!vars, Promise!call
<1> QED
  BY <1>3, <1>4

\* A call that fails leaves everything but the message as it was.
LEMMA ThrowKeeps ==
  ASSUME ApiInv, pc # "done", pc # "throw", UNCHANGED <<call, nodes>>, pc' = "throw",
         Promise!Answers = {}, DepthErrorsComeFirst'
  PROVE  ApiInv' /\ Promise!Throw
<1>1. CallOK /\ UNCHANGED call /\ nodes = Identity /\ nodes' = nodes
  BY DEF ApiInv
<1>2. ApiInv'
  BY <1>1, CallStays DEF ApiInv
<1>3. Promise!Throw
  BY <1>1, CallStays DEF Promise!Throw, Promise!call
<1> QED
  BY <1>2, <1>3

LEMMA ValidateSuppliedKeeps ==
  ASSUME ApiInv, ValidateSupplied
  PROVE  ApiInv' /\ (Promise!Next \/ UNCHANGED Promise!vars)
<1>1. /\ CallOK /\ UNCHANGED call /\ pc = "entry" /\ op = "withDepths"
      /\ nodes = Identity /\ nodes' = nodes /\ idPermutation = <<>> /\ idPermutation' = idPermutation
  BY DEF ApiInv, ValidateSupplied
<1>2. ~Promise!Trivial
  BY <1>1 DEF Promise!Trivial
<1> DEFINE Valid == DOMAIN supplied = Nodes /\ \A n \in Nodes : supplied[n] <= MaxDepthForPrefix(4)
<1>3. Promise!SortingDepths = {d \in {supplied} : Valid}
  BY <1>1, CallFacts DEF Promise!SortingDepths
<1>4. MaxDepthForPrefix(4) \in Nat
  <2>1. RadixPower[4] = Grouping!RadixPower[4]
    BY SameWidths
  <2>2. RadixPower[4] \in Nat \ {0}
    BY <2>1, RadixAssumption, Grouping!Powers
  <2> QED
    BY <2>2 DEF MaxDepthForPrefix
<1>5. supplied \in [DOMAIN supplied -> Nat]
  <2>1. PICK n \in Sizes : supplied \in [0 .. n - 1 -> Depths]
    BY <1>1 DEF CallOK, SuppliedDepths
  <2> QED
    BY <2>1, DepthsAssumption
<1>6. CASE ~Valid
  <2>1. Promise!Answers = {}
    BY <1>2, <1>3, <1>6 DEF Promise!Answers
  <2>2. DOMAIN supplied # Nodes \/ TooDeep(supplied)
    BY <1>4, <1>5, <1>6 DEF TooDeep
  <2>3. pc' = "throw" /\ error' \in {"size_mismatch", "depth_limit"}
    BY <2>2 DEF ValidateSupplied, Throw
  <2>4. DepthErrorsComeFirst'
    <3>1. supplied' = supplied /\ Nodes' = Nodes
      BY <1>1, CallStays
    <3> QED
      BY <1>1, <1>6, <2>3, <3>1 DEF DepthErrorsComeFirst
  <2> QED
    BY <1>1, <2>1, <2>3, <2>4, ThrowKeeps DEF Promise!Next
<1>7. CASE Valid
  <2>1. ~TooDeep(supplied)
    BY <1>4, <1>5, <1>7 DEF TooDeep
  <2>2. supplied \in [Nodes -> Nat]
    BY <1>5, <1>7
  <2>3. /\ MaxOf(supplied) \in 0 .. MaxDepthForPrefix(4)
        /\ \A n \in Nodes : supplied[n] <= MaxOf(supplied)
    BY <1>1, <2>1, <2>2, CallFacts, MaxOfFacts
  <2>4. supplied \in Promise!SortingDepths
    BY <1>3, <1>7
  <2>5. depths' = supplied /\ observedMax' = MaxOf(supplied)
    BY <1>7, <2>1 DEF ValidateSupplied
  <2>6. CASE size = 0
    <3>1. Identity \in Promise!Answers
      BY <1>1, <2>4, <2>6, TrivialAnswer DEF IsTrivial
    <3>2. pc' = "done" /\ order' = Identity
      BY <1>7, <2>1, <2>6 DEF ValidateSupplied
    <3>3. ApiInv'
      BY <1>1, <3>1, <3>2, CallStays DEF ApiInv, DepthErrorsComeFirst
    <3>4. Promise!Return
      BY <1>1, <3>1, <3>2, CallStays DEF Promise!Return, Promise!call
    <3> QED
      BY <3>3, <3>4 DEF Promise!Next
  <2>7. CASE size # 0
    <3>1. pc' = "narrow"
      BY <1>7, <2>1, <2>7 DEF ValidateSupplied
    <3>2. DepthsReady'
      BY <1>1, <2>2, <2>3, <2>4, <2>5, CallStays DEF DepthsReady
    <3>3. ApiInv'
      BY <1>1, <1>2, <3>1, <3>2, CallStays DEF ApiInv, DepthErrorsComeFirst
    <3>4. UNCHANGED Promise!vars
      BY <1>1, <3>1, CallStays DEF Promise!vars, Promise!call
    <3> QED
      BY <3>3, <3>4
  <2> QED
    BY <2>6, <2>7
<1> QED
  BY <1>6, <1>7

LEMMA JoinParentsKeeps ==
  ASSUME ApiInv, JoinParents
  PROVE  ApiInv' /\ (Promise!Next \/ UNCHANGED Promise!vars)
<1>1. /\ CallOK /\ UNCHANGED call /\ pc = "join" /\ op # "withDepths" /\ ~Promise!Trivial
      /\ nodes = Identity /\ nodes' = nodes
  BY DEF ApiInv, JoinParents
<1>2. DepthErrorsComeFirst'
  BY <1>1, CallStays DEF DepthErrorsComeFirst
<1>3. CASE HasDuplicate
  <2>1. Promise!Answers = {}
    BY <1>1, <1>3, CallFacts DEF Promise!Answers
  <2>2. pc' = "throw"
    BY <1>3 DEF JoinParents, Throw
  <2> QED
    BY <1>1, <1>2, <2>1, <2>2, ThrowKeeps DEF Promise!Next
<1>4. CASE ~HasDuplicate
  <2>1. Promise!DistinctIds
    BY <1>1, <1>4, CallFacts
  <2>2. pc' = "depths" /\ parentIndex' = JoinedParents /\ idPermutation' \in SortedById
    BY <1>4 DEF JoinParents, JoinedParents
  <2>3. ApiInv'
    BY <1>1, <1>2, <2>1, <2>2, CallStays DEF ApiInv
  <2>4. UNCHANGED Promise!vars
    BY <1>1, <2>2, CallStays DEF Promise!vars, Promise!call
  <2> QED
    BY <2>3, <2>4
<1> QED
  BY <1>3, <1>4

LEMMA ComputeDepthsKeeps ==
  ASSUME ApiInv, ComputeDepths
  PROVE  ApiInv' /\ (Promise!Next \/ UNCHANGED Promise!vars)
<1>1. /\ CallOK /\ UNCHANGED call /\ pc = "depths" /\ op # "withDepths" /\ ~Promise!Trivial
      /\ nodes = Identity /\ nodes' = nodes /\ Promise!DistinctIds /\ idPermutation \in SortedById
      /\ idPermutation' = idPermutation /\ parentIndex = JoinedParents
  BY DEF ApiInv, ComputeDepths
<1>2. DepthErrorsComeFirst'
  BY <1>1, CallStays DEF DepthErrorsComeFirst
<1>3. \A d \in [Nodes -> Nodes] : d \in ConsistentDepths <=> Promise!AreDepths(d)
  BY <1>1, ConsistentDepthsAreDepths
<1>4. Promise!SortingDepths =
        {d \in [Nodes -> Nodes] : Promise!AreDepths(d) /\ \A n \in Nodes : d[n] <= MaxDepthForPrefix(4)}
  BY <1>1, CallFacts DEF Promise!SortingDepths, Promise!ForestDepths
<1>5. ASSUME pc' = "throw", Promise!SortingDepths = {}
      PROVE  ApiInv' /\ Promise!Next
  <2>1. Promise!Answers = {}
    BY <1>1, <1>5 DEF Promise!Answers
  <2> QED
    BY <1>1, <1>2, <1>5, <2>1, ThrowKeeps DEF Promise!Next
<1>m. MaxDepthForPrefix(4) \in Int
  <2>1. RadixPower[4] \in Nat
    BY SameWidths, RadixAssumption, Grouping!Powers
  <2> QED
    BY <2>1 DEF MaxDepthForPrefix
<1>6. CASE DepthErrors # {}
  <2>1. PICK message \in DepthErrors : Throw(message)
    BY <1>6 DEF ComputeDepths
  <2>2. ASSUME NEW c \in Promise!SortingDepths
        PROVE  FALSE
    <3>1. c \in ConsistentDepths /\ c \in [Nodes -> Nat] /\ \A n \in Nodes : c[n] <= MaxDepthForPrefix(4)
      BY <1>1, <1>3, <1>4, CallFacts
    <3>2. PICK S \in SUBSET Nodes : \E d \in DepthsOf(S) : TooDeep(d)
      BY <3>1 DEF DepthErrors
    <3>3. PICK d \in DepthsOf(S) : TooDeep(d)
      BY <3>2
    <3>4. PICK n \in S : d[n] > MaxDepthForPrefix(4)
      BY <3>3 DEF TooDeep, DepthsOf
    <3>5. d[n] = c[n] /\ n \in Nodes
      BY <1>1, <3>1, DepthsAgree
    <3> QED
      BY <1>m, <3>1, <3>4, <3>5
  <2>3. pc' = "throw"
    BY <2>1 DEF Throw
  <2> QED
    BY <1>5, <2>2, <2>3
<1>7. CASE DepthErrors = {}
  <2>1. PICK d \in ConsistentDepths : depths' = d /\ observedMax' = MaxOf(d) /\ pc' = "narrow" /\ error' = error
    BY <1>7 DEF ComputeDepths
  <2>2. d \in [Nodes -> Nodes] /\ d \in [Nodes -> Nat] /\ Promise!AreDepths(d)
    <3>1. d \in [Nodes -> Nodes]
      BY DEF ConsistentDepths, DepthsOf
    <3> QED
      BY <1>1, <1>3, <3>1, CallFacts
  <2>3. ~TooDeep(d)
    BY <1>7 DEF DepthErrors, ConsistentDepths
  <2>4. MaxOf(d) \in 0 .. MaxDepthForPrefix(4) /\ \A n \in Nodes : d[n] <= MaxOf(d)
    BY <1>1, <2>2, <2>3, CallFacts, MaxOfFacts
  <2>5. d \in Promise!SortingDepths
    <3>1. \A n \in Nodes : ~(d[n] > MaxDepthForPrefix(4))
      BY <2>2, <2>3 DEF TooDeep
    <3>2. \A n \in Nodes : d[n] \in Nat
      BY <2>2
    <3>3. \A n \in Nodes : d[n] <= MaxDepthForPrefix(4)
      BY <1>m, <3>1, <3>2
    <3> QED
      BY <1>4, <2>2, <3>3
  <2>6. DepthsReady'
    BY <1>1, <2>1, <2>2, <2>4, <2>5, CallStays DEF DepthsReady
  <2>7. ApiInv'
    BY <1>1, <1>2, <2>1, <2>6, CallStays DEF ApiInv
  <2>8. UNCHANGED Promise!vars
    BY <1>1, <2>1, CallStays DEF Promise!vars, Promise!call
  <2> QED
    BY <2>7, <2>8
<1> QED
  BY <1>6, <1>7

LEMMA NarrowKeeps ==
  ASSUME ApiInv, Narrow
  PROVE  ApiInv' /\ UNCHANGED Promise!vars
<1>1. /\ CallOK /\ UNCHANGED call /\ pc = "narrow" /\ ~Promise!Trivial /\ DepthsReady
      /\ pc' = (IF op = "withDepths" THEN "ids" ELSE "group")
      /\ nodes = Identity /\ nodes' = nodes /\ idPermutation' = idPermutation
      /\ depths' = depths /\ observedMax' = observedMax
      /\ op = "withDepths" => idPermutation = <<>>
      /\ op # "withDepths" => Promise!DistinctIds /\ idPermutation \in SortedById
  BY DEF ApiInv, Narrow
<1>2. narrowed' = depths
  <2>1. ASSUME NEW n \in Nodes
        PROVE  depths[n] % DepthValues(PrefixBytesForMax(observedMax)) = depths[n]
    BY <1>1, NarrowingIsIdentity DEF DepthsReady
  <2> QED
    BY <1>1, <2>1 DEF Narrow, DepthsReady
<1>3. DepthsReady'
  BY <1>1, CallStays DEF DepthsReady
<1>4. DepthErrorsComeFirst'
  BY <1>1 DEF DepthErrorsComeFirst
<1>5. ApiInv'
  BY <1>1, <1>2, <1>3, <1>4, CallStays DEF ApiInv
<1>6. UNCHANGED Promise!vars
  BY <1>1, CallStays DEF Promise!vars, Promise!call
<1> QED
  BY <1>5, <1>6

LEMMA ValidateIdsKeeps ==
  ASSUME ApiInv, ValidateIds
  PROVE  ApiInv' /\ (Promise!Next \/ UNCHANGED Promise!vars)
<1>1. /\ CallOK /\ UNCHANGED call /\ pc = "ids" /\ op = "withDepths" /\ ~Promise!Trivial /\ DepthsReady
      /\ nodes = Identity /\ nodes' = nodes /\ narrowed = depths
      /\ depths' = depths /\ observedMax' = observedMax /\ narrowed' = narrowed
  BY DEF ApiInv, ValidateIds
<1>2. CASE HasDuplicate
  <2>1. Promise!Answers = {}
    BY <1>1, <1>2, CallFacts DEF Promise!Answers
  <2>2. pc' = "throw" /\ error' = "duplicate_id"
    BY <1>2 DEF ValidateIds, Throw
  <2>3. DOMAIN supplied = Nodes /\ \A n \in Nodes : supplied[n] <= MaxDepthForPrefix(4)
    BY <1>1, CallFacts DEF DepthsReady, Promise!SortingDepths
  <2>4. DepthErrorsComeFirst'
    BY <1>1, <2>2, <2>3, CallStays DEF DepthErrorsComeFirst
  <2> QED
    BY <1>1, <2>1, <2>2, <2>4, ThrowKeeps DEF Promise!Next
<1>3. CASE ~HasDuplicate
  <2>1. Promise!DistinctIds
    BY <1>1, <1>3, CallFacts
  <2>2. pc' = "group" /\ idPermutation' \in SortedById
    BY <1>3 DEF ValidateIds
  <2>3. DepthsReady' /\ DepthErrorsComeFirst'
    BY <1>1, <2>2, CallStays DEF DepthsReady, DepthErrorsComeFirst
  <2>4. ApiInv'
    BY <1>1, <2>1, <2>2, <2>3, CallStays DEF ApiInv
  <2>5. UNCHANGED Promise!vars
    BY <1>1, <2>2, CallStays DEF Promise!vars, Promise!call
  <2> QED
    BY <2>4, <2>5
<1> QED
  BY <1>2, <1>3

LEMMA GroupKeeps ==
  ASSUME ApiInv, Group
  PROVE  ApiInv' /\ (Promise!Next \/ UNCHANGED Promise!vars)
<1>1. /\ CallOK /\ UNCHANGED call /\ pc = "group" /\ ~Promise!Trivial /\ DepthsReady
      /\ nodes = Identity /\ nodes' = nodes /\ narrowed = depths
      /\ Promise!DistinctIds /\ idPermutation \in SortedById
      /\ pc' = IF op = "inPlace" THEN "place" ELSE "done"
  BY DEF ApiInv, Group
<1>2. order' \in Promise!Answers
  <2>1. narrowed \in [Nodes -> Nat] /\ narrowed \in Promise!SortingDepths
    BY <1>1 DEF DepthsReady
  <2>2. PICK o \in StableGrouping : o = order'
    BY DEF Group
  <2>3. o \in Permutations /\ Promise!OrderedBy(o, narrowed)
    BY <1>1, <2>1, GroupingSorts
  <2> QED
    BY <1>1, <2>1, <2>2, <2>3, CallFacts DEF Promise!Answers
<1>3. DepthErrorsComeFirst'
  BY <1>1 DEF DepthErrorsComeFirst
<1>4. ApiInv'
  BY <1>1, <1>2, <1>3, CallStays DEF ApiInv
<1>5. CASE op = "inPlace"
  <2>1. UNCHANGED Promise!vars
    BY <1>1, <1>5, CallStays DEF Promise!vars, Promise!call
  <2> QED
    BY <1>4, <2>1
<1>6. CASE op # "inPlace"
  <2>1. Promise!Return
    BY <1>1, <1>2, <1>6, CallStays DEF Promise!Return, Promise!call
  <2> QED
    BY <1>4, <2>1 DEF Promise!Next
<1> QED
  BY <1>5, <1>6

LEMMA PlaceNodesKeeps ==
  ASSUME ApiInv, PlaceNodes
  PROVE  ApiInv' /\ Promise!Return
<1>1. /\ CallOK /\ UNCHANGED call /\ pc = "place" /\ pc' = "done" /\ op = "inPlace"
      /\ order \in Promise!Answers /\ order' = order /\ nodes' = order
  BY DEF ApiInv, PlaceNodes
<1>2. ApiInv'
  BY <1>1, CallStays DEF ApiInv, DepthErrorsComeFirst
<1>3. Promise!Return
  BY <1>1, CallStays DEF Promise!Return, Promise!call
<1> QED
  BY <1>2, <1>3

\* Every step keeps the invariant, and is a step of the promise or none.
LEMMA NextKeepsApiInv ==
  ApiInv /\ [Next]_vars => ApiInv' /\ [Promise!Next]_(Promise!vars)
<1> SUFFICES ASSUME ApiInv, [Next]_vars PROVE ApiInv' /\ (Promise!Next \/ UNCHANGED Promise!vars)
  OBVIOUS
<1>1. CASE Step
  BY <1>1, ReturnEarlyKeeps, EnterSortKeeps, ValidateSuppliedKeeps, JoinParentsKeeps, ComputeDepthsKeeps,
     NarrowKeeps, ValidateIdsKeeps, GroupKeeps, PlaceNodesKeeps DEF Step, Promise!Next
<1>2. CASE UNCHANGED vars
  <2>1. /\ CallOK /\ UNCHANGED call /\ pc' = pc /\ parentIndex' = parentIndex
        /\ idPermutation' = idPermutation /\ depths' = depths /\ observedMax' = observedMax
        /\ narrowed' = narrowed /\ order' = order /\ nodes' = nodes /\ error' = error
    BY <1>2 DEF ApiInv, vars
  <2>2. DepthErrorsComeFirst'
    BY <2>1, CallStays DEF ApiInv, DepthErrorsComeFirst
  <2>3. DepthsReady => DepthsReady'
    BY <2>1, CallStays DEF DepthsReady
  <2>4. ApiInv'
    BY <2>1, <2>2, <2>3, CallStays DEF ApiInv
  <2>5. UNCHANGED Promise!vars
    BY <2>1, CallStays DEF Promise!vars, Promise!call
  <2> QED
    BY <2>4, <2>5
<1> QED
  BY <1>1, <1>2 DEF Next, Returned

LEMMA ApiInvCorrect == Spec => []ApiInv
<1>1. Init => ApiInv
  BY InitApiInv
<1>2. ApiInv /\ [Next]_vars => ApiInv'
  BY NextKeepsApiInv
<1> QED
  BY <1>1, <1>2, PTL DEF Spec

-----------------------------------------------------------------------------

\* Supplied depths are validated before any id is looked at.
THEOREM DepthsAreCheckedFirst == Spec => []DepthErrorsComeFirst
<1>1. ApiInv => DepthErrorsComeFirst
  BY DEF ApiInv
<1> QED
  BY <1>1, ApiInvCorrect, PTL

\* The nodes leave no choice of the order returned.
THEOREM OperationsAreDeterministic == Spec => []AnswerIsDetermined
<1>1. ApiInv => AnswerIsDetermined
  <2> SUFFICES ASSUME ApiInv, pc = "done" PROVE Promise!Answers = {order}
    BY DEF AnswerIsDetermined, Promise!AnswerIsDetermined
  <2>1. CallOK /\ order \in Promise!Answers
    BY DEF ApiInv
  <2> QED
    BY <2>1, AnswersAreUnique
<1> QED
  BY <1>1, ApiInvCorrect, PTL

\* Every operation returns only what the promise allows, and throws only where
\* the promise has no answer, with the container untouched.
THEOREM OperationsKeepThePromise == Spec => Promise!Init /\ [][Promise!Next]_(Promise!vars)
<1>1. Init => Promise!Init
  BY InitApiInv
<1>2. ApiInv /\ [Next]_vars => [Promise!Next]_(Promise!vars)
  BY NextKeepsApiInv
<1> QED
  BY <1>1, <1>2, ApiInvCorrect, PTL DEF Spec
=============================================================================
