------------------------ MODULE GroupAndPlaceProofs ------------------------
(***************************************************************************)
(* Proofs about the second half of a sort: about InPlaceSort, for every    *)
(* size and every order, and about GroupAndPlace.  What the grouping       *)
(* (DepthGroupProofs) and the placing keep, they keep together, so that    *)
(* the caller's nodes end in the stable order by depth.                    *)
(***************************************************************************)
EXTENDS GroupAndPlace, FiniteSets, Functions, TLAPS, FiniteSetTheorems

-----------------------------------------------------------------------------
(* The nodes are placed: InPlaceSort.                                       *)

\* A permutation reaches every position.
LEMMA PermutationIsOnto ==
  ASSUME NEW n \in Nat, NEW p \in Permutations(n), NEW j \in 0 .. n - 1
  PROVE  \E i \in 0 .. n - 1 : p[i] = j
<1> DEFINE P == 0 .. n - 1
<1>1. IsFiniteSet(P)
  BY FS_Interval
<1>2. p \in Injection(P, P)
  BY DEF Permutations, Injection, IsInjective
<1>3. p \in Surjection(P, P)
  BY <1>1, <1>2, FS_Injection
<1>. QED  BY <1>3 DEF Surjection

\* Exchanging two entries of a permutation gives a permutation.
LEMMA ExchangePermutes ==
  ASSUME NEW n \in Nat, NEW p \in Permutations(n), NEW i \in 0 .. n - 1, NEW j \in 0 .. n - 1
  PROVE  Exchange(p, i, j) \in Permutations(n)
<1> DEFINE P == 0 .. n - 1
<1>1. p \in [P -> P] /\ i \in P /\ j \in P /\ \A a, b \in P : p[a] = p[b] => a = b
  BY DEF Permutations
<1>2. \A k \in P : Exchange(p, i, j)[k] = IF k = j THEN p[i] ELSE IF k = i THEN p[j] ELSE p[k]
  BY <1>1 DEF Exchange
<1>3. Exchange(p, i, j) \in [P -> P]
  BY <1>1 DEF Exchange
<1> HIDE DEF P
<1>4. \A a, b \in P : Exchange(p, i, j)[a] = Exchange(p, i, j)[b] => a = b
  BY <1>1, <1>2
<1>. QED  BY <1>3, <1>4 DEF Permutations, P

\* The identity is a permutation; a function inverse to a permutation is one.
LEMMA IdentityPermutes == ASSUME NEW n \in Nat PROVE Identity(n) \in Permutations(n)
BY DEF Identity, Permutations

LEMMA InversePermutes ==
  ASSUME NEW n \in Nat, NEW p \in Permutations(n), NEW q \in [0 .. n - 1 -> 0 .. n - 1],
         \A k \in 0 .. n - 1 : q[p[k]] = k
  PROVE  q \in Permutations(n) /\ \A i \in 0 .. n - 1 : p[q[i]] = i
<1> DEFINE P == 0 .. n - 1
<1>1. \A i \in P : \E k \in P : p[k] = i
  BY PermutationIsOnto
<1>2. p \in [P -> P]
  BY DEF Permutations
<1> HIDE DEF P
<1>3. \A i \in P : p[q[i]] = i
  BY <1>1, <1>2 DEF P
<1>4. \A i, j \in P : q[i] = q[j] => i = j
  BY <1>3
<1>. QED  BY <1>3, <1>4 DEF Permutations, P

-----------------------------------------------------------------------------

\* The inductive invariant: while destination is filled, it is the inverse of
\* the order on the entries read so far; while nodes are placed, it follows
\* them, and the positions before index are settled.
PlacingInv ==
  /\ TypeOK
  /\ NodesAreKept
  /\ pc \in {"entry", "fill", "throw"} => nodes = Identity(size)
  /\ pc = "entry" => order = Identity(size)
  /\ pc = "fill" => \A k \in Positions : k < index => destination[order[k]] = k
  /\ DestinationsFollowNodes
  /\ pc = "place" => /\ destination \in Permutations(size)
                     /\ \A i \in Positions : i < index => destination[i] = i
  /\ PlacedInOrder

LEMMA InitPlacingInv == Init => PlacingInv
<1> SUFFICES ASSUME Init PROVE PlacingInv
  OBVIOUS
<1>1. size \in Nat /\ Identity(size) \in Permutations(size)
  BY SizesAssumption, IdentityPermutes DEF Init
<1>2. [i \in Positions |-> 0] \in [Positions -> Positions]
  BY <1>1 DEF Positions
<1>3. Identity(size) \in [Positions -> Positions]
  BY DEF Identity, Positions
<1>. QED  BY <1>1, <1>2, <1>3 DEF Init, PlacingInv, TypeOK, NodesAreKept,
          DestinationsFollowNodes, PlacedInOrder

LEMMA SwapKeepsPlacingInv ==
  ASSUME PlacingInv, Swap
  PROVE  PlacingInv'
<1> DEFINE target == destination[index]
<1>1. /\ pc = "place" /\ pc' = "place" /\ index' = index /\ order' = order /\ size' = size
      /\ target # index /\ index < size
      /\ nodes' = Exchange(nodes, index, target)
      /\ destination' = Exchange(destination, index, target)
  BY DEF Swap, SwappedDestinations, TargetOf
<1>2. /\ nodes \in Permutations(size) /\ destination \in Permutations(size)
      /\ order \in Permutations(size) /\ size \in Sizes /\ size \in Nat /\ index \in 0 .. size
      /\ \A i \in Positions : order[destination[i]] = nodes[i]
      /\ \A i \in Positions : i < index => destination[i] = i
  BY <1>1, SizesAssumption DEF PlacingInv, TypeOK, NodesAreKept, DestinationsFollowNodes
<1>3. /\ index \in Positions /\ target \in Positions
      /\ nodes \in [Positions -> Positions] /\ destination \in [Positions -> Positions]
  <2>1. nodes \in [Positions -> Positions] /\ destination \in [Positions -> Positions]
    BY <1>2 DEF Permutations, Positions
  <2>2. index \in Positions
    BY <1>1, <1>2 DEF Positions
  <2>. QED  BY <2>1, <2>2
<1>4. nodes' \in Permutations(size) /\ destination' \in Permutations(size)
  BY <1>1, <1>2, <1>3, ExchangePermutes DEF Positions
<1>5. \A i \in Positions :
        /\ destination'[i] = IF i = target THEN target
                             ELSE IF i = index THEN destination[target] ELSE destination[i]
        /\ nodes'[i] = IF i = target THEN nodes[index]
                       ELSE IF i = index THEN nodes[target] ELSE nodes[i]
  BY <1>1, <1>3 DEF Exchange
<1>6. \A i \in Positions : order[destination'[i]] = nodes'[i]
  BY <1>2, <1>3, <1>5
<1>7. \A i \in Positions : i < index => destination'[i] = i
  BY <1>2, <1>3, <1>5
<1>8. nodes' \in [Positions -> Positions] /\ destination' \in [Positions -> Positions]
  BY <1>4 DEF Permutations, Positions
<1>. QED
  BY <1>1, <1>2, <1>4, <1>6, <1>7, <1>8 DEF PlacingInv, TypeOK, NodesAreKept,
     DestinationsFollowNodes, PlacedInOrder, Positions

LEMMA BeginKeepsPlacingInv ==
  ASSUME PlacingInv, BeginPlacing
  PROVE  PlacingInv'
<1>1. /\ pc = "fill" /\ pc' = "place" /\ index >= size /\ index' = 0
      /\ UNCHANGED <<size, nodes, order, destination>>
  BY DEF BeginPlacing
<1>2. /\ size \in Sizes /\ size \in Nat /\ index \in 0 .. size
      /\ nodes = Identity(size) /\ nodes \in Permutations(size) /\ order \in Permutations(size)
      /\ nodes \in [Positions -> Positions] /\ destination \in [Positions -> Positions]
      /\ \A k \in Positions : k < index => destination[order[k]] = k
  BY <1>1, SizesAssumption DEF PlacingInv, TypeOK, NodesAreKept
<1>3. \A k \in 0 .. size - 1 : destination[order[k]] = k
  BY <1>1, <1>2 DEF Positions
<1>4. /\ destination \in Permutations(size)
      /\ \A i \in 0 .. size - 1 : order[destination[i]] = i
  <2>1. destination \in [0 .. size - 1 -> 0 .. size - 1]
    BY <1>2 DEF Positions
  <2>2. size \in Nat /\ order \in Permutations(size)
    BY <1>2
  <2>. QED  BY <1>3, <2>1, <2>2, InversePermutes, Zenon
<1>5. \A i \in Positions : order[destination[i]] = nodes[i]
  BY <1>2, <1>4 DEF Identity, Positions
<1>6. index' \in 0 .. size /\ \A i \in Positions : ~(i < index')
  BY <1>1, <1>2 DEF Positions
<1>. QED
  BY <1>1, <1>2, <1>4, <1>5, <1>6 DEF PlacingInv, TypeOK, NodesAreKept, DestinationsFollowNodes,
     PlacedInOrder, Positions

\* The steps that swap nothing.
LEMMA OtherStepsKeepPlacingInv ==
  ASSUME PlacingInv,
         ReturnEarly \/ OrderThrows \/ OrderComputed \/ FillDestination \/ Advance \/ Finish
  PROVE  PlacingInv'
<1>1. /\ size' = size /\ nodes' = nodes /\ size \in Sizes /\ size \in Nat
      /\ nodes \in [Positions -> Positions] /\ nodes \in Permutations(size)
      /\ order \in Permutations(size) /\ order \in [Positions -> Positions]
      /\ destination \in [Positions -> Positions] /\ index \in 0 .. size
      /\ Positions' = Positions
  BY SizesAssumption DEF ReturnEarly, OrderThrows, OrderComputed, FillDestination, Advance, Finish,
     PlacingInv, TypeOK, NodesAreKept, Permutations, Positions
<1> USE DEF PlacingInv, TypeOK, NodesAreKept, DestinationsFollowNodes, PlacedInOrder
<1>2. CASE ReturnEarly \/ OrderThrows
  BY <1>1, <1>2 DEF ReturnEarly, OrderThrows
<1>3. CASE OrderComputed
  <2>1. [i \in Positions |-> 0] \in [Positions -> Positions] /\ index' \in 0 .. size
        /\ \A k \in Positions : ~(k < index')
    BY <1>1, <1>3 DEF OrderComputed, Positions
  <2>. QED  BY <1>1, <1>3, <2>1 DEF OrderComputed
<1>4. CASE FillDestination
  <2>1. pc = "fill" /\ pc' = "fill" /\ order' = order /\ index \in Positions /\ index' = index + 1
        /\ destination' = [destination EXCEPT ![order[index]] = index]
    BY <1>1, <1>4 DEF FillDestination, WithDestination, Positions
  <2>2. destination' \in [Positions -> Positions] /\ index' \in 0 .. size
    BY <1>1, <2>1 DEF Positions
  <2>3. \A k \in Positions : k < index' => destination'[order[k]] = k
    <3> SUFFICES ASSUME NEW k \in Positions, k < index' PROVE destination'[order[k]] = k
      OBVIOUS
    <3>1. CASE k = index
      BY <3>1, <1>1, <2>1
    <3>2. CASE k # index
      <4>1. k < index
        BY <3>2, <1>1, <2>1 DEF Positions
      <4>2. order[k] # order[index] /\ order[k] \in Positions
        BY <3>2, <1>1, <2>1 DEF Permutations, Positions
      <4>. QED  BY <4>1, <4>2, <1>1, <2>1
    <3>. QED  BY <3>1, <3>2
  <2>. QED  BY <1>1, <2>1, <2>2, <2>3
<1>5. CASE Advance
  <2>1. /\ pc = "place" /\ pc' = "place" /\ UNCHANGED <<order, destination>>
        /\ index' \in 0 .. size /\ destination[index] = index /\ index' = index + 1
    BY <1>1, <1>5 DEF Advance, NextPosition
  <2>2. \A i \in Positions : i < index' => destination[i] = i
    <3> SUFFICES ASSUME NEW i \in Positions, i < index' PROVE destination[i] = i
      OBVIOUS
    <3>1. i < index \/ i = index
      BY <1>1, <2>1 DEF Positions
    <3>. QED  BY <3>1, <2>1
  <2>. QED  BY <1>1, <2>1, <2>2
<1>6. CASE Finish
  <2>1. \A i \in Positions : nodes[i] = order[i]
    BY <1>1, <1>6 DEF Finish, Positions
  <2>2. nodes = order
    BY <1>1, <2>1
  <2>. QED  BY <1>1, <1>6, <2>2 DEF Finish
<1>. QED  BY <1>2, <1>3, <1>4, <1>5, <1>6

LEMMA NextKeepsPlacingInv == PlacingInv /\ [Next]_vars => PlacingInv'
<1>1. ASSUME PlacingInv, UNCHANGED vars PROVE PlacingInv'
  BY <1>1 DEF vars, PlacingInv, TypeOK, NodesAreKept, DestinationsFollowNodes, PlacedInOrder, Positions
<1>. QED
  BY <1>1, SwapKeepsPlacingInv, BeginKeepsPlacingInv, OtherStepsKeepPlacingInv
  DEF Next, Step, Returned

LEMMA PlacingInvCorrect == Spec => []PlacingInv
BY InitPlacingInv, NextKeepsPlacingInv, PTL DEF Spec

\* destination as sortInPlaceByDepthAndId means it, once it is filled: where
\* each node must go, so no two of them to one place.
DestinationsPermute == pc = "place" => destination \in Permutations(size)

\* The swaps keep nodes and destination permutations, each following the other,
\* and the index inside the vectors.
THEOREM TypeCorrect ==
  Spec => [](TypeOK /\ NodesAreKept /\ DestinationsPermute /\ DestinationsFollowNodes)
<1>1. PlacingInv => TypeOK /\ NodesAreKept /\ DestinationsPermute /\ DestinationsFollowNodes
  BY DEF PlacingInv, DestinationsPermute
<1>. QED  BY <1>1, PlacingInvCorrect, PTL

\* No node is lost or duplicated at any step of the swaps.
THEOREM NoNodeIsLost == Spec => []NodesAreKept
<1>1. PlacingInv => NodesAreKept
  BY DEF PlacingInv
<1>. QED  BY <1>1, PlacingInvCorrect, PTL

\* On return the nodes are in the computed order.
THEOREM ResultIsInOrder == Spec => []PlacedInOrder
<1>1. PlacingInv => PlacedInOrder
  BY DEF PlacingInv
<1>. QED  BY <1>1, PlacingInvCorrect, PTL

\* No swap disturbs a node that is at its destination.
THEOREM SettledStaySettled == Spec => SettledNodesStay
<1>1. PlacingInv /\ [Next]_vars =>
        [pc = "place" => \A i \in Positions : destination[i] = i =>
           nodes'[i] = nodes[i] /\ destination'[i] = i]_vars
  <2> SUFFICES ASSUME PlacingInv, Next, pc = "place", NEW i \in Positions, destination[i] = i
               PROVE  nodes'[i] = nodes[i] /\ destination'[i] = i
    OBVIOUS
  <2>1. CASE Swap
    <3>1. /\ destination \in Permutations(size) /\ nodes \in Permutations(size)
          /\ size \in Nat /\ index \in 0 .. size /\ index < size
      BY <2>1, SizesAssumption DEF PlacingInv, TypeOK, NodesAreKept, Swap, TargetOf
    <3>2. /\ index \in Positions /\ destination[index] \in Positions
          /\ nodes \in [Positions -> Positions] /\ destination \in [Positions -> Positions]
      <4>1. nodes \in [Positions -> Positions] /\ destination \in [Positions -> Positions]
        BY <3>1 DEF Permutations, Positions
      <4>2. index \in Positions
        BY <3>1 DEF Positions
      <4>. QED  BY <4>1, <4>2
    <3>3. i # index /\ i # destination[index]
      BY <2>1, <3>1, <3>2 DEF Swap, TargetOf, Permutations, Positions
    <3>. QED  BY <2>1, <3>2, <3>3 DEF Swap, TargetOf, Exchange, SwappedDestinations
  <2>2. CASE ~Swap
    BY <2>2 DEF Next, Step, Returned, ReturnEarly, OrderThrows, OrderComputed, FillDestination,
       BeginPlacing, Advance, Finish, vars
  <2>. QED  BY <2>1, <2>2
<1>. QED  BY <1>1, PlacingInvCorrect, PTL DEF Spec, SettledNodesStay

-----------------------------------------------------------------------------
(* The grouping that GroupAndPlace steps through is the one DepthGroupProofs *)
(* is about: both are instances of DepthGroup.                               *)

\* The grouping of a sort, with what is proved about it.
Proved == INSTANCE DepthGroupProofs WITH pc <- groupPc, order <- grouped

LEMMA SameOperators ==
  /\ Group!Positions = Proved!Positions /\ Group!Nodes = Proved!Nodes
  /\ Group!Permutations = Proved!Permutations
  /\ Group!ObservedMax = Proved!ObservedMax
  /\ Group!RadixPower = Proved!RadixPower
  /\ Group!PrefixBytes = Proved!PrefixBytes
  /\ (Group!UsesDense <=> Proved!UsesDense)
  /\ (Group!ConstantsAssumed <=> Proved!ConstantsAssumed)
  /\ \A n, digit : Group!DigitOf(n, digit) = Proved!DigitOf(n, digit)
  /\ \A m, n : Group!CameBefore(m, n) <=> Proved!CameBefore(m, n)
  /\ \A range : Group!PositionsOf(range) = Proved!PositionsOf(range)
<1>1. Group!Positions = Proved!Positions
  BY DEF Group!Positions, Proved!Positions
<1>2. Group!Nodes = Proved!Nodes
  BY <1>1 DEF Group!Nodes, Proved!Nodes
<1>3. Group!Permutations = Proved!Permutations
  BY <1>1, <1>2 DEF Group!Permutations, Proved!Permutations
<1>4. Group!RadixPower = Proved!RadixPower
  BY DEF Group!RadixPower, Proved!RadixPower
<1>5. \A bytes : Group!MaxDepthForPrefix(bytes) = Proved!MaxDepthForPrefix(bytes)
  BY <1>4 DEF Group!MaxDepthForPrefix, Proved!MaxDepthForPrefix
<1>6. Group!ConstantsAssumed <=> Proved!ConstantsAssumed
  BY <1>5 DEF Group!ConstantsAssumed, Proved!ConstantsAssumed
<1>7. Group!ObservedMax = Proved!ObservedMax
  BY <1>2 DEF Group!ObservedMax, Proved!ObservedMax
<1>8. Group!PrefixBytes = Proved!PrefixBytes
  BY <1>5, <1>7 DEF Group!PrefixBytes, Proved!PrefixBytes, Group!PrefixBytesForMax, Proved!PrefixBytesForMax
<1>9. Group!UsesDense <=> Proved!UsesDense
  BY <1>7 DEF Group!UsesDense, Proved!UsesDense
<1>10. \A n, digit : Group!DigitOf(n, digit) = Proved!DigitOf(n, digit)
  BY <1>4, <1>8 DEF Group!DigitOf, Proved!DigitOf, Group!MsbFirst, Proved!MsbFirst
<1>11. \A m, n : Group!CameBefore(m, n) <=> Proved!CameBefore(m, n)
  BY <1>1 DEF Group!CameBefore, Proved!CameBefore
<1>12. \A range : Group!PositionsOf(range) = Proved!PositionsOf(range)
  BY DEF Group!PositionsOf, Proved!PositionsOf
<1> QED
  BY <1>1, <1>2, <1>3, <1>4, <1>6, <1>7, <1>8, <1>9, <1>10, <1>11, <1>12

LEMMA SameInit ==
  ASSUME Group!Init
  PROVE  Proved!Init /\ Proved!ConstantsAssumed
BY GroupAssumption, SameOperators DEF Group!Init, Proved!Init

LEMMA SameDense ==
  ASSUME Group!DenseStep
  PROVE  Proved!DenseStep
BY SameOperators DEF Group!DenseStep, Proved!DenseStep,
   Group!BeginDense, Proved!BeginDense, Group!CountNode, Proved!CountNode,
   Group!BeginPrefix, Proved!BeginPrefix, Group!PrefixDepth, Proved!PrefixDepth,
   Group!StartBefore, Proved!StartBefore, Group!BeginScatter, Proved!BeginScatter,
   Group!ScatterNode, Proved!ScatterNode, Group!NextPosition, Proved!NextPosition,
   Group!SwapScratch, Proved!SwapScratch, Group!TellDepth, Proved!TellDepth,
   Group!AllTold, Proved!AllTold, Group!inputs, Proved!inputs

LEMMA SameCardinality == \A S : Group!Cardinality(S) = Proved!Cardinality(S)
<1>1. \A S : Group!IsFiniteSet(S) <=> Proved!IsFiniteSet(S)
  BY DEF Group!IsFiniteSet, Proved!IsFiniteSet
<1> QED
  BY <1>1 DEF Group!Cardinality, Proved!Cardinality

LEMMA SamePartition ==
  /\ Group!Top = Proved!Top /\ Group!Popped = Proved!Popped
  /\ \A range : Group!IsFinished(range) <=> Proved!IsFinished(range)
  /\ \A range : Group!Partitioned(range) = Proved!Partitioned(range)
  /\ \A range : Group!BucketRanges(range) = Proved!BucketRanges(range)
<1>1. Group!Top = Proved!Top /\ Group!Popped = Proved!Popped
  BY DEF Group!Top, Proved!Top, Group!Popped, Proved!Popped
<1>2. \A range : Group!IsFinished(range) <=> Proved!IsFinished(range)
  BY SameOperators DEF Group!IsFinished, Proved!IsFinished
<1>3. \A i, j, digit : Group!Precedes(i, j, digit) <=> Proved!Precedes(i, j, digit)
  BY SameOperators DEF Group!Precedes, Proved!Precedes
<1>4. \A range, i : Group!Target(range, i) = Proved!Target(range, i)
  BY <1>3, SameOperators, SameCardinality DEF Group!Target, Proved!Target
<1>5. \A range : Group!Partitioned(range) = Proved!Partitioned(range)
  <2>1. \A range, p :
          (CHOOSE i \in Group!PositionsOf(range) : Group!Target(range, i) = p)
            = (CHOOSE i \in Proved!PositionsOf(range) : Proved!Target(range, i) = p)
    <3>1. \A range : Group!PositionsOf(range) = Proved!PositionsOf(range)
      BY SameOperators
    <3> QED
      BY <1>4, <3>1, Zenon
  <2>2. /\ Group!Positions = Proved!Positions
        /\ \A range : Group!PositionsOf(range) = Proved!PositionsOf(range)
    BY SameOperators
  <2>3. ASSUME NEW range, NEW p \in Group!Positions
        PROVE  Group!Partitioned(range)[p] = Proved!Partitioned(range)[p]
    <3> DEFINE a == CHOOSE i \in Group!PositionsOf(range) : Group!Target(range, i) = p
               b == CHOOSE i \in Proved!PositionsOf(range) : Proved!Target(range, i) = p
    <3>1. a = b
      BY <2>1
    <3>2. Group!Partitioned(range)[p] = IF p \in Group!PositionsOf(range) THEN grouped[a] ELSE grouped[p]
      BY DEF Group!Partitioned
    <3>3. Proved!Partitioned(range)[p] = IF p \in Proved!PositionsOf(range) THEN grouped[b] ELSE grouped[p]
      BY <2>2 DEF Proved!Partitioned
    <3> HIDE DEF a, b
    <3> QED
      BY <2>2, <3>1, <3>2, <3>3
  <2>4. \A range : Group!Partitioned(range) = [p \in Group!Positions |-> Group!Partitioned(range)[p]]
    BY DEF Group!Partitioned
  <2>5. \A range : Proved!Partitioned(range) = [p \in Group!Positions |-> Proved!Partitioned(range)[p]]
    BY <2>2 DEF Proved!Partitioned
  <2> QED
    BY <2>3, <2>4, <2>5
<1>6. \A range, d : Group!BucketStart(range, d) = Proved!BucketStart(range, d)
  BY SameOperators, SameCardinality DEF Group!BucketStart, Proved!BucketStart
<1>7. \A range, d : Group!BucketRange(range, d) = Proved!BucketRange(range, d)
  BY <1>6 DEF Group!BucketRange, Proved!BucketRange
<1>8. \A range : Group!DigitsIn(range) = Proved!DigitsIn(range)
  BY SameOperators DEF Group!DigitsIn, Proved!DigitsIn
<1>9. \A digits, d : Group!Above(digits, d) = Proved!Above(digits, d)
  BY DEF Group!Above, Proved!Above
<1>10. \A range : Group!BucketRanges(range) = Proved!BucketRanges(range)
  <2>1. \A D, E, k : D = E =>
          (CHOOSE d \in D : Group!Cardinality(Group!Above(D, d)) = k - 1)
            = (CHOOSE d \in E : Proved!Cardinality(Proved!Above(E, d)) = k - 1)
    BY <1>9, SameCardinality, Zenon
  <2>2. ASSUME NEW range
        PROVE  Group!BucketRanges(range) = Proved!BucketRanges(range)
    <3> DEFINE D == Group!DigitsIn(range)
               a(k) == CHOOSE d \in D : Group!Cardinality(Group!Above(D, d)) = k - 1
               E == Proved!DigitsIn(range)
               b(k) == CHOOSE d \in E : Proved!Cardinality(Proved!Above(E, d)) = k - 1
    <3>1. D = E /\ \A k : a(k) = b(k)
      BY <1>8, <2>1
    <3>2. Group!BucketRanges(range) = [k \in 1 .. Group!Cardinality(D) |-> Group!BucketRange(range, a(k))]
      BY DEF Group!BucketRanges
    <3>3. Proved!BucketRanges(range) = [k \in 1 .. Proved!Cardinality(E) |-> Proved!BucketRange(range, b(k))]
      BY DEF Proved!BucketRanges
    <3> HIDE DEF D, E, a, b
    <3> QED
      BY <1>7, <3>1, <3>2, <3>3, SameCardinality
  <2> QED
    BY <2>2
<1> QED
  BY <1>1, <1>2, <1>5, <1>10

LEMMA SameMsd ==
  ASSUME Group!MsdStep
  PROVE  Proved!MsdStep
BY SameOperators, SamePartition DEF Group!MsdStep, Proved!MsdStep,
   Group!BeginMsd, Proved!BeginMsd, Group!RangeDone, Proved!RangeDone,
   Group!PartitionRange, Proved!PartitionRange, Group!AllPartitioned, Proved!AllPartitioned,
   Group!inputs, Proved!inputs

LEMMA SameStep ==
  ASSUME Group!Step
  PROVE  Proved!Step
<1>1. Group!ReturnEarly => Proved!ReturnEarly
  BY DEF Group!ReturnEarly, Proved!ReturnEarly, Group!inputs, Proved!inputs
<1> QED
  BY <1>1, SameDense, SameMsd DEF Group!Step, Proved!Step

\* What the invariant of the grouping says, said of the grouping of the sort.
LEMMA SameProperties ==
  ASSUME Proved!GroupInv
  PROVE  /\ Group!NodesAreKept /\ Group!RangesAreSeparated
         /\ Group!RangesTileTheOrder /\ Group!ResultIsStable
<1>1. /\ Proved!NodesAreKept /\ Proved!RangesAreSeparated
      /\ Proved!RangesTileTheOrder /\ Proved!ResultIsStable
  BY Proved!GroupInvCorrect
<1>2. Group!NodesAreKept
  BY <1>1, SameOperators DEF Group!NodesAreKept, Proved!NodesAreKept
<1>3. Group!RangesAreSeparated
  BY <1>1, SameOperators DEF Group!RangesAreSeparated, Proved!RangesAreSeparated
<1>4. Group!RangesTileTheOrder
  BY <1>1, SameOperators DEF Group!RangesTileTheOrder, Proved!RangesTileTheOrder
<1>5. Group!ResultIsStable
  BY <1>1, SameOperators DEF Group!ResultIsStable, Proved!ResultIsStable
<1> QED
  BY <1>2, <1>3, <1>4, <1>5

-----------------------------------------------------------------------------
(* The whole sort.                                                          *)

\* The inductive invariant: the two halves keep theirs, and nodes are placed
\* only in an order that the grouping has finished.
SortInv ==
  /\ PlacingInv /\ Proved!GroupInv
  /\ pc \in {"fill", "place"} \/ (pc = "done" /\ size > 1) =>
       groupPc = "done" /\ order = grouped

LEMMA InitSortInv == GroupedInit => SortInv
<1> SUFFICES ASSUME GroupedInit PROVE SortInv
  OBVIOUS
<1>1. PlacingInv /\ pc = "entry"
  BY InitPlacingInv DEF GroupedInit, Init
<1>2. Proved!GroupInv
  BY SameInit, Proved!InitGroupInv DEF GroupedInit
<1> QED
  BY <1>1, <1>2 DEF SortInv

LEMMA NextKeepsSortInv == SortInv /\ [SortStep \/ SortReturned]_allVars => SortInv'
<1> SUFFICES ASSUME SortInv, [SortStep \/ SortReturned]_allVars PROVE SortInv'
  OBVIOUS
<1>1. CASE GroupStep
  <2>1. Proved!GroupInv'
    BY <1>1, SameStep, Proved!NextKeepsGroupInv DEF GroupStep, SortInv, Proved!Next
  <2>2. PlacingInv' /\ pc' = "entry"
    BY <1>1, NextKeepsPlacingInv DEF GroupStep, SortInv, vars
  <2> QED
    BY <2>1, <2>2 DEF SortInv
<1>2. ASSUME UNCHANGED groupVars
      PROVE  Proved!GroupInv' \/ size' # size
  <2> SUFFICES ASSUME size' = size PROVE Proved!GroupInv'
    OBVIOUS
  <2>1. UNCHANGED Proved!vars
    BY <1>2 DEF groupVars, Proved!vars, Proved!inputs
  <2> QED
    BY <2>1, Proved!NextKeepsGroupInv DEF SortInv
<1>3. CASE TakeOrder
  <2>1. PlacingInv' /\ size' = size /\ order' = grouped /\ groupPc' = "done" /\ grouped' = grouped
    BY <1>3, NextKeepsPlacingInv DEF TakeOrder, SortInv, Next, Step, OrderComputed, groupVars
  <2>2. Proved!GroupInv'
    BY <1>2, <1>3, <2>1 DEF TakeOrder
  <2> QED
    BY <2>1, <2>2 DEF SortInv
<1>4. CASE FirstHalfThrows \/ NothingToPlace
  <2>1. PlacingInv' /\ size' = size
    BY <1>4, NextKeepsPlacingInv
    DEF FirstHalfThrows, NothingToPlace, SortInv, Next, Step, OrderThrows, ReturnEarly
  <2>2. Proved!GroupInv'
    BY <1>2, <1>4, <2>1 DEF FirstHalfThrows, NothingToPlace
  <2>3. pc' = "throw" \/ (pc' = "done" /\ ~(size' > 1))
    BY <1>4, <2>1, SizesAssumption
    DEF FirstHalfThrows, NothingToPlace, OrderThrows, ReturnEarly, SortInv, PlacingInv, TypeOK
  <2> QED
    BY <2>1, <2>2, <2>3 DEF SortInv
<1>5. CASE PlaceStep
  <2>1. /\ PlacingInv' /\ size' = size /\ order' = order /\ pc \in {"fill", "place"}
        /\ groupPc' = groupPc /\ grouped' = grouped
    BY <1>5, NextKeepsPlacingInv
    DEF PlaceStep, SortInv, Next, Step, FillDestination, BeginPlacing, Swap, Advance, Finish, groupVars
  <2>2. Proved!GroupInv'
    BY <1>2, <1>5, <2>1 DEF PlaceStep
  <2> QED
    BY <2>1, <2>2 DEF SortInv
<1>6. CASE UNCHANGED allVars
  <2>1. UNCHANGED vars /\ UNCHANGED groupVars
    BY <1>6 DEF allVars
  <2>2. /\ PlacingInv' /\ size' = size /\ order' = order /\ pc' = pc
        /\ groupPc' = groupPc /\ grouped' = grouped
    BY <2>1, NextKeepsPlacingInv DEF SortInv, vars, groupVars
  <2>3. Proved!GroupInv'
    BY <1>2, <2>1, <2>2
  <2> QED
    BY <2>2, <2>3 DEF SortInv
<1> QED
  BY <1>1, <1>3, <1>4, <1>5, <1>6 DEF SortStep, SortReturned

LEMMA SortInvCorrect == SortSpec => []SortInv
BY InitSortInv, NextKeepsSortInv, PTL DEF SortSpec

\* The nodes are in the order that the grouping returned.
LEMMA EndsInGroupedOrder ==
  ASSUME SortInv, pc = "done", size > 1
  PROVE  nodes = grouped /\ groupPc = "done"
BY DEF SortInv, PlacingInv, PlacedInOrder

\* No partition and no scatter loses or duplicates a node.
THEOREM GroupingKeepsNodes == SortSpec => []GroupKeepsNodes
<1>1. SortInv => GroupKeepsNodes
  BY SameProperties DEF SortInv, GroupKeepsNodes
<1> QED
  BY <1>1, SortInvCorrect, PTL

\* The ranges on the stack are all that is out of order.
THEOREM StackHoldsTheRest == SortSpec => []RangesAreSeparated
<1>1. SortInv => RangesAreSeparated
  BY SameProperties DEF SortInv, RangesAreSeparated
<1> QED
  BY <1>1, SortInvCorrect, PTL

\* The consumer is told of every depth once, in order, and when it is final.
THEOREM ConsumerSeesEveryDepth == SortSpec => []RangesTileTheOrder
<1>1. SortInv => RangesTileTheOrder
  BY SameProperties DEF SortInv, RangesTileTheOrder
<1> QED
  BY <1>1, SortInvCorrect, PTL

\* The grouping returns the stable order by depth, dense or byte by byte.
THEOREM GroupingIsStable == SortSpec => []ResultIsStable
<1>1. SortInv => ResultIsStable
  BY SameProperties DEF SortInv, ResultIsStable
<1> QED
  BY <1>1, SortInvCorrect, PTL

\* The caller's nodes end in the stable order by depth.
THEOREM NodesEndGrouped == SortSpec => []EndsGrouped
<1>1. SortInv => EndsGrouped
  <2> SUFFICES ASSUME SortInv, pc = "done", size > 1, NEW i \in Positions, NEW j \in Positions, i < j
               PROVE  \/ depths[nodes[i]] < depths[nodes[j]]
                      \/ depths[nodes[i]] = depths[nodes[j]] /\ Group!CameBefore(nodes[i], nodes[j])
    BY DEF EndsGrouped
  <2>1. nodes = grouped /\ groupPc = "done"
    BY EndsInGroupedOrder
  <2>2. Group!ResultIsStable
    BY SameProperties DEF SortInv
  <2>3. i \in Group!Positions /\ j \in Group!Positions
    BY DEF Positions, Group!Positions
  <2> QED
    BY <2>1, <2>2, <2>3 DEF Group!ResultIsStable
<1> QED
  BY <1>1, SortInvCorrect, PTL

\* A whole sort places its nodes as InPlaceSort does, in the order of the
\* grouping: what is proved of the placing holds in a whole sort.
THEOREM SortPlacesNodes == SortSpec => Spec
<1>1. GroupedInit => Init
  BY DEF GroupedInit
<1>2. [SortStep \/ SortReturned]_allVars => [Next]_vars
  BY DEF SortStep, SortReturned, FirstHalfThrows, NothingToPlace, GroupStep, TakeOrder, PlaceStep,
     allVars, Next, Step
<1> QED
  BY <1>1, <1>2, PTL DEF SortSpec, Spec

\* Every property proved of the placing, in a whole sort.
THEOREM SortKeepsNodes ==
  SortSpec => /\ []NodesAreKept
              /\ []PlacedInOrder
              /\ SettledNodesStay
BY SortPlacesNodes, NoNodeIsLost, ResultIsInOrder, SettledStaySettled, PTL
=============================================================================
