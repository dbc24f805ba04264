---------------------------- MODULE InPlaceSort ----------------------------
(***************************************************************************)
(* sortInPlaceByDepthAndId (algorithms.hpp): the caller's nodes are moved  *)
(* into the computed order with swaps only.  The order says which node     *)
(* goes to each position; its inverse, destination, says where the node at *)
(* each position goes, and every swap sends one node to its destination.   *)
(***************************************************************************)
EXTENDS Naturals

CONSTANT Sizes   \* the sizes nodes may have

ASSUME SizesAssumption == Sizes \subseteq Nat

\* The permutations of n positions, each the position taken from for every one.
Permutations(n) == {p \in [0 .. n - 1 -> 0 .. n - 1] :
                      \A i, j \in 0 .. n - 1 : p[i] = p[j] => i = j}

Identity(n) == [i \in 0 .. n - 1 |-> i]

VARIABLES
  size,         \* nodes.size()
  pc,           \* "entry", "fill", "place", "done" or "throw"
  nodes,        \* the original position of the node now at each position
  order,        \* sortedOrderByDepthAndId(nodes, traits)
  destination,  \* the final position of the node at each position
  index         \* the loop counter of the loop that runs

vars == <<size, pc, nodes, order, destination, index>>

Positions == 0 .. size - 1

-----------------------------------------------------------------------------

Init ==
  /\ size \in Sizes
  /\ pc = "entry"
  /\ nodes = Identity(size)
  /\ order = Identity(size)
  /\ destination = [i \in Positions |-> 0]
  /\ index = 0

\* Nothing to sort; nothing is checked either.
ReturnEarly ==
  /\ pc = "entry" /\ size <= 1
  /\ pc' = "done"
  /\ UNCHANGED <<size, nodes, order, destination, index>>

\* sortedOrderByDepthAndId throws: the nodes are still where they were.
OrderThrows ==
  /\ pc = "entry" /\ size > 1
  /\ pc' = "throw"
  /\ UNCHANGED <<size, nodes, order, destination, index>>

\* sortedOrderByDepthAndId returns a permutation of the node indexes, and
\* destination is allocated.
OrderComputed ==
  /\ pc = "entry" /\ size > 1
  /\ order' \in Permutations(size)
  /\ destination' = [i \in Positions |-> 0]
  /\ index' = 0
  /\ pc' = "fill"
  /\ UNCHANGED <<size, nodes>>

\* destination with one entry more, and the entry of the inverse direction.
WithOrderEntry(k) == [destination EXCEPT ![k] = order[k]]
WithDestination(k) == [destination EXCEPT ![order[k]] = k]

FillDestination ==
  /\ pc = "fill" /\ index < size
  /\ destination' = WithDestination(index)
  /\ index' = index + 1
  /\ UNCHANGED <<size, pc, nodes, order>>

BeginPlacing ==
  /\ pc = "fill" /\ index >= size
  /\ index' = 0
  /\ pc' = "place"
  /\ UNCHANGED <<size, nodes, order, destination>>

\* std::swap of two elements, and a move that leaves the source as it was.
MovedOnly(f, i, j) == [f EXCEPT ![j] = f[i]]
Exchange(f, i, j) == [f EXCEPT ![i] = f[j], ![j] = f[i]]

\* The destinations after a swap, and the mistake of not swapping them too.
KeptDestinations(i, j) == destination
SwappedDestinations(i, j) == Exchange(destination, i, j)

\* Where the node at position i goes, and where the order took position i from.
TakenFrom(i) == order[i]
TargetOf(i) == destination[i]

\* The node at index goes to its destination; the one that was there comes
\* to index, and so do their destinations.
Swap ==
  /\ pc = "place" /\ index < size
  /\ destination[index] # index
  /\ LET target == TargetOf(index)
     IN  /\ nodes' = Exchange(nodes, index, target)
         /\ destination' = SwappedDestinations(index, target)
  /\ UNCHANGED <<size, pc, order, index>>

\* The position after index.
NextPosition(i) == i + 1

Advance ==
  /\ pc = "place" /\ index < size
  /\ destination[index] = index
  /\ index' = NextPosition(index)
  /\ UNCHANGED <<size, pc, nodes, order, destination>>

Finish ==
  /\ pc = "place" /\ index >= size
  /\ pc' = "done"
  /\ UNCHANGED <<size, nodes, order, destination, index>>

Returned == pc \in {"done", "throw"} /\ UNCHANGED vars

Step ==
  \/ ReturnEarly \/ OrderThrows \/ OrderComputed \/ FillDestination \/ BeginPlacing
  \/ Swap \/ Advance \/ Finish

Next == Step \/ Returned

Spec == Init /\ [][Next]_vars

FairSpec == Spec /\ WF_vars(Step)

-----------------------------------------------------------------------------

\* Positions and counters stay within the vectors.
TypeOK ==
  /\ size \in Sizes
  /\ pc \in {"entry", "fill", "place", "done", "throw"}
  /\ nodes \in [Positions -> Positions]
  /\ order \in Permutations(size)
  /\ destination \in [Positions -> Positions]
  /\ index \in 0 .. size

\* No node is lost or duplicated, at the end or between two swaps: a reader of
\* the container always finds the caller's nodes in some order.
NodesAreKept == nodes \in Permutations(size)

\* While nodes are placed, destination says where the node at each position
\* belongs in the order, for moved and unmoved nodes alike.
DestinationsFollowNodes ==
  pc = "place" => \A i \in Positions : order[destination[i]] = nodes[i]

\* On return the node that the order puts at a position is at that position.
PlacedInOrder ==
  pc = "done" => nodes = order

\* A node at its destination is never moved again: the number of swaps is less
\* than the number of nodes.
SettledNodesStay ==
  [][pc = "place" =>
       \A i \in Positions : destination[i] = i =>
         nodes'[i] = nodes[i] /\ destination'[i] = i]_vars

\* Every cycle of the permutation is walked to its end: the function returns.
Terminates == <>(pc \in {"done", "throw"})
=============================================================================
