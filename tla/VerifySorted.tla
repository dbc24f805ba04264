---------------------------- MODULE VerifySorted ----------------------------
(***************************************************************************)
(* verifySortedByDepthAndId (algorithms.hpp) with verifyWithParentIndex    *)
(* (detail/depth.hpp): is the container in canonical order?  One pass from *)
(* front to back computes each node's depth from its parent's, which must  *)
(* already be known, and compares every node with the one before it.  The  *)
(* full list of depths is never computed and cycles are never looked for:  *)
(* that the pass rejects them is a property, not a step.                   *)
(***************************************************************************)
EXTENDS Naturals

CONSTANTS
  NodeCount,   \* nodes.size()
  Ids,         \* the ids nodes and parents may have
  Sentinels,   \* the ids the traits take for "no parent"
  MaxDepth,    \* maxDepthForPrefix<4>(), the last value a depth holds
  NoParent     \* no_parent

Nodes == 0 .. NodeCount - 1

ASSUME NodeCountAssumption == NodeCount \in Nat
ASSUME IdsAssumption == Ids \subseteq Nat
ASSUME MaxDepthAssumption == MaxDepth \in Nat
ASSUME NoParentAssumption == NoParent \notin Nat

VARIABLES
  id,             \* traits.id of each node, as the caller ordered them
  parentId,       \* traits.parent_id of each node
  pc,             \* "build", "verify" or "done"
  parentIndex,    \* buildParentIndex(nodes, traits)
  nodeIdx,        \* the node the pass looks at
  verifiedDepth,  \* the depths the pass has found
  depthReady,     \* the nodes whose depth is set
  verdict         \* the value returned

inputs == <<id, parentId>>
vars == <<inputs, pc, parentIndex, nodeIdx, verifiedDepth, depthReady, verdict>>

-----------------------------------------------------------------------------

DistinctIds == \A m, n \in Nodes : id[m] = id[n] => m = n

\* What buildParentIndex returns for distinct ids (ParentIndex!JoinIsExact).
ParentOf(n) ==
  IF parentId[n] \notin Sentinels /\ \E m \in Nodes : id[m] = parentId[n]
    THEN CHOOSE m \in Nodes : id[m] = parentId[n]
    ELSE NoParent

Init ==
  /\ id \in [Nodes -> Ids]
  /\ parentId \in [Nodes -> Ids]
  /\ pc = IF NodeCount = 0 THEN "done" ELSE "build"
  /\ parentIndex = [n \in Nodes |-> NoParent]
  /\ nodeIdx = 0
  /\ verifiedDepth = [n \in Nodes |-> 0]
  /\ depthReady = {}
  /\ verdict = TRUE

\* The pass starts with the parent index built.
BuildParentIndex ==
  /\ pc = "build" /\ DistinctIds
  /\ parentIndex' = [n \in Nodes |-> ParentOf(n)]
  /\ pc' = "verify"
  /\ UNCHANGED <<inputs, nodeIdx, verifiedDepth, depthReady, verdict>>

\* buildParentIndex throws on a duplicate id, and the error becomes a verdict.
DuplicateIdCaught ==
  /\ pc = "build" /\ ~DistinctIds
  /\ verdict' = FALSE
  /\ pc' = "done"
  /\ UNCHANGED <<inputs, parentIndex, nodeIdx, verifiedDepth, depthReady>>

HasParent(n) == parentId[n] \notin Sentinels /\ parentIndex[n] # NoParent

\* May node n take a depth from its parent?  The parent must come first and its
\* depth must leave room for one more; the mistake is to forget the former.
IgnoresOrder(n) == verifiedDepth[parentIndex[n]] # MaxDepth
ParentAllows(n) == parentIndex[n] \in depthReady /\ verifiedDepth[parentIndex[n]] # MaxDepth

CurrentDepth(n) == IF HasParent(n) THEN verifiedDepth[parentIndex[n]] + 1 ELSE 0

\* Node n belongs after the node before it; the mistake is to compare ids
\* whatever the depths.
IdOnly(n) == n > 0 => id[n] >= id[n - 1]
InOrder(n) ==
  n > 0 => \/ CurrentDepth(n) > verifiedDepth[n - 1]
           \/ CurrentDepth(n) = verifiedDepth[n - 1] /\ id[n] >= id[n - 1]

NextNode(n) == n + 1

Accept ==
  /\ pc = "verify" /\ nodeIdx < NodeCount
  /\ HasParent(nodeIdx) => ParentAllows(nodeIdx)
  /\ InOrder(nodeIdx)
  /\ verifiedDepth' = [verifiedDepth EXCEPT ![nodeIdx] = CurrentDepth(nodeIdx)]
  /\ depthReady' = depthReady \cup {nodeIdx}
  /\ nodeIdx' = NextNode(nodeIdx)
  /\ UNCHANGED <<inputs, pc, parentIndex, verdict>>

\* return false: the parent comes later, no depth is left, or the order is wrong.
Reject ==
  /\ pc = "verify" /\ nodeIdx < NodeCount
  /\ ~((HasParent(nodeIdx) => ParentAllows(nodeIdx)) /\ InOrder(nodeIdx))
  /\ verdict' = FALSE
  /\ pc' = "done"
  /\ UNCHANGED <<inputs, parentIndex, nodeIdx, verifiedDepth, depthReady>>

AllAccepted ==
  /\ pc = "verify" /\ nodeIdx >= NodeCount
  /\ pc' = "done"
  /\ UNCHANGED <<inputs, parentIndex, nodeIdx, verifiedDepth, depthReady, verdict>>

Returned == pc = "done" /\ UNCHANGED vars

Step == BuildParentIndex \/ DuplicateIdCaught \/ Accept \/ Reject \/ AllAccepted

Next == Step \/ Returned

Spec == Init /\ [][Next]_vars

-----------------------------------------------------------------------------
(* The canonical order, without an algorithm. *)

\* d is the depth of every node: roots are at 0, a child is one below its
\* parent.  There is no such d when the parents form a cycle.
AreDepths(d) ==
  \A n \in Nodes : d[n] = IF ParentOf(n) = NoParent THEN 0 ELSE d[ParentOf(n)] + 1

\* The nodes are ordered by depth, and by id where the depths are equal.
OrderedBy(d) ==
  \A m, n \in Nodes : m < n => d[m] < d[n] \/ (d[m] = d[n] /\ id[m] < id[n])

Canonical ==
  /\ DistinctIds
  /\ \E d \in [Nodes -> 0 .. MaxDepth] : AreDepths(d) /\ OrderedBy(d)

\* The pass stays within its vectors and its depths within their width.
TypeOK ==
  /\ id \in [Nodes -> Ids] /\ parentId \in [Nodes -> Ids]
  /\ pc \in {"build", "verify", "done"}
  /\ parentIndex \in [Nodes -> Nodes \cup {NoParent}]
  /\ nodeIdx \in 0 .. NodeCount
  /\ verifiedDepth \in [Nodes -> 0 .. MaxDepth]
  /\ depthReady \in SUBSET Nodes
  /\ verdict \in BOOLEAN

\* A container that is accepted is in canonical order: distinct ids, no cycle,
\* no depth past the limit, and every pair in order, though only neighbours are
\* compared and each depth is taken from a node met earlier.
AcceptedIsCanonical == pc = "done" /\ verdict => Canonical

\* A container in canonical order is accepted: a parent that is not ready, a
\* depth at its limit or a pair out of order never is a false alarm.
RejectedIsNotCanonical == pc = "done" /\ ~verdict => ~Canonical
=============================================================================
