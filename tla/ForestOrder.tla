----------------------------- MODULE ForestOrder -----------------------------
(***************************************************************************)
(* What the sorting operations of algorithms.hpp promise, without saying   *)
(* how: a call is answered by an order of the nodes by depth || id, or it  *)
(* throws and leaves the caller's container as it was.  The constants are   *)
(* those of ForestApi, which states what is assumed of them.                *)
(***************************************************************************)
EXTENDS Naturals

CONSTANTS
  Ops,        \* operations a caller may call: "order", "withDepths", "copy", "inPlace"
  Sizes,      \* the sizes nodes may have
  Ids,        \* the ids nodes may have
  ParentIds,  \* the parent ids nodes may have
  Sentinels,  \* the ids the traits take for "no parent"
  NoParent,   \* no_parent
  Depths,     \* the depths a caller may supply
  MaxDepth    \* the last depth that can be sorted by, UINT32_MAX

VARIABLES
  op,         \* the operation called
  size,       \* nodes.size()
  id,         \* traits.id of each node
  parentId,   \* traits.parent_id of each node
  supplied,   \* the depths supplied, if any
  outcome,    \* "pending", "returned" or "thrown"
  result,     \* the order returned: a list of nodes
  container   \* the caller's container: the original index of the node at each index

call == <<op, size, id, parentId, supplied>>
vars == <<call, outcome, result, container>>

Nodes == 0 .. size - 1
Unmoved == [i \in Nodes |-> i]
Permutations == {p \in [Nodes -> Nodes] : \A i, j \in Nodes : p[i] = p[j] => i = j}

-----------------------------------------------------------------------------

DistinctIds == \A m, n \in Nodes : id[m] = id[n] => m = n

IsParent(m, n) == parentId[n] \notin Sentinels /\ id[m] = parentId[n]

\* d is the depth of every node: none is, when the parents form a cycle.
AreDepths(d) ==
  \A n \in Nodes : IF \E m \in Nodes : IsParent(m, n)
                     THEN \E m \in Nodes : IsParent(m, n) /\ d[n] = d[m] + 1
                     ELSE d[n] = 0

\* The depths of a forest are less than its size.
ForestDepths == {d \in [Nodes -> Nodes] : AreDepths(d) /\ \A n \in Nodes : d[n] <= MaxDepth}

OrderedBy(p, d) ==
  \A i, j \in Nodes : i < j =>
    d[p[i]] < d[p[j]] \/ (d[p[i]] = d[p[j]] /\ id[p[i]] < id[p[j]])

\* The depths the order is by.  Supplied depths are taken as they are.
SortingDepths ==
  IF op = "withDepths"
    THEN {d \in {supplied} : DOMAIN d = Nodes /\ \A n \in Nodes : d[n] <= MaxDepth}
    ELSE ForestDepths

\* A container of at most one node that is to be sorted in place is not looked at.
Trivial == size <= 1 /\ op = "inPlace"

Answers ==
  {p \in Permutations : \/ Trivial
                        \/ DistinctIds /\ \E d \in SortingDepths : OrderedBy(p, d)}

SuppliedDepths == UNION {[0 .. n - 1 -> Depths] : n \in Sizes}

Init ==
  /\ op \in Ops
  /\ size \in Sizes
  /\ id \in [Nodes -> Ids]
  /\ parentId \in [Nodes -> ParentIds]
  /\ supplied \in IF op = "withDepths" THEN SuppliedDepths ELSE {<<>>}
  /\ outcome = "pending"
  /\ result = <<>>
  /\ container = Unmoved

Return ==
  /\ outcome = "pending"
  /\ result' \in Answers
  /\ container' = IF op = "inPlace" THEN result' ELSE container
  /\ outcome' = "returned"
  /\ UNCHANGED call

Throw ==
  /\ outcome = "pending" /\ Answers = {}
  /\ outcome' = "thrown"
  /\ UNCHANGED <<call, result, container>>

Next == Return \/ Throw

\* Every call is answered.
Spec == Init /\ [][Next]_vars /\ WF_vars(Next)

-----------------------------------------------------------------------------

\* README.md:3 calls the library "deterministic": the nodes leave no choice of
\* the answer, so no sort algorithm, tie or workspace can be seen in a result.
AnswerIsDetermined == outcome = "returned" => Answers = {result}
=============================================================================
