------------------------------ MODULE ForestApi ------------------------------
(***************************************************************************)
(* The sorting operations of algorithms.hpp, step by step: the parent join *)
(* that also yields the id permutation, the depths with four bytes, the    *)
(* choice of the narrowest depth width, the narrowing, the grouping and    *)
(* the use of the order; and the path of supplied depths, which validates  *)
(* them before it looks at any id.  The components are taken by the        *)
(* contracts their modules check: ParentIndex, Depth, DepthGroup and       *)
(* InPlaceSort.                                                            *)
(***************************************************************************)
EXTENDS DepthWidth

CONSTANTS
  Ops,        \* operations a caller may call: "order", "withDepths", "copy", "inPlace"
  Sizes,      \* the sizes nodes may have
  Ids,        \* the ids nodes may have
  ParentIds,  \* the parent ids nodes may have
  Sentinels,  \* the ids the traits take for "no parent"
  NoParent,   \* no_parent
  Depths      \* the depths a caller may supply

ASSUME OpsAssumption == Ops \subseteq {"order", "withDepths", "copy", "inPlace"}
ASSUME SizesAssumption == Sizes \subseteq Nat
ASSUME IdsAssumption == Ids \subseteq Nat
ASSUME ParentIdsAssumption == ParentIds # {}
ASSUME NoParentAssumption == NoParent \notin Nat
ASSUME DepthsAssumption == Depths \subseteq Nat
ASSUME RadixAssumption == Radix \in Nat \ {0, 1}

VARIABLES
  op,             \* the operation called
  size,           \* nodes.size()
  id,             \* traits.id of each node
  parentId,       \* traits.parent_id of each node
  supplied,       \* the depths supplied, if any
  pc,             \* the step that is next, "done" or "throw"
  parentIndex,    \* parentResult.parentIndex
  idPermutation,  \* parentResult.idPermutation, or the validated one
  depths,         \* computed.values, or the depths supplied
  observedMax,    \* observedMaxDepth
  narrowed,       \* the depths in the width chosen
  order,          \* the order found
  nodes,          \* the caller's container: the original index of the node at each index
  error           \* the runtime_error thrown, "none" before

call == <<op, size, id, parentId, supplied>>
vars == <<call, pc, parentIndex, idPermutation, depths, observedMax, narrowed, order, nodes, error>>

Nodes == 0 .. size - 1
Identity == [i \in Nodes |-> i]
Permutations == {p \in [Nodes -> Nodes] : \A i, j \in Nodes : p[i] = p[j] => i = j}

\* What callers supply: a depth vector of any size.
SuppliedDepths == UNION {[0 .. n - 1 -> Depths] : n \in Sizes}

\* With supplied depths parent ids are not read, so one choice of them will do.
ParentIdsRead ==
  IF op = "withDepths" THEN {[n \in Nodes |-> CHOOSE p \in ParentIds : TRUE]} ELSE [Nodes -> ParentIds]

Init ==
  /\ op \in Ops
  /\ size \in Sizes
  /\ id \in [Nodes -> Ids]
  /\ parentId \in ParentIdsRead
  /\ supplied \in IF op = "withDepths" THEN SuppliedDepths ELSE {<<>>}
  /\ pc = "entry"
  /\ parentIndex = <<>>
  /\ idPermutation = <<>>
  /\ depths = <<>>
  /\ observedMax = 0
  /\ narrowed = <<>>
  /\ order = <<>>
  /\ nodes = Identity
  /\ error = "none"

Throw(message) == pc' = "throw" /\ error' = message

-----------------------------------------------------------------------------
(* The entry of each operation. *)

\* No node, or one node to be sorted in place: the call returns at once.
IsTrivial == size = 0 \/ (size <= 1 /\ op = "inPlace")

ReturnEarly ==
  /\ pc = "entry" /\ op # "withDepths" /\ IsTrivial
  /\ order' = Identity
  /\ pc' = "done"
  /\ UNCHANGED <<call, parentIndex, idPermutation, depths, observedMax, narrowed, nodes, error>>

EnterSort ==
  /\ pc = "entry" /\ op # "withDepths" /\ ~IsTrivial
  /\ pc' = "join"
  /\ UNCHANGED <<call, parentIndex, idPermutation, depths, observedMax, narrowed, order, nodes, error>>

\* observedMaxDepth
MaxOf(d) == IF DOMAIN d = {} THEN 0 ELSE CHOOSE m \in {d[n] : n \in DOMAIN d} : \A n \in DOMAIN d : d[n] <= m

\* validatePrecomputedDepthInput; an empty forest then returns.  The mistake is
\* to check no depth against the limit.
NeverTooDeep(d) == FALSE
TooDeep(d) == \E n \in DOMAIN d : d[n] > MaxDepthForPrefix(4)

ValidateSupplied ==
  /\ pc = "entry" /\ op = "withDepths"
  /\ IF DOMAIN supplied # Nodes THEN Throw("size_mismatch") /\ UNCHANGED <<depths, observedMax, order>>
     ELSE IF TooDeep(supplied) THEN Throw("depth_limit") /\ UNCHANGED <<depths, observedMax, order>>
     ELSE /\ depths' = supplied
          /\ observedMax' = MaxOf(supplied)
          /\ IF size = 0 THEN pc' = "done" /\ order' = Identity ELSE pc' = "narrow" /\ order' = order
          /\ error' = error
  /\ UNCHANGED <<call, parentIndex, idPermutation, narrowed, nodes>>

-----------------------------------------------------------------------------
(* Parents and depths. *)

\* The mistake is to compare neighbours before the ids are sorted.
HasEqualNeighbours == \E n \in Nodes : n > 0 /\ id[n - 1] = id[n]
HasDuplicate == \E m, n \in Nodes : m # n /\ id[m] = id[n]

SortedById == {p \in Permutations : \A i, j \in Nodes : i < j => id[p[i]] <= id[p[j]]}

\* ParentIndex: JoinIsExact and DuplicatesAreRejected.
IsParent(m, n) == parentId[n] \notin Sentinels /\ id[m] = parentId[n]

JoinParents ==
  /\ pc = "join"
  /\ IF HasDuplicate
       THEN Throw("duplicate_id") /\ UNCHANGED <<parentIndex, idPermutation>>
       ELSE /\ parentIndex' = [n \in Nodes |-> IF \E m \in Nodes : IsParent(m, n)
                                                 THEN CHOOSE m \in Nodes : IsParent(m, n)
                                                 ELSE NoParent]
            /\ idPermutation' \in SortedById
            /\ pc' = "depths"
            /\ error' = error
  /\ UNCHANGED <<call, depths, observedMax, narrowed, order, nodes>>

\* Depth: DepthsConsistent, CycleErrorIsReal and AcceptsNoCycle, with four bytes.
\* These are the depths of nodes whose parents are among them.
DepthsOf(S) ==
  {d \in [S -> Nodes] :
     \A n \in S : IF parentIndex[n] = NoParent THEN d[n] = 0
                   ELSE parentIndex[n] \in S /\ d[n] = d[parentIndex[n]] + 1}

ConsistentDepths == DepthsOf(Nodes)

\* With a cycle and, elsewhere, a chain past the limit, the order of the nodes
\* decides which of the two is met first.
DepthErrors ==
  {message \in {"parent_cycle", "depth_limit"} :
     IF message = "parent_cycle" THEN ConsistentDepths = {}
     ELSE \E S \in SUBSET Nodes : \E d \in DepthsOf(S) : TooDeep(d)}

ComputeDepths ==
  /\ pc = "depths"
  /\ IF DepthErrors # {} THEN (\E message \in DepthErrors : Throw(message)) /\ UNCHANGED <<depths, observedMax>>
     ELSE \E d \in ConsistentDepths :
            /\ depths' = d
            /\ observedMax' = MaxOf(d)
            /\ pc' = "narrow"
            /\ error' = error
  /\ UNCHANGED <<call, parentIndex, idPermutation, narrowed, order, nodes>>

-----------------------------------------------------------------------------
(* Width, narrowing and grouping. *)

\* The values of DepthValue: there is no integer of three bytes.
DepthValues(bytes) == RadixPower[IF bytes = 3 THEN 4 ELSE bytes]

\* narrowDepths, or narrowIndexedDepths: a static_cast of every depth.
Narrow ==
  /\ pc = "narrow"
  /\ narrowed' = [n \in Nodes |-> depths[n] % DepthValues(PrefixBytesForMax(observedMax))]
  /\ pc' = IF op = "withDepths" THEN "ids" ELSE "group"
  /\ UNCHANGED <<call, parentIndex, idPermutation, depths, observedMax, order, nodes, error>>

\* makeValidatedGlobalIdPermutation: the ids of one node are not looked at.
ValidateIds ==
  /\ pc = "ids"
  /\ IF HasDuplicate
       THEN Throw("duplicate_id") /\ idPermutation' = idPermutation
       ELSE idPermutation' \in SortedById /\ pc' = "group" /\ error' = error
  /\ UNCHANGED <<call, parentIndex, depths, observedMax, narrowed, order, nodes>>

\* stableDepthGroupTrustedIdPermutation (DepthGroup: ResultIsStable): by depth,
\* and nodes of one depth as the id permutation has them.  The mistake is to
\* group the nodes as the caller has them.
CallersOrder(i) == i
Listed(i) == idPermutation[i]

StableGrouping ==
  {[i \in Nodes |-> Listed(p[i])] : p \in
     {p \in Permutations : \A i, j \in Nodes : i < j =>
        \/ narrowed[Listed(p[i])] < narrowed[Listed(p[j])]
        \/ narrowed[Listed(p[i])] = narrowed[Listed(p[j])] /\ p[i] < p[j]}}

Group ==
  /\ pc = "group"
  /\ order' \in StableGrouping
  /\ pc' = IF op = "inPlace" THEN "place" ELSE "done"
  /\ UNCHANGED <<call, parentIndex, idPermutation, depths, observedMax, narrowed, nodes, error>>

\* The swaps of sortInPlaceByDepthAndId (InPlaceSort: PlacedInOrder).
PlaceNodes ==
  /\ pc = "place"
  /\ nodes' = order
  /\ pc' = "done"
  /\ UNCHANGED <<call, parentIndex, idPermutation, depths, observedMax, narrowed, order, error>>

Returned == pc \in {"done", "throw"} /\ UNCHANGED vars

Step ==
  \/ ReturnEarly \/ EnterSort \/ ValidateSupplied \/ JoinParents \/ ComputeDepths
  \/ Narrow \/ ValidateIds \/ Group \/ PlaceNodes

Next == Step \/ Returned

Spec == Init /\ [][Next]_vars

FairSpec == Spec /\ WF_vars(Step)

-----------------------------------------------------------------------------

\* Supplied depths are validated before any id is read: a call that fails for
\* its depths does so whatever the ids are, and the depths of a call that fails
\* for its ids are valid.
DepthErrorsComeFirst ==
  pc = "throw" /\ op = "withDepths" =>
    IF DOMAIN supplied = Nodes /\ \A n \in Nodes : supplied[n] <= MaxDepthForPrefix(4)
      THEN error = "duplicate_id"
      ELSE error \in {"size_mismatch", "depth_limit"} /\ idPermutation = <<>>

\* The promise with this module's state.
Promise ==
  INSTANCE ForestOrder WITH
    MaxDepth <- MaxDepthForPrefix(4),
    outcome <- IF pc = "done" THEN "returned" ELSE IF pc = "throw" THEN "thrown" ELSE "pending",
    result <- IF pc = "done" THEN order ELSE <<>>,
    container <- nodes

\* The operations implement the promise: a canonical order for every forest, an
\* error with the container untouched for what is no forest and for nothing
\* else, and an answer to every call.
KeepsPromise == Promise!Spec

\* README.md:3 calls the library "deterministic": the nodes leave no choice of
\* the answer, so no sort algorithm, tie or workspace can be seen in a result.
AnswerIsDetermined == Promise!AnswerIsDetermined

\* README.md:9 says that production behavior "rejects cycles": no operation that
\* computes depths returns for a node that is its own ancestor.
RejectsCycles ==
  pc = "done" /\ op # "withDepths" => \E d \in [Nodes -> Nodes] : Promise!AreDepths(d)
=============================================================================
