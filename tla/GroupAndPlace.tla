---------------------------- MODULE GroupAndPlace ----------------------------
(***************************************************************************)
(* The second half of a sort: the permutation of the ids is grouped by     *)
(* depth (DepthGroup), and a sort in place then moves the caller's nodes   *)
(* into that order (InPlaceSort).  The first half, the parent index and    *)
(* the depths, may throw before it; any id permutation and any depths may  *)
(* come out of it.                                                         *)
(***************************************************************************)
EXTENDS InPlaceSort

CONSTANTS
  Depths,        \* the depths a node may have
  Radix,         \* radix_bucket_count
  DenseBuckets   \* max_dense_depth_buckets

VARIABLES
  inPlace,       \* sortInPlaceByDepthAndId was called, and not only for the order
  depths, idOrder, groupPc, grouped, scratch, depthStarts, depthOffsets, offset, stack, ranges

Group == INSTANCE DepthGroup WITH pc <- groupPc, order <- grouped

ASSUME GroupAssumption == Group!ConstantsAssumed

groupVars == <<depths, idOrder, groupPc, grouped, scratch, depthStarts, depthOffsets, offset, stack, ranges>>
allVars == <<inPlace, vars, groupVars>>

GroupedInit == Init /\ Group!Init /\ inPlace \in BOOLEAN

\* What throws is done before the grouping begins; a container of one node is
\* grouped only when its order is asked for.
FirstHalfThrows ==
  /\ inPlace /\ groupPc = "choose" /\ OrderThrows
  /\ UNCHANGED <<inPlace, groupVars>>

NothingToPlace ==
  /\ inPlace /\ ReturnEarly
  /\ UNCHANGED <<inPlace, groupVars>>

GroupStep ==
  /\ pc = "entry" /\ (inPlace => size > 1)
  /\ Group!Step
  /\ UNCHANGED <<inPlace, vars>>

\* The order is returned to the sort in place.
TakeOrder ==
  /\ inPlace /\ groupPc = "done"
  /\ OrderComputed /\ order' = grouped
  /\ UNCHANGED <<inPlace, groupVars>>

PlaceStep ==
  /\ FillDestination \/ BeginPlacing \/ Swap \/ Advance \/ Finish
  /\ UNCHANGED <<inPlace, groupVars>>

SortStep == FirstHalfThrows \/ NothingToPlace \/ GroupStep \/ TakeOrder \/ PlaceStep

HasReturned == IF inPlace THEN pc \in {"done", "throw"} ELSE groupPc = "done"

SortReturned == HasReturned /\ UNCHANGED allVars

SortSpec == GroupedInit /\ [][SortStep \/ SortReturned]_allVars /\ WF_allVars(SortStep)

-----------------------------------------------------------------------------

\* The grouping takes every node exactly once, in every partition and scatter.
GroupKeepsNodes == Group!NodesAreKept

\* The ranges still to be partitioned hold all that is out of order.
RangesAreSeparated == Group!RangesAreSeparated

\* What the consumer of the ranges is told is in order, final and complete.
RangesTileTheOrder == Group!RangesTileTheOrder

\* Both groupings give the same stable order.
ResultIsStable == Group!ResultIsStable

\* The caller's nodes end by depth, and within a depth as the ids have them,
\* whichever grouping ran and whatever cycles its order has.
EndsGrouped ==
  pc = "done" /\ size > 1 =>
    \A i, j \in Positions : i < j =>
      \/ depths[nodes[i]] < depths[nodes[j]]
      \/ depths[nodes[i]] = depths[nodes[j]] /\ Group!CameBefore(nodes[i], nodes[j])

\* No range is pushed for ever, since each has one byte less to look at, and
\* every cycle of the order is walked to its end: each call returns.
AlwaysReturns == <>HasReturned
=============================================================================
