------------------------------- MODULE Depth -------------------------------
(***************************************************************************)
(* computeDepths (detail/depth.hpp): the depth of every node of a parent   *)
(* index, found without recursion.  From each node that has no depth yet   *)
(* the code walks up the parent links, marking and stacking what it meets, *)
(* until it reaches a root or a node whose depth is known; then it unwinds *)
(* the stack, one depth more for every node.  A walk that meets a node it  *)
(* is still visiting, or that takes more steps than there are nodes, is a  *)
(* parent cycle.                                                           *)
(***************************************************************************)
EXTENDS Naturals, FiniteSets, SequencesExt

CONSTANTS
  NodeCount,     \* nodes.size()
  MaxDepth,      \* maxDepthForPrefix<DepthPrefixBytes>(), the last value a depth holds
  NoParent,      \* no_parent, the index of a missing parent
  StrayIndexes,  \* indexes at or past NodeCount that a caller's parent vector may hold
  ParentSizes    \* sizes the caller's parent vector may have

Nodes == 0 .. NodeCount - 1

ParentValues == Nodes \cup {NoParent} \cup StrayIndexes

ASSUME NodeCountAssumption == NodeCount \in Nat
ASSUME MaxDepthAssumption == MaxDepth \in Nat
ASSUME NoParentAssumption == NoParent \notin Nat
ASSUME StrayAssumption == StrayIndexes \subseteq Nat \ Nodes
ASSUME ParentSizesAssumption == ParentSizes \subseteq Nat /\ NodeCount \in ParentSizes

VARIABLES
  parent,       \* the parent index of each node
  sentinel,     \* the nodes whose parent id is the traits' sentinel
  pc,           \* "check", "scan", "walk", "unwind", "done" or "throw"
  nodeIdx,      \* the node of the outer loop
  current,      \* the node the walk has reached
  stack,        \* the nodes of this walk, its start first
  remaining,    \* steps this walk may still take
  baseDepth,    \* the depth below which the unwinding continues
  reachedRoot,  \* the node on top of the stack is a root
  visit,        \* visitState
  depth,        \* result.values
  observedMax,  \* result.observedMax
  error         \* the runtime_error thrown, "none" before

inputs == <<parent, sentinel>>
walkVars == <<current, stack, remaining, baseDepth, reachedRoot>>
results == <<visit, depth, observedMax>>
vars == <<inputs, pc, nodeIdx, walkVars, results, error>>

-----------------------------------------------------------------------------
(* What the steps are made of. *)

\* A node with a sentinel parent id, or whose parent id names no node.
IsRoot(n) == n \in sentinel \/ parent[n] = NoParent

Throw(message) == pc' = "throw" /\ error' = message

\* The loop bound of a walk, and a bound one step too small.
StepsAllowedOneShort == NodeCount - 1
WalkBudget == NodeCount

\* A depth that cannot be incremented any more, and that test one value late.
AtLimitOneLate(d) == d = MaxDepth + 1
AtLimit(d) == d = MaxDepth

\* The depth the unwinding starts from when the walk meets node n, whose depth
\* is known; and the mistake of starting over from zero.
ForgottenDepth(n) == 0
KnownDepth(n) == depth[n]

\* The outer loop's increment, and the mistake of looking at one node for ever.
StuckIndex(i) == i
NextIndex(i) == i + 1

\* The marks and the maximum after node n is given depth d; the mistakes are
\* to leave the mark alone, and to let a shallower node lower the maximum.
UnmarkedAfter(n) == visit
MarksAfter(n) == [visit EXCEPT ![n] = "Complete"]
LastDepth(d) == d
RaisedMax(d) == IF d > observedMax THEN d ELSE observedMax

Complete(n, d) ==
  /\ visit' = MarksAfter(n)
  /\ depth' = [depth EXCEPT ![n] = d]
  /\ observedMax' = RaisedMax(d)

\* The walk stops at node n because its depth is known; the mistake is to
\* take a node still being visited for known.
SeenBefore(n) == visit[n] # "Unvisited"
HasDepth(n) == visit[n] = "Complete"

-----------------------------------------------------------------------------
(* The function, one action per iteration of its loops. *)

Init ==
  /\ parent \in UNION {[0 .. size - 1 -> ParentValues] : size \in ParentSizes}
  /\ sentinel \in SUBSET Nodes
  /\ pc = "check"
  /\ nodeIdx = 0
  /\ current = 0
  /\ stack = <<>>
  /\ remaining = 0
  /\ baseDepth = 0
  /\ reachedRoot = FALSE
  /\ visit = [n \in Nodes |-> "Unvisited"]
  /\ depth = [n \in Nodes |-> 0]
  /\ observedMax = 0
  /\ error = "none"

\* requireMatchingCount(parent.size(), nodeCount, ...)
CheckParentCount ==
  /\ pc = "check"
  /\ IF DOMAIN parent = Nodes
       THEN pc' = "scan" /\ error' = error
       ELSE Throw("size_mismatch")
  /\ UNCHANGED <<inputs, nodeIdx, walkVars, results>>

SkipComplete ==
  /\ pc = "scan" /\ nodeIdx < NodeCount
  /\ visit[nodeIdx] = "Complete"
  /\ nodeIdx' = NextIndex(nodeIdx)
  /\ UNCHANGED <<inputs, pc, walkVars, results, error>>

BeginWalk ==
  /\ pc = "scan" /\ nodeIdx < NodeCount
  /\ visit[nodeIdx] # "Complete"
  /\ current' = nodeIdx
  /\ stack' = <<>>
  /\ remaining' = WalkBudget
  /\ baseDepth' = 0
  /\ reachedRoot' = FALSE
  /\ pc' = "walk"
  /\ UNCHANGED <<inputs, nodeIdx, results, error>>

Finish ==
  /\ pc = "scan" /\ nodeIdx >= NodeCount
  /\ pc' = "done"
  /\ UNCHANGED <<inputs, nodeIdx, walkVars, results, error>>

WalkMeetsComplete ==
  /\ pc = "walk" /\ remaining > 0
  /\ HasDepth(current)
  /\ baseDepth' = KnownDepth(current)
  /\ pc' = "unwind"
  /\ UNCHANGED <<inputs, nodeIdx, current, stack, remaining, reachedRoot, results, error>>

WalkMeetsVisiting ==
  /\ pc = "walk" /\ remaining > 0
  /\ visit[current] = "Visiting"
  /\ Throw("parent_cycle")
  /\ UNCHANGED <<inputs, nodeIdx, walkVars, results>>

\* A walk that has used its steps, none of which completed it.
WalkExhausted ==
  /\ pc = "walk" /\ remaining = 0
  /\ Throw("parent_cycle")
  /\ UNCHANGED <<inputs, nodeIdx, walkVars, results>>

\* Mark the node and push it: common to the three steps that follow.
Visit ==
  /\ pc = "walk" /\ remaining > 0
  /\ ~HasDepth(current) /\ visit[current] # "Visiting"
  /\ visit' = [visit EXCEPT ![current] = "Visiting"]
  /\ stack' = Append(stack, current)
  /\ UNCHANGED <<inputs, nodeIdx, baseDepth, depth, observedMax>>

VisitRoot ==
  /\ Visit
  /\ IsRoot(current)
  /\ reachedRoot' = TRUE
  /\ pc' = "unwind"
  /\ UNCHANGED <<current, remaining, error>>

VisitStray ==
  /\ Visit
  /\ ~IsRoot(current) /\ parent[current] \notin Nodes
  /\ Throw("parent_out_of_range")
  /\ UNCHANGED <<current, remaining, reachedRoot>>

VisitChild ==
  /\ Visit
  /\ ~IsRoot(current) /\ parent[current] \in Nodes
  /\ current' = parent[current]
  /\ remaining' = remaining - 1
  /\ UNCHANGED <<pc, reachedRoot, error>>

UnwindRoot ==
  /\ pc = "unwind" /\ stack # <<>>
  /\ reachedRoot
  /\ stack' = Front(stack)
  /\ baseDepth' = 0
  /\ reachedRoot' = FALSE
  /\ Complete(Last(stack), 0)
  /\ UNCHANGED <<inputs, pc, nodeIdx, current, remaining, error>>

UnwindChild ==
  /\ pc = "unwind" /\ stack # <<>>
  /\ ~reachedRoot /\ ~AtLimit(baseDepth)
  /\ stack' = Front(stack)
  /\ baseDepth' = baseDepth + 1
  /\ Complete(Last(stack), baseDepth + 1)
  /\ UNCHANGED <<inputs, pc, nodeIdx, current, remaining, reachedRoot, error>>

UnwindPastLimit ==
  /\ pc = "unwind" /\ stack # <<>>
  /\ ~reachedRoot /\ AtLimit(baseDepth)
  /\ stack' = Front(stack)
  /\ Throw("depth_limit")
  /\ UNCHANGED <<inputs, nodeIdx, current, remaining, baseDepth, reachedRoot, results>>

UnwindDone ==
  /\ pc = "unwind" /\ stack = <<>>
  /\ nodeIdx' = NextIndex(nodeIdx)
  /\ pc' = "scan"
  /\ UNCHANGED <<inputs, walkVars, results, error>>

Returned == pc \in {"done", "throw"} /\ UNCHANGED vars

Step ==
  \/ CheckParentCount \/ SkipComplete \/ BeginWalk \/ Finish
  \/ WalkMeetsComplete \/ WalkMeetsVisiting \/ WalkExhausted
  \/ VisitRoot \/ VisitStray \/ VisitChild
  \/ UnwindRoot \/ UnwindChild \/ UnwindPastLimit \/ UnwindDone

Next == Step \/ Returned

Spec == Init /\ [][Next]_vars

\* The function runs on its caller's thread: while it can step, it steps.
FairSpec == Spec /\ WF_vars(Step)

-----------------------------------------------------------------------------
(* Properties. *)

InputsOK ==
  /\ \E size \in ParentSizes : parent \in [0 .. size - 1 -> ParentValues]
  /\ sentinel \in SUBSET Nodes

\* Every variable keeps the type the code declares for it; in particular no
\* depth leaves the range of the depth type (depth.hpp:171-176).
TypeOK ==
  /\ InputsOK
  /\ pc \notin {"check", "throw"} => parent \in [Nodes -> ParentValues]
  /\ pc \in {"check", "scan", "walk", "unwind", "done", "throw"}
  /\ nodeIdx \in 0 .. NodeCount
  /\ pc \in {"walk", "unwind"} => nodeIdx \in Nodes
  /\ current \in Nat
  /\ pc = "walk" => current \in Nodes
  /\ stack \in Seq(Nodes)
  /\ remaining \in 0 .. NodeCount
  /\ baseDepth \in 0 .. MaxDepth
  /\ reachedRoot \in BOOLEAN
  /\ visit \in [Nodes -> {"Unvisited", "Visiting", "Complete"}]
  /\ depth \in [Nodes -> 0 .. MaxDepth]
  /\ observedMax \in 0 .. MaxDepth
  /\ error \in {"none", "size_mismatch", "parent_cycle",
                "parent_out_of_range", "depth_limit"}

OnStack == {stack[i] : i \in 1 .. Len(stack)}

\* The nodes marked Visiting are those on the stack, each of them once, and
\* the stack is a chain of parent links: what the code relies on when it takes
\* a Visiting node for a cycle, and when it counts one depth per popped node.
StackIsTheVisitingChain ==
  pc # "throw" =>
    /\ {n \in Nodes : visit[n] = "Visiting"} = OnStack
    /\ \A i, j \in 1 .. Len(stack) : stack[i] = stack[j] => i = j
    /\ \A i \in 1 .. Len(stack) - 1 :
         ~IsRoot(stack[i]) /\ parent[stack[i]] = stack[i + 1]
    /\ pc = "walk" => Len(stack) + remaining = NodeCount

\* A node marked Complete has its final depth: zero for a root, and one more
\* than its parent, itself Complete, for any other node.
DepthsConsistent ==
  \A n \in Nodes : visit[n] = "Complete" =>
    IF IsRoot(n)
      THEN depth[n] = 0
      ELSE /\ parent[n] \in Nodes
           /\ visit[parent[n]] = "Complete"
           /\ depth[n] = depth[parent[n]] + 1

\* "parent cycle" is thrown only when some nodes have their parents among
\* themselves and no root: a false alarm is impossible, for the mark and for
\* the step budget alike.
CycleErrorIsReal ==
  error = "parent_cycle" =>
    \E S \in SUBSET Nodes :
      /\ S # {}
      /\ \A n \in S : ~IsRoot(n) /\ parent[n] \in S

\* The other errors name a defect of the input too: a parent index that is
\* none, and a node just below one at the deepest depth.
OtherErrorsAreReal ==
  /\ error = "parent_out_of_range" =>
       \E n \in Nodes : ~IsRoot(n) /\ parent[n] \notin Nodes
  /\ error = "depth_limit" =>
       \E n \in Nodes : /\ ~IsRoot(n) /\ parent[n] \in Nodes
                        /\ visit[parent[n]] = "Complete"
                        /\ depth[parent[n]] = MaxDepth

\* No error is a false alarm, whichever check raises it and whatever order the
\* nodes are in (depth.hpp:139, 159, 154, 171).
ErrorsAreReal == CycleErrorIsReal /\ OtherErrorsAreReal

\* No cycle is accepted: when the function returns, every node has its depth
\* and no set of nodes has all its parents inside itself and no root.
AcceptsNoCycle ==
  pc = "done" =>
    /\ \A n \in Nodes : visit[n] = "Complete"
    /\ ~\E S \in SUBSET Nodes :
          /\ S # {}
          /\ \A n \in S : ~IsRoot(n) /\ parent[n] \in S

\* The number of links from node n to its root, as the definition of depth has
\* it; NodeCount when the links never reach one.
LinksToRoot(n) ==
  LET up[k \in 0 .. NodeCount] ==
        IF k = 0 THEN n
        ELSE IF up[k - 1] \notin Nodes \/ IsRoot(up[k - 1]) THEN NoParent
        ELSE parent[up[k - 1]]
      ends == {k \in 0 .. NodeCount : up[k] \in Nodes /\ IsRoot(up[k])}
  IN  IF ends = {} THEN NodeCount ELSE CHOOSE k \in ends : TRUE

IsSortableForest ==
  DOMAIN parent = Nodes /\ \A n \in Nodes : LinksToRoot(n) < NodeCount /\ LinksToRoot(n) <= MaxDepth

\* The function returns exactly for the forests no deeper than the limit,
\* whatever order the nodes are in; then every depth is the number of links to
\* the root, and observedMax, which selects the sort width, is their maximum.
ReturnsTrueDepths ==
  /\ pc \in {"done", "throw"} => (pc = "done" <=> IsSortableForest)
  /\ pc = "done" =>
       /\ \A n \in Nodes : depth[n] = LinksToRoot(n)
       /\ \A n \in Nodes : depth[n] <= observedMax
       /\ observedMax = 0 \/ \E n \in Nodes : depth[n] = observedMax

\* A Complete node is never touched again: its depth, once used for another
\* node, does not change.
CompleteIsFinal ==
  [][\A n \in Nodes : visit[n] = "Complete" =>
        visit'[n] = "Complete" /\ depth'[n] = depth[n]]_vars

\* The function returns or throws on every input, cyclic ones included.
Terminates == <>(pc \in {"done", "throw"})
=============================================================================
