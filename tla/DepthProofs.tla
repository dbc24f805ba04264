---------------------------- MODULE DepthProofs ----------------------------
(***************************************************************************)
(* Proofs about Depth for every node count, depth limit and parent vector. *)
(***************************************************************************)
EXTENDS Depth, TLAPS, FiniteSetTheorems, SequenceTheorems, WellFoundedInduction

\* Popping a stack: what Front and Last are on a non-empty sequence.
LEMMA PopProperties ==
  ASSUME NEW S, NEW s \in Seq(S), s # <<>>
  PROVE  /\ Len(s) \in Nat \ {0}
         /\ Last(s) = s[Len(s)] /\ Last(s) \in S
         /\ Front(s) \in Seq(S) /\ Len(Front(s)) = Len(s) - 1
         /\ \A i \in 1 .. Len(s) - 1 : Front(s)[i] = s[i]
<1>1. Len(s) \in Nat \ {0} /\ s \in [1 .. Len(s) -> S]
  BY EmptySeq, LenProperties
<1>2. /\ Front(s) \in Seq(S)
      /\ Len(Front(s)) = Len(s) - 1
      /\ \A i \in 1 .. Len(s) - 1 : Front(s)[i] = s[i]
  BY <1>1, SubSeqProperties DEF Front
<1>. QED  BY <1>1, <1>2 DEF Last

\* Pushing onto a stack.
LEMMA PushProperties ==
  ASSUME NEW S, NEW s \in Seq(S), NEW e \in S
  PROVE  /\ Append(s, e) \in Seq(S)
         /\ Len(s) \in Nat /\ Len(Append(s, e)) = Len(s) + 1
         /\ Append(s, e) # <<>>
         /\ \A i \in 1 .. Len(s) : Append(s, e)[i] = s[i] /\ s[i] \in S
         /\ Append(s, e)[Len(s) + 1] = e
<1>. QED  BY AppendProperties, LenProperties, ElementOfSeq

-----------------------------------------------------------------------------

\* The parent vector and the sentinels are only read.
LEMMA InputsKept == InputsOK /\ UNCHANGED inputs => InputsOK'
BY DEF InputsOK, inputs

\* The type invariant holds in every reachable state: in particular the depth
\* type never overflows (depth.hpp:171-176).
THEOREM TypeCorrect == Spec => []TypeOK
<1> USE NodeCountAssumption, MaxDepthAssumption
<1>1. Init => TypeOK
  <2> SUFFICES ASSUME Init PROVE TypeOK
    OBVIOUS
  <2>1. InputsOK
    BY DEF Init, InputsOK
  <2>2. stack \in Seq(Nodes)
    BY EmptySeq DEF Init
  <2>3. /\ depth \in [Nodes -> 0 .. MaxDepth]
        /\ visit \in [Nodes -> {"Unvisited", "Visiting", "Complete"}]
    BY DEF Init
  <2>4. pc = "check" /\ error = "none" /\ reachedRoot \in BOOLEAN
    BY DEF Init
  <2>5. /\ nodeIdx \in 0 .. NodeCount /\ current \in Nat /\ remaining \in 0 .. NodeCount
        /\ baseDepth \in 0 .. MaxDepth /\ observedMax \in 0 .. MaxDepth
    BY DEF Init
  <2>. QED  BY <2>1, <2>2, <2>3, <2>4, <2>5 DEF TypeOK
<1>2. TypeOK /\ [Next]_vars => TypeOK'
  <2> SUFFICES ASSUME TypeOK, [Next]_vars PROVE TypeOK'
    OBVIOUS
  <2>0. InputsOK'
    BY InputsKept DEF TypeOK, vars, Next, Step, CheckParentCount, SkipComplete, BeginWalk,
       Finish, WalkMeetsComplete, WalkMeetsVisiting, WalkExhausted, VisitRoot, VisitStray,
       VisitChild, Visit, UnwindRoot, UnwindChild, UnwindPastLimit, UnwindDone, Returned
  <2> USE <2>0 DEF TypeOK, walkVars, results
  <2>1. CASE CheckParentCount
    <3>1. DOMAIN parent = Nodes => parent \in [Nodes -> ParentValues]
      BY DEF InputsOK
    <3>. QED  BY <2>1, <3>1 DEF CheckParentCount, Throw, inputs
  <2>2. CASE SkipComplete
    BY <2>2 DEF SkipComplete, NextIndex, inputs
  <2>3. CASE BeginWalk
    <3>1. nodeIdx \in Nodes /\ stack' \in Seq(Nodes) /\ remaining' \in 0 .. NodeCount
      BY <2>3, EmptySeq DEF BeginWalk, WalkBudget, Nodes
    <3>2. nodeIdx \in Nat /\ 0 \in 0 .. MaxDepth
      OBVIOUS
    <3>. QED  BY <2>3, <3>1, <3>2 DEF BeginWalk, inputs
  <2>4. CASE Finish
    BY <2>4 DEF Finish, inputs
  <2>5. CASE WalkMeetsComplete
    BY <2>5 DEF WalkMeetsComplete, KnownDepth, inputs
  <2>6. CASE WalkMeetsVisiting \/ WalkExhausted
    BY <2>6 DEF WalkMeetsVisiting, WalkExhausted, Throw, inputs
  <2>7. CASE VisitRoot \/ VisitStray \/ VisitChild
    <3>1. Visit
      BY <2>7 DEF VisitRoot, VisitStray, VisitChild
    <3>2. current \in Nodes /\ stack' \in Seq(Nodes)
      BY <3>1, AppendProperties DEF Visit
    <3>3. visit' \in [Nodes -> {"Unvisited", "Visiting", "Complete"}]
      BY <3>1 DEF Visit
    <3>4. remaining - 1 \in 0 .. NodeCount /\ Nodes \subseteq Nat
      BY <3>1 DEF Visit, Nodes
    <3>5. CASE VisitRoot
      BY <3>1, <3>2, <3>3, <3>5 DEF VisitRoot, Visit, inputs
    <3>6. CASE VisitStray
      BY <3>1, <3>2, <3>3, <3>6 DEF VisitStray, Visit, Throw, inputs
    <3>7. CASE VisitChild
      BY <3>1, <3>2, <3>3, <3>4, <3>7 DEF VisitChild, Visit, inputs
    <3>. QED  BY <2>7, <3>5, <3>6, <3>7
  <2>8. CASE UnwindRoot \/ UnwindChild \/ UnwindPastLimit
    <3>1. Last(stack) \in Nodes /\ Front(stack) \in Seq(Nodes)
      BY <2>8, PopProperties DEF UnwindRoot, UnwindChild, UnwindPastLimit
    <3>2. baseDepth' \in 0 .. MaxDepth
      BY <2>8 DEF UnwindRoot, UnwindChild, UnwindPastLimit, AtLimit
    <3>3. CASE UnwindRoot
      BY <3>3, <3>1, <3>2 DEF UnwindRoot, Complete, MarksAfter, RaisedMax, inputs
    <3>4. CASE UnwindChild
      BY <3>4, <3>1, <3>2 DEF UnwindChild, Complete, MarksAfter, RaisedMax, inputs
    <3>5. CASE UnwindPastLimit
      BY <3>5, <3>1, <3>2 DEF UnwindPastLimit, Throw, inputs
    <3>. QED  BY <2>8, <3>3, <3>4, <3>5
  <2>9. CASE UnwindDone
    <3>1. nodeIdx' \in 0 .. NodeCount
      BY <2>9 DEF UnwindDone, NextIndex, Nodes
    <3>. QED  BY <2>9, <3>1 DEF UnwindDone, inputs
  <2>10. CASE UNCHANGED vars
    BY <2>10 DEF vars, inputs
  <2>. QED
    BY <2>1, <2>2, <2>3, <2>4, <2>5, <2>6, <2>7, <2>8, <2>9, <2>10 DEF Next, Step, Returned
<1>. QED  BY <1>1, <1>2, PTL DEF Spec

-----------------------------------------------------------------------------

\* Where the loops stand: which nodes the outer loop has left Complete, what
\* the walk's last link leads to, and whose depth baseDepth is.
LoopShape ==
  /\ pc # "throw" => error = "none"
  /\ pc \in {"check", "scan", "done"} => stack = <<>>
  /\ pc # "throw" => \A n \in Nodes : n < nodeIdx => visit[n] = "Complete"
  /\ pc = "done" => nodeIdx = NodeCount
  /\ pc \in {"walk", "unwind"} /\ stack # <<>> => stack[1] = nodeIdx

WalkShape ==
  pc = "walk" =>
    /\ ~reachedRoot
    /\ IF stack = <<>>
         THEN current = nodeIdx /\ visit[nodeIdx] # "Complete"
         ELSE /\ ~IsRoot(stack[Len(stack)])
              /\ parent[stack[Len(stack)]] = current

UnwindShape ==
  pc = "unwind" =>
    IF stack = <<>> THEN visit[nodeIdx] = "Complete"
    ELSE LET top == stack[Len(stack)]
         IN  IF reachedRoot THEN IsRoot(top)
             ELSE /\ ~IsRoot(top) /\ parent[top] \in Nodes
                  /\ visit[parent[top]] = "Complete"
                  /\ depth[parent[top]] = baseDepth

\* The inductive invariant.
DepthInv ==
  /\ StackIsTheVisitingChain
  /\ DepthsConsistent
  /\ LoopShape
  /\ WalkShape
  /\ UnwindShape
  /\ CycleErrorIsReal
  /\ OtherErrorsAreReal

LEMMA InitDepthInv == Init => DepthInv
BY DEF Init, Nodes, DepthInv, StackIsTheVisitingChain, DepthsConsistent, LoopShape, WalkShape,
       UnwindShape, CycleErrorIsReal, OtherErrorsAreReal, OnStack

\* Facts that the steps share.
LEMMA RootsKept == UNCHANGED inputs => \A n : IsRoot(n)' <=> IsRoot(n)
BY DEF inputs, IsRoot

LEMMA ConsistentKept ==
  ASSUME DepthsConsistent, UNCHANGED <<inputs, visit, depth>>
  PROVE  DepthsConsistent'
BY RootsKept DEF DepthsConsistent, inputs

LEMMA NoErrorYet == error' = "none" => CycleErrorIsReal' /\ OtherErrorsAreReal'
BY DEF CycleErrorIsReal, OtherErrorsAreReal

\* The part of StackIsTheVisitingChain that does not speak of pc.
Chain ==
  /\ {n \in Nodes : visit[n] = "Visiting"} = OnStack
  /\ \A i, j \in 1 .. Len(stack) : stack[i] = stack[j] => i = j
  /\ \A i \in 1 .. Len(stack) - 1 : ~IsRoot(stack[i]) /\ parent[stack[i]] = stack[i + 1]

LEMMA ChainDef ==
  StackIsTheVisitingChain <=>
    (pc # "throw" => Chain /\ (pc = "walk" => Len(stack) + remaining = NodeCount))
BY DEF StackIsTheVisitingChain, Chain

LEMMA ChainKept ==
  ASSUME Chain, UNCHANGED <<inputs, visit, stack>>
  PROVE  Chain'
BY RootsKept DEF Chain, OnStack, inputs

\* The steps that leave marks, depths and stack as they are and throw nothing.
LEMMA QuietSteps ==
  ASSUME TypeOK, DepthInv,
         SkipComplete \/ BeginWalk \/ Finish \/ UnwindDone \/ WalkMeetsComplete
  PROVE  DepthInv'
<1> USE DEF DepthInv, walkVars, results
<1>1. pc # "throw" /\ pc' # "throw" /\ error' = "none" /\ Chain
  BY ChainDef DEF SkipComplete, BeginWalk, Finish, UnwindDone, WalkMeetsComplete, LoopShape
<1>2. UNCHANGED <<inputs, visit, depth>> /\ stack' = stack
  BY DEF SkipComplete, BeginWalk, Finish, UnwindDone, WalkMeetsComplete, LoopShape
<1>3. Chain' /\ DepthsConsistent' /\ CycleErrorIsReal' /\ OtherErrorsAreReal'
  BY <1>1, <1>2, ChainKept, ConsistentKept, NoErrorYet
<1>4. pc' = "walk" => Len(stack') + remaining' = NodeCount
  <2>1. CASE BeginWalk
    BY <2>1, EmptySeq, NodeCountAssumption DEF BeginWalk, WalkBudget
  <2>2. CASE ~BeginWalk
    BY <2>2 DEF SkipComplete, Finish, UnwindDone, WalkMeetsComplete
  <2>. QED  BY <2>1, <2>2
<1>5. StackIsTheVisitingChain'
  BY <1>3, <1>4 DEF StackIsTheVisitingChain, Chain
<1>6. LoopShape'
  <2> USE DEF LoopShape
  <2>1. CASE SkipComplete
    BY <2>1, <1>2 DEF SkipComplete, NextIndex, TypeOK, Nodes
  <2>2. CASE UnwindDone
    BY <2>2, <1>2 DEF UnwindDone, NextIndex, TypeOK, Nodes, UnwindShape
  <2>3. CASE BeginWalk
    BY <2>3, <1>2 DEF BeginWalk
  <2>4. CASE Finish
    BY <2>4, <1>2, NodeCountAssumption DEF Finish, TypeOK
  <2>5. CASE WalkMeetsComplete
    BY <2>5, <1>2 DEF WalkMeetsComplete
  <2>. QED  BY <2>1, <2>2, <2>3, <2>4, <2>5
<1>7. WalkShape'
  BY <1>2 DEF SkipComplete, BeginWalk, Finish, UnwindDone, WalkMeetsComplete, WalkShape
<1>8. UnwindShape'
  <2>1. CASE WalkMeetsComplete
    <3>1. stack = <<>> => FALSE
      BY <2>1 DEF WalkMeetsComplete, WalkShape, HasDepth
    <3>2. current \in Nodes
      BY <2>1 DEF WalkMeetsComplete, TypeOK
    <3>. QED  BY <2>1, <3>1, <3>2, <1>2, RootsKept
              DEF WalkMeetsComplete, WalkShape, UnwindShape, HasDepth, KnownDepth, inputs
  <2>2. CASE ~WalkMeetsComplete
    BY <2>2 DEF SkipComplete, BeginWalk, Finish, UnwindDone, UnwindShape
  <2>. QED  BY <2>1, <2>2
<1>. QED  BY <1>3, <1>5, <1>6, <1>7, <1>8

\* A walk pushes an unvisited node: the chain grows by its next link.
LEMMA VisitExtendsChain ==
  ASSUME TypeOK, DepthInv, Visit
  PROVE  /\ Chain' /\ DepthsConsistent'
         /\ stack' # <<>> /\ stack'[Len(stack')] = current
         /\ Len(stack') = Len(stack) + 1
         /\ stack'[1] = nodeIdx
         /\ \A n \in Nodes : visit[n] = "Complete" => visit'[n] = "Complete"
<1> USE DEF DepthInv
<1>1. /\ Chain /\ current \in Nodes /\ stack \in Seq(Nodes) /\ parent \in [Nodes -> ParentValues]
      /\ visit \in [Nodes -> {"Unvisited", "Visiting", "Complete"}]
      /\ visit[current] # "Visiting" /\ visit[current] # "Complete"
      /\ stack' = Append(stack, current) /\ visit' = [visit EXCEPT ![current] = "Visiting"]
      /\ UNCHANGED inputs /\ parent' = parent /\ depth' = depth
  BY ChainDef DEF Visit, TypeOK, HasDepth, inputs
<1>2. /\ stack' \in Seq(Nodes) /\ Len(stack) \in Nat /\ Len(stack') = Len(stack) + 1
      /\ stack' # <<>>
      /\ \A i \in 1 .. Len(stack) : stack'[i] = stack[i] /\ stack[i] \in Nodes
      /\ stack'[Len(stack) + 1] = current
  BY <1>1, PushProperties
<1>3. current \notin OnStack
  BY <1>1 DEF Chain
<1>4. OnStack' = OnStack \cup {current}
  BY <1>2 DEF OnStack
<1>5. {n \in Nodes : visit[n] = "Visiting"}' = {n \in Nodes : visit[n] = "Visiting"} \cup {current}
  BY <1>1
<1>6. \A i, j \in 1 .. Len(stack') : stack'[i] = stack'[j] => i = j
  BY <1>1, <1>2, <1>3 DEF Chain, OnStack
<1>7. \A i \in 1 .. Len(stack') - 1 : ~IsRoot(stack'[i]) /\ parent[stack'[i]] = stack'[i + 1]
  <2> SUFFICES ASSUME NEW i \in 1 .. Len(stack') - 1
               PROVE  ~IsRoot(stack[i]) /\ parent[stack[i]] = stack'[i + 1]
    BY <1>2
  <2>1. CASE i < Len(stack)
    BY <2>1, <1>1, <1>2 DEF Chain
  <2>2. CASE i = Len(stack)
    <3>1. stack # <<>> /\ pc = "walk"
      BY <2>2, <1>2 DEF Visit
    <3>. QED  BY <3>1, <2>2, <1>2 DEF WalkShape
  <2>. QED  BY <2>1, <2>2, <1>2
<1>8. Chain'
  BY <1>1, <1>4, <1>5, <1>6, <1>7 DEF Chain, IsRoot, inputs
<1>9. DepthsConsistent'
  BY <1>1, RootsKept DEF DepthsConsistent
<1>10. stack'[1] = nodeIdx
  <2>1. CASE stack = <<>>
    BY <2>1, <1>2 DEF Visit, WalkShape
  <2>2. CASE stack # <<>>
    <3>1. 1 \in 1 .. Len(stack)
      BY <2>2, <1>1, EmptySeq
    <3>. QED  BY <3>1, <2>2, <1>2 DEF Visit, LoopShape
  <2>. QED  BY <2>1, <2>2
<1>. QED  BY <1>1, <1>2, <1>8, <1>9, <1>10

\* The three ways a visit ends: at a root, at a stray index, at the next link.
LEMMA VisitSteps ==
  ASSUME TypeOK, DepthInv, VisitRoot \/ VisitStray \/ VisitChild
  PROVE  DepthInv'
<1>1. Visit
  BY DEF VisitRoot, VisitStray, VisitChild
<1>2. /\ Chain' /\ DepthsConsistent'
      /\ stack' # <<>> /\ stack'[Len(stack')] = current
      /\ Len(stack') = Len(stack) + 1 /\ Len(stack) \in Nat
      /\ stack'[1] = nodeIdx
      /\ \A n \in Nodes : visit[n] = "Complete" => visit'[n] = "Complete"
  BY <1>1, VisitExtendsChain, LenProperties DEF TypeOK
<1>3. /\ pc = "walk" /\ error = "none" /\ current \in Nodes /\ nodeIdx' = nodeIdx
      /\ UNCHANGED inputs /\ \A n : IsRoot(n)' <=> IsRoot(n)
      /\ Len(stack) + remaining = NodeCount /\ ~reachedRoot /\ remaining \in 0 .. NodeCount
      /\ LoopShape
  BY <1>1, RootsKept DEF Visit, TypeOK, DepthInv, LoopShape, StackIsTheVisitingChain, WalkShape
<1>4. CASE VisitRoot
  <2>1. pc' = "unwind" /\ reachedRoot' = TRUE /\ error' = "none" /\ IsRoot(current)
    BY <1>4, <1>3 DEF VisitRoot
  <2>. QED  BY <2>1, <1>2, <1>3, NoErrorYet DEF DepthInv, StackIsTheVisitingChain, Chain,
            LoopShape, WalkShape, UnwindShape
<1>5. CASE VisitStray
  <2>1. pc' = "throw" /\ error' = "parent_out_of_range" /\ ~IsRoot(current)
        /\ parent'[current] \notin Nodes
    BY <1>5, <1>3 DEF VisitStray, Throw, inputs
  <2>2. CycleErrorIsReal' /\ OtherErrorsAreReal'
    BY <2>1, <1>3 DEF CycleErrorIsReal, OtherErrorsAreReal
  <2>. QED  BY <2>1, <2>2, <1>2 DEF DepthInv, StackIsTheVisitingChain, LoopShape, WalkShape,
            UnwindShape
<1>6. CASE VisitChild
  <2>1. /\ pc' = "walk" /\ error' = "none" /\ ~IsRoot(current) /\ ~reachedRoot'
        /\ current' = parent[current] /\ parent' = parent /\ remaining' = remaining - 1
    BY <1>6, <1>3 DEF VisitChild, inputs
  <2>2. Len(stack') + remaining' = NodeCount
    BY <2>1, <1>2, <1>3, NodeCountAssumption
  <2>3. StackIsTheVisitingChain' /\ LoopShape' /\ WalkShape' /\ UnwindShape'
    BY <2>1, <2>2, <1>2, <1>3 DEF StackIsTheVisitingChain, Chain, LoopShape, WalkShape, UnwindShape
  <2>. QED  BY <2>1, <2>3, <1>2, NoErrorYet DEF DepthInv
<1>. QED  BY <1>4, <1>5, <1>6

\* The steps that pop a node and give it its depth.
LEMMA UnwindSteps ==
  ASSUME TypeOK, DepthInv, UnwindRoot \/ UnwindChild
  PROVE  DepthInv'
<1> DEFINE top == stack[Len(stack)]
           d == IF reachedRoot THEN 0 ELSE baseDepth + 1
<1>1. /\ pc = "unwind" /\ pc' = pc /\ error' = "none" /\ nodeIdx' = nodeIdx
      /\ stack # <<>> /\ stack' = Front(stack)
      /\ UNCHANGED inputs /\ parent' = parent /\ \A n : IsRoot(n)' <=> IsRoot(n)
      /\ ~reachedRoot' /\ baseDepth' = d
      /\ visit' = [visit EXCEPT ![top] = "Complete"] /\ depth' = [depth EXCEPT ![top] = d]
      /\ Chain /\ DepthsConsistent /\ UnwindShape /\ LoopShape
  <2>1. /\ Chain /\ DepthsConsistent /\ UnwindShape /\ LoopShape /\ error = "none"
    BY ChainDef DEF UnwindRoot, UnwindChild, DepthInv, LoopShape
  <2>2. UNCHANGED inputs /\ parent' = parent /\ \A n : IsRoot(n)' <=> IsRoot(n)
    BY RootsKept DEF UnwindRoot, UnwindChild, inputs
  <2>3. CASE UnwindRoot
    BY <2>1, <2>2, <2>3 DEF UnwindRoot, Complete, MarksAfter, Last
  <2>4. CASE UnwindChild
    BY <2>1, <2>2, <2>4 DEF UnwindChild, Complete, MarksAfter, Last
  <2>. QED  BY <2>3, <2>4
<1>2. /\ visit \in [Nodes -> {"Unvisited", "Visiting", "Complete"}]
      /\ depth \in [Nodes -> 0 .. MaxDepth] /\ parent \in [Nodes -> ParentValues]
      /\ nodeIdx \in Nodes /\ stack \in Seq(Nodes)
  BY <1>1 DEF TypeOK
<1>3. /\ Len(stack) \in Nat \ {0} /\ top \in Nodes
      /\ Len(stack') = Len(stack) - 1 /\ stack' \in Seq(Nodes)
      /\ \A i \in 1 .. Len(stack) - 1 : stack'[i] = stack[i] /\ stack[i] \in Nodes
  BY <1>1, <1>2, PopProperties, ElementOfSeq, SMTT(20) DEF Last
<1>4. top \notin OnStack' /\ OnStack = OnStack' \cup {top} /\ visit[top] = "Visiting"
  <2>1. OnStack' = {stack[i] : i \in 1 .. Len(stack) - 1}
    BY <1>3 DEF OnStack
  <2>2. OnStack = OnStack' \cup {top}
    BY <2>1, <1>3 DEF OnStack
  <2>3. top \notin OnStack'
    BY <2>1, <1>1, <1>3 DEF Chain
  <2>. QED  BY <2>2, <2>3, <1>1, <1>3 DEF Chain
<1>5. {n \in Nodes : visit[n] = "Visiting"}' = {n \in Nodes : visit[n] = "Visiting"} \ {top}
  BY <1>1, <1>2, <1>3
<1>6. \A i \in 1 .. Len(stack') - 1 : ~IsRoot(stack'[i]) /\ parent[stack'[i]] = stack'[i + 1]
  <2> SUFFICES ASSUME NEW i \in 1 .. Len(stack') - 1
               PROVE  ~IsRoot(stack[i]) /\ parent[stack[i]] = stack[i + 1]
    BY <1>3
  <2>. QED  BY <1>1, <1>3 DEF Chain
<1>7. \A i, j \in 1 .. Len(stack') : stack'[i] = stack'[j] => i = j
  BY <1>1, <1>3 DEF Chain
<1>8. Chain'
  BY <1>1, <1>4, <1>5, <1>6, <1>7 DEF Chain, IsRoot, inputs
<1>9. /\ visit'[top] = "Complete" /\ depth'[top] = d
      /\ \A n \in Nodes : n # top => visit'[n] = visit[n] /\ depth'[n] = depth[n]
  BY <1>1, <1>2, <1>3
<1>10. DepthsConsistent'
  <2> SUFFICES ASSUME NEW n \in Nodes, visit'[n] = "Complete"
               PROVE  IF IsRoot(n) THEN depth'[n] = 0
                      ELSE /\ parent[n] \in Nodes /\ visit'[parent[n]] = "Complete"
                           /\ depth'[n] = depth'[parent[n]] + 1
    BY <1>1 DEF DepthsConsistent
  <2>1. CASE n = top
    BY <2>1, <1>1, <1>3, <1>4, <1>9 DEF UnwindShape
  <2>2. CASE n # top
    BY <2>2, <1>1, <1>4, <1>9 DEF DepthsConsistent
  <2>. QED  BY <2>1, <2>2
<1>11. LoopShape'
  <2>1. \A n \in Nodes : n < nodeIdx => visit'[n] = "Complete"
    BY <1>1, <1>9 DEF LoopShape
  <2>2. stack' # <<>> => stack'[1] = nodeIdx
    <3>1. stack' # <<>> => 1 \in 1 .. Len(stack) - 1
      BY <1>3, EmptySeq
    <3>. QED  BY <3>1, <1>1, <1>3 DEF LoopShape
  <2>. QED  BY <2>1, <2>2, <1>1 DEF LoopShape
<1>12. UnwindShape'
  <2>1. CASE stack' = <<>>
    <3>1. Len(stack) = 1
      BY <2>1, <1>3
    <3>. QED  BY <3>1, <2>1, <1>1, <1>9 DEF UnwindShape, LoopShape
  <2>2. CASE stack' # <<>>
    <3>1. Len(stack') \in 1 .. Len(stack) - 1 /\ Len(stack') + 1 = Len(stack)
      BY <2>2, <1>3, EmptySeq
    <3>2. /\ stack'[Len(stack')] = stack[Len(stack')]
          /\ ~IsRoot(stack[Len(stack')]) /\ parent[stack[Len(stack')]] = top
      BY <3>1, <1>1, <1>3 DEF Chain
    <3>. QED  BY <3>2, <2>2, <1>1, <1>3, <1>9 DEF UnwindShape, IsRoot, inputs
  <2>. QED  BY <2>1, <2>2
<1>. QED
  BY <1>1, <1>8, <1>10, <1>11, <1>12, NoErrorYet DEF DepthInv, StackIsTheVisitingChain, Chain, WalkShape

\* A walk whose next node is on its own stack has found a cycle.
LEMMA ClosedStackIsACycle ==
  ASSUME TypeOK, DepthInv, pc = "walk", current \in OnStack
  PROVE  \E S \in SUBSET Nodes :
           /\ S # {}
           /\ \A n \in S : ~IsRoot(n) /\ parent[n] \in S
<1>1. /\ Chain /\ WalkShape /\ stack \in Seq(Nodes) /\ Len(stack) \in Nat
      /\ \A i \in 1 .. Len(stack) : stack[i] \in Nodes
  BY ChainDef, LenProperties, ElementOfSeq DEF DepthInv, TypeOK
<1>2. OnStack \in SUBSET Nodes /\ OnStack # {}
  BY <1>1 DEF OnStack
<1>3. ASSUME NEW n \in OnStack PROVE ~IsRoot(n) /\ parent[n] \in OnStack
  <2>1. PICK i \in 1 .. Len(stack) : n = stack[i]
    BY DEF OnStack
  <2>2. CASE i = Len(stack)
    <3>1. stack # <<>>
      BY <1>1, <2>1, EmptySeq
    <3>. QED  BY <3>1, <2>1, <2>2, <1>1 DEF WalkShape
  <2>3. CASE i # Len(stack)
    <3>1. i \in 1 .. Len(stack) - 1 /\ i + 1 \in 1 .. Len(stack)
      BY <2>1, <2>3, <1>1
    <3>. QED  BY <3>1, <2>1, <1>1 DEF Chain, OnStack
  <2>. QED  BY <2>2, <2>3
<1>. QED  BY <1>2, <1>3

\* A walk that has used its steps has stacked every node: the next one too.
LEMMA ExhaustedWalkHoldsEveryNode ==
  ASSUME TypeOK, DepthInv, pc = "walk", remaining = 0
  PROVE  OnStack = Nodes
<1>1. /\ Chain /\ Len(stack) = NodeCount /\ stack \in [1 .. NodeCount -> Nodes]
  <2>1. Chain /\ Len(stack) + remaining = NodeCount /\ stack \in Seq(Nodes)
    BY ChainDef DEF DepthInv, TypeOK
  <2>. QED  BY <2>1, LenProperties, NodeCountAssumption
<1>2. stack \in Injection(1 .. NodeCount, Nodes)
  BY <1>1 DEF Chain, Injection, IsInjective
<1>3. /\ IsFiniteSet(Nodes) /\ Cardinality(Nodes) = NodeCount
      /\ Cardinality(1 .. NodeCount) = NodeCount
  BY FS_Interval, NodeCountAssumption DEF Nodes
<1>4. stack \in Surjection(1 .. NodeCount, Nodes)
  BY <1>2, <1>3, FS_Injection
<1>. QED  BY <1>1, <1>4 DEF Surjection, OnStack

LEMMA ThrowSteps ==
  ASSUME TypeOK, DepthInv,
         CheckParentCount \/ WalkMeetsVisiting \/ WalkExhausted \/ UnwindPastLimit
  PROVE  DepthInv'
<1> USE DEF DepthInv, walkVars, results
<1>1. CASE CheckParentCount
  <2>1. UNCHANGED <<inputs, visit, depth, stack, nodeIdx>> /\ pc = "check" /\ error = "none"
    BY <1>1 DEF CheckParentCount, LoopShape
  <2>2. \/ pc' = "scan" /\ error' = "none"
        \/ pc' = "throw" /\ error' = "size_mismatch"
    BY <1>1, <2>1 DEF CheckParentCount, Throw
  <2>3. DepthsConsistent' /\ Chain'
    BY <2>1, ConsistentKept, ChainKept, ChainDef
  <2>. QED  BY <2>1, <2>2, <2>3 DEF StackIsTheVisitingChain, Chain, LoopShape, WalkShape,
            UnwindShape, CycleErrorIsReal, OtherErrorsAreReal, TypeOK, Nodes
<1>2. CASE WalkMeetsVisiting \/ WalkExhausted
  <2>1. /\ UNCHANGED <<inputs, visit, depth>> /\ parent' = parent /\ pc = "walk"
        /\ pc' = "throw" /\ error' = "parent_cycle"
    BY <1>2 DEF WalkMeetsVisiting, WalkExhausted, Throw, inputs
  <2>2. current \in OnStack
    <3>1. current \in Nodes /\ Chain
      BY <2>1, ChainDef DEF TypeOK
    <3>2. CASE WalkMeetsVisiting
      BY <3>1, <3>2 DEF WalkMeetsVisiting, Chain
    <3>3. CASE WalkExhausted
      BY <3>1, <3>3, <2>1, ExhaustedWalkHoldsEveryNode DEF WalkExhausted
    <3>. QED  BY <1>2, <3>2, <3>3
  <2>3. CycleErrorIsReal' /\ OtherErrorsAreReal'
    BY <2>1, <2>2, ClosedStackIsACycle, RootsKept DEF CycleErrorIsReal, OtherErrorsAreReal
  <2>. QED  BY <2>1, <2>3, ConsistentKept DEF StackIsTheVisitingChain, LoopShape, WalkShape,
            UnwindShape
<1>3. CASE UnwindPastLimit
  <2>1. /\ UNCHANGED <<inputs, visit, depth>> /\ parent' = parent /\ pc = "unwind"
        /\ stack # <<>> /\ ~reachedRoot /\ baseDepth = MaxDepth
        /\ pc' = "throw" /\ error' = "depth_limit"
    BY <1>3 DEF UnwindPastLimit, Throw, AtLimit, inputs
  <2>2. stack[Len(stack)] \in Nodes
    BY <2>1, PopProperties DEF TypeOK, Last
  <2>3. CycleErrorIsReal' /\ OtherErrorsAreReal'
    BY <2>1, <2>2, RootsKept DEF CycleErrorIsReal, OtherErrorsAreReal, UnwindShape
  <2>. QED  BY <2>1, <2>3, ConsistentKept DEF StackIsTheVisitingChain, LoopShape, WalkShape,
            UnwindShape
<1>. QED  BY <1>1, <1>2, <1>3

\* The inductive invariant holds in every reachable state.
LEMMA DepthInvCorrect == Spec => []DepthInv
<1>1. TypeOK /\ DepthInv /\ [Next]_vars => DepthInv'
  <2>1. CASE UNCHANGED vars
    <3>1. UNCHANGED <<inputs, walkVars, results, pc, nodeIdx, error, parent, sentinel, visit, depth,
                      stack, current, remaining, baseDepth, reachedRoot>>
      BY <2>1 DEF vars, inputs, walkVars, results
    <3>. QED  BY <3>1, RootsKept DEF DepthInv, StackIsTheVisitingChain, OnStack, DepthsConsistent,
              LoopShape, WalkShape, UnwindShape, CycleErrorIsReal, OtherErrorsAreReal, IsRoot
  <2>. QED  BY <2>1, QuietSteps, VisitSteps, UnwindSteps, ThrowSteps DEF Next, Step, Returned
<1>. QED  BY <1>1, InitDepthInv, TypeCorrect, PTL DEF Spec

\* No error is a false alarm: neither the visit mark nor the step budget nor
\* the range or limit check raises one for a node that is in order.
THEOREM ErrorsAreSound == Spec => []ErrorsAreReal
<1>1. DepthInv => ErrorsAreReal
  BY DEF DepthInv, ErrorsAreReal
<1>. QED  BY <1>1, DepthInvCorrect, PTL

\* The marks and the stack agree, each node is stacked once and the stack is a
\* chain of parent links.
THEOREM StackIsAChain == Spec => []StackIsTheVisitingChain
<1>1. DepthInv => StackIsTheVisitingChain
  BY DEF DepthInv
<1>. QED  BY <1>1, DepthInvCorrect, PTL

\* Once a node is Complete no step touches its mark or its depth.
THEOREM CompleteStaysComplete == Spec => CompleteIsFinal
<1>1. TypeOK /\ DepthInv /\ [Next]_vars =>
        [\A n \in Nodes : visit[n] = "Complete" =>
            visit'[n] = "Complete" /\ depth'[n] = depth[n]]_vars
  <2> SUFFICES ASSUME TypeOK, DepthInv, Next, NEW n \in Nodes, visit[n] = "Complete"
               PROVE  visit'[n] = "Complete" /\ depth'[n] = depth[n]
    OBVIOUS
  <2>1. CASE UnwindRoot \/ UnwindChild
    <3>1. stack # <<>> /\ Chain
      BY <2>1, ChainDef DEF UnwindRoot, UnwindChild, DepthInv
    <3>2. Last(stack) \in OnStack
      <4>1. Len(stack) \in Nat \ {0} /\ Last(stack) = stack[Len(stack)]
        BY <3>1, PopProperties DEF TypeOK
      <4>. QED  BY <4>1 DEF OnStack
    <3>3. Last(stack) # n
      BY <3>1, <3>2 DEF Chain
    <3>. QED  BY <2>1, <3>3 DEF UnwindRoot, UnwindChild, Complete, MarksAfter, TypeOK
  <2>2. CASE VisitRoot \/ VisitStray \/ VisitChild
    BY <2>2 DEF VisitRoot, VisitStray, VisitChild, Visit, HasDepth, TypeOK
  <2>3. CASE ~(UnwindRoot \/ UnwindChild) /\ ~(VisitRoot \/ VisitStray \/ VisitChild)
    BY <2>3 DEF Next, Step, Returned, CheckParentCount, SkipComplete, BeginWalk, Finish,
       WalkMeetsComplete, WalkMeetsVisiting, WalkExhausted, UnwindPastLimit, UnwindDone, results, vars
  <2>. QED  BY <2>1, <2>2, <2>3
<1>. QED  BY <1>1, DepthInvCorrect, TypeCorrect, PTL DEF Spec, CompleteIsFinal

\* Every non-empty set of natural numbers has a least element.
LEMMA LeastElement ==
  ASSUME NEW S \in SUBSET Nat, S # {}
  PROVE  \E m \in S : \A x \in S : m <= x
<1>1. PICK m \in S : \A x \in S : ~(<<x, m>> \in OpToRel(<, Nat))
  BY NatLessThanWellFounded, WFMin
<1>2. \A x \in S : ~(x < m)
  BY <1>1 DEF OpToRel
<1>. QED  BY <1>2

\* The function never returns for a cyclic input: a least depth inside a
\* rootless closed set would have a parent of a smaller depth in that set.
THEOREM AcyclicOnReturn == Spec => []AcceptsNoCycle
<1>1. TypeOK /\ DepthInv => AcceptsNoCycle
  <2> SUFFICES ASSUME TypeOK, DepthInv, pc = "done" PROVE AcceptsNoCycle
    BY DEF AcceptsNoCycle
  <2>1. \A n \in Nodes : visit[n] = "Complete"
    BY NodeCountAssumption DEF DepthInv, LoopShape, Nodes
  <2>2. ASSUME NEW S \in SUBSET Nodes, S # {}, \A n \in S : ~IsRoot(n) /\ parent[n] \in S
        PROVE  FALSE
    <3> DEFINE D == {depth[n] : n \in S}
    <3>1. depth \in [Nodes -> Nat]
      BY MaxDepthAssumption DEF TypeOK
    <3>2. D \in SUBSET Nat /\ D # {}
      BY <2>2, <3>1
    <3>3. PICK m \in D : \A x \in D : m <= x
      BY <3>2, LeastElement
    <3>4. PICK n \in S : m = depth[n]
      OBVIOUS
    <3>5. parent[n] \in S /\ depth[n] = depth[parent[n]] + 1
      BY <2>1, <2>2, <3>4 DEF DepthInv, DepthsConsistent
    <3>6. depth[parent[n]] \in D
      BY <3>5
    <3>7. depth[parent[n]] \in Nat
      BY <3>1, <3>5
    <3>. QED  BY <3>3, <3>4, <3>5, <3>6, <3>7, SMTT(20)
  <2>. QED  BY <2>1, <2>2 DEF AcceptsNoCycle
<1>. QED  BY <1>1, TypeCorrect, DepthInvCorrect, PTL

-----------------------------------------------------------------------------
(* The depths are the numbers of links to the root. *)

\* What a set holds from zero up, step by step, it holds.
LEMMA Climb ==
  ASSUME NEW m \in Nat, NEW S, 0 \in S, \A k \in 0 .. m : k # m /\ k \in S => k + 1 \in S
  PROVE  \A k \in 0 .. m : k \in S
<1> SUFFICES ASSUME NEW b \in 0 .. m, b \notin S
             PROVE  FALSE
  OBVIOUS
<1> DEFINE missing == {k \in 0 .. m : k \notin S}
<1>1. missing \in SUBSET Nat /\ missing # {}
  OBVIOUS
<1>2. PICK l \in missing : \A k \in missing : l <= k
  BY <1>1, LeastElement
<1>3. l # 0 /\ l - 1 \in 0 .. m /\ l - 1 # m
  OBVIOUS
<1>4. l - 1 \in S
  BY <1>2, <1>3
<1> QED
  BY <1>3, <1>4

\* The end of one link, and the ends of the links one after the other.
NextUp(x) == IF x \notin Nodes \/ IsRoot(x) THEN NoParent ELSE parent[x]

Up(n) ==
  CHOOSE up : up = [k \in 0 .. NodeCount |->
    IF k = 0 THEN n
    ELSE IF up[k - 1] \notin Nodes \/ IsRoot(up[k - 1]) THEN NoParent
    ELSE parent[up[k - 1]]]

Ends(n) == {k \in 0 .. NodeCount : Up(n)[k] \in Nodes /\ IsRoot(Up(n)[k])}

LEMMA LinksAreEnds ==
  ASSUME NEW n
  PROVE  LinksToRoot(n) = IF Ends(n) = {} THEN NodeCount ELSE CHOOSE k \in Ends(n) : TRUE
BY DEF LinksToRoot, Ends, Up

\* Links can be followed any number of times.
LEMMA LinksCanBeFollowed ==
  ASSUME NEW n
  PROVE  \E g : g = [k \in 0 .. NodeCount |-> IF k = 0 THEN n ELSE NextUp(g[k - 1])]
<1> DEFINE follows(m, g) == g = [k \in 0 .. m |-> IF k = 0 THEN n ELSE NextUp(g[k - 1])]
           S == {m \in 0 .. NodeCount : \E g : follows(m, g)}
<1>1. 0 \in S
  <2>1. \A k \in 0 .. 0 : n = IF k = 0 THEN n ELSE NextUp([j \in 0 .. 0 |-> n][k - 1])
    OBVIOUS
  <2>2. follows(0, [k \in 0 .. 0 |-> n])
    BY <2>1
  <2>3. \E g : follows(0, g)
    <3> HIDE DEF follows
    <3> QED  BY <2>2
  <2> QED
    BY <2>3, NodeCountAssumption
<1>2. ASSUME NEW m \in 0 .. NodeCount, m # NodeCount, m \in S
      PROVE  m + 1 \in S
  <2>1. PICK g : follows(m, g)
    BY <1>2
  <2> DEFINE h == [k \in 0 .. m + 1 |-> IF k = m + 1 THEN NextUp(g[m]) ELSE g[k]]
  <2>2. \A k \in 0 .. m : g[k] = IF k = 0 THEN n ELSE NextUp(g[k - 1])
    BY <2>1
  <2>3. ASSUME NEW k \in 0 .. m + 1
        PROVE  h[k] = IF k = 0 THEN n ELSE NextUp(h[k - 1])
    <3>1. CASE k = m + 1
      <4>1. h[k] = NextUp(g[m]) /\ h[k - 1] = g[m] /\ k # 0
        BY <3>1
      <4> QED
        BY <4>1
    <3>2. CASE k # m + 1 /\ k # 0
      <4>1. k \in 0 .. m /\ k - 1 \in 0 .. m /\ k - 1 # m + 1
        BY <3>2
      <4>2. h[k] = g[k] /\ h[k - 1] = g[k - 1]
        BY <4>1, <3>2
      <4> QED
        BY <4>1, <4>2, <3>2, <2>2
    <3>3. CASE k = 0
      <4>1. h[k] = g[0] /\ 0 \in 0 .. m
        BY <3>3
      <4> QED
        BY <4>1, <3>3, <2>2
    <3> QED
      BY <3>1, <3>2, <3>3
  <2>4. follows(m + 1, h)
    BY <2>3
  <2>5. m + 1 \in 0 .. NodeCount
    BY <1>2, NodeCountAssumption
  <2> QED
    BY <2>4, <2>5
<1>3. NodeCount \in S
  <2> HIDE DEF S
  <2> QED  BY <1>1, <1>2, Climb, NodeCountAssumption
<1> QED
  BY <1>3

LEMMA UpStepByStep ==
  ASSUME NEW n
  PROVE  /\ Up(n)[0] = n
         /\ \A k \in 0 .. NodeCount : k # NodeCount => Up(n)[k + 1] = NextUp(Up(n)[k])
<1>1. \E g : g = [k \in 0 .. NodeCount |->
                    IF k = 0 THEN n
                    ELSE IF g[k - 1] \notin Nodes \/ IsRoot(g[k - 1]) THEN NoParent
                    ELSE parent[g[k - 1]]]
  <2>1. PICK g : g = [k \in 0 .. NodeCount |-> IF k = 0 THEN n ELSE NextUp(g[k - 1])]
    BY LinksCanBeFollowed
  <2>2. [k \in 0 .. NodeCount |-> IF k = 0 THEN n ELSE NextUp(g[k - 1])] =
        [k \in 0 .. NodeCount |->
           IF k = 0 THEN n
           ELSE IF g[k - 1] \notin Nodes \/ IsRoot(g[k - 1]) THEN NoParent
           ELSE parent[g[k - 1]]]
    BY DEF NextUp
  <2>3. g = [k \in 0 .. NodeCount |->
               IF k = 0 THEN n
               ELSE IF g[k - 1] \notin Nodes \/ IsRoot(g[k - 1]) THEN NoParent
               ELSE parent[g[k - 1]]]
    BY <2>1, <2>2
  <2> QED
    BY <2>3, Zenon
<1>2. Up(n) = [k \in 0 .. NodeCount |->
                    IF k = 0 THEN n
                    ELSE IF Up(n)[k - 1] \notin Nodes \/ IsRoot(Up(n)[k - 1]) THEN NoParent
                    ELSE parent[Up(n)[k - 1]]]
  BY <1>1 DEF Up
<1>3. \A k \in 0 .. NodeCount : Up(n)[k] = IF k = 0 THEN n ELSE NextUp(Up(n)[k - 1])
  BY <1>2 DEF NextUp
<1>4. \A k \in 0 .. NodeCount : k # NodeCount => k + 1 \in 0 .. NodeCount /\ k + 1 # 0 /\ (k + 1) - 1 = k
  BY NodeCountAssumption
<1>5. 0 \in 0 .. NodeCount
  BY NodeCountAssumption
<1> QED
  BY <1>3, <1>4, <1>5

\* Every link from a complete node lessens the depth by one, down to a root.
LEMMA DepthsFall ==
  ASSUME TypeOK, DepthsConsistent, NEW n \in Nodes, visit[n] = "Complete",
         NEW k \in 0 .. NodeCount, k <= depth[n]
  PROVE  /\ Up(n)[k] \in Nodes /\ visit[Up(n)[k]] = "Complete"
         /\ depth[Up(n)[k]] = depth[n] - k
<1> USE NodeCountAssumption, MaxDepthAssumption
<1> DEFINE falls(j) == /\ Up(n)[j] \in Nodes /\ visit[Up(n)[j]] = "Complete"
                       /\ depth[Up(n)[j]] = depth[n] - j
           S == {j \in 0 .. NodeCount : j <= depth[n] => falls(j)}
<1>1. \A x \in Nodes : depth[x] \in Nat
  BY DEF TypeOK
<1>2. 0 \in S
  BY <1>1, UpStepByStep
<1>3. ASSUME NEW j \in 0 .. NodeCount, j # NodeCount, j \in S
      PROVE  j + 1 \in S
  <2> SUFFICES ASSUME j + 1 <= depth[n] PROVE falls(j + 1)
    <3>1. j + 1 \in 0 .. NodeCount
      BY <1>3
    <3> HIDE DEF falls
    <3> QED  BY <3>1
  <2>1. falls(j)
    BY <1>1, <1>3
  <2> DEFINE x == Up(n)[j]
  <2>2. x \in Nodes /\ visit[x] = "Complete" /\ depth[x] # 0
    BY <2>1, <1>1
  <2>3. ~IsRoot(x) /\ parent[x] \in Nodes /\ visit[parent[x]] = "Complete" /\ depth[x] = depth[parent[x]] + 1
    BY <2>2 DEF DepthsConsistent
  <2>4. Up(n)[j + 1] = parent[x]
    BY <2>2, <2>3, <1>3, UpStepByStep DEF NextUp
  <2> QED
    BY <2>1, <2>3, <2>4, <1>1
<1>4. k \in S
  <2> HIDE DEF S
  <2> QED  BY <1>2, <1>3, Climb
<1> QED
  BY <1>4

\* There are fewer links than nodes.
LEMMA DepthsAreFewerThanNodes ==
  ASSUME TypeOK, DepthsConsistent, NEW n \in Nodes, visit[n] = "Complete"
  PROVE  depth[n] < NodeCount
<1> SUFFICES ASSUME NodeCount <= depth[n] PROVE FALSE
  BY NodeCountAssumption, MaxDepthAssumption DEF TypeOK
<1>0. depth[n] \in Nat
  BY MaxDepthAssumption DEF TypeOK
<1> DEFINE f == [k \in 0 .. NodeCount |-> Up(n)[k]]
<1>1. \A k \in 0 .. NodeCount : f[k] \in Nodes /\ depth[f[k]] = depth[n] - k
  BY <1>0, DepthsFall, NodeCountAssumption
<1>2. f \in [0 .. NodeCount -> Nodes]
  BY <1>1
<1>3. \A j, k \in 0 .. NodeCount : f[j] = f[k] => j = k
  <2> HIDE DEF f
  <2> QED  BY <1>0, <1>1
<1>4. f \in Injection(0 .. NodeCount, Nodes)
  BY <1>2, <1>3 DEF Injection, IsInjective
<1>5. /\ IsFiniteSet(Nodes) /\ Cardinality(Nodes) = NodeCount
      /\ Cardinality(0 .. NodeCount) = NodeCount + 1
  <2>1. IsFiniteSet(0 .. NodeCount - 1) /\ Cardinality(0 .. NodeCount - 1) = NodeCount
    BY NodeCountAssumption, FS_Interval
  <2>2. Cardinality(0 .. NodeCount) = NodeCount + 1
    BY NodeCountAssumption, FS_Interval
  <2> QED
    BY <2>1, <2>2 DEF Nodes
<1>6. Cardinality(0 .. NodeCount) <= Cardinality(Nodes)
  <2> HIDE DEF f
  <2> QED  BY <1>4, <1>5, FS_Injection
<1> QED
  BY <1>5, <1>6, NodeCountAssumption

\* Past a root and past a link to nowhere there is no node.
LEMMA NothingAbove ==
  ASSUME NEW n, NEW j \in 0 .. NodeCount, j # NodeCount, NextUp(Up(n)[j]) \notin Nodes,
         NEW k \in 0 .. NodeCount, j < k
  PROVE  Up(n)[k] \notin Nodes
<1> USE NodeCountAssumption
<1> DEFINE S == {i \in 0 .. NodeCount : j < i => Up(n)[i] \notin Nodes}
<1>1. 0 \in S
  OBVIOUS
<1>2. ASSUME NEW i \in 0 .. NodeCount, i # NodeCount, i \in S
      PROVE  i + 1 \in S
  <2>1. Up(n)[i + 1] = NextUp(Up(n)[i])
    BY <1>2, UpStepByStep
  <2>2. CASE i = j
    BY <2>1, <2>2
  <2>3. CASE j < i
    BY <1>2, <2>1, <2>3, NoParentAssumption DEF NextUp, Nodes
  <2> QED
    BY <2>2, <2>3
<1>3. k \in S
  <2> HIDE DEF S
  <2> QED  BY <1>1, <1>2, Climb
<1> QED
  BY <1>3

\* A complete node has its links to the root for depth.
LEMMA LinksOfComplete ==
  ASSUME TypeOK, DepthsConsistent, NEW n \in Nodes, visit[n] = "Complete"
  PROVE  Ends(n) = {depth[n]} /\ LinksToRoot(n) = depth[n]
<1> USE NodeCountAssumption
<1>1. depth[n] \in 0 .. NodeCount /\ depth[n] < NodeCount /\ \A x \in Nodes : depth[x] \in Nat
  BY DepthsAreFewerThanNodes, MaxDepthAssumption DEF TypeOK
<1>2. \A k \in 0 .. NodeCount : k <= depth[n] =>
        /\ Up(n)[k] \in Nodes /\ visit[Up(n)[k]] = "Complete"
        /\ depth[Up(n)[k]] = depth[n] - k
  BY DepthsFall
<1>3. \A x \in Nodes : visit[x] = "Complete" => (IsRoot(x) <=> depth[x] = 0)
  BY <1>1 DEF DepthsConsistent
<1>4. \A k \in 0 .. NodeCount : k <= depth[n] => (IsRoot(Up(n)[k]) <=> k = depth[n])
  BY <1>1, <1>2, <1>3
<1>5. NextUp(Up(n)[depth[n]]) \notin Nodes
  BY <1>1, <1>4, NoParentAssumption DEF NextUp, Nodes
<1>6. \A k \in 0 .. NodeCount : depth[n] < k => Up(n)[k] \notin Nodes
  BY <1>1, <1>5, NothingAbove
<1>7. Ends(n) = {depth[n]}
  BY <1>1, <1>2, <1>4, <1>6 DEF Ends
<1> QED
  BY <1>7, LinksAreEnds

\* The observed maximum is that of the depths recorded so far.
MaxInv ==
  /\ \A n \in Nodes : visit[n] = "Complete" => depth[n] <= observedMax
  /\ observedMax = 0 \/ \E n \in Nodes : visit[n] = "Complete" /\ depth[n] = observedMax

\* What an error says of the parents handed in.
ThrowInv ==
  pc = "throw" =>
    /\ error # "none"
    /\ error = "size_mismatch" => DOMAIN parent # Nodes
    /\ error # "size_mismatch" => parent \in [Nodes -> ParentValues]

LEMMA MaxStays ==
  ASSUME MaxInv, observedMax' = observedMax,
         \A n \in Nodes : /\ visit'[n] = "Complete" <=> visit[n] = "Complete"
                          /\ visit[n] = "Complete" => depth'[n] = depth[n]
  PROVE  MaxInv'
BY DEF MaxInv, Nodes

\* A node that is given its depth raises the maximum where need be.
LEMMA MaxRises ==
  ASSUME TypeOK, DepthInv, MaxInv, UnwindRoot \/ UnwindChild
  PROVE  MaxInv'
<1> DEFINE top == Last(stack)
<1>1. stack # <<>> /\ Chain
  BY ChainDef DEF UnwindRoot, UnwindChild, DepthInv
<1>2. top \in Nodes /\ visit[top] = "Visiting"
  <2>1. Len(stack) \in Nat \ {0} /\ top = stack[Len(stack)]
    BY <1>1, PopProperties DEF TypeOK
  <2>2. top \in OnStack
    BY <2>1 DEF OnStack
  <2> QED
    BY <1>1, <2>2 DEF Chain
<1>3. PICK d \in 0 .. MaxDepth : Complete(top, d)
  <2>1. CASE UnwindRoot
    BY <2>1, MaxDepthAssumption DEF UnwindRoot
  <2>2. CASE UnwindChild
    <3>1. baseDepth + 1 \in 0 .. MaxDepth
      BY <2>2, MaxDepthAssumption DEF UnwindChild, AtLimit, TypeOK
    <3> QED
      BY <2>2, <3>1 DEF UnwindChild
  <2> QED
    BY <2>1, <2>2
<1>4. /\ visit' = [visit EXCEPT ![top] = "Complete"] /\ depth' = [depth EXCEPT ![top] = d]
      /\ observedMax' = IF d > observedMax THEN d ELSE observedMax
  BY <1>3 DEF Complete, MarksAfter, RaisedMax
<1>5. visit \in [Nodes -> {"Unvisited", "Visiting", "Complete"}] /\ depth \in [Nodes -> 0 .. MaxDepth] /\ observedMax \in 0 .. MaxDepth
  BY DEF TypeOK
<1>6. visit'[top] = "Complete" /\ depth'[top] = d
  BY <1>2, <1>4, <1>5
<1>7. \A n \in Nodes : n # top => visit'[n] = visit[n] /\ depth'[n] = depth[n]
  BY <1>4, <1>5
<1> HIDE DEF top
<1>8. \A n \in Nodes : visit'[n] = "Complete" => depth'[n] <= observedMax'
  BY <1>4, <1>5, <1>6, <1>7, MaxDepthAssumption DEF MaxInv
<1>9. observedMax' = 0 \/ \E n \in Nodes : visit'[n] = "Complete" /\ depth'[n] = observedMax'
  <2>1. CASE d > observedMax
    BY <2>1, <1>2, <1>4, <1>6
  <2>2. CASE ~(d > observedMax)
    BY <2>2, <1>2, <1>4, <1>7 DEF MaxInv
  <2> QED
    BY <2>1, <2>2
<1> QED
  BY <1>8, <1>9 DEF MaxInv, Nodes

LEMMA MaxInvKept ==
  ASSUME TypeOK, DepthInv, MaxInv, [Next]_vars
  PROVE  MaxInv'
<1>1. CASE UnwindRoot \/ UnwindChild
  BY <1>1, MaxRises
<1>2. CASE VisitRoot \/ VisitStray \/ VisitChild
  <2>1. /\ current \in Nodes /\ visit[current] # "Complete"
        /\ visit' = [visit EXCEPT ![current] = "Visiting"]
        /\ depth' = depth /\ observedMax' = observedMax
    BY <1>2 DEF VisitRoot, VisitStray, VisitChild, Visit, HasDepth, TypeOK
  <2>2. \A n \in Nodes : visit'[n] = "Complete" <=> visit[n] = "Complete"
    BY <2>1 DEF TypeOK
  <2> QED
    BY <2>1, <2>2, MaxStays
<1>3. CASE ~(UnwindRoot \/ UnwindChild) /\ ~(VisitRoot \/ VisitStray \/ VisitChild)
  <2>1. visit' = visit /\ depth' = depth /\ observedMax' = observedMax
    BY <1>3 DEF Next, Step, Returned, CheckParentCount, SkipComplete, BeginWalk, Finish,
       WalkMeetsComplete, WalkMeetsVisiting, WalkExhausted, UnwindPastLimit, UnwindDone, results, vars
  <2> QED
    BY <2>1, MaxStays
<1> QED
  BY <1>1, <1>2, <1>3

LEMMA ThrowInvKept ==
  ASSUME TypeOK, DepthInv, ThrowInv, [Next]_vars
  PROVE  ThrowInv'
<1>1. CASE CheckParentCount
  BY <1>1 DEF CheckParentCount, Throw, ThrowInv, inputs, Nodes
<1>2. CASE WalkMeetsVisiting \/ WalkExhausted \/ VisitStray \/ UnwindPastLimit
  <2>1. /\ pc \notin {"check", "throw"} /\ parent' = parent
        /\ error' \in {"parent_cycle", "parent_out_of_range", "depth_limit"}
    BY <1>2 DEF WalkMeetsVisiting, WalkExhausted, VisitStray, Visit, UnwindPastLimit, Throw, inputs
  <2> QED
    BY <2>1 DEF ThrowInv, TypeOK, ParentValues, Nodes
<1>3. CASE ~(CheckParentCount \/ WalkMeetsVisiting \/ WalkExhausted \/ VisitStray \/ UnwindPastLimit)
  <2>1. pc' # "throw" \/ UNCHANGED <<pc, parent, error>>
    BY <1>3 DEF Next, Step, Returned, SkipComplete, BeginWalk, Finish, WalkMeetsComplete,
       VisitRoot, VisitChild, Visit, UnwindRoot, UnwindChild, UnwindDone, vars, inputs
  <2> QED
    BY <2>1 DEF ThrowInv, ParentValues, Nodes
<1> QED
  BY <1>1, <1>2, <1>3

LEMMA EndInvCorrect == Spec => []MaxInv /\ []ThrowInv
<1>1. Init => MaxInv /\ ThrowInv
  BY DEF Init, MaxInv, ThrowInv
<1> QED
  BY <1>1, MaxInvKept, ThrowInvKept, TypeCorrect, DepthInvCorrect, PTL DEF Spec

\* At every step, not only on return: a depth recorded is the parent's plus one,
\* zero at a root, and the observed maximum, which will choose the sort width,
\* is at least each depth recorded and, unless zero, one of them.
THEOREM DepthsAreConsistent == Spec => [](DepthsConsistent /\ MaxInv)
<1>1. DepthInv => DepthsConsistent
  BY DEF DepthInv
<1>. QED  BY <1>1, DepthInvCorrect, EndInvCorrect, PTL

-----------------------------------------------------------------------------

\* No links lead from a closed set without a root to a root.
LEMMA NoEndInACycle ==
  ASSUME NEW S \in SUBSET Nodes, \A x \in S : ~IsRoot(x) /\ parent[x] \in S, NEW n \in S
  PROVE  LinksToRoot(n) = NodeCount
<1> DEFINE T == {k \in 0 .. NodeCount : Up(n)[k] \in S}
<1>1. 0 \in T
  BY UpStepByStep, NodeCountAssumption
<1>2. ASSUME NEW k \in 0 .. NodeCount, k # NodeCount, k \in T
      PROVE  k + 1 \in T
  BY <1>2, UpStepByStep, NodeCountAssumption DEF NextUp
<1>3. \A k \in 0 .. NodeCount : k \in T
  <2> HIDE DEF T
  <2> QED  BY <1>1, <1>2, Climb, NodeCountAssumption
<1>4. Ends(n) = {}
  BY <1>3 DEF Ends
<1> QED
  BY <1>4, LinksAreEnds

\* A link out of range leads to no root.
LEMMA NoEndOutOfRange ==
  ASSUME NEW n \in Nodes, ~IsRoot(n), parent[n] \notin Nodes
  PROVE  LinksToRoot(n) = NodeCount
<1>1. 0 \in 0 .. NodeCount /\ 0 # NodeCount
  BY NodeCountAssumption DEF Nodes
<1>2. Up(n)[0] = n /\ NextUp(Up(n)[0]) \notin Nodes
  BY UpStepByStep DEF NextUp
<1>3. \A k \in 0 .. NodeCount : 0 < k => Up(n)[k] \notin Nodes
  BY <1>1, <1>2, NothingAbove
<1>4. \A k \in 0 .. NodeCount : k = 0 \/ 0 < k
  BY NodeCountAssumption
<1>5. Ends(n) = {}
  BY <1>2, <1>3, <1>4 DEF Ends
<1> QED
  BY <1>5, LinksAreEnds

\* From a node to the root there is a link more than from its parent.
LEMMA LinksBelowTheLimit ==
  ASSUME TypeOK, DepthsConsistent, NEW n \in Nodes, ~IsRoot(n), parent[n] \in Nodes,
         visit[parent[n]] = "Complete", depth[parent[n]] = MaxDepth
  PROVE  ~(LinksToRoot(n) < NodeCount /\ LinksToRoot(n) <= MaxDepth)
<1> USE NodeCountAssumption, MaxDepthAssumption
<1> DEFINE p == parent[n]
<1>1. Ends(p) = {MaxDepth}
  BY LinksOfComplete
<1> DEFINE S == {k \in 0 .. NodeCount : k # NodeCount => Up(n)[k + 1] = Up(p)[k]}
<1>2. 0 \in S
  BY UpStepByStep DEF NextUp
<1>3. ASSUME NEW k \in 0 .. NodeCount, k # NodeCount, k \in S
      PROVE  k + 1 \in S
  <2> SUFFICES ASSUME k + 1 # NodeCount PROVE Up(n)[k + 1 + 1] = Up(p)[k + 1]
    <3>1. k + 1 \in 0 .. NodeCount
      BY <1>3
    <3> QED  BY <3>1
  <2>1. k + 1 \in 0 .. NodeCount /\ Up(n)[k + 1] = Up(p)[k]
    BY <1>3
  <2> QED
    BY <2>1, <1>3, UpStepByStep
<1>4. \A k \in 0 .. NodeCount : k \in S
  <2> HIDE DEF S
  <2> QED  BY <1>2, <1>3, Climb
<1>5. ASSUME NEW k \in Ends(n)
      PROVE  k = MaxDepth + 1
  <2>1. k # 0
    BY UpStepByStep DEF Ends
  <2>2. k \in 0 .. NodeCount /\ k - 1 \in 0 .. NodeCount /\ k - 1 # NodeCount /\ (k - 1) + 1 = k
    BY <2>1 DEF Ends
  <2>3. Up(n)[k] = Up(p)[k - 1]
    BY <1>4, <2>2
  <2>4. k - 1 \in Ends(p)
    BY <2>2, <2>3 DEF Ends
  <2> QED
    BY <1>1, <2>2, <2>4
<1>6. CASE Ends(n) = {}
  BY <1>6, LinksAreEnds
<1>7. CASE Ends(n) # {}
  <2>1. LinksToRoot(n) \in Ends(n)
    BY <1>7, LinksAreEnds
  <2> QED
    BY <1>5, <2>1
<1> QED
  BY <1>6, <1>7

\* The function returns exactly for the forests no deeper than the limit, and
\* then every depth is the number of links to the root and the maximum observed
\* is their maximum.
THEOREM ReturnsExactly == Spec => []ReturnsTrueDepths
<1>1. TypeOK /\ DepthInv /\ MaxInv /\ ThrowInv => ReturnsTrueDepths
  <2> SUFFICES ASSUME TypeOK, DepthInv, MaxInv, ThrowInv PROVE ReturnsTrueDepths
    OBVIOUS
  <2>0. DepthsConsistent
    BY DEF DepthInv
  <2>1. ASSUME pc = "done"
        PROVE  /\ IsSortableForest /\ \A n \in Nodes : depth[n] = LinksToRoot(n)
               /\ \A n \in Nodes : depth[n] <= observedMax
               /\ observedMax = 0 \/ \E n \in Nodes : depth[n] = observedMax
    <3>1. \A n \in Nodes : visit[n] = "Complete"
      BY <2>1, NodeCountAssumption DEF DepthInv, LoopShape, Nodes
    <3>2. \A n \in Nodes : depth[n] = LinksToRoot(n) /\ depth[n] < NodeCount /\ depth[n] <= MaxDepth
      BY <2>0, <3>1, LinksOfComplete, DepthsAreFewerThanNodes, MaxDepthAssumption DEF TypeOK
    <3>3. DOMAIN parent = Nodes
      BY <2>1 DEF TypeOK
    <3>4. IsSortableForest
      BY <3>2, <3>3 DEF IsSortableForest
    <3> QED
      BY <3>1, <3>2, <3>4 DEF MaxInv
  <2>2. ASSUME pc = "throw", IsSortableForest
        PROVE  FALSE
    <3>1. DOMAIN parent = Nodes /\ \A n \in Nodes : LinksToRoot(n) < NodeCount /\ LinksToRoot(n) <= MaxDepth
      BY <2>2 DEF IsSortableForest
    <3>2. error \in {"parent_cycle", "parent_out_of_range", "depth_limit"}
      BY <2>2, <3>1 DEF ThrowInv, TypeOK
    <3>3. CASE error = "parent_cycle"
      <4>1. PICK S \in SUBSET Nodes : S # {} /\ \A n \in S : ~IsRoot(n) /\ parent[n] \in S
        BY <3>3 DEF DepthInv, CycleErrorIsReal
      <4>2. PICK n \in S : TRUE
        BY <4>1
      <4>3. LinksToRoot(n) = NodeCount
        BY <4>1, <4>2, NoEndInACycle
      <4> QED
        BY <3>1, <4>3, NodeCountAssumption
    <3>4. CASE error = "parent_out_of_range"
      <4>1. PICK n \in Nodes : ~IsRoot(n) /\ parent[n] \notin Nodes
        BY <3>4 DEF DepthInv, OtherErrorsAreReal
      <4>2. LinksToRoot(n) = NodeCount
        BY <4>1, NoEndOutOfRange
      <4> QED
        BY <3>1, <4>2, NodeCountAssumption
    <3>5. CASE error = "depth_limit"
      BY <2>0, <3>1, <3>5, LinksBelowTheLimit DEF DepthInv, OtherErrorsAreReal
    <3> QED
      BY <3>2, <3>3, <3>4, <3>5
  <2> QED
    BY <2>1, <2>2 DEF ReturnsTrueDepths
<1> QED
  BY <1>1, TypeCorrect, DepthInvCorrect, EndInvCorrect, PTL
=============================================================================
