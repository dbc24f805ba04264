---------------------------- MODULE SortedProofs ----------------------------
(***************************************************************************)
(* Proofs about VerifySorted: the verdict is exact for every container,    *)
(* every set of ids and every depth limit.  And about Demonstration: every *)
(* forest the program makes is sorted and then accepted, or its ids or its *)
(* depth are at fault.  And about SmallSorts: for ids with any number of   *)
(* bits, ranges of every size and every sequence of gaps, a sort keeps     *)
(* what it has ordered and ends with the entries as its oracle asks.       *)
(***************************************************************************)
EXTENDS Demonstration, SmallSorts, FiniteSets, Functions, TLAPS,
        FiniteSetTheorems, SequenceTheorems, WellFoundedInduction

\* The parent index the pass reads, and what it makes of it.
LEMMA ParentOfType ==
  ASSUME NEW n \in Nodes
  PROVE  /\ ParentOf(n) \in Nodes \cup {NoParent}
         /\ ParentOf(n) # NoParent => parentId[n] \notin Sentinels
BY NoParentAssumption DEF ParentOf

TypesOK ==
  /\ id \in [Nodes -> Ids] /\ parentId \in [Nodes -> Ids]
  /\ pc \in {"build", "verify", "done"}
  /\ parentIndex \in [Nodes -> Nodes \cup {NoParent}]
  /\ nodeIdx \in 0 .. NodeCount
  /\ verifiedDepth \in [Nodes -> 0 .. MaxDepth]
  /\ depthReady = {n \in Nodes : n < nodeIdx}
  /\ verdict \in BOOLEAN

\* The nodes the pass has accepted have the depths that any depths of the whole
\* container give them, and are in order.
PrefixOK ==
  /\ \A n \in Nodes : n < nodeIdx =>
       IF ParentOf(n) = NoParent
         THEN verifiedDepth[n] = 0
         ELSE ParentOf(n) < n /\ verifiedDepth[n] = verifiedDepth[ParentOf(n)] + 1
  /\ \A m, n \in Nodes : m < n /\ n < nodeIdx =>
       \/ verifiedDepth[m] < verifiedDepth[n]
       \/ verifiedDepth[m] = verifiedDepth[n] /\ id[m] < id[n]
  /\ \A d \in [Nodes -> 0 .. MaxDepth] :
       AreDepths(d) => \A n \in Nodes : n < nodeIdx => d[n] = verifiedDepth[n]

\* The inductive invariant.
VerifyInv ==
  /\ TypesOK
  /\ pc = "build" => nodeIdx = 0 /\ verdict
  /\ pc # "build" /\ verdict => DistinctIds /\ parentIndex = [n \in Nodes |-> ParentOf(n)]
  /\ pc = "verify" => verdict
  /\ pc = "done" /\ verdict => nodeIdx = NodeCount
  /\ PrefixOK
  /\ pc = "done" /\ ~verdict => ~Canonical

LEMMA InitVerifyInv == Init => VerifyInv
<1> SUFFICES ASSUME Init PROVE VerifyInv
  OBVIOUS
<1>1. TypesOK
  BY NodeCountAssumption, MaxDepthAssumption DEF Init, TypesOK, Nodes
<1>2. PrefixOK
  BY NodeCountAssumption DEF Init, PrefixOK, Nodes
<1>3. NodeCount = 0 => Nodes = {}
  BY DEF Nodes
<1>4. NodeCount = 0 => DistinctIds /\ parentIndex = [n \in Nodes |-> ParentOf(n)]
  BY <1>3 DEF Init, DistinctIds
<1>. QED
  BY <1>1, <1>2, <1>4, NodeCountAssumption DEF Init, VerifyInv

LEMMA BuildKeepsVerifyInv ==
  ASSUME VerifyInv, BuildParentIndex \/ DuplicateIdCaught
  PROVE  VerifyInv'
<1>1. /\ UNCHANGED <<id, parentId, nodeIdx, verifiedDepth, depthReady>>
      /\ pc = "build" /\ nodeIdx = 0 /\ verdict
  BY DEF BuildParentIndex, DuplicateIdCaught, inputs, VerifyInv
<1>2. PrefixOK'
  BY <1>1 DEF PrefixOK, Nodes
<1>3. CASE BuildParentIndex
  <2>1. TypesOK'
    BY <1>1, <1>3, ParentOfType DEF BuildParentIndex, VerifyInv, TypesOK
  <2>2. DistinctIds' /\ parentIndex' = [n \in Nodes |-> ParentOf(n)']
    BY <1>1, <1>3 DEF BuildParentIndex, DistinctIds, ParentOf
  <2>. QED  BY <2>1, <2>2, <1>1, <1>2, <1>3 DEF BuildParentIndex, VerifyInv
<1>4. CASE DuplicateIdCaught
  <2>1. TypesOK'
    BY <1>1, <1>4 DEF DuplicateIdCaught, VerifyInv, TypesOK
  <2>2. ~Canonical'
    BY <1>1, <1>4 DEF DuplicateIdCaught, Canonical, DistinctIds
  <2>. QED  BY <2>1, <2>2, <1>1, <1>2, <1>4 DEF DuplicateIdCaught, VerifyInv
<1>. QED  BY <1>3, <1>4

\* What the pass knows of the node it looks at.
LEMMA PassFacts ==
  ASSUME VerifyInv, pc = "verify", nodeIdx < NodeCount
  PROVE  /\ nodeIdx \in Nodes /\ NodeCount \in Nat /\ nodeIdx \in Nat
         /\ DistinctIds /\ id \in [Nodes -> Nat]
         /\ parentIndex[nodeIdx] = ParentOf(nodeIdx)
         /\ HasParent(nodeIdx) <=> ParentOf(nodeIdx) # NoParent
         /\ verifiedDepth \in [Nodes -> 0 .. MaxDepth]
         /\ HasParent(nodeIdx) => ParentOf(nodeIdx) \in Nodes
         /\ ParentOf(nodeIdx) \in depthReady <=>
              ParentOf(nodeIdx) \in Nodes /\ ParentOf(nodeIdx) < nodeIdx
<1>1. nodeIdx \in Nodes /\ NodeCount \in Nat /\ nodeIdx \in Nat
  BY NodeCountAssumption DEF VerifyInv, TypesOK, Nodes
<1>2. /\ DistinctIds /\ id \in [Nodes -> Nat]
      /\ parentIndex[nodeIdx] = ParentOf(nodeIdx)
      /\ verifiedDepth \in [Nodes -> 0 .. MaxDepth]
  BY <1>1, IdsAssumption DEF VerifyInv, TypesOK
<1>3. HasParent(nodeIdx) <=> ParentOf(nodeIdx) # NoParent
  BY <1>1, <1>2, ParentOfType DEF HasParent
<1>4. ParentOf(nodeIdx) \in depthReady <=>
        ParentOf(nodeIdx) \in Nodes /\ ParentOf(nodeIdx) < nodeIdx
  BY DEF VerifyInv, TypesOK
<1>. QED  BY <1>1, <1>2, <1>3, <1>4, ParentOfType

\* Accepting a node: its depth and its place are those of the whole container.
LEMMA AcceptKeepsVerifyInv ==
  ASSUME VerifyInv, Accept
  PROVE  VerifyInv'
<1> DEFINE n == nodeIdx
           parent == ParentOf(n)
           current == CurrentDepth(n)
<1>1. /\ UNCHANGED <<id, parentId, pc, parentIndex, verdict>>
      /\ pc = "verify" /\ n < NodeCount
      /\ HasParent(n) => ParentAllows(n)
      /\ InOrder(n)
      /\ verifiedDepth' = [verifiedDepth EXCEPT ![n] = current]
      /\ depthReady' = depthReady \cup {n}
      /\ nodeIdx' = n + 1
  BY DEF Accept, inputs, NextNode
<1>2. /\ n \in Nodes /\ NodeCount \in Nat /\ n \in Nat /\ DistinctIds /\ id \in [Nodes -> Nat]
      /\ verifiedDepth \in [Nodes -> 0 .. MaxDepth]
      /\ parentIndex[n] = parent /\ (HasParent(n) <=> parent # NoParent)
  BY <1>1, PassFacts
<1>3. HasParent(n) => /\ parent \in Nodes /\ parent < n
                      /\ verifiedDepth[parent] # MaxDepth
                      /\ current = verifiedDepth[parent] + 1
  <2> SUFFICES ASSUME HasParent(n)
               PROVE  /\ parent \in Nodes /\ parent < n
                      /\ verifiedDepth[parent] # MaxDepth
                      /\ current = verifiedDepth[parent] + 1
    OBVIOUS
  <2>1. parent \in depthReady /\ verifiedDepth[parent] # MaxDepth
    BY <1>1, <1>2 DEF ParentAllows
  <2>2. parent \in Nodes /\ parent < n
    BY <2>1, <1>1, PassFacts
  <2>. QED  BY <2>1, <2>2, <1>2 DEF CurrentDepth
<1>4. parent = NoParent => current = 0
  BY <1>2 DEF CurrentDepth
<1>5. current \in 0 .. MaxDepth
  <2>1. CASE HasParent(n)
    <3>1. verifiedDepth[parent] \in 0 .. MaxDepth
      BY <2>1, <1>2, <1>3
    <3>. QED  BY <3>1, <2>1, <1>3, MaxDepthAssumption
  <2>2. CASE ~HasParent(n)
    BY <2>2, <1>2, <1>4, MaxDepthAssumption
  <2>. QED  BY <2>1, <2>2
<1> HIDE DEF current
<1>6. /\ verifiedDepth' \in [Nodes -> 0 .. MaxDepth]
      /\ verifiedDepth'[n] = current
      /\ \A m \in Nodes : m # n => verifiedDepth'[m] = verifiedDepth[m]
  BY <1>1, <1>2, <1>5
<1>7. TypesOK'
  <2>1. nodeIdx' \in 0 .. NodeCount
    BY <1>1, <1>2
  <2>2. \A m \in Nodes : m < n + 1 <=> m < n \/ m = n
    BY <1>2 DEF Nodes
  <2>3. depthReady' = {m \in Nodes : m < nodeIdx'}
    BY <2>2, <1>1, <1>2 DEF VerifyInv, TypesOK
  <2>. QED  BY <2>1, <2>3, <1>1, <1>6 DEF VerifyInv, TypesOK
<1>8. \A m \in Nodes : ParentOf(m)' = ParentOf(m)
  BY <1>1 DEF ParentOf
<1>9. ASSUME NEW m \in Nodes, m < n + 1
      PROVE  IF ParentOf(m) = NoParent
               THEN verifiedDepth'[m] = 0
               ELSE ParentOf(m) < m /\ verifiedDepth'[m] = verifiedDepth'[ParentOf(m)] + 1
  <2>1. CASE m = n
    BY <2>1, <1>2, <1>3, <1>4, <1>6 DEF Nodes
  <2>2. CASE m # n
    <3>1. m < n
      BY <2>2, <1>9, <1>2 DEF Nodes
    <3>2. IF ParentOf(m) = NoParent
            THEN verifiedDepth[m] = 0
            ELSE ParentOf(m) < m /\ verifiedDepth[m] = verifiedDepth[ParentOf(m)] + 1
      BY <3>1 DEF VerifyInv, PrefixOK
    <3>3. ParentOf(m) # NoParent => ParentOf(m) \in Nodes /\ ParentOf(m) # n
      BY <3>1, <3>2, <1>2, ParentOfType DEF Nodes
    <3>. QED  BY <2>2, <3>2, <3>3, <1>6
  <2>. QED  BY <2>1, <2>2
<1>10. ASSUME NEW m \in Nodes, NEW k \in Nodes, m < k, k < n + 1
       PROVE  \/ verifiedDepth'[m] < verifiedDepth'[k]
              \/ verifiedDepth'[m] = verifiedDepth'[k] /\ id[m] < id[k]
  <2>1. CASE k # n
    <3>1. k < n /\ m # n
      BY <2>1, <1>10, <1>2 DEF Nodes
    <3>2. \/ verifiedDepth[m] < verifiedDepth[k]
          \/ verifiedDepth[m] = verifiedDepth[k] /\ id[m] < id[k]
      BY <3>1, <1>10 DEF VerifyInv, PrefixOK
    <3>. QED  BY <3>1, <3>2, <2>1, <1>6
  <2>2. CASE k = n
    <3>1. n > 0 /\ n - 1 \in Nodes /\ n - 1 < n /\ m # n /\ (m < n - 1 \/ m = n - 1)
      BY <2>2, <1>10, <1>2 DEF Nodes
    <3>2. /\ id[m] \in Nat /\ id[n - 1] \in Nat /\ id[n] \in Nat /\ id[n] # id[n - 1]
          /\ verifiedDepth[m] \in 0 .. MaxDepth /\ verifiedDepth[n - 1] \in 0 .. MaxDepth
      BY <3>1, <1>2 DEF DistinctIds
    <3>3. \/ verifiedDepth[n - 1] < current
          \/ verifiedDepth[n - 1] = current /\ id[n - 1] < id[n]
      BY <3>1, <3>2, <1>1, <1>5 DEF InOrder, current
    <3>4. \/ m = n - 1
          \/ verifiedDepth[m] < verifiedDepth[n - 1]
          \/ verifiedDepth[m] = verifiedDepth[n - 1] /\ id[m] < id[n - 1]
      BY <3>1 DEF VerifyInv, PrefixOK
    <3>5. \/ verifiedDepth[m] < current
          \/ verifiedDepth[m] = current /\ id[m] < id[n]
      BY <3>2, <3>3, <3>4, <1>5, MaxDepthAssumption
    <3>. QED  BY <3>1, <3>5, <2>2, <1>6
  <2>. QED  BY <2>1, <2>2
<1>11. ASSUME NEW d \in [Nodes -> 0 .. MaxDepth], AreDepths(d), NEW m \in Nodes, m < n + 1
       PROVE  d[m] = verifiedDepth'[m]
  <2>1. \A k \in Nodes : k < n => d[k] = verifiedDepth[k]
    BY <1>11 DEF VerifyInv, PrefixOK
  <2>2. CASE m = n
    <3>1. d[n] = IF parent = NoParent THEN 0 ELSE d[parent] + 1
      BY <1>2, <1>11 DEF AreDepths
    <3>. QED  BY <3>1, <2>1, <2>2, <1>2, <1>3, <1>4, <1>6
  <2>3. CASE m # n
    <3>1. m < n
      BY <2>3, <1>11, <1>2 DEF Nodes
    <3>. QED  BY <3>1, <2>1, <2>3, <1>6
  <2>. QED  BY <2>2, <2>3
<1>12. PrefixOK'
  <2>1. \A d : AreDepths(d)' <=> AreDepths(d)
    BY <1>8 DEF AreDepths
  <2>. QED  BY <2>1, <1>1, <1>8, <1>9, <1>10, <1>11 DEF PrefixOK
<1>13. DistinctIds' /\ parentIndex' = [m \in Nodes |-> ParentOf(m)']
  BY <1>1, <1>2, <1>8 DEF DistinctIds, VerifyInv
<1>. QED  BY <1>1, <1>7, <1>12, <1>13 DEF VerifyInv

\* Rejecting a node: no depths of the whole container put it in order.
LEMMA RejectIsJustified ==
  ASSUME VerifyInv, pc = "verify", nodeIdx < NodeCount,
         ~((HasParent(nodeIdx) => ParentAllows(nodeIdx)) /\ InOrder(nodeIdx))
  PROVE  ~Canonical
<1> DEFINE n == nodeIdx
           parent == ParentOf(n)
<1> SUFFICES ASSUME NEW d \in [Nodes -> 0 .. MaxDepth], AreDepths(d), OrderedBy(d)
             PROVE  FALSE
  BY DEF Canonical
<1>1. /\ n \in Nodes /\ NodeCount \in Nat /\ n \in Nat /\ id \in [Nodes -> Nat]
      /\ verifiedDepth \in [Nodes -> 0 .. MaxDepth]
      /\ parentIndex[n] = parent /\ (HasParent(n) <=> parent # NoParent)
      /\ HasParent(n) => parent \in Nodes
      /\ parent \in depthReady <=> parent \in Nodes /\ parent < n
  BY PassFacts
<1>2. \A k \in Nodes : k < n => d[k] = verifiedDepth[k]
  BY DEF VerifyInv, PrefixOK
<1>3. d[n] = IF parent = NoParent THEN 0 ELSE d[parent] + 1
  BY <1>1 DEF AreDepths
<1>4. \A m, k \in Nodes : m < k => d[m] < d[k] \/ (d[m] = d[k] /\ id[m] < id[k])
  BY DEF OrderedBy
<1>5. ASSUME HasParent(n) PROVE ParentAllows(n)
  <2>1. /\ parent \in Nodes /\ d[n] = d[parent] + 1
        /\ d[parent] \in 0 .. MaxDepth /\ d[n] \in 0 .. MaxDepth
    BY <1>1, <1>3, <1>5
  <2>2. ~(n < parent) /\ n # parent
    <3>1. d[parent] \in Nat /\ d[n] \in Nat
      BY <2>1, MaxDepthAssumption
    <3>2. ~(d[n] < d[parent]) /\ d[n] # d[parent]
      BY <2>1, <3>1
    <3>. QED  BY <2>1, <3>2, <1>1, <1>4
  <2>3. parent < n
    BY <2>1, <2>2, <1>1 DEF Nodes
  <2>4. verifiedDepth[parent] # MaxDepth
    BY <2>1, <2>3, <1>2, MaxDepthAssumption
  <2>. QED  BY <2>1, <2>3, <2>4, <1>1 DEF ParentAllows
<1>6. InOrder(n)
  <2>1. CurrentDepth(n) = d[n]
    <3>1. CASE HasParent(n)
      <4>1. parent \in Nodes /\ parent < n
        BY <3>1, <1>1, <1>5 DEF ParentAllows
      <4>. QED  BY <4>1, <3>1, <1>1, <1>2, <1>3 DEF CurrentDepth
    <3>2. CASE ~HasParent(n)
      BY <3>2, <1>1, <1>3 DEF CurrentDepth
    <3>. QED  BY <3>1, <3>2
  <2>2. CASE n > 0
    <3>1. n - 1 \in Nodes /\ n - 1 < n
      BY <2>2, <1>1 DEF Nodes
    <3>2. /\ d[n - 1] \in 0 .. MaxDepth /\ d[n] \in 0 .. MaxDepth
          /\ id[n - 1] \in Nat /\ id[n] \in Nat /\ d[n - 1] = verifiedDepth[n - 1]
      BY <3>1, <1>1, <1>2
    <3>3. d[n - 1] < d[n] \/ (d[n - 1] = d[n] /\ id[n - 1] < id[n])
      BY <3>1, <1>1, <1>4
    <3>. QED  BY <3>2, <3>3, <2>1, MaxDepthAssumption DEF InOrder
  <2>3. CASE ~(n > 0)
    BY <2>3 DEF InOrder
  <2>. QED  BY <2>2, <2>3
<1>. QED  BY <1>5, <1>6

LEMMA OtherStepsKeepVerifyInv ==
  ASSUME VerifyInv, Reject \/ AllAccepted \/ UNCHANGED vars
  PROVE  VerifyInv'
<1>1. UNCHANGED <<id, parentId, parentIndex, nodeIdx, verifiedDepth, depthReady>>
  BY DEF Reject, AllAccepted, vars, inputs
<1>2. PrefixOK' /\ (DistinctIds' <=> DistinctIds) /\ (Canonical' <=> Canonical)
      /\ \A n : ParentOf(n)' = ParentOf(n)
  BY <1>1 DEF VerifyInv, PrefixOK, DistinctIds, Canonical, AreDepths, OrderedBy, ParentOf
<1>3. CASE Reject
  <2>1. ~Canonical
    BY <1>3, RejectIsJustified DEF Reject
  <2>. QED  BY <2>1, <1>1, <1>2, <1>3 DEF Reject, VerifyInv, TypesOK
<1>4. CASE AllAccepted
  <2>1. nodeIdx = NodeCount
    BY <1>4, NodeCountAssumption DEF AllAccepted, VerifyInv, TypesOK
  <2>. QED  BY <2>1, <1>1, <1>2, <1>4 DEF AllAccepted, VerifyInv, TypesOK
<1>5. CASE UNCHANGED vars
  BY <1>1, <1>2, <1>5 DEF vars, VerifyInv, TypesOK
<1>. QED  BY <1>3, <1>4, <1>5

LEMMA VerifyInvCorrect == Spec => []VerifyInv
<1>1. VerifyInv /\ [Next]_vars => VerifyInv'
  BY BuildKeepsVerifyInv, AcceptKeepsVerifyInv, OtherStepsKeepVerifyInv DEF Next, Step, Returned
<1>. QED  BY InitVerifyInv, <1>1, PTL DEF Spec

-----------------------------------------------------------------------------

\* No depth the pass computes is past the last value its width holds.
THEOREM TypeCorrect == Spec => []TypeOK
<1>1. VerifyInv => TypeOK
  BY DEF VerifyInv, TypesOK, TypeOK
<1>. QED  BY <1>1, VerifyInvCorrect, PTL

LEMMA VerdictIsExact == VerifyInv => AcceptedIsCanonical /\ RejectedIsNotCanonical
<1>1. ASSUME VerifyInv, pc = "done", verdict
      PROVE  Canonical
  <2>1. /\ DistinctIds /\ nodeIdx = NodeCount /\ PrefixOK
        /\ verifiedDepth \in [Nodes -> 0 .. MaxDepth]
    BY <1>1 DEF VerifyInv, TypesOK
  <2>2. \A n \in Nodes : n < nodeIdx
    BY <2>1, NodeCountAssumption DEF Nodes
  <2>3. AreDepths(verifiedDepth) /\ OrderedBy(verifiedDepth)
    BY <2>1, <2>2 DEF PrefixOK, AreDepths, OrderedBy
  <2>. QED  BY <2>1, <2>3 DEF Canonical
<1>2. VerifyInv => RejectedIsNotCanonical
  BY DEF VerifyInv, RejectedIsNotCanonical
<1>. QED  BY <1>1, <1>2 DEF AcceptedIsCanonical

\* What the verifier accepts is in canonical order.
THEOREM AcceptanceIsSound == Spec => []AcceptedIsCanonical
BY VerdictIsExact, VerifyInvCorrect, PTL

\* What the verifier rejects is not in canonical order.
THEOREM RejectionIsSound == Spec => []RejectedIsNotCanonical
BY VerdictIsExact, VerifyInvCorrect, PTL

-----------------------------------------------------------------------------
(* The demonstration program: what it makes can be sorted unless two ids    *)
(* are equal or a chain is too long.  First, an order always exists.        *)

\* Every non-empty set of natural numbers has a least element.
LEMMA LeastElement ==
  ASSUME NEW S \in SUBSET Nat, S # {}
  PROVE  \E m \in S : \A x \in S : m <= x
<1>1. PICK m \in S : \A x \in S : ~(<<x, m>> \in OpToRel(<, Nat))
  BY NatLessThanWellFounded, WFMin
<1>2. \A x \in S : ~(x < m)
  BY <1>1 DEF OpToRel
<1>. QED  BY <1>2

\* What holds of zero, and of the next number whenever of one, holds of all.
LEMMA Climb ==
  ASSUME NEW S, 0 \in S, \A k \in Nat : k \in S => k + 1 \in S
  PROVE  \A k \in Nat : k \in S
<1> SUFFICES ASSUME NEW b \in Nat, b \notin S
             PROVE  FALSE
  OBVIOUS
<1> DEFINE missing == {k \in Nat : k \notin S}
<1>1. missing \in SUBSET Nat /\ missing # {}
  OBVIOUS
<1>2. PICK l \in missing : \A k \in missing : l <= k
  BY <1>1, LeastElement
<1>3. l # 0 /\ l - 1 \in Nat
  OBVIOUS
<1>4. l - 1 \in S
  BY <1>2, <1>3
<1>. QED  BY <1>3, <1>4

\* By depth d, then by key; and the place of an entry.
Comes(d, keyOf, m, n) == d[m] < d[n] \/ (d[m] = d[n] /\ keyOf[m] < keyOf[n])
Earlier(d, keyOf, count, n) == {m \in 0 .. count - 1 : Comes(d, keyOf, m, n)}
PlaceOf(d, keyOf, count, n) == Cardinality(Earlier(d, keyOf, count, n))

\* A place is one of the container's.
LEMMA PlaceBound ==
  ASSUME NEW count \in Nat, NEW d \in [0 .. count - 1 -> Nat], NEW keyOf \in [0 .. count - 1 -> Nat],
         NEW n \in 0 .. count - 1
  PROVE  IsFiniteSet(Earlier(d, keyOf, count, n)) /\ PlaceOf(d, keyOf, count, n) \in 0 .. count - 1
<1>1. IsFiniteSet(0 .. count - 1) /\ Cardinality(0 .. count - 1) = count
  BY FS_Interval
<1>2. Earlier(d, keyOf, count, n) \in SUBSET (0 .. count - 1) /\ Earlier(d, keyOf, count, n) # 0 .. count - 1
  <2>1. n \notin Earlier(d, keyOf, count, n)
    BY DEF Earlier, Comes
  <2>. QED  BY <2>1 DEF Earlier
<1>3. /\ IsFiniteSet(Earlier(d, keyOf, count, n)) /\ Cardinality(Earlier(d, keyOf, count, n)) \in Nat
      /\ Cardinality(Earlier(d, keyOf, count, n)) <= count /\ Cardinality(Earlier(d, keyOf, count, n)) # count
  BY <1>1, <1>2, FS_Subset, FS_CardinalityType
<1>. QED  BY <1>3 DEF PlaceOf

\* What comes earlier has the lower place.
LEMMA PlaceRises ==
  ASSUME NEW count \in Nat, NEW d \in [0 .. count - 1 -> Nat], NEW keyOf \in [0 .. count - 1 -> Nat],
         NEW m \in 0 .. count - 1, NEW n \in 0 .. count - 1, Comes(d, keyOf, m, n)
  PROVE  PlaceOf(d, keyOf, count, m) < PlaceOf(d, keyOf, count, n)
<1>1. Earlier(d, keyOf, count, m) \in SUBSET Earlier(d, keyOf, count, n)
  <2>1. SUFFICES ASSUME NEW k \in 0 .. count - 1, Comes(d, keyOf, k, m) PROVE Comes(d, keyOf, k, n)
    BY DEF Earlier
  <2>2. /\ d[k] \in Nat /\ d[m] \in Nat /\ d[n] \in Nat
        /\ keyOf[k] \in Nat /\ keyOf[m] \in Nat /\ keyOf[n] \in Nat
    OBVIOUS
  <2>. QED  BY <2>1, <2>2 DEF Comes
<1>2. m \in Earlier(d, keyOf, count, n) /\ m \notin Earlier(d, keyOf, count, m)
  BY DEF Earlier, Comes
<1>3. /\ IsFiniteSet(Earlier(d, keyOf, count, n))
      /\ PlaceOf(d, keyOf, count, m) \in 0 .. count - 1 /\ PlaceOf(d, keyOf, count, n) \in 0 .. count - 1
  BY PlaceBound
<1>4. PlaceOf(d, keyOf, count, m) <= PlaceOf(d, keyOf, count, n) /\ PlaceOf(d, keyOf, count, m) # PlaceOf(d, keyOf, count, n)
  BY <1>1, <1>2, <1>3, FS_Subset DEF PlaceOf
<1>. QED  BY <1>3, <1>4

\* Different keys can always be put in order.
LEMMA OrderExists ==
  ASSUME NEW count \in Nat, NEW d \in [0 .. count - 1 -> Nat], NEW keyOf \in [0 .. count - 1 -> Nat],
         \A m, n \in 0 .. count - 1 : keyOf[m] = keyOf[n] => m = n
  PROVE  \E p \in [0 .. count - 1 -> 0 .. count - 1] :
           /\ \A i, j \in 0 .. count - 1 : p[i] = p[j] => i = j
           /\ \A i, j \in 0 .. count - 1 : i < j => Comes(d, keyOf, p[i], p[j])
<1> DEFINE T == 0 .. count - 1
           place == [n \in T |-> PlaceOf(d, keyOf, count, n)]
<1>1. place \in [T -> T]
  BY PlaceBound
<1>2. \A m, n \in T : Comes(d, keyOf, m, n) => place[m] < place[n]
  BY PlaceRises
<1>3. \A m, n \in T : m = n \/ Comes(d, keyOf, m, n) \/ Comes(d, keyOf, n, m)
  <2> SUFFICES ASSUME NEW m \in T, NEW n \in T, m # n
               PROVE  Comes(d, keyOf, m, n) \/ Comes(d, keyOf, n, m)
    OBVIOUS
  <2>1. d[m] \in Nat /\ d[n] \in Nat /\ keyOf[m] \in Nat /\ keyOf[n] \in Nat /\ keyOf[m] # keyOf[n]
    OBVIOUS
  <2>. QED  BY <2>1 DEF Comes
<1>4. IsFiniteSet(T) /\ \A n \in T : n \in Nat
  BY FS_Interval
<1> HIDE DEF T, place
<1>5. \A m, n \in T : place[m] \in Nat /\ place[n] \in Nat
  BY <1>1, <1>4
<1>6. \A m, n \in T : place[m] = place[n] => m = n
  BY <1>2, <1>3, <1>5
<1>7. place \in Surjection(T, T)
  <2>1. place \in Injection(T, T)
    BY <1>1, <1>6 DEF Injection, IsInjective
  <2>. QED  BY <2>1, <1>4, FS_Injection
<1> DEFINE p == [i \in T |-> CHOOSE n \in T : place[n] = i]
<1>8. \A i \in T : p[i] \in T /\ place[p[i]] = i
  <2> SUFFICES ASSUME NEW i \in T PROVE p[i] \in T /\ place[p[i]] = i
    OBVIOUS
  <2>1. \E n \in T : place[n] = i
    BY <1>7 DEF Surjection
  <2>. QED  BY <2>1
<1>9. p \in [T -> T]
  BY <1>8
<1> HIDE DEF p
<1>10. \A i, j \in T : p[i] = p[j] => i = j
  BY <1>8
<1>11. ASSUME NEW i \in T, NEW j \in T, i < j
       PROVE  Comes(d, keyOf, p[i], p[j])
  <2>1. p[i] \in T /\ p[j] \in T /\ place[p[i]] = i /\ place[p[j]] = j
    BY <1>8
  <2>2. p[i] # p[j] /\ ~(place[p[j]] < place[p[i]])
    BY <2>1, <1>4, <1>11
  <2>. QED  BY <2>1, <2>2, <1>2, <1>3
<1>12. /\ p \in [T -> T]
       /\ \A i, j \in T : p[i] = p[j] => i = j
       /\ \A i, j \in T : i < j => Comes(d, keyOf, p[i], p[j])
  BY <1>9, <1>10, <1>11
<1>. QED  BY <1>12 DEF T

(* Depths always exist, or a chain is too long. *)

\* So many parents above one another, down to n.
IsChain(R, count, chain, length, n) ==
  /\ chain \in [0 .. length -> 0 .. count - 1] /\ chain[length] = n
  /\ \A i \in 0 .. length - 1 : <<chain[i], chain[i + 1]>> \in R

\* The depth of n, with its chain.
HasDepth(R, count, d, k, n) ==
  /\ d[n] <= n
  /\ IF \E m \in 0 .. count - 1 : <<m, n>> \in R
       THEN \E m \in 0 .. k - 1 : <<m, n>> \in R /\ d[n] = d[m] + 1 ELSE d[n] = 0
  /\ \E chain : IsChain(R, count, chain, d[n], n)

\* R holds a node's parent and the node; parents come first.
LEMMA DepthsExist ==
  ASSUME NEW count \in Nat, NEW limit \in Nat, NEW R,
         \A m, n \in 0 .. count - 1 : <<m, n>> \in R => m < n,
         \A k, m, n \in 0 .. count - 1 : <<k, n>> \in R /\ <<m, n>> \in R => k = m,
         \A chain, n : ~IsChain(R, count, chain, limit + 1, n)
  PROVE  \E d \in [0 .. count - 1 -> 0 .. limit] : \A n \in 0 .. count - 1 : HasDepth(R, count, d, count, n)
<1> DEFINE Good(k) == \E d \in [0 .. k - 1 -> 0 .. limit] : \A n \in 0 .. k - 1 : HasDepth(R, count, d, k, n)
           S == {k \in Nat : k <= count => Good(k)}
<1>1. 0 \in S
  <2>1. 0 .. 0 - 1 = {}
    OBVIOUS
  <2>2. [n \in {} |-> 0] \in [{} -> 0 .. limit]
    OBVIOUS
  <2>3. Good(0)
    BY <2>1, <2>2, Zenon
  <2>. QED  BY <2>3
<1>2. ASSUME NEW k \in Nat, k \in S PROVE k + 1 \in S
  <2>1. SUFFICES ASSUME k < count PROVE Good(k + 1)
    OBVIOUS
  <2>2. PICK d \in [0 .. k - 1 -> 0 .. limit] : \A n \in 0 .. k - 1 : HasDepth(R, count, d, k, n)
    BY <1>2, <2>1
  <2>3. k \in 0 .. count - 1 /\ (\A n \in 0 .. k : n \in 0 .. k - 1 \/ n = k) /\ k + 1 - 1 = k
        /\ (\A n \in 0 .. k - 1 : n \in 0 .. k /\ n # k /\ n \in 0 .. count - 1)
    BY <2>1
  <2>4. ASSUME NEW e \in 0 .. limit, e <= k,
               IF \E m \in 0 .. count - 1 : <<m, k>> \in R
                 THEN \E m \in 0 .. k - 1 : <<m, k>> \in R /\ e = d[m] + 1 ELSE e = 0,
               \E chain : IsChain(R, count, chain, e, k)
        PROVE  Good(k + 1)
    <3> DEFINE f == [n \in 0 .. k |-> IF n = k THEN e ELSE d[n]]
    <3>1. f \in [0 .. k -> 0 .. limit] /\ f[k] = e /\ \A n \in 0 .. k - 1 : f[n] = d[n]
      BY <2>3
    <3> HIDE DEF f
    <3>2. ASSUME NEW n \in 0 .. k - 1 PROVE HasDepth(R, count, f, k + 1, n)
      <4>1. HasDepth(R, count, d, k, n)
        BY <2>2
      <4>2. f[n] = d[n] /\ \A m \in 0 .. k - 1 : m \in 0 .. (k + 1) - 1 /\ f[m] = d[m]
        BY <3>1, <2>3
      <4>. QED  BY <4>1, <4>2 DEF HasDepth
    <3>3. HasDepth(R, count, f, k + 1, k)
      <4>1. f[k] = e /\ \A m \in 0 .. k - 1 : m \in 0 .. (k + 1) - 1 /\ f[m] = d[m]
        BY <3>1, <2>3
      <4>. QED  BY <4>1, <2>4 DEF HasDepth
    <3>4. \A n \in 0 .. k : HasDepth(R, count, f, k + 1, n)
      BY <3>2, <3>3, <2>3
    <3>. QED  BY <3>1, <3>4, <2>3
  <2>5. CASE ~\E m \in 0 .. count - 1 : <<m, k>> \in R
    <3>1. IsChain(R, count, [i \in 0 .. 0 |-> k], 0, k)
      BY <2>3 DEF IsChain
    <3>2. 0 \in 0 .. limit /\ 0 <= k
      OBVIOUS
    <3>. QED  BY <3>1, <3>2, <2>4, <2>5
  <2>6. ASSUME NEW m \in 0 .. count - 1, <<m, k>> \in R PROVE Good(k + 1)
    <3>1. m \in 0 .. k - 1
      BY <2>6, <2>3
    <3>2. d[m] \in 0 .. limit /\ HasDepth(R, count, d, k, m)
      BY <3>1, <2>2
    <3>3. PICK g \in 0 .. limit : g = d[m]
      BY <3>2
    <3>4. PICK chain : IsChain(R, count, chain, g, m)
      BY <3>2, <3>3 DEF HasDepth
    <3> DEFINE longer == [i \in 0 .. g + 1 |-> IF i = g + 1 THEN k ELSE chain[i]]
    <3>5. IsChain(R, count, longer, g + 1, k)
      <4>1. chain \in [0 .. g -> 0 .. count - 1] /\ chain[g] = m
            /\ \A i \in 0 .. g - 1 : <<chain[i], chain[i + 1]>> \in R
        BY <3>4 DEF IsChain
      <4>2. longer \in [0 .. g + 1 -> 0 .. count - 1] /\ longer[g + 1] = k
            /\ \A i \in 0 .. g : longer[i] = chain[i]
        BY <4>1, <3>3, <2>3
      <4> HIDE DEF longer
      <4>3. ASSUME NEW i \in 0 .. (g + 1) - 1 PROVE <<longer[i], longer[i + 1]>> \in R
        <5>1. CASE i = g
          <6>1. longer[i] = m /\ longer[i + 1] = k
            BY <5>1, <4>1, <4>2, <3>3
          <6>. QED  BY <6>1, <2>6
        <5>2. CASE i # g
          <6>1. i \in 0 .. g - 1 /\ i \in 0 .. g /\ i + 1 \in 0 .. g
            BY <5>2, <3>3
          <6>. QED  BY <6>1, <4>1, <4>2
        <5>. QED  BY <5>1, <5>2
      <4>. QED  BY <4>2, <4>3 DEF IsChain
    <3> HIDE DEF longer
    <3>6. g # limit
      BY <3>5
    <3>7. g + 1 \in 0 .. limit /\ g + 1 <= k
      <4>1. g <= m
        BY <3>2, <3>3 DEF HasDepth
      <4>. QED  BY <4>1, <3>1, <3>3, <3>6
    <3>. QED  BY <3>1, <3>3, <3>5, <3>7, <2>4, <2>6
  <2>. QED  BY <2>5, <2>6
<1> HIDE DEF S
<1>3. count \in S
  BY <1>1, <1>2, Climb
<1>. QED  BY <1>3 DEF S

(* What the sort promises of the nodes made. *)

MadeIds == [n \in Nodes |-> nodes[n + 1].id]
MadeDistinct == \A m, n \in Nodes : MadeIds[m] = MadeIds[n] => m = n
MadeParent(m, n) == nodes[n + 1].parentId \notin Sentinels /\ MadeIds[m] = nodes[n + 1].parentId
MadeDepths(d) ==
  \A n \in Nodes : IF \E m \in Nodes : MadeParent(m, n)
                     THEN \E m \in Nodes : MadeParent(m, n) /\ d[n] = d[m] + 1
                     ELSE d[n] = 0
IsAnswer(p) ==
  /\ p \in [Nodes -> Nodes] /\ \A i, j \in Nodes : p[i] = p[j] => i = j
  /\ MadeDistinct
  /\ \E d \in [Nodes -> Nodes] :
       /\ MadeDepths(d) /\ \A n \in Nodes : d[n] <= MaxDepth
       /\ \A i, j \in Nodes : i < j => Comes(d, MadeIds, p[i], p[j])

LEMMA AnswersAre == \A p : p \in Order!Answers <=> IsAnswer(p)
<1>1. Order!Nodes = Nodes
  BY DEF Order!Nodes, Nodes
<1>2. ~Order!Trivial
  BY DEF Order!Trivial
<1>3. Order!DistinctIds <=> MadeDistinct
  BY <1>1 DEF Order!DistinctIds, MadeDistinct, MadeIds
<1>4. \A m, n \in Nodes : Order!IsParent(m, n) <=> MadeParent(m, n)
  BY DEF Order!IsParent, MadeParent, MadeIds
<1>5. \A d : Order!AreDepths(d) <=> MadeDepths(d)
  BY <1>1, <1>4 DEF Order!AreDepths, MadeDepths
<1>6. Order!SortingDepths = {d \in [Nodes -> Nodes] : MadeDepths(d) /\ \A n \in Nodes : d[n] <= MaxDepth}
  BY <1>1, <1>5 DEF Order!SortingDepths, Order!ForestDepths
<1>7. \A p \in [Nodes -> Nodes] : \A d : Order!OrderedBy(p, d) <=>
        \A i, j \in Nodes : i < j => Comes(d, MadeIds, p[i], p[j])
  BY <1>1 DEF Order!OrderedBy, Comes, MadeIds
<1>8. Order!Permutations = {p \in [Nodes -> Nodes] : \A i, j \in Nodes : p[i] = p[j] => i = j}
  BY <1>1 DEF Order!Permutations
<1>. QED  BY <1>2, <1>3, <1>6, <1>7, <1>8 DEF Order!Answers, IsAnswer

\* The nodes made so far, each for a node made before it.
MadeOK ==
  /\ nodes \in Seq([id : Ids, parentId : Ids]) /\ Len(nodes) <= NodeCount
  /\ \A k \in 1 .. Len(nodes) :
       nodes[k].parentId = 0 \/ \E j \in 1 .. k - 1 : nodes[j].id = nodes[k].parentId

AllMade == MadeOK /\ Len(nodes) = NodeCount

LEMMA MadeTypes ==
  ASSUME AllMade
  PROVE  /\ NodeCount \in Nat /\ MadeIds \in [Nodes -> Ids] /\ MadeIds \in [Nodes -> Nat]
         /\ \A n \in Nodes : n \in Nat /\ n + 1 \in 1 .. Len(nodes) /\ nodes[n + 1].parentId \in Ids
<1>1. NodeCount \in Nat /\ nodes \in Seq([id : Ids, parentId : Ids]) /\ Len(nodes) = NodeCount
  BY NodeCountAssumption DEF AllMade, MadeOK
<1>2. \A k \in 1 .. Len(nodes) : nodes[k] \in [id : Ids, parentId : Ids]
  BY <1>1, ElementOfSeq
<1>3. \A n \in Nodes : n \in Nat /\ n + 1 \in 1 .. Len(nodes)
  BY <1>1 DEF Nodes
<1>. QED  BY <1>1, <1>2, <1>3, IdsAssumption DEF MadeIds

\* A parent was made before its children.
LEMMA ParentsComeFirst ==
  ASSUME AllMade, MadeDistinct, NEW m \in Nodes, NEW n \in Nodes, MadeParent(m, n)
  PROVE  m < n
<1>1. nodes[n + 1].parentId # 0 /\ n + 1 \in 1 .. Len(nodes) /\ n \in Nat /\ m \in Nat
  BY ZeroAssumption, MadeTypes DEF MadeParent
<1>2. PICK j \in 1 .. (n + 1) - 1 : nodes[j].id = nodes[n + 1].parentId
  BY <1>1 DEF AllMade, MadeOK
<1>3. j - 1 \in Nodes /\ (j - 1) + 1 = j /\ j - 1 < n
  BY <1>1, MadeTypes DEF Nodes
<1>4. MadeIds[j - 1] = MadeIds[m]
  BY <1>2, <1>3 DEF MadeParent, MadeIds
<1>. QED  BY <1>3, <1>4 DEF MadeDistinct

\* What the sort returns is in canonical order.
LEMMA AnswersAreCanonical ==
  ASSUME AllMade, NEW p, IsAnswer(p),
         id' = [n \in Nodes |-> nodes[p[n] + 1].id],
         parentId' = [n \in Nodes |-> nodes[p[n] + 1].parentId]
  PROVE  Canonical'
<1> PICK newId : newId = id'
  OBVIOUS
<1> PICK newParent : newParent = parentId'
  OBVIOUS
<1>1. /\ p \in [Nodes -> Nodes] /\ \A i, j \in Nodes : p[i] = p[j] => i = j
      /\ MadeDistinct
  BY DEF IsAnswer
<1>2. PICK d \in [Nodes -> Nodes] :
        /\ MadeDepths(d) /\ \A n \in Nodes : d[n] <= MaxDepth
        /\ \A i, j \in Nodes : i < j => Comes(d, MadeIds, p[i], p[j])
  BY DEF IsAnswer
<1>3. \A m \in Nodes : \E n \in Nodes : p[n] = m
  <2>1. IsFiniteSet(Nodes)
    BY FS_Interval, NodeCountAssumption DEF Nodes
  <2>2. p \in Injection(Nodes, Nodes)
    BY <1>1 DEF Injection, IsInjective
  <2>3. p \in Surjection(Nodes, Nodes)
    BY <2>1, <2>2, FS_Injection
  <2>. QED  BY <2>3 DEF Surjection
<1>4. \A n \in Nodes : newId[n] = MadeIds[p[n]] /\ newParent[n] = nodes[p[n] + 1].parentId
  BY <1>1 DEF MadeIds
<1>5. \A m, n \in Nodes : newId[m] = newId[n] => m = n
  BY <1>1, <1>4 DEF MadeDistinct
<1>6. PICK e \in [Nodes -> 0 .. MaxDepth] : \A n \in Nodes : e[n] = d[p[n]]
  <2>1. \A n \in Nodes : d[p[n]] \in Nodes /\ d[p[n]] <= MaxDepth /\ n \in Nat
    BY <1>1, <1>2 DEF Nodes
  <2>2. [n \in Nodes |-> d[p[n]]] \in [Nodes -> 0 .. MaxDepth]
    BY <2>1, MaxDepthAssumption
  <2>. QED  BY <2>2
<1> DEFINE parent(n) == IF newParent[n] \notin Sentinels /\ \E m \in Nodes : newId[m] = newParent[n]
                          THEN CHOOSE m \in Nodes : newId[m] = newParent[n]
                          ELSE NoParent
<1>7. ASSUME NEW n \in Nodes
      PROVE  e[n] = IF parent(n) = NoParent THEN 0 ELSE e[parent(n)] + 1
  <2>1. p[n] \in Nodes
    BY <1>1
  <2>2. CASE \E m \in Nodes : MadeParent(m, p[n])
    <3>1. PICK m \in Nodes : MadeParent(m, p[n]) /\ d[p[n]] = d[m] + 1
      BY <2>1, <2>2, <1>2 DEF MadeDepths
    <3>2. PICK l \in Nodes : p[l] = m
      BY <1>3
    <3>3. newParent[n] \notin Sentinels /\ newId[l] = newParent[n]
      BY <3>1, <3>2, <1>4 DEF MadeParent
    <3>4. (CHOOSE k \in Nodes : newId[k] = newParent[n]) = l
      BY <3>3, <1>5
    <3>5. parent(n) = l /\ l # NoParent
      BY <3>3, <3>4, NoParentAssumption DEF Nodes
    <3>. QED  BY <3>1, <3>2, <3>5, <1>6
  <2>3. CASE ~\E m \in Nodes : MadeParent(m, p[n])
    <3>1. d[p[n]] = 0
      BY <2>1, <2>3, <1>2 DEF MadeDepths
    <3>2. parent(n) = NoParent
      BY <2>1, <2>3, <1>1, <1>4 DEF MadeParent
    <3>. QED  BY <3>1, <3>2, <1>6
  <2>. QED  BY <2>2, <2>3
<1>8. AreDepths(e)'
  <2> SUFFICES ASSUME NEW n \in Nodes
               PROVE  (e[n] = IF ParentOf(n) = NoParent THEN 0 ELSE e[ParentOf(n)] + 1)'
    BY DEF AreDepths
  <2>1. ParentOf(n)' = parent(n)
    BY DEF ParentOf
  <2>. QED  BY <2>1, <1>7
<1>9. OrderedBy(e)'
  <2>1. \A m, n \in Nodes : m < n => e[m] < e[n] \/ (e[m] = e[n] /\ newId[m] < newId[n])
    BY <1>2, <1>4, <1>6 DEF Comes
  <2>. QED  BY <2>1 DEF OrderedBy
<1>10. DistinctIds'
  BY <1>5 DEF DistinctIds
<1>. QED  BY <1>6, <1>8, <1>9, <1>10 DEF Canonical

\* When it throws, two ids are equal or a chain is too long.
LEMMA FailureIsJustified ==
  ASSUME AllMade, \A p : ~IsAnswer(p), MadeDistinct
  PROVE  TooDeep
<1> SUFFICES ASSUME ~TooDeep PROVE FALSE
  OBVIOUS
<1> DEFINE R == {link \in Nodes \X Nodes : MadeParent(link[1], link[2])}
<1>1. \A m, n \in Nodes : <<m, n>> \in R <=> MadeParent(m, n)
  OBVIOUS
<1>2. NodeCount \in Nat /\ Nodes = 0 .. NodeCount - 1 /\ MaxDepth \in Nat
  BY NodeCountAssumption, MaxDepthAssumption DEF Nodes
<1> HIDE DEF R
<1>3. \A m, n \in Nodes : <<m, n>> \in R => m < n
  BY <1>1, ParentsComeFirst
<1>4. \A k, m, n \in Nodes : <<k, n>> \in R /\ <<m, n>> \in R => k = m
  BY <1>1 DEF MadeParent, MadeDistinct
<1>5. ASSUME NEW chain, NEW n, IsChain(R, NodeCount, chain, MaxDepth + 1, n) PROVE FALSE
  <2>1. /\ chain \in [0 .. MaxDepth + 1 -> Nodes]
        /\ \A i \in 0 .. MaxDepth : i \in 0 .. MaxDepth + 1 /\ i + 1 \in 0 .. MaxDepth + 1
        /\ \A i \in 0 .. MaxDepth : <<chain[i], chain[i + 1]>> \in R
    BY <1>2, <1>5 DEF IsChain
  <2> DEFINE c == [i \in 0 .. MaxDepth + 1 |-> chain[i] + 1]
  <2>2. c \in [0 .. MaxDepth + 1 -> 1 .. Len(nodes)]
    BY <2>1, MadeTypes
  <2>3. ASSUME NEW k \in 0 .. MaxDepth
        PROVE  /\ c[k] < c[k + 1] /\ nodes[c[k + 1]].parentId = nodes[c[k]].id
               /\ nodes[c[k]].id \notin Sentinels
    <3>1. PICK a \in Nodes : a = chain[k]
      BY <2>1
    <3>2. PICK b \in Nodes : b = chain[k + 1]
      BY <2>1
    <3>3. c[k] = a + 1 /\ c[k + 1] = b + 1
      BY <2>1, <3>1, <3>2
    <3>4. <<a, b>> \in R
      BY <2>1, <3>1, <3>2
    <3>5. MadeParent(a, b) /\ a < b /\ a \in Nat /\ b \in Nat
      BY <1>1, <1>3, <3>4, MadeTypes
    <3>6. nodes[b + 1].parentId = nodes[a + 1].id /\ nodes[a + 1].id \notin Sentinels
      BY <3>5 DEF MadeParent, MadeIds
    <3> HIDE DEF c
    <3>7. c[k] < c[k + 1]
      BY <3>3, <3>5
    <3>. QED  BY <3>3, <3>6, <3>7
  <2> HIDE DEF c
  <2>. QED  BY <2>2, <2>3 DEF TooDeep
<1>6. \E d \in [0 .. NodeCount - 1 -> 0 .. MaxDepth] :
        \A n \in 0 .. NodeCount - 1 : HasDepth(R, NodeCount, d, NodeCount, n)
  BY <1>2, <1>3, <1>4, <1>5, DepthsExist
<1>7. PICK d \in [Nodes -> 0 .. MaxDepth] : \A n \in Nodes : HasDepth(R, NodeCount, d, NodeCount, n)
  BY <1>2, <1>6
<1>8. d \in [Nodes -> Nodes] /\ d \in [Nodes -> Nat] /\ \A n \in Nodes : d[n] <= MaxDepth
  <2>1. \A n \in Nodes : d[n] \in 0 .. MaxDepth /\ d[n] <= n
    BY <1>7 DEF HasDepth
  <2>2. \A n \in Nodes : d[n] \in Nodes /\ d[n] \in Nat /\ d[n] <= MaxDepth
    BY <2>1, <1>2
  <2>. QED  BY <2>2, <1>7
<1>9. MadeDepths(d)
  <2> SUFFICES ASSUME NEW n \in Nodes
               PROVE  IF \E m \in Nodes : MadeParent(m, n)
                        THEN \E m \in Nodes : MadeParent(m, n) /\ d[n] = d[m] + 1
                        ELSE d[n] = 0
    BY DEF MadeDepths
  <2>1. IF \E m \in Nodes : <<m, n>> \in R
          THEN \E m \in Nodes : <<m, n>> \in R /\ d[n] = d[m] + 1 ELSE d[n] = 0
    BY <1>2, <1>7 DEF HasDepth
  <2>. QED  BY <1>1, <2>1
<1>10. \E p \in [Nodes -> Nodes] :
         /\ \A i, j \in Nodes : p[i] = p[j] => i = j
         /\ \A i, j \in Nodes : i < j => Comes(d, MadeIds, p[i], p[j])
  <2>1. MadeIds \in [0 .. NodeCount - 1 -> Nat]
    BY <1>2, MadeTypes
  <2>2. \A m, n \in 0 .. NodeCount - 1 : MadeIds[m] = MadeIds[n] => m = n
    BY <1>2 DEF MadeDistinct
  <2>3. d \in [0 .. NodeCount - 1 -> Nat]
    BY <1>2, <1>8
  <2>4. \E p \in [0 .. NodeCount - 1 -> 0 .. NodeCount - 1] :
           /\ \A i, j \in 0 .. NodeCount - 1 : p[i] = p[j] => i = j
           /\ \A i, j \in 0 .. NodeCount - 1 : i < j => Comes(d, MadeIds, p[i], p[j])
    BY <1>2, <2>1, <2>2, <2>3, OrderExists
  <2>. QED  BY <1>2, <2>4
<1>. QED  BY <1>8, <1>9, <1>10 DEF IsAnswer

-----------------------------------------------------------------------------
(* The program's run. *)

\* Before the sort the verifier has not started.
NotStarted ==
  /\ pc = "idle" /\ parentIndex = [n \in Nodes |-> NoParent]
  /\ nodeIdx = 0 /\ verifiedDepth = [n \in Nodes |-> 0] /\ depthReady = {} /\ verdict = TRUE

EqualIds == \E m, n \in 1 .. Len(nodes) : m # n /\ nodes[m].id = nodes[n].id

\* The inductive invariant: what was sorted stays in canonical order while it
\* is verified.
DemonstrationInv ==
  /\ stage \in {"called", "make", "sort", "verify", "exited"}
  /\ MadeOK
  /\ stage \in {"make", "sort"} => NotStarted
  /\ stage = "sort" => NodeCount > 0 /\ Len(nodes) = NodeCount
  /\ stage \in {"called", "verify"} => VerifyInv
  /\ stage = "verify" => Canonical
  /\ stage = "exited" =>
       IF exitCode = 0 THEN VerifyInv /\ Canonical /\ pc = "done"
       ELSE pc = "idle" /\ (TooDeep \/ EqualIds)

LEMMA InitDemonstrationInv == DemonstrationInit => DemonstrationInv
<1>1. SUFFICES ASSUME DemonstrationInit PROVE DemonstrationInv
  OBVIOUS
<1>2. MadeOK
  <2>1. nodes = <<>> /\ Len(nodes) = 0 /\ 1 .. 0 = {}
    BY <1>1 DEF DemonstrationInit
  <2>. QED  BY <2>1, NodeCountAssumption DEF MadeOK
<1>3. CASE CallerInit
  <2>1. VerifyInv
    BY <1>3, InitVerifyInv DEF CallerInit
  <2>. QED  BY <2>1, <1>2, <1>3 DEF CallerInit, DemonstrationInv
<1>4. CASE MainInit
  BY <1>2, <1>4 DEF MainInit, NotStarted, DemonstrationInv
<1>. QED  BY <1>1, <1>3, <1>4 DEF DemonstrationInit

\* A node made is a root or has its parent before it.
LEMMA MakeKeepsDemonstrationInv ==
  ASSUME DemonstrationInv, MakeNode
  PROVE  DemonstrationInv'
<1>1. /\ stage = "make" /\ Len(nodes) < NodeCount /\ UNCHANGED <<vars, exitCode>>
      /\ stage' = IF Len(nodes) + 1 = NodeCount THEN "sort" ELSE "make"
  BY DEF MakeNode
<1>2. PICK randomId \in Ids, parent \in ParentPicks :
        nodes' = Append(nodes, [id |-> randomId, parentId |-> parent])
  BY DEF MakeNode
<1>3. nodes \in Seq([id : Ids, parentId : Ids]) /\ Len(nodes) \in Nat /\ NodeCount \in Nat
  BY NodeCountAssumption DEF DemonstrationInv, MadeOK
<1>4. parent \in Ids /\ (parent = 0 \/ \E j \in 1 .. Len(nodes) : nodes[j].id = parent)
  <2>1. \A k \in 1 .. Len(nodes) : nodes[k] \in [id : Ids, parentId : Ids]
    BY <1>3, ElementOfSeq
  <2>. QED  BY <2>1, ZeroAssumption DEF ParentPicks
<1>5. [id |-> randomId, parentId |-> parent] \in [id : Ids, parentId : Ids]
  BY <1>4
<1>6. /\ nodes' \in Seq([id : Ids, parentId : Ids]) /\ Len(nodes') = Len(nodes) + 1
      /\ \A k \in 1 .. Len(nodes) : nodes'[k] = nodes[k]
      /\ nodes'[Len(nodes) + 1] = [id |-> randomId, parentId |-> parent]
  BY <1>2, <1>3, <1>5, AppendProperties
<1>7. ASSUME NEW k \in 1 .. Len(nodes) + 1
      PROVE  nodes'[k].parentId = 0 \/ \E j \in 1 .. k - 1 : nodes'[j].id = nodes'[k].parentId
  <2>1. CASE k = Len(nodes) + 1
    <3>1. 1 .. k - 1 = 1 .. Len(nodes) /\ nodes'[k].parentId = parent
      BY <2>1, <1>3, <1>6
    <3>. QED  BY <3>1, <1>4, <1>6
  <2>2. CASE k # Len(nodes) + 1
    <3>1. k \in 1 .. Len(nodes) /\ \A j \in 1 .. k - 1 : j \in 1 .. Len(nodes)
      BY <2>2, <1>3
    <3>. QED  BY <3>1, <1>6 DEF DemonstrationInv, MadeOK
  <2>. QED  BY <2>1, <2>2
<1>8. MadeOK'
  <2>1. Len(nodes') <= NodeCount
    BY <1>1, <1>3, <1>6
  <2>. QED  BY <2>1, <1>6, <1>7 DEF MadeOK
<1>9. NotStarted'
  BY <1>1 DEF DemonstrationInv, NotStarted, vars
<1>10. stage' = "sort" => NodeCount > 0 /\ Len(nodes') = NodeCount
  BY <1>1, <1>3, <1>6
<1>. QED  BY <1>1, <1>8, <1>9, <1>10 DEF DemonstrationInv

\* What the sort returns is in canonical order, and the verifier starts.
LEMMA SortKeepsDemonstrationInv ==
  ASSUME DemonstrationInv, SortCopy
  PROVE  DemonstrationInv'
<1>1. /\ stage = "sort" /\ pc' = "build" /\ stage' = "verify"
      /\ UNCHANGED <<parentIndex, nodeIdx, verifiedDepth, depthReady, verdict, nodes, exitCode>>
  BY DEF SortCopy
<1>2. AllMade /\ NodeCount > 0 /\ NotStarted
  BY <1>1 DEF DemonstrationInv, AllMade
<1>3. PICK answer \in Order!Answers :
        /\ id' = [n \in Nodes |-> nodes[answer[n] + 1].id]
        /\ parentId' = [n \in Nodes |-> nodes[answer[n] + 1].parentId]
  BY DEF SortCopy
<1>4. IsAnswer(answer)
  BY <1>3, AnswersAre
<1>5. Canonical'
  BY <1>2, <1>3, <1>4, AnswersAreCanonical
<1>6. Init'
  <2>1. \A n \in Nodes : answer[n] \in Nodes
    BY <1>4 DEF IsAnswer
  <2>2. \A k \in 1 .. Len(nodes) : nodes[k] \in [id : Ids, parentId : Ids]
    BY <1>2, ElementOfSeq DEF AllMade, MadeOK
  <2>3. \A n \in Nodes : nodes[answer[n] + 1] \in [id : Ids, parentId : Ids]
    BY <1>2, <2>1, <2>2, MadeTypes
  <2>4. id' \in [Nodes -> Ids] /\ parentId' \in [Nodes -> Ids]
    BY <1>3, <2>3
  <2>. QED  BY <1>1, <1>2, <2>4 DEF Init, NotStarted
<1>7. VerifyInv'
  BY <1>6, InitVerifyInv, PTL
<1>8. MadeOK'
  BY <1>1, <1>2 DEF AllMade, MadeOK
<1>. QED  BY <1>1, <1>5, <1>7, <1>8 DEF DemonstrationInv

\* When it throws, it says why.
LEMMA FailureKeepsDemonstrationInv ==
  ASSUME DemonstrationInv, SortFails
  PROVE  DemonstrationInv'
<1>1. /\ stage = "sort" /\ Order!Answers = {} /\ stage' = "exited" /\ exitCode' = 1
      /\ UNCHANGED <<vars, nodes>>
  BY DEF SortFails
<1>2. AllMade /\ NotStarted
  BY <1>1 DEF DemonstrationInv, AllMade
<1>3. TooDeep \/ EqualIds
  <2>1. CASE MadeDistinct
    <3>1. \A p : ~IsAnswer(p)
      BY <1>1, AnswersAre
    <3>. QED  BY <3>1, <2>1, <1>2, FailureIsJustified
  <2>2. CASE ~MadeDistinct
    <3>1. PICK m \in Nodes, n \in Nodes : MadeIds[m] = MadeIds[n] /\ m # n
      BY <2>2 DEF MadeDistinct
    <3>2. m + 1 \in 1 .. Len(nodes) /\ n + 1 \in 1 .. Len(nodes) /\ m \in Nat /\ n \in Nat
      BY <1>2, MadeTypes
    <3>3. m + 1 # n + 1
      BY <3>1, <3>2
    <3>4. nodes[m + 1].id = nodes[n + 1].id
      BY <3>1 DEF MadeIds
    <3>. QED  BY <3>2, <3>3, <3>4 DEF EqualIds
  <2>. QED  BY <2>1, <2>2
<1>4. TooDeep' \/ EqualIds'
  BY <1>1, <1>3 DEF TooDeep, EqualIds
<1>5. MadeOK' /\ pc' = "idle"
  BY <1>1, <1>2 DEF AllMade, MadeOK, NotStarted, vars
<1>. QED  BY <1>1, <1>4, <1>5 DEF DemonstrationInv

LEMMA VerifyKeepsDemonstrationInv ==
  ASSUME DemonstrationInv, Verify
  PROVE  DemonstrationInv'
<1>1. stage \in {"called", "verify"} /\ Step /\ UNCHANGED <<stage, nodes, exitCode>> /\ VerifyInv
  BY DEF Verify, programVars, DemonstrationInv
<1>2. VerifyInv'
  BY <1>1, BuildKeepsVerifyInv, AcceptKeepsVerifyInv, OtherStepsKeepVerifyInv DEF Step
<1>3. UNCHANGED <<id, parentId>>
  BY <1>1 DEF Step, BuildParentIndex, DuplicateIdCaught, Accept, Reject, AllAccepted, inputs
<1>4. Canonical => Canonical'
  BY <1>3 DEF Canonical, DistinctIds, AreDepths, OrderedBy, ParentOf
<1>5. MadeOK'
  BY <1>1 DEF DemonstrationInv, MadeOK
<1>. QED  BY <1>1, <1>2, <1>4, <1>5 DEF DemonstrationInv

\* The program ends, or nothing changes.
LEMMA EndKeepsDemonstrationInv ==
  ASSUME DemonstrationInv, Exit \/ Ended \/ UNCHANGED allVars
  PROVE  DemonstrationInv'
<1>1. UNCHANGED <<vars, nodes>>
  BY DEF Exit, Ended, allVars, programVars
<1>2. UNCHANGED <<id, parentId, pc, parentIndex, nodeIdx, verifiedDepth, depthReady, verdict>>
  BY <1>1 DEF vars, inputs
<1>3. MadeOK' /\ (TooDeep' <=> TooDeep) /\ (EqualIds' <=> EqualIds)
  BY <1>1 DEF DemonstrationInv, MadeOK, TooDeep, EqualIds
<1>4. (Canonical' <=> Canonical) /\ (NotStarted' <=> NotStarted) /\ (VerifyInv => VerifyInv')
  <2>1. Canonical' <=> Canonical
    BY <1>2 DEF Canonical, DistinctIds, AreDepths, OrderedBy, ParentOf
  <2>2. NotStarted' <=> NotStarted
    BY <1>2 DEF NotStarted
  <2>3. VerifyInv => VerifyInv'
    BY <1>1, OtherStepsKeepVerifyInv
  <2>. QED  BY <2>1, <2>2, <2>3
<1>5. CASE Exit
  BY <1>2, <1>3, <1>4, <1>5 DEF Exit, DemonstrationInv
<1>6. CASE Ended \/ UNCHANGED allVars
  <2>1. UNCHANGED <<stage, exitCode, nodes>>
    BY <1>6 DEF Ended, allVars, programVars
  <2>. QED  BY <2>1, <1>2, <1>3, <1>4 DEF DemonstrationInv
<1>. QED  BY <1>5, <1>6

LEMMA DemonstrationInvCorrect == DemonstrationSpec => []DemonstrationInv
<1>1. DemonstrationInv /\ [DemonstrationNext]_allVars => DemonstrationInv'
  BY MakeKeepsDemonstrationInv, SortKeepsDemonstrationInv, FailureKeepsDemonstrationInv,
     VerifyKeepsDemonstrationInv, EndKeepsDemonstrationInv DEF DemonstrationNext
<1>. QED  BY InitDemonstrationInv, <1>1, PTL DEF DemonstrationSpec

\* What the sort returns the verifier accepts, and the sort fails only for
\* equal ids or a chain past the depth limit, whatever forest main makes.
THEOREM DemonstrationSucceeds == DemonstrationSpec => []DemonstrationVerifies
<1>1. DemonstrationInv => DemonstrationVerifies
  BY DEF DemonstrationInv, VerifyInv, DemonstrationVerifies, EqualIds
<1>. QED  BY <1>1, DemonstrationInvCorrect, PTL

\* The verdict is exact whoever calls the verifier.
THEOREM DemonstrationIsJudged == DemonstrationSpec => [](AcceptedIsCanonical /\ RejectedIsNotCanonical)
<1>1. DemonstrationInv => AcceptedIsCanonical /\ RejectedIsNotCanonical
  <2>1. VerifyInv => AcceptedIsCanonical /\ RejectedIsNotCanonical
    BY VerdictIsExact
  <2>2. pc = "idle" => AcceptedIsCanonical /\ RejectedIsNotCanonical
    BY DEF AcceptedIsCanonical, RejectedIsNotCanonical
  <2>. QED  BY <2>1, <2>2 DEF DemonstrationInv, NotStarted
<1>. QED  BY <1>1, DemonstrationInvCorrect, PTL

-----------------------------------------------------------------------------
(* The small sorts: what is behind an insertion is in order, and the ranges  *)
(* the partition by bits has still to split hold all that is not settled.    *)

\* An injection of a finite set into itself leaves nothing out.
LEMMA InjectionIsOnto ==
  ASSUME NEW S, IsFiniteSet(S), NEW f \in [S -> S], \A x, y \in S : f[x] = f[y] => x = y
  PROVE  \A y \in S : \E x \in S : f[x] = y
<1> DEFINE T == {f[x] : x \in S}
<1>1. T \in SUBSET S
  OBVIOUS
<1>2. f \in Bijection(S, T)
  <2>1. f \in [S -> T]
    OBVIOUS
  <2>2. f \in Injection(S, T)
    BY <2>1 DEF Injection, IsInjective
  <2>3. f \in Surjection(S, T)
    BY <2>1 DEF Surjection
  <2> QED
    BY <2>2, <2>3 DEF Bijection
<1>3. Cardinality(T) = Cardinality(S)
  BY <1>2, FS_Bijection DEF ExistsBijection
<1>4. T = S
  BY <1>1, <1>3, FS_Subset
<1> QED
  BY <1>4

\* Division with remainder, composed.
LEMMA QuotientIs ==
  ASSUME NEW c \in Nat \ {0}, NEW q \in Nat, NEW r \in 0 .. c - 1
  PROVE  (c * q + r) \div c = q /\ (c * q + r) % c = r
<1>0. c * q \in Nat
  OBVIOUS
<1> PICK y \in Nat : y = c * q + r
  BY <1>0
<1> PICK d \in Nat : d = y \div c
  OBVIOUS
<1> PICK rest \in 0 .. c - 1 : rest = y % c
  OBVIOUS
<1>1. y = c * d + rest
  OBVIOUS
<1>2. CASE d < q
  <2>1. PICK j \in Nat : q = d + 1 + j
    <3>1. q - d - 1 \in Nat
      BY <1>2
    <3> QED  BY <3>1
  <2>2. c * q = c * d + c + c * j /\ c * j \in Nat
    BY <2>1
  <2> QED
    BY <1>1, <2>2
<1>3. CASE q < d
  <2>1. PICK j \in Nat : d = q + 1 + j
    <3>1. d - q - 1 \in Nat
      BY <1>3
    <3> QED  BY <3>1
  <2>2. c * d = c * q + c + c * j /\ c * j \in Nat
    BY <2>1
  <2> QED
    BY <1>1, <2>2
<1>4. CASE d = q
  BY <1>1, <1>4
<1> QED
  BY <1>2, <1>3, <1>4

\* Division with remainder, decomposed.
LEMMA QuotientOf ==
  ASSUME NEW x \in Nat, NEW c \in Nat \ {0}
  PROVE  /\ x \div c \in Nat /\ x % c \in 0 .. c - 1 /\ x = c * (x \div c) + (x % c)
OBVIOUS

\* A value for each number, each made from the one before.
IsSteps(w, T, base, step, v) ==
  v \in [0 .. w -> T] /\ v[0] = base /\ \A n \in 1 .. w : v[n] = step[n][v[n - 1]]

\* A value built step by step from the one before it exists.
LEMMA StepByStep ==
  ASSUME NEW w \in Nat, NEW T, NEW base \in T, NEW step \in [1 .. w -> [T -> T]]
  PROVE  \E v : IsSteps(w, T, base, step, v)
<1> DEFINE IsMade(n, v) == v \in [0 .. n -> T] /\ v[0] = base /\ \A k \in 1 .. n : v[k] = step[k][v[k - 1]]
           S == {n \in Nat : n <= w => \E v : IsMade(n, v)}
<1>1. 0 \in S
  <2>1. IsMade(0, [n \in 0 .. 0 |-> base])
    OBVIOUS
  <2> QED
    BY <2>1
<1>2. ASSUME NEW k \in Nat, k \in S
      PROVE  k + 1 \in S
  <2> SUFFICES ASSUME k + 1 <= w
               PROVE  \E v : IsMade(k + 1, v)
    OBVIOUS
  <2>1. PICK v : IsMade(k, v)
    BY <1>2
  <2> DEFINE u == [n \in 0 .. k + 1 |-> IF n = k + 1 THEN step[k + 1][v[k]] ELSE v[n]]
  <2>2. k + 1 \in 1 .. w /\ v[k] \in T
    BY <2>1
  <2>3. step[k + 1][v[k]] \in T
    BY <2>2
  <2>4. u \in [0 .. k + 1 -> T]
    BY <2>1, <2>3
  <2>5. u[0] = base
    BY <2>1
  <2>6. \A n \in 1 .. k + 1 : u[n] = step[n][u[n - 1]]
    <3> SUFFICES ASSUME NEW n \in 1 .. k + 1
                 PROVE  u[n] = step[n][u[n - 1]]
      OBVIOUS
    <3>1. CASE n = k + 1
      BY <3>1
    <3>2. CASE n # k + 1
      <4>1. n \in 1 .. k /\ u[n] = v[n] /\ u[n - 1] = v[n - 1]
        BY <3>2
      <4> QED
        BY <2>1, <4>1
    <3> QED
      BY <3>1, <3>2
  <2>7. IsMade(k + 1, u)
    BY <2>4, <2>5, <2>6
  <2> QED
    BY <2>7
<1>3. w \in S
  <2> HIDE DEF S
  <2> QED
    BY <1>1, <1>2, Climb
<1> QED
  BY <1>3 DEF IsSteps

\* Division keeps the order.
LEMMA QuotientsRise ==
  ASSUME NEW c \in Nat \ {0}, NEW x \in Nat, NEW y \in Nat, x <= y
  PROVE  x \div c <= y \div c
<1>x. x \div c \in Nat /\ x % c \in 0 .. c - 1 /\ x = c * (x \div c) + (x % c)
  BY QuotientOf
<1>y. y \div c \in Nat /\ y % c \in 0 .. c - 1 /\ y = c * (y \div c) + (y % c)
  BY QuotientOf
<1> PICK p \in Nat, r \in 0 .. c - 1 : p = x \div c /\ x = c * p + r
  BY <1>x, Zenon
<1> PICK q \in Nat, s \in 0 .. c - 1 : q = y \div c /\ y = c * q + s
  BY <1>y, Zenon
<1> SUFFICES ASSUME q < p PROVE FALSE
  OBVIOUS
<1>1. PICK j \in Nat : p = q + 1 + j
  <2>1. p - q - 1 \in Nat
    OBVIOUS
  <2> QED  BY <2>1
<1>2. c * p = c * q + c + c * j /\ c * j \in Nat /\ c * q \in Nat
  BY <1>1
<1> QED
  BY <1>2

\* What the bits are worth.
LEMMA Weights ==
  /\ Weight[0] = 1
  /\ \A n \in 1 .. Bits : Weight[n] = 2 * Weight[n - 1]
  /\ \A n \in 0 .. Bits : Weight[n] \in Nat \ {0}
<1> DEFINE double == [k \in 1 .. Bits |-> [x \in Nat \ {0} |-> 2 * x]]
<1>1. PICK v : IsSteps(Bits, Nat \ {0}, 1, double, v)
  <2>1. \A x \in Nat \ {0} : 2 * x \in Nat \ {0}
    OBVIOUS
  <2>2. double \in [1 .. Bits -> [Nat \ {0} -> Nat \ {0}]]
    BY <2>1
  <2>3. 1 \in Nat \ {0} /\ Bits \in Nat
    BY RangeAssumption
  <2> HIDE DEF double
  <2>. QED  BY <2>2, <2>3, StepByStep
<1>2. v \in [0 .. Bits -> Nat \ {0}] /\ v[0] = 1
  BY <1>1 DEF IsSteps
<1>3. \A n \in 1 .. Bits : v[n] = 2 * v[n - 1]
  <2>1. TAKE n \in 1 .. Bits
  <2>2. v[n - 1] \in Nat \ {0}
    BY <1>2, RangeAssumption
  <2>3. v[n] = double[n][v[n - 1]]
    BY <1>1 DEF IsSteps
  <2>. QED  BY <2>2, <2>3
<1>4. v = [n \in 0 .. Bits |-> IF n = 0 THEN 1 ELSE 2 * v[n - 1]]
  <2>1. v = [n \in 0 .. Bits |-> v[n]]
    BY <1>2
  <2>2. \A n \in 0 .. Bits : v[n] = IF n = 0 THEN 1 ELSE 2 * v[n - 1]
    BY <1>2, <1>3, RangeAssumption
  <2>. QED  BY <2>1, <2>2, Zenon
<1>5. Weight = [n \in 0 .. Bits |-> IF n = 0 THEN 1 ELSE 2 * Weight[n - 1]]
  BY <1>4, Zenon DEF Weight
<1>6. Weight[0] = 1
  BY <1>5, RangeAssumption
<1>7. \A n \in 1 .. Bits : Weight[n] = 2 * Weight[n - 1]
  BY <1>5, RangeAssumption
<1>8. \A n \in 0 .. Bits : Weight[n] \in Nat \ {0}
  <2> DEFINE S == {n \in Nat : n <= Bits => Weight[n] \in Nat \ {0}}
  <2>1. 0 \in S
    BY <1>6
  <2>2. ASSUME NEW k \in Nat, k \in S
        PROVE  k + 1 \in S
    <3>1. SUFFICES ASSUME k + 1 <= Bits PROVE Weight[k + 1] \in Nat \ {0}
      OBVIOUS
    <3>2. Weight[k] \in Nat \ {0} /\ k + 1 \in 1 .. Bits /\ (k + 1) - 1 = k
      BY <2>2, <3>1, RangeAssumption
    <3>3. Weight[k + 1] = 2 * Weight[k]
      BY <1>7, <3>2
    <3>. QED  BY <3>2, <3>3
  <2>3. \A k \in Nat : k \in S
    <3> HIDE DEF S
    <3>. QED  BY <2>1, <2>2, Climb
  <2>. QED  BY <2>3, RangeAssumption
<1>. QED  BY <1>6, <1>7, <1>8

LEMMA HalfOf ==
  ASSUME NEW x \in Nat, NEW w \in Nat \ {0}
  PROVE  (x \div w) \div 2 = x \div (2 * w)
<1>1. PICK q \in Nat, r \in 0 .. w - 1 : q = x \div w /\ x = w * q + r
  BY QuotientOf
<1>2. PICK h \in Nat, t \in 0 .. 1 : h = q \div 2 /\ q = 2 * h + t
  <2>1. q \div 2 \in Nat /\ q % 2 \in 0 .. 1 /\ q = 2 * (q \div 2) + (q % 2)
    OBVIOUS
  <2>. QED  BY <2>1
<1>3. w * q + r = (2 * w) * h + (w * t + r) /\ w * t + r \in 0 .. (2 * w) - 1
  <2>1. w * q = (2 * w) * h + w * t
    <3>1. w * (2 * h + t) = (2 * w) * h + w * t
      OBVIOUS
    <3>. QED  BY <1>2, <3>1
  <2>2. PICK a \in Nat : a = (2 * w) * h
    OBVIOUS
  <2>3. w * t \in 0 .. w
    <3>1. t = 0 \/ t = 1
      OBVIOUS
    <3>2. w * 0 = 0 /\ w * 1 = w
      OBVIOUS
    <3>. QED  BY <3>1, <3>2
  <2>4. PICK b \in 0 .. w : b = w * t
    BY <2>3
  <2>5. w * q = a + b
    BY <2>1, <2>2, <2>4
  <2>6. w * q + r = a + (b + r) /\ b + r \in 0 .. (2 * w) - 1
    BY <2>5
  <2>. QED  BY <2>2, <2>4, <2>6, Zenon
<1>4. 2 * w \in Nat \ {0}
  OBVIOUS
<1>5. PICK c \in Nat \ {0} : c = 2 * w
  BY <1>4
<1>6. PICK s \in 0 .. c - 1 : s = w * t + r
  BY <1>3, <1>5
<1>7. x = c * h + s
  BY <1>1, <1>3, <1>5, <1>6
<1>8. (c * h + s) \div c = h
  BY QuotientIs
<1>. QED  BY <1>1, <1>2, <1>5, <1>7, <1>8, Zenon

\* The first bits of an id as a number.
FirstBits(i, n) == i \div Weight[Bits - n]

LEMMA FirstBitsAre ==
  ASSUME NEW i \in RangeIds
  PROVE  /\ FirstBits(i, 0) = 0 /\ FirstBits(i, Bits) = i
         /\ \A n \in 0 .. Bits : FirstBits(i, n) \in Nat
         /\ \A n \in 0 .. Bits - 1 :
              /\ Bit(i, n) \in 0 .. 1
              /\ FirstBits(i, n + 1) = 2 * FirstBits(i, n) + Bit(i, n)
<1>1. Weight[Bits] \in Nat \ {0} /\ Weight[0] = 1 /\ Bits - 0 = Bits /\ Bits - Bits = 0
  BY Weights, RangeAssumption
<1>2. i \in Nat /\ i < Weight[Bits]
  BY <1>1 DEF RangeIds
<1>3. FirstBits(i, 0) = 0
  <2>1. PICK w \in Nat \ {0} : w = Weight[Bits]
    BY <1>1
  <2>2. (w * 0 + i) \div w = 0 /\ w * 0 + i = i
    <3>1. i \in 0 .. w - 1 /\ 0 \in Nat
      BY <1>2, <2>1
    <3>2. (w * 0 + i) \div w = 0
      BY <3>1, QuotientIs
    <3>. QED  BY <1>2, <3>2
  <2>. QED  BY <1>1, <2>1, <2>2, Zenon DEF FirstBits
<1>4. FirstBits(i, Bits) = i
  <2>1. i \div 1 = i
    BY <1>2
  <2>. QED  BY <1>1, <2>1, Zenon DEF FirstBits
<1>5. ASSUME NEW n \in 0 .. Bits
      PROVE  FirstBits(i, n) \in Nat
  <2>1. PICK w \in Nat \ {0} : w = Weight[Bits - n]
    BY Weights, RangeAssumption
  <2>. QED  BY <1>2, <2>1, QuotientOf DEF FirstBits
<1>6. ASSUME NEW n \in 0 .. Bits - 1
      PROVE  Bit(i, n) \in 0 .. 1 /\ FirstBits(i, n + 1) = 2 * FirstBits(i, n) + Bit(i, n)
  <2>1. Bits - n \in 1 .. Bits /\ (Bits - n) - 1 = Bits - 1 - n /\ Bits - (n + 1) = Bits - 1 - n /\ Bits - 1 - n \in 0 .. Bits
    BY RangeAssumption
  <2>2. PICK w \in Nat \ {0} : w = Weight[Bits - 1 - n] /\ Weight[Bits - n] = 2 * w
    BY <2>1, Weights
  <2>3. PICK q \in Nat : q = i \div w
    BY <1>2, QuotientOf
  <2>4. q \div 2 = i \div (2 * w)
    BY <1>2, <2>3, HalfOf
  <2>5. q = 2 * (q \div 2) + (q % 2) /\ q % 2 \in 0 .. 1
    BY <2>3
  <2>6. FirstBits(i, n + 1) = q
    BY <2>1, <2>2, <2>3, Zenon DEF FirstBits
  <2>7. FirstBits(i, n) = q \div 2
    BY <2>2, <2>4, Zenon DEF FirstBits
  <2>8. Bit(i, n) = q % 2
    BY <2>2, <2>3, Zenon DEF Bit
  <2>. QED  BY <2>5, <2>6, <2>7, <2>8, Zenon
<1>. QED  BY <1>3, <1>4, <1>5, <1>6

\* Ids with the same bits up to some are the same up to there.
LEMMA SameFirstBits ==
  ASSUME NEW i \in RangeIds, NEW j \in RangeIds, NEW n \in 0 .. Bits,
         \A b \in 0 .. n - 1 : Bit(i, b) = Bit(j, b)
  PROVE  FirstBits(i, n) = FirstBits(j, n)
<1> DEFINE S == {k \in Nat : k <= n => FirstBits(i, k) = FirstBits(j, k)}
<1>1. 0 \in S
  BY FirstBitsAre
<1>2. ASSUME NEW k \in Nat, k \in S
      PROVE  k + 1 \in S
  <2>1. SUFFICES ASSUME k + 1 <= n PROVE FirstBits(i, k + 1) = FirstBits(j, k + 1)
    OBVIOUS
  <2>2. k \in 0 .. n - 1 /\ k \in 0 .. Bits - 1 /\ FirstBits(i, k) = FirstBits(j, k)
    BY <1>2, <2>1, RangeAssumption
  <2>3. FirstBits(i, k + 1) = 2 * FirstBits(i, k) + Bit(i, k)
    BY <2>2, FirstBitsAre
  <2>4. FirstBits(j, k + 1) = 2 * FirstBits(j, k) + Bit(j, k)
    BY <2>2, FirstBitsAre
  <2>5. Bit(i, k) = Bit(j, k)
    BY <2>2
  <2>. QED  BY <2>2, <2>3, <2>4, <2>5, Zenon
<1>3. \A k \in Nat : k \in S
  <2> HIDE DEF S
  <2>. QED  BY <1>1, <1>2, Climb
<1>. QED  BY <1>3

LEMMA SameBitsSameId ==
  ASSUME NEW i \in RangeIds, NEW j \in RangeIds, \A b \in 0 .. Bits - 1 : Bit(i, b) = Bit(j, b)
  PROVE  i = j
<1>1. Bits \in 0 .. Bits
  BY RangeAssumption
<1>2. FirstBits(i, Bits) = FirstBits(j, Bits)
  BY <1>1, SameFirstBits
<1>. QED  BY <1>2, FirstBitsAre, Zenon

\* The first bit that differs tells which id is smaller.
LEMMA FirstBitDecides ==
  ASSUME NEW i \in RangeIds, NEW j \in RangeIds, NEW n \in 0 .. Bits - 1,
         \A b \in 0 .. n - 1 : Bit(i, b) = Bit(j, b), Bit(i, n) = 0, Bit(j, n) # 0
  PROVE  i < j
<1>1. n \in 0 .. Bits /\ n + 1 \in 0 .. Bits
  BY RangeAssumption
<1>2. FirstBits(i, n) = FirstBits(j, n)
  BY <1>1, SameFirstBits
<1>3. PICK f \in Nat : f = FirstBits(i, n)
  BY <1>1, FirstBitsAre
<1>4. FirstBits(i, n + 1) = 2 * f + Bit(i, n)
  BY <1>3, FirstBitsAre
<1>5. FirstBits(j, n + 1) = 2 * f + Bit(j, n) /\ Bit(j, n) \in 0 .. 1
  BY <1>2, <1>3, FirstBitsAre
<1>6. FirstBits(i, n + 1) < FirstBits(j, n + 1)
  BY <1>3, <1>4, <1>5
<1>7. i \in Nat /\ j \in Nat
  BY Weights, RangeAssumption DEF RangeIds
<1>8. PICK w \in Nat \ {0} : w = Weight[Bits - (n + 1)]
  BY <1>1, Weights, RangeAssumption
<1>9. i \div w < j \div w
  BY <1>6, <1>8 DEF FirstBits
<1>10. j <= i => j \div w <= i \div w
  BY <1>7, QuotientsRise
<1>11. i \div w \in Nat /\ j \div w \in Nat
  BY <1>7, QuotientOf
<1>. QED  BY <1>7, <1>9, <1>10, <1>11

-----------------------------------------------------------------------------
(* The inductive invariant *)

RangeInputsOK ==
  /\ \E size \in RangeSizes : ids \in [0 .. size - 1 -> RangeIds]
  /\ method \in {"linear", "binary", "exponential", "bitwise", "shell"}
  /\ isCached \in BOOLEAN

GapsOK ==
  /\ gaps \in Seq(Nat \ {0}) /\ gaps # <<>> /\ Last(gaps) = 1
  /\ method # "shell" => gaps = <<1>>

\* The order the oracle asks for, of two entries and of two places.
ComesBefore(m, n) == ids[m] < ids[n] \/ (ids[m] = ids[n] /\ m < n)
IsSettled(p, q) == ComesBefore(order[p], order[q])

EntriesOK ==
  /\ order \in [Places -> Places]
  /\ \A p, q \in Places : order[p] = order[q] => p = q
  /\ keys \in [Places -> RangeIds]
  /\ isCached /\ method # "bitwise" => \A p \in Places : keys[p] = ids[order[p]]

\* Behind the place inserted from, the entries a gap apart are in order; with a
\* gap of one they are those that were there, and those ahead are where they were.
InsertionOK ==
  /\ method # "bitwise"
  /\ next \in Nat /\ next >= gaps[1]
  /\ \A p, q \in Places : p < q /\ q < next /\ (q - p) % gaps[1] = 0 => ids[order[p]] <= ids[order[q]]
  /\ method # "shell" =>
       /\ \A p, q \in Places : p < q /\ q < next => IsSettled(p, q)
       /\ \A p \in Places : p >= next => order[p] = p

\* The place searched for is between searchBegin and searchEnd.
SearchOK ==
  /\ method \in {"binary", "exponential"} /\ next \in Places
  /\ searchBegin \in Nat /\ searchEnd \in Nat /\ searchBegin <= searchEnd /\ searchEnd <= next
  /\ \A p \in 0 .. searchBegin - 1 : ids[order[p]] <= ids[order[next]]
  /\ \A p \in searchEnd .. next - 1 : ids[order[next]] < ids[order[p]]
  /\ sorterPc = "probe" =>
       /\ searchBegin = 0
       /\ bound \in Nat /\ bound >= 2 /\ searchEnd > next - bound

\* A range still to split: more than one entry, in the order they were in, that
\* agree in all bits before the range's own.
PendingRanges == [begin : Nat, end : Nat, bit : Nat]
IsIn(p, r) == r.begin <= p /\ p < r.end
IsUnsplit(r, row) ==
  /\ r.begin + 1 < r.end /\ r.end <= RangeSize /\ r.bit <= Bits
  /\ \A p, q \in Places : IsIn(p, r) /\ IsIn(q, r) =>
       /\ \A b \in 0 .. r.bit - 1 : Bit(ids[row[p]], b) = Bit(ids[row[q]], b)
       /\ p < q => row[p] < row[q]

SplitOK ==
  /\ method = "bitwise" /\ RangeSize <= MaxRangeSize
  /\ pending \in Seq(PendingRanges)
  /\ \A i \in DOMAIN pending : IsUnsplit(pending[i], order)
  /\ \A i, j \in DOMAIN pending : i < j => pending[j].end <= pending[i].begin
  /\ \A p, q \in Places : p < q =>
       IsSettled(p, q) \/ \E i \in DOMAIN pending : IsIn(p, pending[i]) /\ IsIn(q, pending[i])

SorterInv ==
  /\ RangeInputsOK /\ GapsOK /\ EntriesOK
  /\ sorterPc \in {"entry", "insert", "probe", "search", "split", "done", "throw"}
  /\ sorterPc = "entry" => order = [p \in Places |-> p]
  /\ sorterPc \in {"insert", "probe", "search"} => InsertionOK
  /\ sorterPc \in {"probe", "search"} => SearchOK
  /\ sorterPc = "split" => SplitOK
  /\ SortsById

-----------------------------------------------------------------------------
(* Insertion *)

\* The places of the range.
LEMMA RangeIs ==
  ASSUME RangeInputsOK
  PROVE  /\ RangeSize \in Nat /\ Places = 0 .. RangeSize - 1 /\ IsFiniteSet(Places)
         /\ ids \in [Places -> RangeIds] /\ \A p \in Places : ids[p] \in Nat
<1>1. PICK size \in RangeSizes : ids \in [0 .. size - 1 -> RangeIds]
  BY DEF RangeInputsOK
<1>2. size \in Nat
  BY RangeAssumption
<1>3. Places = 0 .. size - 1
  BY <1>1 DEF Places
<1>4. IsFiniteSet(Places) /\ Cardinality(Places) = size
  BY <1>2, <1>3, FS_Interval
<1>5. ids \in [Places -> RangeIds]
  BY <1>1, <1>3
<1>6. \A p \in Places : ids[p] \in Nat
  BY <1>5, Weights, RangeAssumption DEF RangeIds
<1>. QED  BY <1>2, <1>3, <1>4, <1>5, <1>6 DEF RangeSize

\* What a multiple of the gap adds changes no rest.
LEMMA AddsMultiple ==
  ASSUME NEW g \in Nat \ {0}, NEW a \in Nat, NEW b \in Nat, a % g = 0
  PROVE  (a + b) % g = b % g
<1>1. PICK k \in Nat : a = g * k
  <2>1. a = g * (a \div g) + (a % g) /\ a \div g \in Nat
    BY QuotientOf
  <2>. QED  BY <2>1
<1>2. PICK l \in Nat, r \in 0 .. g - 1 : b = g * l + r /\ r = b % g
  <2>1. b = g * (b \div g) + (b % g) /\ b \div g \in Nat /\ b % g \in 0 .. g - 1
    BY QuotientOf
  <2>. QED  BY <2>1
<1>3. a + b = g * (k + l) + r /\ k + l \in Nat
  BY <1>1, <1>2
<1>4. (g * (k + l) + r) % g = r
  BY <1>3, QuotientIs
<1>. QED  BY <1>2, <1>3, <1>4, Zenon

LEMMA MultipleIsApart ==
  ASSUME NEW g \in Nat \ {0}, NEW a \in Nat \ {0}, a % g = 0
  PROVE  a >= g
<1>1. a = g * (a \div g) + (a % g) /\ a \div g \in Nat
  BY QuotientOf
<1>2. PICK k \in Nat : a = g * k
  BY <1>1
<1>3. k # 0
  BY <1>2
<1>4. PICK j \in Nat : k = j + 1
  <2>1. k - 1 \in Nat /\ k = (k - 1) + 1
    BY <1>3
  <2>. QED  BY <2>1
<1>5. g * k = g * j + g /\ g * j \in Nat
  BY <1>4
<1>. QED  BY <1>2, <1>5

\* Places a gap apart.
LEMMA SameDistance ==
  ASSUME NEW g \in Nat \ {0}, NEW x \in Nat, NEW p \in 0 .. x, NEW q \in 0 .. x, p <= q, (x - q) % g = 0
  PROVE  (x - p) % g = (q - p) % g
<1>1. x - q \in Nat /\ q - p \in Nat /\ (x - q) + (q - p) = x - p
  OBVIOUS
<1>2. ((x - q) + (q - p)) % g = (q - p) % g
  BY <1>1, AddsMultiple
<1>. QED  BY <1>1, <1>2, Zenon

LEMMA ChainSteps ==
  ASSUME NEW g \in Nat \ {0}, NEW x \in Nat
  PROVE  \A p, q \in 0 .. x : p < q /\ (x - p) % g = 0 /\ (x - q) % g = 0 =>
           p <= q - g /\ (x - (q - g)) % g = 0
<1>1. ASSUME NEW p \in 0 .. x, NEW q \in 0 .. x, p < q, (x - p) % g = 0, (x - q) % g = 0
      PROVE  p <= q - g /\ (x - (q - g)) % g = 0
  <2>0. p <= q
    BY <1>1
  <2>1. (q - p) % g = 0
    BY <1>1, <2>0, SameDistance, Zenon
  <2>2. q - p \in Nat \ {0}
    BY <1>1
  <2>3. q - p >= g
    BY <2>1, <2>2, MultipleIsApart
  <2>4. (x - q) + g = x - (q - g) /\ x - q \in Nat
    OBVIOUS
  <2>5. ((x - q) + g) % g = g % g
    BY <1>1, <2>4, AddsMultiple
  <2>6. g % g = 0
    <3>1. (g * 1 + 0) % g = 0 /\ g * 1 + 0 = g
      <4>1. 0 \in 0 .. g - 1 /\ 1 \in Nat
        OBVIOUS
      <4>. QED  BY <4>1, QuotientIs
    <3>. QED  BY <3>1
  <2>. QED  BY <2>3, <2>4, <2>5, <2>6
<1>. QED  BY <1>1

\* An insertion moves each entry to a place of its own.
InsertsAt(at) == next \in Places /\ at \in Chain(0)

LEMMA CameFromIs ==
  ASSUME RangeInputsOK, GapsOK, NEW at, InsertsAt(at)
  PROVE  /\ gaps[1] \in Nat \ {0} /\ next \in Nat /\ at \in 0 .. next /\ at \in Places
         /\ (next - at) % gaps[1] = 0
         /\ CameFrom(at, at) = next
         /\ \A p \in Places : p # at /\ (p < at \/ next < p \/ (next - p) % gaps[1] # 0) => CameFrom(p, at) = p
         /\ \A p \in Places : at < p /\ p <= next /\ (next - p) % gaps[1] = 0 =>
              CameFrom(p, at) = p - gaps[1] /\ p - gaps[1] >= at /\ (next - (p - gaps[1])) % gaps[1] = 0
<1>1. gaps[1] \in Nat \ {0}
  BY DEF GapsOK
<1>2. PICK g \in Nat \ {0} : g = gaps[1]
  BY <1>1
<1>3. next \in Nat /\ next < RangeSize /\ RangeSize \in Nat /\ Places = 0 .. RangeSize - 1
  BY RangeIs DEF InsertsAt
<1>4. PICK x \in Nat : x = next
  BY <1>3
<1>5. at \in 0 .. x /\ (x - at) % g = 0
  BY <1>2, <1>4 DEF InsertsAt, Chain
<1>6. \A p \in Places : p \in Chain(at) <=> at <= p /\ p <= x /\ (x - p) % g = 0
  BY <1>2, <1>3, <1>4, <1>5 DEF Chain
<1>7. \A p \in Places : p # at /\ (p < at \/ next < p \/ (next - p) % gaps[1] # 0) => CameFrom(p, at) = p
  <2>1. TAKE p \in Places
  <2>2. p \in Int /\ at \in Int
    BY <1>3, <1>5
  <2>3. p < at \/ x < p \/ (x - p) % g # 0 => p \notin Chain(at)
    BY <1>6, <2>2
  <2>. QED  BY <1>2, <1>4, <2>3 DEF CameFrom
<1>8. ASSUME NEW p \in Places, at < p, p <= x, (x - p) % g = 0
      PROVE  CameFrom(p, at) = p - g /\ p - g >= at /\ (x - (p - g)) % g = 0
  <2>1. p \in Chain(at) /\ p # at /\ p \in 0 .. x
    BY <1>3, <1>5, <1>6, <1>8
  <2>2. CameFrom(p, at) = p - g
    BY <1>2, <2>1 DEF CameFrom
  <2>3. at <= p - g /\ (x - (p - g)) % g = 0
    BY <1>5, <1>8, <2>1, ChainSteps
  <2>. QED  BY <2>1, <2>2, <2>3, <1>5
<1>9. CameFrom(at, at) = next
  BY DEF CameFrom
<1>. QED  BY <1>1, <1>2, <1>3, <1>4, <1>5, <1>7, <1>8, <1>9

LEMMA CameFromPlaces ==
  ASSUME RangeInputsOK, GapsOK, NEW at, InsertsAt(at)
  PROVE  /\ \A p \in Places : CameFrom(p, at) \in Places
         /\ \A p, q \in Places : CameFrom(p, at) = CameFrom(q, at) => p = q
         /\ \A p \in Places : p <= next => CameFrom(p, at) <= next
         /\ \A p \in Places : p > next => CameFrom(p, at) = p
<1>1. PICK g \in Nat \ {0}, x \in Nat : g = gaps[1] /\ x = next
  BY CameFromIs
<1>2. at \in 0 .. x /\ (x - at) % g = 0 /\ RangeSize \in Nat /\ Places = 0 .. RangeSize - 1 /\ x < RangeSize
  BY <1>1, CameFromIs, RangeIs DEF InsertsAt
<1> DEFINE moves(p) == at < p /\ p <= x /\ (x - p) % g = 0
<1>3. CameFrom(at, at) = x
  BY <1>1, CameFromIs
<1>4. ASSUME NEW p \in Places, p # at, ~moves(p)
      PROVE  CameFrom(p, at) = p
  <2>1. p < at \/ next < p \/ (next - p) % gaps[1] # 0
    BY <1>1, <1>2, <1>4
  <2>. QED  BY <1>4, <2>1, CameFromIs
<1>5. ASSUME NEW p \in Places, moves(p)
      PROVE  CameFrom(p, at) = p - g /\ p - g >= at /\ (x - (p - g)) % g = 0 /\ p - g < x
  <2>1. CameFrom(p, at) = p - g /\ p - g >= at /\ (x - (p - g)) % g = 0
    BY <1>1, <1>5, CameFromIs
  <2>. QED  BY <1>2, <1>5, <2>1
<1>6. ASSUME NEW p \in Places
      PROVE  /\ CameFrom(p, at) \in Places
             /\ p <= x => CameFrom(p, at) <= x
             /\ p > x => CameFrom(p, at) = p
  <2>1. CASE p = at
    BY <1>2, <1>3, <2>1
  <2>2. CASE p # at /\ ~moves(p)
    BY <1>2, <1>4, <2>2
  <2>3. CASE moves(p)
    BY <1>2, <1>5, <2>3
  <2>. QED  BY <2>1, <2>2, <2>3
<1>7. ASSUME NEW p \in Places, NEW q \in Places, CameFrom(p, at) = CameFrom(q, at)
      PROVE  p = q
  \* What moved came from a place of the chain from "at" on, but not the last.
  <2>1. \A r \in Places : moves(r) => at <= r - g /\ r - g < x /\ (x - (r - g)) % g = 0
    BY <1>5
  <2>2. \A r \in Places : r # at /\ ~moves(r) => r < at \/ x < r \/ (x - r) % g # 0
    BY <1>2
  <2>3. CASE p = at /\ q = at
    BY <2>3
  <2>4. CASE p = at /\ q # at /\ ~moves(q)
    <3>1. q = x
      BY <1>3, <1>4, <1>7, <2>4
    <3>. QED  BY <1>2, <2>4, <3>1
  <2>5. CASE p = at /\ moves(q)
    BY <1>3, <1>5, <1>7, <2>5, <1>2
  <2>6. CASE p # at /\ ~moves(p) /\ q = at
    <3>1. p = x
      BY <1>3, <1>4, <1>7, <2>6
    <3>. QED  BY <1>2, <2>6, <3>1
  <2>7. CASE p # at /\ ~moves(p) /\ q # at /\ ~moves(q)
    BY <1>4, <1>7, <2>7
  <2>8. CASE p # at /\ ~moves(p) /\ moves(q)
    <3>1. p = q - g
      BY <1>4, <1>5, <1>7, <2>8
    <3>. QED  BY <1>2, <2>1, <2>2, <2>8, <3>1
  <2>9. CASE moves(p) /\ q = at
    BY <1>3, <1>5, <1>7, <2>9, <1>2
  <2>10. CASE moves(p) /\ q # at /\ ~moves(q)
    <3>1. q = p - g
      BY <1>4, <1>5, <1>7, <2>10
    <3>. QED  BY <1>2, <2>1, <2>2, <2>10, <3>1
  <2>11. CASE moves(p) /\ moves(q)
    BY <1>5, <1>7, <2>11, <1>2
  <2>. QED  BY <2>3, <2>4, <2>5, <2>6, <2>7, <2>8, <2>9, <2>10, <2>11
<1>. QED  BY <1>1, <1>6, <1>7

\* What an insertion does to a row that has the places in some order.
LEMMA ShiftedOrders ==
  ASSUME RangeInputsOK, GapsOK, NEW at, InsertsAt(at), NEW T, NEW row \in [Places -> T]
  PROVE  /\ Shifted(row, at) \in [Places -> T]
         /\ \A p \in Places : Shifted(row, at)[p] = row[CameFrom(p, at)]
BY CameFromPlaces DEF Shifted

\* If the entries behind are in order, and all of the chain before the place
\* come before the one inserted, which comes before all after it, they are in
\* order then.
LEMMA InsertionSorts ==
  ASSUME RangeInputsOK, GapsOK, NEW at, InsertsAt(at), order \in [Places -> Places],
         NEW R,
         \A p, q \in Places : p < q /\ q < next /\ (q - p) % gaps[1] = 0 => <<order[p], order[q]>> \in R,
         \A p \in Chain(0) : p < at => <<order[p], order[next]>> \in R,
         \A p \in Chain(at) \ {next} : <<order[next], order[p]>> \in R
  PROVE  \A p, q \in Places : p < q /\ q < next + 1 /\ (q - p) % gaps[1] = 0 =>
           <<Shifted(order, at)[p], Shifted(order, at)[q]>> \in R
<1>1. PICK g \in Nat \ {0}, x \in Nat : g = gaps[1] /\ x = next
  BY CameFromIs
<1>2. at \in 0 .. x /\ (x - at) % g = 0 /\ RangeSize \in Nat /\ Places = 0 .. RangeSize - 1 /\ x < RangeSize
  BY <1>1, CameFromIs, RangeIs DEF InsertsAt
<1>3. \A p, q \in Places : p < q /\ q < x /\ (q - p) % g = 0 => <<order[p], order[q]>> \in R
  BY <1>1
<1>4. \A p \in Places : p < at /\ (x - p) % g = 0 => <<order[p], order[x]>> \in R
  <2>1. \A p \in Places : p < at /\ (x - p) % g = 0 => p \in Chain(0)
    BY <1>1, <1>2 DEF Chain
  <2>. QED  BY <1>1, <2>1
<1>5. \A p \in Places : at <= p /\ p < x /\ (x - p) % g = 0 => <<order[x], order[p]>> \in R
  <2>1. \A p \in Places : at <= p /\ p < x /\ (x - p) % g = 0 => p \in Chain(at) \ {next}
    BY <1>1, <1>2 DEF Chain
  <2>. QED  BY <1>1, <2>1
<1>6. \A p \in Places : Shifted(order, at)[p] = order[CameFrom(p, at)]
  BY ShiftedOrders
<1>7. SUFFICES ASSUME NEW p \in Places, NEW q \in Places, p < q, q <= x, (q - p) % g = 0
               PROVE  <<order[CameFrom(p, at)], order[CameFrom(q, at)]>> \in R
  <2>1. \A q \in Places : q < next + 1 => q <= x
    BY <1>1, <1>2
  <2>. QED  BY <1>1, <1>6, <2>1
<1>8. \A r \in Places : r # at /\ (r < at \/ (x - r) % g # 0) => CameFrom(r, at) = r
  BY <1>1, CameFromIs
<1>9. CameFrom(at, at) = x
  BY <1>1, CameFromIs
<1>10. \A r \in Places : at < r /\ r <= x /\ (x - r) % g = 0 =>
         CameFrom(r, at) = r - g /\ r - g >= at /\ (x - (r - g)) % g = 0
  BY <1>1, CameFromIs
<1>11. CASE (x - q) % g # 0
  <2>1. p \in 0 .. x /\ q \in 0 .. x /\ q # x
    <3>1. 0 % g = 0
      BY QuotientIs
    <3>2. q = x => x - q = 0
      OBVIOUS
    <3>. QED  BY <1>2, <1>7, <1>11, <3>1, <3>2
  <2>2. (x - p) % g # 0
    <3>1. (x - p) % g = (x - q) % g
      <4>1. q - p \in Nat /\ x - q \in Nat /\ (q - p) + (x - q) = x - p
        BY <1>7, <2>1
      <4>2. ((q - p) + (x - q)) % g = (x - q) % g
        BY <1>7, <4>1, AddsMultiple
      <4>. QED  BY <4>1, <4>2
    <3>. QED  BY <1>11, <3>1
  <2>3. p # at /\ q # at
    BY <1>2, <1>11, <2>2
  <2>4. CameFrom(p, at) = p /\ CameFrom(q, at) = q
    BY <1>8, <1>11, <2>2, <2>3
  <2>5. q < x
    BY <1>7, <2>1
  <2>. QED  BY <1>3, <1>7, <2>4, <2>5
<1>12. CASE (x - q) % g = 0
  <2>1. p \in 0 .. x /\ q \in 0 .. x
    BY <1>2, <1>7
  <2>2. (x - p) % g = 0
    <3>1. p <= q
      BY <1>7, <2>1
    <3>2. (x - p) % g = (q - p) % g
      BY <1>12, <2>1, <3>1, SameDistance, Zenon
    <3>. QED  BY <1>7, <3>2, Zenon
  <2>3. CASE q < at
    <3>1. CameFrom(p, at) = p /\ CameFrom(q, at) = q /\ q < x
      BY <1>2, <1>7, <1>8, <2>1, <2>3
    <3>. QED  BY <1>3, <1>7, <3>1
  <2>4. CASE q = at
    <3>1. CameFrom(p, at) = p
      BY <1>7, <1>8, <2>1, <2>4
    <3>. QED  BY <1>4, <1>7, <1>9, <2>2, <2>4, <3>1
  <2>5. CASE at < q
    <3>1. CameFrom(q, at) = q - g /\ q - g >= at /\ (x - (q - g)) % g = 0
      BY <1>7, <1>10, <1>12, <2>5
    <3>2. q - g \in Places /\ q - g < x /\ q - g \in 0 .. x
      BY <1>2, <2>1, <2>5, <3>1
    <3>3. CASE p < at
      <4>1. CameFrom(p, at) = p
        BY <1>8, <2>1, <3>3
      <4>2. p < q - g
        BY <1>2, <2>1, <3>1, <3>3
      <4>3. ((q - g) - p) % g = 0
        <5>1. p <= q - g
          BY <2>1, <3>2, <4>2
        <5>2. PICK y \in 0 .. x : y = q - g
          BY <3>2
        <5>3. p <= y /\ (x - y) % g = 0
          BY <3>1, <5>1, <5>2, Zenon
        <5>4. (x - p) % g = (y - p) % g
          BY <2>1, <5>3, SameDistance, Zenon
        <5>. QED  BY <2>2, <5>2, <5>4, Zenon
      <4>. QED  BY <1>3, <3>1, <3>2, <4>1, <4>2, <4>3
    <3>4. CASE p = at
      BY <1>5, <1>9, <3>1, <3>2, <3>4
    <3>5. CASE at < p
      <4>1. CameFrom(p, at) = p - g /\ p - g >= at
        BY <1>7, <1>10, <2>1, <2>2, <3>5
      <4>2. p - g \in Places /\ p - g < q - g /\ (q - g) - (p - g) = q - p
        BY <1>2, <1>7, <2>1, <4>1
      <4>. QED  BY <1>3, <1>7, <3>1, <3>2, <4>1, <4>2
    <3>. QED  BY <1>2, <2>1, <3>3, <3>4, <3>5
  <2>. QED  BY <1>2, <2>1, <2>3, <2>4, <2>5
<1>. QED  BY <1>11, <1>12

SameRange == Places' = Places /\ RangeSize' = RangeSize /\ ids' = ids

LEMMA InputsStaySame ==
  ASSUME UNCHANGED sorterInputs
  PROVE  SameRange /\ (RangeInputsOK => RangeInputsOK')
BY DEF sorterInputs, SameRange, Places, RangeSize, RangeInputsOK

\* Entries and keys that are not written stay right.
LEMMA EntriesAreKept ==
  ASSUME EntriesOK, SameRange, order' = order, keys' = keys, method' = method, isCached' = isCached
  PROVE  EntriesOK'
<1>1. order' \in [Places' -> Places']
  BY Zenon DEF EntriesOK, SameRange
<1>2. \A p, q \in Places' : order'[p] = order'[q] => p = q
  BY Zenon DEF EntriesOK, SameRange
<1>3. keys' \in [Places' -> RangeIds]
  BY Zenon DEF EntriesOK, SameRange
<1>4. isCached' /\ method' # "bitwise" => \A p \in Places' : keys'[p] = ids'[order'[p]]
  BY Zenon DEF EntriesOK, SameRange
<1>. QED  BY <1>1, <1>2, <1>3, <1>4, Zenon DEF EntriesOK

\* The keys looked at are the ids of the entries.
LEMMA KeysAreIds ==
  ASSUME RangeInputsOK, EntriesOK, method # "bitwise"
  PROVE  /\ \A p \in Places : KeyAt(p) = ids[order[p]] /\ ids[order[p]] \in Nat
         /\ next \in Places => \A p \in Places : IsLessOrEqual(p) <=> ids[order[p]] <= ids[order[next]]
<1>1. \A p \in Places : KeyAt(p) = ids[order[p]]
  BY DEF EntriesOK, KeyAt, RangeInputsOK
<1>2. \A p \in Places : ids[order[p]] \in Nat
  BY RangeIs DEF EntriesOK
<1>3. ASSUME NEW p \in Places, next \in Places
      PROVE  IsLessOrEqual(p) <=> ids[order[p]] <= ids[order[next]]
  <2>1. KeyAt(p) = ids[order[p]] /\ KeyAt(next) = ids[order[next]]
    BY <1>1, <1>3
  <2>. QED  BY <2>1, Zenon DEF IsLessOrEqual, SavedKey
<1>. QED  BY <1>1, <1>2, <1>3

\* An insertion between those not greater and those greater keeps the entries,
\* their keys and their order.
LEMMA InsertionKeeps ==
  ASSUME RangeInputsOK, GapsOK, EntriesOK, InsertionOK, NEW at, InsertsAt(at),
         \A p \in Chain(0) : p < at => ids[order[p]] <= ids[order[next]],
         \A p \in Chain(at) \ {next} : ids[order[next]] < ids[order[p]],
         UNCHANGED sorterInputs, gaps' = gaps,
         order' = Shifted(order, at), keys' = MovedKeys(at), next' = next + 1
  PROVE  EntriesOK' /\ InsertionOK'
<1>1. SameRange /\ method' = method /\ isCached' = isCached
  BY InputsStaySame DEF sorterInputs
<1>2. order \in [Places -> Places] /\ keys \in [Places -> RangeIds]
  BY DEF EntriesOK
<1>3. \A p \in Places : order'[p] = order[CameFrom(p, at)] /\ order' \in [Places -> Places]
  BY <1>2, ShiftedOrders
<1>4. EntriesOK'
  <2>1. \A p, q \in Places : order'[p] = order'[q] => p = q
    <3>1. TAKE p, q \in Places
    <3>2. CameFrom(p, at) \in Places /\ CameFrom(q, at) \in Places
      BY CameFromPlaces
    <3>3. order[CameFrom(p, at)] = order[CameFrom(q, at)] => CameFrom(p, at) = CameFrom(q, at)
      BY <3>2 DEF EntriesOK
    <3>4. CameFrom(p, at) = CameFrom(q, at) => p = q
      BY CameFromPlaces
    <3>. QED  BY <1>3, <3>3, <3>4
  <2>2. keys' \in [Places -> RangeIds]
    BY <1>2, ShiftedOrders DEF MovedKeys
  <2>3. ASSUME isCached, method # "bitwise"
        PROVE  \A p \in Places : keys'[p] = ids[order'[p]]
    <3>1. TAKE p \in Places
    <3>2. keys'[p] = keys[CameFrom(p, at)]
      BY <1>2, <2>3, ShiftedOrders DEF MovedKeys
    <3>3. CameFrom(p, at) \in Places
      BY CameFromPlaces
    <3>4. keys[CameFrom(p, at)] = ids[order[CameFrom(p, at)]]
      BY <2>3, <3>3 DEF EntriesOK
    <3>. QED  BY <1>3, <3>2, <3>4
  <2>4. order' \in [Places' -> Places'] /\ keys' \in [Places' -> RangeIds]
    <3>1. order' \in [Places -> Places]
      BY <1>2, ShiftedOrders
    <3>. QED  BY <1>1, <2>2, <3>1, Zenon DEF SameRange
  <2>5. \A p, q \in Places' : order'[p] = order'[q] => p = q
    BY <1>1, <2>1, Zenon DEF SameRange
  <2>6. isCached' /\ method' # "bitwise" => \A p \in Places' : keys'[p] = ids'[order'[p]]
    BY <1>1, <2>3 DEF SameRange
  <2>. QED  BY <2>4, <2>5, <2>6 DEF EntriesOK
<1>5. /\ gaps[1] \in Nat \ {0} /\ next \in Nat /\ next \in Places /\ at \in 0 .. next
      /\ RangeSize \in Nat /\ Places = 0 .. RangeSize - 1
  BY CameFromIs, RangeIs DEF InsertsAt
<1>6. next' \in Nat /\ next' >= gaps'[1]
  BY <1>5 DEF InsertionOK
<1>7. \A p \in Chain(0) : p \in Places
  BY <1>5 DEF Chain
<1>8. \A p \in Chain(at) : p \in Places /\ p <= next
  BY <1>5 DEF Chain
<1>9. \A p, q \in Places : p < q /\ q < next' /\ (q - p) % gaps[1] = 0 => ids[order'[p]] <= ids[order'[q]]
  <2> DEFINE R == {r \in Places \X Places : ids[r[1]] <= ids[r[2]]}
  <2>1. \A m, n \in Places : <<m, n>> \in R <=> ids[m] <= ids[n]
    OBVIOUS
  <2>2. \A p, q \in Places : p < q /\ q < next /\ (q - p) % gaps[1] = 0 => <<order[p], order[q]>> \in R
    <3> HIDE DEF R
    <3>. QED  BY <1>2, <2>1 DEF InsertionOK
  <2>3. \A p \in Chain(0) : p < at => <<order[p], order[next]>> \in R
    <3> HIDE DEF R
    <3>. QED  BY <1>2, <1>5, <1>7, <2>1
  <2>4. \A p \in Chain(at) \ {next} : <<order[next], order[p]>> \in R
    <3>1. \A p \in Places : ids[order[p]] \in Nat
      BY <1>2, RangeIs
    <3>2. \A p \in Chain(at) \ {next} : ids[order[next]] <= ids[order[p]]
      BY <1>5, <1>8, <3>1
    <3> HIDE DEF R
    <3>. QED  BY <1>2, <1>5, <1>8, <2>1, <3>2
  <2>5. \A p, q \in Places : p < q /\ q < next + 1 /\ (q - p) % gaps[1] = 0 => <<order'[p], order'[q]>> \in R
    <3> HIDE DEF R
    <3>. QED  BY <1>2, <2>2, <2>3, <2>4, InsertionSorts
  <2> HIDE DEF R
  <2>. QED  BY <1>3, <2>1, <2>5
<1>10. ASSUME method # "shell"
       PROVE  \A p, q \in Places : p < q /\ q < next' => ComesBefore(order'[p], order'[q])
  <2>1. gaps[1] = 1 /\ \A x \in Int : x % gaps[1] = 0
    BY <1>10 DEF GapsOK
  <2>2. order[next] = next
    BY <1>5, <1>10 DEF InsertionOK
  <2>3. \A p \in Places : p < next => order[p] < next
    <3>1. TAKE p \in Places
    <3>2. order[p] \in Places
      BY <1>2
    <3>3. order[p] >= next => order[order[p]] = order[p]
      BY <1>10, <3>2 DEF InsertionOK
    <3>4. order[order[p]] = order[p] => order[p] = p
      BY <3>2 DEF EntriesOK
    <3>. QED  BY <1>5, <3>2, <3>3, <3>4
  <2> DEFINE R == {r \in Places \X Places : ComesBefore(r[1], r[2])}
  <2>4. \A m, n \in Places : <<m, n>> \in R <=> ComesBefore(m, n)
    OBVIOUS
  <2>5. \A p, q \in Places : p < q /\ q < next /\ (q - p) % gaps[1] = 0 => <<order[p], order[q]>> \in R
    <3> HIDE DEF R
    <3>. QED  BY <1>2, <1>10, <2>4 DEF InsertionOK, IsSettled
  <2>6. \A p \in Chain(0) : p < at => <<order[p], order[next]>> \in R
    <3>1. SUFFICES ASSUME NEW p \in Chain(0), p < at PROVE <<order[p], order[next]>> \in R
      OBVIOUS
    <3>2. p \in Places /\ p < next /\ order[p] \in Places /\ order[next] \in Places
      BY <1>2, <1>5, <1>7, <3>1
    <3>3. ids[order[p]] <= ids[order[next]] /\ ids[order[p]] \in Nat /\ ids[order[next]] \in Nat
      BY <3>1, <3>2, RangeIs
    <3>4. order[p] < order[next]
      BY <2>2, <2>3, <3>2
    <3>5. ComesBefore(order[p], order[next])
      BY <3>3, <3>4 DEF ComesBefore
    <3> HIDE DEF R
    <3>. QED  BY <2>4, <3>2, <3>5
  <2>7. \A p \in Chain(at) \ {next} : <<order[next], order[p]>> \in R
    <3> HIDE DEF R
    <3>. QED  BY <1>2, <1>5, <1>8, <2>4 DEF ComesBefore
  <2>8. \A p, q \in Places : p < q /\ q < next + 1 /\ (q - p) % gaps[1] = 0 => <<order'[p], order'[q]>> \in R
    <3> HIDE DEF R
    <3>. QED  BY <1>2, <2>5, <2>6, <2>7, InsertionSorts
  <2> HIDE DEF R
  <2>9. \A p, q \in Places : (q - p) % gaps[1] = 0
    BY <1>5, <2>1
  <2>. QED  BY <1>3, <2>4, <2>8, <2>9
<1>11. ASSUME method # "shell"
       PROVE  \A p \in Places : p >= next' => order'[p] = p
  <2>1. TAKE p \in Places
  <2>2. p >= next' => p > next /\ p >= next
    BY <1>5
  <2>3. p > next => CameFrom(p, at) = p
    BY CameFromPlaces
  <2>4. p >= next => order[p] = p
    BY <1>11 DEF InsertionOK
  <2>. QED  BY <1>3, <2>2, <2>3, <2>4
<1>12. InsertionOK'
  <2>2. method' # "shell" => \A p, q \in Places' : p < q /\ q < next' => IsSettled(p, q)'
    BY <1>1, <1>10 DEF IsSettled, ComesBefore, SameRange
  <2>3. method' # "shell" => \A p \in Places' : p >= next' => order'[p] = p
    BY <1>1, <1>11 DEF SameRange
  <2>4. method' # "bitwise"
    BY <1>1 DEF InsertionOK
  <2>5. \A p, q \in Places' : p < q /\ q < next' /\ (q - p) % gaps'[1] = 0 => ids'[order'[p]] <= ids'[order'[q]]
    BY <1>1, <1>9 DEF SameRange
  <2>. QED  BY <1>6, <2>2, <2>3, <2>4, <2>5 DEF InsertionOK
<1>. QED  BY <1>4, <1>12

InsertPhases == {"insert", "probe", "search"}

LEMMA InvWhileInserting ==
  ASSUME RangeInputsOK', GapsOK', EntriesOK', InsertionOK', sorterPc' = "insert"
  PROVE  SorterInv'
BY DEF SorterInv, SortsById

LEMMA InvWhileSearching ==
  ASSUME RangeInputsOK', GapsOK', EntriesOK', InsertionOK', SearchOK', sorterPc' \in {"probe", "search"}
  PROVE  SorterInv'
BY DEF SorterInv, SortsById

LEMMA InsertionStays ==
  ASSUME SorterInv, sorterPc \in InsertPhases, UNCHANGED <<sorterInputs, gaps, next, order, keys>>
  PROVE  RangeInputsOK' /\ GapsOK' /\ EntriesOK' /\ InsertionOK'
<1>1. RangeInputsOK /\ GapsOK /\ EntriesOK /\ InsertionOK
  BY DEF SorterInv, InsertPhases
<1>2. SameRange /\ RangeInputsOK'
  BY <1>1, InputsStaySame
<1>3. gaps' = gaps /\ next' = next /\ order' = order /\ keys' = keys /\ method' = method /\ isCached' = isCached
  BY DEF sorterInputs
<1>4. GapsOK'
  BY <1>1, <1>3 DEF GapsOK
<1>5. EntriesOK'
  BY <1>1, <1>2, <1>3, EntriesAreKept
<1>6. InsertionOK'
  <2>1. \A p, q : IsSettled(p, q)' <=> IsSettled(p, q)
    BY <1>2, <1>3, Zenon DEF SameRange, IsSettled, ComesBefore
  <2>2. \A p, q \in Places : p < q /\ q < next /\ (q - p) % gaps[1] = 0 => ids[order[p]] <= ids[order[q]]
    BY <1>1 DEF InsertionOK
  <2>3. \A p, q \in Places' : p < q /\ q < next' /\ (q - p) % gaps'[1] = 0 => ids'[order'[p]] <= ids'[order'[q]]
    BY <1>2, <1>3, <2>2, Zenon DEF SameRange
  <2>4. method' # "shell" =>
          /\ \A p, q \in Places' : p < q /\ q < next' => IsSettled(p, q)'
          /\ \A p \in Places' : p >= next' => order'[p] = p
    BY <1>1, <1>2, <1>3, <2>1, Zenon DEF SameRange, InsertionOK
  <2>. QED  BY <1>1, <1>3, <2>3, <2>4, Zenon DEF InsertionOK
<1>. QED  BY <1>2, <1>4, <1>5, <1>6

\* What holds while an entry is inserted.
LEMMA WhileInserting ==
  ASSUME SorterInv, sorterPc \in InsertPhases
  PROVE  /\ RangeInputsOK /\ GapsOK /\ EntriesOK /\ InsertionOK
         /\ gaps[1] \in Nat \ {0} /\ next \in Nat /\ next >= gaps[1]
         /\ RangeSize \in Nat /\ Places = 0 .. RangeSize - 1
         /\ \A p \in Places : ids[order[p]] \in Nat
         /\ next < RangeSize =>
              /\ next \in Places /\ next \in Chain(0) /\ next - gaps[1] \in Places
              /\ \A p \in Places : IsLessOrEqual(p) <=> ids[order[p]] <= ids[order[next]]
<1>1. RangeInputsOK /\ GapsOK /\ EntriesOK /\ InsertionOK
  BY DEF SorterInv, InsertPhases
<1>2. gaps[1] \in Nat \ {0} /\ next \in Nat /\ next >= gaps[1] /\ RangeSize \in Nat /\ Places = 0 .. RangeSize - 1
  BY <1>1, RangeIs DEF GapsOK, InsertionOK
<1>3. \A p \in Places : ids[order[p]] \in Nat
  BY <1>1, RangeIs DEF EntriesOK
<1>4. ASSUME next < RangeSize
      PROVE  next \in Places /\ next \in Chain(0) /\ next - gaps[1] \in Places
  <2>1. PICK g \in Nat \ {0}, x \in Nat : g = gaps[1] /\ x = next
    BY <1>2
  <2>2. (x - x) % g = 0
    <3>1. (g * 0 + 0) % g = 0 /\ g * 0 + 0 = x - x
      <4>1. 0 \in 0 .. g - 1 /\ 0 \in Nat
        OBVIOUS
      <4>. QED  BY <4>1, QuotientIs
    <3>. QED  BY <3>1
  <2>. QED  BY <1>2, <1>4, <2>1, <2>2 DEF Chain
<1>5. next \in Places => \A p \in Places : IsLessOrEqual(p) <=> ids[order[p]] <= ids[order[next]]
  BY <1>1, KeysAreIds DEF InsertionOK
<1>. QED  BY <1>1, <1>2, <1>3, <1>4, <1>5

\* Entries further back along the chain are not greater.
LEMMA ChainIsSorted ==
  ASSUME SorterInv, sorterPc \in InsertPhases, next < RangeSize, NEW q \in Chain(0), q < next
  PROVE  \A p \in Chain(0) : p <= q => ids[order[p]] <= ids[order[q]]
<1>1. PICK g \in Nat \ {0}, x \in Nat : g = gaps[1] /\ x = next
  BY WhileInserting
<1>2. TAKE p \in Chain(0)
<1>3. RangeSize \in Nat /\ Places = 0 .. RangeSize - 1
  BY WhileInserting
<1>4. p \in Places /\ q \in Places /\ p \in 0 .. x /\ q \in 0 .. x /\ (x - p) % g = 0 /\ (x - q) % g = 0
  BY <1>1, <1>3 DEF Chain
<1>5. CASE p = q
  BY <1>4, <1>5, WhileInserting
<1>6. CASE p # q
  <2>1. SUFFICES ASSUME p < q PROVE ids[order[p]] <= ids[order[q]]
    BY <1>4, <1>6
  <2>2. (q - p) % g = 0
    <3>1. p <= q
      BY <1>4, <2>1
    <3>2. (x - p) % g = (q - p) % g
      BY <1>4, <3>1, SameDistance, Zenon
    <3>. QED  BY <1>4, <3>2, Zenon
  <2>. QED  BY <1>1, <1>4, <2>1, <2>2, WhileInserting DEF InsertionOK
<1>. QED  BY <1>5, <1>6

\* An insertion by any search that found the place.
LEMMA InsertingKeepsInv ==
  ASSUME SorterInv, sorterPc \in InsertPhases, NEW at, InsertsAt(at), InsertNextAt(at),
         \A p \in Chain(0) : p < at => ids[order[p]] <= ids[order[next]],
         \A p \in Chain(at) \ {next} : ids[order[next]] < ids[order[p]]
  PROVE  SorterInv'
<1>1. RangeInputsOK /\ GapsOK /\ EntriesOK /\ InsertionOK
  BY WhileInserting
<1>2. /\ UNCHANGED sorterInputs /\ gaps' = gaps /\ sorterPc' = "insert"
      /\ order' = Shifted(order, at) /\ keys' = MovedKeys(at) /\ next' = next + 1
  BY DEF InsertNextAt
<1>3. EntriesOK' /\ InsertionOK'
  BY <1>1, <1>2, InsertionKeeps
<1>4. RangeInputsOK'
  BY <1>1, <1>2, InputsStaySame
<1>5. GapsOK'
  BY <1>1, <1>2 DEF GapsOK, sorterInputs
<1>. QED  BY <1>2, <1>3, <1>4, <1>5, InvWhileInserting

LEMMA KeepNextKeepsInv == ASSUME SorterInv, KeepNext PROVE SorterInv'
<1>1. /\ UNCHANGED sorterInputs /\ gaps' = gaps /\ sorterPc = "insert" /\ sorterPc' = "insert"
      /\ order' = order /\ keys' = keys /\ next' = next + 1 /\ next < RangeSize
      /\ IsLessOrEqual(next - gaps[1]) /\ sorterPc \in InsertPhases
  BY DEF KeepNext, StaysThere, InsertPhases
<1>2. RangeInputsOK /\ GapsOK /\ EntriesOK /\ InsertionOK
  BY <1>1, WhileInserting
<1>3. PICK g \in Nat \ {0}, x \in Nat : g = gaps[1] /\ x = next
  BY <1>1, WhileInserting
<1>4. /\ RangeSize \in Nat /\ Places = 0 .. RangeSize - 1 /\ x >= g
      /\ x \in Places /\ x \in Chain(0) /\ x - g \in Places /\ (x - x) % g = 0
  BY <1>1, <1>3, WhileInserting DEF Chain
<1>5. InsertsAt(next)
  BY <1>3, <1>4 DEF InsertsAt
<1>6. Chain(next) \ {next} = {}
  BY <1>3 DEF Chain
<1>7. \A p \in Places : CameFrom(p, next) = p
  <2>1. \A p \in Places : p \in Chain(next) => p = next
    BY <1>6
  <2>. QED  BY <2>1 DEF CameFrom
<1>8. order \in [Places -> Places] /\ keys \in [Places -> RangeIds]
  BY <1>2 DEF EntriesOK
<1>9. Shifted(order, next) = order /\ Shifted(keys, next) = keys
  BY <1>7, <1>8 DEF Shifted
<1>10. order' = Shifted(order, next) /\ keys' = MovedKeys(next)
  BY <1>1, <1>9 DEF MovedKeys
<1>11. x - g \in Chain(0) /\ \A p \in Chain(0) : p < x => p <= x - g
  <2>1. x \in 0 .. x /\ x - g \in 0 .. x
    BY <1>4
  <2>2. x - g < x
    BY <1>4
  <2>3. (x - (x - g)) % g = 0
    <3>1. 0 \in 0 .. x /\ x \in 0 .. x
      OBVIOUS
    <3>2. x - (x - g) = g * 1 + 0 /\ 0 \in 0 .. g - 1 /\ 1 \in Nat
      OBVIOUS
    <3>3. (g * 1 + 0) % g = 0
      BY <3>2, QuotientIs
    <3>. QED  BY <3>2, <3>3
  <2>4. ASSUME NEW p \in Chain(0), p < x
        PROVE  p <= x - g
    <3>1. p \in 0 .. x /\ (x - p) % g = 0
      BY <1>3 DEF Chain
    <3>. QED  BY <1>4, <2>1, <2>4, <3>1, ChainSteps
  <2>. QED  BY <1>3, <2>1, <2>3, <2>4 DEF Chain
<1>12. ids[order[x - g]] <= ids[order[x]]
  BY <1>1, <1>3, <1>4, WhileInserting
<1>13. \A p \in Chain(0) : p < next => ids[order[p]] <= ids[order[next]]
  <2>1. SUFFICES ASSUME NEW p \in Chain(0), p < x PROVE ids[order[p]] <= ids[order[x]]
    BY <1>3
  <2>2. p <= x - g /\ x - g < x
    BY <1>4, <1>11, <2>1
  <2>3. ids[order[p]] <= ids[order[x - g]]
    BY <1>1, <1>3, <1>11, <2>2, ChainIsSorted
  <2>4. p \in Places
    BY <1>3, <1>4 DEF Chain
  <2>5. ids[order[p]] \in Nat /\ ids[order[x]] \in Nat /\ ids[order[x - g]] \in Nat
    BY <1>1, <1>4, <2>4, WhileInserting
  <2>. QED  BY <1>12, <2>3, <2>5
<1>14. \A p \in Chain(next) \ {next} : ids[order[next]] < ids[order[p]]
  BY <1>6
<1>15. EntriesOK' /\ InsertionOK'
  BY <1>1, <1>2, <1>5, <1>10, <1>13, <1>14, InsertionKeeps
<1>16. RangeInputsOK' /\ GapsOK'
  BY <1>1, <1>2, InputsStaySame DEF GapsOK, sorterInputs
<1>. QED  BY <1>1, <1>15, <1>16, InvWhileInserting

LEMMA InsertByScanKeepsInv == ASSUME SorterInv, InsertByScan PROVE SorterInv'
<1>1. sorterPc \in InsertPhases /\ next < RangeSize /\ InsertNextAt(LinearPlace)
  BY DEF InsertByScan, InsertPhases
<1>2. PICK g \in Nat \ {0}, x \in Nat : g = gaps[1] /\ x = next
  BY <1>1, WhileInserting
<1>3. RangeSize \in Nat /\ Places = 0 .. RangeSize - 1 /\ x \in Places /\ x \in Chain(0)
  BY <1>1, <1>2, WhileInserting
<1>4. \A p \in Chain(0) : p \in Places /\ p \in 0 .. x /\ (x - p) % g = 0
  BY <1>2, <1>3 DEF Chain
<1>5. \A p \in Chain(0) : \A q \in Chain(p) : q \in Chain(0) /\ p <= q
  BY <1>2, <1>4 DEF Chain
<1>6. \A p, q \in Chain(0) : p <= q => q \in Chain(p)
  BY <1>2, <1>4 DEF Chain
<1> DEFINE S == {p \in Chain(0) : \A q \in Chain(p) \ {next} : ~IsLessOrEqual(q)}
<1>7. x \in S
  <2>1. Chain(x) \ {next} = {}
    BY <1>2 DEF Chain
  <2>. QED  BY <1>3, <2>1
<1>8. PICK at \in S : \A p \in S : at <= p
  <2>1. S \in SUBSET Nat /\ S # {}
    <3>1. \A p \in S : p \in Chain(0)
      OBVIOUS
    <3>2. \A p \in Chain(0) : p \in Nat
      BY <1>4
    <3> HIDE DEF S
    <3>. QED  BY <1>7, <3>1, <3>2
  <2>. QED  BY <2>1, LeastElement
<1>9. LinearPlace = at
  <2>1. \A p \in S : (\A q \in S : p <= q) => p = at
    <3>1. TAKE p \in S
    <3>2. SUFFICES ASSUME \A q \in S : p <= q PROVE p = at
      OBVIOUS
    <3>3. p <= at /\ at <= p /\ p \in Int /\ at \in Int
      BY <1>4, <1>8, <3>2
    <3>. QED  BY <3>3
  <2>2. Min(S) = at
    <3> HIDE DEF S
    <3>. QED  BY <1>8, <2>1, Zenon DEF Min
  <2>. QED  BY <2>2 DEF LinearPlace
<1>10. at \in Chain(0) /\ InsertsAt(at)
  BY <1>2, <1>3, <1>8 DEF InsertsAt
<1>11. ASSUME NEW p \in Chain(0)
       PROVE  /\ p \in Places
              /\ IsLessOrEqual(p) <=> ids[order[p]] <= ids[order[next]]
              /\ ids[order[p]] \in Nat /\ ids[order[next]] \in Nat
  BY <1>1, <1>2, <1>3, <1>4, WhileInserting
<1>12. \A p \in Chain(at) \ {next} : ids[order[next]] < ids[order[p]]
  <2>1. TAKE p \in Chain(at) \ {next}
  <2>2. ~IsLessOrEqual(p) /\ p \in Chain(0)
    BY <1>5, <1>8
  <2>. QED  BY <1>11, <2>2
<1>13. \A p \in Chain(0) : p < at => ids[order[p]] <= ids[order[next]]
  <2>1. TAKE p \in Chain(0)
  <2>2. SUFFICES ASSUME p < at PROVE ids[order[p]] <= ids[order[next]]
    OBVIOUS
  <2>3. p \notin S
    BY <1>4, <1>8, <1>10, <2>2
  <2>4. PICK q \in Chain(p) \ {next} : IsLessOrEqual(q)
    BY <2>3
  <2>5. q \in Chain(0) /\ p <= q /\ q < x
    BY <1>2, <1>4, <1>5, <2>4
  <2>6. ids[order[p]] <= ids[order[q]]
    BY <1>1, <1>2, <2>5, ChainIsSorted
  <2>. QED  BY <1>11, <2>4, <2>5, <2>6
<1>. QED  BY <1>1, <1>9, <1>10, <1>12, <1>13, InsertingKeepsInv

\* With a gap of one all entries behind are in order.
LEMMA WithGapOfOne ==
  ASSUME SorterInv, sorterPc \in InsertPhases, method # "shell"
  PROVE  /\ gaps[1] = 1 /\ next \in Nat /\ next >= 1
         /\ \A a \in Nat : Chain(a) = a .. next
         /\ \A p, q \in Places : p <= q /\ q < next => ids[order[p]] <= ids[order[q]]
<1>1. gaps[1] = 1 /\ next \in Nat /\ next >= 1 /\ \A x \in Int : x % gaps[1] = 0
  BY WhileInserting DEF GapsOK
<1>2. \A a \in Nat : Chain(a) = a .. next
  BY <1>1 DEF Chain
<1>3. ASSUME NEW p \in Places, NEW q \in Places, p <= q, q < next
      PROVE  ids[order[p]] <= ids[order[q]]
  <2>1. p \in Nat /\ q \in Nat
    BY WhileInserting
  <2>2. CASE p = q
    BY <2>2, WhileInserting
  <2>3. CASE p < q
    <3>1. (q - p) % gaps[1] = 0
      BY <1>1, <2>1
    <3>. QED  BY <1>3, <2>3, <3>1, WhileInserting DEF InsertionOK
  <2>. QED  BY <1>3, <2>1, <2>2, <2>3
<1>. QED  BY <1>1, <1>2, <1>3

LEMMA SearchPlaceKeepsInv == ASSUME SorterInv, SearchPlace PROVE SorterInv'
<1>1. /\ sorterPc = "insert" /\ sorterPc \in InsertPhases /\ next < RangeSize /\ ~IsLessOrEqual(next - gaps[1])
      /\ method \in {"binary", "exponential"} /\ method # "shell"
      /\ searchBegin' = 0 /\ searchEnd' = (IF method = "binary" THEN next ELSE next - 1) /\ bound' = 2
      /\ sorterPc' = (IF method = "binary" THEN "search" ELSE "probe")
      /\ UNCHANGED <<sorterInputs, gaps, next, order, keys>>
  BY DEF SearchPlace, InsertPhases, StaysThere
<1>2. RangeInputsOK' /\ GapsOK' /\ EntriesOK' /\ InsertionOK'
  BY <1>1, InsertionStays
<1>3. SameRange /\ method' = method /\ next' = next /\ order' = order
  BY <1>1, InputsStaySame DEF sorterInputs
<1>4. next \in Places /\ next - 1 \in Places /\ next \in Nat /\ next >= 1 /\ Places = 0 .. RangeSize - 1
  BY <1>1, WhileInserting, WithGapOfOne
<1>5. ids[order[next]] < ids[order[next - 1]]
  <2>1. ~(ids[order[next - 1]] <= ids[order[next]])
    BY <1>1, <1>4, WhileInserting, WithGapOfOne
  <2>. QED  BY <1>1, <1>4, <2>1, WhileInserting
<1>6. SearchOK'
  <2>1. /\ searchBegin' \in Nat /\ searchEnd' \in Nat /\ searchBegin' <= searchEnd' /\ searchEnd' <= next'
        /\ sorterPc' = "probe" => searchBegin' = 0 /\ bound' \in Nat /\ bound' >= 2 /\ searchEnd' > next' - bound'
    BY <1>1, <1>3, <1>4
  <2>3. \A p \in searchEnd' .. next - 1 : p = next - 1
    BY <1>1, <1>4
  <2>4. \A p \in searchEnd' .. next' - 1 : ids'[order'[next']] < ids'[order'[p]]
    BY <1>3, <1>5, <2>3 DEF SameRange
  <2>5. \A p \in 0 .. searchBegin' - 1 : ids'[order'[p]] <= ids'[order'[next']]
    BY <1>1
  <2>6. method' \in {"binary", "exponential"} /\ next' \in Places'
    BY <1>1, <1>3, <1>4 DEF SameRange
  <2>. QED  BY <2>1, <2>4, <2>5, <2>6, Zenon DEF SearchOK
<1>7. sorterPc' \in {"probe", "search"}
  BY <1>1
<1>. QED  BY <1>2, <1>6, <1>7, InvWhileSearching

\* What holds while its place is searched for.
LEMMA WhileSearching ==
  ASSUME SorterInv, sorterPc \in {"probe", "search"}
  PROVE  /\ sorterPc \in InsertPhases /\ SearchOK /\ method # "shell"
         /\ next \in Nat /\ next < RangeSize /\ RangeSize \in Nat /\ Places = 0 .. RangeSize - 1
         /\ \A p \in 0 .. next : p \in Places /\ ids[order[p]] \in Nat
         /\ \A p \in 0 .. next : IsLessOrEqual(p) <=> ids[order[p]] <= ids[order[next]]
         /\ \A p, q \in 0 .. next : p <= q /\ q < next => ids[order[p]] <= ids[order[q]]
<1>1. sorterPc \in InsertPhases /\ SearchOK /\ method # "shell"
  BY DEF SorterInv, InsertPhases, SearchOK
<1>2. /\ RangeSize \in Nat /\ Places = 0 .. RangeSize - 1 /\ next \in Places
      /\ \A p \in Places : ids[order[p]] \in Nat
  BY <1>1, WhileInserting DEF SearchOK
<1>3. next \in Nat /\ next < RangeSize /\ \A p \in 0 .. next : p \in Places
  BY <1>2
<1>4. \A p \in Places : IsLessOrEqual(p) <=> ids[order[p]] <= ids[order[next]]
  BY <1>1, <1>3, WhileInserting
<1>5. \A p, q \in Places : p <= q /\ q < next => ids[order[p]] <= ids[order[q]]
  BY <1>1, WithGapOfOne
<1>. QED  BY <1>1, <1>2, <1>3, <1>4, <1>5

\* A step of a search keeps its ends on both sides of the place.
LEMMA SearchStepKeepsInv ==
  ASSUME SorterInv, sorterPc \in {"probe", "search"}, UNCHANGED <<sorterInputs, gaps, next, order, keys>>,
         sorterPc' \in {"probe", "search"},
         searchBegin' \in Nat, searchEnd' \in Nat, searchBegin' <= searchEnd', searchEnd' <= next,
         \A p \in 0 .. searchBegin' - 1 : ids[order[p]] <= ids[order[next]],
         \A p \in searchEnd' .. next - 1 : ids[order[next]] < ids[order[p]],
         sorterPc' = "probe" => searchBegin' = 0 /\ bound' \in Nat /\ bound' >= 2 /\ searchEnd' > next - bound'
  PROVE  SorterInv'
<1>1. sorterPc \in InsertPhases /\ SearchOK
  BY WhileSearching
<1>2. RangeInputsOK' /\ GapsOK' /\ EntriesOK' /\ InsertionOK'
  BY <1>1, InsertionStays
<1>3. SameRange /\ method' = method /\ next' = next /\ order' = order
  BY InputsStaySame DEF sorterInputs
<1>4. SearchOK'
  <2>1. /\ method' \in {"binary", "exponential"} /\ next' \in Places'
        /\ searchEnd' <= next'
    BY <1>1, <1>3 DEF SearchOK, SameRange
  <2>2. /\ \A p \in 0 .. searchBegin' - 1 : ids'[order'[p]] <= ids'[order'[next']]
        /\ \A p \in searchEnd' .. next' - 1 : ids'[order'[next']] < ids'[order'[p]]
    BY <1>3, Zenon DEF SameRange
  <2>3. sorterPc' = "probe" => searchBegin' = 0 /\ bound' \in Nat /\ bound' >= 2 /\ searchEnd' > next' - bound'
    BY <1>3, Zenon
  <2>. QED  BY <2>1, <2>2, <2>3, Zenon DEF SearchOK
<1>. QED  BY <1>2, <1>4, InvWhileSearching

LEMMA ProbeBackKeepsInv == ASSUME SorterInv, ProbeBack PROVE SorterInv'
<1>1. sorterPc = "probe" /\ bound <= next /\ UNCHANGED <<sorterInputs, gaps, next, order, keys>>
  BY DEF ProbeBack
<1>2. /\ searchBegin = 0 /\ searchEnd \in Nat /\ searchEnd <= next /\ next \in Nat
      /\ bound \in Nat /\ bound >= 2 /\ searchEnd > next - bound
      /\ \A p \in searchEnd .. next - 1 : ids[order[next]] < ids[order[p]]
  BY <1>1, WhileSearching DEF SearchOK
<1>3. next - bound \in 0 .. next /\ next - bound < next
  BY <1>1, <1>2
<1>4. CASE IsLessOrEqual(next - bound)
  <2>1. /\ searchBegin' = next - bound + 1 /\ sorterPc' = "search" /\ searchEnd' = searchEnd
    BY <1>4 DEF ProbeBack
  <2>2. ids[order[next - bound]] <= ids[order[next]]
    BY <1>1, <1>3, <1>4, WhileSearching
  <2>3. ASSUME NEW p \in 0 .. searchBegin' - 1
        PROVE  ids[order[p]] <= ids[order[next]]
    <3>1. p \in 0 .. next /\ p <= next - bound
      BY <1>2, <1>3, <2>1
    <3>2. ids[order[p]] <= ids[order[next - bound]]
      BY <1>1, <1>3, <3>1, WhileSearching
    <3>3. ids[order[p]] \in Nat /\ ids[order[next]] \in Nat /\ ids[order[next - bound]] \in Nat
      BY <1>1, <1>2, <1>3, <3>1, WhileSearching
    <3>. QED  BY <2>2, <3>2, <3>3
  <2>4. searchBegin' \in Nat /\ searchBegin' <= searchEnd' /\ searchEnd' <= next /\ searchEnd' \in Nat
    BY <1>2, <1>3, <2>1
  <2>. QED  BY <1>1, <1>2, <2>1, <2>3, <2>4, SearchStepKeepsInv
<1>5. CASE ~IsLessOrEqual(next - bound)
  <2>1. searchEnd' = next - bound /\ bound' = 2 * bound /\ searchBegin' = searchBegin /\ sorterPc' = sorterPc
    BY <1>5 DEF ProbeBack
  <2>2. ids[order[next]] < ids[order[next - bound]]
    <3>1. ~(ids[order[next - bound]] <= ids[order[next]])
      BY <1>1, <1>3, <1>5, WhileSearching
    <3>2. ids[order[next - bound]] \in Nat /\ ids[order[next]] \in Nat
      BY <1>1, <1>2, <1>3, WhileSearching
    <3>. QED  BY <3>1, <3>2
  <2>3. ASSUME NEW p \in searchEnd' .. next - 1
        PROVE  ids[order[next]] < ids[order[p]]
    <3>1. p \in 0 .. next /\ next - bound <= p /\ p < next
      BY <1>2, <1>3, <2>1
    <3>2. ids[order[next - bound]] <= ids[order[p]]
      BY <1>1, <1>3, <3>1, WhileSearching
    <3>3. ids[order[p]] \in Nat /\ ids[order[next]] \in Nat /\ ids[order[next - bound]] \in Nat
      BY <1>1, <1>2, <1>3, <3>1, WhileSearching
    <3>. QED  BY <2>2, <3>2, <3>3
  <2>4. /\ searchBegin' = 0 /\ searchEnd' \in Nat /\ searchEnd' >= 0 /\ searchEnd' <= next
        /\ bound' \in Nat /\ bound' >= 2 /\ searchEnd' > next - bound'
    BY <1>2, <1>3, <2>1
  <2>5. \A p \in 0 .. searchBegin' - 1 : ids[order[p]] <= ids[order[next]]
    BY <2>4
  <2>. QED  BY <1>1, <2>1, <2>3, <2>4, <2>5, SearchStepKeepsInv
<1>. QED  BY <1>4, <1>5

LEMMA NothingBackKeepsInv == ASSUME SorterInv, NothingBack PROVE SorterInv'
<1>1. sorterPc = "probe" /\ sorterPc' = "search" /\ UNCHANGED <<sorterInputs, gaps, next, searched, order, keys>>
  BY DEF NothingBack
<1>2. searchBegin' = searchBegin /\ searchEnd' = searchEnd
  BY <1>1 DEF searched
<1>. QED  BY <1>1, <1>2, WhileSearching, SearchStepKeepsInv DEF SearchOK

LEMMA BisectKeepsInv == ASSUME SorterInv, Bisect PROVE SorterInv'
<1>1. /\ sorterPc = "search" /\ searchBegin < searchEnd /\ UNCHANGED <<sorterInputs, gaps, next, order, keys>>
      /\ sorterPc' = "search"
  BY DEF Bisect
<1>2. /\ searchBegin \in Nat /\ searchEnd \in Nat /\ searchEnd <= next /\ next \in Nat
      /\ \A p \in 0 .. searchBegin - 1 : ids[order[p]] <= ids[order[next]]
      /\ \A p \in searchEnd .. next - 1 : ids[order[next]] < ids[order[p]]
  BY <1>1, WhileSearching DEF SearchOK
<1>3. PICK middle \in Nat : middle = searchBegin + (searchEnd - searchBegin) \div 2
  BY <1>1, <1>2
<1>4. searchBegin <= middle /\ middle < searchEnd /\ middle \in 0 .. next /\ middle < next
  BY <1>1, <1>2, <1>3
<1>5. ids[order[middle]] \in Nat /\ ids[order[next]] \in Nat
  BY <1>1, <1>2, <1>4, WhileSearching
<1>6. CASE IsLessOrEqual(middle)
  <2>1. searchBegin' = middle + 1 /\ searchEnd' = searchEnd
    BY <1>3, <1>6 DEF Bisect
  <2>2. ids[order[middle]] <= ids[order[next]]
    BY <1>1, <1>4, <1>6, WhileSearching
  <2>3. ASSUME NEW p \in 0 .. searchBegin' - 1
        PROVE  ids[order[p]] <= ids[order[next]]
    <3>1. p \in 0 .. next /\ p <= middle
      BY <1>2, <1>4, <2>1
    <3>2. ids[order[p]] <= ids[order[middle]] /\ ids[order[p]] \in Nat
      BY <1>1, <1>4, <3>1, WhileSearching
    <3>. QED  BY <1>5, <2>2, <3>2
  <2>4. searchBegin' \in Nat /\ searchBegin' <= searchEnd' /\ searchEnd' \in Nat /\ searchEnd' <= next
    BY <1>2, <1>4, <2>1
  <2>. QED  BY <1>1, <1>2, <2>1, <2>3, <2>4, SearchStepKeepsInv
<1>7. CASE ~IsLessOrEqual(middle)
  <2>1. searchEnd' = middle /\ searchBegin' = searchBegin
    BY <1>3, <1>7 DEF Bisect
  <2>2. ids[order[next]] < ids[order[middle]]
    <3>1. ~(ids[order[middle]] <= ids[order[next]])
      BY <1>1, <1>4, <1>7, WhileSearching
    <3>. QED  BY <1>5, <3>1
  <2>3. ASSUME NEW p \in searchEnd' .. next - 1
        PROVE  ids[order[next]] < ids[order[p]]
    <3>1. p \in 0 .. next /\ middle <= p /\ p < next
      BY <1>2, <1>4, <2>1
    <3>2. ids[order[middle]] <= ids[order[p]] /\ ids[order[p]] \in Nat
      BY <1>1, <1>4, <3>1, WhileSearching
    <3>. QED  BY <1>5, <2>2, <3>2
  <2>4. searchBegin' \in Nat /\ searchBegin' <= searchEnd' /\ searchEnd' \in Nat /\ searchEnd' <= next
    BY <1>2, <1>4, <2>1
  <2>. QED  BY <1>1, <1>2, <2>1, <2>3, <2>4, SearchStepKeepsInv
<1>. QED  BY <1>6, <1>7

LEMMA InsertFoundKeepsInv == ASSUME SorterInv, InsertFound PROVE SorterInv'
<1>1. sorterPc = "search" /\ searchBegin >= searchEnd /\ InsertNextAt(searchBegin)
  BY DEF InsertFound
<1>2. /\ searchBegin \in Nat /\ searchEnd = searchBegin /\ searchBegin <= next /\ next \in Places /\ next \in Nat
      /\ \A p \in 0 .. searchBegin - 1 : ids[order[p]] <= ids[order[next]]
      /\ \A p \in searchBegin .. next - 1 : ids[order[next]] < ids[order[p]]
  <2>1. SearchOK /\ next \in Nat
    BY <1>1, WhileSearching
  <2>2. searchBegin \in Nat /\ searchEnd \in Nat /\ searchBegin <= searchEnd
    BY <2>1 DEF SearchOK
  <2>3. searchEnd = searchBegin
    BY <1>1, <2>2
  <2>. QED  BY <2>1, <2>3 DEF SearchOK
<1>3. sorterPc \in InsertPhases /\ \A a \in Nat : Chain(a) = a .. next
  BY <1>1, WhileSearching, WithGapOfOne
<1>4. InsertsAt(searchBegin)
  BY <1>2, <1>3 DEF InsertsAt
<1>5. \A p \in Chain(0) : p < searchBegin => ids[order[p]] <= ids[order[next]]
  BY <1>2, <1>3
<1>6. \A p \in Chain(searchBegin) \ {next} : ids[order[next]] < ids[order[p]]
  BY <1>2, <1>3
<1>. QED  BY <1>1, <1>3, <1>4, <1>5, <1>6, InsertingKeepsInv

LEMMA NextGapKeepsInv == ASSUME SorterInv, NextGap PROVE SorterInv'
<1>1. /\ sorterPc = "insert" /\ sorterPc' = "insert" /\ sorterPc \in InsertPhases /\ gaps # <<1>>
      /\ gaps' = Tail(gaps) /\ next' = gaps'[1] /\ UNCHANGED <<sorterInputs, order, keys>>
  BY DEF NextGap, InsertPhases
<1>2. RangeInputsOK /\ GapsOK /\ EntriesOK /\ InsertionOK
  BY <1>1, WhileInserting
<1>3. SameRange /\ RangeInputsOK' /\ method' = method /\ isCached' = isCached
  BY <1>1, <1>2, InputsStaySame DEF sorterInputs
<1>4. method = "shell" /\ gaps \in Seq(Nat \ {0}) /\ gaps # <<>> /\ gaps[Len(gaps)] = 1
  BY <1>1, <1>2 DEF GapsOK, Last
<1>5. Len(gaps) \in Nat /\ Len(gaps) > 1
  <2>1. Len(gaps) \in Nat /\ Len(gaps) >= 1
    BY <1>4
  <2>2. Len(gaps) = 1 => gaps = <<1>>
    <3>1. ASSUME Len(gaps) = 1 PROVE gaps = <<gaps[1]>>
      BY <1>4, <3>1
    <3>. QED  BY <1>4, <3>1
  <2>3. Len(gaps) # 1
    BY <1>1, <2>2, Zenon
  <2>4. \A l \in Nat : l >= 1 /\ l # 1 => l > 1
    OBVIOUS
  <2>. QED  BY <2>1, <2>3, <2>4, Zenon
<1>6. gaps' \in Seq(Nat \ {0}) /\ Len(gaps') = Len(gaps) - 1 /\ \A i \in 1 .. Len(gaps) - 1 : gaps'[i] = gaps[i + 1]
  BY <1>1, <1>4, <1>5
<1>7. gaps' # <<>> /\ Last(gaps') = 1 /\ gaps'[1] \in Nat \ {0}
  <2>1. Len(gaps') >= 1 /\ gaps'[Len(gaps')] = 1 /\ gaps'[1] \in Nat \ {0}
    BY <1>4, <1>5, <1>6
  <2>2. Len(gaps') # 0
    BY <2>1, <1>6
  <2>3. gaps' # <<>>
    BY <2>2
  <2>. QED  BY <2>1, <2>3 DEF Last
<1>8. GapsOK'
  BY <1>3, <1>4, <1>6, <1>7 DEF GapsOK
<1>9. EntriesOK'
  <2>1. order' = order /\ keys' = keys
    BY <1>1
  <2>. QED  BY <1>2, <1>3, <2>1, EntriesAreKept
<1>10. InsertionOK'
  <2>1. RangeSize \in Nat /\ Places = 0 .. RangeSize - 1 /\ order \in [Places -> Places] /\ order' = order
    BY <1>1, <1>2, WhileInserting DEF EntriesOK
  <2>2. ASSUME NEW p \in Places, NEW q \in Places, p < q, q < next', (q - p) % gaps'[1] = 0
        PROVE  FALSE
    <3>1. PICK g \in Nat \ {0} : g = gaps'[1]
      BY <1>7
    <3>2. q - p \in Nat \ {0} /\ q - p < g
      <4>1. q < g
        BY <1>1, <2>2, <3>1, Zenon
      <4>2. p \in Nat /\ q \in Nat
        BY <2>1
      <4>. QED  BY <2>2, <4>1, <4>2
    <3>3. q - p >= g
      BY <2>2, <3>1, <3>2, MultipleIsApart
    <3>. QED  BY <3>2, <3>3
  <2>3. next' \in Nat /\ next' >= gaps'[1]
    BY <1>1, <1>7
  <2>4. method' # "bitwise" /\ ~(method' # "shell")
    BY <1>3, <1>4
  <2>5. \A p, q \in Places' : p < q /\ q < next' /\ (q - p) % gaps'[1] = 0 => ids'[order'[p]] <= ids'[order'[q]]
    BY <1>3, <2>2, Zenon DEF SameRange
  <2>. QED  BY <2>3, <2>4, <2>5, Zenon DEF InsertionOK
<1>. QED  BY <1>1, <1>3, <1>8, <1>9, <1>10, InvWhileInserting

-----------------------------------------------------------------------------
(* The start and the end of a sort *)

LEMMA EntriesStay ==
  ASSUME RangeInputsOK, GapsOK, EntriesOK, UNCHANGED <<sorterInputs, gaps, order, keys>>
  PROVE  RangeInputsOK' /\ GapsOK' /\ EntriesOK' /\ SameRange
<1>1. SameRange /\ RangeInputsOK'
  BY InputsStaySame
<1>2. gaps' = gaps /\ order' = order /\ keys' = keys /\ method' = method /\ isCached' = isCached
  BY DEF sorterInputs
<1>3. GapsOK'
  BY <1>2 DEF GapsOK
<1>4. EntriesOK'
  BY <1>1, <1>2, EntriesAreKept
<1>. QED  BY <1>1, <1>3, <1>4

RowIsSorted ==
  /\ \A n \in Places : \E p \in Places : order[p] = n
  /\ SortedById
  /\ method # "shell" => TiesInOrder

\* Entries that are settled are as the sort has to leave them.
LEMMA SettledIsSorted ==
  ASSUME RangeInputsOK, EntriesOK,
         \A p, q \in Places : p < q => ids[order[p]] <= ids[order[q]],
         method # "shell" => \A p, q \in Places : p < q => IsSettled(p, q)
  PROVE  RowIsSorted
<1>1. \A n \in Places : \E p \in Places : order[p] = n
  <2>1. /\ IsFiniteSet(Places) /\ order \in [Places -> Places]
        /\ \A p, q \in Places : order[p] = order[q] => p = q
    BY RangeIs DEF EntriesOK
  <2>. QED  BY <2>1, InjectionIsOnto
<1>2. SortedById
  BY DEF SortedById
<1>3. ASSUME method # "shell"
      PROVE  TiesInOrder
  <2>1. SUFFICES ASSUME NEW p \in Places, NEW q \in Places, p < q, ids[order[p]] = ids[order[q]]
                 PROVE  order[p] < order[q]
    BY DEF TiesInOrder
  <2>2. ids[order[p]] \in Nat /\ ids[order[q]] \in Nat
    BY RangeIs DEF EntriesOK
  <2>3. IsSettled(p, q)
    BY <1>3, <2>1
  <2>. QED  BY <2>1, <2>2, <2>3 DEF IsSettled, ComesBefore
<1>. QED  BY <1>1, <1>2, <1>3 DEF RowIsSorted

LEMMA EndingKeepsInv ==
  ASSUME RangeInputsOK, GapsOK, EntriesOK, UNCHANGED <<sorterInputs, gaps, order, keys>>, sorterPc' = "done",
         \A p, q \in Places : p < q => ids[order[p]] <= ids[order[q]],
         method # "shell" => \A p, q \in Places : p < q => IsSettled(p, q)
  PROVE  SorterInv'
<1>1. RowIsSorted
  BY SettledIsSorted
<1>2. RangeInputsOK' /\ GapsOK' /\ EntriesOK' /\ SameRange
  BY EntriesStay
<1>3. order' = order /\ method' = method
  BY DEF sorterInputs
<1>4. SortsById'
  BY <1>1, <1>2, <1>3, Zenon DEF SortsById, RowIsSorted, SortedById, TiesInOrder, SameRange
<1>. QED  BY <1>2, <1>4 DEF SorterInv

LEMMA InsertionDoneKeepsInv == ASSUME SorterInv, InsertionDone PROVE SorterInv'
<1>1. /\ sorterPc \in InsertPhases /\ next >= RangeSize /\ gaps = <<1>> /\ sorterPc' = "done"
      /\ UNCHANGED <<sorterInputs, gaps, order, keys>>
  BY DEF InsertionDone, InsertPhases
<1>2. RangeInputsOK /\ GapsOK /\ EntriesOK /\ InsertionOK /\ next \in Nat /\ RangeSize \in Nat /\ Places = 0 .. RangeSize - 1
  BY <1>1, WhileInserting
<1>3. \A p \in Places : p < next
  BY <1>1, <1>2
<1>4. gaps[1] = 1 /\ \A p, q \in Places : (q - p) % gaps[1] = 0
  BY <1>1, <1>2
<1>5. \A p, q \in Places : p < q => ids[order[p]] <= ids[order[q]]
  BY <1>2, <1>3, <1>4, Zenon DEF InsertionOK
<1>6. method # "shell" => \A p, q \in Places : p < q => IsSettled(p, q)
  BY <1>2, <1>3, Zenon DEF InsertionOK
<1>. QED  BY <1>1, <1>2, <1>5, <1>6, EndingKeepsInv

LEMMA InitSorterInv == ASSUME SorterInit PROVE SorterInv
<1>1. PICK s \in RangeSorters : method = s[1] /\ gaps = s[2]
  BY DEF SorterInit
<1>2. /\ method \in {"linear", "binary", "exponential", "bitwise", "shell"}
      /\ method = "shell" => gaps \in GapSequences
      /\ method # "shell" => gaps = <<1>>
  BY <1>1 DEF RangeSorters
<1>3. RangeInputsOK
  BY <1>2 DEF RangeInputsOK, SorterInit
<1>4. <<1>> \in Seq(Nat \ {0}) /\ <<1>> # <<>> /\ Last(<<1>>) = 1
  BY DEF Last
<1>5. GapsOK
  BY <1>2, <1>4, GapsAssumption DEF GapsOK
<1>6. /\ order = [p \in Places |-> p] /\ keys = ids /\ sorterPc = "entry"
  BY DEF SorterInit
<1>7. ids \in [Places -> RangeIds]
  BY <1>3, RangeIs
<1>8. EntriesOK
  BY <1>6, <1>7 DEF EntriesOK
<1>. QED  BY <1>3, <1>5, <1>6, <1>8 DEF SorterInv, SortsById

\* What shows that the ranges are right after a step.
LEMMA SplitOKNext ==
  ASSUME SameRange, method' = method, method = "bitwise", RangeSize <= MaxRangeSize,
         pending' \in Seq(PendingRanges),
         \A i \in DOMAIN pending' : IsUnsplit(pending'[i], order'),
         \A i, j \in DOMAIN pending' : i < j => pending'[j].end <= pending'[i].begin,
         \A p, q \in Places : p < q =>
           ComesBefore(order'[p], order'[q]) \/ \E i \in DOMAIN pending' : IsIn(p, pending'[i]) /\ IsIn(q, pending'[i])
  PROVE  SplitOK'
<1>1. \A i \in DOMAIN pending' : IsUnsplit(pending[i], order)'
  <2>1. TAKE i \in DOMAIN pending'
  <2> DEFINE r == pending'[i]
  <2>2. IsUnsplit(r, order')
    OBVIOUS
  <2>3. r.begin + 1 < r.end /\ r.end <= RangeSize' /\ r.bit <= Bits
    BY <2>2, Zenon DEF IsUnsplit, SameRange
  <2>4. \A p, q \in Places : IsIn(p, r) /\ IsIn(q, r) =>
          /\ \A b \in 0 .. r.bit - 1 : Bit(ids'[order'[p]], b) = Bit(ids'[order'[q]], b)
          /\ p < q => order'[p] < order'[q]
    BY <2>2, Zenon DEF IsUnsplit, SameRange
  <2>5. Places' = Places
    BY DEF SameRange
  <2>. QED  BY <2>3, <2>4, <2>5, Zenon DEF IsUnsplit, IsIn, Bit
<1>2. \A p, q \in Places' : p < q =>
        IsSettled(p, q)' \/ \E i \in DOMAIN pending' : IsIn(p, pending'[i]) /\ IsIn(q, pending'[i])
  BY Zenon DEF IsSettled, ComesBefore, SameRange
<1>. QED  BY <1>1, <1>2, Zenon DEF SplitOK, SameRange, IsIn

LEMMA EnterSorterKeepsInv == ASSUME SorterInv, EnterSorter PROVE SorterInv'
<1>1. /\ sorterPc = "entry" /\ next' = gaps[1] /\ pending' = <<[begin |-> 0, end |-> RangeSize, bit |-> 0]>>
      /\ UNCHANGED <<sorterInputs, gaps, order, keys>>
  BY DEF EnterSorter
<1>2. RangeInputsOK /\ GapsOK /\ EntriesOK /\ order = [p \in Places |-> p]
  BY <1>1 DEF SorterInv
<1>3. RangeInputsOK' /\ GapsOK' /\ EntriesOK' /\ SameRange /\ method' = method /\ gaps' = gaps /\ order' = order
  BY <1>1, <1>2, EntriesStay DEF sorterInputs
<1>4. RangeSize \in Nat /\ Places = 0 .. RangeSize - 1 /\ gaps[1] \in Nat \ {0}
  BY <1>2, RangeIs DEF GapsOK
<1>5. \A p \in Places : order[p] = p
  BY <1>2
<1>6. CASE IsTrivial
  <2>1. sorterPc' = "done" /\ RangeSize <= 1
    BY <1>6 DEF EnterSorter, IsTrivial
  <2>2. \A p, q \in Places : ~(p < q)
    BY <1>4, <2>1
  <2>. QED  BY <1>1, <1>2, <2>1, <2>2, EndingKeepsInv
<1>7. CASE ~IsTrivial /\ Overflows
  <2>1. sorterPc' = "throw"
    BY <1>7 DEF EnterSorter
  <2>. QED  BY <1>3, <2>1 DEF SorterInv, SortsById
<1>8. CASE ~IsTrivial /\ ~Overflows /\ method = "bitwise"
  <2>1. sorterPc' = "split" /\ RangeSize > 1 /\ RangeSize <= MaxRangeSize
    <3>1. RangeSize > 1 /\ RangeSize <= MaxRangeSize
      BY <1>4, <1>8, RangeAssumption DEF IsTrivial, Overflows
    <3>. QED  BY <1>8, <3>1 DEF EnterSorter
  <2> DEFINE all == [begin |-> 0, end |-> RangeSize, bit |-> 0]
  <2>2. all \in PendingRanges /\ all.begin = 0 /\ all.end = RangeSize /\ all.bit = 0
    BY <1>4 DEF PendingRanges
  <2>3. \A p \in Places : IsIn(p, all)
    BY <1>4 DEF IsIn
  <2>4. pending' = <<all>>
    BY <1>1
  <2> HIDE DEF all
  <2>5. pending' \in Seq(PendingRanges) /\ DOMAIN pending' = {1} /\ pending'[1] = all
    BY <2>2, <2>4
  <2>6. IsUnsplit(all, order)
    <3>1. all.begin + 1 < all.end /\ all.end <= RangeSize /\ all.bit <= Bits
      BY <1>4, <2>1, <2>2, RangeAssumption
    <3>2. \A p, q \in Places : p < q => order[p] < order[q]
      BY <1>5
    <3>3. \A b \in 0 .. all.bit - 1 : FALSE
      BY <2>2
    <3>. QED  BY <3>1, <3>2, <3>3, Zenon DEF IsUnsplit
  <2>7. SplitOK'
    <3>1. \A i \in DOMAIN pending' : IsUnsplit(pending'[i], order')
      <4>1. \A i \in DOMAIN pending' : i = 1
        BY <2>5
      <4>. QED  BY <1>3, <2>5, <2>6, <4>1, Zenon
    <3>2. \A i, j \in DOMAIN pending' : ~(i < j)
      BY <2>5
    <3>3. \A p, q \in Places : p < q => ComesBefore(order'[p], order'[q]) \/ \E i \in DOMAIN pending' : IsIn(p, pending'[i]) /\ IsIn(q, pending'[i])
      <4>1. 1 \in DOMAIN pending'
        BY <2>5
      <4>. QED  BY <2>3, <2>5, <4>1, Zenon
    <3>. QED  BY <1>3, <1>8, <2>1, <2>5, <3>1, <3>2, <3>3, SplitOKNext
  <2>. QED  BY <1>3, <2>1, <2>7 DEF SorterInv, SortsById
<1>9. CASE ~IsTrivial /\ ~Overflows /\ method # "bitwise"
  <2>1. sorterPc' = "insert"
    BY <1>9 DEF EnterSorter
  <2>2. ASSUME NEW p \in Places, NEW q \in Places, p < q, q < next', (q - p) % gaps'[1] = 0
        PROVE  FALSE
    <3>1. PICK g \in Nat \ {0} : g = gaps'[1] /\ g = next'
      BY <1>1, <1>3, <1>4
    <3>2. q - p \in Nat \ {0} /\ q - p < g
      <4>1. q < g
        BY <2>2, <3>1, Zenon
      <4>2. p \in Nat /\ q \in Nat
        BY <1>4
      <4>. QED  BY <2>2, <4>1, <4>2
    <3>3. q - p >= g
      BY <2>2, <3>1, <3>2, MultipleIsApart
    <3>. QED  BY <3>2, <3>3
  <2>3. next' \in Nat /\ next' >= gaps'[1]
    BY <1>1, <1>3, <1>4
  <2>4. \A p, q \in Places' : p < q /\ q < next' /\ (q - p) % gaps'[1] = 0 => ids'[order'[p]] <= ids'[order'[q]]
    BY <1>3, <2>2, Zenon DEF SameRange
  <2>5. ASSUME method # "shell"
        PROVE  \A p, q \in Places : ~(p < q /\ q < next')
    <3>1. next' = 1
      BY <1>1, <1>2, <2>5 DEF GapsOK
    <3>. QED  BY <1>4, <3>1
  <2>6. method' # "bitwise"
    BY <1>3, <1>9
  <2>7. method' # "shell" =>
          /\ \A p, q \in Places' : p < q /\ q < next' => IsSettled(p, q)'
          /\ \A p \in Places' : p >= next' => order'[p] = p
    BY <1>3, <1>5, <2>5, Zenon DEF SameRange
  <2>8. InsertionOK'
    BY <2>3, <2>4, <2>6, <2>7, Zenon DEF InsertionOK
  <2>. QED  BY <1>3, <2>1, <2>8, InvWhileInserting
<1>. QED  BY <1>6, <1>7, <1>8, <1>9

LEMMA ReturnedKeepsInv == ASSUME SorterInv, UNCHANGED sorterVars PROVE SorterInv'
<1>1. /\ ids' = ids /\ method' = method /\ isCached' = isCached /\ gaps' = gaps /\ sorterPc' = sorterPc
      /\ next' = next /\ searchBegin' = searchBegin /\ searchEnd' = searchEnd /\ bound' = bound
      /\ order' = order /\ keys' = keys /\ pending' = pending
  BY DEF sorterVars, sorterInputs, searched
<1>2. Places' = Places /\ RangeSize' = RangeSize
  BY <1>1, Zenon DEF Places, RangeSize
<1>3. /\ RangeInputsOK' <=> RangeInputsOK
      /\ GapsOK' <=> GapsOK
  BY <1>1, Zenon DEF RangeInputsOK, GapsOK
<1>4. EntriesOK' <=> EntriesOK
  BY <1>1, <1>2, Zenon DEF EntriesOK
<1>5. \A p, q : IsSettled(p, q)' <=> IsSettled(p, q)
  BY <1>1, Zenon DEF IsSettled, ComesBefore
<1>6. InsertionOK' <=> InsertionOK
  BY <1>1, <1>2, <1>5, Zenon DEF InsertionOK
<1>7. SearchOK' <=> SearchOK
  BY <1>1, <1>2, Zenon DEF SearchOK
<1>8. SplitOK => SplitOK'
  <2>1. SUFFICES ASSUME SplitOK PROVE SplitOK'
    OBVIOUS
  <2>2. method = "bitwise" /\ RangeSize <= MaxRangeSize /\ SameRange /\ pending' \in Seq(PendingRanges)
    BY <1>1, <1>2, <2>1 DEF SplitOK, SameRange
  <2>3. \A i \in DOMAIN pending' : IsUnsplit(pending'[i], order')
    BY <1>1, <2>1, Zenon DEF SplitOK
  <2>4. \A i, j \in DOMAIN pending' : i < j => pending'[j].end <= pending'[i].begin
    BY <1>1, <2>1, Zenon DEF SplitOK
  <2>5. \A p, q \in Places : p < q =>
          ComesBefore(order'[p], order'[q]) \/ \E i \in DOMAIN pending' : IsIn(p, pending'[i]) /\ IsIn(q, pending'[i])
    BY <1>1, <2>1, Zenon DEF SplitOK, IsSettled
  <2>. QED  BY <1>1, <2>2, <2>3, <2>4, <2>5, SplitOKNext
<1>9. SortsById' <=> SortsById
  BY <1>1, <1>2, Zenon DEF SortsById, SortedById, TiesInOrder
<1>. QED  BY <1>1, <1>2, <1>3, <1>4, <1>6, <1>7, <1>8, <1>9, Zenon DEF SorterInv

-----------------------------------------------------------------------------
(* The partition by bits *)

\* The number of smaller elements of a set, of each of its elements.
LEMMA RanksIn ==
  ASSUME NEW S \in SUBSET Nat, IsFiniteSet(S)
  PROVE  /\ Cardinality(S) \in Nat
         /\ \A p \in S : Cardinality({q \in S : q < p}) \in 0 .. Cardinality(S) - 1
         /\ \A p, r \in S : p < r => Cardinality({q \in S : q < p}) < Cardinality({q \in S : q < r})
<1> DEFINE below(p) == {q \in S : q < p}
<1>1. \A p \in S : IsFiniteSet(below(p)) /\ Cardinality(below(p)) \in Nat
  BY FS_Subset, FS_CardinalityType
<1>2. ASSUME NEW p \in S
      PROVE  IsFiniteSet(below(p) \cup {p}) /\ Cardinality(below(p) \cup {p}) = Cardinality(below(p)) + 1
  <2>1. p \notin below(p)
    OBVIOUS
  <2> HIDE DEF below
  <2>. QED  BY <1>1, <2>1, FS_AddElement
<1>3. Cardinality(S) \in Nat
  BY FS_CardinalityType
<1>4. ASSUME NEW p \in S
      PROVE  Cardinality(below(p)) < Cardinality(S)
  <2>1. below(p) \cup {p} \in SUBSET S
    OBVIOUS
  <2>2. Cardinality(below(p) \cup {p}) <= Cardinality(S)
    BY <2>1, FS_Subset
  <2> HIDE DEF below
  <2>. QED  BY <1>1, <1>2, <1>3, <2>2
<1>5. ASSUME NEW p \in S, NEW r \in S, p < r
      PROVE  Cardinality(below(p)) < Cardinality(below(r))
  <2>1. below(p) \cup {p} \in SUBSET below(r)
    <3>1. \A q \in S : q < p => q < r
      BY <1>5
    <3>. QED  BY <1>5, <3>1
  <2>2. Cardinality(below(p) \cup {p}) <= Cardinality(below(r))
    BY <1>1, <2>1, FS_Subset
  <2> HIDE DEF below
  <2>3. PICK c \in Nat, d \in Nat : c = Cardinality(below(p)) /\ d = Cardinality(below(r))
    BY <1>1
  <2>4. Cardinality(below(p) \cup {p}) = c + 1
    BY <1>2, <2>3
  <2>5. c + 1 <= d
    BY <2>2, <2>3, <2>4, Zenon
  <2>6. c < d
    BY <2>5
  <2>. QED  BY <2>3, <2>6, Zenon
<1>6. \A p \in S : Cardinality(below(p)) \in 0 .. Cardinality(S) - 1
  <2> HIDE DEF below
  <2>. QED  BY <1>1, <1>3, <1>4
<1>. QED  BY <1>3, <1>5, <1>6

LEMMA WhileSplitting ==
  ASSUME SorterInv, sorterPc = "split"
  PROVE  /\ RangeInputsOK /\ GapsOK /\ EntriesOK /\ SplitOK
         /\ RangeSize \in Nat /\ Places = 0 .. RangeSize - 1
         /\ order \in [Places -> Places]
         /\ \A p \in Places : ids[order[p]] \in RangeIds /\ ids[order[p]] \in Nat
<1>1. RangeInputsOK /\ GapsOK /\ EntriesOK /\ SplitOK
  BY DEF SorterInv
<1>2. order \in [Places -> Places]
  BY <1>1 DEF EntriesOK
<1>3. ids \in [Places -> RangeIds] /\ \A p \in Places : ids[p] \in Nat
  BY <1>1, RangeIs
<1>4. \A p \in Places : ids[order[p]] \in RangeIds /\ ids[order[p]] \in Nat
  BY <1>2, <1>3
<1>. QED  BY <1>1, <1>2, <1>4, RangeIs

\* The range on top.
LEMMA TopIs ==
  ASSUME SorterInv, sorterPc = "split", pending # <<>>
  PROVE  /\ Len(pending) \in Nat \ {0} /\ Len(pending) \in DOMAIN pending /\ Top = pending[Len(pending)]
         /\ Top \in PendingRanges /\ Top.begin \in Nat /\ Top.end \in Nat /\ Top.bit \in 0 .. Bits
         /\ Top.begin + 1 < Top.end /\ Top.end <= RangeSize
         /\ RangePlaces \in SUBSET Places /\ RangePlaces \in SUBSET Nat /\ IsFiniteSet(RangePlaces)
         /\ Cardinality(RangePlaces) = Top.end - Top.begin
         /\ \A p \in Places : p \in RangePlaces <=> IsIn(p, Top)
         /\ \A p, q \in RangePlaces :
              /\ \A b \in 0 .. Top.bit - 1 : BitAt(p, b) = BitAt(q, b)
              /\ p < q => order[p] < order[q]
<1>1. SplitOK /\ RangeSize \in Nat /\ Places = 0 .. RangeSize - 1
  BY WhileSplitting
<1>2. pending \in Seq(PendingRanges)
  BY <1>1 DEF SplitOK
<1>3. Len(pending) \in Nat \ {0} /\ Len(pending) \in DOMAIN pending /\ Top = pending[Len(pending)]
  BY <1>2 DEF Top, Last
<1>4. Top \in PendingRanges
  BY <1>2, <1>3
<1>5. IsUnsplit(Top, order)
  BY <1>1, <1>3, Zenon DEF SplitOK
<1>6. Top.begin \in Nat /\ Top.end \in Nat /\ Top.bit \in Nat
  BY <1>4 DEF PendingRanges
<1>7. Top.begin + 1 < Top.end /\ Top.end <= RangeSize /\ Top.bit <= Bits
  BY <1>5 DEF IsUnsplit
<1>8. RangePlaces \in SUBSET Places /\ \A p \in Places : p \in RangePlaces <=> IsIn(p, Top)
  BY <1>1, <1>6, <1>7 DEF RangePlaces, IsIn
<1>9. IsFiniteSet(RangePlaces) /\ Cardinality(RangePlaces) = Top.end - Top.begin
  <2>1. PICK b \in Nat, e \in Nat : b = Top.begin /\ e = Top.end
    BY <1>6
  <2>2. IsFiniteSet(b .. e - 1) /\ Cardinality(b .. e - 1) = (e - 1) - b + 1
    <3>1. b \in Int /\ e - 1 \in Int /\ ~(b > e - 1)
      BY <1>7, <2>1
    <3>. QED  BY <3>1, FS_Interval
  <2>3. (e - 1) - b + 1 = e - b
    OBVIOUS
  <2>. QED  BY <2>1, <2>2, <2>3, Zenon DEF RangePlaces
<1>10. \A p, q \in RangePlaces :
         /\ \A b \in 0 .. Top.bit - 1 : BitAt(p, b) = BitAt(q, b)
         /\ p < q => order[p] < order[q]
  BY <1>5, <1>8, Zenon DEF IsUnsplit, BitAt
<1>11. RangePlaces \in SUBSET Nat /\ Top.bit \in 0 .. Bits
  BY <1>1, <1>6, <1>7, <1>8, RangeAssumption
<1>. QED  BY <1>3, <1>4, <1>6, <1>7, <1>8, <1>9, <1>10, <1>11

\* The bit to split by is the first one in which the ids of the range differ.
LEMMA SplitBitIs ==
  ASSUME SorterInv, sorterPc = "split", pending # <<>>, DifferingBits # {}
  PROVE  /\ SplitBit \in 0 .. Bits - 1
         /\ \A p, q \in RangePlaces : \A b \in 0 .. SplitBit - 1 : BitAt(p, b) = BitAt(q, b)
<1>1. Top.bit \in 0 .. Bits /\ Bits \in Nat
  BY TopIs, RangeAssumption
<1>2. DifferingBits \in SUBSET Nat
  BY <1>1 DEF DifferingBits
<1>3. PICK m \in DifferingBits : \A b \in DifferingBits : m <= b
  BY <1>2, LeastElement
<1>4. SplitBit = m
  <2>1. \A x \in DifferingBits : (\A y \in DifferingBits : x <= y) => x = m
    <3>1. TAKE x \in DifferingBits
    <3>2. SUFFICES ASSUME \A y \in DifferingBits : x <= y PROVE x = m
      OBVIOUS
    <3>3. x <= m /\ m <= x /\ x \in Int /\ m \in Int
      BY <1>2, <1>3, <3>2
    <3>. QED  BY <3>3
  <2>. QED  BY <1>3, <2>1, Zenon DEF SplitBit, Min
<1>5. m \in Top.bit .. Bits - 1
  BY <1>3 DEF DifferingBits
<1>6. ASSUME NEW p \in RangePlaces, NEW q \in RangePlaces, NEW b \in 0 .. m - 1
      PROVE  BitAt(p, b) = BitAt(q, b)
  <2>1. CASE b < Top.bit
    <3>1. b \in 0 .. Top.bit - 1
      BY <1>1, <2>1
    <3>. QED  BY <3>1, TopIs
  <2>2. CASE b >= Top.bit
    <3>1. b \in Top.bit .. Bits - 1 /\ b < m
      BY <1>1, <1>5, <2>2
    <3>2. b \notin DifferingBits
      BY <1>2, <1>3, <1>5, <3>1
    <3>. QED  BY <3>1, <3>2, Zenon DEF DifferingBits
  <2>. QED  BY <1>1, <2>1, <2>2
<1>. QED  BY <1>1, <1>4, <1>5, <1>6

\* Zeros go to the places up to the middle, ones to those from it on, both in turn.
Ones == RangePlaces \ Zeros

LEMMA DestinationIs ==
  ASSUME SorterInv, sorterPc = "split", pending # <<>>
  PROVE  /\ Middle \in Top.begin .. Top.end
         /\ \A p \in Zeros : Destination(p) \in Top.begin .. Middle - 1
         /\ \A p \in Ones : Destination(p) \in Middle .. Top.end - 1
         /\ \A p, q \in Zeros : p < q => Destination(p) < Destination(q)
         /\ \A p, q \in Ones : p < q => Destination(p) < Destination(q)
<1>1. PICK b \in Nat, e \in Nat : b = Top.begin /\ e = Top.end
  BY TopIs
<1>2. Zeros \in SUBSET RangePlaces /\ Ones \in SUBSET RangePlaces
  BY DEF Zeros, Ones
<1>3. IsFiniteSet(Zeros) /\ IsFiniteSet(Ones) /\ Zeros \in SUBSET Nat /\ Ones \in SUBSET Nat
  BY <1>2, TopIs, FS_Subset
<1>4. PICK z \in Nat : z = Cardinality(Zeros)
  BY <1>3, FS_CardinalityType
<1>5. PICK o \in Nat : o = Cardinality(Ones)
  BY <1>3, FS_CardinalityType
<1>6. z + o = e - b
  <2>1. Zeros \cup Ones = RangePlaces /\ Zeros \cap Ones = {}
    BY <1>2 DEF Ones
  <2>2. Cardinality(Zeros \cup Ones) = Cardinality(Zeros) + Cardinality(Ones) - Cardinality(Zeros \cap Ones)
    BY <1>3, FS_Union, Zenon
  <2>3. Cardinality(Zeros \cap Ones) = 0
    BY <2>1, FS_EmptySet, Zenon
  <2>4. Cardinality(RangePlaces) = e - b
    BY <1>1, TopIs
  <2>5. e - b = z + o - 0
    BY <1>4, <1>5, <2>1, <2>2, <2>3, <2>4, Zenon
  <2>. QED  BY <2>5
<1>7. Middle = b + z
  BY <1>1, <1>4 DEF Middle
<1>8. ASSUME NEW p \in Zeros
      PROVE  Destination(p) = b + Cardinality({q \in Zeros : q < p}) /\ Cardinality({q \in Zeros : q < p}) \in 0 .. z - 1
  BY <1>1, <1>3, <1>4, RanksIn DEF Destination
<1>9. ASSUME NEW p \in Ones
      PROVE  Destination(p) = b + z + Cardinality({q \in Ones : q < p}) /\ Cardinality({q \in Ones : q < p}) \in 0 .. o - 1
  <2>1. p \notin Zeros
    BY DEF Ones
  <2>2. Cardinality({q \in Ones : q < p}) \in 0 .. o - 1
    BY <1>3, <1>5, RanksIn
  <2>. QED  BY <1>7, <2>1, <2>2 DEF Destination, Ones
<1>10. \A p, q \in Zeros : p < q => Destination(p) < Destination(q)
  <2>1. TAKE p, q \in Zeros
  <2>2. SUFFICES ASSUME p < q PROVE Destination(p) < Destination(q)
    OBVIOUS
  <2>3. Cardinality({r \in Zeros : r < p}) < Cardinality({r \in Zeros : r < q})
    BY <1>3, <2>2, RanksIn
  <2>. QED  BY <1>8, <2>3
<1>11. \A p, q \in Ones : p < q => Destination(p) < Destination(q)
  <2>1. TAKE p, q \in Ones
  <2>2. SUFFICES ASSUME p < q PROVE Destination(p) < Destination(q)
    OBVIOUS
  <2>3. Cardinality({r \in Ones : r < p}) < Cardinality({r \in Ones : r < q})
    BY <1>3, <2>2, RanksIn
  <2>. QED  BY <1>9, <2>3
<1>12. Middle \in b .. e
  BY <1>6, <1>7
<1>13. \A p \in Zeros : Destination(p) \in b .. Middle - 1
  <2>1. TAKE p \in Zeros
  <2>2. PICK c \in 0 .. z - 1 : Destination(p) = b + c
    BY <1>8
  <2>. QED  BY <1>7, <2>2
<1>14. \A p \in Ones : Destination(p) \in Middle .. e - 1
  <2>1. TAKE p \in Ones
  <2>2. PICK c \in 0 .. o - 1 : Destination(p) = b + z + c
    BY <1>9
  <2>. QED  BY <1>6, <1>7, <2>2
<1>. QED  BY <1>1, <1>10, <1>11, <1>12, <1>13, <1>14

\* Where the entry at a place of the range was before.
SplitSource(p) == CHOOSE q \in RangePlaces : Destination(q) = p

LEMMA SplitSourceIs ==
  ASSUME SorterInv, sorterPc = "split", pending # <<>>
  PROVE  /\ \A p \in RangePlaces :
              /\ SplitSource(p) \in RangePlaces /\ Destination(SplitSource(p)) = p
              /\ p < Middle <=> SplitSource(p) \in Zeros
         /\ \A p, q \in RangePlaces : p < q /\ (q < Middle \/ p >= Middle) => SplitSource(p) < SplitSource(q)
<1>1. PICK b \in Nat, e \in Nat : b = Top.begin /\ e = Top.end
  BY TopIs
<1>2. PICK m \in b .. e : m = Middle
  BY <1>1, DestinationIs
<1>3. RangePlaces = b .. e - 1 /\ IsFiniteSet(RangePlaces) /\ Zeros \in SUBSET RangePlaces /\ RangePlaces = Zeros \cup Ones
  BY <1>1, TopIs DEF RangePlaces, Zeros, Ones
<1>4. /\ \A p \in Zeros : Destination(p) \in b .. m - 1
      /\ \A p \in Ones : Destination(p) \in m .. e - 1
      /\ \A p, q \in Zeros : p < q => Destination(p) < Destination(q)
      /\ \A p, q \in Ones : p < q => Destination(p) < Destination(q)
  BY <1>1, <1>2, DestinationIs
<1>5. \A p \in RangePlaces : Destination(p) \in RangePlaces
  <2>1. \A p \in Zeros : Destination(p) \in RangePlaces
    BY <1>2, <1>3, <1>4
  <2>2. \A p \in Ones : Destination(p) \in RangePlaces
    BY <1>2, <1>3, <1>4
  <2>. QED  BY <1>3, <2>1, <2>2, Zenon
<1>6. \A p, q \in RangePlaces : Destination(p) = Destination(q) => p = q
  <2>1. TAKE p, q \in RangePlaces
  <2>2. p \in Nat /\ q \in Nat /\ Destination(p) \in Nat /\ Destination(q) \in Nat
    BY <1>3, <1>5
  <2>3. CASE p \in Zeros /\ q \in Zeros
    BY <1>4, <2>2, <2>3
  <2>4. CASE p \in Ones /\ q \in Ones
    BY <1>4, <2>2, <2>4
  <2>5. CASE p \in Zeros /\ q \in Ones
    <3>1. Destination(p) < m /\ m <= Destination(q)
      BY <1>4, <2>5
    <3>. QED  BY <1>2, <2>2, <3>1
  <2>6. CASE p \in Ones /\ q \in Zeros
    <3>1. Destination(q) < m /\ m <= Destination(p)
      BY <1>4, <2>6
    <3>. QED  BY <1>2, <2>2, <3>1
  <2>. QED  BY <1>3, <2>3, <2>4, <2>5, <2>6, Zenon
<1>7. \A p \in RangePlaces : \E q \in RangePlaces : Destination(q) = p
  <2> DEFINE f == [q \in RangePlaces |-> Destination(q)]
  <2>1. f \in [RangePlaces -> RangePlaces]
    BY <1>5
  <2>2. \A p, q \in RangePlaces : f[p] = f[q] => p = q
    BY <1>6
  <2>3. \A p \in RangePlaces : \E q \in RangePlaces : f[q] = p
    <3> HIDE DEF f
    <3>. QED  BY <1>3, <2>1, <2>2, InjectionIsOnto
  <2>. QED  BY <2>3
<1>8. \A p \in RangePlaces : SplitSource(p) \in RangePlaces /\ Destination(SplitSource(p)) = p
  BY <1>7, Zenon DEF SplitSource
<1>9. \A p \in RangePlaces : p < m <=> SplitSource(p) \in Zeros
  <2>1. TAKE p \in RangePlaces
  <2>2. SplitSource(p) \in Zeros => p < m
    <3>1. SplitSource(p) \in Zeros => Destination(SplitSource(p)) < m
      BY <1>4
    <3>. QED  BY <1>8, <3>1, Zenon
  <2>3. SplitSource(p) \in Ones => m <= p
    <3>1. SplitSource(p) \in Ones => m <= Destination(SplitSource(p))
      BY <1>4
    <3>. QED  BY <1>8, <3>1, Zenon
  <2>4. SplitSource(p) \in Zeros \/ SplitSource(p) \in Ones
    BY <1>3, <1>8
  <2>5. p \in Nat /\ m \in Nat /\ ~(p < m /\ m <= p)
    BY <1>2, <1>3
  <2>. QED  BY <2>2, <2>3, <2>4, <2>5
<1>10. \A p, q \in RangePlaces : p < q /\ (q < m \/ p >= m) => SplitSource(p) < SplitSource(q)
  <2>1. SUFFICES ASSUME NEW p \in RangePlaces, NEW q \in RangePlaces, p < q, q < m \/ p >= m
                 PROVE  SplitSource(p) < SplitSource(q)
    OBVIOUS
  <2>2. PICK s \in RangePlaces, t \in RangePlaces : s = SplitSource(p) /\ t = SplitSource(q)
    BY <1>8
  <2>3. Destination(s) = p /\ Destination(t) = q /\ s \in Nat /\ t \in Nat /\ p \in Nat /\ q \in Nat /\ s # t
    <3>1. Destination(s) = p /\ Destination(t) = q
      BY <1>8, <2>2, Zenon
    <3>2. s \in Nat /\ t \in Nat /\ p \in Nat /\ q \in Nat
      BY <1>3
    <3>3. p # q
      BY <2>1, <3>2
    <3>. QED  BY <3>1, <3>2, <3>3, Zenon
  <2>4. (s \in Zeros /\ t \in Zeros) \/ (s \in Ones /\ t \in Ones)
    <3>1. (p < m /\ q < m) \/ (~(p < m) /\ ~(q < m))
      BY <1>2, <2>1, <2>3
    <3>. QED  BY <1>3, <1>9, <2>2, <3>1, Zenon
  <2>5. t < s => Destination(t) < Destination(s)
    BY <1>4, <2>4
  <2>6. ~(t < s)
    BY <2>1, <2>3, <2>5
  <2>. QED  BY <2>2, <2>3, <2>6
<1>. QED  BY <1>2, <1>8, <1>9, <1>10

\* Two places of one half hold entries in turn that agree up to the bit.
LEMMA InOneHalf ==
  ASSUME SorterInv, sorterPc = "split", pending # <<>>, DifferingBits # {},
         NEW p \in RangePlaces, NEW q \in RangePlaces, (p < Middle /\ q < Middle) \/ (p >= Middle /\ q >= Middle)
  PROVE  /\ \A b \in 0 .. SplitBit : BitAt(SplitSource(p), b) = BitAt(SplitSource(q), b)
         /\ p < q => order[SplitSource(p)] < order[SplitSource(q)]
<1>1. PICK s \in RangePlaces, t \in RangePlaces : s = SplitSource(p) /\ t = SplitSource(q)
  BY SplitSourceIs
<1>2. SplitBit \in 0 .. Bits - 1 /\ \A b \in 0 .. SplitBit - 1 : BitAt(s, b) = BitAt(t, b)
  BY SplitBitIs
<1>3. Middle \in Nat /\ p \in Nat /\ q \in Nat
  BY TopIs, DestinationIs
<1>4. s \in Zeros <=> t \in Zeros
  BY <1>1, <1>3, SplitSourceIs
<1>5. BitAt(s, SplitBit) = BitAt(t, SplitBit)
  <2>1. BitAt(s, SplitBit) \in 0 .. 1 /\ BitAt(t, SplitBit) \in 0 .. 1
    <3>1. s \in Places /\ t \in Places
      BY TopIs
    <3>2. ids[order[s]] \in RangeIds /\ ids[order[t]] \in RangeIds
      BY <3>1, WhileSplitting
    <3>. QED  BY <1>2, <3>2, FirstBitsAre DEF BitAt
  <2>2. (BitAt(s, SplitBit) = 0) <=> (BitAt(t, SplitBit) = 0)
    BY <1>4 DEF Zeros
  <2>. QED  BY <2>1, <2>2
<1>6. \A b \in 0 .. SplitBit : BitAt(s, b) = BitAt(t, b)
  <2>1. TAKE b \in 0 .. SplitBit
  <2>2. b \in 0 .. SplitBit - 1 \/ b = SplitBit
    BY <1>2, RangeAssumption
  <2>. QED  BY <1>2, <1>5, <2>2
<1>7. p < q => s < t
  BY <1>1, <1>3, SplitSourceIs
<1>8. s < t => order[s] < order[t]
  BY TopIs
<1>. QED  BY <1>1, <1>6, <1>7, <1>8

\* The entries after a partition.
LEMMA SplitEntries ==
  ASSUME SorterInv, Split
  PROVE  /\ EntriesOK' /\ SameRange
         /\ \A p \in RangePlaces : order'[p] = order[SplitSource(p)]
         /\ \A p \in Places : p \notin RangePlaces => order'[p] = order[p]
<1>1. /\ sorterPc = "split" /\ pending # <<>> /\ UNCHANGED <<sorterInputs, keys>>
      /\ order' = [p \in Places |-> IF p \in RangePlaces THEN order[SplitSource(p)] ELSE order[p]]
  BY DEF Split, SplitSource
<1>2. RangeInputsOK /\ EntriesOK /\ SplitOK /\ order \in [Places -> Places]
  BY <1>1, WhileSplitting
<1>3. SameRange /\ method' = method /\ isCached' = isCached /\ keys' = keys
  BY <1>1, InputsStaySame DEF sorterInputs
<1>4. RangePlaces \in SUBSET Places
  BY <1>1, TopIs
<1>5. /\ \A p \in RangePlaces : order'[p] = order[SplitSource(p)]
      /\ \A p \in Places : p \notin RangePlaces => order'[p] = order[p]
  BY <1>1, <1>4
<1>6. \A p \in RangePlaces : SplitSource(p) \in RangePlaces /\ Destination(SplitSource(p)) = p
  BY <1>1, SplitSourceIs
<1>7. order' \in [Places -> Places]
  <2>1. \A p \in RangePlaces : order[SplitSource(p)] \in Places
    BY <1>2, <1>4, <1>6
  <2>2. \A p \in Places : order[p] \in Places
    BY <1>2
  <2>. QED  BY <1>1, <2>1, <2>2
<1>8. \A p, q \in Places : order'[p] = order'[q] => p = q
  <2>1. \A s, t \in Places : order[s] = order[t] => s = t
    BY <1>2 DEF EntriesOK
  <2>2. TAKE p, q \in Places
  <2>3. CASE p \in RangePlaces /\ q \in RangePlaces
    <3>1. SplitSource(p) = SplitSource(q) => p = q
      BY <1>6, <2>3, Zenon
    <3>. QED  BY <1>4, <1>5, <1>6, <2>1, <2>3, <3>1
  <2>4. CASE p \in RangePlaces /\ q \notin RangePlaces
    BY <1>4, <1>5, <1>6, <2>1, <2>4
  <2>5. CASE p \notin RangePlaces /\ q \in RangePlaces
    BY <1>4, <1>5, <1>6, <2>1, <2>5
  <2>6. CASE p \notin RangePlaces /\ q \notin RangePlaces
    BY <1>5, <2>1, <2>6
  <2>. QED  BY <2>3, <2>4, <2>5, <2>6
<1>9. EntriesOK'
  <2>1. order' \in [Places' -> Places'] /\ keys' \in [Places' -> RangeIds]
    BY <1>2, <1>3, <1>7, Zenon DEF SameRange, EntriesOK
  <2>2. \A p, q \in Places' : order'[p] = order'[q] => p = q
    BY <1>3, <1>8, Zenon DEF SameRange
  <2>3. ~(method' # "bitwise")
    BY <1>2, <1>3 DEF SplitOK
  <2>. QED  BY <2>1, <2>2, <2>3, Zenon DEF EntriesOK
<1>. QED  BY <1>3, <1>5, <1>9

LEMMA FrontIs ==
  ASSUME NEW T, NEW s \in Seq(T), s # <<>>
  PROVE  Front(s) \in Seq(T) /\ Len(Front(s)) = Len(s) - 1 /\ \A i \in 1 .. Len(s) - 1 : Front(s)[i] = s[i]
<1>1. PICK n \in Nat : Len(s) = n + 1
  <2>1. Len(s) \in Nat /\ Len(s) # 0
    OBVIOUS
  <2>2. Len(s) - 1 \in Nat /\ Len(s) = (Len(s) - 1) + 1
    BY <2>1
  <2>. QED  BY <2>2
<1>2. Len(s) - 1 = n
  BY <1>1
<1>3. Front(s) = SubSeq(s, 1, n)
  BY <1>2, Zenon DEF Front
<1>4. \A i \in 1 .. n : s[i] \in T
  BY <1>1
<1>5. SubSeq(s, 1, n) \in Seq(T)
  BY <1>1
<1>6. Len(SubSeq(s, 1, n)) = n
  BY <1>1
<1>7. \A i \in 1 .. n : SubSeq(s, 1, n)[i] = s[i]
  BY <1>1
<1>. QED  BY <1>2, <1>3, <1>5, <1>6, <1>7, Zenon

\* A list with one more entry.
LEMMA OneMore ==
  ASSUME NEW T, NEW s \in Seq(T), NEW x \in T, NEW t, t = s \o <<x>>
  PROVE  /\ t \in Seq(T) /\ Len(t) = Len(s) + 1 /\ t[Len(s) + 1] = x
         /\ \A i \in 1 .. Len(s) : t[i] = s[i]
OBVIOUS

\* A list "t" with up to two more entries than "s".
IsExtended(T, s, x, y, h, l, t) ==
  /\ t \in Seq(T)
  /\ \A i \in DOMAIN t :
       \/ i \in DOMAIN s /\ t[i] = s[i]
       \/ h # <<>> /\ t[i] = x /\ i = Len(s) + 1
       \/ l # <<>> /\ t[i] = y /\ i > Len(s) /\ i = Len(t) /\ (h # <<>> => i # Len(s) + 1)
  /\ \A i \in DOMAIN s : i \in DOMAIN t /\ t[i] = s[i]
  /\ h # <<>> => \E i \in DOMAIN t : t[i] = x
  /\ l # <<>> => \E i \in DOMAIN t : t[i] = y

LEMMA UpToTwoMore ==
  ASSUME NEW T, NEW s \in Seq(T), NEW x \in T, NEW y \in T,
         NEW h \in {<<>>, <<x>>}, NEW l \in {<<>>, <<y>>}
  PROVE  IsExtended(T, s, x, y, h, l, s \o h \o l)
<1>. DEFINE t == s \o h \o l
<1>. SUFFICES IsExtended(T, s, x, y, h, l, t)
  OBVIOUS
<1>1. CASE h = <<>> /\ l = <<>>
  <2>1. t = s
    BY <1>1
  <2>. QED  BY <1>1, <2>1 DEF IsExtended
<1>2. CASE h = <<x>> /\ l = <<>>
  <2>1. t = s \o <<x>>
    BY <1>2
  <2>2. t \in Seq(T) /\ Len(t) = Len(s) + 1 /\ t[Len(s) + 1] = x /\ \A i \in 1 .. Len(s) : t[i] = s[i]
    BY <2>1, OneMore
  <2>3. h # <<>> /\ l = <<>>
    BY <1>2
  <2>. QED  BY <2>2, <2>3 DEF IsExtended
<1>3. CASE h = <<>> /\ l = <<y>>
  <2>1. t = s \o <<y>>
    BY <1>3
  <2>2. t \in Seq(T) /\ Len(t) = Len(s) + 1 /\ t[Len(s) + 1] = y /\ \A i \in 1 .. Len(s) : t[i] = s[i]
    BY <2>1, OneMore
  <2>3. l # <<>> /\ h = <<>>
    BY <1>3
  <2>. QED  BY <2>2, <2>3 DEF IsExtended
<1>4. CASE h = <<x>> /\ l = <<y>>
  <2>1. PICK m : m = s \o <<x>>
    OBVIOUS
  <2>2. m \in Seq(T) /\ Len(m) = Len(s) + 1 /\ m[Len(s) + 1] = x /\ \A i \in 1 .. Len(s) : m[i] = s[i]
    BY <2>1, OneMore
  <2>3. t = m \o <<y>>
    BY <1>4, <2>1
  <2>4. t \in Seq(T) /\ Len(t) = Len(m) + 1 /\ t[Len(m) + 1] = y /\ \A i \in 1 .. Len(m) : t[i] = m[i]
    BY <2>2, <2>3, OneMore
  <2>5. PICK n \in Nat : n = Len(s)
    OBVIOUS
  <2>6. /\ DOMAIN s = 1 .. n /\ DOMAIN t = 1 .. n + 2 /\ Len(t) = n + 2
        /\ t[n + 1] = x /\ t[n + 2] = y /\ \A i \in 1 .. n : t[i] = s[i]
    <3>1. Len(m) = n + 1 /\ Len(t) = n + 2 /\ n + 1 \in 1 .. n + 1 /\ (n + 1) + 1 = n + 2
      BY <2>2, <2>4, <2>5
    <3>2. DOMAIN s = 1 .. n
      BY <2>5
    <3>3. DOMAIN t = 1 .. n + 2
      BY <2>4, <3>1
    <3>4. t[n + 1] = x
      BY <2>2, <2>4, <2>5, <3>1
    <3>5. t[n + 2] = y
      BY <2>4, <3>1
    <3>6. \A i \in 1 .. n : t[i] = s[i]
      <4>1. \A i \in 1 .. n : i \in 1 .. n + 1
        OBVIOUS
      <4>. QED  BY <2>2, <2>4, <2>5, <3>1, <4>1, Zenon
    <3>. QED  BY <3>1, <3>2, <3>3, <3>4, <3>5, <3>6
  <2>7. l # <<>> /\ h # <<>>
    BY <1>4
  <2>8. \A i \in DOMAIN t : i \in DOMAIN s \/ i = n + 1 \/ (i = n + 2 /\ i > n /\ i # n + 1)
    BY <2>6
  <2>9. \A i \in DOMAIN s : i \in DOMAIN t
    BY <2>6
  <2>10. n + 1 \in DOMAIN t /\ n + 2 \in DOMAIN t
    BY <2>6
  <2>. QED  BY <2>4, <2>5, <2>6, <2>7, <2>8, <2>9, <2>10, Zenon DEF IsExtended
<1> HIDE DEF t
<1>. QED  BY <1>1, <1>2, <1>3, <1>4

UpperHalf == [begin |-> Middle, end |-> Top.end, bit |-> SplitBit + 1]
LowerHalf == [begin |-> Top.begin, end |-> Middle, bit |-> SplitBit + 1]

\* What holds of the halves and of the ranges below them.
LEMMA HalvesAre ==
  ASSUME SorterInv, Split
  PROVE  /\ sorterPc = "split" /\ pending # <<>> /\ DifferingBits # {}
         /\ UpperHalf \in PendingRanges /\ LowerHalf \in PendingRanges
         /\ UpperHalf.begin = Middle /\ UpperHalf.end = Top.end /\ UpperHalf.bit = SplitBit + 1
         /\ LowerHalf.begin = Top.begin /\ LowerHalf.end = Middle /\ LowerHalf.bit = SplitBit + 1
         /\ Half(Middle, Top.end) \in {<<>>, <<UpperHalf>>} /\ Half(Top.begin, Middle) \in {<<>>, <<LowerHalf>>}
         /\ Half(Middle, Top.end) # <<>> <=> Top.end - Middle > 1 /\ SplitBit + 1 < Bits
         /\ Half(Top.begin, Middle) # <<>> <=> Middle - Top.begin > 1 /\ SplitBit + 1 < Bits
         /\ pending' = Front(pending) \o Half(Middle, Top.end) \o Half(Top.begin, Middle)
<1>1. sorterPc = "split" /\ pending # <<>> /\ DifferingBits # {}
  BY DEF Split
<1>2. Top.begin \in Nat /\ Top.end \in Nat /\ Middle \in Nat /\ SplitBit + 1 \in Nat
  BY <1>1, TopIs, DestinationIs, SplitBitIs, RangeAssumption
<1>3. UpperHalf \in PendingRanges /\ LowerHalf \in PendingRanges
  BY <1>2 DEF UpperHalf, LowerHalf, PendingRanges
<1>4. /\ UpperHalf.begin = Middle /\ UpperHalf.end = Top.end /\ UpperHalf.bit = SplitBit + 1
      /\ LowerHalf.begin = Top.begin /\ LowerHalf.end = Middle /\ LowerHalf.bit = SplitBit + 1
  BY DEF UpperHalf, LowerHalf
<1>5. \A r : <<r>> # <<>>
  OBVIOUS
<1>6. /\ Half(Middle, Top.end) \in {<<>>, <<UpperHalf>>}
      /\ Half(Middle, Top.end) # <<>> <=> Top.end - Middle > 1 /\ SplitBit + 1 < Bits
  BY <1>5, Zenon DEF Half, UpperHalf
<1>7. /\ Half(Top.begin, Middle) \in {<<>>, <<LowerHalf>>}
      /\ Half(Top.begin, Middle) # <<>> <=> Middle - Top.begin > 1 /\ SplitBit + 1 < Bits
  BY <1>5, Zenon DEF Half, LowerHalf
<1>8. pending' = Front(pending) \o Half(Middle, Top.end) \o Half(Top.begin, Middle)
  BY DEF Split
<1>. QED  BY <1>1, <1>3, <1>4, <1>6, <1>7, <1>8


\* A half that is pushed holds entries in the order they were in that agree up
\* to the bit.
LEMMA UnsplitHalf ==
  ASSUME SorterInv, Split, NEW r \in PendingRanges,
         r.begin + 1 < r.end, r.end <= Top.end, r.bit = SplitBit + 1, SplitBit + 1 < Bits,
         \A p \in Places : IsIn(p, r) => p \in RangePlaces,
         \A p, q \in Places : IsIn(p, r) /\ IsIn(q, r) => (p < Middle /\ q < Middle) \/ (p >= Middle /\ q >= Middle)
  PROVE  IsUnsplit(r, order')
<1>1. sorterPc = "split" /\ pending # <<>> /\ DifferingBits # {}
  BY HalvesAre
<1>2. SplitBit \in 0 .. Bits - 1 /\ Bits \in Nat
  BY <1>1, SplitBitIs, RangeAssumption
<1>3. r.end <= RangeSize /\ r.bit <= Bits
  <2>1. Top.end <= RangeSize /\ Top.end \in Nat /\ RangeSize \in Nat /\ r.end \in Nat
    BY <1>1, TopIs, WhileSplitting DEF PendingRanges
  <2>. QED  BY <1>2, <2>1
<1>4. \A b : b \in 0 .. r.bit - 1 => b \in 0 .. SplitBit
  BY <1>2
<1>5. ASSUME NEW p \in Places, NEW q \in Places, IsIn(p, r), IsIn(q, r)
      PROVE  /\ \A b \in 0 .. r.bit - 1 : Bit(ids[order'[p]], b) = Bit(ids[order'[q]], b)
             /\ p < q => order'[p] < order'[q]
  <2>1. p \in RangePlaces /\ q \in RangePlaces /\ ((p < Middle /\ q < Middle) \/ (p >= Middle /\ q >= Middle))
    BY <1>5
  <2>2. order'[p] = order[SplitSource(p)] /\ order'[q] = order[SplitSource(q)]
    BY <2>1, SplitEntries
  <2>3. /\ \A b \in 0 .. SplitBit : BitAt(SplitSource(p), b) = BitAt(SplitSource(q), b)
        /\ p < q => order[SplitSource(p)] < order[SplitSource(q)]
    BY <1>1, <2>1, InOneHalf
  <2>. QED  BY <1>4, <2>2, <2>3, Zenon DEF BitAt
<1>. QED  BY <1>3, <1>5, Zenon DEF IsUnsplit

\* A place of the range is in the lower half or in the upper half.
LEMMA PlacesOfHalves ==
  ASSUME SorterInv, Split
  PROVE  /\ \A p \in Places : IsIn(p, UpperHalf) <=> p \in RangePlaces /\ p >= Middle
         /\ \A p \in Places : IsIn(p, LowerHalf) <=> p \in RangePlaces /\ p < Middle
         /\ Middle \in Nat /\ Middle \in Top.begin .. Top.end /\ Places \in SUBSET Nat
<1>1. sorterPc = "split" /\ pending # <<>>
  BY HalvesAre
<1>2. PICK b \in Nat, e \in Nat : b = Top.begin /\ e = Top.end
  BY <1>1, TopIs
<1>3. PICK m \in b .. e : m = Middle
  BY <1>1, <1>2, DestinationIs
<1>4. \A p \in Places : p \in Nat /\ (p \in RangePlaces <=> b <= p /\ p < e)
  BY <1>1, <1>2, TopIs, WhileSplitting DEF IsIn
<1>5. UpperHalf.begin = m /\ UpperHalf.end = e /\ LowerHalf.begin = b /\ LowerHalf.end = m
  BY <1>2, <1>3, HalvesAre
<1>6. \A p \in Places : IsIn(p, UpperHalf) <=> p \in RangePlaces /\ p >= m
  BY <1>3, <1>4, <1>5 DEF IsIn
<1>7. \A p \in Places : IsIn(p, LowerHalf) <=> p \in RangePlaces /\ p < m
  BY <1>3, <1>4, <1>5 DEF IsIn
<1>. QED  BY <1>2, <1>3, <1>4, <1>6, <1>7

LEMMA UpperIsUnsplit ==
  ASSUME SorterInv, Split, Half(Middle, Top.end) # <<>>
  PROVE  IsUnsplit(UpperHalf, order')
<1>1. Top.end - Middle > 1 /\ SplitBit + 1 < Bits /\ UpperHalf \in PendingRanges
  BY HalvesAre
<1>2. UpperHalf.begin = Middle /\ UpperHalf.end = Top.end /\ UpperHalf.bit = SplitBit + 1
  BY HalvesAre
<1>3. UpperHalf.begin \in Nat /\ UpperHalf.end \in Nat
  BY <1>1 DEF PendingRanges
<1>4. UpperHalf.begin + 1 < UpperHalf.end /\ UpperHalf.end <= Top.end
  BY <1>1, <1>2, <1>3
<1>5. \A p \in Places : IsIn(p, UpperHalf) => p \in RangePlaces /\ p >= Middle
  BY PlacesOfHalves
<1>. QED  BY <1>1, <1>2, <1>4, <1>5, UnsplitHalf

LEMMA LowerIsUnsplit ==
  ASSUME SorterInv, Split, Half(Top.begin, Middle) # <<>>
  PROVE  IsUnsplit(LowerHalf, order')
<1>1. Middle - Top.begin > 1 /\ SplitBit + 1 < Bits /\ LowerHalf \in PendingRanges
  BY HalvesAre
<1>2. LowerHalf.begin = Top.begin /\ LowerHalf.end = Middle /\ LowerHalf.bit = SplitBit + 1
  BY HalvesAre
<1>3. LowerHalf.begin \in Nat /\ LowerHalf.end \in Nat /\ Middle <= Top.end
  <2>1. LowerHalf.begin \in Nat /\ LowerHalf.end \in Nat
    BY <1>1 DEF PendingRanges
  <2>. QED  BY <2>1, PlacesOfHalves
<1>4. LowerHalf.begin + 1 < LowerHalf.end /\ LowerHalf.end <= Top.end
  BY <1>1, <1>2, <1>3
<1>5. \A p \in Places : IsIn(p, LowerHalf) => p \in RangePlaces /\ p < Middle
  BY PlacesOfHalves
<1>. QED  BY <1>1, <1>2, <1>4, <1>5, UnsplitHalf

\* The entries of the range that was split are settled, or in a half to split yet.
LEMMA SplitSettles ==
  ASSUME SorterInv, Split, NEW p \in RangePlaces, NEW q \in RangePlaces, p < q
  PROVE  \/ ComesBefore(order'[p], order'[q])
         \/ Half(Middle, Top.end) # <<>> /\ IsIn(p, UpperHalf) /\ IsIn(q, UpperHalf)
         \/ Half(Top.begin, Middle) # <<>> /\ IsIn(p, LowerHalf) /\ IsIn(q, LowerHalf)
<1>1. sorterPc = "split" /\ pending # <<>> /\ DifferingBits # {}
  BY HalvesAre
<1>2. p \in Places /\ q \in Places /\ p \in Nat /\ q \in Nat
  BY <1>1, TopIs
<1>3. PICK b \in Nat, e \in Nat, m \in Nat : b = Top.begin /\ e = Top.end /\ m = Middle /\ b <= m /\ m <= e
  BY <1>1, TopIs, PlacesOfHalves
<1>4. b <= p /\ p < e /\ b <= q /\ q < e
  BY <1>2, <1>3 DEF RangePlaces
<1>5. SplitBit \in 0 .. Bits - 1
  BY <1>1, SplitBitIs
<1>6. PICK s \in RangePlaces, t \in RangePlaces : s = SplitSource(p) /\ t = SplitSource(q)
  BY <1>1, SplitSourceIs
<1>7. order'[p] = order[s] /\ order'[q] = order[t]
  BY <1>6, SplitEntries
<1>8. s \in Places /\ t \in Places
  BY <1>1, TopIs
<1>9. ids[order[s]] \in RangeIds /\ ids[order[t]] \in RangeIds
  BY <1>1, <1>8, WhileSplitting
<1>10. CASE p < m /\ q >= m
  <2>1. s \in Zeros
    BY <1>1, <1>3, <1>6, <1>10, SplitSourceIs
  <2>2. t \notin Zeros
    <3>1. ~(q < m)
      BY <1>2, <1>3, <1>10
    <3>. QED  BY <1>1, <1>3, <1>6, <3>1, SplitSourceIs
  <2>3. Bit(ids[order[s]], SplitBit) = 0 /\ Bit(ids[order[t]], SplitBit) # 0
    BY <2>1, <2>2 DEF Zeros, BitAt
  <2>4. \A c \in 0 .. SplitBit - 1 : Bit(ids[order[s]], c) = Bit(ids[order[t]], c)
    BY <1>1, SplitBitIs DEF BitAt
  <2>5. ids[order[s]] < ids[order[t]]
    BY <1>5, <1>9, <2>3, <2>4, FirstBitDecides
  <2>. QED  BY <1>7, <2>5, Zenon DEF ComesBefore
<1>11. CASE (p < m /\ q < m) \/ (p >= m /\ q >= m)
  <2>1. /\ \A c \in 0 .. SplitBit : Bit(ids[order[s]], c) = Bit(ids[order[t]], c)
        /\ order[s] < order[t]
    BY <1>1, <1>3, <1>6, <1>11, InOneHalf DEF BitAt
  <2>2. CASE SplitBit + 1 < Bits
    <3>1. CASE p < m /\ q < m
      <4>1. m - b > 1
        BY <1>2, <1>4, <3>1
      <4>2. IsIn(p, LowerHalf) /\ IsIn(q, LowerHalf)
        BY <1>2, <1>3, <3>1, PlacesOfHalves
      <4>. QED  BY <1>3, <2>2, <4>1, <4>2, HalvesAre
    <3>2. CASE p >= m /\ q >= m
      <4>1. e - m > 1
        BY <1>2, <1>4, <3>2
      <4>2. IsIn(p, UpperHalf) /\ IsIn(q, UpperHalf)
        BY <1>2, <1>3, <3>2, PlacesOfHalves
      <4>. QED  BY <1>3, <2>2, <4>1, <4>2, HalvesAre
    <3>. QED  BY <1>11, <3>1, <3>2
  <2>3. CASE ~(SplitBit + 1 < Bits)
    <3>1. \A c \in 0 .. Bits - 1 : c \in 0 .. SplitBit
      BY <1>5, <2>3, RangeAssumption
    <3>2. \A c \in 0 .. Bits - 1 : Bit(ids[order[s]], c) = Bit(ids[order[t]], c)
      BY <2>1, <3>1
    <3>3. ids[order[s]] = ids[order[t]]
      BY <1>9, <3>2, SameBitsSameId
    <3>. QED  BY <1>7, <2>1, <3>3, Zenon DEF ComesBefore
  <2>. QED  BY <2>2, <2>3
<1>12. (p < m /\ q >= m) \/ (p < m /\ q < m) \/ (p >= m /\ q >= m)
  BY <1>2, <1>3
<1>. QED  BY <1>10, <1>11, <1>12


\* The ranges below the one on top begin after it.
LEMMA RangesBelow ==
  ASSUME SorterInv, sorterPc = "split", pending # <<>>
  PROVE  /\ Front(pending) \in Seq(PendingRanges) /\ Len(Front(pending)) = Len(pending) - 1
         /\ \A i \in DOMAIN Front(pending) :
              /\ i \in DOMAIN pending /\ i < Len(pending) /\ Front(pending)[i] = pending[i]
              /\ pending[i].begin \in Nat /\ Top.end <= pending[i].begin /\ IsUnsplit(pending[i], order)
              /\ \A p \in Places : IsIn(p, pending[i]) => p \notin RangePlaces /\ Top.end <= p
         /\ \A i, j \in DOMAIN Front(pending) : i < j => pending[j].end <= pending[i].begin
         /\ \A i \in DOMAIN pending : i \in DOMAIN Front(pending) \/ i = Len(pending)
<1>1. PICK n \in Nat \ {0} : n = Len(pending) /\ n \in DOMAIN pending /\ Top = pending[n]
  BY TopIs
<1>2. SplitOK /\ Places = 0 .. RangeSize - 1 /\ RangeSize \in Nat
  BY WhileSplitting
<1>3. pending \in Seq(PendingRanges)
  BY <1>2 DEF SplitOK
<1>4. /\ Front(pending) \in Seq(PendingRanges) /\ Len(Front(pending)) = n - 1
      /\ \A i \in 1 .. n - 1 : Front(pending)[i] = pending[i]
  BY <1>1, <1>3, FrontIs
<1>5. DOMAIN Front(pending) = 1 .. n - 1 /\ DOMAIN pending = 1 .. n
  BY <1>1, <1>3, <1>4
<1>6. /\ \A i \in DOMAIN pending : IsUnsplit(pending[i], order)
      /\ \A i, j \in DOMAIN pending : i < j => pending[j].end <= pending[i].begin
  BY <1>2, Zenon DEF SplitOK
<1>7. ASSUME NEW i \in DOMAIN Front(pending)
      PROVE  /\ i \in DOMAIN pending /\ i < n /\ Front(pending)[i] = pending[i]
             /\ pending[i].begin \in Nat /\ Top.end <= pending[i].begin /\ IsUnsplit(pending[i], order)
             /\ \A p \in Places : IsIn(p, pending[i]) => p \notin RangePlaces /\ Top.end <= p
  <2>1. i \in 1 .. n - 1 /\ i \in 1 .. n /\ i < n
    BY <1>5
  <2>2. Top.end <= pending[i].begin
    BY <1>1, <1>5, <1>6, <2>1
  <2>3. pending[i] \in PendingRanges
    BY <1>3, <1>5, <2>1
  <2>4. pending[i].begin \in Nat /\ Top.end \in Nat /\ Top.begin \in Nat
    BY <2>3, TopIs DEF PendingRanges
  <2>5. ASSUME NEW p \in Places, IsIn(p, pending[i])
        PROVE  p \notin RangePlaces /\ Top.end <= p
    <3>1. p \in Nat /\ pending[i].begin <= p
      BY <1>2, <2>5 DEF IsIn
    <3>2. Top.end <= p
      BY <2>2, <2>4, <3>1
    <3>. QED  BY <2>4, <3>1, <3>2 DEF RangePlaces
  <2>. QED  BY <1>4, <1>5, <1>6, <2>1, <2>2, <2>4, <2>5
<1>8. \A i, j \in DOMAIN Front(pending) : i < j => pending[j].end <= pending[i].begin
  BY <1>6, <1>7
<1>9. \A i \in DOMAIN pending : i \in DOMAIN Front(pending) \/ i = n
  BY <1>5
<1>. QED  BY <1>1, <1>4, <1>7, <1>8, <1>9

\* An entry of the range on top and one of another place are settled.
LEMMA OutsideIsSettled ==
  ASSUME SorterInv, sorterPc = "split", pending # <<>>, NEW p \in Places, NEW q \in Places, p < q,
         (p \in RangePlaces) # (q \in RangePlaces)
  PROVE  IsSettled(p, q)
<1>1. SUFFICES ASSUME NEW i \in DOMAIN pending, IsIn(p, pending[i]), IsIn(q, pending[i]) PROVE FALSE
  <2>1. SplitOK
    BY WhileSplitting
  <2>. QED  BY <2>1 DEF SplitOK
<1>2. i \in DOMAIN Front(pending) \/ i = Len(pending)
  BY RangesBelow
<1>3. CASE i \in DOMAIN Front(pending)
  BY <1>1, <1>3, RangesBelow
<1>4. CASE i = Len(pending)
  BY <1>1, <1>4, TopIs
<1>. QED  BY <1>2, <1>3, <1>4

\* Below the range split, and in the rest of the row, nothing changes.
LEMMA SplitKeepsOthers ==
  ASSUME SorterInv, Split
  PROVE  /\ \A i \in DOMAIN Front(pending) : IsUnsplit(pending[i], order')
         /\ \A p, q \in Places : p < q /\ ~(p \in RangePlaces /\ q \in RangePlaces) =>
              \/ ComesBefore(order'[p], order'[q])
              \/ \E i \in DOMAIN Front(pending) : IsIn(p, pending[i]) /\ IsIn(q, pending[i])
<1>1. sorterPc = "split" /\ pending # <<>>
  BY HalvesAre
<1>2. /\ \A p \in RangePlaces : order'[p] = order[SplitSource(p)]
      /\ \A p \in Places : p \notin RangePlaces => order'[p] = order[p]
  BY SplitEntries
<1>3. ASSUME NEW i \in DOMAIN Front(pending)
      PROVE  IsUnsplit(pending[i], order')
  <2>1. IsUnsplit(pending[i], order) /\ \A p \in Places : IsIn(p, pending[i]) => p \notin RangePlaces
    BY <1>1, RangesBelow
  <2>2. \A p \in Places : IsIn(p, pending[i]) => order'[p] = order[p]
    BY <1>2, <2>1
  <2> DEFINE r == pending[i]
  <2> HIDE DEF r
  <2>3. IsUnsplit(r, order) /\ \A p \in Places : IsIn(p, r) => order'[p] = order[p]
    BY <2>1, <2>2 DEF r
  <2>4. IsUnsplit(r, order')
    <3>1. \A p, q \in Places : IsIn(p, r) /\ IsIn(q, r) =>
            /\ \A b \in 0 .. r.bit - 1 : Bit(ids[order'[p]], b) = Bit(ids[order'[q]], b)
            /\ p < q => order'[p] < order'[q]
      <4>1. SUFFICES ASSUME NEW p \in Places, NEW q \in Places, IsIn(p, r), IsIn(q, r)
                     PROVE  /\ \A b \in 0 .. r.bit - 1 : Bit(ids[order'[p]], b) = Bit(ids[order'[q]], b)
                            /\ p < q => order'[p] < order'[q]
        BY Zenon
      <4>2. order'[p] = order[p] /\ order'[q] = order[q]
        BY <2>3, <4>1, Zenon
      <4>3. /\ \A b \in 0 .. r.bit - 1 : Bit(ids[order[p]], b) = Bit(ids[order[q]], b)
            /\ p < q => order[p] < order[q]
        BY <2>3, <4>1, Zenon DEF IsUnsplit
      <4>. QED  BY <4>2, <4>3, Zenon
    <3>2. r.begin + 1 < r.end /\ r.end <= RangeSize /\ r.bit <= Bits
      BY <2>3, Zenon DEF IsUnsplit
    <3>. QED  BY <3>1, <3>2, Zenon DEF IsUnsplit
  <2>. QED  BY <2>4 DEF r
<1>4. SUFFICES ASSUME NEW p \in Places, NEW q \in Places, p < q, ~(p \in RangePlaces /\ q \in RangePlaces)
               PROVE  \/ ComesBefore(order'[p], order'[q])
                      \/ \E i \in DOMAIN Front(pending) : IsIn(p, pending[i]) /\ IsIn(q, pending[i])
  BY <1>3
<1>5. PICK b \in Nat, e \in Nat : b = Top.begin /\ e = Top.end
  BY <1>1, TopIs
<1>6. \A r \in Places : r \in Nat /\ (r \in RangePlaces <=> b <= r /\ r < e)
  <2>1. TAKE r \in Places
  <2>2. r \in Nat
    BY <1>1, WhileSplitting
  <2>3. r \in RangePlaces <=> IsIn(r, Top)
    BY <1>1, TopIs
  <2>. QED  BY <1>5, <2>2, <2>3 DEF IsIn
<1>7. CASE p \notin RangePlaces /\ q \notin RangePlaces
  <2>1. order'[p] = order[p] /\ order'[q] = order[q]
    BY <1>2, <1>7
  <2>2. IsSettled(p, q) \/ \E i \in DOMAIN pending : IsIn(p, pending[i]) /\ IsIn(q, pending[i])
    <3>1. SplitOK
      BY <1>1, WhileSplitting
    <3>. QED  BY <1>4, <3>1 DEF SplitOK
  <2>3. CASE IsSettled(p, q)
    BY <2>1, <2>3, Zenon DEF IsSettled
  <2>4. ASSUME NEW i \in DOMAIN pending, IsIn(p, pending[i]), IsIn(q, pending[i])
        PROVE  i \in DOMAIN Front(pending)
    <3>1. i # Len(pending)
      BY <1>1, <1>7, <2>4, TopIs
    <3>. QED  BY <1>1, <3>1, RangesBelow
  <2>. QED  BY <2>2, <2>3, <2>4
<1>8. CASE p \in RangePlaces /\ q \notin RangePlaces
  <2>1. PICK s \in RangePlaces : s = SplitSource(p)
    BY <1>1, <1>8, SplitSourceIs
  <2>2. s \in Places
    BY <1>1, TopIs
  <2>3. s < q
    BY <1>4, <1>6, <1>8, <2>2
  <2>4. IsSettled(s, q)
    BY <1>1, <1>8, <2>2, <2>3, OutsideIsSettled
  <2>. QED  BY <1>2, <1>8, <2>1, <2>4, Zenon DEF IsSettled
<1>9. CASE p \notin RangePlaces /\ q \in RangePlaces
  <2>1. PICK s \in RangePlaces : s = SplitSource(q)
    BY <1>1, <1>9, SplitSourceIs
  <2>2. s \in Places
    BY <1>1, TopIs
  <2>3. p < s
    BY <1>4, <1>6, <1>9, <2>2
  <2>4. IsSettled(p, s)
    BY <1>1, <1>9, <2>2, <2>3, OutsideIsSettled
  <2>. QED  BY <1>2, <1>9, <2>1, <2>4, Zenon DEF IsSettled
<1>. QED  BY <1>4, <1>7, <1>8, <1>9

\* The ranges after a partition: those below the one split, and its halves.
LEMMA RangesAfterSplit ==
  ASSUME SorterInv, Split
  PROVE  /\ pending' \in Seq(PendingRanges)
         /\ \A i \in DOMAIN pending' : IsUnsplit(pending'[i], order')
         /\ \A i, j \in DOMAIN pending' : i < j => pending'[j].end <= pending'[i].begin
         /\ \A i \in DOMAIN Front(pending) : i \in DOMAIN pending' /\ pending'[i] = pending[i]
         /\ Half(Middle, Top.end) # <<>> => \E i \in DOMAIN pending' : pending'[i] = UpperHalf
         /\ Half(Top.begin, Middle) # <<>> => \E i \in DOMAIN pending' : pending'[i] = LowerHalf
<1>1. sorterPc = "split" /\ pending # <<>>
  BY HalvesAre
<1>2. PICK s \in Seq(PendingRanges) : s = Front(pending)
  BY <1>1, RangesBelow
<1>3. PICK h \in {<<>>, <<UpperHalf>>} : h = Half(Middle, Top.end)
  BY HalvesAre
<1>4. PICK l \in {<<>>, <<LowerHalf>>} : l = Half(Top.begin, Middle)
  BY HalvesAre
<1>5. PICK t : t = pending' /\ t = s \o h \o l
  BY <1>2, <1>3, <1>4, HalvesAre
<1>6. PICK x \in PendingRanges, y \in PendingRanges : x = UpperHalf /\ y = LowerHalf
  BY HalvesAre
<1>7. PICK n \in Nat, m \in Nat :
      /\ n = Len(s) /\ DOMAIN s = 1 .. n /\ m = Len(t)
      /\ t \in Seq(PendingRanges)
      /\ \A i \in DOMAIN t :
           \/ i \in DOMAIN s /\ t[i] = s[i]
           \/ h # <<>> /\ t[i] = UpperHalf /\ i = n + 1
           \/ l # <<>> /\ t[i] = LowerHalf /\ i > n /\ i = m /\ (h # <<>> => i # n + 1)
      /\ \A i \in DOMAIN s : i \in DOMAIN t /\ t[i] = s[i]
      /\ h # <<>> => \E i \in DOMAIN t : t[i] = UpperHalf
      /\ l # <<>> => \E i \in DOMAIN t : t[i] = LowerHalf
  <2>1. h \in {<<>>, <<x>>} /\ l \in {<<>>, <<y>>}
    BY <1>6, Zenon
  <2>2. t = s \o h \o l
    BY <1>5
  <2>3. IsExtended(PendingRanges, s, x, y, h, l, t)
    BY <2>1, <2>2, UpToTwoMore
  <2>4. Len(s) \in Nat /\ Len(t) \in Nat /\ DOMAIN s = 1 .. Len(s)
    BY <2>3 DEF IsExtended
  <2>. QED  BY <1>6, <2>3, <2>4, Zenon DEF IsExtended
<1>8. \A i \in DOMAIN s :
        s[i] = pending[i] /\ IsUnsplit(pending[i], order') /\ Top.end <= s[i].begin /\ s[i].begin \in Nat
  BY <1>1, <1>2, RangesBelow, SplitKeepsOthers
<1>9. /\ h # <<>> => IsUnsplit(UpperHalf, order')
      /\ l # <<>> => IsUnsplit(LowerHalf, order')
  BY <1>3, <1>4, UpperIsUnsplit, LowerIsUnsplit
<1>10. \A i \in DOMAIN t : IsUnsplit(t[i], order')
  <2>1. TAKE i \in DOMAIN t
  <2>. QED  BY <1>7, <1>8, <1>9, Zenon
<1>11. ASSUME NEW i \in DOMAIN t, NEW j \in DOMAIN t, i < j
       PROVE  t[j].end <= t[i].begin
  <2>1. PICK b \in Nat, mid \in Nat, e \in Nat :
          b = Top.begin /\ e = Top.end /\ mid = Middle /\ b <= mid /\ mid <= e
    BY <1>1, TopIs, PlacesOfHalves
  <2>2. UpperHalf.begin = mid /\ UpperHalf.end = e /\ LowerHalf.begin = b /\ LowerHalf.end = mid
    BY <2>1, HalvesAre
  <2>3. i \in Nat /\ j \in Nat
    BY <1>7
  <2>4. CASE i \in DOMAIN s /\ j \in DOMAIN s
    <3>1. pending[j].end <= pending[i].begin
      BY <1>1, <1>2, <1>11, <2>4, RangesBelow
    <3>. QED  BY <1>7, <1>8, <2>4, <3>1
  <2>5. CASE i \in DOMAIN s /\ j \notin DOMAIN s
    <3>1. t[j] = UpperHalf \/ t[j] = LowerHalf
      BY <1>7, <2>5
    <3>2. t[j].end \in Nat /\ t[j].end <= e
      BY <2>1, <2>2, <3>1
    <3>3. t[i] = s[i] /\ e <= s[i].begin /\ s[i].begin \in Nat
      BY <1>7, <1>8, <2>1, <2>5
    <3>4. PICK c \in Nat : c = s[i].begin
      BY <3>3
    <3>5. PICK d \in Nat : d = t[j].end
      BY <3>2
    <3>. QED  BY <3>2, <3>3, <3>4, <3>5
  <2>6. CASE i \notin DOMAIN s
    <3>1. i > n /\ i # m
      <4>1. i > n
        BY <1>6, <1>7, <2>3, <2>6
      <4>2. j <= m
        BY <1>6, <1>7
      <4>. QED  BY <1>6, <1>11, <2>3, <4>1, <4>2
    <3>2. t[i] = UpperHalf /\ i = n + 1
      BY <1>7, <2>6, <3>1
    <3>3. j > n + 1 /\ j \notin DOMAIN s
      BY <1>7, <1>11, <2>3, <3>2
    <3>4. t[j] = LowerHalf
      BY <1>6, <1>7, <2>3, <3>3
    <3>. QED  BY <2>1, <2>2, <3>2, <3>4
  <2>. QED  BY <2>4, <2>5, <2>6
<1>12. \A i \in DOMAIN Front(pending) : i \in DOMAIN t /\ t[i] = pending[i]
  BY <1>2, <1>7, <1>8, Zenon
<1>. QED  BY <1>3, <1>4, <1>5, <1>7, <1>10, <1>11, <1>12, Zenon

LEMMA SplitKeepsInv == ASSUME SorterInv, Split PROVE SorterInv'
<1>1. /\ sorterPc = "split" /\ sorterPc' = "split" /\ UNCHANGED <<sorterInputs, gaps, keys>>
      /\ method' = method /\ gaps' = gaps
  BY DEF Split, sorterInputs
<1>2. RangeInputsOK /\ GapsOK /\ SplitOK
  BY <1>1, WhileSplitting
<1>3. RangeInputsOK' /\ GapsOK' /\ SameRange
  <2>1. GapsOK'
    BY <1>1, <1>2 DEF GapsOK
  <2>. QED  BY <1>1, <1>2, <2>1, InputsStaySame
<1>4. EntriesOK'
  BY SplitEntries
<1>5. ASSUME NEW p \in Places, NEW q \in Places, p < q
      PROVE  \/ ComesBefore(order'[p], order'[q])
             \/ \E i \in DOMAIN pending' : IsIn(p, pending'[i]) /\ IsIn(q, pending'[i])
  <2>1. CASE p \in RangePlaces /\ q \in RangePlaces
    <3>1. \/ ComesBefore(order'[p], order'[q])
          \/ Half(Middle, Top.end) # <<>> /\ IsIn(p, UpperHalf) /\ IsIn(q, UpperHalf)
          \/ Half(Top.begin, Middle) # <<>> /\ IsIn(p, LowerHalf) /\ IsIn(q, LowerHalf)
      BY <1>5, <2>1, SplitSettles
    <3>. QED  BY <3>1, RangesAfterSplit, Zenon
  <2>2. CASE ~(p \in RangePlaces /\ q \in RangePlaces)
    <3>1. \/ ComesBefore(order'[p], order'[q])
          \/ \E i \in DOMAIN Front(pending) : IsIn(p, pending[i]) /\ IsIn(q, pending[i])
      BY <1>5, <2>2, SplitKeepsOthers
    <3>2. ASSUME NEW i \in DOMAIN Front(pending), IsIn(p, pending[i]), IsIn(q, pending[i])
          PROVE  \E k \in DOMAIN pending' : IsIn(p, pending'[k]) /\ IsIn(q, pending'[k])
      <4>1. i \in DOMAIN pending' /\ pending'[i] = pending[i]
        BY RangesAfterSplit
      <4>. QED  BY <3>2, <4>1, Zenon
    <3>. QED  BY <3>1, <3>2
  <2>. QED  BY <2>1, <2>2
<1>6. SplitOK'
  <2>1. method = "bitwise" /\ RangeSize <= MaxRangeSize
    BY <1>2 DEF SplitOK
  <2>2. /\ pending' \in Seq(PendingRanges)
        /\ \A i \in DOMAIN pending' : IsUnsplit(pending'[i], order')
        /\ \A i, j \in DOMAIN pending' : i < j => pending'[j].end <= pending'[i].begin
    BY RangesAfterSplit
  <2>. QED  BY <1>1, <1>3, <1>5, <2>1, <2>2, SplitOKNext
<1>. QED  BY <1>1, <1>3, <1>4, <1>6 DEF SorterInv, SortsById


\* A range whose ids agree in every bit has one id.
LEMMA EqualRangeIsSettled ==
  ASSUME SorterInv, sorterPc = "split", pending # <<>>, DifferingBits = {},
         NEW p \in RangePlaces, NEW q \in RangePlaces, p < q
  PROVE  IsSettled(p, q)
<1>1. p \in Places /\ q \in Places /\ order[p] < order[q] /\ Top.bit \in 0 .. Bits
  BY TopIs
<1>2. ids[order[p]] \in RangeIds /\ ids[order[q]] \in RangeIds
  BY <1>1, WhileSplitting
<1>3. ASSUME NEW b \in 0 .. Bits - 1
      PROVE  Bit(ids[order[p]], b) = Bit(ids[order[q]], b)
  <2>1. b \in 0 .. Top.bit - 1 \/ b \in Top.bit .. Bits - 1
    BY <1>1
  <2>2. b \in 0 .. Top.bit - 1 => BitAt(p, b) = BitAt(q, b)
    BY TopIs
  <2>3. b \in Top.bit .. Bits - 1 => BitAt(p, b) = BitAt(q, b)
    BY Zenon DEF DifferingBits
  <2>. QED  BY <2>1, <2>2, <2>3, Zenon DEF BitAt
<1>4. ids[order[p]] = ids[order[q]]
  BY <1>2, <1>3, SameBitsSameId
<1>. QED  BY <1>1, <1>4, Zenon DEF IsSettled, ComesBefore

LEMMA AllEqualKeepsInv == ASSUME SorterInv, AllEqual PROVE SorterInv'
<1>1. /\ sorterPc = "split" /\ pending # <<>> /\ DifferingBits = {} /\ pending' = Front(pending)
      /\ sorterPc' = "split" /\ UNCHANGED <<sorterInputs, gaps, order, keys>>
      /\ method' = method /\ order' = order
  BY DEF AllEqual, sorterInputs
<1>2. RangeInputsOK /\ GapsOK /\ EntriesOK /\ SplitOK
  BY <1>1, WhileSplitting
<1>3. RangeInputsOK' /\ GapsOK' /\ EntriesOK' /\ SameRange
  BY <1>1, <1>2, EntriesStay
<1>4. PICK s : s = Front(pending)
  OBVIOUS
<1>5. /\ s \in Seq(PendingRanges)
      /\ \A i \in DOMAIN s : s[i] = pending[i] /\ IsUnsplit(pending[i], order)
      /\ \A i, j \in DOMAIN s : i < j => pending[j].end <= pending[i].begin
      /\ \A i \in DOMAIN pending : i \in DOMAIN s \/ i = Len(pending)
  BY <1>1, <1>4, RangesBelow
<1>6. \A i \in DOMAIN s : IsUnsplit(s[i], order')
  BY <1>1, <1>5, Zenon
<1>7. \A i, j \in DOMAIN s : i < j => s[j].end <= s[i].begin
  BY <1>5, Zenon
<1>8. ASSUME NEW p \in Places, NEW q \in Places, p < q
      PROVE  ComesBefore(order'[p], order'[q]) \/ \E i \in DOMAIN s : IsIn(p, s[i]) /\ IsIn(q, s[i])
  <2>1. IsSettled(p, q) \/ \E i \in DOMAIN pending : IsIn(p, pending[i]) /\ IsIn(q, pending[i])
    BY <1>2, <1>8 DEF SplitOK
  <2>2. CASE IsSettled(p, q)
    BY <1>1, <2>2, Zenon DEF IsSettled
  <2>3. ASSUME NEW i \in DOMAIN pending, IsIn(p, pending[i]), IsIn(q, pending[i])
        PROVE  IsSettled(p, q) \/ i \in DOMAIN s
    <3>1. SUFFICES ASSUME i = Len(pending) PROVE IsSettled(p, q)
      BY <1>5
    <3>2. p \in RangePlaces /\ q \in RangePlaces
      BY <1>1, <2>3, <3>1, TopIs
    <3>. QED  BY <1>1, <1>8, <3>2, EqualRangeIsSettled
  <2>. QED  BY <1>5, <2>1, <2>2, <2>3, Zenon
<1>9. method = "bitwise" /\ RangeSize <= MaxRangeSize
  BY <1>2 DEF SplitOK
<1>10. SplitOK'
  <2>1. pending' = s
    BY <1>1, <1>4
  <2>. QED  BY <1>1, <1>3, <1>5, <1>6, <1>7, <1>8, <1>9, <2>1, SplitOKNext
<1>. QED  BY <1>1, <1>3, <1>10 DEF SorterInv, SortsById

LEMMA SplitDoneKeepsInv == ASSUME SorterInv, SplitDone PROVE SorterInv'
<1>1. /\ sorterPc = "split" /\ pending = <<>> /\ sorterPc' = "done"
      /\ UNCHANGED <<sorterInputs, gaps, order, keys>>
  BY DEF SplitDone
<1>2. /\ RangeInputsOK /\ GapsOK /\ EntriesOK /\ SplitOK
      /\ \A p \in Places : ids[order[p]] \in Nat
  BY <1>1, WhileSplitting
<1>3. \A p, q \in Places : p < q => IsSettled(p, q)
  <2>1. DOMAIN pending = {}
    BY <1>1
  <2>. QED  BY <1>2, <2>1 DEF SplitOK
<1>4. \A p, q \in Places : IsSettled(p, q) => ids[order[p]] <= ids[order[q]]
  <2>1. TAKE p, q \in Places
  <2>2. ids[order[p]] \in Nat /\ ids[order[q]] \in Nat
    BY <1>2
  <2>. QED  BY <2>2 DEF IsSettled, ComesBefore
<1>. QED  BY <1>1, <1>2, <1>3, <1>4, EndingKeepsInv

LEMMA SorterNextKeepsInv == ASSUME SorterInv, [SorterNext]_sorterVars PROVE SorterInv'
<1>1. CASE EnterSorter    BY <1>1, EnterSorterKeepsInv
<1>2. CASE KeepNext       BY <1>2, KeepNextKeepsInv
<1>3. CASE InsertByScan   BY <1>3, InsertByScanKeepsInv
<1>4. CASE NextGap        BY <1>4, NextGapKeepsInv
<1>5. CASE InsertionDone  BY <1>5, InsertionDoneKeepsInv
<1>6. CASE SearchPlace    BY <1>6, SearchPlaceKeepsInv
<1>7. CASE ProbeBack      BY <1>7, ProbeBackKeepsInv
<1>8. CASE NothingBack    BY <1>8, NothingBackKeepsInv
<1>9. CASE Bisect         BY <1>9, BisectKeepsInv
<1>10. CASE InsertFound   BY <1>10, InsertFoundKeepsInv
<1>11. CASE Split         BY <1>11, SplitKeepsInv
<1>12. CASE AllEqual      BY <1>12, AllEqualKeepsInv
<1>13. CASE SplitDone     BY <1>13, SplitDoneKeepsInv
<1>14. CASE SorterReturned  BY <1>14, ReturnedKeepsInv DEF SorterReturned
<1>15. CASE UNCHANGED sorterVars  BY <1>15, ReturnedKeepsInv
<1>. QED  BY <1>1, <1>2, <1>3, <1>4, <1>5, <1>6, <1>7, <1>8, <1>9, <1>10, <1>11, <1>12, <1>13, <1>14, <1>15
          DEF SorterNext

LEMMA SorterInvHolds == SorterSpec => []SorterInv
<1>1. SorterInit => SorterInv
  BY InitSorterInv
<1>2. SorterInv /\ [SorterNext]_sorterVars => SorterInv'
  BY SorterNextKeepsInv
<1>. QED  BY <1>1, <1>2, PTL DEF SorterSpec

\* Ranges that follow one another begin at places that differ.
LEMMA FewRanges ==
  ASSUME SorterInv, sorterPc = "split"
  PROVE  Len(pending) <= MaxRangeSize
<1>1. SplitOK /\ RangeSize \in Nat /\ Places = 0 .. RangeSize - 1
  BY WhileSplitting
<1>2. pending \in Seq(PendingRanges) /\ RangeSize <= MaxRangeSize /\ MaxRangeSize \in Nat
  BY <1>1, RangeAssumption DEF SplitOK
<1>3. PICK n \in Nat : n = Len(pending) /\ DOMAIN pending = 1 .. n
  BY <1>2
<1>4. \A i \in 1 .. n :
        /\ pending[i].begin \in Nat /\ pending[i].end \in Nat
        /\ pending[i].begin < pending[i].end /\ pending[i].end <= RangeSize
  <2>1. TAKE i \in 1 .. n
  <2>2. pending[i].begin \in Nat /\ pending[i].end \in Nat
    <3>1. pending[i] \in PendingRanges
      BY <1>2, <1>3
    <3>. QED  BY <3>1 DEF PendingRanges
  <2>3. pending[i].begin + 1 < pending[i].end /\ pending[i].end <= RangeSize
    BY <1>1, <1>3, Zenon DEF SplitOK, IsUnsplit
  <2>. QED  BY <2>2, <2>3
<1>5. \A i, j \in 1 .. n : i < j => pending[j].end <= pending[i].begin
  BY <1>1, <1>3, Zenon DEF SplitOK
<1> DEFINE f == [i \in 1 .. n |-> pending[i].begin]
<1>6. f \in [1 .. n -> 0 .. RangeSize - 1]
  BY <1>1, <1>4
<1>7. \A i, j \in 1 .. n : f[i] = f[j] => i = j
  <2>1. \A i, j \in 1 .. n : i < j => f[j] < f[i]
    <3>1. TAKE i, j \in 1 .. n
    <3>2. SUFFICES ASSUME i < j PROVE pending[j].begin < pending[i].begin
      OBVIOUS
    <3>3. pending[j].end <= pending[i].begin /\ pending[j].begin < pending[j].end
      BY <1>4, <1>5, <3>2
    <3>4. PICK a \in Nat, b \in Nat, c \in Nat : a = pending[j].begin /\ b = pending[j].end /\ c = pending[i].begin
      BY <1>4
    <3>. QED  BY <3>3, <3>4
  <2>2. \A i \in 1 .. n : f[i] \in Nat
    BY <1>4
  <2> HIDE DEF f
  <2>. QED  BY <2>1, <2>2
<1> HIDE DEF f
<1>8. f \in Injection(1 .. n, 0 .. RangeSize - 1)
  BY <1>6, <1>7 DEF Injection, IsInjective
<1>9. IsFiniteSet(0 .. RangeSize - 1) /\ Cardinality(0 .. RangeSize - 1) = RangeSize
  BY <1>1, FS_Interval
<1>10. Cardinality(1 .. n) = n
  BY FS_Interval
<1>11. Cardinality(1 .. n) <= Cardinality(0 .. RangeSize - 1)
  BY <1>8, <1>9, FS_Injection, Zenon
<1>. QED  BY <1>1, <1>2, <1>3, <1>9, <1>10, <1>11

LEMMA InvKeepsProgress == ASSUME SorterInv PROVE ProgressIsKept
<1>1. ASSUME sorterPc \in {"insert", "probe", "search"}, NEW p \in 0 .. next - 1, NEW q \in 0 .. next - 1,
             p < q, q < RangeSize, (q - p) % gaps[1] = 0
      PROVE  ids[order[p]] <= ids[order[q]]
  <2>1. InsertionOK /\ RangeInputsOK
    BY <1>1 DEF SorterInv
  <2>2. next \in Nat /\ RangeSize \in Nat /\ Places = 0 .. RangeSize - 1
    BY <2>1, RangeIs DEF InsertionOK
  <2>3. p \in Places /\ q \in Places /\ q < next
    BY <1>1, <2>2
  <2>. QED  BY <1>1, <2>1, <2>3 DEF InsertionOK
<1>2. ASSUME sorterPc = "split"
      PROVE  /\ Len(pending) <= MaxRangeSize
             /\ \A i, j \in DOMAIN pending : i < j => pending[j].end <= pending[i].begin
             /\ \A p, q \in Places :
                  \/ p >= q \/ ids[order[p]] <= ids[order[q]]
                  \/ \E i \in DOMAIN pending : {p, q} \subseteq pending[i].begin .. pending[i].end - 1
  <2>1. SplitOK /\ Places = 0 .. RangeSize - 1 /\ RangeSize \in Nat /\ \A p \in Places : ids[order[p]] \in Nat
    BY <1>2, WhileSplitting
  <2>2. Len(pending) <= MaxRangeSize
    BY <1>2, FewRanges
  <2>3. \A i, j \in DOMAIN pending : i < j => pending[j].end <= pending[i].begin
    BY <2>1 DEF SplitOK
  <2>4. ASSUME NEW p \in Places, NEW q \in Places, p < q
        PROVE  \/ ids[order[p]] <= ids[order[q]]
               \/ \E i \in DOMAIN pending : {p, q} \subseteq pending[i].begin .. pending[i].end - 1
    <3>1. IsSettled(p, q) \/ \E i \in DOMAIN pending : IsIn(p, pending[i]) /\ IsIn(q, pending[i])
      BY <2>1, <2>4, Zenon DEF SplitOK
    <3>2. IsSettled(p, q) => ids[order[p]] <= ids[order[q]]
      <4>1. ids[order[p]] \in Nat /\ ids[order[q]] \in Nat
        BY <2>1
      <4>. QED  BY <4>1 DEF IsSettled, ComesBefore
    <3>3. ASSUME NEW i \in DOMAIN pending, IsIn(p, pending[i]), IsIn(q, pending[i])
          PROVE  {p, q} \subseteq pending[i].begin .. pending[i].end - 1
      <4>1. pending[i] \in PendingRanges
        BY <2>1 DEF SplitOK
      <4>2. pending[i].begin \in Nat /\ pending[i].end \in Nat
        BY <4>1 DEF PendingRanges
      <4>3. p \in pending[i].begin .. pending[i].end - 1 /\ q \in pending[i].begin .. pending[i].end - 1
        BY <2>1, <3>3, <4>2 DEF IsIn
      <4>. QED  BY <4>3
    <3>. QED  BY <3>1, <3>2, <3>3
  <2>5. \A p, q \in Places : p >= q \/ p < q
    BY <2>1
  <2>. QED  BY <2>2, <2>3, <2>4, <2>5
<1>. QED  BY <1>1, <1>2 DEF ProgressIsKept

\* Whichever way places are looked for, what is behind an insertion is in order;
\* and the ranges the partition by bits has still to split never outgrow the
\* fixed scratch, do not meet, and hold all that is out of order.
THEOREM ProgressIsAlwaysKept == SorterSpec => []ProgressIsKept
<1>1. SorterInv => ProgressIsKept
  BY InvKeepsProgress
<1>. QED  BY <1>1, SorterInvHolds, PTL

\* Every sort of the tail benchmark that ends, of ids with any number of bits
\* and with any gaps, has put each entry in its place by id; those that are not
\* shell sorts have left entries with one id as they came.
THEOREM SmallSortsSortById == SorterSpec => []SortsById
<1>1. SorterInv => SortsById
  BY DEF SorterInv
<1>. QED  BY <1>1, SorterInvHolds, PTL
=============================================================================
