-------------------------- MODULE DepthGroupProofs --------------------------
(***************************************************************************)
(* Proofs about DepthGroup: that both groupings of a permutation by depth  *)
(* keep its nodes, are stable, and tell the consumer of every depth in     *)
(* order.  GroupAndPlaceProofs states the theorems for a whole sort.       *)
(***************************************************************************)
EXTENDS DepthGroup, FiniteSetTheorems, SequenceTheorems, TLAPS

-----------------------------------------------------------------------------
(* Ranks.  A stable counting sort puts a position after those that have a   *)
(* smaller key, and the earlier ones of its own key: their number is its    *)
(* rank.                                                                    *)

Earlier(f, j, i) == f[j] < f[i] \/ (f[j] = f[i] /\ j < i)
EarlierThan(f, i) == {j \in DOMAIN f : Earlier(f, j, i)}
Rank(f, i) == Cardinality(EarlierThan(f, i))

\* Ranks are less than the number of positions.
LEMMA RankBound ==
  ASSUME NEW S \in SUBSET Nat, IsFiniteSet(S), NEW f \in [S -> Nat], NEW i \in S
  PROVE  /\ IsFiniteSet(EarlierThan(f, i))
         /\ Rank(f, i) \in 0 .. Cardinality(S) - 1
<1>1. EarlierThan(f, i) \in SUBSET S /\ EarlierThan(f, i) # S
  BY DEF EarlierThan, Earlier
<1>2. /\ Cardinality(S) \in Nat
      /\ IsFiniteSet(EarlierThan(f, i)) /\ Cardinality(EarlierThan(f, i)) \in Nat
  BY <1>1, FS_Subset, FS_CardinalityType
<1>3. Cardinality(EarlierThan(f, i)) < Cardinality(S)
  BY <1>1, <1>2, FS_Subset
<1> QED
  BY <1>2, <1>3 DEF Rank

\* What is earlier has the smaller rank.
LEMMA RankMonotone ==
  ASSUME NEW S \in SUBSET Nat, IsFiniteSet(S), NEW f \in [S -> Nat],
         NEW i \in S, NEW j \in S, Earlier(f, i, j)
  PROVE  Rank(f, i) < Rank(f, j)
<1>1. EarlierThan(f, i) \subseteq EarlierThan(f, j)
  <2>1. SUFFICES ASSUME NEW k \in EarlierThan(f, i) PROVE k \in EarlierThan(f, j)
    OBVIOUS
  <2>2. k \in S /\ Earlier(f, k, i)
    BY DEF EarlierThan
  <2>3. f[i] \in Nat /\ f[j] \in Nat /\ f[k] \in Nat /\ i \in Nat /\ j \in Nat /\ k \in Nat
    BY <2>2
  <2> QED
    BY <2>2, <2>3 DEF EarlierThan, Earlier
<1>2. i \in EarlierThan(f, j) /\ i \notin EarlierThan(f, i)
  BY DEF EarlierThan, Earlier
<1>3. /\ IsFiniteSet(EarlierThan(f, j))
      /\ Rank(f, i) \in Nat /\ Rank(f, j) \in Nat
  BY RankBound, FS_CardinalityType DEF Rank
<1>4. Cardinality(EarlierThan(f, i)) <= Cardinality(EarlierThan(f, j))
      /\ Cardinality(EarlierThan(f, i)) # Cardinality(EarlierThan(f, j))
  BY <1>1, <1>2, <1>3, FS_Subset
<1> QED
  BY <1>3, <1>4 DEF Rank

\* Different positions have different ranks.
LEMMA RankInjective ==
  ASSUME NEW S \in SUBSET Nat, IsFiniteSet(S), NEW f \in [S -> Nat],
         NEW i \in S, NEW j \in S, Rank(f, i) = Rank(f, j)
  PROVE  i = j
<1>1. i = j \/ Earlier(f, i, j) \/ Earlier(f, j, i)
  BY DEF Earlier
<1>2. Rank(f, i) \in Nat /\ Rank(f, j) \in Nat
  BY RankBound
<1>3. ~Earlier(f, i, j) /\ ~Earlier(f, j, i)
  BY <1>2, RankMonotone
<1> QED
  BY <1>1, <1>3

\* Every rank is taken.
LEMMA RankOnto ==
  ASSUME NEW S \in SUBSET Nat, IsFiniteSet(S), NEW f \in [S -> Nat],
         NEW r \in 0 .. Cardinality(S) - 1
  PROVE  \E i \in S : Rank(f, i) = r
<1> DEFINE T == 0 .. Cardinality(S) - 1
           g == [i \in S |-> Rank(f, i)]
<1>1. Cardinality(S) \in Nat
  BY FS_CardinalityType
<1>2. IsFiniteSet(T) /\ Cardinality(T) = Cardinality(S)
  BY <1>1, FS_Interval
<1>3. g \in [S -> T]
  BY RankBound
<1>4. \A i, j \in S : g[i] = g[j] => i = j
  BY RankInjective
<1>5. g \in Injection(S, T)
  BY <1>3, <1>4 DEF Injection, IsInjective
<1>6. g \in Surjection(S, T)
  BY <1>2, <1>5, FS_Injection
<1> QED
  BY <1>6 DEF Surjection

\* A position comes before the end of the smaller keys exactly if its key is one.
LEMMA RankOfKey ==
  ASSUME NEW S \in SUBSET Nat, IsFiniteSet(S), NEW f \in [S -> Nat], NEW i \in S, NEW d \in Nat
  PROVE  f[i] < d <=> Rank(f, i) < Cardinality({j \in S : f[j] < d})
<1> DEFINE L == {j \in S : f[j] < d}
<1>1. /\ IsFiniteSet(L) /\ Cardinality(L) \in Nat
      /\ IsFiniteSet(EarlierThan(f, i)) /\ Rank(f, i) \in Nat
  BY FS_Subset, FS_CardinalityType, RankBound DEF Rank
<1>2. CASE f[i] < d
  <2>1. EarlierThan(f, i) \subseteq L
    <3>1. SUFFICES ASSUME NEW j \in S, Earlier(f, j, i) PROVE f[j] < d
      BY DEF EarlierThan
    <3>2. f[j] \in Nat /\ f[i] \in Nat
      OBVIOUS
    <3> QED
      BY <1>2, <3>1, <3>2 DEF Earlier
  <2>2. i \in L /\ i \notin EarlierThan(f, i)
    BY <1>2 DEF EarlierThan, Earlier
  <2>3. Cardinality(EarlierThan(f, i)) <= Cardinality(L) /\ Cardinality(EarlierThan(f, i)) # Cardinality(L)
    BY <1>1, <2>1, <2>2, FS_Subset
  <2> QED
    BY <1>1, <1>2, <2>3 DEF Rank
<1>3. CASE ~(f[i] < d)
  <2>1. L \subseteq EarlierThan(f, i)
    <3>1. SUFFICES ASSUME NEW j \in S, f[j] < d PROVE f[j] < f[i]
      BY DEF EarlierThan, Earlier
    <3>2. f[j] \in Nat /\ f[i] \in Nat
      OBVIOUS
    <3> QED
      BY <1>3, <3>1, <3>2
  <2>2. Cardinality(L) <= Cardinality(EarlierThan(f, i))
    BY <1>1, <2>1, FS_Subset
  <2> QED
    BY <1>1, <1>3, <2>2 DEF Rank
<1> QED
  BY <1>2, <1>3

-----------------------------------------------------------------------------
(* The bytes of a depth.                                                    *)

\* A caller's forest, and what is assumed of the constants.
InputsOK ==
  /\ ConstantsAssumed
  /\ size \in Sizes /\ depths \in [Nodes -> Depths] /\ idOrder \in Permutations

LEMMA Powers ==
  ASSUME Radix \in Nat \ {0, 1}
  PROVE  /\ \A k \in 0 .. 4 : RadixPower[k] \in Nat \ {0}
         /\ RadixPower[0] = 1
         /\ \A k \in 0 .. 3 : RadixPower[k + 1] = Radix * RadixPower[k]
<1>1. /\ RadixPower[0] = 1
      /\ RadixPower[1] = Radix
      /\ RadixPower[2] = Radix * Radix
      /\ RadixPower[3] = Radix * Radix * Radix
      /\ RadixPower[4] = Radix * Radix * Radix * Radix
  BY DEF RadixPower
<1>2. RadixPower[1] = Radix * RadixPower[0]
  BY <1>1
<1>3. /\ RadixPower[2] = Radix * RadixPower[1]
      /\ RadixPower[1] \in Nat \ {0}
  BY <1>1
<1>4. /\ RadixPower[3] = Radix * RadixPower[2]
      /\ RadixPower[2] \in Nat \ {0}
  BY <1>1
<1>5. RadixPower[3] \in Nat \ {0}
  <2>1. RadixPower[3] \in Nat
    BY <1>4
  <2>2. RadixPower[3] # 0
    BY <1>4
  <2> QED
    BY <2>1, <2>2
<1>6. RadixPower[4] = Radix * RadixPower[3]
  BY <1>1
<1>7. RadixPower[4] \in Nat \ {0}
  BY <1>5, <1>6
<1>8. \A k \in 0 .. 4 : k = 0 \/ k = 1 \/ k = 2 \/ k = 3 \/ k = 4
  OBVIOUS
<1> QED
  BY <1>1, <1>2, <1>3, <1>4, <1>5, <1>6, <1>7, <1>8

\* The largest depth fits in the bytes that are looked at.
LEMMA PrefixBytesSuffice ==
  ASSUME Radix \in Nat \ {0, 1}, NEW m \in 0 .. MaxDepthForPrefix(4)
  PROVE  /\ PrefixBytesForMax(m) \in 1 .. 4
         /\ m < RadixPower[PrefixBytesForMax(m)]
<1> DEFINE Fits(bytes) == /\ m <= MaxDepthForPrefix(bytes) \/ bytes = 4
                          /\ \A fewer \in 1 .. bytes - 1 : m > MaxDepthForPrefix(fewer)
<1>1. \A k \in 1 .. 4 : MaxDepthForPrefix(k) \in Nat /\ MaxDepthForPrefix(k) = RadixPower[k] - 1
  BY Powers DEF MaxDepthForPrefix
<1>2. \E bytes \in 1 .. 4 : Fits(bytes)
  <2>1. CASE m <= MaxDepthForPrefix(1)
    <3>1. Fits(1)
      BY <2>1
    <3> QED
      BY <3>1
  <2>2. CASE m > MaxDepthForPrefix(1) /\ m <= MaxDepthForPrefix(2)
    <3>1. Fits(2)
      BY <2>2
    <3> QED
      BY <3>1
  <2>3. CASE m > MaxDepthForPrefix(1) /\ m > MaxDepthForPrefix(2) /\ m <= MaxDepthForPrefix(3)
    <3>1. \A fewer \in 1 .. 2 : fewer = 1 \/ fewer = 2
      OBVIOUS
    <3>2. Fits(3)
      BY <2>3, <3>1
    <3> QED
      BY <3>2
  <2>4. CASE m > MaxDepthForPrefix(1) /\ m > MaxDepthForPrefix(2) /\ m > MaxDepthForPrefix(3)
    <3>1. \A fewer \in 1 .. 3 : fewer = 1 \/ fewer = 2 \/ fewer = 3
      OBVIOUS
    <3>2. Fits(4)
      BY <2>4, <3>1
    <3> QED
      BY <3>2
  <2> QED
    BY <1>1, <2>1, <2>2, <2>3, <2>4
<1>3. PrefixBytesForMax(m) \in 1 .. 4 /\ Fits(PrefixBytesForMax(m))
  <2>1. PrefixBytesForMax(m) = CHOOSE bytes \in 1 .. 4 : Fits(bytes)
    BY DEF PrefixBytesForMax
  <2> QED
    BY <1>2, <2>1
<1>4. PICK b \in 1 .. 4 : b = PrefixBytesForMax(m) /\ Fits(b)
  BY <1>3
<1>5. MaxDepthForPrefix(b) = RadixPower[b] - 1 /\ RadixPower[b] \in Nat
  BY <1>1, Powers
<1>6. m <= MaxDepthForPrefix(b)
  BY <1>4
<1> HIDE DEF Fits
<1> QED
  BY <1>4, <1>5, <1>6

\* Every non-empty set of natural numbers has a least element.
LEMMA LeastNatural ==
  ASSUME NEW S \in SUBSET Nat, S # {}
  PROVE  \E m \in S : \A x \in S : m <= x
<1>1. PICK m \in S : \A x \in S : ~(<<x, m>> \in OpToRel(<, Nat))
  BY NatLessThanWellFounded, WFMin
<1>2. \A x \in S : ~(x < m)
  BY <1>1 DEF OpToRel
<1> QED
  BY <1>2

\* The depths of a forest with nodes have a largest one.
LEMMA ObservedMaxIsLargest ==
  ASSUME InputsOK, size > 0
  PROVE  /\ \A n \in Nodes : depths[n] \in 0 .. MaxDepthForPrefix(4) /\ depths[n] \in Nat
         /\ \A n \in Nodes : depths[n] <= ObservedMax
         /\ \E n \in Nodes : depths[n] = ObservedMax
         /\ ObservedMax \in 0 .. MaxDepthForPrefix(4) /\ ObservedMax \in Nat
<1> DEFINE Upper == {b \in Nat : \A n \in Nodes : depths[n] <= b}
           Values == {depths[n] : n \in Nodes}
<1>1. size \in Nat /\ 0 \in Nodes
  BY DEF InputsOK, ConstantsAssumed, Nodes, Positions
<1>2. \A n \in Nodes : depths[n] \in 0 .. MaxDepthForPrefix(4)
  BY DEF InputsOK, ConstantsAssumed
<1>3. MaxDepthForPrefix(4) \in Nat
  BY Powers DEF InputsOK, ConstantsAssumed, MaxDepthForPrefix
<1>4. MaxDepthForPrefix(4) \in Upper
  BY <1>2, <1>3
<1>5. PICK m \in Upper : \A b \in Upper : m <= b
  BY <1>4, LeastNatural
<1>6. \E n \in Nodes : depths[n] = m
  <2>1. SUFFICES ASSUME \A n \in Nodes : depths[n] # m PROVE FALSE
    OBVIOUS
  <2>2. \A n \in Nodes : depths[n] <= m /\ depths[n] \in Nat
    BY <1>2, <1>3
  <2>3. m # 0
    BY <1>1, <2>1, <2>2
  <2>4. m - 1 \in Nat /\ \A n \in Nodes : depths[n] <= m - 1
    BY <2>1, <2>2, <2>3
  <2>5. m - 1 \in Upper
    BY <2>4
  <2> QED
    BY <1>5, <2>5
<1>7. m \in Values /\ \A n \in Nodes : depths[n] <= m
  BY <1>6
<1>8. ObservedMax = CHOOSE d \in Values : \A n \in Nodes : depths[n] <= d
  BY <1>1 DEF ObservedMax
<1>9. ObservedMax \in Values /\ \A n \in Nodes : depths[n] <= ObservedMax
  BY <1>7, <1>8
<1> QED
  BY <1>2, <1>3, <1>9

\* A depth without the bytes that come after its first g.
Leading(x, g) == x \div RadixPower[PrefixBytes - g]

\* The bytes of a depth, first to last, spell the depth.
LEMMA BytesSpellDepth ==
  ASSUME InputsOK, size > 0
  PROVE  /\ PrefixBytes \in 1 .. 4
         /\ \A n \in Nodes : \A g \in 0 .. PrefixBytes : Leading(depths[n], g) \in Nat
         /\ \A n \in Nodes : \A g \in 0 .. PrefixBytes - 1 : DigitOf(n, g) \in 0 .. Radix - 1
         /\ \A n \in Nodes : Leading(depths[n], 0) = 0
         /\ \A n \in Nodes : Leading(depths[n], PrefixBytes) = depths[n]
         /\ \A n \in Nodes : \A g \in 0 .. PrefixBytes - 1 :
              Leading(depths[n], g + 1) = Radix * Leading(depths[n], g) + DigitOf(n, g)
         /\ \A m, n \in Nodes : \A g \in 0 .. PrefixBytes :
              Leading(depths[m], g) < Leading(depths[n], g) => depths[m] < depths[n]
<1>1. Radix \in Nat \ {0, 1}
  BY DEF InputsOK, ConstantsAssumed
<1>2. ObservedMax \in 0 .. MaxDepthForPrefix(4) /\ ObservedMax \in Nat
      /\ \A n \in Nodes : depths[n] \in Nat /\ depths[n] <= ObservedMax
  BY ObservedMaxIsLargest
<1>3. PrefixBytes \in 1 .. 4 /\ ObservedMax < RadixPower[PrefixBytes]
  BY <1>1, <1>2, PrefixBytesSuffice DEF PrefixBytes
<1> DEFINE P == PrefixBytes
<1> HIDE DEF P
<1>4. P \in 1 .. 4 /\ P = PrefixBytes
  BY <1>3 DEF P
<1>5. /\ \A k \in 0 .. 4 : RadixPower[k] \in Nat \ {0}
      /\ RadixPower[0] = 1
      /\ \A k \in 0 .. 3 : RadixPower[k + 1] = Radix * RadixPower[k]
  BY <1>1, Powers
<1>6. ASSUME NEW n \in Nodes, NEW g \in 0 .. P
      PROVE  Leading(depths[n], g) \in Nat
  <2>1. P - g \in 0 .. 4
    BY <1>4
  <2>2. RadixPower[P - g] \in Nat \ {0}
    BY <1>5, <2>1
  <2>3. depths[n] \in Nat
    BY <1>2
  <2>4. depths[n] \div RadixPower[P - g] \in Nat
    BY <2>2, <2>3
  <2> QED
    BY <1>4, <2>4 DEF Leading
<1>7. ASSUME NEW n \in Nodes, NEW g \in 0 .. P - 1
      PROVE  /\ DigitOf(n, g) \in 0 .. Radix - 1
             /\ Leading(depths[n], g + 1) = Radix * Leading(depths[n], g) + DigitOf(n, g)
  <2> DEFINE R == RadixPower[P - 1 - g]
             x == depths[n]
             q == x \div R
  <2>1. P - 1 - g \in 0 .. 3 /\ P - 1 - g + 1 = P - g /\ P - (g + 1) = P - 1 - g
    BY <1>4
  <2>2. R \in Nat \ {0} /\ RadixPower[P - g] = Radix * R
    BY <1>5, <2>1
  <2>3. x \in Nat
    BY <1>2
  <2>4. DigitOf(n, g) = q % Radix
    BY <1>4 DEF DigitOf, MsbFirst
  <2>5. Leading(x, g + 1) = q
    BY <1>4, <2>1 DEF Leading
  <2>6. Leading(x, g) = x \div (Radix * R)
    BY <1>4, <2>2 DEF Leading
  <2> HIDE DEF R, x
  <2>7. x \div (Radix * R) = q \div Radix
    BY <1>1, <2>2, <2>3
  <2>8. q \in Nat
    BY <2>2, <2>3
  <2> HIDE DEF q
  <2>9. q = Radix * (q \div Radix) + (q % Radix) /\ q % Radix \in 0 .. Radix - 1
    BY <1>1, <2>8
  <2> QED
    BY <2>4, <2>5, <2>6, <2>7, <2>9 DEF x
<1>8. ASSUME NEW n \in Nodes
      PROVE  Leading(depths[n], 0) = 0
  <2>1. RadixPower[P] \in Nat \ {0} /\ depths[n] \in Nat /\ depths[n] < RadixPower[P]
    BY <1>2, <1>3, <1>4, <1>5
  <2>2. depths[n] \div RadixPower[P] = 0
    BY <2>1
  <2> QED
    BY <1>4, <2>2 DEF Leading
<1>9. ASSUME NEW n \in Nodes
      PROVE  Leading(depths[n], P) = depths[n]
  <2>1. P - P = 0
    BY <1>4
  <2>2. depths[n] \div RadixPower[P - P] = depths[n]
    BY <1>2, <1>5, <2>1
  <2> QED
    BY <1>4, <2>2 DEF Leading
<1>10. ASSUME NEW m \in Nodes, NEW n \in Nodes, NEW g \in 0 .. P,
              Leading(depths[m], g) < Leading(depths[n], g)
       PROVE  depths[m] < depths[n]
  <2> DEFINE R == RadixPower[P - g]
             x == depths[m]
             y == depths[n]
  <2>1. R \in Nat \ {0} /\ x \in Nat /\ y \in Nat
    BY <1>2, <1>4, <1>5
  <2>2. x \div R < y \div R
    BY <1>4, <1>10 DEF Leading
  <2> HIDE DEF R, x, y
  <2>3. x < y
    BY <2>1, <2>2
  <2> QED
    BY <2>3 DEF x, y
<1> QED
  BY <1>3, <1>4, <1>6, <1>7, <1>8, <1>9, <1>10

-----------------------------------------------------------------------------
(* The inductive invariant.                                                 *)

\* What the result has to be: by depth, and for one depth as the ids have it.
Before(m, n) == depths[m] < depths[n] \/ (depths[m] = depths[n] /\ CameBefore(m, n))

IsStable == \A i, j \in Positions : i < j => Before(order[i], order[j])

\* The ranges told so far: nodes of one depth each, all of that depth, in the
\* order of the ids, from front to back without a gap.
ToldEnd == IF ranges = <<>> THEN 0 ELSE ranges[Len(ranges)].end

ToldInv ==
  /\ \A k \in 1 .. Len(ranges) : ranges[k].begin < ranges[k].end
  /\ \A k \in 1 .. Len(ranges) : ranges[k].begin = IF k = 1 THEN 0 ELSE ranges[k - 1].end
  /\ \A k, l \in 1 .. Len(ranges) : k < l => ranges[k].end <= ranges[l].begin
  /\ \A k \in 1 .. Len(ranges) : k > 1 => ranges[k - 1].depth < ranges[k].depth
  /\ \A k \in 1 .. Len(ranges) :
       {order[i] : i \in PositionsOf(ranges[k])} = {n \in Nodes : depths[n] = ranges[k].depth}

\* The dense grouping.  Positions of depth d among the first k of the ids'
\* order, and positions of smaller depths.
OfDepth(d, k) == {i \in Positions : i < k /\ depths[idOrder[i]] = d}
OfLess(d) == {i \in Positions : depths[idOrder[i]] < d}

\* The depth at each position of the ids' order: the keys of the dense grouping.
Keys == [i \in Positions |-> depths[idOrder[i]]]

DenseInv ==
  /\ pc \in {"count", "prefix", "scatter", "tell"} =>
       size > 1 /\ UsesDense /\ depthStarts \in [0 .. ObservedMax + 1 -> 0 .. size]
  /\ pc \in {"count", "prefix", "scatter"} => order = idOrder /\ ranges = <<>>
  /\ pc = "count" =>
       /\ offset \in 0 .. size /\ depthStarts[0] = 0
       /\ \A d \in 0 .. ObservedMax : depthStarts[d + 1] = Cardinality(OfDepth(d, offset))
  /\ pc = "prefix" =>
       /\ offset \in 1 .. ObservedMax + 2
       /\ \A d \in 0 .. ObservedMax + 1 :
            depthStarts[d] = IF d < offset THEN Cardinality(OfLess(d))
                                           ELSE Cardinality(OfDepth(d - 1, size))
  /\ pc = "scatter" =>
       /\ offset \in 0 .. size
       /\ \A d \in 0 .. ObservedMax + 1 : depthStarts[d] = Cardinality(OfLess(d))
       /\ depthOffsets \in [0 .. ObservedMax + 1 -> 0 .. size]
       /\ \A d \in 0 .. ObservedMax :
            depthOffsets[d] = Cardinality(OfLess(d)) + Cardinality(OfDepth(d, offset))
       /\ \A i \in 0 .. offset - 1 : scratch[Rank(Keys, i)] = order[i]
  /\ pc = "tell" =>
       /\ IsStable
       /\ offset \in 0 .. ObservedMax + 1
       /\ \A d \in 0 .. ObservedMax + 1 : \A i \in Positions :
            depths[order[i]] < d <=> i < depthStarts[d]
       /\ ToldEnd = depthStarts[offset]
       /\ \A k \in 1 .. Len(ranges) : ranges[k].depth < offset

\* The partition by bytes.  The stack holds the rest of the order, the first
\* range on top; nodes of one range agree in the bytes looked at and are still
\* in the order of the ids.
SameRange(i, j) == \E k \in 1 .. Len(stack) : {i, j} \subseteq PositionsOf(stack[k])
SameTold(i, j) == \E k \in 1 .. Len(ranges) : {i, j} \subseteq PositionsOf(ranges[k])

StackInv ==
  /\ size > 1
  /\ \A k \in 1 .. Len(stack) : stack[k].begin < stack[k].end
  /\ \A k, l \in 1 .. Len(stack) : k < l => stack[l].end <= stack[k].begin
  /\ \A k \in 1 .. Len(stack) - 1 : stack[k].begin = stack[k + 1].end
  /\ IF stack = <<>> THEN ToldEnd = size
                     ELSE stack[1].end = size /\ Top.begin = ToldEnd

AgreeInv ==
  \A k \in 1 .. Len(stack) : \A i, j \in PositionsOf(stack[k]) :
    /\ Leading(depths[order[i]], stack[k].digit) = Leading(depths[order[j]], stack[k].digit)
    /\ \A digit \in 0 .. stack[k].digit - 1 : DigitOf(order[i], digit) = DigitOf(order[j], digit)
    /\ i < j => CameBefore(order[i], order[j])

SeparateInv ==
  \A i, j \in Positions : i < j =>
    \/ SameRange(i, j)
    \/ SameTold(i, j) /\ CameBefore(order[i], order[j])
    \/ depths[order[i]] < depths[order[j]]

GroupInv ==
  /\ InputsOK /\ TypeOK /\ NodesAreKept
  /\ pc = "choose" => order = idOrder /\ ranges = <<>>
  /\ ToldInv
  /\ DenseInv
  /\ pc = "partition" => StackInv /\ AgreeInv /\ SeparateInv
  /\ pc = "done" => IsStable /\ (size > 1 => ToldEnd = size)

-----------------------------------------------------------------------------
(* Counting positions by depth.                                             *)

LEMMA Inputs ==
  ASSUME InputsOK
  PROVE  /\ size \in Nat
         /\ Positions = 0 .. size - 1 /\ Nodes = Positions
         /\ IsFiniteSet(Positions) /\ Cardinality(Positions) = size
         /\ Depths \subseteq Nat /\ depths \in [Nodes -> Nat]
         /\ idOrder \in [Positions -> Nodes]
         /\ Keys \in [Positions -> Nat]
         /\ Positions \in SUBSET Nat
         /\ Radix \in Nat \ {0, 1}
<1>1. size \in Nat /\ Positions = 0 .. size - 1 /\ Nodes = Positions /\ Radix \in Nat \ {0, 1}
  BY DEF InputsOK, ConstantsAssumed, Positions, Nodes
<1>2. IsFiniteSet(Positions) /\ Cardinality(Positions) = size
  BY <1>1, FS_Interval
<1>3. Depths \subseteq Nat /\ depths \in [Nodes -> Nat]
  <2>1. MaxDepthForPrefix(4) \in Int
    BY <1>1, Powers DEF MaxDepthForPrefix
  <2>2. Depths \subseteq Nat
    BY <2>1 DEF InputsOK, ConstantsAssumed
  <2> QED
    BY <2>2 DEF InputsOK
<1>4. idOrder \in [Positions -> Nodes]
  BY DEF InputsOK, Permutations
<1> QED
  BY <1>1, <1>2, <1>3, <1>4 DEF Keys

LEMMA CountBounds ==
  ASSUME InputsOK
  PROVE  /\ \A d, k : IsFiniteSet(OfDepth(d, k)) /\ Cardinality(OfDepth(d, k)) \in 0 .. size
         /\ \A d : IsFiniteSet(OfLess(d)) /\ Cardinality(OfLess(d)) \in 0 .. size
<1>1. ASSUME NEW S \in SUBSET Positions
      PROVE  IsFiniteSet(S) /\ Cardinality(S) \in 0 .. size
  <2>1. IsFiniteSet(S) /\ Cardinality(S) <= size
    BY Inputs, FS_Subset
  <2> QED
    BY <2>1, Inputs, FS_CardinalityType
<1> QED
  BY <1>1 DEF OfDepth, OfLess

LEMMA DisjointUnion ==
  ASSUME NEW S, IsFiniteSet(S), NEW T, IsFiniteSet(T), S \cap T = {}
  PROVE  Cardinality(S \cup T) = Cardinality(S) + Cardinality(T)
<1>1. Cardinality(S \cap T) = 0
  BY FS_EmptySet
<1>2. Cardinality(S) \in Nat /\ Cardinality(T) \in Nat
  BY FS_CardinalityType
<1>3. Cardinality(S \cup T) = Cardinality(S) + Cardinality(T) - Cardinality(S \cap T)
  BY FS_Union
<1> QED
  BY <1>1, <1>2, <1>3

\* One position more.
LEMMA CountOneMore ==
  ASSUME InputsOK, NEW k \in Positions, NEW d
  PROVE  Cardinality(OfDepth(d, k + 1)) =
           IF depths[idOrder[k]] = d THEN Cardinality(OfDepth(d, k)) + 1 ELSE Cardinality(OfDepth(d, k))
<1>1. CASE depths[idOrder[k]] = d
  <2>1. OfDepth(d, k + 1) = OfDepth(d, k) \cup {k} /\ k \notin OfDepth(d, k)
    BY <1>1, Inputs DEF OfDepth
  <2> QED
    BY <1>1, <2>1, CountBounds, FS_AddElement
<1>2. CASE depths[idOrder[k]] # d
  <2>1. OfDepth(d, k + 1) = OfDepth(d, k)
    BY <1>2, Inputs DEF OfDepth
  <2> QED
    BY <1>2, <2>1
<1> QED
  BY <1>1, <1>2

\* One depth more.
LEMMA CountOneDepthMore ==
  ASSUME InputsOK, NEW d \in Nat
  PROVE  Cardinality(OfLess(d + 1)) = Cardinality(OfLess(d)) + Cardinality(OfDepth(d, size))
<1>1. OfLess(d + 1) = OfLess(d) \cup OfDepth(d, size)
  <2>1. \A i \in Positions : depths[idOrder[i]] \in Nat /\ i < size
    BY Inputs
  <2> QED
    BY <2>1 DEF OfLess, OfDepth
<1>2. OfLess(d) \cap OfDepth(d, size) = {}
  <2>1. \A i \in Positions : ~(depths[idOrder[i]] < d /\ depths[idOrder[i]] = d)
    BY Inputs
  <2> QED
    BY <2>1 DEF OfLess, OfDepth
<1> QED
  BY <1>1, <1>2, CountBounds, DisjointUnion

\* No depth, and every depth.
LEMMA CountEnds ==
  ASSUME InputsOK, size > 0
  PROVE  /\ \A d : Cardinality(OfDepth(d, 0)) = 0
         /\ Cardinality(OfLess(0)) = 0
         /\ Cardinality(OfLess(ObservedMax + 1)) = size
<1>1. \A d : OfDepth(d, 0) = {}
  BY Inputs DEF OfDepth
<1>2. OfLess(0) = {}
  BY Inputs DEF OfLess
<1>3. OfLess(ObservedMax + 1) = Positions
  BY Inputs, ObservedMaxIsLargest DEF OfLess
<1> QED
  BY <1>1, <1>2, <1>3, Inputs, FS_EmptySet

\* The rank of a position is the number of smaller depths before it and of
\* positions of its depth before it.
LEMMA RankCounts ==
  ASSUME InputsOK, NEW i \in Positions
  PROVE  Rank(Keys, i) = Cardinality(OfLess(depths[idOrder[i]])) + Cardinality(OfDepth(depths[idOrder[i]], i))
<1> DEFINE d == depths[idOrder[i]]
<1>1. EarlierThan(Keys, i) = OfLess(d) \cup OfDepth(d, i)
  BY DEF EarlierThan, Earlier, Keys, OfLess, OfDepth
<1>2. OfLess(d) \cap OfDepth(d, i) = {}
  <2>1. \A j \in Positions : depths[idOrder[j]] \in Nat
    BY Inputs
  <2>2. d \in Nat
    BY Inputs
  <2> QED
    BY <2>1, <2>2 DEF OfLess, OfDepth
<1>3. IsFiniteSet(OfLess(d)) /\ IsFiniteSet(OfDepth(d, i))
  BY CountBounds
<1> QED
  BY <1>1, <1>2, <1>3, DisjointUnion DEF Rank

-----------------------------------------------------------------------------
(* The steps of the dense grouping.                                         *)

\* The forest is never written, and neither is what depends on it alone.
LEMMA InputsStay ==
  ASSUME InputsOK, UNCHANGED inputs
  PROVE  /\ InputsOK'
         /\ size' = size /\ depths' = depths /\ idOrder' = idOrder
         /\ Positions' = Positions /\ Nodes' = Nodes /\ Permutations' = Permutations
         /\ ObservedMax' = ObservedMax /\ PrefixBytes' = PrefixBytes /\ (UsesDense' <=> UsesDense)
         /\ StackRanges' = StackRanges
         /\ Keys' = Keys
         /\ \A d, k : OfDepth(d, k)' = OfDepth(d, k)
         /\ \A d : OfLess(d)' = OfLess(d)
         /\ \A m, n : CameBefore(m, n)' <=> CameBefore(m, n)
         /\ \A m, n : Before(m, n)' <=> Before(m, n)
         /\ \A x, g : Leading(x, g)' = Leading(x, g)
         /\ \A n, g : DigitOf(n, g)' = DigitOf(n, g)
<1>1. size' = size /\ depths' = depths /\ idOrder' = idOrder
  BY DEF inputs
<1>2. Positions' = Positions /\ Nodes' = Nodes
  BY <1>1 DEF Positions, Nodes
<1>3. Permutations' = Permutations /\ ObservedMax' = ObservedMax
  BY <1>1, <1>2 DEF Permutations, ObservedMax
<1>4. PrefixBytes' = PrefixBytes /\ (UsesDense' <=> UsesDense)
  BY <1>1, <1>3 DEF PrefixBytes, UsesDense
<1>5. StackRanges' = StackRanges /\ Keys' = Keys
  BY <1>1, <1>2, <1>4 DEF StackRanges, Keys
<1>6. \A d, k : OfDepth(d, k)' = OfDepth(d, k)
  BY <1>1, <1>2 DEF OfDepth
<1>7. \A d : OfLess(d)' = OfLess(d)
  BY <1>1, <1>2 DEF OfLess
<1>8. \A m, n : CameBefore(m, n)' <=> CameBefore(m, n)
  BY <1>1, <1>2 DEF CameBefore
<1>9. \A m, n : Before(m, n)' <=> Before(m, n)
  BY <1>1, <1>8 DEF Before
<1>10. \A x, g : Leading(x, g)' = Leading(x, g)
  BY <1>4 DEF Leading
<1>11. \A n, g : DigitOf(n, g)' = DigitOf(n, g)
  BY <1>1, <1>4 DEF DigitOf, MsbFirst
<1>12. InputsOK'
  BY <1>1, <1>2, <1>3 DEF InputsOK
<1> QED
  BY <1>1, <1>2, <1>3, <1>4, <1>5, <1>6, <1>7, <1>8, <1>9, <1>10, <1>11, <1>12

LEMMA InitGroupInv ==
  ASSUME ConstantsAssumed, Init
  PROVE  GroupInv
<1>1. InputsOK
  BY DEF Init, InputsOK
<1>2. TypeOK
  <2>1. 0 \in 0 .. size + 1 /\ (\A i \in Positions : 0 \in Nodes)
    BY <1>1, Inputs
  <2>2. idOrder \in [Positions -> Nodes]
    BY <1>1, Inputs
  <2>3. scratch \in [Positions -> Nodes]
    BY <2>1 DEF Init
  <2> QED
    BY <2>1, <2>2, <2>3 DEF Init, TypeOK
<1>3. NodesAreKept
  BY DEF Init, NodesAreKept
<1>4. ToldInv
  BY DEF Init, ToldInv
<1> QED
  BY <1>1, <1>2, <1>3, <1>4 DEF Init, GroupInv, DenseInv

\* What is told stays told while the order does.
LEMMA ToldStays ==
  ASSUME GroupInv, UNCHANGED inputs, UNCHANGED <<order, ranges>>
  PROVE  NodesAreKept' /\ ToldInv' /\ ToldEnd' = ToldEnd /\ (IsStable => IsStable')
<1>1. InputsOK /\ NodesAreKept /\ ToldInv
  BY DEF GroupInv
<1>2. order' = order /\ ranges' = ranges
  OBVIOUS
<1>3. NodesAreKept'
  BY <1>1, <1>2, InputsStay DEF NodesAreKept
<1>4. ToldEnd' = ToldEnd
  BY <1>2 DEF ToldEnd
<1>5. ToldInv'
  BY <1>1, <1>2, InputsStay DEF ToldInv, PositionsOf
<1>6. IsStable => IsStable'
  BY <1>1, <1>2, InputsStay DEF IsStable
<1> QED
  BY <1>3, <1>4, <1>5, <1>6

\* A stable order is all that a call with at most one node has to return.
LEMMA ReturnEarlyKeeps ==
  ASSUME GroupInv, ReturnEarly
  PROVE  GroupInv'
<1>1. InputsOK /\ UNCHANGED inputs /\ size \in Nat /\ Positions = 0 .. size - 1
  BY Inputs DEF GroupInv, ReturnEarly
<1>2. IsStable'
  BY <1>1, InputsStay DEF IsStable, ReturnEarly
<1>3. TypeOK'
  BY <1>1, InputsStay DEF GroupInv, ReturnEarly, TypeOK
<1>4. NodesAreKept' /\ ToldInv'
  BY <1>1, ToldStays DEF ReturnEarly
<1>5. ~(size' > 1)
  BY <1>1 DEF ReturnEarly, inputs
<1>6. pc' = "done"
  BY DEF ReturnEarly
<1> QED
  BY <1>1, <1>2, <1>3, <1>4, <1>5, <1>6, InputsStay DEF GroupInv, DenseInv

LEMMA BeginDenseKeeps ==
  ASSUME GroupInv, BeginDense
  PROVE  GroupInv'
<1>1. InputsOK /\ UNCHANGED inputs /\ UNCHANGED <<order, ranges>> /\ size \in Nat
  BY Inputs DEF GroupInv, BeginDense
<1>2. pc' = "count" /\ offset' = 0 /\ order = idOrder /\ ranges = <<>>
  BY DEF BeginDense, GroupInv
<1>3. DenseInv'
  <2>1. ObservedMax \in Nat /\ \A d : Cardinality(OfDepth(d, 0)) = 0
    BY <1>1, ObservedMaxIsLargest, CountEnds DEF BeginDense
  <2>2. depthStarts' \in [0 .. ObservedMax + 1 -> 0 .. size]
    BY <1>1 DEF BeginDense
  <2>3. depthStarts'[0] = 0 /\ \A d \in 0 .. ObservedMax : depthStarts'[d + 1] = 0
    BY <2>1 DEF BeginDense
  <2>4. size > 1 /\ UsesDense
    BY DEF BeginDense
  <2>5. 0 \in 0 .. size
    BY <1>1
  <2> QED
    BY <1>1, <1>2, <2>1, <2>2, <2>3, <2>4, <2>5, InputsStay DEF DenseInv
<1>4. TypeOK'
  <2>1. 0 \in 0 .. size + 1
    BY <1>1
  <2> QED
    BY <1>1, <1>2, <1>3, <2>1, InputsStay DEF GroupInv, BeginDense, TypeOK, DenseInv
<1> QED
  BY <1>1, <1>2, <1>3, <1>4, InputsStay, ToldStays DEF GroupInv

\* A node is counted where the next depth starts.
LEMMA CountNodeKeeps ==
  ASSUME GroupInv, CountNode
  PROVE  GroupInv'
<1>1. InputsOK /\ UNCHANGED inputs /\ UNCHANGED <<order, ranges>> /\ size \in Nat /\ size > 1 /\ UsesDense
  BY Inputs DEF GroupInv, CountNode, DenseInv
<1>2. pc = "count" /\ pc' = "count" /\ offset \in 0 .. size /\ offset < size /\ offset' = offset + 1
  BY DEF CountNode, GroupInv, DenseInv
<1> DEFINE d0 == depths[idOrder[offset]]
<1>3. /\ offset \in Positions /\ d0 \in Nat /\ d0 <= ObservedMax /\ ObservedMax \in Nat
  <2>1. offset \in Positions
    BY <1>1, <1>2, Inputs
  <2>2. idOrder[offset] \in Nodes
    BY <1>1, <2>1, Inputs
  <2> QED
    BY <1>1, <2>1, <2>2, ObservedMaxIsLargest
<1>4. /\ depthStarts \in [0 .. ObservedMax + 1 -> 0 .. size]
      /\ order = idOrder /\ ranges = <<>> /\ depthStarts[0] = 0
      /\ \A d \in 0 .. ObservedMax : depthStarts[d + 1] = Cardinality(OfDepth(d, offset))
  BY <1>2 DEF GroupInv, DenseInv
<1>5. depthStarts' = [depthStarts EXCEPT ![d0 + 1] = @ + 1]
  BY <1>4 DEF CountNode
<1>6. \A d \in 0 .. ObservedMax : depthStarts'[d + 1] = Cardinality(OfDepth(d, offset + 1))
  <2>1. TAKE d \in 0 .. ObservedMax
  <2>2. depthStarts'[d + 1] = IF d = d0 THEN depthStarts[d + 1] + 1 ELSE depthStarts[d + 1]
    BY <1>3, <1>4, <1>5
  <2>3. Cardinality(OfDepth(d, offset + 1)) =
          IF d0 = d THEN Cardinality(OfDepth(d, offset)) + 1 ELSE Cardinality(OfDepth(d, offset))
    BY <1>1, <1>3, CountOneMore
  <2> QED
    BY <1>4, <2>2, <2>3
<1>7. depthStarts' \in [0 .. ObservedMax + 1 -> 0 .. size]
  <2>1. DOMAIN depthStarts' = 0 .. ObservedMax + 1
    BY <1>4, <1>5
  <2>2. ASSUME NEW d \in 0 .. ObservedMax + 1 PROVE depthStarts'[d] \in 0 .. size
    <3>1. CASE d = 0
      BY <1>1, <1>3, <1>4, <1>5, <3>1
    <3>2. CASE d # 0
      <4>1. PICK e \in 0 .. ObservedMax : e + 1 = d
        BY <1>3, <3>2
      <4> QED
        BY <1>1, <1>6, <4>1, CountBounds
    <3> QED
      BY <3>1, <3>2
  <2> QED
    BY <1>4, <1>5, <2>1, <2>2
<1>8. depthStarts'[0] = 0
  BY <1>3, <1>4, <1>5
<1>9. DenseInv'
  <2>1. offset' \in 0 .. size
    BY <1>1, <1>2
  <2> QED
    BY <1>1, <1>2, <1>4, <1>6, <1>7, <1>8, <2>1, InputsStay DEF DenseInv
<1>10. TypeOK'
  <2>1. offset' \in 0 .. size + 1
    BY <1>1, <1>2
  <2> QED
    BY <1>1, <1>2, <1>7, <2>1, InputsStay DEF GroupInv, CountNode, TypeOK
<1> QED
  BY <1>1, <1>2, <1>9, <1>10, InputsStay, ToldStays DEF GroupInv

LEMMA BeginPrefixKeeps ==
  ASSUME GroupInv, BeginPrefix
  PROVE  GroupInv'
<1>1. InputsOK /\ UNCHANGED inputs /\ UNCHANGED <<order, ranges>> /\ size \in Nat /\ size > 1 /\ UsesDense
  BY Inputs DEF GroupInv, BeginPrefix, DenseInv
<1>2. pc = "count" /\ pc' = "prefix" /\ offset = size /\ offset' = 1 /\ depthStarts' = depthStarts
  BY <1>1 DEF BeginPrefix, GroupInv, DenseInv
<1>3. /\ depthStarts \in [0 .. ObservedMax + 1 -> 0 .. size]
      /\ order = idOrder /\ ranges = <<>> /\ depthStarts[0] = 0
      /\ \A d \in 0 .. ObservedMax : depthStarts[d + 1] = Cardinality(OfDepth(d, size))
  BY <1>2 DEF GroupInv, DenseInv
<1>4. ObservedMax \in Nat /\ Cardinality(OfLess(0)) = 0
  BY <1>1, ObservedMaxIsLargest, CountEnds
<1>5. \A d \in 0 .. ObservedMax + 1 :
        depthStarts[d] = IF d < 1 THEN Cardinality(OfLess(d)) ELSE Cardinality(OfDepth(d - 1, size))
  <2>1. TAKE d \in 0 .. ObservedMax + 1
  <2>2. CASE d = 0
    BY <1>3, <1>4, <2>2
  <2>3. CASE d # 0
    <3>1. d - 1 \in 0 .. ObservedMax /\ d - 1 + 1 = d /\ ~(d < 1)
      BY <1>4, <2>3
    <3>2. depthStarts[d - 1 + 1] = Cardinality(OfDepth(d - 1, size))
      BY <1>3, <3>1
    <3> QED
      BY <3>1, <3>2
  <2> QED
    BY <2>2, <2>3
<1>6. DenseInv'
  <2>1. 1 \in 1 .. ObservedMax + 2
    BY <1>4
  <2> QED
    BY <1>1, <1>2, <1>3, <1>5, <2>1, InputsStay DEF DenseInv
<1>7. TypeOK'
  <2>1. 1 \in 0 .. size + 1
    BY <1>1
  <2> QED
    BY <1>1, <1>2, <1>3, <2>1, InputsStay DEF GroupInv, BeginPrefix, TypeOK
<1> QED
  BY <1>1, <1>2, <1>6, <1>7, InputsStay, ToldStays DEF GroupInv

\* The sum so far is the number of nodes of smaller depths.
LEMMA PrefixDepthKeeps ==
  ASSUME GroupInv, PrefixDepth
  PROVE  GroupInv'
<1>1. InputsOK /\ UNCHANGED inputs /\ UNCHANGED <<order, ranges>> /\ size \in Nat /\ size > 1 /\ UsesDense
  BY Inputs DEF GroupInv, PrefixDepth, DenseInv
<1>2. ObservedMax \in Nat /\ ObservedMax < size
  BY <1>1, ObservedMaxIsLargest DEF UsesDense
<1>3. /\ pc = "prefix" /\ pc' = "prefix" /\ offset \in 1 .. ObservedMax + 1 /\ offset' = offset + 1
      /\ depthStarts \in [0 .. ObservedMax + 1 -> 0 .. size] /\ order = idOrder /\ ranges = <<>>
      /\ \A d \in 0 .. ObservedMax + 1 :
           depthStarts[d] = IF d < offset THEN Cardinality(OfLess(d)) ELSE Cardinality(OfDepth(d - 1, size))
      /\ depthStarts' = [depthStarts EXCEPT ![offset] = @ + depthStarts[offset - 1]]
  BY <1>2 DEF PrefixDepth, StartBefore, GroupInv, DenseInv
<1>4. depthStarts'[offset] = Cardinality(OfLess(offset))
  <2>1. offset - 1 \in 0 .. ObservedMax + 1 /\ offset \in 0 .. ObservedMax + 1 /\ offset - 1 \in Nat
        /\ offset - 1 + 1 = offset /\ offset - 1 < offset /\ ~(offset < offset)
    BY <1>2, <1>3
  <2>2. depthStarts'[offset] = depthStarts[offset] + depthStarts[offset - 1]
    BY <1>3, <2>1
  <2>3. depthStarts[offset] = Cardinality(OfDepth(offset - 1, size))
    BY <1>3, <2>1
  <2>4. depthStarts[offset - 1] = Cardinality(OfLess(offset - 1))
    BY <1>3, <2>1
  <2>5. Cardinality(OfLess(offset - 1 + 1)) =
          Cardinality(OfLess(offset - 1)) + Cardinality(OfDepth(offset - 1, size))
    BY <1>1, <2>1, CountOneDepthMore
  <2>6. Cardinality(OfLess(offset - 1)) \in Nat /\ Cardinality(OfDepth(offset - 1, size)) \in Nat
    BY <1>1, CountBounds
  <2> QED
    BY <2>1, <2>2, <2>3, <2>4, <2>5, <2>6
<1>5. \A d \in 0 .. ObservedMax + 1 : d # offset => depthStarts'[d] = depthStarts[d]
  BY <1>3
<1>6. \A d \in 0 .. ObservedMax + 1 :
        depthStarts'[d] = IF d < offset + 1 THEN Cardinality(OfLess(d)) ELSE Cardinality(OfDepth(d - 1, size))
  <2>1. TAKE d \in 0 .. ObservedMax + 1
  <2>2. d = offset \/ (d < offset /\ d < offset + 1) \/ (~(d < offset) /\ ~(d < offset + 1))
    BY <1>2, <1>3
  <2> QED
    BY <1>3, <1>4, <1>5, <2>2
<1>7. depthStarts' \in [0 .. ObservedMax + 1 -> 0 .. size]
  <2>1. \A d \in 0 .. ObservedMax + 1 : depthStarts'[d] \in 0 .. size
    BY <1>1, <1>6, CountBounds
  <2> QED
    BY <1>3, <2>1
<1>8. DenseInv'
  <2>1. offset' \in 1 .. ObservedMax + 2
    BY <1>2, <1>3
  <2> QED
    BY <1>1, <1>3, <1>6, <1>7, <2>1, InputsStay DEF DenseInv
<1>9. TypeOK'
  <2>1. offset' \in 0 .. size + 1
    BY <1>1, <1>2, <1>3
  <2> QED
    BY <1>1, <1>3, <1>7, <2>1, InputsStay DEF GroupInv, PrefixDepth, TypeOK
<1> QED
  BY <1>1, <1>3, <1>8, <1>9, InputsStay, ToldStays DEF GroupInv

LEMMA BeginScatterKeeps ==
  ASSUME GroupInv, BeginScatter
  PROVE  GroupInv'
<1>1. InputsOK /\ UNCHANGED inputs /\ UNCHANGED <<order, ranges>> /\ size \in Nat /\ size > 1 /\ UsesDense
  BY Inputs DEF GroupInv, BeginScatter, DenseInv
<1>2. ObservedMax \in Nat
  BY <1>1, ObservedMaxIsLargest
<1>3. /\ pc = "prefix" /\ pc' = "scatter" /\ offset = ObservedMax + 2 /\ offset' = 0
      /\ depthStarts \in [0 .. ObservedMax + 1 -> 0 .. size] /\ order = idOrder /\ ranges = <<>>
      /\ depthStarts' = depthStarts /\ depthOffsets' = depthStarts /\ scratch' = scratch
      /\ \A d \in 0 .. ObservedMax + 1 : depthStarts[d] = Cardinality(OfLess(d))
  BY <1>2 DEF BeginScatter, GroupInv, DenseInv
<1>4. \A d \in 0 .. ObservedMax :
        depthStarts[d] = Cardinality(OfLess(d)) + Cardinality(OfDepth(d, 0))
  BY <1>1, <1>2, <1>3, CountEnds, CountBounds
<1>5. DenseInv'
  <2>1. 0 \in 0 .. size /\ 0 .. (0 - 1) = {}
    BY <1>1
  <2> QED
    BY <1>1, <1>3, <1>4, <2>1, InputsStay DEF DenseInv
<1>6. TypeOK'
  <2>1. 0 \in 0 .. size + 1
    BY <1>1
  <2> QED
    BY <1>1, <1>3, <2>1, InputsStay DEF GroupInv, BeginScatter, TypeOK
<1> QED
  BY <1>1, <1>3, <1>5, <1>6, InputsStay, ToldStays DEF GroupInv

\* What the ranks are used for: the dense grouping puts a position at its rank.
LEMMA KeyRanks ==
  ASSUME InputsOK
  PROVE  /\ \A i \in Positions : Rank(Keys, i) \in 0 .. size - 1
         /\ \A i, j \in Positions : Rank(Keys, i) = Rank(Keys, j) => i = j
         /\ \A i, j \in Positions : Earlier(Keys, i, j) => Rank(Keys, i) < Rank(Keys, j)
         /\ \A p \in Positions : \E i \in Positions : Rank(Keys, i) = p
         /\ \A d \in Nat : \A i \in Positions :
              depths[idOrder[i]] < d <=> Rank(Keys, i) < Cardinality(OfLess(d))
<1>1. /\ Positions \in SUBSET Nat /\ IsFiniteSet(Positions) /\ Keys \in [Positions -> Nat]
      /\ Cardinality(Positions) = size /\ Positions = 0 .. size - 1
  BY Inputs
<1> DEFINE S == Positions
           f == Keys
<1> HIDE DEF S, f
<1>2. /\ S \in SUBSET Nat /\ IsFiniteSet(S) /\ f \in [S -> Nat]
      /\ Cardinality(S) = size /\ S = 0 .. size - 1
  BY <1>1 DEF S, f
<1>3. \A i \in S : Rank(f, i) \in 0 .. size - 1
  BY <1>2, RankBound
<1>4. \A i, j \in S : Rank(f, i) = Rank(f, j) => i = j
  BY <1>2, RankInjective
<1>5. \A i, j \in S : Earlier(f, i, j) => Rank(f, i) < Rank(f, j)
  BY <1>2, RankMonotone
<1>6. \A p \in S : \E i \in S : Rank(f, i) = p
  <2> SUFFICES ASSUME NEW p \in S
               PROVE  \E i \in S : Rank(f, i) = p
    OBVIOUS
  <2>1. p \in 0 .. Cardinality(S) - 1
    BY <1>2
  <2> QED
    <3> HIDE DEF Rank
    <3>1. S \in SUBSET Nat /\ IsFiniteSet(S) /\ f \in [S -> Nat]
      BY <1>2
    <3> QED
      BY <3>1, <2>1, RankOnto, Zenon
<1>7. \A d \in Nat : \A i \in S : f[i] < d <=> Rank(f, i) < Cardinality({j \in S : f[j] < d})
  BY <1>2, RankOfKey
<1>8. \A d \in Nat : OfLess(d) = {j \in S : f[j] < d}
  BY DEF S, f, OfLess, Keys
<1>9. \A i \in S : f[i] = depths[idOrder[i]]
  BY DEF S, f, Keys
<1>10. \A d \in Nat : \A i \in S : f[i] < d <=> Rank(f, i) < Cardinality(OfLess(d))
  BY <1>7, <1>8
<1> QED
  BY <1>3, <1>4, <1>5, <1>6, <1>9, <1>10 DEF S, f

\* A position is written once: its rank.
LEMMA ScatterNodeKeeps ==
  ASSUME GroupInv, ScatterNode
  PROVE  GroupInv'
<1>1. InputsOK /\ UNCHANGED inputs /\ UNCHANGED <<order, ranges>> /\ size \in Nat /\ size > 1 /\ UsesDense
  BY Inputs DEF GroupInv, ScatterNode, DenseInv
<1>2. ObservedMax \in Nat
  BY <1>1, ObservedMaxIsLargest
<1> DEFINE d0 == depths[idOrder[offset]]
           target == Rank(Keys, offset)
<1>3. /\ pc = "scatter" /\ pc' = "scatter" /\ offset \in Positions /\ offset \in Nat /\ offset' = offset + 1
      /\ order = idOrder /\ ranges = <<>> /\ depthStarts' = depthStarts
      /\ depthStarts \in [0 .. ObservedMax + 1 -> 0 .. size]
      /\ depthOffsets \in [0 .. ObservedMax + 1 -> 0 .. size]
      /\ \A d \in 0 .. ObservedMax + 1 : depthStarts[d] = Cardinality(OfLess(d))
      /\ \A d \in 0 .. ObservedMax :
           depthOffsets[d] = Cardinality(OfLess(d)) + Cardinality(OfDepth(d, offset))
      /\ \A i \in 0 .. offset - 1 : scratch[Rank(Keys, i)] = order[i]
      /\ scratch \in [Positions -> Nodes]
  <2>1. pc = "scatter" /\ offset < size /\ offset \in 0 .. size
    BY DEF ScatterNode, GroupInv, DenseInv
  <2>2. offset \in Positions /\ offset \in Nat
    BY <1>1, <2>1, Inputs
  <2> QED
    BY <2>1, <2>2 DEF ScatterNode, GroupInv, DenseInv, TypeOK
<1>4. idOrder[offset] \in Nodes /\ d0 \in 0 .. ObservedMax
  <2>1. idOrder[offset] \in Nodes
    BY <1>1, <1>3, Inputs
  <2> QED
    BY <1>1, <1>2, <2>1, ObservedMaxIsLargest
<1>5. depthOffsets[d0] = target
  BY <1>1, <1>3, <1>4, RankCounts
<1>6. target \in Positions /\ target + 1 \in 0 .. size
  <2>1. target \in 0 .. size - 1
    BY <1>1, <1>3, KeyRanks
  <2> QED
    BY <1>1, <2>1, Inputs
<1>7. /\ scratch' = [scratch EXCEPT ![target] = idOrder[offset]]
      /\ depthOffsets' = [depthOffsets EXCEPT ![d0] = target + 1]
  BY <1>3, <1>4, <1>5 DEF ScatterNode, NextPosition
<1>8. \A i \in 0 .. offset + 1 - 1 : scratch'[Rank(Keys, i)] = idOrder[i]
  <2>1. TAKE i \in 0 .. offset + 1 - 1
  <2>2. i \in Positions /\ (i = offset \/ i \in 0 .. offset - 1)
    <3>1. offset \in 0 .. size - 1
      BY <1>1, <1>3, Inputs
    <3>2. i \in 0 .. size - 1 /\ (i = offset \/ i \in 0 .. offset - 1)
      BY <1>1, <3>1
    <3> QED
      BY <1>1, <3>2, Inputs
  <2>3. CASE i = offset
    BY <1>3, <1>6, <1>7, <2>3
  <2>4. CASE i # offset
    <3>1. Rank(Keys, i) # target
      BY <1>1, <1>3, <2>2, <2>4, KeyRanks
    <3>2. Rank(Keys, i) \in Positions
      BY <1>1, <2>2, Inputs, KeyRanks
    <3>3. scratch'[Rank(Keys, i)] = scratch[Rank(Keys, i)]
      BY <1>3, <1>7, <3>1, <3>2
    <3> QED
      BY <1>3, <2>2, <2>4, <3>3
  <2> QED
    BY <2>3, <2>4
<1>9. depthOffsets' \in [0 .. ObservedMax + 1 -> 0 .. size] /\ scratch' \in [Positions -> Nodes]
  BY <1>3, <1>4, <1>6, <1>7
<1>10. \A d \in 0 .. ObservedMax :
         depthOffsets'[d] = Cardinality(OfLess(d)) + Cardinality(OfDepth(d, offset + 1))
  <2>1. TAKE d \in 0 .. ObservedMax
  <2>2. Cardinality(OfDepth(d, offset + 1)) =
          IF d0 = d THEN Cardinality(OfDepth(d, offset)) + 1 ELSE Cardinality(OfDepth(d, offset))
    BY <1>1, <1>3, CountOneMore
  <2>3. Cardinality(OfLess(d)) \in Nat /\ Cardinality(OfDepth(d, offset)) \in Nat
    BY <1>1, CountBounds
  <2>4. depthOffsets'[d] = IF d0 = d THEN depthOffsets[d] + 1 ELSE depthOffsets[d]
    <3>1. d \in 0 .. ObservedMax + 1 /\ d0 \in 0 .. ObservedMax + 1
      BY <1>2, <1>4
    <3> HIDE DEF d0, target
    <3> QED
      BY <1>3, <1>5, <1>7, <3>1
  <2> QED
    BY <1>3, <2>2, <2>3, <2>4
<1>11. DenseInv'
  <2>1. offset' \in 0 .. size
    BY <1>1, <1>3, Inputs
  <2> HIDE DEF d0, target
  <2> QED
    BY <1>1, <1>3, <1>8, <1>9, <1>10, <2>1, InputsStay DEF DenseInv
<1>12. TypeOK'
  <2>1. offset' \in 0 .. size + 1
    BY <1>1, <1>3, Inputs
  <2> QED
    BY <1>1, <1>3, <1>9, <2>1, InputsStay DEF GroupInv, ScatterNode, TypeOK
<1> QED
  BY <1>1, <1>3, <1>11, <1>12, InputsStay, ToldStays DEF GroupInv

\* All nodes are in the order, wherever they are.
LEMMA PermutationOnto ==
  ASSUME InputsOK, NEW p \in Permutations
  PROVE  p \in [Positions -> Nodes] /\ \A n \in Nodes : \E i \in Positions : p[i] = n
<1>1. p \in [Positions -> Nodes] /\ \A i, j \in Positions : p[i] = p[j] => i = j
  BY DEF Permutations
<1>2. p \in Injection(Positions, Positions)
  BY <1>1, Inputs DEF Injection, IsInjective
<1>3. p \in Surjection(Positions, Positions)
  BY <1>2, Inputs, FS_Injection
<1> QED
  BY <1>1, <1>3, Inputs DEF Surjection

LEMMA OrderTyped ==
  ASSUME InputsOK, NodesAreKept
  PROVE  /\ order \in [Positions -> Nodes]
         /\ \A i \in Positions : order[i] \in Nodes /\ depths[order[i]] \in Depths /\ depths[order[i]] \in Nat
         /\ \A i, j \in Positions : order[i] = order[j] => i = j
         /\ \A n \in Nodes : \E i \in Positions : order[i] = n
<1>1. order \in [Positions -> Nodes] /\ \A n \in Nodes : \E i \in Positions : order[i] = n
  BY PermutationOnto DEF NodesAreKept
<1>2. \A i \in Positions : order[i] \in Nodes
  BY <1>1
<1>3. depths \in [Nodes -> Depths] /\ depths \in [Nodes -> Nat]
  BY Inputs DEF InputsOK
<1>4. \A i, j \in Positions : order[i] = order[j] => i = j
  BY DEF NodesAreKept, Permutations
<1> QED
  BY <1>1, <1>2, <1>3, <1>4

LEMMA RangesTyped ==
  ASSUME InputsOK, TypeOK
  PROVE  /\ ranges \in Seq([depth : Depths, begin : 0 .. size, end : 0 .. size]) /\ Len(ranges) \in Nat
         /\ \A k \in 1 .. Len(ranges) :
              ranges[k].depth \in Nat /\ ranges[k].begin \in 0 .. size /\ ranges[k].end \in 0 .. size
<1>1. ranges \in Seq([depth : Depths, begin : 0 .. size, end : 0 .. size])
  BY DEF TypeOK
<1>2. \A k \in 1 .. Len(ranges) : ranges[k] \in [depth : Depths, begin : 0 .. size, end : 0 .. size]
  BY <1>1, ElementOfSeq
<1>3. Depths \subseteq Nat
  BY Inputs
<1>4. \A k \in 1 .. Len(ranges) :
        ranges[k].depth \in Depths /\ ranges[k].begin \in 0 .. size /\ ranges[k].end \in 0 .. size
  BY <1>2
<1>5. Len(ranges) \in Nat
  BY <1>1
<1> QED
  BY <1>1, <1>3, <1>4, <1>5

\* Nodes put at their ranks are a stable order.
LEMMA SwapScratchKeeps ==
  ASSUME GroupInv, SwapScratch
  PROVE  GroupInv'
<1>1. InputsOK /\ UNCHANGED inputs /\ UNCHANGED ranges /\ size \in Nat /\ size > 1 /\ UsesDense
  BY Inputs DEF GroupInv, SwapScratch, DenseInv
<1>2. ObservedMax \in Nat
  BY <1>1, ObservedMaxIsLargest
<1>3. /\ pc = "scatter" /\ pc' = "tell" /\ offset = size /\ offset' = 0
      /\ order = idOrder /\ ranges = <<>> /\ depthStarts' = depthStarts
      /\ order' = scratch /\ scratch' = order
      /\ depthStarts \in [0 .. ObservedMax + 1 -> 0 .. size]
      /\ \A d \in 0 .. ObservedMax + 1 : depthStarts[d] = Cardinality(OfLess(d))
      /\ \A i \in 0 .. size - 1 : scratch[Rank(Keys, i)] = order[i]
      /\ scratch \in [Positions -> Nodes]
  BY <1>1 DEF SwapScratch, GroupInv, DenseInv, TypeOK
<1>4. ASSUME NEW p \in Positions
      PROVE  \E i \in Positions : p = Rank(Keys, i) /\ scratch[p] = idOrder[i]
  <2>1. PICK i \in Positions : Rank(Keys, i) = p
    BY <1>1, KeyRanks
  <2> QED
    BY <1>1, <1>3, <2>1, Inputs
<1>5. scratch \in Permutations
  <2>1. ASSUME NEW p \in Positions, NEW q \in Positions, scratch[p] = scratch[q]
        PROVE  p = q
    <3>1. PICK i \in Positions : p = Rank(Keys, i) /\ scratch[p] = idOrder[i]
      BY <1>4
    <3>2. PICK j \in Positions : q = Rank(Keys, j) /\ scratch[q] = idOrder[j]
      BY <1>4
    <3>3. i = j
      BY <1>1, <2>1, <3>1, <3>2 DEF InputsOK, Permutations
    <3> QED
      BY <3>1, <3>2, <3>3
  <2> QED
    BY <1>3, <2>1 DEF Permutations
<1>6. ASSUME NEW p \in Positions, NEW q \in Positions, p < q
      PROVE  Before(scratch[p], scratch[q])
  <2>1. PICK i \in Positions : p = Rank(Keys, i) /\ scratch[p] = idOrder[i]
    BY <1>4
  <2>2. PICK j \in Positions : q = Rank(Keys, j) /\ scratch[q] = idOrder[j]
    BY <1>4
  <2>3. p \in Nat /\ q \in Nat /\ Keys[i] \in Nat /\ Keys[j] \in Nat /\ i \in Nat /\ j \in Nat
    BY <1>1, Inputs
  <2>4. i = j \/ Earlier(Keys, i, j) \/ Earlier(Keys, j, i)
    BY <2>3 DEF Earlier
  <2>5. ~Earlier(Keys, j, i)
    BY <1>1, <1>6, <2>1, <2>2, <2>3, KeyRanks
  <2>6. Earlier(Keys, i, j)
    BY <1>6, <2>1, <2>2, <2>3, <2>4, <2>5
  <2>7. i < j => CameBefore(idOrder[i], idOrder[j])
    BY DEF CameBefore
  <2> QED
    BY <2>1, <2>2, <2>6, <2>7 DEF Before, Earlier, Keys
<1>7. ASSUME NEW d \in 0 .. ObservedMax + 1, NEW p \in Positions
      PROVE  depths[scratch[p]] < d <=> p < depthStarts[d]
  <2>1. PICK i \in Positions : p = Rank(Keys, i) /\ scratch[p] = idOrder[i]
    BY <1>4
  <2>2. d \in Nat
    BY <1>2
  <2>3. depths[idOrder[i]] < d <=> Rank(Keys, i) < Cardinality(OfLess(d))
    BY <1>1, <2>2, KeyRanks
  <2> QED
    BY <1>3, <2>1, <2>3
<1>8. depthStarts[0] = 0
  BY <1>1, <1>2, <1>3, CountEnds
<1>9. ToldInv' /\ ToldEnd' = 0
  BY <1>1, <1>3 DEF ToldInv, ToldEnd
<1>10. IsStable'
  BY <1>1, <1>3, <1>6, InputsStay DEF IsStable
<1>11. DenseInv'
  <2>1. 0 \in 0 .. ObservedMax + 1 /\ Len(ranges) = 0 /\ 1 .. 0 = {}
    BY <1>2, <1>3
  <2> QED
    BY <1>1, <1>3, <1>7, <1>8, <1>9, <1>10, <2>1, InputsStay DEF DenseInv
<1>12. TypeOK'
  <2>1. 0 \in 0 .. size + 1
    BY <1>1
  <2> QED
    BY <1>1, <1>3, <2>1, InputsStay DEF GroupInv, SwapScratch, TypeOK
<1>13. NodesAreKept'
  BY <1>1, <1>3, <1>5, InputsStay DEF NodesAreKept
<1> QED
  BY <1>1, <1>3, <1>9, <1>11, <1>12, <1>13, InputsStay DEF GroupInv

\* A range that is told follows the ones before it.
LEMMA AppendTold ==
  ASSUME GroupInv, UNCHANGED inputs, order' = order,
         NEW d \in Depths, NEW b \in 0 .. size, NEW e \in 0 .. size,
         b = ToldEnd, b < e,
         ranges # <<>> => ranges[Len(ranges)].depth < d,
         {order[i] : i \in b .. e - 1} = {n \in Nodes : depths[n] = d},
         ranges' = Append(ranges, [depth |-> d, begin |-> b, end |-> e])
  PROVE  /\ NodesAreKept' /\ ToldInv' /\ ToldEnd' = e
         /\ ranges' \in Seq([depth : Depths, begin : 0 .. size, end : 0 .. size])
         /\ Len(ranges') = Len(ranges) + 1
         /\ ranges'[Len(ranges) + 1] = [depth |-> d, begin |-> b, end |-> e]
         /\ \A k \in 1 .. Len(ranges) : ranges'[k] = ranges[k]
<1> DEFINE r == [depth |-> d, begin |-> b, end |-> e]
           L == Len(ranges)
<1>1. InputsOK /\ NodesAreKept /\ ToldInv /\ size \in Nat
      /\ ranges \in Seq([depth : Depths, begin : 0 .. size, end : 0 .. size])
  BY Inputs DEF GroupInv, TypeOK
<1>2. /\ L \in Nat /\ Len(ranges') = L + 1 /\ ranges'[L + 1] = r
      /\ \A k \in 1 .. L : ranges'[k] = ranges[k]
      /\ ranges' \in Seq([depth : Depths, begin : 0 .. size, end : 0 .. size])
  BY <1>1
<1>3. \A k \in 1 .. L + 1 : k = L + 1 \/ k \in 1 .. L
  BY <1>2
<1>4. r.depth = d /\ r.begin = b /\ r.end = e
  OBVIOUS
<1>5. \A k \in 1 .. L : ranges[k].begin \in 0 .. size /\ ranges[k].end \in 0 .. size
  <2>1. \A k \in 1 .. Len(ranges) : ranges[k] \in [depth : Depths, begin : 0 .. size, end : 0 .. size]
    BY <1>1, ElementOfSeq
  <2> QED
    BY <2>1
<1>6. L > 0 => L \in 1 .. L /\ ranges # <<>> /\ b = ranges[L].end /\ ranges[L].depth < d
  BY <1>1, <1>2 DEF ToldEnd
<1>7. L = 0 => b = 0
  BY <1>1 DEF ToldEnd
<1> DEFINE TL == ranges'
<1> HIDE DEF r, L, TL
<1>8. TL = ranges' /\ \A k \in 1 .. L + 1 : TL[k] = IF k = L + 1 THEN r ELSE ranges[k]
  BY <1>2, <1>3 DEF TL
<1>9. \A k \in 1 .. L + 1 : TL[k].begin < TL[k].end
  BY <1>1, <1>3, <1>4, <1>8 DEF ToldInv, L
<1>10. \A k \in 1 .. L + 1 : TL[k].begin = IF k = 1 THEN 0 ELSE TL[k - 1].end
  <2>1. TAKE k \in 1 .. L + 1
  <2>2. CASE k = L + 1
    BY <1>2, <1>4, <1>6, <1>7, <1>8, <2>2
  <2>3. CASE k # L + 1
    <3>1. k \in 1 .. L /\ (k # 1 => k - 1 \in 1 .. L)
      BY <1>2, <2>3
    <3>2. TL[k] = ranges[k] /\ (k # 1 => TL[k - 1] = ranges[k - 1])
      BY <1>2, <1>8, <2>3, <3>1
    <3> QED
      BY <1>1, <3>1, <3>2 DEF ToldInv, L
  <2> QED
    BY <2>2, <2>3
<1>11. \A k, l \in 1 .. L + 1 : k < l => TL[k].end <= TL[l].begin
  <2>1. SUFFICES ASSUME NEW k \in 1 .. L + 1, NEW l \in 1 .. L + 1, k < l
                 PROVE  TL[k].end <= TL[l].begin
    OBVIOUS
  <2>2. k \in 1 .. L /\ TL[k] = ranges[k]
    BY <1>2, <1>8, <2>1
  <2>3. CASE l = L + 1
    <3>1. L \in 1 .. L /\ TL[l].begin = ranges[L].end
      BY <1>2, <1>4, <1>6, <1>8, <2>2, <2>3
    <3>2. CASE k = L
      BY <1>5, <2>2, <3>1, <3>2
    <3>3. CASE k < L
      <4>1. ranges[k].end <= ranges[L].begin /\ ranges[L].begin < ranges[L].end
        BY <1>1, <2>2, <3>1, <3>3 DEF ToldInv, L
      <4> QED
        BY <1>5, <2>2, <3>1, <4>1
    <3> QED
      BY <1>2, <2>2, <3>2, <3>3
  <2>4. CASE l # L + 1
    <3>1. l \in 1 .. L /\ TL[l] = ranges[l]
      BY <1>2, <1>8, <2>4
    <3> QED
      BY <1>1, <2>1, <2>2, <3>1 DEF ToldInv, L
  <2> QED
    BY <2>3, <2>4
<1>12. \A k \in 1 .. L + 1 : k > 1 => TL[k - 1].depth < TL[k].depth
  <2>1. SUFFICES ASSUME NEW k \in 1 .. L + 1, k > 1 PROVE TL[k - 1].depth < TL[k].depth
    OBVIOUS
  <2>2. k - 1 \in 1 .. L /\ TL[k - 1] = ranges[k - 1]
    BY <1>2, <1>8, <2>1
  <2>3. CASE k = L + 1
    BY <1>2, <1>4, <1>6, <1>8, <2>1, <2>2, <2>3
  <2>4. CASE k # L + 1
    <3>1. k \in 1 .. L /\ TL[k] = ranges[k]
      BY <1>2, <1>8, <2>4
    <3> QED
      BY <1>1, <2>1, <2>2, <3>1 DEF ToldInv, L
  <2> QED
    BY <2>3, <2>4
<1>13. \A k \in 1 .. L + 1 :
         {order[i] : i \in PositionsOf(TL[k])} = {n \in Nodes : depths[n] = TL[k].depth}
  <2>1. TAKE k \in 1 .. L + 1
  <2>2. CASE k = L + 1
    BY <1>2, <1>4, <1>8, <2>2 DEF PositionsOf
  <2>3. CASE k # L + 1
    <3>1. k \in 1 .. L /\ TL[k] = ranges[k]
      BY <1>2, <1>8, <2>3
    <3> QED
      BY <1>1, <3>1 DEF ToldInv, L
  <2> QED
    BY <2>2, <2>3
<1>14. Len(ranges') = L + 1
  BY <1>2
<1>15. ToldInv'
  <2>1. Nodes' = Nodes /\ depths' = depths
    BY <1>1, InputsStay
  <2>2. \A k \in 1 .. L + 1 :
          {order'[i] : i \in PositionsOf(ranges'[k])} = {n \in Nodes' : depths'[n] = ranges'[k].depth}
    <3>1. TAKE k \in 1 .. L + 1
    <3>2. {order[i] : i \in PositionsOf(ranges'[k])} = {n \in Nodes : depths[n] = ranges'[k].depth}
      BY <1>13 DEF TL
    <3>3. {order'[i] : i \in PositionsOf(ranges'[k])} = {order[i] : i \in PositionsOf(ranges'[k])}
      OBVIOUS
    <3>4. {n \in Nodes' : depths'[n] = ranges'[k].depth} = {n \in Nodes : depths[n] = ranges'[k].depth}
      BY <2>1
    <3> QED
      BY <3>2, <3>3, <3>4
  <2> QED
    BY <1>9, <1>10, <1>11, <1>12, <1>14, <2>2 DEF ToldInv, TL, PositionsOf
<1>16. ToldEnd' = e
  <2>1. ranges' # <<>> /\ ranges'[Len(ranges')] = r
    BY <1>2, <1>14
  <2> QED
    BY <1>4, <2>1 DEF ToldEnd
<1>17. NodesAreKept'
  BY <1>1, InputsStay DEF NodesAreKept
<1> QED
  BY <1>2, <1>15, <1>16, <1>17 DEF r, L

\* The counters give the positions of a depth.
LEMMA TellDepthKeeps ==
  ASSUME GroupInv, TellDepth
  PROVE  GroupInv'
<1>1. InputsOK /\ UNCHANGED inputs /\ order' = order /\ size \in Nat /\ size > 1 /\ UsesDense
  BY Inputs DEF GroupInv, TellDepth, DenseInv
<1>2. ObservedMax \in Nat /\ ObservedMax < size
  BY <1>1, ObservedMaxIsLargest DEF UsesDense
<1> DEFINE b == depthStarts[offset]
           e == depthStarts[offset + 1]
<1>3. /\ pc = "tell" /\ pc' = "tell" /\ offset \in 0 .. ObservedMax /\ offset \in Nat /\ offset' = offset + 1
      /\ depthStarts' = depthStarts
      /\ depthStarts \in [0 .. ObservedMax + 1 -> 0 .. size]
      /\ IsStable /\ NodesAreKept /\ ToldEnd = b
      /\ \A d \in 0 .. ObservedMax + 1 : \A i \in Positions :
           depths[order[i]] < d <=> i < depthStarts[d]
      /\ \A k \in 1 .. Len(ranges) : ranges[k].depth < offset
      /\ ranges' = IF b = e THEN ranges ELSE Append(ranges, [depth |-> offset, begin |-> b, end |-> e])
  BY <1>1, <1>2 DEF TellDepth, GroupInv, DenseInv
<1>4. offset \in 0 .. ObservedMax + 1 /\ offset + 1 \in 0 .. ObservedMax + 1 /\ b \in 0 .. size /\ e \in 0 .. size
  BY <1>2, <1>3
<1>5. /\ \A i \in Positions : depths[order[i]] < offset <=> i < b
      /\ \A i \in Positions : depths[order[i]] < offset + 1 <=> i < e
  BY <1>3, <1>4
<1>6. order \in [Positions -> Nodes] /\ \A i \in Positions : order[i] \in Nodes /\ depths[order[i]] \in Nat
  BY <1>1, <1>3, OrderTyped
<1>7. b <= e
  <2>1. SUFFICES ASSUME e < b PROVE FALSE
    BY <1>4
  <2>2. e \in Positions
    BY <1>1, <1>4, <2>1, Inputs
  <2>3. depths[order[e]] < offset
    BY <1>5, <2>1, <2>2
  <2>4. depths[order[e]] < offset + 1
    BY <1>3, <1>6, <2>2, <2>3
  <2> QED
    BY <1>4, <1>5, <2>2, <2>4
<1>8. ASSUME NEW i \in Positions
      PROVE  i \in b .. e - 1 <=> depths[order[i]] = offset
  <2>1. depths[order[i]] = offset <=> ~(depths[order[i]] < offset) /\ depths[order[i]] < offset + 1
    BY <1>3, <1>6
  <2>2. i \in b .. e - 1 <=> ~(i < b) /\ i < e
    BY <1>1, <1>4, Inputs
  <2> QED
    BY <1>5, <2>1, <2>2
<1>9. {order[i] : i \in b .. e - 1} = {n \in Nodes : depths[n] = offset}
  <2>1. \A i \in b .. e - 1 : i \in Positions
    BY <1>1, <1>4, Inputs
  <2>2. \A n \in Nodes : \E i \in Positions : order[i] = n
    BY <1>1, <1>3, PermutationOnto DEF NodesAreKept
  <2> QED
    BY <1>6, <1>8, <2>1, <2>2
<1>10. /\ NodesAreKept' /\ ToldInv' /\ ToldEnd' = e
       /\ ranges' \in Seq([depth : Depths, begin : 0 .. size, end : 0 .. size])
       /\ \A k \in 1 .. Len(ranges') : ranges'[k].depth < offset + 1
  <2>0. ranges \in Seq([depth : Depths, begin : 0 .. size, end : 0 .. size]) /\ Len(ranges) \in Nat
    BY DEF GroupInv, TypeOK
  <2>1. CASE b = e
    <3>1. ranges' = ranges /\ UNCHANGED <<order, ranges>>
      BY <1>1, <1>3, <2>1
    <3>2. \A k \in 1 .. Len(ranges) : ranges[k].depth < offset + 1
      <4>1. TAKE k \in 1 .. Len(ranges)
      <4>2. ranges[k].depth \in Nat
        BY <1>1, RangesTyped DEF GroupInv
      <4> QED
        BY <1>3, <4>2
    <3> QED
      BY <1>1, <1>3, <2>0, <2>1, <3>1, <3>2, ToldStays
  <2>2. CASE b # e
    <3>1. b < e
      BY <1>4, <1>7, <2>2
    <3>2. offset \in Depths
      <4>1. b \in Positions /\ b \in b .. e - 1
        BY <1>1, <1>4, <3>1, Inputs
      <4>2. depths[order[b]] = offset
        BY <1>8, <4>1
      <4> QED
        BY <1>1, <1>3, <4>1, <4>2, OrderTyped
    <3>3. b = ToldEnd
      BY <1>3
    <3>4. ranges # <<>> => ranges[Len(ranges)].depth < offset
      BY <1>3, <2>0
    <3>5. ranges' = Append(ranges, [depth |-> offset, begin |-> b, end |-> e])
      BY <1>3, <2>2
    <3>6. /\ NodesAreKept' /\ ToldInv' /\ ToldEnd' = e
          /\ ranges' \in Seq([depth : Depths, begin : 0 .. size, end : 0 .. size])
          /\ Len(ranges') = Len(ranges) + 1
          /\ ranges'[Len(ranges) + 1] = [depth |-> offset, begin |-> b, end |-> e]
          /\ \A k \in 1 .. Len(ranges) : ranges'[k] = ranges[k]
      <4> HIDE DEF b, e
      <4> QED
        BY <1>1, <1>4, <1>9, <3>1, <3>2, <3>3, <3>4, <3>5, AppendTold
    <3>7. \A k \in 1 .. Len(ranges') : ranges'[k].depth < offset + 1
      <4>1. TAKE k \in 1 .. Len(ranges')
      <4>2. CASE k = Len(ranges) + 1
        BY <1>3, <3>6, <4>2
      <4>3. CASE k # Len(ranges) + 1
        <5>1. k \in 1 .. Len(ranges)
          BY <2>0, <3>6, <4>3
        <5>2. ranges[k].depth \in Nat
          BY <1>1, <5>1, RangesTyped DEF GroupInv
        <5> QED
          BY <1>3, <3>6, <5>1, <5>2, SMTT(20)
      <4> QED
        BY <4>2, <4>3
    <3> QED
      BY <3>6, <3>7
  <2> QED
    BY <2>1, <2>2
<1>11. IsStable'
  BY <1>1, <1>3, InputsStay DEF IsStable
<1>12. DenseInv'
  <2>1. offset' \in 0 .. ObservedMax + 1
    BY <1>2, <1>3
  <2> HIDE DEF b
  <2> QED
    BY <1>1, <1>3, <1>10, <1>11, <2>1, InputsStay DEF DenseInv
<1>13. TypeOK'
  <2>1. offset' \in 0 .. size + 1
    BY <1>1, <1>2, <1>3
  <2> QED
    BY <1>1, <1>3, <1>10, <2>1, InputsStay DEF GroupInv, TellDepth, TypeOK
<1> QED
  BY <1>1, <1>3, <1>10, <1>12, <1>13, InputsStay DEF GroupInv

LEMMA AllToldKeeps ==
  ASSUME GroupInv, AllTold
  PROVE  GroupInv'
<1>1. InputsOK /\ UNCHANGED inputs /\ UNCHANGED <<order, ranges>> /\ size \in Nat /\ size > 1 /\ UsesDense
  BY Inputs DEF GroupInv, AllTold, DenseInv
<1>2. ObservedMax \in Nat
  BY <1>1, ObservedMaxIsLargest
<1>3. /\ pc = "tell" /\ pc' = "done" /\ offset = ObservedMax + 1 /\ IsStable /\ NodesAreKept
      /\ ToldEnd = depthStarts[ObservedMax + 1]
      /\ \A i \in Positions : depths[order[i]] < ObservedMax + 1 => i < depthStarts[ObservedMax + 1]
      /\ depthStarts[ObservedMax + 1] \in 0 .. size
  <2>1. ObservedMax + 1 \in 0 .. ObservedMax + 1
    BY <1>2
  <2> QED
    BY <1>2, <2>1 DEF AllTold, GroupInv, DenseInv
<1>4. ToldEnd = size
  <2>1. size - 1 \in Positions
    BY <1>1, Inputs
  <2>2. order[size - 1] \in Nodes
    BY <1>1, <1>3, <2>1, OrderTyped
  <2>3. depths[order[size - 1]] < ObservedMax + 1
    BY <1>1, <1>2, <2>2, ObservedMaxIsLargest
  <2> QED
    BY <1>1, <1>3, <2>1, <2>3
<1>5. TypeOK'
  BY <1>1, <1>3, InputsStay DEF GroupInv, AllTold, TypeOK
<1>6. NodesAreKept' /\ ToldInv' /\ ToldEnd' = size /\ IsStable'
  BY <1>1, <1>3, <1>4, ToldStays
<1>7. DenseInv'
  BY <1>3 DEF DenseInv
<1> QED
  BY <1>1, <1>3, <1>5, <1>6, <1>7, InputsStay DEF GroupInv

-----------------------------------------------------------------------------
(* The steps of the partition by bytes.                                     *)

LEMMA StackTyped ==
  ASSUME InputsOK, TypeOK
  PROVE  /\ stack \in Seq(StackRanges) /\ Len(stack) \in Nat
         /\ \A k \in 1 .. Len(stack) :
              /\ stack[k] \in StackRanges
              /\ stack[k].begin \in 0 .. size /\ stack[k].end \in 0 .. size
              /\ stack[k].digit \in 0 .. PrefixBytes
<1>1. stack \in Seq(StackRanges)
  BY DEF TypeOK
<1>2. \A k \in 1 .. Len(stack) : stack[k] \in StackRanges
  BY <1>1, ElementOfSeq
<1> QED
  BY <1>1, <1>2 DEF StackRanges

LEMMA BeginMsdKeeps ==
  ASSUME GroupInv, BeginMsd
  PROVE  GroupInv'
<1>1. InputsOK /\ UNCHANGED inputs /\ UNCHANGED <<order, ranges>> /\ size \in Nat /\ size > 1
      /\ Positions = 0 .. size - 1
  BY Inputs DEF GroupInv, BeginMsd
<1>2. pc' = "partition" /\ order = idOrder /\ ranges = <<>> /\ NodesAreKept
  BY DEF BeginMsd, GroupInv
<1> DEFINE r == [begin |-> 0, end |-> size, digit |-> 0]
<1>3. /\ stack' = <<r>> /\ Len(stack') = 1 /\ stack'[1] = r /\ stack' # <<>>
      /\ r.begin = 0 /\ r.end = size /\ r.digit = 0 /\ PositionsOf(r) = Positions
  BY <1>1 DEF BeginMsd, PositionsOf
<1>4. \A k \in 1 .. 1 : k = 1
  OBVIOUS
<1>5. PrefixBytes \in 1 .. 4 /\ \A n \in Nodes : Leading(depths[n], 0) = 0
  BY <1>1, BytesSpellDepth
<1> HIDE DEF r
<1>6. StackInv'
  <2>1. ToldEnd' = 0
    BY <1>1, <1>2 DEF ToldEnd
  <2>2. Top' = r
    BY <1>3 DEF Top
  <2> QED
    BY <1>1, <1>3, <1>4, <2>1, <2>2, InputsStay DEF StackInv
<1>7. AgreeInv'
  <2>1. \A i, j \in Positions :
          /\ Leading(depths[order[i]], 0) = Leading(depths[order[j]], 0)
          /\ i < j => CameBefore(order[i], order[j])
    <3>1. \A i \in Positions : order[i] \in Nodes
      BY <1>1, <1>2, OrderTyped
    <3> QED
      BY <1>2, <1>5, <3>1 DEF CameBefore
  <2>2. 0 .. 0 - 1 = {}
    OBVIOUS
  <2> QED
    BY <1>1, <1>3, <1>4, <2>1, <2>2, InputsStay DEF AgreeInv, PositionsOf
<1>8. SeparateInv'
  <2>1. \A i, j \in Positions : SameRange(i, j)'
    <3>1. 1 \in 1 .. 1
      OBVIOUS
    <3> QED
      BY <1>3, <3>1 DEF SameRange, PositionsOf
  <2> QED
    BY <1>1, <2>1, InputsStay DEF SeparateInv
<1>9. TypeOK'
  <2>1. r \in StackRanges
    BY <1>1, <1>5 DEF r, StackRanges
  <2>2. stack' \in Seq(StackRanges)
    BY <1>3, <2>1
  <2> QED
    BY <1>1, <1>2, <2>2, InputsStay DEF GroupInv, BeginMsd, TypeOK
<1>10. DenseInv'
  BY <1>2 DEF DenseInv
<1> QED
  BY <1>1, <1>2, <1>6, <1>7, <1>8, <1>9, <1>10, InputsStay, ToldStays DEF GroupInv

\* Nodes of a range that was told have its depth.
LEMMA ToldDepth ==
  ASSUME ToldInv, NEW k \in 1 .. Len(ranges), NEW i \in PositionsOf(ranges[k])
  PROVE  depths[order[i]] = ranges[k].depth
<1>1. {order[j] : j \in PositionsOf(ranges[k])} = {n \in Nodes : depths[n] = ranges[k].depth}
  BY DEF ToldInv
<1>2. order[i] \in {order[j] : j \in PositionsOf(ranges[k])}
  OBVIOUS
<1> QED
  BY <1>1, <1>2

\* What is told lies before what is on the stack.
LEMMA ToldBelowStack ==
  ASSUME InputsOK, TypeOK, ToldInv, StackInv
  PROVE  /\ \A k \in 1 .. Len(ranges) : ranges[k].end <= ToldEnd
         /\ stack # <<>> => /\ Len(stack) \in 1 .. Len(stack) /\ Top = stack[Len(stack)]
                            /\ \A k \in 1 .. Len(stack) : Top.begin <= stack[k].begin
                            /\ \A k \in 1 .. Len(stack) - 1 : Top.end <= stack[k].begin
         /\ \A k \in 1 .. Len(ranges) : \A l \in 1 .. Len(stack) : ranges[k].end <= stack[l].begin
<1>1. ASSUME NEW k \in 1 .. Len(ranges)
      PROVE  ranges[k].end <= ToldEnd
  <2>1. Len(ranges) \in 1 .. Len(ranges) /\ ranges # <<>> /\ k \in Nat /\ Len(ranges) \in Nat
    BY RangesTyped
  <2>2. ToldEnd = ranges[Len(ranges)].end
    BY <2>1 DEF ToldEnd
  <2>3. CASE k = Len(ranges)
    BY <2>1, <2>2, <2>3, RangesTyped
  <2>4. CASE k < Len(ranges)
    <3>1. ranges[k].end <= ranges[Len(ranges)].begin
      BY <2>1, <2>4 DEF ToldInv
    <3>2. ranges[Len(ranges)].begin < ranges[Len(ranges)].end
      BY <2>1 DEF ToldInv
    <3>3. /\ ranges[k].end \in 0 .. size /\ ranges[Len(ranges)].begin \in 0 .. size
          /\ ranges[Len(ranges)].end \in 0 .. size
      BY <2>1, RangesTyped
    <3> QED
      BY <2>2, <3>1, <3>2, <3>3
  <2> QED
    BY <2>1, <2>3, <2>4
<1>2. ASSUME stack # <<>>
      PROVE  /\ Len(stack) \in 1 .. Len(stack) /\ Top = stack[Len(stack)]
             /\ \A k \in 1 .. Len(stack) : Top.begin <= stack[k].begin
             /\ \A k \in 1 .. Len(stack) - 1 : Top.end <= stack[k].begin
  <2>1. Len(stack) \in 1 .. Len(stack) /\ Len(stack) \in Nat
    BY <1>2, StackTyped
  <2>2. Top = stack[Len(stack)]
    BY DEF Top
  <2>3. ASSUME NEW k \in 1 .. Len(stack) - 1
        PROVE  Top.end <= stack[k].begin
    <3>1. k \in 1 .. Len(stack) /\ k < Len(stack)
      BY <2>1
    <3> QED
      BY <2>1, <2>2, <3>1 DEF StackInv
  <2>4. ASSUME NEW k \in 1 .. Len(stack)
        PROVE  Top.begin <= stack[k].begin
    <3>1. /\ Top.begin \in 0 .. size /\ Top.end \in 0 .. size /\ Top.begin < Top.end
          /\ stack[k].begin \in 0 .. size
      BY <2>1, <2>2, StackTyped DEF StackInv
    <3>2. k = Len(stack) \/ k \in 1 .. Len(stack) - 1
      BY <2>1
    <3> QED
      BY <2>2, <2>3, <3>1, <3>2
  <2> QED
    BY <2>1, <2>2, <2>3, <2>4
<1>3. ASSUME NEW k \in 1 .. Len(ranges), NEW l \in 1 .. Len(stack)
      PROVE  ranges[k].end <= stack[l].begin
  <2>1. stack # <<>>
    BY StackTyped
  <2>2. ranges[k].end <= ToldEnd /\ Top.begin <= stack[l].begin /\ Top.begin = ToldEnd
    BY <1>1, <1>2, <2>1 DEF StackInv
  <2>3. ranges[k].end \in 0 .. size /\ Top.begin \in 0 .. size /\ stack[l].begin \in 0 .. size
    BY <1>2, <2>1, RangesTyped, StackTyped
  <2> QED
    BY <2>2, <2>3
<1> QED
  BY <1>1, <1>2, <1>3

\* When the stack is empty, all of the order is told.
LEMMA AllPartitionedKeeps ==
  ASSUME GroupInv, AllPartitioned
  PROVE  GroupInv'
<1>1. InputsOK /\ UNCHANGED inputs /\ UNCHANGED <<order, ranges>>
  BY DEF GroupInv, AllPartitioned
<1>2. /\ pc = "partition" /\ pc' = "done" /\ stack = <<>>
      /\ StackInv /\ SeparateInv /\ ToldInv /\ ToldEnd = size
  BY DEF AllPartitioned, GroupInv, StackInv
<1>3. IsStable
  <2>1. SUFFICES ASSUME NEW i \in Positions, NEW j \in Positions, i < j
                 PROVE  Before(order[i], order[j])
    BY DEF IsStable
  <2>2. ~SameRange(i, j)
    BY <1>2 DEF SameRange
  <2>3. CASE SameTold(i, j) /\ CameBefore(order[i], order[j])
    <3>1. PICK k \in 1 .. Len(ranges) : i \in PositionsOf(ranges[k]) /\ j \in PositionsOf(ranges[k])
      BY <2>3 DEF SameTold
    <3>2. depths[order[i]] = ranges[k].depth /\ depths[order[j]] = ranges[k].depth
      BY <1>2, <3>1, ToldDepth
    <3> QED
      BY <2>3, <3>2 DEF Before
  <2>4. CASE depths[order[i]] < depths[order[j]]
    BY <2>4 DEF Before
  <2> QED
    BY <1>2, <2>1, <2>2, <2>3, <2>4 DEF SeparateInv
<1>4. NodesAreKept' /\ ToldInv' /\ ToldEnd' = size /\ IsStable'
  BY <1>1, <1>2, <1>3, ToldStays
<1>5. TypeOK'
  BY <1>1, <1>2, InputsStay DEF GroupInv, AllPartitioned, TypeOK
<1>6. DenseInv'
  BY <1>2 DEF DenseInv
<1> QED
  BY <1>1, <1>2, <1>4, <1>5, <1>6, InputsStay DEF GroupInv

LEMMA PoppedIsRest ==
  ASSUME InputsOK, TypeOK, stack # <<>>
  PROVE  /\ Len(stack) \in Nat \ {0}
         /\ Popped \in Seq(StackRanges) /\ Len(Popped) = Len(stack) - 1
         /\ \A k \in 1 .. Len(stack) - 1 : Popped[k] = stack[k]
<1>1. stack \in Seq(StackRanges) /\ Len(stack) \in Nat \ {0} /\ Len(stack) - 1 \in Int
  BY StackTyped
<1>2. \A k \in 1 .. Len(stack) - 1 : stack[k] \in StackRanges
  BY <1>1, StackTyped
<1>3. /\ Popped \in Seq(StackRanges)
      /\ Len(Popped) = IF 1 <= Len(stack) - 1 THEN Len(stack) - 1 - 1 + 1 ELSE 0
      /\ \A k \in 1 .. Len(stack) - 1 - 1 + 1 : Popped[k] = stack[1 + k - 1]
  BY <1>1, <1>2, SubSeqProperties DEF Popped
<1> DEFINE L == Len(stack)
<1> HIDE DEF L
<1>4. L \in Nat \ {0}
  BY <1>1 DEF L
<1>5. Len(Popped) = L - 1
  <2>1. Len(Popped) = IF 1 <= L - 1 THEN L - 1 - 1 + 1 ELSE 0
    BY <1>3 DEF L
  <2> QED
    BY <1>4, <2>1
<1>6. ASSUME NEW k \in 1 .. L - 1
      PROVE  Popped[k] = stack[k]
  <2>1. k \in 1 .. L - 1 - 1 + 1 /\ 1 + k - 1 = k
    BY <1>4
  <2>2. Popped[k] = stack[1 + k - 1]
    BY <1>3, <2>1 DEF L
  <2> QED
    BY <2>1, <2>2
<1> QED
  BY <1>1, <1>3, <1>5, <1>6 DEF L

\* A finished range holds the nodes of one depth, and all of them.
LEMMA FinishedRange ==
  ASSUME GroupInv, pc = "partition", stack # <<>>, IsFinished(Top)
  PROVE  /\ Top.begin \in Positions
         /\ \A i \in PositionsOf(Top) : i \in Positions /\ depths[order[i]] = depths[order[Top.begin]]
         /\ {order[i] : i \in PositionsOf(Top)} = {n \in Nodes : depths[n] = depths[order[Top.begin]]}
         /\ ranges # <<>> => ranges[Len(ranges)].depth < depths[order[Top.begin]]
<1>1. /\ InputsOK /\ TypeOK /\ NodesAreKept /\ ToldInv /\ StackInv /\ AgreeInv /\ SeparateInv
      /\ size \in Nat /\ Positions = 0 .. size - 1 /\ size > 1
  BY Inputs DEF GroupInv, StackInv
<1> DEFINE L == Len(stack)
           b == Top.begin
           e == Top.end
           d == depths[order[b]]
<1>2. L \in 1 .. L /\ L \in Nat /\ Top = stack[L]
  BY <1>1, StackTyped DEF Top
<1>3. b \in 0 .. size /\ e \in 0 .. size /\ b < e /\ Top.digit \in 0 .. PrefixBytes /\ b = ToldEnd
  BY <1>1, <1>2, StackTyped DEF StackInv
<1>4. b \in Positions /\ \A i \in PositionsOf(Top) : i \in Positions /\ i \in b .. e - 1
  BY <1>1, <1>3 DEF PositionsOf
<1>5. b \in PositionsOf(Top)
  BY <1>3 DEF PositionsOf
<1>6. ASSUME NEW i \in PositionsOf(Top)
      PROVE  depths[order[i]] = d
  <2>1. CASE e - b <= 1
    <3>1. i = b
      BY <1>3, <1>4, <2>1
    <3> QED
      BY <3>1
  <2>2. CASE Top.digit = PrefixBytes
    <3>1. Leading(depths[order[i]], PrefixBytes) = Leading(depths[order[b]], PrefixBytes)
      BY <1>1, <1>2, <1>5, <2>2 DEF AgreeInv
    <3>2. order[i] \in Nodes /\ order[b] \in Nodes
      BY <1>1, <1>4, OrderTyped
    <3> QED
      BY <1>1, <3>1, <3>2, BytesSpellDepth
  <2> QED
    BY <2>1, <2>2 DEF IsFinished
<1>7. ASSUME NEW j \in Positions, SameRange(b, j) \/ SameRange(j, b)
      PROVE  j \in PositionsOf(Top)
  <2>1. PICK k \in 1 .. L : b \in PositionsOf(stack[k]) /\ j \in PositionsOf(stack[k])
    BY <1>7 DEF SameRange
  <2>2. CASE k = L
    BY <1>2, <2>1, <2>2
  <2>3. CASE k # L
    <3>1. e <= stack[k].begin /\ stack[k].begin \in 0 .. size
      BY <1>1, <1>2, <2>3, ToldBelowStack, StackTyped
    <3>2. stack[k].begin <= b
      BY <1>2, <2>1, StackTyped DEF PositionsOf
    <3> QED
      BY <1>3, <3>1, <3>2
  <2> QED
    BY <2>2, <2>3
<1>8. ASSUME NEW j \in Positions
      PROVE  ~SameTold(b, j) /\ ~SameTold(j, b)
  <2>1. ASSUME NEW k \in 1 .. Len(ranges), b \in PositionsOf(ranges[k])
        PROVE  FALSE
    <3>1. ranges[k].end <= b /\ ranges[k].end \in 0 .. size /\ ranges[k].begin \in 0 .. size
      BY <1>1, <1>3, ToldBelowStack, RangesTyped
    <3>2. b \in ranges[k].begin .. ranges[k].end - 1
      BY <2>1 DEF PositionsOf
    <3> QED
      BY <1>3, <3>1, <3>2
  <2> QED
    BY <2>1 DEF SameTold
<1>9. ASSUME NEW j \in Positions, j \notin PositionsOf(Top)
      PROVE  depths[order[j]] # d
  <2>1. b # j /\ (b < j \/ j < b)
    BY <1>1, <1>3, <1>5, <1>9
  <2>2. ~SameRange(b, j) /\ ~SameRange(j, b)
    BY <1>7, <1>9
  <2>3. depths[order[b]] < depths[order[j]] \/ depths[order[j]] < depths[order[b]]
    BY <1>1, <1>4, <1>8, <2>1, <2>2 DEF SeparateInv
  <2>4. depths[order[b]] \in Nat /\ depths[order[j]] \in Nat
    BY <1>1, <1>4, OrderTyped
  <2> QED
    BY <2>3, <2>4
<1>10. {order[i] : i \in PositionsOf(Top)} = {n \in Nodes : depths[n] = d}
  <2>1. \A i \in PositionsOf(Top) : order[i] \in Nodes
    BY <1>1, <1>4, OrderTyped
  <2>2. ASSUME NEW n \in Nodes, depths[n] = d
        PROVE  \E i \in PositionsOf(Top) : order[i] = n
    <3>1. PICK j \in Positions : order[j] = n
      BY <1>1, OrderTyped
    <3> QED
      BY <1>9, <2>2, <3>1
  <2> QED
    BY <1>6, <2>1, <2>2
<1>11. ASSUME ranges # <<>>
       PROVE  ranges[Len(ranges)].depth < d
  <2> DEFINE K == Len(ranges)
             i == ranges[K].begin
  <2>1. /\ K \in 1 .. K /\ ranges[K].begin \in 0 .. size /\ ranges[K].end \in 0 .. size
        /\ ranges[K].begin < ranges[K].end /\ ToldEnd = ranges[K].end
    BY <1>1, <1>11, RangesTyped DEF ToldInv, ToldEnd
  <2>2. i \in Positions /\ i < b /\ i \in PositionsOf(ranges[K])
    BY <1>1, <1>3, <2>1 DEF PositionsOf
  <2>3. ~SameRange(i, b)
    <3>1. i \notin PositionsOf(Top)
      BY <1>3, <1>4, <2>1, <2>2
    <3> QED
      BY <1>7, <2>2, <3>1
  <2>4. depths[order[i]] < d
    BY <1>1, <1>4, <1>8, <2>2, <2>3 DEF SeparateInv
  <2>5. depths[order[i]] = ranges[K].depth
    BY <1>1, <2>1, <2>2, ToldDepth
  <2> QED
    BY <2>4, <2>5
<1> QED
  BY <1>4, <1>6, <1>10, <1>11

\* A finished range is told, and the next one is then the first of the rest.
LEMMA RangeDoneKeeps ==
  ASSUME GroupInv, RangeDone
  PROVE  GroupInv'
<1>1. /\ InputsOK /\ TypeOK /\ NodesAreKept /\ ToldInv /\ StackInv /\ AgreeInv /\ SeparateInv
      /\ size \in Nat /\ Positions = 0 .. size - 1 /\ size > 1
      /\ pc = "partition" /\ pc' = "partition" /\ stack # <<>> /\ IsFinished(Top)
      /\ UNCHANGED inputs /\ order' = order
  BY Inputs DEF GroupInv, StackInv, RangeDone
<1> DEFINE L == Len(stack)
           b == Top.begin
           e == Top.end
           d == depths[order[b]]
           K == Len(ranges)
<1>2. L \in 1 .. L /\ L \in Nat /\ Top = stack[L]
  BY <1>1, StackTyped DEF Top
<1>3. b \in 0 .. size /\ e \in 0 .. size /\ b < e /\ b = ToldEnd
  BY <1>1, <1>2, StackTyped DEF StackInv
<1>4. /\ b \in Positions
      /\ {order[i] : i \in b .. e - 1} = {n \in Nodes : depths[n] = d}
      /\ ranges # <<>> => ranges[Len(ranges)].depth < d
  BY <1>1, FinishedRange DEF PositionsOf
<1>5. ranges' = Append(ranges, [depth |-> d, begin |-> b, end |-> e])
  BY <1>3 DEF RangeDone
<1>6. d \in Depths
  BY <1>1, <1>4, OrderTyped
<1>7. /\ NodesAreKept' /\ ToldInv' /\ ToldEnd' = e
      /\ ranges' \in Seq([depth : Depths, begin : 0 .. size, end : 0 .. size])
      /\ Len(ranges') = K + 1 /\ ranges'[K + 1] = [depth |-> d, begin |-> b, end |-> e]
      /\ \A k \in 1 .. K : ranges'[k] = ranges[k]
  <2> HIDE DEF b, e, d
  <2> QED
    BY <1>1, <1>3, <1>4, <1>5, <1>6, AppendTold
<1>8. /\ stack' = Popped /\ Len(stack') = L - 1 /\ stack' \in Seq(StackRanges)
      /\ \A k \in 1 .. L - 1 : stack'[k] = stack[k] /\ k \in 1 .. L
  BY <1>1, <1>2, PoppedIsRest DEF RangeDone
<1> HIDE DEF L
<1>9. StackInv'
  <2>1. \A k \in 1 .. L - 1 : stack'[k].begin < stack'[k].end
    BY <1>1, <1>8 DEF StackInv, L
  <2>2. \A k, l \in 1 .. L - 1 : k < l => stack'[l].end <= stack'[k].begin
    BY <1>1, <1>8 DEF StackInv, L
  <2>3. \A k \in 1 .. L - 1 - 1 : stack'[k].begin = stack'[k + 1].end
    <3>1. TAKE k \in 1 .. L - 1 - 1
    <3>2. k \in 1 .. L - 1 /\ k + 1 \in 1 .. L - 1
      BY <1>2
    <3> QED
      BY <1>1, <1>8, <3>2 DEF StackInv, L
  <2>4. CASE L = 1
    <3>1. stack' = <<>>
      BY <1>8, <2>4
    <3>2. e = size
      BY <1>1, <1>2, <2>4 DEF StackInv
    <3> QED
      BY <1>1, <1>7, <1>8, <2>1, <2>2, <2>3, <3>1, <3>2, InputsStay DEF StackInv
  <2>5. CASE L # 1
    <3>1. L - 1 \in 1 .. L - 1 /\ 1 \in 1 .. L - 1 /\ L - 1 + 1 = L
      BY <1>2, <2>5
    <3>2. stack' # <<>> /\ stack'[1].end = size
      BY <1>1, <1>8, <3>1 DEF StackInv
    <3>3. Top' = stack[L - 1]
      BY <1>8, <3>1 DEF Top
    <3>4. stack[L - 1].begin = e
      BY <1>1, <1>2, <3>1 DEF StackInv, L
    <3> QED
      BY <1>1, <1>7, <1>8, <2>1, <2>2, <2>3, <3>2, <3>3, <3>4, InputsStay DEF StackInv
  <2> QED
    BY <2>4, <2>5
<1>10. AgreeInv'
  <2>1. \A k \in 1 .. L - 1 : \A i, j \in PositionsOf(stack[k]) :
          /\ Leading(depths[order[i]], stack[k].digit) = Leading(depths[order[j]], stack[k].digit)
          /\ \A digit \in 0 .. stack[k].digit - 1 : DigitOf(order[i], digit) = DigitOf(order[j], digit)
          /\ i < j => CameBefore(order[i], order[j])
    BY <1>1, <1>8 DEF AgreeInv, L
  <2> QED
    BY <1>1, <1>8, <2>1, InputsStay DEF AgreeInv, PositionsOf
<1>11. SeparateInv'
  <2>1. ASSUME NEW i \in Positions, NEW j \in Positions, i < j
        PROVE  \/ SameRange(i, j)'
               \/ SameTold(i, j)' /\ CameBefore(order[i], order[j])
               \/ depths[order[i]] < depths[order[j]]
    <3>1. CASE SameRange(i, j)
      <4>1. PICK k \in 1 .. L : i \in PositionsOf(stack[k]) /\ j \in PositionsOf(stack[k])
        BY <3>1 DEF SameRange, L
      <4>2. CASE k = L
        <5>1. i \in PositionsOf(ranges'[K + 1]) /\ j \in PositionsOf(ranges'[K + 1])
          BY <1>2, <1>7, <4>1, <4>2 DEF PositionsOf
        <5>2. K + 1 \in 1 .. Len(ranges')
          BY <1>1, <1>7, RangesTyped
        <5>3. SameTold(i, j)'
          BY <5>1, <5>2 DEF SameTold, PositionsOf
        <5>4. CameBefore(order[i], order[j])
          BY <1>1, <2>1, <4>1 DEF AgreeInv, L
        <5> QED
          BY <5>3, <5>4
      <4>3. CASE k # L
        <5>1. k \in 1 .. L - 1
          BY <1>2, <4>3
        <5> QED
          BY <1>8, <4>1, <5>1 DEF SameRange, PositionsOf
      <4> QED
        BY <4>2, <4>3
    <3>2. CASE SameTold(i, j) /\ CameBefore(order[i], order[j])
      <4>1. PICK k \in 1 .. K : i \in PositionsOf(ranges[k]) /\ j \in PositionsOf(ranges[k])
        BY <3>2 DEF SameTold
      <4>2. k \in 1 .. Len(ranges') /\ ranges'[k] = ranges[k]
        BY <1>1, <1>7, RangesTyped
      <4>3. SameTold(i, j)'
        BY <4>1, <4>2 DEF SameTold, PositionsOf
      <4> QED
        BY <3>2, <4>3
    <3> QED
      BY <1>1, <2>1, <3>1, <3>2 DEF SeparateInv
  <2> QED
    BY <1>1, <2>1, InputsStay DEF SeparateInv
<1>12. TypeOK'
  BY <1>1, <1>7, <1>8, InputsStay DEF RangeDone, TypeOK
<1>13. DenseInv'
  BY <1>1 DEF DenseInv
<1> QED
  BY <1>1, <1>7, <1>9, <1>10, <1>11, <1>12, <1>13, InputsStay DEF GroupInv

\* Where the nodes of a range are moved to: one position of the range for each,
\* in the order of their bytes, each byte in its bucket.
LEMMA TargetFacts ==
  ASSUME InputsOK, NodesAreKept, NEW T \in StackRanges, T.begin < T.end, T.digit < PrefixBytes
  PROVE  LET S == PositionsOf(T) IN
         /\ \A i \in S : Target(T, i) \in S
         /\ \A i, j \in S : Target(T, i) = Target(T, j) => i = j
         /\ \A p \in S : \E i \in S : Target(T, i) = p
         /\ \A i, j \in S : Precedes(i, j, T.digit) => Target(T, i) < Target(T, j)
         /\ \A i \in S : \A c \in Nat :
              DigitOf(order[i], T.digit) < c <=> Target(T, i) < BucketStart(T, c)
         /\ \A i \in S : DigitOf(order[i], T.digit) \in 0 .. Radix - 1
<1> DEFINE S == PositionsOf(T)
           b == T.begin
           e == T.end
           g == T.digit
           f == [i \in S |-> DigitOf(order[i], g)]
<1>1. /\ b \in 0 .. size /\ e \in 0 .. size /\ g \in 0 .. PrefixBytes - 1 /\ size \in Nat /\ size > 0
      /\ Positions = 0 .. size - 1 /\ PrefixBytes \in 1 .. 4
  <2>1. size \in Nat /\ b \in 0 .. size /\ e \in 0 .. size /\ g \in 0 .. PrefixBytes
        /\ Positions = 0 .. size - 1
    BY Inputs DEF StackRanges
  <2>2. size > 0
    BY <2>1
  <2>3. PrefixBytes \in 1 .. 4
    BY <2>2, BytesSpellDepth
  <2> QED
    BY <2>1, <2>2, <2>3
<1>2. /\ S = b .. e - 1 /\ S \in SUBSET Nat /\ S \subseteq Positions
      /\ IsFiniteSet(S) /\ Cardinality(S) = e - b
  <2>1. S = b .. e - 1
    BY DEF PositionsOf
  <2>2. b \in Int /\ e - 1 \in Int /\ b < e
    BY <1>1
  <2> HIDE DEF S, b, e
  <2>3. IsFiniteSet(b .. e - 1) /\ Cardinality(b .. e - 1) = IF b > e - 1 THEN 0 ELSE (e - 1) - b + 1
    BY <2>2, FS_Interval
  <2>4. Cardinality(b .. e - 1) = e - b
    BY <1>1, <2>2, <2>3
  <2>5. S \subseteq Positions /\ S \in SUBSET Nat
    BY <1>1, <2>1
  <2> QED
    BY <2>1, <2>3, <2>4, <2>5
<1>3. \A i \in S : DigitOf(order[i], g) \in 0 .. Radix - 1 /\ DigitOf(order[i], g) \in Nat
  <2>1. TAKE i \in S
  <2>2. order[i] \in Nodes
    BY <1>2, OrderTyped
  <2>3. DigitOf(order[i], g) \in 0 .. Radix - 1
    BY <1>1, <2>2, BytesSpellDepth
  <2> QED
    BY <2>3, Inputs
<1>4. f \in [S -> Nat] /\ \A i \in S : f[i] = DigitOf(order[i], g)
  BY <1>3
<1>5. \A i, j \in S : Earlier(f, i, j) <=> Precedes(i, j, g)
  BY <1>4 DEF Earlier, Precedes
<1>6. \A i \in S : Target(T, i) = b + Rank(f, i)
  <2>1. TAKE i \in S
  <2>2. EarlierThan(f, i) = {j \in S : Precedes(j, i, g)}
    BY <1>5 DEF EarlierThan
  <2> QED
    BY <2>2 DEF Rank, Target
<1>7. \A c \in Nat : BucketStart(T, c) = b + Cardinality({i \in S : f[i] < c})
  <2>1. TAKE c \in Nat
  <2>2. {i \in S : f[i] < c} = {i \in S : DigitOf(order[i], g) < c}
    BY <1>4
  <2> QED
    BY <2>2 DEF BucketStart
<1> HIDE DEF S, b, e, g, f
<1>8. \A i \in S : Rank(f, i) \in 0 .. e - b - 1
  BY <1>2, <1>4, RankBound
<1>9. \A i \in S : Target(T, i) \in S
  <2>1. ASSUME NEW r \in 0 .. e - b - 1
        PROVE  b + r \in b .. e - 1
    BY <1>1
  <2> QED
    BY <1>2, <1>6, <1>8, <2>1
<1>10. \A i, j \in S : Target(T, i) = Target(T, j) => i = j
  <2>1. \A i, j \in S : Rank(f, i) = Rank(f, j) => i = j
    BY <1>2, <1>4, RankInjective
  <2>2. \A i, j \in S : b + Rank(f, i) = b + Rank(f, j) => Rank(f, i) = Rank(f, j)
    BY <1>1, <1>8
  <2> QED
    BY <1>6, <2>1, <2>2
<1>11. \A p \in S : \E i \in S : Target(T, i) = p
  <2>1. TAKE p \in S
  <2>2. p - b \in 0 .. Cardinality(S) - 1 /\ b + (p - b) = p
    BY <1>1, <1>2
  <2>3. PICK i \in S : Rank(f, i) = p - b
    BY <1>2, <1>4, <2>2, RankOnto
  <2> QED
    BY <1>6, <2>2, <2>3
<1>12. \A i, j \in S : Precedes(i, j, g) => Target(T, i) < Target(T, j)
  <2>1. \A i, j \in S : Earlier(f, i, j) => Rank(f, i) < Rank(f, j)
    BY <1>2, <1>4, RankMonotone
  <2> QED
    BY <1>1, <1>5, <1>6, <1>8, <2>1
<1>13. \A i \in S : \A c \in Nat : f[i] < c <=> Target(T, i) < BucketStart(T, c)
  <2>1. SUFFICES ASSUME NEW i \in S, NEW c \in Nat
                 PROVE  f[i] < c <=> Target(T, i) < BucketStart(T, c)
    OBVIOUS
  <2>2. f[i] < c <=> Rank(f, i) < Cardinality({j \in S : f[j] < c})
    <3>1. \A k \in S : \A d \in Nat : f[k] < d <=> Rank(f, k) < Cardinality({j \in S : f[j] < d})
      BY <1>2, <1>4, RankOfKey
    <3> QED
      BY <3>1
  <2>3. Cardinality({j \in S : f[j] < c}) \in Nat
    BY <1>2, FS_Subset, FS_CardinalityType
  <2>4. Target(T, i) = b + Rank(f, i) /\ BucketStart(T, c) = b + Cardinality({j \in S : f[j] < c})
    BY <1>6, <1>7
  <2> QED
    BY <1>1, <1>8, <2>2, <2>3, <2>4
<1> QED
  BY <1>3, <1>4, <1>9, <1>10, <1>11, <1>12, <1>13 DEF S, g

\* The buckets of a range: where they start.
LEMMA BucketFacts ==
  ASSUME InputsOK, NodesAreKept, NEW T \in StackRanges, T.begin < T.end, T.digit < PrefixBytes
  PROVE  LET S == PositionsOf(T) IN
         /\ \A c \in Nat : BucketStart(T, c) \in T.begin .. T.end
         /\ \A c, d \in Nat : c <= d => BucketStart(T, c) <= BucketStart(T, d)
         /\ \A c, d \in Nat :
              c <= d /\ (\A i \in S : ~(c <= DigitOf(order[i], T.digit) /\ DigitOf(order[i], T.digit) < d))
                => BucketStart(T, c) = BucketStart(T, d)
         /\ \A c \in Nat : (\A i \in S : DigitOf(order[i], T.digit) < c) => BucketStart(T, c) = T.end
         /\ \A c \in Nat : (\A i \in S : c <= DigitOf(order[i], T.digit)) => BucketStart(T, c) = T.begin
<1> DEFINE S == PositionsOf(T)
           b == T.begin
           e == T.end
           D(i) == DigitOf(order[i], T.digit)
           L(c) == {i \in S : D(i) < c}
<1>1. b \in Nat /\ e \in Nat /\ b < e /\ S = b .. e - 1
  BY Inputs DEF StackRanges, PositionsOf
<1>2. \A i \in S : D(i) \in Nat
  BY TargetFacts, Inputs
<1>3. \A c : BucketStart(T, c) = b + Cardinality(L(c))
  BY DEF BucketStart
<1> HIDE DEF S, b, e, D
<1>4. IsFiniteSet(S) /\ Cardinality(S) = e - b
  <2>1. b \in Int /\ e - 1 \in Int
    BY <1>1
  <2>2. IsFiniteSet(b .. e - 1) /\ Cardinality(b .. e - 1) = IF b > e - 1 THEN 0 ELSE (e - 1) - b + 1
    BY <2>1, FS_Interval
  <2>3. Cardinality(b .. e - 1) = e - b
    BY <1>1, <2>2
  <2> QED
    BY <1>1, <2>2, <2>3
<1>5. \A c : IsFiniteSet(L(c)) /\ Cardinality(L(c)) \in 0 .. e - b
  <2>1. TAKE c
  <2>2. L(c) \subseteq S
    OBVIOUS
  <2>3. IsFiniteSet(L(c)) /\ Cardinality(L(c)) <= Cardinality(S)
    BY <1>4, <2>2, FS_Subset
  <2> QED
    BY <1>1, <1>4, <2>3, FS_CardinalityType
<1>6. \A c \in Nat : BucketStart(T, c) \in b .. e
  <2>1. \A n \in 0 .. e - b : b + n \in b .. e
    BY <1>1
  <2> QED
    BY <1>3, <1>5, <2>1
<1>7. ASSUME NEW c \in Nat, NEW d \in Nat, c <= d
      PROVE  BucketStart(T, c) <= BucketStart(T, d)
  <2>1. L(c) \subseteq L(d)
    BY <1>2, <1>7
  <2>2. Cardinality(L(c)) <= Cardinality(L(d))
    BY <1>5, <2>1, FS_Subset
  <2> DEFINE x == Cardinality(L(c))
             y == Cardinality(L(d))
  <2>3. x \in 0 .. e - b /\ y \in 0 .. e - b /\ x <= y
    BY <1>5, <2>2
  <2>4. BucketStart(T, c) = b + x /\ BucketStart(T, d) = b + y
    BY <1>3
  <2> HIDE DEF x, y
  <2> QED
    BY <1>1, <2>3, <2>4
<1>8. ASSUME NEW c \in Nat, NEW d \in Nat, c <= d, \A i \in S : ~(c <= D(i) /\ D(i) < d)
      PROVE  BucketStart(T, c) = BucketStart(T, d)
  <2>1. L(c) = L(d)
    BY <1>2, <1>8
  <2> QED
    BY <1>3, <2>1
<1>9. ASSUME NEW c \in Nat, \A i \in S : D(i) < c
      PROVE  BucketStart(T, c) = e
  <2>1. L(c) = S
    BY <1>9
  <2>2. BucketStart(T, c) = b + (e - b)
    BY <1>3, <1>4, <2>1
  <2> QED
    BY <1>1, <2>2
<1>10. ASSUME NEW c \in Nat, \A i \in S : c <= D(i)
       PROVE  BucketStart(T, c) = b
  <2>1. L(c) = {}
    BY <1>2, <1>10
  <2>2. BucketStart(T, c) = b + 0
    BY <1>3, <2>1, FS_EmptySet
  <2> QED
    BY <1>1, <2>2
<1> QED
  BY <1>6, <1>7, <1>8, <1>9, <1>10 DEF S, b, e, D

\* The digits of a range, largest first.
NthLargest(D, k) == CHOOSE d \in D : Cardinality(Above(D, d)) = k - 1

LEMMA DigitsDescend ==
  ASSUME NEW n \in Nat, NEW D \in SUBSET (0 .. n)
  PROVE  /\ IsFiniteSet(D) /\ Cardinality(D) \in Nat
         /\ \A k \in 1 .. Cardinality(D) : NthLargest(D, k) \in D
         /\ \A k, l \in 1 .. Cardinality(D) : k < l => NthLargest(D, l) < NthLargest(D, k)
         /\ \A d \in D : \E k \in 1 .. Cardinality(D) : NthLargest(D, k) = d
<1> DEFINE c(k) == NthLargest(D, k)
           f == [d \in D |-> n - d]
           N == Cardinality(D)
<1>1. IsFiniteSet(D) /\ N \in Nat
  <2>1. IsFiniteSet(0 .. n)
    BY FS_Interval
  <2>2. IsFiniteSet(D)
    BY <2>1, FS_Subset
  <2> QED
    BY <2>2, FS_CardinalityType
<1>2. D \in SUBSET Nat /\ f \in [D -> Nat]
  OBVIOUS
<1>3. \A d, x \in D : Earlier(f, x, d) <=> x > d
  BY DEF Earlier
<1>4. \A d \in D : Cardinality(Above(D, d)) = Rank(f, d)
  <2>1. TAKE d \in D
  <2>2. Above(D, d) = EarlierThan(f, d)
    BY <1>3 DEF Above, EarlierThan
  <2> QED
    BY <2>2 DEF Rank
<1> HIDE DEF f, N, c
<1>5. /\ \A d \in D : Rank(f, d) \in 0 .. N - 1
      /\ \A d, x \in D : Earlier(f, x, d) => Rank(f, x) < Rank(f, d)
      /\ \A d, x \in D : Rank(f, x) = Rank(f, d) => x = d
      /\ \A r \in 0 .. N - 1 : \E d \in D : Rank(f, d) = r
  BY <1>1, <1>2, RankBound, RankMonotone, RankInjective, RankOnto DEF N
<1>6. ASSUME NEW k \in 1 .. N
      PROVE  c(k) \in D /\ Rank(f, c(k)) = k - 1
  <2>1. k - 1 \in 0 .. N - 1
    BY <1>1
  <2>2. \E d \in D : Cardinality(Above(D, d)) = k - 1
    BY <1>4, <1>5, <2>1
  <2>3. c(k) = CHOOSE d \in D : Cardinality(Above(D, d)) = k - 1
    BY DEF NthLargest, c
  <2>4. c(k) \in D /\ Cardinality(Above(D, c(k))) = k - 1
    BY <2>2, <2>3
  <2> QED
    BY <1>4, <2>4
<1>7. ASSUME NEW k \in 1 .. N, NEW l \in 1 .. N, k < l
      PROVE  c(l) < c(k)
  <2>1. c(k) \in D /\ c(l) \in D /\ Rank(f, c(k)) = k - 1 /\ Rank(f, c(l)) = l - 1
    BY <1>6
  <2>2. c(k) # c(l)
    BY <1>1, <1>7, <2>1
  <2>3. ~Earlier(f, c(l), c(k))
    <3>1. Earlier(f, c(l), c(k)) => Rank(f, c(l)) < Rank(f, c(k))
      BY <1>5, <2>1
    <3>2. ~(l - 1 < k - 1)
      BY <1>1, <1>7
    <3> QED
      BY <2>1, <3>1, <3>2
  <2>4. ~(c(l) > c(k))
    BY <1>3, <2>1, <2>3
  <2>5. c(k) \in Nat /\ c(l) \in Nat
    BY <1>2, <2>1
  <2> QED
    BY <2>2, <2>4, <2>5
<1>8. ASSUME NEW d \in D
      PROVE  \E k \in 1 .. N : c(k) = d
  <2>1. Rank(f, d) + 1 \in 1 .. N /\ (Rank(f, d) + 1) - 1 = Rank(f, d)
    BY <1>1, <1>5
  <2>2. c(Rank(f, d) + 1) = d
    BY <1>5, <1>6, <2>1
  <2> QED
    BY <2>1, <2>2
<1> QED
  BY <1>1, <1>6, <1>7, <1>8 DEF N, c

\* The ranges that are pushed tile the range that is partitioned, from its end
\* to its front, and each takes the nodes with one byte.
LEMMA BucketsTile ==
  ASSUME InputsOK, NodesAreKept, NEW T \in StackRanges, T.begin < T.end, T.digit < PrefixBytes,
         NEW B, B = BucketRanges(T)
  PROVE  LET S == PositionsOf(T) IN
         /\ B \in Seq(StackRanges) /\ Len(B) \in Nat \ {0}
         /\ \A k \in 1 .. Len(B) :
              /\ B[k] \in StackRanges /\ B[k].digit = T.digit + 1
              /\ T.begin <= B[k].begin /\ B[k].begin < B[k].end /\ B[k].end <= T.end
         /\ \A k, l \in 1 .. Len(B) : k < l => B[l].end <= B[k].begin
         /\ \A k \in 1 .. Len(B) - 1 : B[k].begin = B[k + 1].end
         /\ B[1].end = T.end /\ B[Len(B)].begin = T.begin
         /\ \A k \in 1 .. Len(B) : \A i, j \in S :
              Target(T, i) \in PositionsOf(B[k]) /\ Target(T, j) \in PositionsOf(B[k])
                => DigitOf(order[i], T.digit) = DigitOf(order[j], T.digit)
         /\ \A i, j \in S : DigitOf(order[i], T.digit) = DigitOf(order[j], T.digit) =>
              \E k \in 1 .. Len(B) :
                Target(T, i) \in PositionsOf(B[k]) /\ Target(T, j) \in PositionsOf(B[k])
<1> DEFINE S == PositionsOf(T)
           D == DigitsIn(T)
           N == Cardinality(D)
           c == [k \in 1 .. N |-> NthLargest(D, k)]
           Start(x) == BucketStart(T, x)
           Digit(i) == DigitOf(order[i], T.digit)
<1>1. /\ T.begin \in 0 .. size /\ T.end \in 0 .. size /\ T.digit \in 0 .. PrefixBytes - 1
      /\ size \in Nat /\ PrefixBytes \in 1 .. 4 /\ Radix \in Nat \ {0, 1}
  <2>1. size \in Nat /\ T.begin \in 0 .. size /\ T.end \in 0 .. size /\ T.digit \in 0 .. PrefixBytes
        /\ Radix \in Nat \ {0, 1}
    BY Inputs DEF StackRanges
  <2>2. size > 0
    BY <2>1
  <2>3. PrefixBytes \in 1 .. 4
    BY <2>2, BytesSpellDepth
  <2> QED
    BY <2>1, <2>3
<1>2. /\ \A i \in S : Target(T, i) \in S
      /\ \A i \in S : \A x \in Nat : Digit(i) < x <=> Target(T, i) < Start(x)
      /\ \A p \in S : \E i \in S : Target(T, i) = p
      /\ \A i \in S : Digit(i) \in 0 .. Radix - 1
  BY TargetFacts
<1>3. /\ \A x \in Nat : Start(x) \in T.begin .. T.end
      /\ \A x, y \in Nat : x <= y => Start(x) <= Start(y)
      /\ \A x, y \in Nat : x <= y /\ (\A i \in S : ~(x <= Digit(i) /\ Digit(i) < y)) => Start(x) = Start(y)
      /\ \A x \in Nat : (\A i \in S : Digit(i) < x) => Start(x) = T.end
      /\ \A x \in Nat : (\A i \in S : x <= Digit(i)) => Start(x) = T.begin
  BY BucketFacts
<1>4. /\ D \in SUBSET (0 .. Radix - 1) /\ Radix - 1 \in Nat
      /\ \A i \in S : Digit(i) \in D
      /\ \A d \in D : \E i \in S : Digit(i) = d
  BY <1>1, <1>2 DEF DigitsIn
<1>5. T.begin \in S /\ \A i \in S : i \in Int /\ T.begin <= i /\ i < T.end
  BY <1>1 DEF PositionsOf
<1>6. /\ N \in Nat
      /\ \A k \in 1 .. N : c[k] \in D
      /\ \A k, l \in 1 .. N : k < l => c[l] < c[k]
      /\ \A d \in D : \E k \in 1 .. N : c[k] = d
  <2> DEFINE r == Radix - 1
  <2>1. D \in SUBSET (0 .. r) /\ r \in Nat
    BY <1>4
  <2>2. \A k \in 1 .. N : c[k] = NthLargest(D, k)
    OBVIOUS
  <2> HIDE DEF c, D, r
  <2>3. /\ Cardinality(D) \in Nat
        /\ \A k \in 1 .. Cardinality(D) : NthLargest(D, k) \in D
        /\ \A k, l \in 1 .. Cardinality(D) : k < l => NthLargest(D, l) < NthLargest(D, k)
        /\ \A d \in D : \E k \in 1 .. Cardinality(D) : NthLargest(D, k) = d
    BY <2>1, DigitsDescend
  <2> QED
    BY <2>2, <2>3
<1>7. N \in Nat \ {0}
  BY <1>4, <1>5, <1>6
<1>8. B = [k \in 1 .. N |-> [begin |-> Start(c[k]), end |-> Start(c[k] + 1), digit |-> T.digit + 1]]
  BY DEF BucketRanges, BucketRange, NthLargest
<1> HIDE DEF S, D, N, c, Start, Digit
<1>9. \A d \in D : d \in Nat /\ d + 1 \in Nat
  BY <1>4
<1>10. \A k \in 1 .. N : c[k] \in D /\ c[k] \in Nat /\ c[k] + 1 \in Nat
  BY <1>6, <1>9
<1>11. /\ Len(B) = N
       /\ \A k \in 1 .. N : B[k] = [begin |-> Start(c[k]), end |-> Start(c[k] + 1), digit |-> T.digit + 1]
  BY <1>7, <1>8
<1>12. \A i \in S : Target(T, i) \in Int /\ Digit(i) \in Nat
  BY <1>2, <1>4, <1>5, <1>9
<1>13. \A i \in S : \A d \in D : Digit(i) = d <=> Start(d) <= Target(T, i) /\ Target(T, i) < Start(d + 1)
  <2>1. TAKE i \in S
  <2>2. TAKE d \in D
  <2>3. (Digit(i) < d <=> Target(T, i) < Start(d)) /\ (Digit(i) < d + 1 <=> Target(T, i) < Start(d + 1))
    BY <1>2, <1>9
  <2>4. Start(d) \in Int /\ Start(d + 1) \in Int /\ Target(T, i) \in Int /\ Digit(i) \in Nat /\ d \in Nat
    BY <1>1, <1>3, <1>9, <1>12
  <2> QED
    BY <2>3, <2>4
<1>14. ASSUME NEW k \in 1 .. N
       PROVE  /\ B[k] \in StackRanges /\ B[k].digit = T.digit + 1
              /\ T.begin <= B[k].begin /\ B[k].begin < B[k].end /\ B[k].end <= T.end
  <2>1. PICK i \in S : Digit(i) = c[k]
    BY <1>4, <1>10
  <2>2. Start(c[k]) <= Target(T, i) /\ Target(T, i) < Start(c[k] + 1) /\ Target(T, i) \in Int
    BY <1>10, <1>12, <1>13, <2>1
  <2>3. Start(c[k]) \in T.begin .. T.end /\ Start(c[k] + 1) \in T.begin .. T.end
    BY <1>3, <1>10
  <2> QED
    BY <1>1, <1>11, <2>2, <2>3 DEF StackRanges
<1>15. ASSUME NEW k \in 1 .. N, NEW l \in 1 .. N, k < l
       PROVE  B[l].end <= B[k].begin
  <2>1. c[l] + 1 <= c[k]
    BY <1>6, <1>10, <1>15
  <2> QED
    BY <1>3, <1>10, <1>11, <2>1
<1>16. ASSUME NEW k \in 1 .. N - 1
       PROVE  B[k].begin = B[k + 1].end
  <2>1. k \in 1 .. N /\ k + 1 \in 1 .. N /\ k < k + 1
    BY <1>7
  <2>2. c[k + 1] + 1 <= c[k] /\ c[k] \in Nat /\ c[k + 1] \in Nat
    BY <1>6, <1>10, <2>1
  <2>3. \A d \in D : ~(c[k + 1] + 1 <= d /\ d < c[k])
    <3>1. SUFFICES ASSUME NEW l \in 1 .. N, c[k + 1] + 1 <= c[l], c[l] < c[k] PROVE FALSE
      BY <1>6
    <3>2. c[l] \in Nat
      BY <1>10
    <3>3. ~(l < k)
      BY <1>6, <2>1, <2>2, <3>1, <3>2
    <3>4. ~(k + 1 < l)
      BY <1>6, <2>1, <2>2, <3>1, <3>2
    <3>5. l # k /\ l # k + 1
      BY <2>2, <3>1, <3>2
    <3> QED
      BY <2>1, <3>3, <3>4, <3>5
  <2>4. \A i \in S : ~(c[k + 1] + 1 <= Digit(i) /\ Digit(i) < c[k])
    BY <1>4, <2>3
  <2>5. Start(c[k + 1] + 1) = Start(c[k])
    BY <1>3, <1>10, <2>1, <2>2, <2>4
  <2> QED
    BY <1>11, <2>1, <2>5
<1>17. B[1].end = T.end /\ B[N].begin = T.begin
  <2>1. 1 \in 1 .. N /\ N \in 1 .. N
    BY <1>7
  <2>2. \A d \in D : d < c[1] + 1 /\ c[N] <= d
    <3>1. SUFFICES ASSUME NEW l \in 1 .. N PROVE c[l] < c[1] + 1 /\ c[N] <= c[l]
      BY <1>6
    <3>2. l = 1 \/ c[l] < c[1]
      BY <1>6, <2>1
    <3>3. l = N \/ c[N] < c[l]
      BY <1>6, <2>1
    <3>4. c[l] \in Nat /\ c[1] \in Nat /\ c[N] \in Nat
      BY <1>10, <2>1
    <3> QED
      BY <3>2, <3>3, <3>4
  <2>3. \A i \in S : Digit(i) < c[1] + 1 /\ c[N] <= Digit(i)
    BY <1>4, <2>2
  <2>4. Start(c[1] + 1) = T.end /\ Start(c[N]) = T.begin
    BY <1>3, <1>10, <2>1, <2>3
  <2> QED
    BY <1>11, <2>1, <2>4
<1>18. \A k \in 1 .. N : \A i \in S : Target(T, i) \in PositionsOf(B[k]) <=> Digit(i) = c[k]
  <2>1. TAKE k \in 1 .. N
  <2>2. TAKE i \in S
  <2>3. Start(c[k]) \in Int /\ Start(c[k] + 1) \in Int /\ Target(T, i) \in Int
    BY <1>1, <1>3, <1>10, <1>12
  <2>4. PositionsOf(B[k]) = Start(c[k]) .. Start(c[k] + 1) - 1
    BY <1>11 DEF PositionsOf
  <2>5. Digit(i) = c[k] <=> Start(c[k]) <= Target(T, i) /\ Target(T, i) < Start(c[k] + 1)
    BY <1>10, <1>13
  <2> QED
    BY <2>3, <2>4, <2>5
<1>19. B \in Seq(StackRanges)
  BY <1>7, <1>8, <1>11, <1>14, IsASeq
<1>20. \A i, j \in S : Digit(i) = Digit(j) =>
         \E k \in 1 .. N : Target(T, i) \in PositionsOf(B[k]) /\ Target(T, j) \in PositionsOf(B[k])
  BY <1>4, <1>6, <1>18
<1>21. \A k \in 1 .. N : \A i, j \in S :
         Target(T, i) \in PositionsOf(B[k]) /\ Target(T, j) \in PositionsOf(B[k]) => Digit(i) = Digit(j)
  BY <1>18
<1> QED
  BY <1>7, <1>11, <1>14, <1>15, <1>16, <1>17, <1>19, <1>20, <1>21 DEF S, Digit

\* The order after a partition: a permutation, in which the nodes of the range
\* are at their targets.
LEMMA PartitionedFacts ==
  ASSUME InputsOK, NodesAreKept, NEW T \in StackRanges, T.begin < T.end, T.digit < PrefixBytes,
         NEW q, q = Partitioned(T)
  PROVE  LET S == PositionsOf(T) IN
         /\ q \in Permutations
         /\ \A i \in S : Target(T, i) \in S /\ q[Target(T, i)] = order[i]
         /\ \A p \in S : \E i \in S : Target(T, i) = p /\ q[p] = order[i]
         /\ \A p \in Positions \ S : q[p] = order[p]
<1> DEFINE S == PositionsOf(T)
<1>1. S \subseteq Positions
  BY Inputs DEF StackRanges, PositionsOf
<1>2. /\ \A i \in S : Target(T, i) \in S
      /\ \A i, j \in S : Target(T, i) = Target(T, j) => i = j
      /\ \A p \in S : \E i \in S : Target(T, i) = p
  BY TargetFacts
<1>3. order \in [Positions -> Nodes] /\ \A i, j \in Positions : order[i] = order[j] => i = j
  BY DEF NodesAreKept, Permutations
<1>4. /\ q = [p \in Positions |->
                IF p \in S THEN order[CHOOSE i \in S : Target(T, i) = p] ELSE order[p]]
  BY DEF Partitioned
<1> HIDE DEF S
<1>5. \A p \in Positions \ S : q[p] = order[p]
  BY <1>4
<1>6. ASSUME NEW i \in S
      PROVE  q[Target(T, i)] = order[i]
  <2>1. (CHOOSE j \in S : Target(T, j) = Target(T, i)) = i
    BY <1>2
  <2>2. Target(T, i) \in S /\ Target(T, i) \in Positions
    BY <1>1, <1>2
  <2> QED
    BY <1>4, <2>1, <2>2
<1>7. \A p \in S : \E i \in S : Target(T, i) = p /\ q[p] = order[i]
  BY <1>2, <1>6
<1>8. \A p \in Positions : \E i \in Positions : q[p] = order[i] /\ (p \in S => i \in S /\ Target(T, i) = p)
                                                /\ (p \notin S => i = p)
  BY <1>1, <1>5, <1>7
<1>9. q \in [Positions -> Nodes]
  BY <1>3, <1>4, <1>8
<1>10. ASSUME NEW p \in Positions, NEW r \in Positions, q[p] = q[r]
       PROVE  p = r
  <2>1. PICK i \in Positions : q[p] = order[i] /\ (p \in S => i \in S /\ Target(T, i) = p) /\ (p \notin S => i = p)
    BY <1>8
  <2>2. PICK j \in Positions : q[r] = order[j] /\ (r \in S => j \in S /\ Target(T, j) = r) /\ (r \notin S => j = r)
    BY <1>8
  <2>3. i = j
    BY <1>3, <1>10, <2>1, <2>2
  <2> QED
    BY <2>1, <2>2, <2>3
<1>11. q \in Permutations
  BY <1>9, <1>10 DEF Permutations
<1> QED
  BY <1>2, <1>5, <1>6, <1>7, <1>11 DEF S

\* The top range shares no position with the ranges below it or with the ranges told.
LEMMA TopIsApart ==
  ASSUME InputsOK, TypeOK, ToldInv, StackInv, stack # <<>>
  PROVE  /\ \A k \in 1 .. Len(stack) - 1 : \A i \in PositionsOf(stack[k]) : i \in Positions \ PositionsOf(Top)
         /\ \A k \in 1 .. Len(ranges) : \A i \in PositionsOf(ranges[k]) : i \in Positions \ PositionsOf(Top)
<1>1. /\ size \in Nat /\ Positions = 0 .. size - 1
      /\ Len(stack) \in 1 .. Len(stack) /\ Top = stack[Len(stack)] /\ Len(stack) \in Nat
  BY Inputs, ToldBelowStack, StackTyped
<1>2. Top.begin \in 0 .. size /\ Top.end \in 0 .. size /\ Top.begin = ToldEnd
  BY <1>1, StackTyped DEF StackInv
<1>3. ASSUME NEW k \in 1 .. Len(stack) - 1, NEW i \in PositionsOf(stack[k])
      PROVE  i \in Positions \ PositionsOf(Top)
  <2>1. k \in 1 .. Len(stack)
    BY <1>1
  <2>2. stack[k].begin \in 0 .. size /\ stack[k].end \in 0 .. size /\ Top.end <= stack[k].begin
    BY <2>1, StackTyped, ToldBelowStack
  <2> QED
    BY <1>1, <1>2, <2>2 DEF PositionsOf
<1>4. ASSUME NEW k \in 1 .. Len(ranges), NEW i \in PositionsOf(ranges[k])
      PROVE  i \in Positions \ PositionsOf(Top)
  <2>1. ranges[k].begin \in 0 .. size /\ ranges[k].end \in 0 .. size /\ ranges[k].end <= Top.begin
    BY <1>2, RangesTyped, ToldBelowStack
  <2> QED
    BY <1>1, <1>2, <2>1 DEF PositionsOf
<1> QED
  BY <1>3, <1>4

\* A partition rearranges one range and replaces it by its buckets.
LEMMA PartitionRangeKeeps ==
  ASSUME GroupInv, PartitionRange
  PROVE  GroupInv'
<1>1. /\ InputsOK /\ TypeOK /\ NodesAreKept /\ ToldInv /\ StackInv /\ AgreeInv /\ SeparateInv
      /\ size \in Nat /\ Positions = 0 .. size - 1 /\ size > 1
      /\ pc = "partition" /\ pc' = "partition" /\ stack # <<>> /\ ~IsFinished(Top)
      /\ UNCHANGED inputs /\ ranges' = ranges
  BY Inputs DEF GroupInv, StackInv, PartitionRange
<1> DEFINE L == Len(stack)
           T == Top
           S == PositionsOf(T)
           g == T.digit
           B == BucketRanges(T)
           M == Len(B)
           q == order'
           Digit(i) == DigitOf(order[i], g)
<1>2. L \in 1 .. L /\ L \in Nat /\ T = stack[L]
  BY <1>1, StackTyped DEF Top
<1>3. /\ T \in StackRanges /\ T.begin \in 0 .. size /\ T.end \in 0 .. size /\ T.begin < T.end
      /\ g \in 0 .. PrefixBytes /\ g < PrefixBytes /\ T.begin = ToldEnd
  <2>1. /\ T \in StackRanges /\ T.begin \in 0 .. size /\ T.end \in 0 .. size /\ T.begin < T.end
        /\ g \in 0 .. PrefixBytes /\ T.begin = ToldEnd
    BY <1>1, <1>2, StackTyped DEF StackInv
  <2>2. PrefixBytes \in Nat
    BY <1>1, BytesSpellDepth
  <2> QED
    BY <1>1, <2>1, <2>2 DEF IsFinished
<1>4. /\ B \in Seq(StackRanges) /\ M \in Nat \ {0}
      /\ \A k \in 1 .. M :
           /\ B[k] \in StackRanges /\ B[k].digit = g + 1
           /\ T.begin <= B[k].begin /\ B[k].begin < B[k].end /\ B[k].end <= T.end
      /\ \A k, l \in 1 .. M : k < l => B[l].end <= B[k].begin
      /\ \A k \in 1 .. M - 1 : B[k].begin = B[k + 1].end
      /\ B[1].end = T.end /\ B[M].begin = T.begin
      /\ \A k \in 1 .. M : \A i, j \in S :
           Target(T, i) \in PositionsOf(B[k]) /\ Target(T, j) \in PositionsOf(B[k]) => Digit(i) = Digit(j)
      /\ \A i, j \in S : Digit(i) = Digit(j) =>
           \E k \in 1 .. M : Target(T, i) \in PositionsOf(B[k]) /\ Target(T, j) \in PositionsOf(B[k])
  <2>1. T \in StackRanges /\ T.begin < T.end /\ T.digit < PrefixBytes /\ B = BucketRanges(T)
    BY <1>3
  <2> HIDE DEF B, T
  <2> QED
    BY <1>1, <2>1, BucketsTile
<1>5. /\ q \in Permutations
      /\ \A p \in S : \E i \in S : Target(T, i) = p /\ q[p] = order[i]
      /\ \A p \in Positions \ S : q[p] = order[p]
  BY <1>1, <1>3, PartitionedFacts DEF PartitionRange
<1>6. /\ \A i, j \in S : Precedes(i, j, g) => Target(T, i) < Target(T, j)
      /\ \A i \in S : Target(T, i) \in S
      /\ \A i \in S : Digit(i) \in 0 .. Radix - 1
  BY <1>1, <1>3, TargetFacts
<1>7. /\ Popped \in Seq(StackRanges) /\ Len(Popped) = L - 1
      /\ \A k \in 1 .. L - 1 : Popped[k] = stack[k]
  BY <1>1, PoppedIsRest
<1>8. stack' = Popped \o B
  BY DEF PartitionRange
<1>9. S = T.begin .. T.end - 1 /\ S \subseteq Positions /\ \A i \in S : i \in Int
  BY <1>1, <1>3 DEF PositionsOf
<1>10. /\ \A k \in 1 .. L - 1 : \A i \in PositionsOf(stack[k]) : i \in Positions \ S
       /\ \A k \in 1 .. Len(ranges) : \A i \in PositionsOf(ranges[k]) : i \in Positions \ S
       /\ \A k \in 1 .. L - 1 : T.end <= stack[k].begin
  BY <1>1, TopIsApart, ToldBelowStack
<1>11. /\ Positions' = Positions /\ PrefixBytes' = PrefixBytes /\ depths' = depths /\ size' = size
       /\ Permutations' = Permutations /\ StackRanges' = StackRanges /\ Nodes' = Nodes
       /\ InputsOK'
       /\ \A m, n : CameBefore(m, n)' <=> CameBefore(m, n)
       /\ \A x, h : Leading(x, h)' = Leading(x, h)
       /\ \A n, h : DigitOf(n, h)' = DigitOf(n, h)
  BY <1>1, InputsStay
<1> HIDE DEF L, T, S, g, B, M, q, Digit
\* The new stack, range by range.
<1>12. /\ stack' \in Seq(StackRanges) /\ Len(stack') = (L - 1) + M
       /\ \A k \in 1 .. L - 1 : stack'[k] = stack[k]
       /\ \A m \in 1 .. M : stack'[(L - 1) + m] = B[m]
       /\ \A k \in 1 .. (L - 1) + M : k \in 1 .. L - 1 \/ \E m \in 1 .. M : k = (L - 1) + m
  <2>1. /\ stack' \in Seq(StackRanges) /\ Len(stack') = (L - 1) + M
        /\ \A k \in 1 .. (L - 1) + M : stack'[k] = IF k <= L - 1 THEN Popped[k] ELSE B[k - (L - 1)]
    <3>1. /\ Popped \o B \in Seq(StackRanges) /\ Len(Popped \o B) = Len(Popped) + Len(B)
          /\ \A k \in 1 .. Len(Popped) + Len(B) :
               (Popped \o B)[k] = IF k <= Len(Popped) THEN Popped[k] ELSE B[k - Len(Popped)]
      BY <1>4, <1>7, ConcatProperties
    <3>2. Len(Popped) = L - 1 /\ Len(B) = M
      BY <1>7 DEF M
    <3> QED
      BY <1>8, <3>1, <3>2
  <2>2. ASSUME NEW k \in 1 .. L - 1
        PROVE  stack'[k] = stack[k]
    <3>1. k \in 1 .. (L - 1) + M /\ k <= L - 1
      BY <1>2, <1>4
    <3> QED
      BY <1>7, <2>1, <3>1
  <2>3. ASSUME NEW m \in 1 .. M
        PROVE  stack'[(L - 1) + m] = B[m]
    <3> DEFINE k == (L - 1) + m
    <3>1. k \in 1 .. (L - 1) + M /\ ~(k <= L - 1) /\ k - (L - 1) = m
      BY <1>2, <1>4
    <3> HIDE DEF k
    <3>2. stack'[k] = B[m]
      BY <2>1, <3>1
    <3> QED
      BY <3>2 DEF k
  <2>4. ASSUME NEW k \in 1 .. (L - 1) + M, k \notin 1 .. L - 1
        PROVE  \E m \in 1 .. M : k = (L - 1) + m
    <3>1. k - (L - 1) \in 1 .. M /\ k = (L - 1) + (k - (L - 1))
      BY <1>2, <1>4, <2>4
    <3> QED
      BY <3>1
  <2> QED
    BY <2>1, <2>2, <2>3, <2>4
<1>13. NodesAreKept' /\ order' \in [Positions -> Nodes]
  BY <1>5, <1>11 DEF NodesAreKept, Permutations, q
<1>14. ToldInv' /\ ToldEnd' = ToldEnd
  <2>1. \A k \in 1 .. Len(ranges) : \A i \in PositionsOf(ranges[k]) : q[i] = order[i]
    BY <1>5, <1>10
  <2>2. \A k \in 1 .. Len(ranges) : {q[i] : i \in PositionsOf(ranges[k])} = {order[i] : i \in PositionsOf(ranges[k])}
    BY <2>1
  <2> QED
    BY <1>1, <1>11, <2>2 DEF ToldInv, ToldEnd, PositionsOf, q
<1>15. StackInv'
  <2>1. /\ L - 1 \in Nat /\ L \in Nat /\ M \in Nat \ {0} /\ \A k \in 1 .. L - 1 : k \in 1 .. L
    BY <1>2, <1>4
  <2>2. /\ \A k \in 1 .. L : stack[k].begin < stack[k].end
        /\ \A k, l \in 1 .. L : k < l => stack[l].end <= stack[k].begin
        /\ \A k \in 1 .. L - 1 : stack[k].begin = stack[k + 1].end
        /\ stack[1].end = size
    BY <1>1 DEF StackInv, L
  <2>3. \A k \in 1 .. L - 1 : stack[k].begin \in Nat /\ stack[k].end \in Nat
    BY <1>1, <2>1, StackTyped DEF L
  <2>4. \A m \in 1 .. M : B[m].begin \in Nat /\ B[m].end \in Nat
    BY <1>1, <1>4 DEF StackRanges
  <2>5. ASSUME NEW k \in 1 .. (L - 1) + M
        PROVE  stack'[k].begin < stack'[k].end
    BY <1>4, <1>12, <2>1, <2>2
  <2>6. ASSUME NEW k \in 1 .. (L - 1) + M, NEW l \in 1 .. (L - 1) + M, k < l
        PROVE  stack'[l].end <= stack'[k].begin
    <3>1. CASE k \in 1 .. L - 1 /\ l \in 1 .. L - 1
      BY <1>12, <2>1, <2>2, <2>6, <3>1
    <3>2. CASE k \in 1 .. L - 1 /\ l \notin 1 .. L - 1
      <4>1. PICK m \in 1 .. M : l = (L - 1) + m
        BY <1>12, <3>2
      <4>2. B[m].end <= T.end /\ T.end <= stack[k].begin
        BY <1>4, <1>10, <3>2
      <4> QED
        BY <1>1, <1>3, <1>12, <2>3, <2>4, <3>2, <4>1, <4>2, SMTT(20)
    <3>3. CASE k \notin 1 .. L - 1
      <4>1. PICK m \in 1 .. M : k = (L - 1) + m
        BY <1>12, <3>3
      <4>2. l \notin 1 .. L - 1
        BY <2>1, <2>6, <3>3
      <4>3. PICK n \in 1 .. M : l = (L - 1) + n
        BY <1>12, <4>2
      <4>4. m < n
        BY <2>1, <2>6, <4>1, <4>3
      <4> QED
        BY <1>4, <1>12, <4>1, <4>3, <4>4
    <3> QED
      BY <3>1, <3>2, <3>3
  <2>7. ASSUME NEW k \in 1 .. (L - 1) + M - 1
        PROVE  stack'[k].begin = stack'[k + 1].end
    <3>1. CASE k + 1 \in 1 .. L - 1
      <4>1. k \in 1 .. L - 1
        BY <2>1, <3>1
      <4> QED
        BY <1>12, <2>2, <3>1, <4>1
    <3>2. CASE k = L - 1
      <4>1. k \in 1 .. L - 1 /\ k + 1 = (L - 1) + 1 /\ k + 1 = L /\ 1 \in 1 .. M
        BY <2>1, <3>2
      <4>2. stack'[k].begin = T.end
        BY <1>2, <1>12, <2>2, <4>1
      <4>3. stack'[k + 1] = B[1]
        BY <1>12, <4>1
      <4> QED
        BY <1>4, <4>2, <4>3
    <3>3. CASE k > L - 1
      <4>1. /\ k - (L - 1) \in 1 .. M - 1 /\ k - (L - 1) \in 1 .. M /\ (k - (L - 1)) + 1 \in 1 .. M
            /\ k = (L - 1) + (k - (L - 1)) /\ k + 1 = (L - 1) + ((k - (L - 1)) + 1)
        BY <2>1, <3>3
      <4>2. PICK m \in 1 .. M - 1 : m \in 1 .. M /\ m + 1 \in 1 .. M /\ k = (L - 1) + m /\ k + 1 = (L - 1) + (m + 1)
        BY <4>1
      <4>3. stack'[k] = B[m] /\ stack'[k + 1] = B[m + 1]
        BY <1>12, <4>2
      <4> QED
        BY <1>4, <4>3
    <3> QED
      BY <2>1, <3>1, <3>2, <3>3
  <2>8. stack' # <<>>
    BY <1>12, <2>1
  <2>9. stack'[1].end = size
    <3>1. CASE L = 1
      <4>1. 1 \in 1 .. M /\ (L - 1) + 1 = 1
        BY <2>1, <3>1
      <4>2. stack'[1] = B[1]
        BY <1>12, <4>1
      <4> QED
        BY <1>2, <1>4, <2>2, <3>1, <4>2
    <3>2. CASE L # 1
      <4>1. 1 \in 1 .. L - 1
        BY <1>2, <3>2
      <4> QED
        BY <1>12, <2>2, <4>1
    <3> QED
      BY <3>1, <3>2
  <2>10. Top'.begin = ToldEnd'
    <3>1. M \in 1 .. M
      BY <2>1
    <3>2. Top' = B[M]
      BY <1>12, <3>1 DEF Top
    <3> QED
      BY <1>3, <1>4, <1>14, <3>2
  <2>11. Len(stack') = (L - 1) + M /\ size' = size /\ size > 1
    BY <1>1, <1>11, <1>12
  <2>12. /\ \A k \in 1 .. Len(stack') : stack'[k].begin < stack'[k].end
         /\ \A k, l \in 1 .. Len(stack') : k < l => stack'[l].end <= stack'[k].begin
         /\ \A k \in 1 .. Len(stack') - 1 : stack'[k].begin = stack'[k + 1].end
    <3>1. \A k \in 1 .. Len(stack') : stack'[k].begin < stack'[k].end
      BY <2>5, <2>11
    <3>2. \A k, l \in 1 .. Len(stack') : k < l => stack'[l].end <= stack'[k].begin
      BY <2>6, <2>11
    <3>3. Len(stack') - 1 = (L - 1) + M - 1
      BY <2>1, <2>11
    <3>4. \A k \in 1 .. Len(stack') - 1 : stack'[k].begin = stack'[k + 1].end
      BY <2>7, <3>3
    <3> QED
      BY <3>1, <3>2, <3>4
  <2> QED
    BY <2>8, <2>9, <2>10, <2>11, <2>12 DEF StackInv
\* The nodes of the range before the partition.
<1>16. \A i, j \in S :
         /\ Leading(depths[order[i]], g) = Leading(depths[order[j]], g)
         /\ \A digit \in 0 .. g - 1 : DigitOf(order[i], digit) = DigitOf(order[j], digit)
         /\ i < j => CameBefore(order[i], order[j])
  BY <1>1, <1>2 DEF AgreeInv, S, g, L
<1>17. \A i \in S :
         /\ order[i] \in Nodes /\ Digit(i) \in Nat
         /\ Leading(depths[order[i]], g) \in Nat
         /\ Leading(depths[order[i]], g + 1) = Radix * Leading(depths[order[i]], g) + Digit(i)
  <2>1. TAKE i \in S
  <2>2. order[i] \in Nodes /\ size > 0 /\ g \in 0 .. PrefixBytes - 1
    <3>1. order[i] \in Nodes
      BY <1>1, <1>9, OrderTyped
    <3>2. size > 0
      BY <1>1
    <3>3. PrefixBytes \in Nat
      BY <1>1, <3>2, BytesSpellDepth
    <3> QED
      BY <1>3, <3>1, <3>2, <3>3
  <2>3. /\ Leading(depths[order[i]], g) \in Nat
        /\ Leading(depths[order[i]], g + 1) = Radix * Leading(depths[order[i]], g) + DigitOf(order[i], g)
        /\ DigitOf(order[i], g) \in 0 .. Radix - 1
    BY <1>1, <1>3, <2>2, BytesSpellDepth
  <2> QED
    BY <1>1, <2>2, <2>3, Inputs DEF Digit
\* The node now at a position of the range, and where it was.
<1>18. \A p \in S : \E i \in S : Target(T, i) = p /\ q[p] = order[i]
  BY <1>5
<1>19. ASSUME NEW i \in S, NEW j \in S, Digit(i) = Digit(j), Target(T, i) < Target(T, j)
       PROVE  i < j
  <2>1. i \in Int /\ j \in Int /\ Target(T, i) \in Int /\ Target(T, j) \in Int
    BY <1>6, <1>9
  <2>2. CASE j < i
    <3>1. Precedes(j, i, g)
      BY <1>19, <2>2 DEF Precedes, Digit
    <3>2. Target(T, j) < Target(T, i)
      BY <1>6, <3>1
    <3> QED
      BY <1>19, <2>1, <3>2
  <2>3. i # j
    BY <1>19, <2>1
  <2> QED
    BY <2>1, <2>2, <2>3
<1>20. ASSUME NEW i \in S, NEW j \in S, Digit(i) # Digit(j), Target(T, i) < Target(T, j)
       PROVE  depths[order[i]] < depths[order[j]]
  <2>1. Target(T, i) \in Int /\ Target(T, j) \in Int
    BY <1>6, <1>9
  <2>2. ~(Digit(j) < Digit(i))
    <3>1. Digit(j) < Digit(i) => Precedes(j, i, g)
      BY DEF Precedes, Digit
    <3> QED
      BY <1>6, <1>20, <2>1, <3>1
  <2>3. Digit(i) < Digit(j)
    BY <1>17, <1>20, <2>2
  <2> DEFINE x == Leading(depths[order[i]], g)
  <2>4. /\ Leading(depths[order[i]], g + 1) = Radix * x + Digit(i)
        /\ Leading(depths[order[j]], g + 1) = Radix * x + Digit(j)
        /\ x \in Nat /\ Digit(i) \in Nat /\ Digit(j) \in Nat /\ Radix \in Nat
    BY <1>1, <1>16, <1>17, Inputs
  <2> HIDE DEF x
  <2>5. Radix * x \in Nat
    BY <2>4
  <2>6. Leading(depths[order[i]], g + 1) < Leading(depths[order[j]], g + 1)
    BY <2>3, <2>4, <2>5
  <2>7. g + 1 \in 0 .. PrefixBytes /\ size > 0
    <3>1. PrefixBytes \in Nat
      BY <1>1, BytesSpellDepth
    <3> QED
      BY <1>1, <1>3, <3>1
  <2> QED
    BY <1>1, <1>17, <2>6, <2>7, BytesSpellDepth
<1>21. AgreeInv'
  <2>1. ASSUME NEW k \in 1 .. L - 1, NEW i \in PositionsOf(stack[k]), NEW j \in PositionsOf(stack[k])
        PROVE  /\ Leading(depths[q[i]], stack[k].digit) = Leading(depths[q[j]], stack[k].digit)
               /\ \A digit \in 0 .. stack[k].digit - 1 : DigitOf(q[i], digit) = DigitOf(q[j], digit)
               /\ i < j => CameBefore(q[i], q[j])
    <3>1. q[i] = order[i] /\ q[j] = order[j]
      BY <1>5, <1>10
    <3>2. k \in 1 .. Len(stack)
      BY <1>2 DEF L
    <3> QED
      BY <1>1, <3>1, <3>2 DEF AgreeInv
  <2>2. ASSUME NEW m \in 1 .. M, NEW i \in PositionsOf(B[m]), NEW j \in PositionsOf(B[m])
        PROVE  /\ Leading(depths[q[i]], g + 1) = Leading(depths[q[j]], g + 1)
               /\ \A digit \in 0 .. g : DigitOf(q[i], digit) = DigitOf(q[j], digit)
               /\ i < j => CameBefore(q[i], q[j])
    <3>1. i \in S /\ j \in S
      <4>1. /\ B[m].begin \in 0 .. size /\ B[m].end \in 0 .. size
            /\ T.begin <= B[m].begin /\ B[m].end <= T.end
        BY <1>4 DEF StackRanges
      <4> QED
        BY <1>1, <1>3, <1>9, <4>1, SMTT(20) DEF PositionsOf
    <3>2. PICK a \in S : Target(T, a) = i /\ q[i] = order[a]
      BY <1>18, <3>1
    <3>3. PICK c \in S : Target(T, c) = j /\ q[j] = order[c]
      BY <1>18, <3>1
    <3>4. Digit(a) = Digit(c)
      BY <1>4, <3>2, <3>3
    <3>5. Leading(depths[q[i]], g + 1) = Leading(depths[q[j]], g + 1)
      BY <1>16, <1>17, <3>2, <3>3, <3>4
    <3>6. ASSUME NEW digit \in 0 .. g
          PROVE  DigitOf(q[i], digit) = DigitOf(q[j], digit)
      <4>1. CASE digit = g
        BY <3>2, <3>3, <3>4, <4>1 DEF Digit
      <4>2. CASE digit # g
        <5>1. digit \in 0 .. g - 1
          BY <1>3, <4>2
        <5> QED
          BY <1>16, <3>2, <3>3, <5>1
      <4> QED
        BY <4>1, <4>2
    <3>7. i < j => CameBefore(q[i], q[j])
      BY <1>16, <1>19, <3>2, <3>3, <3>4
    <3> QED
      BY <3>5, <3>6, <3>7
  <2>3. ASSUME NEW k \in 1 .. (L - 1) + M, NEW i \in PositionsOf(stack'[k]), NEW j \in PositionsOf(stack'[k])
        PROVE  /\ Leading(depths[q[i]], stack'[k].digit) = Leading(depths[q[j]], stack'[k].digit)
               /\ \A digit \in 0 .. stack'[k].digit - 1 : DigitOf(q[i], digit) = DigitOf(q[j], digit)
               /\ i < j => CameBefore(q[i], q[j])
    <3>1. CASE k \in 1 .. L - 1
      <4>1. stack'[k] = stack[k]
        BY <1>12, <3>1
      <4> QED
        BY <2>1, <2>3, <3>1, <4>1
    <3>2. CASE k \notin 1 .. L - 1
      <4>1. PICK m \in 1 .. M : k = (L - 1) + m
        BY <1>12, <3>2
      <4>2. stack'[k] = B[m] /\ B[m].digit = g + 1 /\ (g + 1) - 1 = g
        BY <1>3, <1>4, <1>12, <4>1
      <4> QED
        BY <2>2, <2>3, <4>2
    <3> QED
      BY <3>1, <3>2
  <2> QED
    BY <1>11, <1>12, <2>3 DEF AgreeInv, PositionsOf, q
<1>22. ASSUME NEW i \in S, NEW j \in Positions \ S
       PROVE  ~SameRange(i, j) /\ ~SameRange(j, i) /\ ~SameTold(i, j) /\ ~SameTold(j, i)
  <2>1. ASSUME NEW k \in 1 .. L, i \in PositionsOf(stack[k]), j \in PositionsOf(stack[k])
        PROVE  FALSE
    <3>1. k = L \/ k \in 1 .. L - 1
      BY <1>2
    <3>2. k # L
      BY <1>2, <2>1 DEF S
    <3> QED
      BY <1>10, <2>1, <3>1, <3>2
  <2>2. ASSUME NEW k \in 1 .. Len(ranges), i \in PositionsOf(ranges[k])
        PROVE  FALSE
    BY <1>10, <2>2
  <2> QED
    BY <2>1, <2>2 DEF SameRange, SameTold, L
<1>23. ASSUME NEW i \in Positions, NEW j \in Positions, i < j
       PROVE  \/ \E k \in 1 .. (L - 1) + M : {i, j} \subseteq PositionsOf(stack'[k])
              \/ SameTold(i, j) /\ CameBefore(q[i], q[j])
              \/ depths[q[i]] < depths[q[j]]
  <2>1. CASE i \in S /\ j \in S
    <3>1. PICK a \in S : Target(T, a) = i /\ q[i] = order[a]
      BY <1>18, <2>1
    <3>2. PICK c \in S : Target(T, c) = j /\ q[j] = order[c]
      BY <1>18, <2>1
    <3>3. CASE Digit(a) = Digit(c)
      <4>1. PICK m \in 1 .. M : i \in PositionsOf(B[m]) /\ j \in PositionsOf(B[m])
        BY <1>4, <3>1, <3>2, <3>3
      <4>2. (L - 1) + m \in 1 .. (L - 1) + M /\ stack'[(L - 1) + m] = B[m]
        BY <1>2, <1>4, <1>12
      <4> QED
        BY <4>1, <4>2
    <3>4. CASE Digit(a) # Digit(c)
      BY <1>20, <1>23, <3>1, <3>2, <3>4
    <3> QED
      BY <3>3, <3>4
  <2>2. CASE i \in S /\ j \notin S
    <3>1. PICK a \in S : Target(T, a) = i /\ q[i] = order[a]
      BY <1>18, <2>2
    <3>2. a < j
      BY <1>1, <1>3, <1>9, <1>23, <2>2
    <3>3. depths[order[a]] < depths[order[j]]
      BY <1>1, <1>9, <1>22, <2>2, <3>2 DEF SeparateInv
    <3> QED
      BY <1>5, <2>2, <3>1, <3>3
  <2>3. CASE i \notin S /\ j \in S
    <3>1. PICK c \in S : Target(T, c) = j /\ q[j] = order[c]
      BY <1>18, <2>3
    <3>2. i < c
      BY <1>1, <1>3, <1>9, <1>23, <2>3
    <3>3. depths[order[i]] < depths[order[c]]
      BY <1>1, <1>9, <1>22, <2>3, <3>2 DEF SeparateInv
    <3> QED
      BY <1>5, <2>3, <3>1, <3>3
  <2>4. CASE i \notin S /\ j \notin S
    <3>1. q[i] = order[i] /\ q[j] = order[j]
      BY <1>5, <2>4
    <3>2. ASSUME SameRange(i, j)
          PROVE  \E k \in 1 .. (L - 1) + M : {i, j} \subseteq PositionsOf(stack'[k])
      <4>1. PICK k \in 1 .. L : i \in PositionsOf(stack[k]) /\ j \in PositionsOf(stack[k])
        BY <3>2 DEF SameRange, L
      <4>2. k \in 1 .. L - 1 /\ k \in 1 .. (L - 1) + M
        BY <1>2, <1>4, <2>4, <4>1 DEF S
      <4> QED
        BY <1>12, <4>1, <4>2
    <3> QED
      BY <1>1, <1>23, <3>1, <3>2 DEF SeparateInv
  <2> QED
    BY <2>1, <2>2, <2>3, <2>4
<1>24. SeparateInv'
  BY <1>1, <1>11, <1>12, <1>23 DEF SeparateInv, SameRange, SameTold, PositionsOf, q
<1>25. TypeOK'
  BY <1>1, <1>11, <1>12, <1>13 DEF PartitionRange, TypeOK, inputs
<1>26. DenseInv'
  BY <1>1 DEF DenseInv
<1> QED
  BY <1>1, <1>11, <1>13, <1>14, <1>15, <1>21, <1>24, <1>25, <1>26 DEF GroupInv

-----------------------------------------------------------------------------
(* Every step keeps the invariant, and what it says.                        *)

LEMMA StutterKeeps ==
  ASSUME GroupInv, UNCHANGED vars
  PROVE  GroupInv'
<1>1. /\ InputsOK /\ UNCHANGED inputs /\ UNCHANGED <<order, ranges>>
      /\ pc' = pc /\ order' = order /\ ranges' = ranges /\ stack' = stack /\ offset' = offset
      /\ scratch' = scratch /\ depthStarts' = depthStarts /\ depthOffsets' = depthOffsets
  BY DEF GroupInv, vars
<1>2. NodesAreKept' /\ ToldInv' /\ ToldEnd' = ToldEnd /\ (IsStable => IsStable')
  BY <1>1, ToldStays
<1>3. TypeOK'
  BY <1>1, InputsStay DEF GroupInv, TypeOK
<1>4. DenseInv'
  BY <1>1, <1>2, InputsStay DEF GroupInv, DenseInv
<1>5. pc = "partition" => StackInv' /\ AgreeInv' /\ SeparateInv'
  <2>1. SUFFICES ASSUME pc = "partition" PROVE StackInv' /\ AgreeInv' /\ SeparateInv'
    OBVIOUS
  <2>2. StackInv'
    BY <1>1, <1>2, <2>1, InputsStay DEF GroupInv, StackInv, Top
  <2>3. AgreeInv'
    BY <1>1, <2>1, InputsStay DEF GroupInv, AgreeInv, PositionsOf
  <2>4. SeparateInv'
    BY <1>1, <2>1, InputsStay DEF GroupInv, SeparateInv, SameRange, SameTold, PositionsOf
  <2> QED
    BY <2>2, <2>3, <2>4
<1> QED
  BY <1>1, <1>2, <1>3, <1>4, <1>5, InputsStay DEF GroupInv

LEMMA NextKeepsGroupInv ==
  ASSUME GroupInv, [Next]_vars
  PROVE  GroupInv'
<1>1. CASE ReturnEarly
  BY <1>1, ReturnEarlyKeeps
<1>2. CASE DenseStep
  BY <1>2, BeginDenseKeeps, CountNodeKeeps, BeginPrefixKeeps, PrefixDepthKeeps, BeginScatterKeeps,
     ScatterNodeKeeps, SwapScratchKeeps, TellDepthKeeps, AllToldKeeps DEF DenseStep
<1>3. CASE MsdStep
  BY <1>3, BeginMsdKeeps, RangeDoneKeeps, PartitionRangeKeeps, AllPartitionedKeeps DEF MsdStep
<1>4. CASE UNCHANGED vars
  BY <1>4, StutterKeeps
<1> QED
  BY <1>1, <1>2, <1>3, <1>4 DEF Next, Step, Returned

LEMMA GroupInvCorrect ==
  ASSUME GroupInv
  PROVE  /\ NodesAreKept /\ RangesAreSeparated /\ RangesTileTheOrder /\ ResultIsStable
         /\ pc = "done" => order \in Permutations /\ \A i, j \in Positions : i < j => Before(order[i], order[j])
<1>1. InputsOK /\ TypeOK /\ NodesAreKept /\ ToldInv
  BY DEF GroupInv
<1>2. RangesTileTheOrder
  <2>1. ASSUME pc = "done", size > 1
        PROVE  ranges # <<>> /\ ranges[Len(ranges)].end = size
    <3>1. ToldEnd = size
      BY <2>1 DEF GroupInv
    <3>2. ToldEnd # 0
      BY <2>1, <3>1
    <3> QED
      BY <3>1, <3>2 DEF ToldEnd
  <2> QED
    BY <1>1, <2>1 DEF ToldInv, RangesTileTheOrder
<1>3. ResultIsStable
  BY DEF GroupInv, IsStable, Before, ResultIsStable
<1>4. ASSUME pc = "partition"
      PROVE  /\ \A k, l \in 1 .. Len(stack) : k < l => stack[l].end <= stack[k].begin
             /\ \A i, j \in Positions :
               i < j =>
                 \/ \E k \in 1 .. Len(stack) :
                      /\ {i, j} \subseteq PositionsOf(stack[k])
                      /\ \A digit \in 0 .. stack[k].digit - 1 :
                           DigitOf(order[i], digit) = DigitOf(order[j], digit)
                 \/ depths[order[i]] <= depths[order[j]]
  <2>1. StackInv /\ AgreeInv /\ SeparateInv
    BY <1>4 DEF GroupInv
  <2>2. ASSUME NEW i \in Positions, NEW j \in Positions, i < j
        PROVE  \/ \E k \in 1 .. Len(stack) :
                    /\ {i, j} \subseteq PositionsOf(stack[k])
                    /\ \A digit \in 0 .. stack[k].digit - 1 :
                         DigitOf(order[i], digit) = DigitOf(order[j], digit)
               \/ depths[order[i]] <= depths[order[j]]
    <3>1. CASE SameRange(i, j)
      BY <2>1, <3>1 DEF SameRange, AgreeInv
    <3>2. CASE SameTold(i, j)
      <4>1. PICK k \in 1 .. Len(ranges) : i \in PositionsOf(ranges[k]) /\ j \in PositionsOf(ranges[k])
        BY <3>2 DEF SameTold
      <4>2. depths[order[i]] = depths[order[j]]
        BY <1>1, <4>1, ToldDepth
      <4>3. depths[order[i]] \in Nat
        BY <1>1, OrderTyped
      <4> QED
        BY <4>2, <4>3
    <3>3. CASE depths[order[i]] < depths[order[j]]
      <4>1. depths[order[i]] \in Nat /\ depths[order[j]] \in Nat
        BY <1>1, OrderTyped
      <4> QED
        BY <3>3, <4>1
    <3> QED
      BY <2>1, <2>2, <3>1, <3>2, <3>3 DEF SeparateInv
  <2>3. \A k, l \in 1 .. Len(stack) : k < l => stack[l].end <= stack[k].begin
    BY <2>1 DEF StackInv
  <2> QED
    BY <2>2, <2>3
<1>5. RangesAreSeparated
  BY <1>4 DEF RangesAreSeparated
<1>6. pc = "done" => order \in Permutations /\ \A i, j \in Positions : i < j => Before(order[i], order[j])
  BY <1>1 DEF GroupInv, NodesAreKept, IsStable
<1> QED
  BY <1>1, <1>2, <1>3, <1>5, <1>6
=============================================================================
