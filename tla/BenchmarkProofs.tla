---------------------------- MODULE BenchmarkProofs ----------------------------
(***************************************************************************)
(* Proofs about the benchmarks.  The hash tables of ParentTable and the    *)
(* prefix directory of PrefixDirectory, for every number of nodes, hash    *)
(* function, group width, probe limit and prefix, find the parents the     *)
(* radix join finds.  The run of the full benchmark (BenchmarkRun, the     *)
(* second part), for every number of data sets, builders, sorts and        *)
(* passes, pairs its samples and compares them fairly.  The tail benchmark *)
(* (TailBenchmark, the third part), for every source, limit and number of  *)
(* corpora, frees what it captured from before it builds a corpus of the   *)
(* tails selected, and times only the algorithms its oracle passed.  (Its  *)
(* small sorts are in SortedProofs.)                                       *)
(***************************************************************************)
EXTENDS PrefixDirectory, BenchmarkRun, TailBenchmark, TLAPS,
        FiniteSetTheorems, WellFoundedInduction, SequenceTheorems

(* Numbers *)

\* Every non-empty set of natural numbers has a least element.
LEMMA LeastElement ==
  ASSUME NEW S \in SUBSET Nat, S # {}
  PROVE  \E m \in S : \A x \in S : m <= x
<1>1. PICK m \in S : \A x \in S : ~(<<x, m>> \in OpToRel(<, Nat))
  BY NatLessThanWellFounded, WFMin
<1>2. \A x \in S : ~(x < m)
  BY <1>1 DEF OpToRel
<1>. QED  BY <1>2

\* And of those up to a number, a greatest one.
LEMMA GreatestElement ==
  ASSUME NEW m \in Nat, NEW S \in SUBSET (0 .. m), S # {}
  PROVE  \E x \in S : \A y \in S : y <= x
<1> DEFINE T == {m - x : x \in S}
<1>1. T \in SUBSET Nat /\ T # {}
  <2>1. \A x \in S : m - x \in Nat
    OBVIOUS
  <2> QED
    BY <2>1
<1>2. PICK t \in T : \A x \in T : t <= x
  BY <1>1, LeastElement
<1>3. PICK x \in S : t = m - x
  OBVIOUS
<1>4. \A y \in S : m - x <= m - y
  BY <1>2, <1>3
<1> QED
  BY <1>4

LEMMA DoublingKeepsPowers ==
  ASSUME NEW c \in Nat \ {0}, IsPowerOfTwo(c)
  PROVE  IsPowerOfTwo(2 * c)
<1> SUFFICES ASSUME NEW d \in 1 .. 2 * c, d % 2 = 1, (2 * c) % d = 0
             PROVE  d = 1
  BY DEF IsPowerOfTwo
<1>1. PICK q \in Nat : 2 * c = d * q
  <2>1. 2 * c = (d * ((2 * c) \div d)) + ((2 * c) % d) /\ (2 * c) \div d \in Nat
    OBVIOUS
  <2> QED
    BY <2>1
<1>2. PICK e \in Nat : d = 2 * e + 1
  <2>1. d = (2 * (d \div 2)) + (d % 2) /\ d \div 2 \in Nat
    OBVIOUS
  <2> QED
    BY <2>1
<1>3. q = 2 * (c - e * q)
  <2>1. d * q = 2 * (e * q) + q
    BY <1>2
  <2> QED
    BY <1>1, <2>1
<1>4. PICK h \in Nat : q = 2 * h
  <2>1. c - e * q \in Int
    OBVIOUS
  <2>2. c - e * q >= 0
    BY <1>3, <2>1
  <2> QED
    BY <1>3, <2>1, <2>2
<1>5. c = d * h
  BY <1>1, <1>4
<1>6. h # 0 /\ c % d = 0 /\ d <= c
  BY <1>5
<1> QED
  BY <1>6 DEF IsPowerOfTwo

\* A power of two is at or above every number, and below twice it.
LEMMA PowerBetween ==
  ASSUME NEW r \in Nat \ {0}
  PROVE  \E c \in r .. 2 * r - 1 : IsPowerOfTwo(c)
<1> DEFINE none == {n \in Nat \ {0} : ~\E c \in n .. 2 * n - 1 : IsPowerOfTwo(c)}
<1> SUFFICES ASSUME none # {} PROVE FALSE
  OBVIOUS
<1>1. PICK n \in none : \A x \in none : n <= x
  BY LeastElement
<1>2. IsPowerOfTwo(1)
  BY DEF IsPowerOfTwo
<1>3. n # 1
  BY <1>2
<1>4. n - 1 \in Nat \ {0} /\ n - 1 \notin none
  BY <1>1, <1>3
<1>5. PICK c \in n - 1 .. 2 * (n - 1) - 1 : IsPowerOfTwo(c)
  BY <1>4
<1>6. c < n
  BY <1>1, <1>5
<1>7. c = n - 1 /\ c \in Nat \ {0} /\ 2 * c \in n .. 2 * n - 1
  BY <1>4, <1>3, <1>5, <1>6
<1> QED
  BY <1>5, <1>7, DoublingKeepsPowers

LEMMA CapacityIsEnough ==
  ASSUME NEW items \in Nat
  PROVE  TableCapacity(items) \in Nat /\ 2 * items < TableCapacity(items)
<1>1. \E c \in 2 * items + 1 .. 4 * items + 1 : IsPowerOfTwo(c)
  <2>0. 2 * items + 1 \in Nat \ {0}
    OBVIOUS
  <2>1. \E c \in 2 * items + 1 .. 2 * (2 * items + 1) - 1 : IsPowerOfTwo(c)
    BY <2>0, PowerBetween
  <2>2. 2 * (2 * items + 1) - 1 = 4 * items + 1
    OBVIOUS
  <2> QED
    BY <2>1, <2>2
<1>2. TableCapacity(items) \in 2 * items + 1 .. 4 * items + 1
  BY <1>1 DEF TableCapacity
<1> QED
  BY <1>2

LEMMA RestIs ==
  ASSUME NEW c \in Nat \ {0}, NEW k \in Nat, NEW r \in 0 .. c - 1
  PROVE  (c * k + r) % c = r
<1> DEFINE y == c * k + r
           d == y \div c
           rest == y % c
<1>1. y \in Nat /\ d \in Nat /\ rest \in 0 .. c - 1 /\ y = c * d + rest
  OBVIOUS
<1>2. d = k
  <2> HIDE DEF d, rest
  <2>1. CASE d < k
    <3>1. PICK j \in Nat : k = d + 1 + j
      <4>1. k - d - 1 \in Nat
        BY <2>1, <1>1
      <4> QED  BY <4>1, <1>1
    <3>2. c * k = c * d + c + c * j
      BY <1>1, <3>1
    <3>3. c * j >= 0
      BY <3>1
    <3> QED
      BY <1>1, <3>2, <3>3
  <2>2. CASE k < d
    <3>1. PICK j \in Nat : d = k + 1 + j
      <4>1. d - k - 1 \in Nat
        BY <2>2, <1>1
      <4> QED  BY <4>1, <1>1
    <3>2. c * d = c * k + c + c * j
      BY <1>1, <3>1
    <3>3. c * j >= 0
      BY <3>1
    <3> QED
      BY <1>1, <3>2, <3>3
  <2> QED
    BY <1>1, <2>1, <2>2
<1> QED
  BY <1>1, <1>2

LEMMA RestOfSum ==
  ASSUME NEW a \in Nat, NEW o \in Nat, NEW c \in Nat \ {0}
  PROVE  ((a % c) + o) % c = (a + o) % c
<1> DEFINE x == (a % c) + o
           q == a \div c
<1>1. a = (c * q) + (a % c) /\ q \in Nat /\ a % c \in Nat
  OBVIOUS
<1>2. x \in Nat /\ x \div c \in Nat /\ x % c \in 0 .. c - 1 /\ x = (c * (x \div c)) + (x % c)
  BY <1>1
<1>3. a + o = (c * q) + x
  BY <1>1
<1> HIDE DEF x, q
<1>4. a + o = c * (q + (x \div c)) + (x % c)
  BY <1>1, <1>2, <1>3
<1>5. q + (x \div c) \in Nat
  BY <1>1, <1>2
<1>6. (a + o) % c = x % c
  BY <1>2, <1>4, <1>5, RestIs
<1> QED
  BY <1>6 DEF x

LEMMA RestBelow ==
  ASSUME NEW c \in Nat \ {0}, NEW r \in 0 .. c - 1
  PROVE  r % c = r /\ (r + c) % c = r
OBVIOUS

-----------------------------------------------------------------------------
(* The inductive invariant *)

InputsOK ==
  /\ \E size \in Sizes : id \in [0 .. size - 1 -> Ids] /\ parentId \in [0 .. size - 1 -> Ids]
  /\ hash \in HashFunctions
  /\ groupWidth \in DOMAIN ProbeLimits

\* The slot a search for a key looks at, in a group and at an offset.
Path(key, group, o) == (hash[key] + group * groupWidth + o) % Capacity

Stored(s) == slotNode[s] # NoParent

\* A control byte says what its slot holds; those past the copied ones are never
\* written.
ByteOf(s) == IF Stored(s) THEN Fingerprint(id[slotNode[s]]) ELSE Fingerprints
ControlInv ==
  control = [i \in 0 .. Capacity + groupWidth - 1 |->
               IF i < 2 * Capacity THEN ByteOf(i % Capacity) ELSE Fingerprints]

\* The table: each node in one slot at most, on its own path, within the limit
\* and behind full groups only.
OnItsPath(s) ==
  \E g \in 0 .. ProbeLimits[groupWidth] - 1 :
    /\ \E o \in Offsets : s = Path(id[slotNode[s]], g, o)
    /\ \A k \in 0 .. g - 1 : \A o \in Offsets : Stored(Path(id[slotNode[s]], k, o))
TableInv ==
  /\ slotNode \in [Slots -> Nodes \cup {NoParent}]
  /\ ControlInv
  /\ \A s \in Slots : Stored(s) => OnItsPath(s)
  /\ \A s, t \in Slots : Stored(s) /\ slotNode[s] = slotNode[t] => s = t

\* The groups a search has left behind are full, of other keys.
Searched(key) ==
  \A k \in 0 .. groupIndex - 1 : \A o \in Offsets :
    Stored(Path(key, k, o)) /\ id[slotNode[Path(key, k, o)]] # key

\* The parents of the nodes before this one are found.
ResultSoFar ==
  parentIndex = [n \in Nodes |-> IF n < nodeIdx THEN TrueParents[n] ELSE NoParent]

\* The nodes before this one, no two with one id, are all that is in the table.
InsertInv ==
  /\ \A s \in Slots : Stored(s) => slotNode[s] < nodeIdx
  /\ \A n \in Nodes : n < nodeIdx => \E s \in Slots : slotNode[s] = n
  /\ \A m, n \in Nodes : m < nodeIdx /\ n < nodeIdx /\ id[m] = id[n] => m = n
  /\ nodeIdx = NodeCount => groupIndex = 0
  /\ nodeIdx < NodeCount => Searched(id[nodeIdx])
  /\ parentIndex = [n \in Nodes |-> NoParent]
  /\ isDirectory => nodeIdx = 0

FindInv ==
  /\ IsInjective(id)
  /\ \A n \in Nodes : \E s \in Slots : slotNode[s] = n
  /\ nodeIdx < NodeCount => Searched(Wanted)
  /\ ResultSoFar

LookupPhases == {"insert", "find", "fallback", "done", "throw", "directory", "look", "halve"}

PhaseInv ==
  /\ pc \in LookupPhases
  /\ nodeIdx \in 0 .. NodeCount /\ groupIndex \in 0 .. ProbeLimits[groupWidth]
  /\ pc = "insert" => InsertInv
  /\ pc = "find" => FindInv
  /\ AgreesWithJoin

\* The directory: the nodes by id, and of a prefix a range of positions that has
\* every node with it.
Ordered ==
  /\ idPermutation \in [Nodes -> Nodes]
  /\ \A p, q \in Nodes : p < q => id[idPermutation[p]] < id[idPermutation[q]]
  /\ \A n \in Nodes : \E p \in Nodes : idPermutation[p] = n

HasRange(k) ==
  /\ directory[k].begin \in Nat /\ directory[k].end \in 0 .. NodeCount
  /\ directory[k].begin <= directory[k].end
  /\ \A p \in Nodes :
       Key(id[idPermutation[p]]) = k => directory[k].begin <= p /\ p < directory[k].end

\* The id wanted is neither before the positions that are left nor after them.
HalveInv ==
  LET range == directory[Key(Wanted)]
  IN  /\ nodeIdx \in Nodes /\ Wanted \notin Sentinels
      /\ low \in Nat /\ high \in Nat
      /\ range.begin <= low /\ low <= high /\ high <= range.end
      /\ \A p \in Nodes : range.begin <= p /\ p < low => id[idPermutation[p]] < Wanted
      /\ \A p \in Nodes : high <= p /\ p < range.end => Wanted <= id[idPermutation[p]]

DirectoryInv ==
  /\ pc \in {"directory", "look", "halve"} => IsInjective(id) /\ Ordered
  /\ pc = "directory" => nodeIdx = 0 /\ parentIndex = [n \in Nodes |-> NoParent]
  /\ pc \in {"look", "halve"} => (\A k \in Keys : HasRange(k)) /\ ResultSoFar
  /\ pc = "halve" => HalveInv

LookupInv == InputsOK /\ TableInv /\ PhaseInv /\ DirectoryInv

-----------------------------------------------------------------------------
(* The shape of a table *)

LEMMA Inputs ==
  ASSUME InputsOK
  PROVE  /\ NodeCount \in Nat /\ Nodes = 0 .. NodeCount - 1
         /\ IsFiniteSet(Nodes) /\ Cardinality(Nodes) = NodeCount
         /\ id \in [Nodes -> Ids] /\ parentId \in [Nodes -> Ids]
         /\ hash \in [Ids -> Nat]
         /\ groupWidth \in Nat \ {0} /\ ProbeLimits[groupWidth] \in Nat
         /\ Offsets = 0 .. groupWidth - 1
         /\ Capacity \in Nat \ {0} /\ NodeCount < Capacity /\ Slots = 0 .. Capacity - 1
         /\ NoParent \notin Nodes
<1>1. PICK size \in Sizes : id \in [0 .. size - 1 -> Ids] /\ parentId \in [0 .. size - 1 -> Ids]
  BY DEF InputsOK
<1>2. size \in Nat
  BY SizesAssumption
<1>3. Nodes = 0 .. size - 1
  BY <1>1 DEF Nodes
<1>4. IsFiniteSet(Nodes) /\ Cardinality(Nodes) = size
  BY <1>2, <1>3, FS_Interval
<1>5. NodeCount = size
  BY <1>4 DEF NodeCount
<1>6. Capacity \in Nat /\ 2 * size < Capacity
  BY <1>2, <1>5, CapacityIsEnough DEF Capacity
<1>7. hash \in [Ids -> Nat] /\ groupWidth \in Nat \ {0} /\ ProbeLimits[groupWidth] \in Nat
  BY HashAssumption, LimitsAssumption DEF InputsOK
<1>8. Capacity \in Nat \ {0} /\ NodeCount < Capacity
  BY <1>2, <1>5, <1>6
<1>9. NoParent \notin Nodes
  BY <1>2, <1>3, NoParentAssumption
<1> QED
  BY <1>1, <1>2, <1>3, <1>4, <1>5, <1>7, <1>8, <1>9 DEF Slots, Offsets

\* A path goes over slots, and the search is on it.
LEMMA OnThePath ==
  ASSUME InputsOK, NEW key \in Ids, groupIndex \in Nat, NEW o \in Offsets
  PROVE  /\ GroupStart(key) \in Slots
         /\ SlotAt(key, o) = Path(key, groupIndex, o) /\ SlotAt(key, o) \in Slots
         /\ SlotAt(key, o) = (GroupStart(key) + o) % Capacity
<1> DEFINE a == hash[key] + groupIndex * groupWidth
<1>0. hash[key] \in Nat /\ groupWidth \in Nat /\ groupIndex * groupWidth \in Nat
  BY Inputs
<1>6. a \in Nat
  BY <1>0
<1>1. a \in Nat /\ o \in Nat /\ Capacity \in Nat \ {0} /\ Slots = 0 .. Capacity - 1
  <2> HIDE DEF a
  <2> QED  BY <1>6, Inputs
<1>2. GroupStart(key) = a % Capacity
  BY DEF GroupStart
<1> HIDE DEF a
<1>3. GroupStart(key) \in Slots
  BY <1>1, <1>2
<1>4. SlotAt(key, o) = (a + o) % Capacity
  <2>1. ((a % Capacity) + o) % Capacity = (a + o) % Capacity
    BY <1>1, RestOfSum
  <2> QED
    BY <1>2, <2>1 DEF SlotAt
<1>5. SlotAt(key, o) \in Slots
  BY <1>1, <1>4
<1> QED
  BY <1>3, <1>4, <1>5 DEF a, SlotAt, Path

LEMMA PathInSlots ==
  ASSUME InputsOK, NEW key \in Ids, NEW k \in Nat, NEW o \in Offsets
  PROVE  Path(key, k, o) \in Slots
<1> DEFINE a == hash[key] + k * groupWidth + o
<1>0. hash[key] \in Nat /\ groupWidth \in Nat /\ k * groupWidth \in Nat /\ o \in Nat
  BY Inputs
<1>1. a \in Nat
  BY <1>0
<1> HIDE DEF a
<1>2. a % Capacity \in Slots
  BY <1>1, Inputs
<1> QED
  BY <1>2 DEF a, Path

LEMMA FingerprintsAreNoEmpty ==
  ASSUME InputsOK, NEW key \in Ids
  PROVE  Fingerprint(key) # Fingerprints
BY Inputs, FingerprintsAssumption DEF Fingerprint

\* Where the group reaches twice the capacity, it has been over every slot.
LEMMA WideGroup ==
  ASSUME InputsOK, NEW start \in Slots, NEW o \in Offsets, 2 * Capacity <= start + o, NEW s \in Slots
  PROVE  \E p \in Offsets : p < o /\ start + p < 2 * Capacity /\ (start + p) % Capacity = s
<1>1. Capacity \in Nat \ {0} /\ start \in 0 .. Capacity - 1 /\ s \in 0 .. Capacity - 1
      /\ o \in 0 .. groupWidth - 1 /\ groupWidth \in Nat
  BY Inputs
<1>6. PICK p \in 0 .. Capacity - 1 : start + p = IF start <= s THEN s ELSE s + Capacity
  <2>1. CASE start <= s
    <3>1. s - start \in 0 .. Capacity - 1 /\ start + (s - start) = s
      BY <1>1, <2>1
    <3> QED
      BY <2>1, <3>1
  <2>2. CASE ~(start <= s)
    <3>1. s - start + Capacity \in 0 .. Capacity - 1 /\ start + (s - start + Capacity) = s + Capacity
      BY <1>1, <2>2
    <3> QED
      BY <2>2, <3>1
  <2> QED
    BY <2>1, <2>2
<1>2. start + p \in Nat /\ start + p < 2 * Capacity
  BY <1>1, <1>6
<1>3. Capacity < o
  BY <1>1
<1>4. p < o /\ p \in Offsets
  BY <1>1, <1>2, <1>3, Inputs
<1>5. (start + p) % Capacity = s
  <2>1. s % Capacity = s /\ (s + Capacity) % Capacity = s
    BY <1>1, RestBelow
  <2> QED
    BY <1>6, <2>1
<1> QED
  BY <1>2, <1>4, <1>5

\* What the bytes of a group say.
LEMMA BytesTell ==
  ASSUME InputsOK, TableInv, groupIndex \in Nat, NEW key \in Ids, NEW o \in Offsets
  PROVE  ControlAt(key, o) = IF GroupStart(key) + o < 2 * Capacity THEN ByteOf(SlotAt(key, o)) ELSE Fingerprints
<1>1. GroupStart(key) \in 0 .. Capacity - 1 /\ o \in 0 .. groupWidth - 1 /\ groupWidth \in Nat /\ Capacity \in Nat
  BY Inputs, OnThePath
<1>2. GroupStart(key) + o \in 0 .. Capacity + groupWidth - 1
  BY <1>1
<1> QED
  BY <1>2 DEF ControlAt, TableInv, ControlInv, SlotAt

\* There is always an empty slot.
LEMMA NeverFull ==
  ASSUME InputsOK, TableInv
  PROVE  \E s \in Slots : ~Stored(s)
<1> SUFFICES ASSUME \A s \in Slots : Stored(s) PROVE FALSE
  OBVIOUS
<1>1. slotNode \in [Slots -> Nodes]
  BY DEF TableInv, Stored
<1>2. slotNode \in Injection(Slots, Nodes)
  BY <1>1 DEF TableInv, Injection, IsInjective
<1>3. Cardinality(Slots) <= Cardinality(Nodes)
  BY <1>2, Inputs, FS_Injection
<1>4. Cardinality(Slots) = Capacity
  <2>1. Capacity \in Nat \ {0} /\ Slots = 0 .. Capacity - 1
    BY Inputs
  <2>2. Cardinality(0 .. Capacity - 1) = Capacity
    BY <2>1, FS_Interval
  <2> QED
    BY <2>1, <2>2
<1> QED
  BY <1>3, <1>4, Inputs

\* The first empty byte of a group is that of an empty slot.
LEMMA FirstEmpty ==
  ASSUME InputsOK, TableInv, groupIndex \in Nat, NEW key \in Ids, NEW o \in EmptyOffsets(key),
         \A p \in EmptyOffsets(key) : o <= p
  PROVE  o \in Offsets /\ GroupStart(key) + o < 2 * Capacity /\ ~Stored(SlotAt(key, o))
<1>1. o \in Offsets /\ ControlAt(key, o) = Fingerprints
  BY DEF EmptyOffsets
<1>2. GroupStart(key) \in Slots /\ SlotAt(key, o) \in Slots
  BY <1>1, OnThePath
<1>3. GroupStart(key) \in Nat /\ o \in Nat /\ Capacity \in Nat
  BY <1>1, <1>2, Inputs
<1>4. GroupStart(key) + o < 2 * Capacity
  <2> SUFFICES ASSUME 2 * Capacity <= GroupStart(key) + o PROVE FALSE
    BY <1>3
  <2>1. PICK s \in Slots : ~Stored(s)
    BY NeverFull
  <2>2. PICK p \in Offsets : p < o /\ GroupStart(key) + p < 2 * Capacity /\ (GroupStart(key) + p) % Capacity = s
    BY <1>1, <1>2, WideGroup
  <2>3. SlotAt(key, p) = s
    BY <2>2, OnThePath
  <2>4. ControlAt(key, p) = Fingerprints
    BY <2>1, <2>2, <2>3, BytesTell DEF ByteOf
  <2>5. p \in EmptyOffsets(key)
    BY <2>2, <2>4 DEF EmptyOffsets
  <2>6. o <= p
    BY <2>5
  <2> QED
    BY <2>2, <2>6, <1>3, Inputs
<1>5. ~Stored(SlotAt(key, o))
  <2>1. ByteOf(SlotAt(key, o)) = Fingerprints
    BY <1>1, <1>4, BytesTell
  <2>2. ASSUME Stored(SlotAt(key, o)) PROVE FALSE
    <3>1. slotNode[SlotAt(key, o)] \in Nodes
      BY <1>2, <2>2 DEF TableInv, Stored
    <3>2. id[slotNode[SlotAt(key, o)]] \in Ids
      BY <3>1, Inputs
    <3> QED
      BY <2>1, <2>2, <3>2, FingerprintsAreNoEmpty DEF ByteOf
  <2> QED
    BY <2>2
<1> QED
  BY <1>1, <1>4, <1>5

\* A group without an empty byte is full.
LEMMA FullGroupIsFull ==
  ASSUME InputsOK, TableInv, groupIndex \in Nat, NEW key \in Ids, EmptyOffsets(key) = {}, NEW o \in Offsets
  PROVE  Stored(SlotAt(key, o))
<1>1. ControlAt(key, o) # Fingerprints
  BY DEF EmptyOffsets
<1> QED
  BY <1>1, BytesTell DEF ByteOf

\* A search sees a node in its group exactly if it has the key.
LEMMA HoldersAreSeen ==
  ASSUME InputsOK, TableInv, groupIndex \in Nat, NEW key \in Ids
  PROVE  /\ \A n \in Holders(key) : n \in Nodes /\ id[n] = key /\ \E s \in Slots : slotNode[s] = n
         /\ \A o \in Offsets : Stored(SlotAt(key, o)) /\ id[slotNode[SlotAt(key, o)]] = key => Holders(key) # {}
<1>1. ASSUME NEW n \in Holders(key)
      PROVE  n \in Nodes /\ id[n] = key /\ \E s \in Slots : slotNode[s] = n
  <2>1. PICK o \in Offsets : ControlAt(key, o) = Fingerprint(key) /\ n = slotNode[SlotAt(key, o)] /\ id[n] = key
    BY DEF Holders, MatchingNodes
  <2>2. SlotAt(key, o) \in Slots
    BY <2>1, OnThePath
  <2>3. ControlAt(key, o) # Fingerprints
    BY <2>1, FingerprintsAreNoEmpty
  <2>4. Stored(SlotAt(key, o))
    BY <2>3, BytesTell DEF ByteOf
  <2> QED
    BY <2>1, <2>2, <2>4 DEF TableInv, Stored
<1>2. ASSUME NEW o \in Offsets, Stored(SlotAt(key, o)), id[slotNode[SlotAt(key, o)]] = key
      PROVE  Holders(key) # {}
  <2>1. PICK p \in Offsets : GroupStart(key) + p < 2 * Capacity /\ SlotAt(key, p) = SlotAt(key, o)
    <3>1. GroupStart(key) \in Slots /\ SlotAt(key, o) \in Slots
      BY OnThePath
    <3>2. CASE GroupStart(key) + o < 2 * Capacity
      BY <3>2
    <3>3. CASE 2 * Capacity <= GroupStart(key) + o
      <4>1. PICK p \in Offsets : GroupStart(key) + p < 2 * Capacity /\ (GroupStart(key) + p) % Capacity = SlotAt(key, o)
        BY <3>1, <3>3, WideGroup
      <4> QED
        BY <4>1, OnThePath
    <3> QED
      BY <3>1, <3>2, <3>3, Inputs
  <2>2. ControlAt(key, p) = Fingerprint(key)
    BY <1>2, <2>1, BytesTell DEF ByteOf
  <2>3. slotNode[SlotAt(key, p)] \in Holders(key)
    BY <1>2, <2>1, <2>2 DEF Holders, MatchingNodes
  <2> QED
    BY <2>3
<1> QED
  BY <1>1, <1>2

\* A search that comes to an empty slot has not missed its key.
LEMMA KeyIsAbsent ==
  ASSUME InputsOK, TableInv, groupIndex \in Nat, NEW key \in Ids, Searched(key),
         Holders(key) = {}, EmptyOffsets(key) # {}, NEW s \in Slots, Stored(s)
  PROVE  id[slotNode[s]] # key
<1> SUFFICES ASSUME id[slotNode[s]] = key PROVE FALSE
  OBVIOUS
<1>1. PICK g \in 0 .. ProbeLimits[groupWidth] - 1 :
        /\ \E o \in Offsets : s = Path(key, g, o)
        /\ \A k \in 0 .. g - 1 : \A o \in Offsets : Stored(Path(key, k, o))
  BY DEF TableInv, OnItsPath
<1>2. PICK o \in Offsets : s = Path(key, g, o)
  BY <1>1
<1>3. g \in Nat
  BY Inputs
<1>4. CASE g < groupIndex
  BY <1>2, <1>3, <1>4 DEF Searched
<1>5. CASE g = groupIndex
  BY <1>2, <1>5, OnThePath, HoldersAreSeen
<1>6. CASE groupIndex < g
  <2>1. EmptyOffsets(key) \in SUBSET Nat
    BY Inputs DEF EmptyOffsets
  <2>2. PICK e \in EmptyOffsets(key) : \A p \in EmptyOffsets(key) : e <= p
    BY <2>1, LeastElement
  <2>3. e \in Offsets /\ ~Stored(SlotAt(key, e))
    BY <2>2, FirstEmpty
  <2>4. groupIndex \in 0 .. g - 1
    BY <1>3, <1>6
  <2>5. Stored(Path(key, groupIndex, e))
    BY <1>1, <2>3, <2>4
  <2> QED
    BY <2>3, <2>5, OnThePath
<1> QED
  BY <1>3, <1>4, <1>5, <1>6

\* A search that goes on leaves a full group without its key behind.
LEMMA SearchGoesOn ==
  ASSUME InputsOK, TableInv, groupIndex \in Nat, NEW key \in Ids, Searched(key),
         Holders(key) = {}, EmptyOffsets(key) = {},
         NEW k \in 0 .. groupIndex, NEW o \in Offsets
  PROVE  Stored(Path(key, k, o)) /\ id[slotNode[Path(key, k, o)]] # key
<1>1. CASE k = groupIndex
  BY <1>1, OnThePath, FullGroupIsFull, HoldersAreSeen
<1>2. CASE k # groupIndex
  BY <1>2 DEF Searched
<1> QED
  BY <1>1, <1>2

\* One node at most can be a parent, and the table finds it.
LEMMA ParentsAreKnown ==
  ASSUME InputsOK, IsInjective(id), NEW n \in Nodes
  PROVE  /\ \A m \in Nodes : IsParentOf(m, n) => TrueParents[n] = m
         /\ (\A m \in Nodes : ~IsParentOf(m, n)) => TrueParents[n] = NoParent
<1>1. TrueParents[n] = IF \E m \in Nodes : IsParentOf(m, n)
                         THEN CHOOSE m \in Nodes : IsParentOf(m, n) ELSE NoParent
  BY DEF TrueParents
<1>2. \A m, l \in Nodes : IsParentOf(m, n) /\ IsParentOf(l, n) => m = l
  BY Inputs DEF IsParentOf, IsInjective
<1>3. ASSUME NEW m \in Nodes, IsParentOf(m, n)
      PROVE  TrueParents[n] = m
  <2>1. (CHOOSE l \in Nodes : IsParentOf(l, n)) \in Nodes /\ IsParentOf(CHOOSE l \in Nodes : IsParentOf(l, n), n)
    BY <1>3
  <2> QED
    BY <1>1, <1>2, <1>3, <2>1
<1> QED
  BY <1>1, <1>3

-----------------------------------------------------------------------------
(* The steps of the tables *)

LEMMA InputsStay ==
  ASSUME UNCHANGED inputs
  PROVE  /\ id' = id /\ parentId' = parentId /\ hash' = hash /\ groupWidth' = groupWidth
         /\ InputsOK' = InputsOK /\ Nodes' = Nodes /\ NodeCount' = NodeCount
         /\ Capacity' = Capacity /\ Slots' = Slots /\ Offsets' = Offsets
         /\ TrueParents' = TrueParents /\ IsInjective(id)' = IsInjective(id)
         /\ \A key, k, o : Path(key, k, o)' = Path(key, k, o)
         /\ \A key : Fingerprint(key)' = Fingerprint(key)
<1>1. id' = id /\ parentId' = parentId /\ hash' = hash /\ groupWidth' = groupWidth
  BY DEF inputs
<1>2. InputsOK' = InputsOK /\ Nodes' = Nodes /\ Offsets' = Offsets /\ IsInjective(id)' = IsInjective(id)
  BY <1>1 DEF InputsOK, Nodes, Offsets, IsInjective
<1>3. NodeCount' = NodeCount
  BY <1>2 DEF NodeCount
<1>4. Capacity' = Capacity
  BY <1>3 DEF Capacity
<1>5. Slots' = Slots
  BY <1>4 DEF Slots
<1>6. TrueParents' = TrueParents
  BY <1>1, <1>2 DEF TrueParents, IsParentOf
<1>7. \A key, k, o : Path(key, k, o)' = Path(key, k, o)
  BY <1>1, <1>4 DEF Path
<1>8. \A key : Fingerprint(key)' = Fingerprint(key)
  BY <1>1 DEF Fingerprint
<1> QED
  BY <1>1, <1>2, <1>3, <1>4, <1>5, <1>6, <1>7, <1>8

LEMMA TableStays ==
  ASSUME TableInv, UNCHANGED inputs, UNCHANGED table
  PROVE  TableInv'
<1>1. slotNode' = slotNode /\ control' = control
  BY DEF table
<1>2. ControlInv'
  BY <1>1, InputsStay DEF TableInv, ControlInv, ByteOf, Stored
<1>3. \A s \in Slots : Stored(s)' => OnItsPath(s)'
  BY <1>1, InputsStay DEF TableInv, OnItsPath, Stored
<1> QED
  BY <1>1, <1>2, <1>3, InputsStay DEF TableInv, Stored

LEMMA InitLookupInv ==
  ASSUME LookupInit
  PROVE  LookupInv
<1>1. InputsOK
  BY DEF LookupInit, Init, InputsOK
<1>2. /\ Nodes = 0 .. NodeCount - 1 /\ NodeCount \in Nat /\ Capacity \in Nat \ {0} /\ Slots = 0 .. Capacity - 1
      /\ ProbeLimits[groupWidth] \in Nat
  BY <1>1, Inputs
<1>3. slotNode = [s \in Slots |-> NoParent] /\ control = [i \in 0 .. Capacity + groupWidth - 1 |-> Fingerprints]
  BY DEF LookupInit, Init
<1>4. \A s \in Slots : ~Stored(s)
  BY <1>3 DEF Stored
<1>5. \A i \in 0 .. Capacity + groupWidth - 1 : i % Capacity \in Slots
  BY <1>1, <1>2, Inputs
<1>6. \A i \in 0 .. Capacity + groupWidth - 1 : (IF i < 2 * Capacity THEN ByteOf(i % Capacity) ELSE Fingerprints) = Fingerprints
  BY <1>4, <1>5 DEF ByteOf
<1>7. ControlInv
  BY <1>3, <1>6 DEF ControlInv
<1>8. TableInv
  BY <1>3, <1>4, <1>7 DEF TableInv
<1>9. pc = "insert" /\ nodeIdx = 0 /\ groupIndex = 0 /\ parentIndex = [n \in Nodes |-> NoParent]
  BY DEF LookupInit, Init
<1>10. InsertInv
  BY <1>2, <1>4, <1>9 DEF InsertInv, Searched
<1>11. PhaseInv
  BY <1>2, <1>9, <1>10 DEF PhaseInv, LookupPhases, AgreesWithJoin
<1>12. DirectoryInv
  BY <1>9 DEF DirectoryInv
<1> QED
  BY <1>1, <1>8, <1>11, <1>12 DEF LookupInv

\* The first empty slot of the group is filled: the table stays in order, and
\* the node is on its path behind full groups.
LEMMA InsertedKeepsTable ==
  ASSUME InputsOK, TableInv, InsertInv, nodeIdx \in Nat, groupIndex \in Nat, Inserted
  PROVE  /\ TableInv'
         /\ \E t \in Slots : ~Stored(t) /\ slotNode' = [slotNode EXCEPT ![t] = nodeIdx]
<1>0. id[nodeIdx] \in Ids
  BY Inputs DEF Inserted, Searching
<1> PICK key \in Ids : key = id[nodeIdx]
  BY <1>0
<1>1. /\ nodeIdx \in Nodes /\ key \in Ids /\ Holders(key) = {}
      /\ groupIndex \in 0 .. ProbeLimits[groupWidth] - 1 /\ Searched(key)
      /\ UNCHANGED inputs
  BY Inputs DEF Inserted, Searching, InsertInv
<1>2. PICK o \in EmptyOffsets(key) :
        /\ \A p \in EmptyOffsets(key) : o <= p
        /\ control' = WithControl(SlotAt(key, o), Fingerprint(key))
        /\ slotNode' = [slotNode EXCEPT ![SlotAt(key, o)] = nodeIdx]
  BY DEF Inserted
<1>20. SlotAt(key, o) \in Slots
  BY <1>1, <1>2, OnThePath DEF EmptyOffsets
<1> PICK t \in Slots : t = SlotAt(key, o)
  BY <1>20
<1>3. /\ o \in Offsets /\ GroupStart(key) + o < 2 * Capacity /\ ~Stored(t)
      /\ t \in Slots /\ t = Path(key, groupIndex, o)
  BY <1>1, <1>2, FirstEmpty, OnThePath
<1>4. slotNode' = [slotNode EXCEPT ![t] = nodeIdx] /\ control' = WithControl(t, Fingerprint(key))
  BY <1>2
<1>5. slotNode' \in [Slots -> Nodes \cup {NoParent}]
  BY <1>1, <1>3, <1>4 DEF TableInv
<1>6. slotNode'[t] = nodeIdx /\ \A s \in Slots : s # t => slotNode'[s] = slotNode[s]
  BY <1>3, <1>4 DEF TableInv
<1>7. \A s \in Slots : Stored(s)' <=> Stored(s) \/ s = t
  BY <1>1, <1>6, Inputs DEF Stored
<1>8. ByteOf(t)' = Fingerprint(key) /\ \A s \in Slots : s # t => ByteOf(s)' = ByteOf(s)
  <2>1. id' = id /\ hash' = hash /\ groupWidth' = groupWidth
    BY <1>1, InputsStay
  <2>2. nodeIdx # NoParent
    BY <1>1, Inputs
  <2>3. ByteOf(t)' = Fingerprint(key)
    BY <1>6, <2>1, <2>2 DEF ByteOf, Fingerprint, Stored
  <2>4. ASSUME NEW s \in Slots, s # t
        PROVE  ByteOf(s)' = ByteOf(s)
    <3>1. slotNode'[s] = slotNode[s]
      BY <1>6, <2>4
    <3> QED
      BY <2>1, <3>1 DEF ByteOf, Fingerprint, Stored
  <2> QED
    BY <2>3, <2>4
<1>9. ControlInv'
  <2> DEFINE all == 0 .. Capacity + groupWidth - 1
             byte(i) == IF i < 2 * Capacity THEN ByteOf(i % Capacity) ELSE Fingerprints
  <2>1. control = [i \in all |-> byte(i)]
    BY DEF TableInv, ControlInv
  <2>2. Capacity \in Nat \ {0} /\ groupWidth \in Nat \ {0} /\ t \in 0 .. Capacity - 1
    BY <1>3, Inputs
  <2>3. \A i \in all : control'[i] = IF i = t \/ (t < groupWidth /\ i = Capacity + t) THEN Fingerprint(key) ELSE control[i]
    BY <1>4, <2>1 DEF WithControl
  <2>4. DOMAIN control' = all /\ control' = [i \in all |-> control'[i]]
    BY <1>4, <2>1 DEF WithControl
  <2>5. ASSUME NEW i \in all
        PROVE  control'[i] = IF i < 2 * Capacity THEN ByteOf(i % Capacity)' ELSE Fingerprints
    <3>1. CASE 2 * Capacity <= i
      <4>1. i # t /\ i # Capacity + t /\ ~(i < 2 * Capacity)
        BY <2>2, <3>1
      <4> QED
        BY <2>1, <2>3, <4>1
    <3>2. CASE i < 2 * Capacity
      <4>1. PICK r \in 0 .. Capacity - 1 : i = r \/ i = r + Capacity
        <5>1. CASE i < Capacity
          <6>1. i \in 0 .. Capacity - 1
            BY <2>2, <5>1
          <6> QED
            BY <6>1
        <5>2. CASE ~(i < Capacity)
          <6>1. i - Capacity \in 0 .. Capacity - 1 /\ i = (i - Capacity) + Capacity
            BY <2>2, <3>2, <5>2
          <6> QED
            BY <6>1
        <5> QED
          BY <5>1, <5>2
      <4>2. i % Capacity = r
        BY <4>1, <2>2, RestBelow
      <4>3. i = t \/ (t < groupWidth /\ i = Capacity + t) <=> r = t
        BY <2>2, <4>1
      <4>4. r \in Slots
        BY <4>1, Inputs
      <4>5. Capacity' = Capacity
        BY <1>1, InputsStay
      <4>6. ByteOf(i % Capacity)' = IF r = t THEN Fingerprint(key) ELSE ByteOf(r)
        <5>1. ByteOf(r)' = IF r = t THEN Fingerprint(key) ELSE ByteOf(r)
          BY <1>8, <4>4
        <5>2. ByteOf(i % Capacity)' = ByteOf(r)'
          BY <4>2, <4>5 DEF ByteOf, Stored
        <5> QED
          BY <5>1, <5>2
      <4>7. control[i] = ByteOf(r)
        BY <2>1, <3>2, <4>2
      <4> QED
        BY <2>3, <3>2, <4>3, <4>6, <4>7
    <3> QED
      BY <2>2, <3>1, <3>2
  <2>6. control' = [i \in all |-> IF i < 2 * Capacity THEN ByteOf(i % Capacity)' ELSE Fingerprints]
    BY <2>4, <2>5
  <2> QED
    BY <2>6, <1>1, InputsStay DEF ControlInv
<1>10. ASSUME NEW s \in Slots, Stored(s)'
       PROVE  OnItsPath(s)'
  <2>1. id' = id /\ hash' = hash /\ groupWidth' = groupWidth /\ Capacity' = Capacity /\ Offsets' = Offsets
    BY <1>1, InputsStay
  <2>2. slotNode'[s] \in Nodes
    BY <1>5, <1>10 DEF Stored
  <2> PICK own \in Ids : own = id[slotNode'[s]]
    BY <2>2, Inputs
  <2>3. \E g \in 0 .. ProbeLimits[groupWidth] - 1 :
          /\ \E p \in Offsets : s = Path(own, g, p)
          /\ \A k \in 0 .. g - 1 : \A p \in Offsets : Stored(Path(own, k, p))
    <3>1. CASE s = t
      <4>1. own = key
        BY <1>6, <3>1
      <4> QED
        BY <1>1, <1>3, <3>1, <4>1 DEF Searched
    <3>2. CASE s # t
      <4>1. slotNode'[s] = slotNode[s] /\ Stored(s)
        BY <1>6, <1>7, <1>10, <3>2
      <4> QED
        BY <4>1 DEF TableInv, OnItsPath
    <3> QED
      BY <3>1, <3>2
  <2>4. PICK g \in 0 .. ProbeLimits[groupWidth] - 1 :
          /\ \E p \in Offsets : s = Path(own, g, p)
          /\ \A k \in 0 .. g - 1 : \A p \in Offsets : Stored(Path(own, k, p))
    BY <2>3
  <2>5. \A x \in Slots : Stored(x) => slotNode'[x] # NoParent
    BY <1>6, <1>1, Inputs DEF Stored
  <2>6. ASSUME NEW k \in 0 .. g - 1, NEW p \in Offsets
        PROVE  Path(own, k, p) \in Slots
    <3>1. k \in Nat
      OBVIOUS
    <3> QED
      BY <3>1, PathInSlots, Zenon
  <2>7. \A k \in 0 .. g - 1 : \A p \in Offsets : slotNode'[Path(own, k, p)] # NoParent
    BY <2>4, <2>5, <2>6
  <2> QED
    BY <2>1, <2>4, <2>7 DEF OnItsPath, Stored, Path
<1>11. \A s, u \in Slots : Stored(s)' /\ slotNode'[s] = slotNode'[u] => s = u
  <2>1. \A s \in Slots : Stored(s) => slotNode[s] # nodeIdx
    BY <1>1, Inputs DEF InsertInv
  <2> QED
    BY <1>1, <1>6, <1>7, <2>1, Inputs DEF TableInv, Stored
<1> QED
  BY <1>1, <1>3, <1>4, <1>5, <1>9, <1>10, <1>11, InputsStay DEF TableInv

\* And the node is now one of the inserted ones, the only one with its id.
LEMMA InsertedKeepsInsert ==
  ASSUME InputsOK, TableInv, InsertInv, nodeIdx \in Nat, groupIndex \in Nat, Inserted, ~isDirectory,
         UNCHANGED isDirectory
  PROVE  InsertInv'
<1>0. id[nodeIdx] \in Ids
  BY Inputs DEF Inserted, Searching
<1> PICK key \in Ids : key = id[nodeIdx]
  BY <1>0
<1>1. PICK t \in Slots : ~Stored(t) /\ slotNode' = [slotNode EXCEPT ![t] = nodeIdx]
  BY InsertedKeepsTable
<1>2. /\ nodeIdx \in Nodes /\ Holders(key) = {} /\ Searched(key)
      /\ UNCHANGED inputs /\ nodeIdx' = nodeIdx + 1 /\ groupIndex' = 0
      /\ parentIndex' = parentIndex /\ EmptyOffsets(key) # {}
  BY Inputs DEF Inserted, Searching, InsertInv, NextNode
<1>3. slotNode'[t] = nodeIdx /\ \A s \in Slots : s # t => slotNode'[s] = slotNode[s]
  BY <1>1 DEF TableInv
<1>4. \A s \in Slots : slotNode'[s] # NoParent => slotNode'[s] < nodeIdx + 1
  <2>1. ASSUME NEW s \in Slots, slotNode'[s] # NoParent, s # t
        PROVE  slotNode'[s] < nodeIdx + 1
    <3>1. slotNode[s] \in Nodes /\ slotNode[s] < nodeIdx
      BY <1>3, <2>1 DEF TableInv, InsertInv, Stored
    <3> QED
      BY <1>3, <2>1, <3>1, Inputs
  <2> QED
    BY <1>3, <2>1
<1>5. \A n \in Nodes : n < nodeIdx + 1 => \E s \in Slots : slotNode'[s] = n
  <2> SUFFICES ASSUME NEW n \in Nodes, n < nodeIdx + 1
               PROVE  \E s \in Slots : slotNode'[s] = n
    OBVIOUS
  <2>1. CASE n = nodeIdx
    BY <1>3, <2>1
  <2>2. CASE n < nodeIdx
    <3>1. PICK s \in Slots : slotNode[s] = n
      BY <2>2 DEF InsertInv
    <3>2. s # t
      BY <1>1, <3>1, Inputs DEF Stored
    <3> QED
      BY <1>3, <3>1, <3>2
  <2> QED
    BY <2>1, <2>2, Inputs
<1>6. \A n \in Nodes : n < nodeIdx => id[n] # key
  <2> SUFFICES ASSUME NEW n \in Nodes, n < nodeIdx
               PROVE  id[n] # key
    OBVIOUS
  <2>1. PICK s \in Slots : slotNode[s] = n
    BY DEF InsertInv
  <2>2. Stored(s)
    BY <2>1, Inputs DEF Stored
  <2>3. id[slotNode[s]] # key
    BY <1>2, <2>2, KeyIsAbsent, Zenon
  <2> QED
    BY <2>1, <2>3
<1>7. \A m, n \in Nodes : m < nodeIdx + 1 /\ n < nodeIdx + 1 /\ id[m] = id[n] => m = n
  <2>1. \A m \in Nodes : m < nodeIdx + 1 => m < nodeIdx \/ m = nodeIdx
    BY <1>2, Inputs
  <2> QED
    BY <1>6, <2>1 DEF InsertInv
<1>8. Searched(id[nodeIdx])'
  BY <1>2 DEF Searched
<1>9. /\ id' = id /\ Slots' = Slots /\ Nodes' = Nodes
  BY <1>2, InputsStay
<1> QED
  BY <1>2, <1>4, <1>5, <1>7, <1>8, <1>9 DEF InsertInv, Stored

\* A full group without the key is left behind.
LEMMA SearchStays ==
  ASSUME InputsOK, TableInv, groupIndex \in Nat, UNCHANGED inputs, slotNode' = slotNode, NEW key \in Ids,
         groupIndex' = groupIndex + 1, Searched(key), Holders(key) = {}, EmptyOffsets(key) = {}
  PROVE  Searched(key)'
<1>1. \A k \in 0 .. groupIndex : \A o \in Offsets : Stored(Path(key, k, o)) /\ id[slotNode[Path(key, k, o)]] # key
  BY SearchGoesOn
<1>2. 0 .. groupIndex' - 1 = 0 .. groupIndex
  OBVIOUS
<1>3. id' = id /\ hash' = hash /\ groupWidth' = groupWidth /\ Capacity' = Capacity /\ Offsets' = Offsets
  BY InputsStay
<1> QED
  BY <1>1, <1>2, <1>3 DEF Searched, Stored, Path

LEMMA EveryParentFound ==
  ASSUME InputsOK, ResultSoFar, nodeIdx = NodeCount
  PROVE  parentIndex = TrueParents
<1>1. \A n \in Nodes : n < nodeIdx
  BY Inputs
<1>2. parentIndex = [n \in Nodes |-> TrueParents[n]]
  BY <1>1 DEF ResultSoFar
<1>3. TrueParents = [n \in Nodes |-> TrueParents[n]]
  BY DEF TrueParents
<1> QED
  BY <1>2, <1>3

LEMMA UnchangedKeepsLookup ==
  ASSUME LookupInv,
         UNCHANGED <<inputs, pc, nodeIdx, groupIndex, table, parentIndex, directoryVars>>
  PROVE  LookupInv'
<1>1. /\ pc' = pc /\ nodeIdx' = nodeIdx /\ groupIndex' = groupIndex /\ parentIndex' = parentIndex
      /\ id' = id /\ parentId' = parentId /\ hash' = hash /\ groupWidth' = groupWidth
      /\ control' = control /\ slotNode' = slotNode
      /\ isDirectory' = isDirectory /\ idPermutation' = idPermutation /\ directory' = directory
      /\ low' = low /\ high' = high
  BY DEF inputs, table, directoryVars, search
<1>2. /\ InputsOK' /\ TableInv' /\ Nodes' = Nodes /\ NodeCount' = NodeCount /\ Slots' = Slots
      /\ Offsets' = Offsets /\ Capacity' = Capacity
      /\ TrueParents' = TrueParents /\ IsInjective(id)' = IsInjective(id)
  BY InputsStay, TableStays DEF LookupInv
<1>3. ResultSoFar' = ResultSoFar
  BY <1>1, <1>2 DEF ResultSoFar
<1>4. \A key : Searched(key)' = Searched(key)
  BY <1>1, <1>2 DEF Searched, Stored, Path
<1>5. InsertInv' = InsertInv
  BY <1>1, <1>2, <1>4 DEF InsertInv, Searched, Stored, Path
<1>6. FindInv' = FindInv
  BY <1>1, <1>2, <1>3 DEF FindInv, Searched, Stored, Path, Wanted
<1>7. PhaseInv'
  BY <1>1, <1>2, <1>5, <1>6 DEF LookupInv, PhaseInv, AgreesWithJoin
<1>8. Ordered' = Ordered /\ HalveInv' = HalveInv
  BY <1>1, <1>2 DEF Ordered, HalveInv, Wanted
<1>9. \A k : HasRange(k)' = HasRange(k)
  BY <1>1, <1>2 DEF HasRange
<1>10. DirectoryInv'
  BY <1>1, <1>2, <1>3, <1>8, <1>9 DEF LookupInv, DirectoryInv
<1> QED
  BY <1>2, <1>7, <1>10 DEF LookupInv

LEMMA ResultGrows ==
  ASSUME InputsOK, ResultSoFar, nodeIdx \in Nodes, nodeIdx' = nodeIdx + 1, UNCHANGED inputs,
         \/ parentIndex' = parentIndex /\ TrueParents[nodeIdx] = NoParent
         \/ parentIndex' = [parentIndex EXCEPT ![nodeIdx] = TrueParents[nodeIdx]]
  PROVE  ResultSoFar'
<1>1. Nodes' = Nodes /\ TrueParents' = TrueParents
  BY InputsStay
<1>2. \A n \in Nodes : n < nodeIdx + 1 <=> n < nodeIdx \/ n = nodeIdx
  BY Inputs
<1>3. ~(nodeIdx < nodeIdx)
  BY Inputs
<1>4. parentIndex' = [parentIndex EXCEPT ![nodeIdx] = TrueParents[nodeIdx]]
  <2>1. CASE parentIndex' = parentIndex /\ TrueParents[nodeIdx] = NoParent
    BY <2>1, <1>3 DEF ResultSoFar
  <2> QED
    BY <2>1
<1>5. parentIndex' = [n \in Nodes |-> IF n < nodeIdx + 1 THEN TrueParents[n] ELSE NoParent]
  BY <1>2, <1>4 DEF ResultSoFar
<1> QED
  BY <1>1, <1>5 DEF ResultSoFar

\* The search for the parent of a node begins anew with the next.
LEMMA FindGoesOn ==
  ASSUME LookupInv, pc = "find", nodeIdx < NodeCount, NextNode, UNCHANGED <<inputs, pc, table>>,
         \/ parentIndex' = parentIndex /\ TrueParents[nodeIdx] = NoParent
         \/ parentIndex' = [parentIndex EXCEPT ![nodeIdx] = TrueParents[nodeIdx]]
  PROVE  PhaseInv'
<1>1. InputsOK /\ FindInv /\ nodeIdx \in Nodes /\ nodeIdx' = nodeIdx + 1 /\ groupIndex' = 0
  BY Inputs DEF LookupInv, PhaseInv, NextNode
<1>2. ResultSoFar'
  BY <1>1, ResultGrows DEF FindInv
<1>3. /\ Nodes' = Nodes /\ NodeCount' = NodeCount /\ Slots' = Slots /\ IsInjective(id)' = IsInjective(id)
      /\ groupWidth' = groupWidth /\ slotNode' = slotNode
  BY InputsStay DEF table
<1>4. Searched(Wanted)'
  BY <1>1 DEF Searched
<1>5. FindInv'
  BY <1>1, <1>2, <1>3, <1>4 DEF FindInv
<1>6. nodeIdx' \in 0 .. NodeCount' /\ groupIndex' \in 0 .. ProbeLimits[groupWidth']
  BY <1>1, <1>3, Inputs
<1> QED
  BY <1>5, <1>6 DEF PhaseInv, LookupPhases, AgreesWithJoin

\* A step of the tables.
LEMMA TableStep ==
  ASSUME LookupInv, ~isDirectory, UNCHANGED directoryVars, Next
  PROVE  LookupInv'
<1>1. /\ InputsOK /\ TableInv /\ PhaseInv
      /\ nodeIdx \in 0 .. NodeCount /\ groupIndex \in 0 .. ProbeLimits[groupWidth]
      /\ nodeIdx \in Nat /\ groupIndex \in Nat
      /\ isDirectory' = isDirectory
  BY Inputs DEF LookupInv, PhaseInv, directoryVars
<1>2. SUFFICES ASSUME ~Returned
               PROVE  InputsOK' /\ TableInv' /\ PhaseInv'
  <2>1. ASSUME Returned PROVE LookupInv'
    <3>1. UNCHANGED allVars
      BY <2>1 DEF Returned, allVars
    <3>2. UNCHANGED <<inputs, pc, nodeIdx, groupIndex, table, parentIndex, directoryVars>>
      BY <3>1 DEF allVars, vars
    <3> QED
      BY <2>1, <3>2, UnchangedKeepsLookup
  <2>2. pc' \notin {"directory", "look", "halve"} \/ Returned
    BY DEF Next, Duplicate, Inserted, FullGroup, AllInserted, SkipSentinel, Found, NotFound,
           LookFurther, AllFound, FallBack, Abandon, RadixJoin, Searching
  <2>3. ~Returned => DirectoryInv'
    BY <2>2 DEF DirectoryInv
  <2> QED
    BY <2>1, <2>3 DEF LookupInv
<1>3. UNCHANGED inputs
  BY <1>2 DEF Next, Duplicate, Inserted, FullGroup, AllInserted, SkipSentinel, Found, NotFound,
           LookFurther, AllFound, FallBack, RadixJoin
<1>4. /\ InputsOK' /\ Nodes' = Nodes /\ NodeCount' = NodeCount /\ Slots' = Slots /\ Offsets' = Offsets
      /\ TrueParents' = TrueParents /\ IsInjective(id)' = IsInjective(id)
      /\ groupWidth' = groupWidth /\ id' = id /\ parentId' = parentId
  BY <1>1, <1>3, InputsStay
<1>5. TableInv'
  <2>1. CASE Inserted
    BY <1>1, <2>1, InsertedKeepsTable DEF PhaseInv, Inserted, Searching
  <2>2. ~Inserted => UNCHANGED table
    BY <1>2 DEF Next, Duplicate, FullGroup, AllInserted, SkipSentinel, Found, NotFound,
           LookFurther, AllFound, FallBack, RadixJoin
  <2> QED
    BY <1>1, <1>3, <2>1, <2>2, TableStays
<1>6. CASE Duplicate
  <2>1. InsertInv /\ nodeIdx \in Nodes /\ Holders(id[nodeIdx]) # {} /\ id[nodeIdx] \in Ids
    BY <1>1, <1>6, Inputs DEF Duplicate, Searching, PhaseInv
  <2>2. PICK n \in Holders(id[nodeIdx]) : n \in Nodes /\ id[n] = id[nodeIdx] /\ \E s \in Slots : slotNode[s] = n
    BY <1>1, <2>1, HoldersAreSeen
  <2>3. n < nodeIdx
    BY <1>1, <2>1, <2>2, Inputs DEF InsertInv, Stored
  <2>4. ~IsInjective(id)
    <3>1. n # nodeIdx
      BY <1>1, <2>3
    <3> QED
      BY <2>1, <2>2, <3>1 DEF IsInjective, Nodes
  <2> QED
    BY <1>1, <1>4, <1>5, <1>6, <2>4 DEF Duplicate, PhaseInv, LookupPhases, AgreesWithJoin
<1>7. CASE Inserted
  <2>1. InsertInv'
    BY <1>1, <1>7, InsertedKeepsInsert DEF PhaseInv, Inserted, Searching
  <2>2. pc' = "insert" /\ nodeIdx' = nodeIdx + 1 /\ groupIndex' = 0 /\ nodeIdx < NodeCount
    BY <1>7 DEF Inserted, Searching, NextNode
  <2>3. nodeIdx' \in 0 .. NodeCount' /\ groupIndex' \in 0 .. ProbeLimits[groupWidth']
    BY <1>1, <1>4, <2>2, Inputs
  <2> QED
    BY <1>4, <1>5, <2>1, <2>2, <2>3 DEF PhaseInv, LookupPhases, AgreesWithJoin
<1>8. CASE FullGroup
  <2>1. /\ InsertInv /\ pc = "insert" /\ nodeIdx < NodeCount /\ groupIndex < ProbeLimits[groupWidth]
        /\ pc' = pc /\ nodeIdx' = nodeIdx /\ groupIndex' = groupIndex + 1
        /\ slotNode' = slotNode /\ parentIndex' = parentIndex
        /\ Holders(id[nodeIdx]) = {} /\ EmptyOffsets(id[nodeIdx]) = {}
    BY <1>1, <1>8 DEF FullGroup, Searching, PhaseInv, table
  <2>2. PICK key \in Ids : key = id[nodeIdx]
    BY <1>1, <2>1, Inputs
  <2>3. Searched(key)
    BY <2>1, <2>2 DEF InsertInv
  <2>4. Searched(id[nodeIdx])'
    <3>1. (id[nodeIdx])' = key
      BY <1>4, <2>1, <2>2
    <3> QED
      BY <1>1, <1>3, <2>1, <2>2, <2>3, <3>1, SearchStays
  <2>5. InsertInv'
    BY <1>1, <1>4, <2>1, <2>4, Inputs DEF InsertInv, Stored
  <2>6. nodeIdx' \in 0 .. NodeCount' /\ groupIndex' \in 0 .. ProbeLimits[groupWidth']
    BY <1>1, <1>4, <2>1, Inputs
  <2> QED
    BY <1>4, <1>5, <2>1, <2>5, <2>6 DEF PhaseInv, LookupPhases, AgreesWithJoin
<1>9. CASE AllInserted
  <2>1. /\ InsertInv /\ nodeIdx = NodeCount /\ pc' = "find" /\ nodeIdx' = 0 /\ groupIndex' = groupIndex
        /\ slotNode' = slotNode /\ parentIndex' = parentIndex
    BY <1>1, <1>9 DEF AllInserted, PhaseInv, table
  <2>2. \A n \in Nodes : n < nodeIdx
    BY <1>1, <2>1, Inputs
  <2>3. IsInjective(id)
    BY <1>1, <2>1, <2>2, Inputs DEF InsertInv, IsInjective
  <2>4. \A n \in Nodes : \E s \in Slots : slotNode[s] = n
    BY <2>1, <2>2 DEF InsertInv
  <2>5. groupIndex = 0
    BY <2>1 DEF InsertInv
  <2>6. Searched(Wanted)'
    BY <2>1, <2>5 DEF Searched
  <2>7. \A n \in Nodes : ~(n < 0)
    BY <1>1, Inputs
  <2>8. ResultSoFar'
    BY <1>4, <2>1, <2>7 DEF InsertInv, ResultSoFar
  <2>9. FindInv'
    BY <1>4, <2>1, <2>3, <2>4, <2>6, <2>8 DEF FindInv
  <2>10. nodeIdx' \in 0 .. NodeCount' /\ groupIndex' \in 0 .. ProbeLimits[groupWidth']
    BY <1>1, <1>4, <2>1, <2>5, Inputs
  <2> QED
    BY <1>4, <1>5, <2>1, <2>9, <2>10 DEF PhaseInv, LookupPhases, AgreesWithJoin
<1>10. CASE SkipSentinel
  <2>1. nodeIdx \in Nodes /\ IsInjective(id) /\ \A m \in Nodes : ~IsParentOf(m, nodeIdx)
    BY <1>1, <1>10, Inputs DEF SkipSentinel, IsParentOf, Wanted, PhaseInv, FindInv
  <2>2. TrueParents[nodeIdx] = NoParent
    BY <1>1, <2>1, ParentsAreKnown
  <2>3. PhaseInv'
    BY <1>10, <2>2, FindGoesOn DEF SkipSentinel
  <2> QED
    BY <1>4, <1>5, <2>3
<1>11. CASE Found
  <2>1. /\ nodeIdx \in Nodes /\ IsInjective(id) /\ Wanted \in Ids /\ Wanted \notin Sentinels
        /\ pc = "find" /\ nodeIdx < NodeCount
    <3>1. pc = "find" /\ nodeIdx < NodeCount /\ Wanted \notin Sentinels
      BY <1>11 DEF Found, Searching
    <3>2. nodeIdx \in Nodes
      BY <1>1, <3>1, Inputs
    <3> QED
      BY <1>1, <3>1, <3>2, Inputs DEF PhaseInv, FindInv, Wanted
  <2>2. PICK n \in Holders(Wanted) : parentIndex' = [parentIndex EXCEPT ![nodeIdx] = n]
    BY <1>11 DEF Found
  <2>3. n \in Nodes /\ id[n] = Wanted
    BY <1>1, <2>1, <2>2, HoldersAreSeen
  <2>4. TrueParents[nodeIdx] = n
    BY <1>1, <2>1, <2>3, ParentsAreKnown DEF IsParentOf, Wanted
  <2>5. PhaseInv'
    BY <1>11, <2>1, <2>2, <2>4, FindGoesOn DEF Found
  <2> QED
    BY <1>4, <1>5, <2>5
<1>12. CASE NotFound
  <2>1. /\ nodeIdx \in Nodes /\ IsInjective(id) /\ Wanted \in Ids /\ Wanted \notin Sentinels
        /\ pc = "find" /\ nodeIdx < NodeCount /\ Searched(Wanted)
        /\ Holders(Wanted) = {} /\ EmptyOffsets(Wanted) # {}
        /\ \A n \in Nodes : \E s \in Slots : slotNode[s] = n
    <3>1. pc = "find" /\ nodeIdx < NodeCount /\ Wanted \notin Sentinels
      BY <1>12 DEF NotFound, Searching
    <3>2. Holders(Wanted) = {} /\ EmptyOffsets(Wanted) # {}
      BY <1>12 DEF NotFound
    <3>3. nodeIdx \in Nodes
      BY <1>1, <3>1, Inputs
    <3>4. FindInv
      BY <1>1, <3>1 DEF PhaseInv
    <3>5. Wanted \in Ids
      BY <1>1, <3>3, Inputs DEF Wanted
    <3> QED
      BY <3>1, <3>2, <3>3, <3>4, <3>5 DEF FindInv
  <2>2. ASSUME NEW m \in Nodes
        PROVE  ~IsParentOf(m, nodeIdx)
    <3>1. PICK s \in Slots : slotNode[s] = m
      BY <2>1
    <3>2. Stored(s)
      BY <1>1, <3>1, Inputs DEF Stored
    <3>3. id[m] # Wanted
      BY <1>1, <2>1, <3>1, <3>2, KeyIsAbsent
    <3> QED
      BY <3>3 DEF IsParentOf, Wanted
  <2>3. TrueParents[nodeIdx] = NoParent
    BY <1>1, <2>1, <2>2, ParentsAreKnown
  <2>4. PhaseInv'
    BY <1>12, <2>1, <2>3, FindGoesOn DEF NotFound
  <2> QED
    BY <1>4, <1>5, <2>4
<1>13. CASE LookFurther
  <2>1. /\ FindInv /\ pc = "find" /\ nodeIdx < NodeCount /\ groupIndex < ProbeLimits[groupWidth]
        /\ pc' = pc /\ nodeIdx' = nodeIdx /\ groupIndex' = groupIndex + 1
        /\ slotNode' = slotNode /\ parentIndex' = parentIndex
        /\ Holders(Wanted) = {} /\ EmptyOffsets(Wanted) = {}
    BY <1>1, <1>13 DEF LookFurther, Searching, PhaseInv, table
  <2>2. PICK key \in Ids : key = Wanted
    BY <1>1, <2>1, Inputs DEF Wanted
  <2>3. Searched(key)
    BY <2>1, <2>2 DEF FindInv
  <2>4. Wanted' = key
    BY <1>4, <2>1, <2>2 DEF Wanted
  <2>5. Searched(Wanted)'
    BY <1>1, <1>3, <2>1, <2>2, <2>3, <2>4, SearchStays
  <2>6. ResultSoFar'
    BY <1>4, <2>1 DEF FindInv, ResultSoFar
  <2>7. FindInv'
    BY <1>4, <2>1, <2>5, <2>6 DEF FindInv
  <2>8. nodeIdx' \in 0 .. NodeCount' /\ groupIndex' \in 0 .. ProbeLimits[groupWidth']
    BY <1>1, <1>4, <2>1, Inputs
  <2> QED
    BY <1>4, <1>5, <2>1, <2>7, <2>8 DEF PhaseInv, LookupPhases, AgreesWithJoin
<1>14. CASE AllFound
  <2>1. /\ FindInv /\ nodeIdx = NodeCount /\ pc' = "done" /\ nodeIdx' = nodeIdx /\ groupIndex' = groupIndex
        /\ parentIndex' = parentIndex
    BY <1>1, <1>14 DEF AllFound, PhaseInv
  <2>2. parentIndex = TrueParents
    BY <1>1, <2>1, EveryParentFound DEF FindInv
  <2>3. IsInjective(id)' /\ parentIndex' = TrueParents'
    BY <1>4, <2>1, <2>2 DEF FindInv
  <2> QED
    BY <1>1, <1>4, <1>5, <2>1, <2>3 DEF PhaseInv, LookupPhases, AgreesWithJoin
<1>15. CASE FallBack
  <2>1. pc' = "fallback" /\ nodeIdx' = nodeIdx /\ groupIndex' = 0
    BY <1>15 DEF FallBack, Abandon
  <2>2. groupIndex' \in 0 .. ProbeLimits[groupWidth']
    BY <1>1, <1>4, <2>1, Inputs
  <2> QED
    BY <1>1, <1>4, <1>5, <2>1, <2>2 DEF PhaseInv, LookupPhases, AgreesWithJoin
<1>16. CASE RadixJoin
  <2>1. /\ nodeIdx' = nodeIdx /\ groupIndex' = groupIndex
        /\ IF IsInjective(id) THEN pc' = "done" /\ parentIndex' = TrueParents ELSE pc' = "throw"
    BY <1>16 DEF RadixJoin
  <2> QED
    BY <1>1, <1>4, <1>5, <2>1 DEF PhaseInv, LookupPhases, AgreesWithJoin
<1> QED
  BY <1>2, <1>6, <1>7, <1>8, <1>9, <1>10, <1>11, <1>12, <1>13, <1>14, <1>15, <1>16 DEF Next

-----------------------------------------------------------------------------
(* The steps of the directory *)

\* An injection of a finite set into itself leaves nothing out.
LEMMA InjectionIsOnto ==
  ASSUME NEW S, IsFiniteSet(S), NEW f \in [S -> S], \A x, y \in S : f[x] = f[y] => x = y
  PROVE  \A y \in S : \E x \in S : f[x] = y
<1> DEFINE T == {f[x] : x \in S}
<1>1. T \in SUBSET S
  OBVIOUS
<1>2. f \in Bijection(S, T)
  <2>1. f \in [S -> T]
    OBVIOUS
  <2>2. f \in Injection(S, T)
    BY <2>1 DEF Injection, IsInjective
  <2>3. f \in Surjection(S, T)
    BY <2>1 DEF Surjection
  <2> QED
    BY <2>2, <2>3 DEF Bijection
<1>3. Cardinality(T) = Cardinality(S)
  BY <1>2, FS_Bijection DEF ExistsBijection
<1>4. T = S
  BY <1>1, <1>3, FS_Subset
<1> QED
  BY <1>4

\* The number of smaller ids is the place of a node.
LEMMA PlacesAreDistinct ==
  ASSUME InputsOK, IsInjective(id)
  PROVE  /\ \A n \in Nodes : Cardinality({m \in Nodes : id[m] < id[n]}) \in Nodes
         /\ \A l, n \in Nodes : id[l] < id[n] =>
              Cardinality({m \in Nodes : id[m] < id[l]}) < Cardinality({m \in Nodes : id[m] < id[n]})
<1> DEFINE below(n) == {m \in Nodes : id[m] < id[n]}
<1>1. \A n \in Nodes : id[n] \in Nat
  BY Inputs, PrefixAssumption
<1>2. \A n \in Nodes : IsFiniteSet(below(n)) /\ Cardinality(below(n)) \in Nat
  BY Inputs, FS_Subset, FS_CardinalityType
<1>3. ASSUME NEW n \in Nodes
      PROVE  Cardinality(below(n)) \in Nodes
  <2>1. IsFiniteSet(Nodes \ {n}) /\ Cardinality(Nodes \ {n}) = NodeCount - 1
    BY Inputs, FS_RemoveElement
  <2>2. below(n) \in SUBSET (Nodes \ {n})
    BY <1>1
  <2>3. Cardinality(below(n)) <= NodeCount - 1
    BY <2>1, <2>2, FS_Subset
  <2>4. PICK c \in Nat : c = Cardinality(below(n))
    BY <1>2
  <2>5. c <= NodeCount - 1
    BY <2>3, <2>4
  <2>6. c \in Nodes
    BY <2>5, Inputs
  <2> QED
    BY <2>4, <2>6
<1>4. ASSUME NEW l \in Nodes, NEW n \in Nodes, id[l] < id[n]
      PROVE  Cardinality(below(l)) < Cardinality(below(n))
  <2>1. l \notin below(l)
    BY <1>1
  <2>2. IsFiniteSet(below(l) \cup {l}) /\ Cardinality(below(l) \cup {l}) = Cardinality(below(l)) + 1
    BY <1>2, <2>1, FS_AddElement
  <2>3. below(l) \cup {l} \in SUBSET below(n)
    BY <1>1, <1>4
  <2>4. Cardinality(below(l) \cup {l}) <= Cardinality(below(n))
    BY <1>2, <2>3, FS_Subset
  <2>5. PICK c \in Nat : c = Cardinality(below(l))
    BY <1>2
  <2>6. PICK d \in Nat : d = Cardinality(below(n))
    BY <1>2
  <2>7. c < d
    BY <2>2, <2>4, <2>5, <2>6
  <2> QED
    BY <2>5, <2>6, <2>7
<1> QED
  BY <1>3, <1>4

\* So sorting by it orders the ids and leaves no node out.
LEMMA SortIdsOrders ==
  ASSUME InputsOK, IsInjective(id), UNCHANGED inputs,
         idPermutation' = [p \in Nodes |-> CHOOSE n \in Nodes : Cardinality({m \in Nodes : id[m] < id[n]}) = p]
  PROVE  Ordered'
<1> PICK place \in [Nodes -> Nodes] :
      \A n \in Nodes : place[n] = Cardinality({m \in Nodes : id[m] < id[n]})
  <2>1. [n \in Nodes |-> Cardinality({m \in Nodes : id[m] < id[n]})] \in [Nodes -> Nodes]
    BY PlacesAreDistinct
  <2> QED
    BY <2>1
<1>1. \A l, n \in Nodes : id[l] < id[n] => place[l] < place[n]
  BY PlacesAreDistinct
<1>2. \A n \in Nodes : id[n] \in Nat /\ place[n] \in Nat
  BY Inputs, PrefixAssumption
<1>3. \A l, n \in Nodes : id[l] = id[n] => l = n
  BY DEF IsInjective, Nodes
<1>4. \A l, n \in Nodes : place[l] = place[n] => l = n
  BY <1>1, <1>2, <1>3
<1>5. \A p \in Nodes : \E n \in Nodes : place[n] = p
  <2> PICK N : N = Nodes
    OBVIOUS
  <2>1. IsFiniteSet(N) /\ place \in [N -> N] /\ \A l, n \in N : place[l] = place[n] => l = n
    BY <1>4, Inputs
  <2>2. \A p \in N : \E n \in N : place[n] = p
    BY <2>1, InjectionIsOnto
  <2> QED
    BY <2>2
<1>6. \A p \in Nodes : idPermutation'[p] = CHOOSE n \in Nodes : place[n] = p
  <2> SUFFICES ASSUME NEW p \in Nodes
               PROVE  idPermutation'[p] = CHOOSE n \in Nodes : place[n] = p
    OBVIOUS
  <2>1. idPermutation'[p] = CHOOSE n \in Nodes : Cardinality({m \in Nodes : id[m] < id[n]}) = p
    OBVIOUS
  <2>2. \A n \in Nodes : Cardinality({m \in Nodes : id[m] < id[n]}) = p <=> place[n] = p
    OBVIOUS
  <2> QED
    BY <2>1, <2>2
<1>7. \A p \in Nodes : idPermutation'[p] \in Nodes /\ place[idPermutation'[p]] = p
  BY <1>5, <1>6
<1>8. idPermutation' \in [Nodes -> Nodes]
  BY <1>7
<1>9. \A p, q \in Nodes : p < q => id[idPermutation'[p]] < id[idPermutation'[q]]
  <2> SUFFICES ASSUME NEW p \in Nodes, NEW q \in Nodes, p < q
               PROVE  id[idPermutation'[p]] < id[idPermutation'[q]]
    OBVIOUS
  <2>1. PICK l \in Nodes : l = idPermutation'[p] /\ place[l] = p
    BY <1>7
  <2>2. PICK n \in Nodes : n = idPermutation'[q] /\ place[n] = q
    BY <1>7
  <2>3. ~(place[n] < place[l])
    BY <1>2, <2>1, <2>2
  <2>4. ~(id[n] < id[l]) /\ id[n] # id[l]
    BY <1>1, <1>2, <1>3, <2>1, <2>2, <2>3
  <2>5. id[l] < id[n]
    BY <1>2, <2>4
  <2> QED
    BY <2>1, <2>2, <2>5
<1>10. \A n \in Nodes : \E p \in Nodes : idPermutation'[p] = n
  <2> SUFFICES ASSUME NEW n \in Nodes
               PROVE  \E p \in Nodes : idPermutation'[p] = n
    OBVIOUS
  <2>1. place[n] \in Nodes /\ idPermutation'[place[n]] = n
    BY <1>4, <1>7
  <2> QED
    BY <2>1
<1>11. id' = id /\ Nodes' = Nodes
  BY InputsStay
<1> QED
  BY <1>8, <1>9, <1>10, <1>11 DEF Ordered

\* A range spans the positions it is made of.
LEMMA RangesSpan ==
  ASSUME InputsOK, NEW P \in SUBSET Nodes
  PROVE  /\ RangeOf(P).begin \in Nat /\ RangeOf(P).end \in 0 .. NodeCount
         /\ RangeOf(P).begin <= RangeOf(P).end
         /\ \A p \in P : RangeOf(P).begin <= p /\ p < RangeOf(P).end
<1>1. CASE P = {}
  BY <1>1, Inputs DEF RangeOf, NoRange
<1>2. CASE P # {}
  <2>1. P \in SUBSET Nat /\ NodeCount \in Nat /\ P \in SUBSET (0 .. NodeCount - 1)
    BY Inputs
  <2>2. \E m \in P : \A x \in P : m <= x
    BY <1>2, <2>1, LeastElement
  <2>3. NodeCount - 1 \in Nat
    <3>1. PICK x \in P : x \in 0 .. NodeCount - 1
      BY <1>2, <2>1
    <3> QED
      BY <2>1, <3>1
  <2>4. \E m \in P : \A x \in P : x <= m
    BY <1>2, <2>1, <2>3, GreatestElement
  <2>5. Min(P) \in P /\ \A x \in P : Min(P) <= x
    BY <2>2 DEF Min
  <2>6. \E m \in P : \A x \in P : m >= x
    BY <2>1, <2>4
  <2>7. Max(P) \in P /\ \A x \in P : Max(P) >= x
    BY <2>6 DEF Max
  <2>8. RangeOf(P) = [begin |-> Min(P), end |-> Max(P) + 1]
    BY <1>2 DEF RangeOf
  <2>9. PICK a \in P : a = Min(P) /\ \A x \in P : a <= x
    BY <2>5
  <2>10. PICK b \in P : b = Max(P) /\ \A x \in P : x <= b
    BY <2>1, <2>7
  <2>11. a \in Nat /\ b + 1 \in 0 .. NodeCount /\ a <= b + 1 /\ \A x \in P : a <= x /\ x < b + 1
    BY <2>1, <2>9, <2>10
  <2> QED
    BY <2>8, <2>9, <2>10, <2>11
<1> QED
  BY <1>1, <1>2

LEMMA NothingFoundYet ==
  ASSUME InputsOK, nodeIdx = 0, parentIndex = [n \in Nodes |-> NoParent]
  PROVE  ResultSoFar
<1>1. \A n \in Nodes : ~(n < 0)
  BY Inputs
<1> QED
  BY <1>1 DEF ResultSoFar

LEMMA IdsRise ==
  ASSUME InputsOK, Ordered
  PROVE  /\ \A p \in Nodes : p \in Nat /\ idPermutation[p] \in Nodes /\ id[idPermutation[p]] \in Nat
         /\ \A p, q \in Nodes : p <= q => id[idPermutation[p]] <= id[idPermutation[q]]
<1>1. \A p \in Nodes : p \in Nat
  BY Inputs
<1>2. \A p \in Nodes : idPermutation[p] \in Nodes
  BY DEF Ordered
<1>3. \A n \in Nodes : id[n] \in Nat
  BY Inputs, PrefixAssumption
<1>4. ASSUME NEW p \in Nodes, NEW q \in Nodes, p <= q
      PROVE  id[idPermutation[p]] <= id[idPermutation[q]]
  <2>1. CASE p = q
    BY <1>2, <1>3, <2>1
  <2>2. CASE p # q
    <3>1. id[idPermutation[p]] < id[idPermutation[q]]
      <4>1. p < q
        BY <1>1, <1>4, <2>2
      <4> QED
        BY <4>1 DEF Ordered
    <3> QED
      BY <1>2, <1>3, <3>1
  <2> QED
    BY <2>1, <2>2
<1> QED
  BY <1>1, <1>2, <1>3, <1>4

\* Halving leaves the position of the id wanted in between.
LEMMA HalveKeepsBounds ==
  ASSUME InputsOK, Ordered, HalveInv, HasRange(Key(Wanted)), Halve
  PROVE  HalveInv'
<1> PICK range : range = directory[Key(Wanted)]
  OBVIOUS
<1> PICK wanted \in Ids : wanted = Wanted
  BY Inputs DEF HalveInv, Wanted
<1>1. /\ nodeIdx \in Nodes /\ Wanted \notin Sentinels
      /\ low \in Nat /\ high \in Nat /\ low < high /\ range.begin <= low /\ high <= range.end
      /\ range.begin \in Nat /\ range.end \in Nat /\ range.end <= NodeCount
      /\ \A p \in Nodes : range.begin <= p /\ p < low => id[idPermutation[p]] < wanted
      /\ \A p \in Nodes : high <= p /\ p < range.end => wanted <= id[idPermutation[p]]
  BY Inputs DEF HalveInv, HasRange, Halve
<1>2. PICK mid \in Nat : mid = Mid /\ low <= mid /\ mid < high
  <2>1. PICK d \in Nat : d = high - low /\ d # 0
    BY <1>1
  <2>2. d \div 2 \in Nat /\ d \div 2 < d
    BY <2>1
  <2> QED
    BY <1>1, <2>1, <2>2 DEF Mid
<1>3. mid \in Nodes
  BY <1>1, <1>2, Inputs
<1>4. /\ nodeIdx' = nodeIdx /\ directory' = directory /\ idPermutation' = idPermutation
      /\ UNCHANGED inputs
      /\ IF id[idPermutation[mid]] < wanted THEN low' = mid + 1 /\ high' = high
                                            ELSE low' = low /\ high' = mid
  BY <1>2 DEF Halve, UpToMid
<1>5. /\ Wanted' = wanted /\ id' = id /\ Nodes' = Nodes
  BY <1>4, InputsStay DEF Wanted
<1>6. \A p \in Nodes : p \in Nat /\ id[idPermutation[p]] \in Nat
  BY IdsRise
<1>7. wanted \in Nat
  BY PrefixAssumption
<1>8. /\ low' \in Nat /\ high' \in Nat
      /\ range.begin <= low' /\ low' <= high' /\ high' <= range.end
  BY <1>1, <1>2, <1>4
<1>9. \A p \in Nodes : range.begin <= p /\ p < low' => id[idPermutation[p]] < wanted
  <2> SUFFICES ASSUME NEW p \in Nodes, range.begin <= p, p < low', ~(p < low)
               PROVE  id[idPermutation[p]] < wanted
    BY <1>1
  <2>1. id[idPermutation[mid]] < wanted /\ low' = mid + 1
    BY <1>4
  <2>2. p <= mid
    BY <1>2, <1>6, <2>1
  <2>3. id[idPermutation[p]] <= id[idPermutation[mid]]
    BY <1>3, <2>2, IdsRise
  <2>4. id[idPermutation[p]] \in Nat /\ id[idPermutation[mid]] \in Nat
    BY <1>3, <1>6
  <2> QED
    BY <1>7, <2>1, <2>3, <2>4
<1>10. \A p \in Nodes : high' <= p /\ p < range.end => wanted <= id[idPermutation[p]]
  <2> SUFFICES ASSUME NEW p \in Nodes, high' <= p, p < range.end, ~(high <= p)
               PROVE  wanted <= id[idPermutation[p]]
    BY <1>1
  <2>1. ~(id[idPermutation[mid]] < wanted) /\ high' = mid
    BY <1>4
  <2>2. mid <= p
    BY <1>2, <1>6, <2>1
  <2>3. id[idPermutation[mid]] <= id[idPermutation[p]]
    BY <1>3, <2>2, IdsRise
  <2>4. id[idPermutation[p]] \in Nat /\ id[idPermutation[mid]] \in Nat
    BY <1>3, <1>6
  <2> QED
    BY <1>7, <2>1, <2>3, <2>4
<1>11. directory'[Key(Wanted)'] = range
  BY <1>4, <1>5 DEF Key
<1> QED
  BY <1>1, <1>4, <1>5, <1>8, <1>9, <1>10, <1>11 DEF HalveInv

\* Where the halves meet, the parent is, or there is none.
LEMMA HalvesMeet ==
  ASSUME InputsOK, IsInjective(id), Ordered, HalveInv, HasRange(Key(Wanted)), SearchEnds
  PROVE  \/ parentIndex' = parentIndex /\ TrueParents[nodeIdx] = NoParent
         \/ parentIndex' = [parentIndex EXCEPT ![nodeIdx] = TrueParents[nodeIdx]]
<1> PICK range : range = directory[Key(Wanted)]
  OBVIOUS
<1> PICK wanted \in Ids : wanted = Wanted
  BY Inputs DEF HalveInv, Wanted
<1>1. /\ nodeIdx \in Nodes /\ Wanted \notin Sentinels
      /\ low \in Nat /\ low = high /\ range.begin <= low /\ low <= range.end
      /\ range.begin \in Nat /\ range.end \in Nat /\ range.end <= NodeCount
      /\ \A p \in Nodes : range.begin <= p /\ p < low => id[idPermutation[p]] < wanted
      /\ \A p \in Nodes : low <= p /\ p < range.end => wanted <= id[idPermutation[p]]
      /\ \A p \in Nodes : Key(id[idPermutation[p]]) = Key(wanted) => range.begin <= p /\ p < range.end
  BY Inputs DEF HalveInv, HasRange, SearchEnds
<1>2. \A p \in Nodes : p \in Nat /\ idPermutation[p] \in Nodes /\ id[idPermutation[p]] \in Nat
  BY IdsRise
<1>3. \A m \in Nodes : IsParentOf(m, nodeIdx) <=> id[m] = wanted
  BY <1>1 DEF IsParentOf, Wanted
<1>4. CASE low < range.end /\ id[idPermutation[low]] = wanted
  <2>1. low \in Nodes
    BY <1>1, <1>4, Inputs
  <2>2. TrueParents[nodeIdx] = idPermutation[low]
    BY <1>1, <1>2, <1>3, <1>4, <2>1, ParentsAreKnown
  <2>3. parentIndex' = [parentIndex EXCEPT ![nodeIdx] = idPermutation[low]]
    BY <1>4 DEF SearchEnds
  <2> QED
    BY <2>2, <2>3
<1>5. CASE ~(low < range.end /\ id[idPermutation[low]] = wanted)
  <2>1. ASSUME NEW m \in Nodes, id[m] = wanted
        PROVE  FALSE
    <3>1. PICK p \in Nodes : idPermutation[p] = m
      BY DEF Ordered
    <3>2. range.begin <= p /\ p < range.end /\ p \in Nat
      BY <1>1, <1>2, <2>1, <3>1
    <3>3. wanted \in Nat
      BY PrefixAssumption
    <3>4. low <= p
      BY <1>1, <2>1, <3>1, <3>2, <3>3
    <3>5. low < range.end /\ low \in Nodes
      <4>1. low < range.end
        BY <1>1, <3>2, <3>4
      <4>2. low \in Nat /\ low < NodeCount /\ NodeCount \in Nat
        <5>1. low \in Nat /\ range.end \in Nat /\ range.end <= NodeCount
          BY <1>1
        <5>2. NodeCount \in Nat
          BY Inputs
        <5> QED
          BY <4>1, <5>1, <5>2
      <4>3. low \in 0 .. NodeCount - 1
        BY <4>2
      <4> QED
        BY <4>1, <4>3, Inputs
    <3>6. wanted <= id[idPermutation[low]] /\ id[idPermutation[low]] # wanted
      BY <1>1, <1>5, <3>5
    <3>7. id[idPermutation[low]] <= id[idPermutation[p]]
      BY <3>4, <3>5, IdsRise
    <3> QED
      BY <1>2, <2>1, <3>1, <3>3, <3>5, <3>6, <3>7
  <2>2. TrueParents[nodeIdx] = NoParent
    BY <1>1, <1>3, <2>1, ParentsAreKnown
  <2>3. parentIndex' = parentIndex
    BY <1>5 DEF SearchEnds
  <2> QED
    BY <2>2, <2>3
<1> QED
  BY <1>4, <1>5

\* A step of the directory.
LEMMA DirectoryStep ==
  ASSUME LookupInv, UseDirectory
  PROVE  LookupInv'
<1>1. /\ InputsOK /\ TableInv /\ PhaseInv /\ DirectoryInv
      /\ nodeIdx \in 0 .. NodeCount /\ groupIndex \in 0 .. ProbeLimits[groupWidth]
      /\ nodeIdx \in Nat /\ groupIndex \in Nat
  BY Inputs DEF LookupInv, PhaseInv
<1>2. CASE Returned /\ UNCHANGED directoryVars
  <2>1. UNCHANGED <<inputs, pc, nodeIdx, groupIndex, table, parentIndex, directoryVars>>
    BY <1>2 DEF Returned, vars
  <2> QED
    BY <2>1, UnchangedKeepsLookup
<1>3. SUFFICES ASSUME ~(Returned /\ UNCHANGED directoryVars)
               PROVE  LookupInv'
  BY <1>2
<1>4. UNCHANGED inputs /\ UNCHANGED table
  BY <1>3 DEF UseDirectory, SortIds, BuildDirectory, NotCollected, BeginSearch, Halve, SearchEnds, AllSearched
<1>5. /\ InputsOK' /\ Nodes' = Nodes /\ NodeCount' = NodeCount
      /\ TrueParents' = TrueParents /\ IsInjective(id)' = IsInjective(id)
      /\ groupWidth' = groupWidth /\ id' = id /\ parentId' = parentId
  BY <1>1, <1>4, InputsStay
<1>6. TableInv'
  BY <1>1, <1>4, TableStays
<1>7. groupIndex' \in 0 .. ProbeLimits[groupWidth']
  <2>1. groupIndex' = groupIndex \/ groupIndex' = 0
    BY <1>3 DEF UseDirectory, SortIds, BuildDirectory, NotCollected, BeginSearch, Halve, SearchEnds, AllSearched, NextNode
  <2> QED
    BY <1>1, <1>5, <2>1, Inputs
<1>8. nodeIdx' \in 0 .. NodeCount'
  <2>1. nodeIdx' = nodeIdx \/ (nodeIdx' = nodeIdx + 1 /\ nodeIdx < NodeCount)
    <3>1. pc = "halve" => nodeIdx \in Nodes
      BY <1>1 DEF DirectoryInv, HalveInv
    <3>2. nodeIdx \in Nodes => nodeIdx < NodeCount
      BY <1>1, Inputs
    <3> QED
      BY <1>3, <3>1, <3>2 DEF UseDirectory, SortIds, BuildDirectory, NotCollected, BeginSearch, Halve, SearchEnds,
                              AllSearched, NextNode
  <2> QED
    BY <1>1, <1>5, <2>1, Inputs
<1>9. SUFFICES ASSUME pc' \in {"throw", "directory", "look", "halve", "done"}
               PROVE  DirectoryInv' /\ AgreesWithJoin'
  <2>1. pc' \in {"throw", "directory", "look", "halve", "done"}
    BY <1>3 DEF UseDirectory, SortIds, BuildDirectory, NotCollected, BeginSearch, Halve, SearchEnds, AllSearched, NextNode
  <2> QED
    BY <1>5, <1>6, <1>7, <1>8, <1>9, <2>1 DEF LookupInv, PhaseInv, LookupPhases
<1>10. CASE SortIds
  <2>1. nodeIdx = 0 /\ parentIndex = [n \in Nodes |-> NoParent]
    BY <1>1, <1>10 DEF SortIds, PhaseInv, InsertInv
  <2>2. nodeIdx' = nodeIdx /\ parentIndex' = parentIndex
    BY <1>10 DEF SortIds
  <2>3. CASE IsInjective(id)
    <3>1. pc' = "directory" /\ Ordered'
      BY <1>1, <1>4, <1>10, <2>3, SortIdsOrders DEF SortIds
    <3> QED
      BY <1>5, <2>1, <2>2, <2>3, <3>1 DEF DirectoryInv, AgreesWithJoin
  <2>4. CASE ~IsInjective(id)
    BY <1>5, <1>10, <2>4 DEF SortIds, DirectoryInv, AgreesWithJoin
  <2> QED
    BY <2>3, <2>4
<1>11. CASE BuildDirectory
  <2>1. /\ nodeIdx = 0 /\ parentIndex = [n \in Nodes |-> NoParent] /\ IsInjective(id) /\ Ordered
        /\ pc' = "look" /\ nodeIdx' = nodeIdx /\ parentIndex' = parentIndex /\ idPermutation' = idPermutation
        /\ directory' = [k \in Keys |-> RangeOf({p \in Nodes : Key(id[idPermutation[p]]) = k})]
    BY <1>1, <1>11 DEF BuildDirectory, DirectoryInv
  <2>2. ResultSoFar'
    BY <1>1, <1>5, <2>1, NothingFoundYet DEF ResultSoFar
  <2>3. Ordered'
    BY <1>5, <2>1 DEF Ordered
  <2>4. ASSUME NEW k \in Keys
        PROVE  HasRange(k)'
    <3> DEFINE P == {p \in Nodes : Key(id[idPermutation[p]]) = k}
    <3>1. directory'[k] = RangeOf(P)
      BY <2>1
    <3>2. P \in SUBSET Nodes
      OBVIOUS
    <3>3. /\ RangeOf(P).begin \in Nat /\ RangeOf(P).end \in 0 .. NodeCount
          /\ RangeOf(P).begin <= RangeOf(P).end
          /\ \A p \in P : RangeOf(P).begin <= p /\ p < RangeOf(P).end
      BY <1>1, <3>2, RangesSpan
    <3>4. \A p \in Nodes : Key(id[idPermutation[p]]) = k => p \in P
      OBVIOUS
    <3> HIDE DEF P
    <3> QED
      BY <1>5, <2>1, <3>1, <3>3, <3>4 DEF HasRange, Key
  <2> QED
    BY <1>5, <2>1, <2>2, <2>3, <2>4 DEF DirectoryInv, AgreesWithJoin, Keys, Key
<1>12. ASSUME pc \in {"look", "halve"}, UNCHANGED <<inputs, idPermutation, directory>>
       PROVE  /\ IsInjective(id)' /\ Ordered' /\ \A k \in Keys : HasRange(k)'
              /\ IsInjective(id) /\ Ordered /\ ResultSoFar /\ \A k \in Keys : HasRange(k)
  <2>1. IsInjective(id) /\ Ordered /\ ResultSoFar /\ \A k \in Keys : HasRange(k)
    BY <1>1, <1>12 DEF DirectoryInv
  <2>2. Ordered'
    BY <1>5, <1>12, <2>1 DEF Ordered
  <2>3. \A k \in Keys : HasRange(k)'
    BY <1>5, <1>12, <2>1 DEF HasRange, Key
  <2> QED
    BY <1>5, <2>1, <2>2, <2>3
<1>13. Wanted \in Ids \/ nodeIdx = NodeCount
  BY <1>1, Inputs DEF Wanted
<1>14. CASE NotCollected
  <2>1. /\ pc = "look" /\ pc' = "look" /\ nodeIdx \in Nodes /\ Wanted \in Sentinels
        /\ nodeIdx' = nodeIdx + 1 /\ parentIndex' = parentIndex
        /\ idPermutation' = idPermutation /\ directory' = directory
    BY <1>1, <1>14, Inputs DEF NotCollected, NextNode, directoryVars
  <2>2. IsInjective(id) /\ ResultSoFar /\ \A m \in Nodes : ~IsParentOf(m, nodeIdx)
    BY <1>4, <1>12, <2>1 DEF IsParentOf, Wanted
  <2>3. TrueParents[nodeIdx] = NoParent
    BY <1>1, <2>1, <2>2, ParentsAreKnown
  <2>4. ResultSoFar'
    BY <1>1, <1>4, <2>1, <2>2, <2>3, ResultGrows
  <2> QED
    BY <1>4, <1>12, <2>1, <2>4 DEF DirectoryInv, AgreesWithJoin
<1>15. CASE BeginSearch
  <2>1. /\ pc = "look" /\ pc' = "halve" /\ nodeIdx \in Nodes /\ Wanted \notin Sentinels /\ Wanted \in Ids
        /\ nodeIdx' = nodeIdx /\ parentIndex' = parentIndex
        /\ idPermutation' = idPermutation /\ directory' = directory
        /\ low' = directory[Key(Wanted)].begin /\ high' = directory[Key(Wanted)].end
    BY <1>1, <1>13, <1>15, Inputs DEF BeginSearch
  <2>2. ResultSoFar'
    BY <1>4, <1>5, <1>12, <2>1 DEF ResultSoFar
  <2>3. HasRange(Key(Wanted))
    BY <1>4, <1>12, <2>1 DEF Keys
  <2> PICK range : range = directory[Key(Wanted)]
    OBVIOUS
  <2>4. /\ Wanted' = Wanted /\ directory'[Key(Wanted)'] = range
    BY <1>5, <2>1 DEF Wanted, Key
  <2>5. range.begin \in Nat /\ range.end \in Nat /\ range.begin <= range.end /\ \A p \in Nodes : p \in Nat
    BY <1>1, <2>3, Inputs DEF HasRange
  <2>6. /\ \A p \in Nodes : ~(range.begin <= p /\ p < range.begin)
        /\ \A p \in Nodes : ~(range.end <= p /\ p < range.end)
    BY <2>5
  <2>7. HalveInv'
    BY <1>5, <2>1, <2>4, <2>5, <2>6 DEF HalveInv
  <2> QED
    BY <1>4, <1>12, <2>1, <2>2, <2>7 DEF DirectoryInv, AgreesWithJoin
<1>16. ASSUME pc = "halve", UNCHANGED <<inputs, idPermutation, directory>>
       PROVE  nodeIdx \in Nodes /\ HalveInv /\ HasRange(Key(Wanted))
  <2>1. nodeIdx \in Nodes /\ HalveInv
    BY <1>1, <1>16 DEF DirectoryInv, HalveInv
  <2>2. Key(Wanted) \in Keys
    BY <1>1, <2>1, Inputs DEF Keys, Wanted
  <2> QED
    BY <1>12, <1>16, <2>1, <2>2
<1>17. CASE Halve
  <2>1. /\ pc = "halve" /\ pc' = "halve" /\ nodeIdx' = nodeIdx /\ parentIndex' = parentIndex
        /\ UNCHANGED <<inputs, idPermutation, directory>>
    BY <1>17 DEF Halve
  <2>2. ResultSoFar'
    BY <1>5, <1>12, <2>1 DEF ResultSoFar
  <2>3. HalveInv'
    BY <1>1, <1>12, <1>16, <1>17, <2>1, HalveKeepsBounds
  <2> QED
    BY <1>12, <2>1, <2>2, <2>3 DEF DirectoryInv, AgreesWithJoin
<1>18. CASE SearchEnds
  <2>1. /\ pc = "halve" /\ pc' = "look" /\ nodeIdx' = nodeIdx + 1
        /\ UNCHANGED <<inputs, idPermutation, directory>>
    BY <1>4, <1>18 DEF SearchEnds, NextNode, directoryVars
  <2>2. \/ parentIndex' = parentIndex /\ TrueParents[nodeIdx] = NoParent
        \/ parentIndex' = [parentIndex EXCEPT ![nodeIdx] = TrueParents[nodeIdx]]
    BY <1>1, <1>12, <1>16, <1>18, <2>1, HalvesMeet
  <2>3. ResultSoFar'
    BY <1>1, <1>4, <1>12, <1>16, <2>1, <2>2, ResultGrows
  <2> QED
    BY <1>12, <2>1, <2>3 DEF DirectoryInv, AgreesWithJoin
<1>19. CASE AllSearched
  <2>1. /\ pc = "look" /\ pc' = "done" /\ nodeIdx = NodeCount /\ parentIndex' = parentIndex
        /\ UNCHANGED <<inputs, idPermutation, directory>>
    BY <1>4, <1>19 DEF AllSearched, directoryVars
  <2>2. IsInjective(id)' /\ parentIndex = TrueParents
    BY <1>1, <1>12, <2>1, EveryParentFound
  <2> QED
    BY <1>5, <2>1, <2>2 DEF DirectoryInv, AgreesWithJoin
<1> QED
  BY <1>3, <1>10, <1>11, <1>14, <1>15, <1>17, <1>18, <1>19 DEF UseDirectory

LEMMA LookupInvariant == LookupSpec => []LookupInv
<1>1. LookupInit => LookupInv
  BY InitLookupInv
<1>2. LookupInv /\ [UseTable \/ UseDirectory]_allVars => LookupInv'
  <2> SUFFICES ASSUME LookupInv, [UseTable \/ UseDirectory]_allVars
               PROVE  LookupInv'
    OBVIOUS
  <2>1. CASE UseTable
    BY <2>1, TableStep DEF UseTable
  <2>2. CASE UseDirectory
    BY <2>2, DirectoryStep
  <2>3. CASE UNCHANGED allVars
    <3>1. UNCHANGED <<inputs, pc, nodeIdx, groupIndex, table, parentIndex, directoryVars>>
      BY <2>3 DEF allVars, vars
    <3> QED
      BY <3>1, UnchangedKeepsLookup
  <2> QED
    BY <2>1, <2>2, <2>3
<1> QED
  BY <1>1, <1>2, PTL DEF LookupSpec

\* Whatever the hash function, the group width and the probe limit, every node in
\* a table is where its own search looks before it gives up, behind full groups
\* only, and the control bytes past the last slot repeat those of the first
\* slots: a search may stop at the first empty slot it sees.
THEOREM TableEntriesAreReachable == LookupSpec => []EntriesAreReachable
<1>1. LookupInv => EntriesAreReachable
  <2> SUFFICES ASSUME LookupInv
               PROVE  EntriesAreReachable
    OBVIOUS
  <2>1. InputsOK /\ TableInv
    BY DEF LookupInv
  <2>2. ASSUME NEW s \in Slots, s < groupWidth
        PROVE  control[Capacity + s] = control[s]
    <3>1. Capacity \in Nat \ {0} /\ s \in 0 .. Capacity - 1 /\ groupWidth \in Nat
      BY <2>1, Inputs
    <3>2. /\ s \in 0 .. Capacity + groupWidth - 1 /\ s < 2 * Capacity
          /\ Capacity + s \in 0 .. Capacity + groupWidth - 1 /\ Capacity + s < 2 * Capacity
          /\ Capacity + s = s + Capacity
      BY <2>2, <3>1
    <3>3. s % Capacity = s /\ (s + Capacity) % Capacity = s
      BY <3>1, RestBelow
    <3>4. control[s] = ByteOf(s) /\ control[Capacity + s] = ByteOf(s)
      BY <2>1, <3>2, <3>3 DEF TableInv, ControlInv
    <3> QED
      BY <3>4
  <2>3. ASSUME NEW s \in Slots, slotNode[s] # NoParent
        PROVE  \E g \in 0 .. ProbeLimits[groupWidth] - 1 :
                 LET start(k) == hash[id[slotNode[s]]] + k * groupWidth
                     group(k) == {(start(k) + o) % Capacity : o \in Offsets}
                 IN  /\ s \in group(g)
                     /\ \A k \in 0 .. g - 1 : \A t \in group(k) : slotNode[t] # NoParent
    <3>1. OnItsPath(s)
      BY <2>1, <2>3 DEF TableInv, Stored
    <3> QED
      BY <3>1 DEF OnItsPath, Path, Stored
  <2> QED
    BY <2>2, <2>3 DEF EntriesAreReachable
<1> QED
  BY <1>1, LookupInvariant, PTL

\* And whatever they are, the tables and the prefix directory refuse the forests
\* with equal ids and only them, and find the parents the radix join finds.
THEOREM LookupsAgreeWithJoin == LookupSpec => []AgreesWithJoin
<1>1. LookupInv => AgreesWithJoin
  BY DEF LookupInv, PhaseInv
<1> QED
  BY <1>1, LookupInvariant, PTL

-----------------------------------------------------------------------------
(* The full benchmark: every sample is paired, every comparison is fair.    *)

\* Whatever is in it, a list.
IsList(s) == \E T : s \in Seq(T)

\* The empty list is one.
LEMMA EmptyIsList == IsList(<<>>) /\ Len(<<>>) = 0
BY DEF IsList

\* What appending does to a list.
LEMMA AppendKeepsList ==
  ASSUME NEW s, IsList(s), NEW x
  PROVE  /\ IsList(Append(s, x)) /\ Len(s) \in Nat /\ Len(Append(s, x)) = Len(s) + 1
         /\ DOMAIN s = 1 .. Len(s) /\ DOMAIN Append(s, x) = 1 .. Len(s) + 1
         /\ \A k \in 1 .. Len(s) : Append(s, x)[k] = s[k]
         /\ Append(s, x)[Len(s) + 1] = x
<1>1. PICK T : s \in Seq(T)
  BY DEF IsList
<1>2. s \in Seq(T \cup {x})
  BY <1>1, SeqMonotonic
<1>3. x \in T \cup {x}
  OBVIOUS
<1>4. /\ Append(s, x) \in Seq(T \cup {x}) /\ Len(Append(s, x)) = Len(s) + 1
      /\ \A k \in 1 .. Len(s) : Append(s, x)[k] = s[k]
      /\ Append(s, x)[Len(s) + 1] = x
  BY <1>2, <1>3, AppendProperties
<1>5. Len(s) \in Nat /\ DOMAIN s = 1 .. Len(s) /\ DOMAIN Append(s, x) = 1 .. Len(Append(s, x))
  BY <1>2, <1>4, LenProperties
<1>. QED  BY <1>4, <1>5 DEF IsList

\* Division with remainder, composed.
LEMMA QuotientIs ==
  ASSUME NEW c \in Nat \ {0}, NEW q \in Nat, NEW r \in 0 .. c - 1
  PROVE  (c * q + r) \div c = q /\ (c * q + r) % c = r
<1>0. c * q \in Nat
  OBVIOUS
<1> PICK y \in Nat : y = c * q + r
  BY <1>0
<1> PICK d \in Nat : d = y \div c
  OBVIOUS
<1> PICK rest \in 0 .. c - 1 : rest = y % c
  OBVIOUS
<1>1. y = c * d + rest
  OBVIOUS
<1>2. CASE d < q
  <2>1. PICK j \in Nat : q = d + 1 + j
    <3>1. q - d - 1 \in Nat
      BY <1>2
    <3> QED  BY <3>1
  <2>2. c * q = c * d + c + c * j /\ c * j \in Nat
    BY <2>1
  <2> QED
    BY <1>1, <2>2
<1>3. CASE q < d
  <2>1. PICK j \in Nat : d = q + 1 + j
    <3>1. d - q - 1 \in Nat
      BY <1>3
    <3> QED  BY <3>1
  <2>2. c * d = c * q + c + c * j /\ c * j \in Nat
    BY <2>1
  <2> QED
    BY <1>1, <2>2
<1>4. CASE d = q
  BY <1>1, <1>4
<1> QED
  BY <1>2, <1>3, <1>4

\* Division with remainder, decomposed.
LEMMA QuotientOf ==
  ASSUME NEW x \in Nat, NEW c \in Nat \ {0}
  PROVE  /\ x \div c \in Nat /\ x % c \in 0 .. c - 1 /\ x = c * (x \div c) + (x % c)
OBVIOUS

\* The rows: for each data set, each builder with each sort.
RowAt(P, S, c, p, s) == c * P * S + p * S + s
HasCoordinates(P, S, r, c, p, s) == r \div (P * S) = c /\ (r \div S) % P = p /\ r % S = s

\* A builder and a sort of a data set have a row, which tells them.
LEMMA RowCoordinates ==
  ASSUME NEW P \in Nat \ {0}, NEW S \in Nat \ {0}, NEW C \in Nat,
         NEW c \in 0 .. C - 1, NEW p \in 0 .. P - 1, NEW s \in 0 .. S - 1
  PROVE  RowAt(P, S, c, p, s) \in 0 .. C * P * S - 1 /\ HasCoordinates(P, S, RowAt(P, S, c, p, s), c, p, s)
<1> DEFINE r == RowAt(P, S, c, p, s)
<1>1. PICK cp \in Nat : cp = P * c + p
  OBVIOUS
<1>2. r = S * cp + s
  <2>1. c * P * S + p * S = S * (P * c + p)
    OBVIOUS
  <2>. QED  BY <2>1, <1>1 DEF RowAt
<1>3. r \div S = cp /\ r % S = s
  BY <1>2, QuotientIs
<1>4. cp % P = p
  BY <1>1, QuotientIs
<1>5. PICK all \in Nat \ {0} : all = P * S
  <2>1. P * S \in Nat /\ P * S # 0
    OBVIOUS
  <2>. QED  BY <2>1
<1>6. PICK rest \in 0 .. all - 1 : rest = p * S + s
  <2>1. PICK j \in Nat : P = p + 1 + j
    <3>1. P - p - 1 \in Nat
      OBVIOUS
    <3>. QED  BY <3>1
  <2>2. P * S = p * S + S + j * S /\ j * S \in Nat /\ p * S \in Nat
    BY <2>1
  <2>3. p * S + s \in 0 .. all - 1
    BY <2>2, <1>5
  <2>. QED  BY <2>3
<1>7. r = all * c + rest
  BY <1>5, <1>6 DEF RowAt
<1>8. r \div all = c
  <2>1. (all * c + rest) \div all = c
    BY QuotientIs
  <2>. QED  BY <1>7, <2>1, Zenon
<1>9. r \in 0 .. C * P * S - 1
  <2>1. PICK j \in Nat : C = c + 1 + j
    <3>1. C - c - 1 \in Nat
      OBVIOUS
    <3>. QED  BY <3>1
  <2>2. C * P * S = all * C
    BY <1>5
  <2>3. all * C = all * c + all + all * j /\ all * j \in Nat /\ all * c \in Nat
    BY <2>1
  <2>. QED  BY <2>2, <2>3, <1>7
<1>10. HasCoordinates(P, S, r, c, p, s)
  BY <1>3, <1>4, <1>5, <1>8, Zenon DEF HasCoordinates
<1>. QED  BY <1>9, <1>10

\* And every row is that of a builder and a sort of a data set.
LEMMA RowsHaveCoordinates ==
  ASSUME NEW P \in Nat \ {0}, NEW S \in Nat \ {0}, NEW C \in Nat, NEW r \in 0 .. C * P * S - 1
  PROVE  \E c \in 0 .. C - 1, p \in 0 .. P - 1, s \in 0 .. S - 1 : r = RowAt(P, S, c, p, s)
<1>1. PICK all \in Nat \ {0} : all = P * S
  <2>1. P * S \in Nat /\ P * S # 0
    OBVIOUS
  <2>. QED  BY <2>1
<1>2. PICK c \in Nat, rest \in 0 .. all - 1 : r = all * c + rest
  <2>1. r \in Nat
    OBVIOUS
  <2>2. r \div all \in Nat /\ r % all \in 0 .. all - 1 /\ r = all * (r \div all) + (r % all)
    BY <2>1, QuotientOf
  <2>. QED  BY <2>2, Zenon
<1>3. PICK p \in Nat, s \in 0 .. S - 1 : rest = S * p + s
  <2>1. rest \in Nat
    OBVIOUS
  <2>2. rest \div S \in Nat /\ rest % S \in 0 .. S - 1 /\ rest = S * (rest \div S) + (rest % S)
    BY <2>1, QuotientOf
  <2>. QED  BY <2>2, Zenon
<1>4. c < C
  <2>1. SUFFICES ASSUME C <= c PROVE FALSE
    OBVIOUS
  <2>2. PICK j \in Nat : c = C + j
    <3>1. c - C \in Nat
      BY <2>1
    <3>. QED  BY <3>1
  <2>3. all * c = all * C + all * j /\ all * j \in Nat
    BY <2>2
  <2>4. all * C = C * P * S
    BY <1>1
  <2>5. r < all * C
    BY <2>4
  <2>. QED  BY <2>3, <2>5, <1>2
<1>5. p < P
  <2>1. SUFFICES ASSUME P <= p PROVE FALSE
    OBVIOUS
  <2>2. PICK j \in Nat : p = P + j
    <3>1. p - P \in Nat
      BY <2>1
    <3>. QED  BY <3>1
  <2>3. S * p = S * P + S * j /\ S * j \in Nat /\ S * P = all
    BY <2>2, <1>1
  <2>. QED  BY <2>3, <1>3
<1>6. r = RowAt(P, S, c, p, s)
  BY <1>1, <1>2, <1>3 DEF RowAt
<1>. QED  BY <1>4, <1>5, <1>6

\* The jobs of the sorts: each builder with each sort.
IsMatrix(P, S) ==
  /\ \A j \in 0 .. P * S - 1 :
       /\ j \div S \in 0 .. P - 1 /\ j % S \in 0 .. S - 1 /\ (j \div S) * S + (j % S) = j
  /\ \A p \in 0 .. P - 1, s \in 0 .. S - 1 :
       p * S + s \in 0 .. P * S - 1 /\ (p * S + s) \div S = p /\ (p * S + s) % S = s

LEMMA JobCoordinates ==
  ASSUME NEW P \in Nat \ {0}, NEW S \in Nat \ {0}
  PROVE  IsMatrix(P, S)
<1>1. ASSUME NEW j \in 0 .. P * S - 1
      PROVE  j \div S \in 0 .. P - 1 /\ j % S \in 0 .. S - 1 /\ (j \div S) * S + (j % S) = j
  <2>1. PICK c \in 0 .. 1 - 1, p \in 0 .. P - 1, s \in 0 .. S - 1 : j = RowAt(P, S, c, p, s)
    <3>1. 1 * P * S = P * S /\ 1 \in Nat
      OBVIOUS
    <3>2. j \in 0 .. 1 * P * S - 1
      BY <3>1, Zenon
    <3>. QED  BY <3>1, <3>2, RowsHaveCoordinates, Zenon
  <2>2. j = S * p + s
    BY <2>1 DEF RowAt
  <2>3. j \div S = p /\ j % S = s
    BY <2>2, QuotientIs
  <2>. QED  BY <2>2, <2>3
<1>2. ASSUME NEW p \in 0 .. P - 1, NEW s \in 0 .. S - 1
      PROVE  p * S + s \in 0 .. P * S - 1 /\ (p * S + s) \div S = p /\ (p * S + s) % S = s
  <2>1. RowAt(P, S, 0, p, s) = p * S + s /\ 1 * P * S = P * S /\ p * S + s = S * p + s
    BY DEF RowAt
  <2>2. RowAt(P, S, 0, p, s) \in 0 .. 1 * P * S - 1
    <3>1. 0 \in 0 .. 1 - 1 /\ 1 \in Nat
      OBVIOUS
    <3>. QED  BY <3>1, RowCoordinates
  <2>3. (S * p + s) \div S = p /\ (S * p + s) % S = s
    BY QuotientIs
  <2>. QED  BY <2>1, <2>2, <2>3
<1>. QED  BY <1>1, <1>2, Zenon DEF IsMatrix

\* What is selected: different registered names, and the baselines among them.
Chosen(axis, names) ==
  names # <<>> /\ names \in Seq(ToSet(Registry[axis])) /\ IsInjective(names)

OptionsOK ==
  /\ DOMAIN selection = Axes /\ DOMAIN baseline = Axes
  /\ \A axis \in Axes :
       /\ Chosen(axis, selection[axis])
       /\ baseline[axis] # NoName => baseline[axis] \in ToSet(Registry[axis])
       /\ stage # "options" /\ baseline[axis] # NoName => Contains(selection[axis], baseline[axis])

NParents == Len(Parents)
NSorts == Len(Sorts)
Sets == 0 .. Contexts - 1
Builders == 0 .. NParents - 1
Sorters == 0 .. NSorts - 1
Rows == 0 .. Contexts * NParents * NSorts - 1
Row(c, p, s) == RowAt(NParents, NSorts, c, p, s)

\* Coordinates name the rows.
Coordinates ==
  /\ NParents \in Nat \ {0} /\ NSorts \in Nat \ {0}
  /\ \A c \in Sets, p \in Builders, s \in Sorters :
       Row(c, p, s) \in Rows /\ HasCoordinates(NParents, NSorts, Row(c, p, s), c, p, s)
  /\ \A c, d \in Sets, p, q \in Builders, s, t \in Sorters :
       Row(c, p, s) = Row(d, q, t) => c = d /\ p = q /\ s = t
  /\ \A r \in Rows : \E c \in Sets, p \in Builders, s \in Sorters : r = Row(c, p, s)
  /\ \A p, q \in Builders : Parents[p + 1] = Parents[q + 1] => p = q
  /\ \A s, t \in Sorters : Sorts[s + 1] = Sorts[t + 1] => s = t
  /\ \A p, s : MatrixResultIndex(p, s) = Row(context, p, s)

\* A selection is a list of different names.
LEMMA ChosenFacts ==
  ASSUME NEW axis \in Axes, NEW names, Chosen(axis, names)
  PROVE  /\ Len(names) \in Nat \ {0} /\ DOMAIN names = 1 .. Len(names)
         /\ \A i, j \in 1 .. Len(names) : names[i] = names[j] => i = j
<1>1. names \in Seq(ToSet(Registry[axis])) /\ names # <<>>
  BY DEF Chosen
<1>2. Len(names) \in Nat \ {0} /\ DOMAIN names = 1 .. Len(names)
  BY <1>1, EmptySeq, LenProperties
<1>. QED  BY <1>2 DEF Chosen, IsInjective

\* With such options the rows have their coordinates.
LEMMA CoordinatesHold == OptionsOK /\ Contexts \in Nat => Coordinates
<1> SUFFICES ASSUME OptionsOK, Contexts \in Nat
             PROVE  Coordinates
  OBVIOUS
<1>1. "parents" \in Axes /\ "sorts" \in Axes
  BY DEF Axes
<1>2. /\ NParents \in Nat \ {0} /\ NSorts \in Nat \ {0}
      /\ \A i, j \in 1 .. NParents : Parents[i] = Parents[j] => i = j
      /\ \A i, j \in 1 .. NSorts : Sorts[i] = Sorts[j] => i = j
  BY <1>1, ChosenFacts DEF OptionsOK, NParents, NSorts, Parents, Sorts
<1>3. \A p \in Builders : p + 1 \in 1 .. NParents /\ p \in Nat
  BY <1>2 DEF Builders
<1>4. \A s \in Sorters : s + 1 \in 1 .. NSorts /\ s \in Nat
  BY <1>2 DEF Sorters
<1>5. \A p, q \in Builders : Parents[p + 1] = Parents[q + 1] => p = q
  <2> SUFFICES ASSUME NEW p \in Builders, NEW q \in Builders, Parents[p + 1] = Parents[q + 1]
               PROVE  p = q
    OBVIOUS
  <2>1. p + 1 = q + 1
    BY <1>2, <1>3
  <2>. QED  BY <2>1, <1>3
<1>6. \A s, t \in Sorters : Sorts[s + 1] = Sorts[t + 1] => s = t
  <2> SUFFICES ASSUME NEW s \in Sorters, NEW t \in Sorters, Sorts[s + 1] = Sorts[t + 1]
               PROVE  s = t
    OBVIOUS
  <2>1. s + 1 = t + 1
    BY <1>2, <1>4
  <2>. QED  BY <2>1, <1>4
<1>7. \A c \in Sets, p \in Builders, s \in Sorters :
        Row(c, p, s) \in Rows /\ HasCoordinates(NParents, NSorts, Row(c, p, s), c, p, s)
  BY <1>2, RowCoordinates DEF Row, Rows, Sets, Builders, Sorters
<1>8. \A c, d \in Sets, p, q \in Builders, s, t \in Sorters :
        Row(c, p, s) = Row(d, q, t) => c = d /\ p = q /\ s = t
  <2> SUFFICES ASSUME NEW c \in 0 .. Contexts - 1, NEW d \in 0 .. Contexts - 1,
                      NEW p \in 0 .. NParents - 1, NEW q \in 0 .. NParents - 1,
                      NEW s \in 0 .. NSorts - 1, NEW t \in 0 .. NSorts - 1,
                      RowAt(NParents, NSorts, c, p, s) = RowAt(NParents, NSorts, d, q, t)
               PROVE  c = d /\ p = q /\ s = t
    BY DEF Row, Sets, Builders, Sorters
  <2>1. NParents \in Nat \ {0} /\ NSorts \in Nat \ {0} /\ Contexts \in Nat
    BY <1>2
  <2>2. HasCoordinates(NParents, NSorts, RowAt(NParents, NSorts, c, p, s), c, p, s)
    BY <2>1, RowCoordinates
  <2>3. HasCoordinates(NParents, NSorts, RowAt(NParents, NSorts, d, q, t), d, q, t)
    BY <2>1, RowCoordinates
  <2>. QED  BY <2>2, <2>3, Zenon DEF HasCoordinates
<1>9. \A r \in Rows : \E c \in Sets, p \in Builders, s \in Sorters : r = Row(c, p, s)
  BY <1>2, RowsHaveCoordinates DEF Row, Rows, Sets, Builders, Sorters
<1>10. \A p, s : MatrixResultIndex(p, s) = Row(context, p, s)
  BY DEF MatrixResultIndex, ResultBegin, Row, RowAt, NParents, NSorts
<1>. QED  BY <1>2, <1>5, <1>6, <1>7, <1>8, <1>9, <1>10 DEF Coordinates

SameTable ==
  /\ NParents' = NParents /\ NSorts' = NSorts /\ Parents' = Parents /\ Sorts' = Sorts
  /\ Builders' = Builders /\ Sorters' = Sorters /\ Rows' = Rows
  /\ \A c, p, s : Row(c, p, s)' = Row(c, p, s)

\* While the selection stays, so does the table.
LEMMA SelectionStays == ASSUME selection' = selection PROVE SameTable
<1>1. Parents' = Parents /\ Sorts' = Sorts
  BY DEF Parents, Sorts
<1>2. NParents' = NParents /\ NSorts' = NSorts
  BY <1>1 DEF NParents, NSorts
<1>. QED  BY <1>1, <1>2 DEF SameTable, Builders, Sorters, Rows, Row

(* The command line. *)

\* appendUnique adds a name, once, to a list of different names.
LEMMA AppendUniqueAdds ==
  ASSUME NEW T, NEW names \in Seq(T), IsInjective(names), NEW name \in T
  PROVE  /\ AppendUnique(names, name) \in Seq(T) /\ AppendUnique(names, name) # <<>>
         /\ IsInjective(AppendUnique(names, name)) /\ Contains(AppendUnique(names, name), name)
<1>1. Len(names) \in Nat /\ DOMAIN names = 1 .. Len(names)
  BY LenProperties
<1>2. CASE Contains(names, name)
  <2>1. names # <<>>
    BY <1>1, <1>2 DEF Contains
  <2>. QED  BY <2>1, <1>2 DEF AppendUnique
<1>3. CASE ~Contains(names, name)
  <2>1. PICK more : more = Append(names, name)
    OBVIOUS
  <2>2. /\ more \in Seq(T) /\ Len(more) = Len(names) + 1 /\ more[Len(names) + 1] = name
        /\ \A i \in 1 .. Len(names) : more[i] = names[i]
    BY <2>1, AppendProperties
  <2>3. DOMAIN more = 1 .. Len(names) + 1
    BY <2>2, LenProperties
  <2>4. \A i \in 1 .. Len(names) : names[i] # name
    BY <1>3 DEF Contains
  <2>5. \A i, j \in 1 .. Len(names) : names[i] = names[j] => i = j
    BY <1>1 DEF IsInjective
  <2>6. \A i \in 1 .. Len(names) + 1 : i \in 1 .. Len(names) \/ i = Len(names) + 1
    BY <1>1
  <2>7. IsInjective(more)
    BY <2>2, <2>3, <2>4, <2>5, <2>6 DEF IsInjective
  <2>8. more # <<>>
    BY <2>2, <1>1
  <2>9. Contains(more, name)
    BY <2>2, <1>1 DEF Contains
  <2>. QED  BY <1>3, <2>1, <2>2, <2>7, <2>8, <2>9 DEF AppendUnique
<1>. QED  BY <1>2, <1>3

\* So a selection stays one.
LEMMA AppendUniqueIsChosen ==
  ASSUME NEW axis \in Axes, NEW names, names = <<>> \/ Chosen(axis, names),
         NEW name \in ToSet(Registry[axis])
  PROVE  Chosen(axis, AppendUnique(names, name)) /\ Contains(AppendUnique(names, name), name)
<1>1. names \in Seq(ToSet(Registry[axis])) /\ IsInjective(names)
  <2>1. CASE names = <<>>
    BY <2>1 DEF IsInjective
  <2>2. CASE Chosen(axis, names)
    BY <2>2 DEF Chosen
  <2>. QED  BY <2>1, <2>2
<1>. QED  BY <1>1, AppendUniqueAdds DEF Chosen

\* And drops none.
LEMMA AppendUniqueKeeps ==
  ASSUME NEW axis \in Axes, NEW names, Chosen(axis, names), NEW name \in ToSet(Registry[axis]),
         NEW other, Contains(names, other)
  PROVE  Contains(AppendUnique(names, name), other)
<1>1. names \in Seq(ToSet(Registry[axis]))
  BY DEF Chosen
<1>2. CASE ~Contains(names, name)
  <2>1. /\ Len(names) \in Nat /\ Len(Append(names, name)) = Len(names) + 1
        /\ \A i \in 1 .. Len(names) : Append(names, name)[i] = names[i]
    BY <1>1, AppendProperties, LenProperties
  <2>2. PICK i \in 1 .. Len(names) : names[i] = other
    BY DEF Contains
  <2>3. i \in 1 .. Len(Append(names, name)) /\ Append(names, name)[i] = other
    BY <2>1, <2>2
  <2>. QED  BY <1>2, <2>3 DEF Contains, AppendUnique
<1>3. CASE Contains(names, name)
  BY <1>3 DEF AppendUnique
<1>. QED  BY <1>2, <1>3

\* "default" and "all" are selections.
LEMMA RegisteredAreChosen ==
  ASSUME NEW axis \in Axes
  PROVE  Chosen(axis, Defaults[axis]) /\ Chosen(axis, Registry[axis])
<1>1. /\ Defaults[axis] # <<>> /\ Defaults[axis] \in Seq(ToSet(Registry[axis]))
      /\ Registry[axis] \in Seq(ToSet(Registry[axis]))
      /\ IsInjective(Defaults[axis]) /\ IsInjective(Registry[axis])
  BY BenchmarkAssumption
<1>2. Registry[axis] # <<>>
  <2>1. SUFFICES ASSUME Registry[axis] = <<>> PROVE FALSE
    OBVIOUS
  <2>2. 1 \in 1 .. Len(Defaults[axis])
    BY <1>1, EmptySeq
  <2>3. Defaults[axis][1] \in ToSet(Registry[axis])
    BY <1>1, <2>2, ElementOfSeq
  <2>. QED  BY <2>1, <2>3 DEF ToSet
<1>. QED  BY <1>1, <1>2 DEF Chosen

(* The inductive invariant. *)

Running == stage \in {"parents", "sorts", "baselines"}
IsRun(c) == Running /\ c = context

\* How many samples were recorded before pass n.
CountBefore(n) == IF n >= Warmup THEN n - Warmup ELSE 0

JobDone(p, s, phase) ==
  /\ stage = "parents" => phase = "parent" /\ p \notin jobs
  /\ stage = "sorts" => phase = "parent" \/ p * NSorts + s \notin jobs

SampleCount(c, p, s, phase) ==
  IF c \in waiting THEN 0
  ELSE IF ~IsRun(c) THEN Iterations
  ELSE IF JobDone(p, s, phase) THEN CountBefore(pass + 1) ELSE CountBefore(pass)

\* What builder p made in pass n, and sort s with it.
BuiltIn(c, p, n) == <<c, Parents[p + 1], n>>
SortedIn(c, p, s, n) == <<c, Sorts[s + 1], n, BuiltIn(c, p, n)>>

ProgressOK ==
  /\ stage \in {"options", "context", "parents", "sorts", "baselines", "done", "failed"}
  /\ stage = "options" => case = <<>> /\ wrong = {}
  /\ waiting \subseteq Sets
  /\ Running => /\ context \in Sets /\ context \notin waiting /\ pass \in 0 .. Warmup + Iterations - 1
                /\ DOMAIN artifacts = Builders /\ DOMAIN elapsedMs = Builders
  /\ stage = "parents" => jobs \subseteq Builders
  /\ stage = "sorts" => jobs \subseteq 0 .. NParents * NSorts - 1
  /\ stage = "baselines" => pass + 1 = Warmup + Iterations
  /\ \A p \in Builders : stage = "sorts" \/ (stage = "parents" /\ p \notin jobs) =>
       artifacts[p] = BuiltIn(context, p, pass) /\ elapsedMs[p] = artifacts[p]
  /\ stage = "done" => waiting = {}

TableOK ==
  stage # "options" =>
    /\ DOMAIN case = Rows /\ DOMAIN samples = Rows /\ DOMAIN status = Rows
    /\ DOMAIN comparison = Rows /\ DOMAIN available = Rows
    /\ \A c \in Sets, p \in Builders, s \in Sorters :
         case[Row(c, p, s)] = [context |-> c, parent |-> Parents[p + 1], sort |-> Sorts[s + 1]]
    /\ \A r \in Rows : DOMAIN samples[r] = Phases /\ \A phase \in Phases : IsList(samples[r][phase])

\* The samples are from the recorded passes, in their order, and as many as
\* these passes were.
SampleOK(c, p, s, row, counts) ==
  /\ \A k \in DOMAIN row["parent"] : row["parent"][k] = BuiltIn(c, p, Warmup + k - 1)
  /\ \A k \in DOMAIN row["sort"] : row["sort"][k] = SortedIn(c, p, s, Warmup + k - 1)
  /\ \A k \in DOMAIN row["pipeline"] :
       row["pipeline"][k] = <<BuiltIn(c, p, Warmup + k - 1), SortedIn(c, p, s, Warmup + k - 1)>>
  /\ DOMAIN row["pipeline"] = DOMAIN row["sort"]
  /\ counts => \A phase \in Phases : Len(row[phase]) = SampleCount(c, p, s, phase)

SamplesOK ==
  stage # "options" => \A c \in Sets, p \in Builders, s \in Sorters :
    SampleOK(c, p, s, samples[Row(c, p, s)], stage # "failed")

\* The marks of a row are what has gone wrong with its builder and its sort.
IsMarked(c, p, s, m) ==
  \/ m = "parent-mismatch" /\ <<m, c, Parents[p + 1]>> \in wrong
  \/ m \in {"sort-mismatch", "verify-failed"} /\ <<m, c, Parents[p + 1], Sorts[s + 1]>> \in wrong

MarksOK ==
  stage # "options" =>
    /\ \A w \in wrong : \E m, c, b, s :
         \/ w = <<"parent-mismatch", c, b>>
         \/ m \in {"sort-mismatch", "verify-failed"} /\ w = <<m, c, b, s>>
    /\ \A c \in Sets, p \in Builders, s \in Sorters :
         \A m : m \in status[Row(c, p, s)] <=> IsMarked(c, p, s, m)

\* The builder and the sort of the row a row is compared with.
BaseBuilder(p, phase) == IF phase = "sort" THEN p ELSE PlaceOf(Parents, baseline.parents)
BaseSorter(s, phase) == IF phase = "parent" THEN s ELSE PlaceOf(Sorts, baseline.sorts)
BaseRow(c, p, s, phase) == Row(c, BaseBuilder(p, phase), BaseSorter(s, phase))

IsShown(c, p, s, phase) ==
  \E q \in Builders, t \in Sorters :
    /\ Compared(Row(c, q, t), BaseRow(c, q, t, phase), phase) = "ok"
    /\ Row(c, p, s) \in {Row(c, q, t), BaseRow(c, q, t, phase)}

\* A data set that has been run is compared, and no other.
ComparedOK(c, p, s, phase) ==
  IF IsCompared(phase) /\ c \notin waiting /\ ~IsRun(c)
    THEN /\ comparison[Row(c, p, s)][phase] = Compared(Row(c, p, s), BaseRow(c, p, s, phase), phase)
         /\ available[Row(c, p, s)][phase] <=> IsShown(c, p, s, phase)
    ELSE comparison[Row(c, p, s)][phase] = "none" /\ ~available[Row(c, p, s)][phase]

FairOK ==
  stage \notin {"options", "failed"} =>
    \A c \in Sets, p \in Builders, s \in Sorters, phase \in Phases : ComparedOK(c, p, s, phase)

RunInv == OptionsOK /\ ProgressOK /\ TableOK /\ SamplesOK /\ MarksOK /\ FairOK

\* The start of parseOptions.
LEMMA InitRunInv == ASSUME RunInit PROVE RunInv
<1>1. /\ stage = "options" /\ selection = Defaults /\ baseline = [axis \in Axes |-> NoName]
      /\ waiting = {} /\ case = <<>> /\ wrong = {}
  BY DEF RunInit
<1>2. OptionsOK
  BY <1>1, RegisteredAreChosen, BenchmarkAssumption DEF OptionsOK
<1>. QED
  BY <1>1, <1>2 DEF RunInv, ProgressOK, TableOK, SamplesOK, MarksOK, FairOK, Running

\* The arguments keep the selection one of registered names.
LEMMA OptionsKeepRunInv ==
  ASSUME RunInv, ReadSelector \/ ReadBaseline
  PROVE  RunInv'
<1>1. stage = "options" /\ stage' = "options" /\ UNCHANGED <<waiting, case, wrong>>
  BY DEF ReadSelector, ReadBaseline, results
<1>2. ASSUME ReadSelector PROVE OptionsOK'
  <2>0. PICK axis \in Axes : \E value \in ToSet(Registry[axis]) \cup {"default", "all"} :
          selection' = [selection EXCEPT ![axis] = Selected(axis, value)]
    BY <1>2 DEF ReadSelector
  <2>1. PICK value \in ToSet(Registry[axis]) \cup {"default", "all"} :
          selection' = [selection EXCEPT ![axis] = Selected(axis, value)]
    BY <2>0
  <2>2. baseline' = baseline /\ OptionsOK
    BY <1>2 DEF ReadSelector, RunInv
  <2>3. Chosen(axis, Selected(axis, value))
    <3>1. CASE value = "default"
      BY <3>1, RegisteredAreChosen DEF Selected
    <3>2. CASE value = "all"
      BY <3>2, RegisteredAreChosen DEF Selected
    <3>3. CASE value \notin {"default", "all"}
      <4>1. PICK names : names = IF selectorSeen[axis] THEN selection[axis] ELSE <<>>
        OBVIOUS
      <4>2. names = <<>> \/ Chosen(axis, names)
        BY <4>1, <2>2 DEF OptionsOK
      <4>3. Selected(axis, value) = AppendUnique(names, value)
        BY <3>3, <4>1 DEF Selected
      <4>. QED  BY <4>2, <4>3, <3>3, AppendUniqueIsChosen
    <3>. QED  BY <3>1, <3>2, <3>3
  <2>. QED  BY <1>1, <2>1, <2>2, <2>3 DEF OptionsOK
<1>3. ASSUME ReadBaseline PROVE OptionsOK'
  <2>0. PICK axis \in Axes : \E name \in ToSet(Registry[axis]) :
          baseline' = [baseline EXCEPT ![axis] = name]
    BY <1>3 DEF ReadBaseline
  <2>1. PICK name \in ToSet(Registry[axis]) : baseline' = [baseline EXCEPT ![axis] = name]
    BY <2>0
  <2>2. selection' = selection /\ OptionsOK
    BY <1>3 DEF ReadBaseline, RunInv
  <2>. QED  BY <1>1, <2>1, <2>2 DEF OptionsOK
<1>4. ProgressOK'
  BY <1>1 DEF RunInv, ProgressOK, Running
<1>. QED
  BY <1>1, <1>2, <1>3, <1>4 DEF RunInv, TableOK, SamplesOK, MarksOK, FairOK

\* initializeBenchmarkResults: no sample, no mark, no comparison.
LEMMA TableIsMade ==
  ASSUME RunInv, InitializeResults
  PROVE  RunInv'
<1>1. /\ stage = "options" /\ stage' = "context" /\ waiting' = Sets
      /\ selection' = [axis \in Axes |->
                         IF baseline[axis] = NoName THEN selection[axis]
                         ELSE AppendUnique(selection[axis], baseline[axis])]
      /\ case' = Cases /\ UNCHANGED <<baseline, wrong>>
  BY DEF InitializeResults, Sets
<1>2. OptionsOK'
  <2>1. ASSUME NEW axis \in Axes
        PROVE  /\ Chosen(axis, selection'[axis])
               /\ baseline[axis] # NoName => baseline[axis] \in ToSet(Registry[axis])
               /\ baseline[axis] # NoName => Contains(selection'[axis], baseline[axis])
    <3>1. /\ Chosen(axis, selection[axis])
          /\ baseline[axis] # NoName => baseline[axis] \in ToSet(Registry[axis])
      BY DEF RunInv, OptionsOK
    <3>2. selection'[axis] = IF baseline[axis] = NoName THEN selection[axis]
                             ELSE AppendUnique(selection[axis], baseline[axis])
      BY <1>1
    <3>. QED  BY <3>1, <3>2, AppendUniqueIsChosen
  <2>. QED  BY <1>1, <2>1 DEF OptionsOK, RunInv
<1>3. Coordinates'
  <2>1. (OptionsOK /\ Contexts \in Nat)'
    BY <1>2, BenchmarkAssumption
  <2>. QED  BY <2>1, CoordinatesHold, PTL
<1>4. PICK P, S, ps, ss : P = NParents' /\ S = NSorts' /\ ps = Parents' /\ ss = Sorts'
  OBVIOUS
<1>5. case' = [r \in Rows' |->
                 [context |-> r \div (P * S), parent |-> ps[((r \div S) % P) + 1], sort |-> ss[(r % S) + 1]]]
  BY <1>1, <1>4 DEF Cases, Rows, NParents, NSorts, Parents, Sorts
<1>6. DOMAIN case' = Rows'
  BY <1>5
<1>7. /\ samples' = [r \in Rows' |-> [phase \in Phases |-> <<>>]]
      /\ status' = [r \in Rows' |-> {}]
      /\ comparison' = [r \in Rows' |-> [phase \in Phases |-> "none"]]
      /\ available' = [r \in Rows' |-> [phase \in Phases |-> FALSE]]
  BY <1>6 DEF InitializeResults, ForEachRow
<1>8. ASSUME NEW c \in Sets, NEW p \in Builders', NEW s \in Sorters'
      PROVE  /\ Row(c, p, s)' \in Rows'
             /\ case'[Row(c, p, s)'] = [context |-> c, parent |-> ps[p + 1], sort |-> ss[s + 1]]
  <2>1. PICK r : r = Row(c, p, s)'
    OBVIOUS
  <2>2. r \in Rows' /\ HasCoordinates(P, S, r, c, p, s)
    BY <1>3, <1>4, <2>1 DEF Coordinates
  <2>3. r \div (P * S) = c /\ (r \div S) % P = p /\ r % S = s
    BY <2>2 DEF HasCoordinates
  <2>4. case'[r] = [context |-> r \div (P * S), parent |-> ps[((r \div S) % P) + 1], sort |-> ss[(r % S) + 1]]
    BY <1>5, <2>2, Zenon
  <2>. QED  BY <2>1, <2>2, <2>3, <2>4, Zenon
<1>9. TableOK'
  <2>1. \A r \in Rows' : DOMAIN samples'[r] = Phases /\ \A phase \in Phases : IsList(samples'[r][phase])
    BY <1>7, EmptyIsList
  <2>. QED  BY <1>4, <1>6, <1>7, <1>8, <2>1 DEF TableOK
<1>10. SamplesOK'
  <2>1. ASSUME NEW c \in Sets, NEW p \in Builders', NEW s \in Sorters'
        PROVE  SampleOK(c, p, s, samples[Row(c, p, s)], TRUE)'
    <3>1. PICK row : row = samples'[Row(c, p, s)']
      OBVIOUS
    <3>2. \A phase \in Phases : row[phase] = <<>>
      BY <1>7, <1>8, <3>1
    <3>3. row["parent"] = <<>> /\ row["sort"] = <<>> /\ row["pipeline"] = <<>>
      BY <3>2 DEF Phases
    <3>4. \A phase \in Phases : SampleCount(c, p, s, phase)' = 0
      BY <1>1 DEF SampleCount
    <3>. QED  BY <3>1, <3>2, <3>3, <3>4 DEF SampleOK
  <2>. QED  BY <1>1, <2>1 DEF SamplesOK
<1>11. wrong' = {}
  BY <1>1 DEF RunInv, ProgressOK
<1>12. MarksOK'
  BY <1>7, <1>8, <1>11 DEF MarksOK, IsMarked
<1>13. FairOK'
  <2>1. ASSUME NEW c \in Sets, NEW p \in Builders', NEW s \in Sorters', NEW phase \in Phases
        PROVE  ComparedOK(c, p, s, phase)'
    BY <1>1, <1>7, <1>8 DEF ComparedOK
  <2>. QED  BY <2>1 DEF FairOK
<1>14. ProgressOK'
  BY <1>1 DEF ProgressOK, Running
<1>. QED  BY <1>2, <1>9, <1>10, <1>12, <1>13, <1>14 DEF RunInv

(* What a step leaves alone. *)

\* After parseOptions the options stay.
LEMMA OptionsStay ==
  ASSUME OptionsOK, UNCHANGED <<selection, baseline>>, stage # "options"
  PROVE  OptionsOK'
BY DEF OptionsOK

\* Cases are never changed.
LEMMA CasesStay ==
  ASSUME TableOK, UNCHANGED <<selection, case>>, stage # "options",
         DOMAIN samples' = Rows, DOMAIN status' = Rows, DOMAIN comparison' = Rows, DOMAIN available' = Rows,
         \A r \in Rows : DOMAIN samples'[r] = Phases /\ \A phase \in Phases : IsList(samples'[r][phase])
  PROVE  TableOK'
<1>1. SameTable
  BY SelectionStays
<1>. QED  BY <1>1 DEF TableOK, SameTable

\* Nor is what a sample should be.
LEMMA SampleMeansTheSame ==
  ASSUME SameTable, NEW c, NEW p, NEW s
  PROVE  /\ \A n : BuiltIn(c, p, n)' = BuiltIn(c, p, n)
         /\ \A n : SortedIn(c, p, s, n)' = SortedIn(c, p, s, n)
BY DEF SameTable, BuiltIn, SortedIn

\* A step without a sample ends no pass of a job.
LEMMA SamplesStay ==
  ASSUME SamplesOK, UNCHANGED <<selection, samples>>, stage # "options",
         stage = "failed" => stage' = "failed",
         stage' # "failed" => \A c \in Sets, p \in Builders, s \in Sorters, phase \in Phases :
                             SampleCount(c, p, s, phase)' = SampleCount(c, p, s, phase)
  PROVE  SamplesOK'
<1>1. SameTable
  BY SelectionStays
<1>2. ASSUME NEW c \in Sets, NEW p \in Builders, NEW s \in Sorters
      PROVE  SampleOK(c, p, s, samples[Row(c, p, s)], stage # "failed")'
  <2>1. PICK row : row = samples[Row(c, p, s)]
    OBVIOUS
  <2>2. SampleOK(c, p, s, row, stage # "failed")
    BY <2>1 DEF SamplesOK
  <2>3. samples'[Row(c, p, s)'] = row
    BY <1>1, <2>1 DEF SameTable
  <2>4. /\ \A n : BuiltIn(c, p, n)' = BuiltIn(c, p, n)
        /\ \A n : SortedIn(c, p, s, n)' = SortedIn(c, p, s, n)
    BY <1>1, SampleMeansTheSame
  <2>. QED  BY <2>2, <2>3, <2>4 DEF SampleOK
<1>. QED  BY <1>1, <1>2 DEF SamplesOK, SameTable

\* A step without a mark.
LEMMA MarksStay ==
  ASSUME MarksOK, UNCHANGED <<selection, status, wrong>>, stage # "options"
  PROVE  MarksOK'
<1>1. SameTable
  BY SelectionStays
<1>. QED  BY <1>1 DEF MarksOK, IsMarked, SameTable

\* The row a row is compared with is there, and about the baselines.
LEMMA BaselineIsSelected ==
  ASSUME OptionsOK, Coordinates, stage # "options", NEW axis \in Axes, baseline[axis] # NoName
  PROVE  LET i == PlaceOf(selection[axis], baseline[axis])
         IN  i \in 0 .. Len(selection[axis]) - 1 /\ selection[axis][i + 1] = baseline[axis]
<1>1. Contains(selection[axis], baseline[axis]) /\ Len(selection[axis]) \in Nat
  BY ChosenFacts DEF OptionsOK
<1>2. PICK k \in 1 .. Len(selection[axis]) : selection[axis][k] = baseline[axis]
  BY <1>1 DEF Contains
<1>3. k - 1 \in 0 .. Len(selection[axis]) - 1 /\ (k - 1) + 1 = k
  BY <1>1
<1>4. \E i \in 0 .. Len(selection[axis]) - 1 : selection[axis][i + 1] = baseline[axis]
  BY <1>2, <1>3
<1>. QED  BY <1>4 DEF PlaceOf

LEMMA BaseRowIsThere ==
  ASSUME OptionsOK, Coordinates, stage # "options", NEW phase \in Phases, IsCompared(phase),
         NEW p \in Builders, NEW s \in Sorters
  PROVE  /\ BaseBuilder(p, phase) \in Builders /\ BaseSorter(s, phase) \in Sorters
         /\ Parents[BaseBuilder(p, phase) + 1] = IF phase = "sort" THEN Parents[p + 1] ELSE baseline["parents"]
         /\ Sorts[BaseSorter(s, phase) + 1] = IF phase = "parent" THEN Sorts[s + 1] ELSE baseline["sorts"]
<1>1. "parents" \in Axes /\ "sorts" \in Axes
  BY DEF Axes
<1>2. /\ phase # "sort" => baseline["parents"] # NoName
      /\ phase # "parent" => baseline["sorts"] # NoName
  BY DEF IsCompared, Phases
<1>3. ASSUME phase # "sort"
      PROVE  BaseBuilder(p, phase) \in Builders /\ Parents[BaseBuilder(p, phase) + 1] = baseline["parents"]
  BY <1>1, <1>2, <1>3, BaselineIsSelected DEF BaseBuilder, Builders, NParents, Parents
<1>4. ASSUME phase # "parent"
      PROVE  BaseSorter(s, phase) \in Sorters /\ Sorts[BaseSorter(s, phase) + 1] = baseline["sorts"]
  BY <1>1, <1>2, <1>4, BaselineIsSelected DEF BaseSorter, Sorters, NSorts, Sorts
<1>. QED  BY <1>3, <1>4 DEF BaseBuilder, BaseSorter

\* A data set that has been run and compared.
IsDone(c) == c \notin waiting /\ ~IsRun(c)

\* The comparison of a data set whose marks stay.
LEMMA ComparedMeansTheSame ==
  ASSUME OptionsOK, Coordinates, stage # "options", UNCHANGED <<selection, baseline>>,
         NEW c \in Sets, NEW phase \in Phases, IsCompared(phase),
         \A p \in Builders, s \in Sorters : status'[Row(c, p, s)] = status[Row(c, p, s)]
  PROVE  \A p \in Builders, s \in Sorters :
           /\ BaseRow(c, p, s, phase)' = BaseRow(c, p, s, phase)
           /\ Compared(Row(c, p, s), BaseRow(c, p, s, phase), phase)'
                = Compared(Row(c, p, s), BaseRow(c, p, s, phase), phase)
           /\ IsShown(c, p, s, phase)' <=> IsShown(c, p, s, phase)
<1>1. SameTable
  BY SelectionStays
<1>2. \A p, s : /\ BaseBuilder(p, phase)' = BaseBuilder(p, phase)
                /\ BaseSorter(s, phase)' = BaseSorter(s, phase)
  BY <1>1 DEF SameTable, BaseBuilder, BaseSorter
<1>3. \A p, s : BaseRow(c, p, s, phase)' = BaseRow(c, p, s, phase)
  BY <1>1, <1>2 DEF SameTable, BaseRow, Row
<1>4. ASSUME NEW p \in Builders, NEW s \in Sorters
      PROVE  Compared(Row(c, p, s), BaseRow(c, p, s, phase), phase)'
               = Compared(Row(c, p, s), BaseRow(c, p, s, phase), phase)
  <2>1. PICK row, base : row = Row(c, p, s) /\ base = BaseRow(c, p, s, phase)
    OBVIOUS
  <2>2. status'[row] = status[row]
    BY <2>1
  <2>3. status'[base] = status[base]
    BY <2>1, BaseRowIsThere DEF BaseRow
  <2>4. Row(c, p, s)' = row /\ BaseRow(c, p, s, phase)' = base
    BY <1>1, <1>3, <2>1 DEF SameTable
  <2>. QED  BY <2>1, <2>2, <2>3, <2>4 DEF Compared, IsValid
<1>5. ASSUME NEW p \in Builders, NEW s \in Sorters
      PROVE  IsShown(c, p, s, phase)' <=> IsShown(c, p, s, phase)
  BY <1>1, <1>3, <1>4 DEF SameTable, IsShown
<1>. QED  BY <1>3, <1>4, <1>5

\* A step without a comparison.
LEMMA FairStays ==
  ASSUME RunInv, Coordinates, stage \notin {"options", "failed"}, UNCHANGED <<selection, baseline, comparison, available>>,
         \A c \in Sets : IsDone(c)' <=> IsDone(c),
         \A c \in Sets, p \in Builders, s \in Sorters :
           IsDone(c) => status'[Row(c, p, s)] = status[Row(c, p, s)]
  PROVE  FairOK'
<1>1. SameTable
  BY SelectionStays
<1>2. \A phase : IsCompared(phase)' <=> IsCompared(phase)
  BY DEF IsCompared
<1>3. ASSUME NEW c \in Sets, NEW p \in Builders, NEW s \in Sorters, NEW phase \in Phases
      PROVE  ComparedOK(c, p, s, phase)'
  <2>1. ComparedOK(c, p, s, phase)
    BY DEF RunInv, FairOK
  <2>2. Row(c, p, s)' = Row(c, p, s)
    BY <1>1 DEF SameTable
  <2>3. CASE IsCompared(phase) /\ IsDone(c)
    <3>1. /\ comparison[Row(c, p, s)][phase] = Compared(Row(c, p, s), BaseRow(c, p, s, phase), phase)
          /\ available[Row(c, p, s)][phase] <=> IsShown(c, p, s, phase)
      BY <2>1, <2>3 DEF ComparedOK, IsDone
    <3>2. /\ Compared(Row(c, p, s), BaseRow(c, p, s, phase), phase)'
               = Compared(Row(c, p, s), BaseRow(c, p, s, phase), phase)
          /\ IsShown(c, p, s, phase)' <=> IsShown(c, p, s, phase)
      BY <2>3, ComparedMeansTheSame DEF RunInv
    <3>. QED  BY <1>2, <2>2, <2>3, <3>1, <3>2 DEF ComparedOK, IsDone
  <2>4. CASE ~(IsCompared(phase) /\ IsDone(c))
    <3>1. comparison[Row(c, p, s)][phase] = "none" /\ ~available[Row(c, p, s)][phase]
      BY <2>1, <2>4 DEF ComparedOK, IsDone
    <3>. QED  BY <1>2, <2>2, <2>4, <3>1 DEF ComparedOK, IsDone
  <2>. QED  BY <2>3, <2>4
<1>. QED  BY <1>1, <1>3 DEF FairOK, SameTable

(* The steps of a data set. *)

\* A sort that throws and a baseline of zero end the run.
LEMMA FailureKeepsRunInv ==
  ASSUME RunInv, Running, stage' = "failed", UNCHANGED <<options, waiting, results, wrong>>
  PROVE  RunInv'
<1>1. /\ UNCHANGED <<selection, baseline, waiting, case, samples, status, comparison, available, wrong>>
      /\ stage \notin {"options", "failed"}
  BY DEF options, results, Running
<1>2. OptionsOK' /\ SamplesOK' /\ MarksOK'
  BY <1>1, OptionsStay, SamplesStay, MarksStay DEF RunInv
<1>3. TableOK'
  BY <1>1, CasesStay DEF RunInv, TableOK
<1>4. ProgressOK' /\ FairOK'
  BY <1>1 DEF RunInv, ProgressOK, FairOK, Running
<1>. QED  BY <1>2, <1>3, <1>4 DEF RunInv

\* The rows have their coordinates throughout.
LEMMA CoordinatesAlways == ASSUME RunInv PROVE Coordinates
BY CoordinatesHold, BenchmarkAssumption DEF RunInv

\* The next data set is begun.
LEMMA MaterializeKeepsRunInv ==
  ASSUME RunInv, MaterializeContext
  PROVE  RunInv'
<1>1. PICK d \in waiting : context' = d /\ waiting' = waiting \ {d}
  BY DEF MaterializeContext
<1>2. /\ stage = "context" /\ stage' = "parents" /\ pass' = 0 /\ jobs' = ParentJobs
      /\ artifacts' = [j \in ParentJobs |-> NoName] /\ elapsedMs' = [j \in ParentJobs |-> NoName]
      /\ UNCHANGED <<selection, baseline, case, samples, status, comparison, available, wrong>>
  BY DEF MaterializeContext, options, results
<1>3. Coordinates
  BY CoordinatesAlways
<1>4. SameTable
  BY <1>2, SelectionStays
<1>5. ParentJobs = Builders /\ d \in Sets /\ Warmup \in Nat /\ Iterations \in Nat \ {0}
  BY <1>1, BenchmarkAssumption, PassesAssumption DEF ParentJobs, Builders, NParents, RunInv, ProgressOK
<1>6. OptionsOK' /\ MarksOK'
  BY <1>2, OptionsStay, MarksStay DEF RunInv
<1>7. TableOK'
  BY <1>2, CasesStay DEF RunInv, TableOK
<1>8. ASSUME NEW c \in Sets, NEW p \in Builders, NEW s \in Sorters, NEW phase \in Phases
      PROVE  SampleCount(c, p, s, phase)' = SampleCount(c, p, s, phase)
  <2>1. CASE c = d
    <3>1. SampleCount(c, p, s, phase) = 0
      BY <1>1, <2>1 DEF SampleCount
    <3>2. c \notin waiting' /\ IsRun(c)' /\ ~JobDone(p, s, phase)' /\ CountBefore(pass)' = 0
      BY <1>1, <1>2, <1>5, <2>1 DEF IsRun, Running, JobDone, CountBefore
    <3>. QED  BY <3>1, <3>2 DEF SampleCount
  <2>2. CASE c # d
    <3>1. (c \in waiting' <=> c \in waiting) /\ ~IsRun(c)' /\ ~IsRun(c)
      BY <1>1, <1>2, <2>2 DEF IsRun, Running
    <3>. QED  BY <3>1 DEF SampleCount
  <2>. QED  BY <2>1, <2>2
<1>9. SamplesOK'
  BY <1>2, <1>8, SamplesStay DEF RunInv
<1>10. \A c \in Sets : IsDone(c)' <=> IsDone(c)
  BY <1>1, <1>2 DEF IsDone, IsRun, Running
<1>11. FairOK'
  BY <1>2, <1>3, <1>10, FairStays
<1>12. ProgressOK'
  <2>1. 0 \in 0 .. Warmup + Iterations - 1
    BY <1>5
  <2>2. waiting' \subseteq Sets /\ d \notin waiting'
    BY <1>1 DEF RunInv, ProgressOK
  <2>. QED  BY <1>1, <1>2, <1>4, <1>5, <2>1, <2>2 DEF ProgressOK, Running, SameTable
<1>. QED  BY <1>6, <1>7, <1>9, <1>11, <1>12 DEF RunInv

\* The parent jobs of a pass are done.
LEMMA BeginSortsKeepsRunInv ==
  ASSUME RunInv, BeginSorts
  PROVE  RunInv'
<1>1. /\ stage = "parents" /\ stage' = "sorts" /\ jobs = {} /\ jobs' = 0 .. NParents * NSorts - 1
      /\ UNCHANGED <<selection, baseline, waiting, context, pass, artifacts, elapsedMs>>
      /\ UNCHANGED <<case, samples, status, comparison, available, wrong>>
  BY DEF BeginSorts, SortJobs, NParents, NSorts, options, results, parentJobs
<1>2. Coordinates /\ SameTable
  BY <1>1, CoordinatesAlways, SelectionStays
<1>3. OptionsOK' /\ MarksOK'
  BY <1>1, OptionsStay, MarksStay DEF RunInv
<1>4. TableOK'
  BY <1>1, CasesStay DEF RunInv, TableOK
<1>5. ASSUME NEW c \in Sets, NEW p \in Builders, NEW s \in Sorters, NEW phase \in Phases
      PROVE  SampleCount(c, p, s, phase)' = SampleCount(c, p, s, phase)
  <2>1. p * NSorts + s \in jobs'
    <3>1. IsMatrix(NParents, NSorts)
      BY <1>2, JobCoordinates DEF Coordinates
    <3>. QED  BY <1>1, <3>1, Zenon DEF IsMatrix, Builders, Sorters
  <2>2. /\ JobDone(p, s, phase) <=> phase = "parent"
        /\ JobDone(p, s, phase)' <=> phase = "parent"
    BY <1>1, <1>2, <2>1 DEF JobDone, SameTable
  <2>3. /\ CountBefore(pass)' = CountBefore(pass) /\ CountBefore(pass + 1)' = CountBefore(pass + 1)
        /\ IsRun(c)' <=> IsRun(c)
    BY <1>1 DEF CountBefore, IsRun, Running
  <2>. QED  BY <1>1, <2>2, <2>3 DEF SampleCount
<1>6. SamplesOK'
  BY <1>1, <1>5, SamplesStay DEF RunInv
<1>7. \A c \in Sets : IsDone(c)' <=> IsDone(c)
  BY <1>1 DEF IsDone, IsRun, Running
<1>8. FairOK'
  BY <1>1, <1>2, <1>7, FairStays
<1>9. ProgressOK'
  <2>1. \A p : BuiltIn(context, p, pass)' = BuiltIn(context, p, pass)
    BY <1>1, <1>2 DEF BuiltIn, SameTable
  <2>. QED  BY <1>1, <1>2, <2>1 DEF RunInv, ProgressOK, Running, SameTable
<1>. QED  BY <1>3, <1>4, <1>6, <1>8, <1>9 DEF RunInv

\* The sort jobs of a pass are done.
LEMMA EndPassKeepsRunInv ==
  ASSUME RunInv, EndPass
  PROVE  RunInv'
<1>1. /\ stage = "sorts" /\ jobs = {}
      /\ UNCHANGED <<selection, baseline, waiting, context, artifacts, elapsedMs>>
      /\ UNCHANGED <<case, samples, status, comparison, available, wrong>>
  BY DEF EndPass, options, results, parentJobs
<1>2. Coordinates /\ SameTable
  BY <1>1, CoordinatesAlways, SelectionStays
<1>3. /\ Warmup \in Nat /\ Iterations \in Nat \ {0} /\ pass \in 0 .. Warmup + Iterations - 1
      /\ context \in Sets /\ context \notin waiting
  BY <1>1, BenchmarkAssumption, PassesAssumption DEF RunInv, ProgressOK, Running
<1>4. \/ /\ stage' = "parents" /\ pass' = pass + 1 /\ jobs' = Builders
         /\ pass + 1 \in 0 .. Warmup + Iterations - 1
      \/ stage' = "baselines" /\ pass' = pass /\ jobs' = jobs /\ pass + 1 = Warmup + Iterations
  <2>1. CASE pass + 1 < Warmup + Iterations
    BY <1>3, <2>1 DEF EndPass, ParentJobs, Builders, NParents
  <2>2. CASE ~(pass + 1 < Warmup + Iterations)
    BY <1>3, <2>2 DEF EndPass
  <2>. QED  BY <2>1, <2>2
<1>5. OptionsOK' /\ MarksOK'
  BY <1>1, OptionsStay, MarksStay DEF RunInv
<1>6. TableOK'
  BY <1>1, CasesStay DEF RunInv, TableOK
<1>7. ASSUME NEW c \in Sets, NEW p \in Builders, NEW s \in Sorters, NEW phase \in Phases
      PROVE  SampleCount(c, p, s, phase)' = SampleCount(c, p, s, phase)
  <2>1. IsRun(c)' <=> IsRun(c)
    BY <1>1, <1>4 DEF IsRun, Running
  <2>2. JobDone(p, s, phase)
    BY <1>1 DEF JobDone
  <2>3. \/ ~JobDone(p, s, phase)' /\ CountBefore(pass)' = CountBefore(pass + 1)
        \/ JobDone(p, s, phase)' /\ CountBefore(pass + 1)' = CountBefore(pass + 1)
    BY <1>4 DEF JobDone, CountBefore
  <2>. QED  BY <1>1, <2>1, <2>2, <2>3 DEF SampleCount
<1>8. SamplesOK'
  BY <1>1, <1>7, SamplesStay DEF RunInv
<1>9. \A c \in Sets : IsDone(c)' <=> IsDone(c)
  BY <1>1, <1>4 DEF IsDone, IsRun, Running
<1>10. FairOK'
  BY <1>1, <1>2, <1>9, FairStays
<1>11. ProgressOK'
  BY <1>1, <1>2, <1>3, <1>4 DEF RunInv, ProgressOK, Running, SameTable
<1>. QED  BY <1>5, <1>6, <1>8, <1>10, <1>11 DEF RunInv

\* A job of the parent builders or of the sorts: it touches rows of the data
\* set being run, which is not compared yet.
LEMMA FairUntilCompared ==
  ASSUME RunInv, Coordinates, Running, UNCHANGED <<selection, baseline, stage, waiting, context, comparison, available>>,
         \A c \in Sets, p \in Builders, s \in Sorters :
           c # context => status'[Row(c, p, s)] = status[Row(c, p, s)]
  PROVE  FairOK'
<1>1. \A c \in Sets : IsDone(c)' <=> IsDone(c)
  BY DEF IsDone, IsRun, Running
<1>2. \A c : IsDone(c) => c # context
  BY DEF IsDone, IsRun
<1>3. stage \notin {"options", "failed"}
  BY DEF Running
<1>. QED  BY <1>1, <1>2, <1>3, FairStays

\* A recorded pass adds a sample, a warm-up pass none.
LEMMA CountOfNextPass ==
  ASSUME Warmup \in Nat, NEW n \in Nat
  PROVE  /\ CountBefore(n) \in Nat
         /\ n >= Warmup => CountBefore(n + 1) = CountBefore(n) + 1 /\ Warmup + (CountBefore(n) + 1) - 1 = n
         /\ ~(n >= Warmup) => CountBefore(n + 1) = CountBefore(n)
BY DEF CountBefore

\* The values of the recorded passes, in their order.
IsRecord(list, count, value) ==
  IsList(list) /\ Len(list) = count /\ \A k \in DOMAIN list : list[k] = value[Warmup + k - 1]

AfterPass(list, n, value) == IF n >= Warmup THEN Append(list, value[n]) ELSE list

\* So a list of samples stays in the order of the passes.
LEMMA RecordingKeepsPairs ==
  ASSUME Warmup \in Nat, NEW n \in Nat, NEW value, NEW list, IsRecord(list, CountBefore(n), value)
  PROVE  IsRecord(AfterPass(list, n, value), CountBefore(n + 1), value)
<1>1. PICK new : new = AfterPass(list, n, value)
  OBVIOUS
<1>2. IsList(list) /\ Len(list) = CountBefore(n) /\ \A k \in DOMAIN list : list[k] = value[Warmup + k - 1]
  BY DEF IsRecord
<1>3. CASE n >= Warmup
  <2>1. /\ DOMAIN list = 1 .. Len(list) /\ DOMAIN new = 1 .. Len(list) + 1 /\ Len(new) = Len(list) + 1
        /\ \A k \in 1 .. Len(list) : new[k] = list[k]
        /\ new[Len(list) + 1] = value[n] /\ IsList(new)
    BY <1>1, <1>2, <1>3, AppendKeepsList DEF AfterPass
  <2>2. CountBefore(n + 1) = Len(list) + 1 /\ Warmup + (Len(list) + 1) - 1 = n /\ Len(list) \in Nat
    BY <1>2, <1>3, CountOfNextPass
  <2>3. new[Len(list) + 1] = value[Warmup + (Len(list) + 1) - 1]
    BY <2>1, <2>2
  <2>4. \A k \in 1 .. Len(list) + 1 : k \in 1 .. Len(list) \/ k = Len(list) + 1
    BY <2>2
  <2>. QED  BY <1>1, <1>2, <2>1, <2>2, <2>3, <2>4 DEF IsRecord
<1>4. CASE ~(n >= Warmup)
  BY <1>1, <1>2, <1>4, CountOfNextPass DEF IsRecord, AfterPass
<1>. QED  BY <1>3, <1>4

\* The passes of its samples.
LEMMA RecordIndexes ==
  ASSUME Warmup \in Nat, NEW count, NEW value, NEW list, IsRecord(list, count, value)
  PROVE  \A k \in DOMAIN list : Warmup + k - 1 \in Nat
BY AppendKeepsList DEF IsRecord

\* A parent job: the rows of its builder get a sample and the marks.
LEMMA BuildKeepsRunInv ==
  ASSUME RunInv, BuildParent
  PROVE  RunInv'
<1>1. /\ stage = "parents"
      /\ UNCHANGED <<selection, baseline, stage, waiting, context, pass, case, comparison, available>>
  BY DEF BuildParent, options
<1>2. Coordinates /\ SameTable
  BY <1>1, CoordinatesAlways, SelectionStays
<1>3. /\ Warmup \in Nat /\ pass \in Nat /\ context \in Sets /\ context \notin waiting
      /\ DOMAIN artifacts = Builders /\ DOMAIN elapsedMs = Builders /\ jobs \subseteq Builders
  BY <1>1, BenchmarkAssumption, PassesAssumption DEF RunInv, ProgressOK, Running
<1>4. PICK j \in jobs :
        \E markers \in SUBSET {"parent-mismatch"} :
          LET built == <<context, Parents[j + 1], pass>>
              rows == {MatrixResultIndex(j, s) : s \in 0 .. Len(Sorts) - 1}
          IN  /\ jobs' = jobs \ {j}
              /\ artifacts' = [artifacts EXCEPT ![j] = built]
              /\ elapsedMs' = [elapsedMs EXCEPT ![j] = built]
              /\ samples' = [r \in DOMAIN samples |->
                               IF r \in rows
                                 THEN [samples[r] EXCEPT !["parent"] = Recorded(r, "parent", built)]
                                 ELSE samples[r]]
              /\ status' = [r \in DOMAIN status |->
                              IF r \in rows THEN Mark(status[r], markers) ELSE status[r]]
              /\ wrong' = wrong \cup {<<marker, context, Parents[j + 1]>> : marker \in markers}
  BY DEF BuildParent
<1> DEFINE rows == {Row(context, j, s) : s \in Sorters}
<1>5. PICK built : built = BuiltIn(context, j, pass)
  OBVIOUS
<1>6. PICK markers \in SUBSET {"parent-mismatch"} :
         /\ jobs' = jobs \ {j}
         /\ artifacts' = [artifacts EXCEPT ![j] = built]
         /\ elapsedMs' = [elapsedMs EXCEPT ![j] = built]
         /\ samples' = [r \in Rows |->
                          IF r \in rows
                            THEN [samples[r] EXCEPT !["parent"] = Recorded(r, "parent", built)]
                            ELSE samples[r]]
         /\ status' = [r \in Rows |-> IF r \in rows THEN status[r] \cup markers ELSE status[r]]
         /\ wrong' = wrong \cup {<<marker, context, Parents[j + 1]>> : marker \in markers}
  <2>1. DOMAIN samples = Rows /\ DOMAIN status = Rows
    BY <1>1 DEF RunInv, TableOK
  <2>2. {MatrixResultIndex(j, s) : s \in 0 .. Len(Sorts) - 1} = rows
    BY <1>2 DEF Coordinates, Sorters, NSorts
  <2>3. built = <<context, Parents[j + 1], pass>>
    BY <1>5 DEF BuiltIn
  <2>. QED  BY <1>4, <2>1, <2>2, <2>3 DEF Mark
<1>7. \A c \in Sets, p \in Builders, s \in Sorters :
        /\ Row(c, p, s) \in Rows
        /\ Row(c, p, s) \in rows <=> c = context /\ p = j
  <2> SUFFICES ASSUME NEW c \in Sets, NEW p \in Builders, NEW s \in Sorters
               PROVE  Row(c, p, s) \in Rows /\ (Row(c, p, s) \in rows <=> c = context /\ p = j)
    OBVIOUS
  <2>1. j \in Builders
    BY <1>3
  <2>2. \A t \in Sorters : Row(c, p, s) = Row(context, j, t) => c = context /\ p = j
    BY <1>2, <1>3, <2>1 DEF Coordinates
  <2>. QED  BY <1>2, <2>2 DEF Coordinates
<1> HIDE DEF rows
<1>8. OptionsOK'
  BY <1>1, OptionsStay DEF RunInv
<1>9. ASSUME NEW r \in Rows
      PROVE  /\ DOMAIN samples[r] = Phases /\ \A phase \in Phases : IsList(samples[r][phase])
             /\ DOMAIN samples'[r] = Phases /\ \A phase \in Phases : IsList(samples'[r][phase])
  <2>1. DOMAIN samples[r] = Phases /\ \A phase \in Phases : IsList(samples[r][phase])
    BY <1>1 DEF RunInv, TableOK
  <2>2. "parent" \in Phases
    BY DEF Phases
  <2>3. IsList(Recorded(r, "parent", built))
    BY <2>1, <2>2, AppendKeepsList DEF Recorded
  <2>. QED  BY <1>6, <2>1, <2>3
<1>10. TableOK'
  <2>1. DOMAIN samples' = Rows /\ DOMAIN status' = Rows /\ DOMAIN comparison' = Rows /\ DOMAIN available' = Rows
    BY <1>1, <1>6 DEF RunInv, TableOK
  <2>. QED  BY <1>1, <1>9, <2>1, CasesStay DEF RunInv
<1>11. ASSUME NEW c \in Sets, NEW p \in Builders, NEW s \in Sorters
       PROVE  SampleOK(c, p, s, samples[Row(c, p, s)], TRUE)'
  <2>1. PICK r \in Rows : r = Row(c, p, s) /\ r = Row(c, p, s)'
    BY <1>2, <1>7 DEF SameTable
  <2>2. SampleOK(c, p, s, samples[r], TRUE)
    BY <1>1, <2>1 DEF RunInv, SamplesOK
  <2>3. /\ \A n : BuiltIn(c, p, n)' = BuiltIn(c, p, n)
        /\ \A n : SortedIn(c, p, s, n)' = SortedIn(c, p, s, n)
    BY <1>2, SampleMeansTheSame
  <2>4. /\ IsRun(c)' <=> IsRun(c)
        /\ CountBefore(pass)' = CountBefore(pass) /\ CountBefore(pass + 1)' = CountBefore(pass + 1)
    BY <1>1 DEF IsRun, Running, CountBefore
  <2>5. CASE ~(c = context /\ p = j)
    <3>1. samples'[r] = samples[r]
      BY <1>6, <1>7, <2>1, <2>5
    <3>2. IsRun(c) => \A phase : JobDone(p, s, phase)' <=> JobDone(p, s, phase)
      BY <1>1, <1>6, <2>5 DEF IsRun, JobDone
    <3>3. \A phase : SampleCount(c, p, s, phase)' = SampleCount(c, p, s, phase)
      BY <1>1, <2>4, <3>2 DEF SampleCount
    <3>. QED  BY <2>1, <2>2, <2>3, <3>1, <3>3 DEF SampleOK
  <2>6. CASE c = context /\ p = j
    <3>1. samples'[r] = [samples[r] EXCEPT !["parent"] = Recorded(r, "parent", built)]
      BY <1>6, <1>7, <2>1, <2>6
    <3>2. "parent" \in Phases
      BY DEF Phases
    <3>3. PICK old, new : old = samples[r]["parent"] /\ new = samples'[r]["parent"]
      OBVIOUS
    <3>4. /\ new = IF pass >= Warmup THEN Append(old, built) ELSE old
          /\ \A phase \in Phases \ {"parent"} : samples'[r][phase] = samples[r][phase]
      BY <1>9, <3>1, <3>2, <3>3 DEF Recorded, RecordSample
    <3>5. IsList(old) /\ Len(old) = CountBefore(pass)
      <4>1. SampleCount(c, p, s, "parent") = CountBefore(pass)
        BY <1>1, <1>3, <2>6 DEF SampleCount, IsRun, Running, JobDone
      <4>. QED  BY <1>9, <2>2, <3>2, <3>3, <4>1 DEF SampleOK
    <3>6. \A k \in DOMAIN old : old[k] = BuiltIn(c, p, Warmup + k - 1)
      BY <2>2, <3>3 DEF SampleOK
    <3>7. Len(new) = CountBefore(pass + 1) /\ \A k \in DOMAIN new : new[k] = BuiltIn(c, p, Warmup + k - 1)
      <4>1. PICK value : value = [n \in Nat |-> BuiltIn(c, p, n)]
        OBVIOUS
      <4>2. \A k \in DOMAIN old : Warmup + k - 1 \in Nat
        BY <1>3, <3>5, AppendKeepsList
      <4>3. IsRecord(old, CountBefore(pass), value)
        BY <3>5, <3>6, <4>1, <4>2 DEF IsRecord
      <4>4. new = AfterPass(old, pass, value)
        BY <1>3, <1>5, <2>6, <3>4, <4>1 DEF AfterPass
      <4>5. IsRecord(new, CountBefore(pass + 1), value)
        BY <1>3, <4>3, <4>4, RecordingKeepsPairs
      <4>6. \A k \in DOMAIN new : Warmup + k - 1 \in Nat
        BY <1>3, <4>5, RecordIndexes
      <4>. QED  BY <4>1, <4>5, <4>6 DEF IsRecord
    <3>8. /\ SampleCount(c, p, s, "parent")' = CountBefore(pass + 1)
          /\ \A phase \in Phases \ {"parent"} : SampleCount(c, p, s, phase)' = SampleCount(c, p, s, phase)
      BY <1>1, <1>3, <1>6, <2>4, <2>6 DEF SampleCount, IsRun, Running, JobDone
    <3>9. samples'[r]["sort"] = samples[r]["sort"] /\ samples'[r]["pipeline"] = samples[r]["pipeline"]
      BY <3>4 DEF Phases
    <3>10. \A phase \in Phases : Len(samples'[r][phase]) = SampleCount(c, p, s, phase)'
      BY <2>2, <3>3, <3>4, <3>7, <3>8 DEF SampleOK
    <3>11. /\ \A k \in DOMAIN samples'[r]["parent"] : samples'[r]["parent"][k] = BuiltIn(c, p, Warmup + k - 1)
           /\ \A k \in DOMAIN samples'[r]["sort"] : samples'[r]["sort"][k] = SortedIn(c, p, s, Warmup + k - 1)
           /\ \A k \in DOMAIN samples'[r]["pipeline"] :
                samples'[r]["pipeline"][k] = <<BuiltIn(c, p, Warmup + k - 1), SortedIn(c, p, s, Warmup + k - 1)>>
           /\ DOMAIN samples'[r]["pipeline"] = DOMAIN samples'[r]["sort"]
      BY <2>2, <3>3, <3>7, <3>9 DEF SampleOK
    <3>. QED  BY <2>1, <2>3, <3>10, <3>11 DEF SampleOK
  <2>. QED  BY <2>5, <2>6
<1>12. SamplesOK'
  BY <1>1, <1>2, <1>11 DEF SamplesOK, SameTable
<1>13. MarksOK'
  <2>1. \A w \in wrong' : w \in wrong \/ w = <<"parent-mismatch", context, Parents[j + 1]>>
    BY <1>6
  <2>2. \A w \in wrong' : \E m, c, b, s :
          \/ w = <<"parent-mismatch", c, b>>
          \/ m \in {"sort-mismatch", "verify-failed"} /\ w = <<m, c, b, s>>
    <3>1. \A w \in wrong : \E m, c, b, s :
            \/ w = <<"parent-mismatch", c, b>>
            \/ m \in {"sort-mismatch", "verify-failed"} /\ w = <<m, c, b, s>>
      BY <1>1 DEF RunInv, MarksOK
    <3>. QED  BY <2>1, <3>1
  <2>3. ASSUME NEW c \in Sets, NEW p \in Builders, NEW s \in Sorters, NEW m
        PROVE  m \in status'[Row(c, p, s)] <=> IsMarked(c, p, s, m)'
    <3>1. m \in status[Row(c, p, s)] <=> IsMarked(c, p, s, m)
      BY <1>1 DEF RunInv, MarksOK
    <3>2. status'[Row(c, p, s)] = IF c = context /\ p = j THEN status[Row(c, p, s)] \cup markers
                                  ELSE status[Row(c, p, s)]
      BY <1>6, <1>7
    <3>3. Parents' = Parents /\ Sorts' = Sorts
      BY <1>2 DEF SameTable
    <3>4. m \in {"sort-mismatch", "verify-failed"} =>
            (<<m, c, Parents[p + 1], Sorts[s + 1]>> \in wrong' <=>
               <<m, c, Parents[p + 1], Sorts[s + 1]>> \in wrong)
      <4>1. \A x : x \in {"sort-mismatch", "verify-failed"} =>
              <<x, c, Parents[p + 1], Sorts[s + 1]>> # <<"parent-mismatch", context, Parents[j + 1]>>
        OBVIOUS
      <4>. QED  BY <1>6, <2>1, <4>1
    <3>5. <<"parent-mismatch", c, Parents[p + 1]>> \in wrong' <=>
            \/ <<"parent-mismatch", c, Parents[p + 1]>> \in wrong
            \/ c = context /\ p = j /\ "parent-mismatch" \in markers
      <4>1. Parents[p + 1] = Parents[j + 1] => p = j
        BY <1>2, <1>3 DEF Coordinates
      <4>. QED  BY <1>6, <4>1
    <3>6. CASE m = "parent-mismatch"
      BY <3>1, <3>2, <3>3, <3>5, <3>6 DEF IsMarked
    <3>7. CASE m # "parent-mismatch"
      <4>1. m \notin markers
        BY <1>6, <3>7
      <4>. QED  BY <3>1, <3>2, <3>3, <3>4, <3>7, <4>1 DEF IsMarked
    <3>. QED  BY <3>6, <3>7
  <2>. QED  BY <1>1, <1>2, <2>2, <2>3 DEF MarksOK, SameTable
<1>14. FairOK'
  <2>1. Running
    BY <1>1 DEF Running
  <2>. QED  BY <1>1, <1>2, <1>6, <1>7, <2>1, FairUntilCompared
<1>15. ProgressOK'
  <2>1. \A p, n : BuiltIn(context, p, n)' = BuiltIn(context, p, n)
    BY <1>1, <1>2 DEF BuiltIn, SameTable
  <2>2. \A p \in Builders : p \notin jobs' =>
          artifacts'[p] = BuiltIn(context, p, pass) /\ elapsedMs'[p] = artifacts'[p]
    BY <1>1, <1>3, <1>5, <1>6 DEF RunInv, ProgressOK
  <2>3. DOMAIN artifacts' = Builders /\ DOMAIN elapsedMs' = Builders /\ jobs' \subseteq Builders
    BY <1>3, <1>6
  <2>. QED  BY <1>1, <1>2, <2>1, <2>2, <2>3 DEF RunInv, ProgressOK, Running, SameTable
<1>. QED  BY <1>8, <1>10, <1>12, <1>13, <1>14, <1>15 DEF RunInv

\* A sort job: its row gets two samples, from the artifacts of this pass.
LEMMA SortKeepsRunInv ==
  ASSUME RunInv, RunSort
  PROVE  RunInv'
<1>1. /\ stage = "sorts"
      /\ UNCHANGED <<selection, baseline, stage, waiting, context, pass, artifacts, elapsedMs>>
      /\ UNCHANGED <<case, comparison, available>>
  BY DEF RunSort, options, parentJobs
<1>2. Coordinates /\ SameTable
  BY <1>1, CoordinatesAlways, SelectionStays
<1>3. /\ Warmup \in Nat /\ pass \in Nat /\ context \in Sets /\ context \notin waiting
      /\ jobs \subseteq 0 .. NParents * NSorts - 1
  BY <1>1, BenchmarkAssumption, PassesAssumption DEF RunInv, ProgressOK, Running
<1>4. PICK j \in jobs :
        \E markers \in SUBSET {"sort-mismatch", "verify-failed"} :
          LET parent == j \div Len(Sorts)
              sort == j % Len(Sorts)
              row == MatrixResultIndex(parent, sort)
              sorted == <<context, Sorts[sort + 1], pass, artifacts[parent]>>
          IN  /\ jobs' = jobs \ {j}
              /\ samples' = [samples EXCEPT
                   ![row]["sort"] = Recorded(row, "sort", sorted),
                   ![row]["pipeline"] = Recorded(row, "pipeline", <<elapsedMs[parent], sorted>>)]
              /\ status' = [status EXCEPT ![row] = Mark(@, markers)]
              /\ wrong' = wrong \cup
                   {<<marker, context, Parents[parent + 1], Sorts[sort + 1]>> : marker \in markers}
  BY DEF RunSort
<1>5. PICK b, t : b = j \div NSorts /\ t = j % NSorts
  OBVIOUS
<1>6. /\ b \in Builders /\ t \in Sorters /\ b * NSorts + t = j
      /\ \A p \in Builders, s \in Sorters : p * NSorts + s = j <=> p = b /\ s = t
  <2>1. IsMatrix(NParents, NSorts) /\ j \in 0 .. NParents * NSorts - 1
    BY <1>2, <1>3, JobCoordinates DEF Coordinates
  <2>2. /\ j \div NSorts \in 0 .. NParents - 1 /\ j % NSorts \in 0 .. NSorts - 1
        /\ (j \div NSorts) * NSorts + (j % NSorts) = j
    BY <2>1, Zenon DEF IsMatrix
  <2>3. \A p \in 0 .. NParents - 1, s \in 0 .. NSorts - 1 :
          (p * NSorts + s) \div NSorts = p /\ (p * NSorts + s) % NSorts = s
    BY <2>1, Zenon DEF IsMatrix
  <2>4. b \in 0 .. NParents - 1 /\ t \in 0 .. NSorts - 1 /\ b * NSorts + t = j
    BY <1>5, <2>2, Zenon
  <2>5. ASSUME NEW p \in 0 .. NParents - 1, NEW s \in 0 .. NSorts - 1
        PROVE  p * NSorts + s = j <=> p = b /\ s = t
    BY <1>5, <2>3, <2>4, Zenon
  <2>. QED  BY <2>4, <2>5 DEF Builders, Sorters
<1>7. PICK row : row = Row(context, b, t)
  OBVIOUS
<1>8. PICK built, sorted : built = BuiltIn(context, b, pass) /\ sorted = SortedIn(context, b, t, pass)
  OBVIOUS
<1>9. PICK markers \in SUBSET {"sort-mismatch", "verify-failed"} :
         /\ jobs' = jobs \ {j}
         /\ samples' = [samples EXCEPT
              ![row]["sort"] = Recorded(row, "sort", sorted),
              ![row]["pipeline"] = Recorded(row, "pipeline", <<built, sorted>>)]
         /\ status' = [status EXCEPT ![row] = status[row] \cup markers]
         /\ wrong' = wrong \cup {<<marker, context, Parents[b + 1], Sorts[t + 1]>> : marker \in markers}
  <2>1. artifacts[b] = built /\ elapsedMs[b] = built
    BY <1>1, <1>6, <1>8 DEF RunInv, ProgressOK
  <2>2. j \div Len(Sorts) = b /\ j % Len(Sorts) = t
    BY <1>5 DEF NSorts
  <2>3. MatrixResultIndex(b, t) = row
    BY <1>2, <1>7 DEF Coordinates
  <2>4. sorted = <<context, Sorts[t + 1], pass, built>>
    BY <1>8 DEF SortedIn
  <2>5. PICK markers \in SUBSET {"sort-mismatch", "verify-failed"} :
          LET parent == j \div Len(Sorts)
              sort == j % Len(Sorts)
              at == MatrixResultIndex(parent, sort)
              made == <<context, Sorts[sort + 1], pass, artifacts[parent]>>
          IN  /\ jobs' = jobs \ {j}
              /\ samples' = [samples EXCEPT
                   ![at]["sort"] = Recorded(at, "sort", made),
                   ![at]["pipeline"] = Recorded(at, "pipeline", <<elapsedMs[parent], made>>)]
              /\ status' = [status EXCEPT ![at] = Mark(@, markers)]
              /\ wrong' = wrong \cup
                   {<<marker, context, Parents[parent + 1], Sorts[sort + 1]>> : marker \in markers}
    BY <1>4
  <2>6. status' = [status EXCEPT ![row] = status[row] \cup markers]
    BY <2>2, <2>3, <2>5, Zenon DEF Mark
  <2>7. samples' = [samples EXCEPT
              ![row]["sort"] = Recorded(row, "sort", sorted),
              ![row]["pipeline"] = Recorded(row, "pipeline", <<built, sorted>>)]
    BY <2>1, <2>2, <2>3, <2>4, <2>5, Zenon
  <2>8. wrong' = wrong \cup {<<marker, context, Parents[b + 1], Sorts[t + 1]>> : marker \in markers}
    BY <2>2, <2>5, Zenon
  <2>. QED  BY <2>5, <2>6, <2>7, <2>8
<1>10. \A c \in Sets, p \in Builders, s \in Sorters :
         /\ Row(c, p, s) \in Rows
         /\ Row(c, p, s) = row <=> c = context /\ p = b /\ s = t
  <2> SUFFICES ASSUME NEW c \in Sets, NEW p \in Builders, NEW s \in Sorters
               PROVE  Row(c, p, s) \in Rows /\ (Row(c, p, s) = row <=> c = context /\ p = b /\ s = t)
    OBVIOUS
  <2>1. Row(c, p, s) = Row(context, b, t) => c = context /\ p = b /\ s = t
    BY <1>2, <1>3, <1>6 DEF Coordinates
  <2>. QED  BY <1>2, <1>7, <2>1 DEF Coordinates
<1>11. OptionsOK'
  BY <1>1, OptionsStay DEF RunInv
<1>12. row \in Rows /\ DOMAIN samples = Rows /\ DOMAIN status = Rows
  BY <1>1, <1>3, <1>6, <1>7, <1>10 DEF RunInv, TableOK
<1>13. /\ DOMAIN samples' = Rows /\ \A r \in Rows \ {row} : samples'[r] = samples[r]
       /\ \A r \in Rows : DOMAIN samples'[r] = DOMAIN samples[r]
  BY <1>9, <1>12
<1>14. \A r \in Rows : DOMAIN samples[r] = Phases /\ \A phase \in Phases : IsList(samples[r][phase])
  BY <1>1 DEF RunInv, TableOK
<1>15. /\ samples'[row]["sort"] = Recorded(row, "sort", sorted)
       /\ samples'[row]["pipeline"] = Recorded(row, "pipeline", <<built, sorted>>)
       /\ samples'[row]["parent"] = samples[row]["parent"]
  BY <1>9, <1>12, <1>14 DEF Phases
<1>16. TableOK'
  <2>1. IsList(samples'[row]["sort"]) /\ IsList(samples'[row]["pipeline"]) /\ IsList(samples'[row]["parent"])
    BY <1>12, <1>14, <1>15, AppendKeepsList DEF Recorded, Phases
  <2>2. \A r \in Rows : DOMAIN samples'[r] = Phases /\ \A phase \in Phases : IsList(samples'[r][phase])
    BY <1>13, <1>14, <2>1 DEF Phases
  <2>3. DOMAIN status' = Rows /\ DOMAIN comparison' = Rows /\ DOMAIN available' = Rows
    BY <1>1, <1>9, <1>12 DEF RunInv, TableOK
  <2>. QED  BY <1>1, <1>13, <2>2, <2>3, CasesStay DEF RunInv
<1>17. ASSUME NEW c \in Sets, NEW p \in Builders, NEW s \in Sorters
       PROVE  SampleOK(c, p, s, samples[Row(c, p, s)], TRUE)'
  <2>1. PICK r \in Rows : r = Row(c, p, s) /\ r = Row(c, p, s)'
    BY <1>2, <1>10 DEF SameTable
  <2>2. SampleOK(c, p, s, samples[r], TRUE)
    BY <1>1, <2>1 DEF RunInv, SamplesOK
  <2>3. /\ \A n : BuiltIn(c, p, n)' = BuiltIn(c, p, n)
        /\ \A n : SortedIn(c, p, s, n)' = SortedIn(c, p, s, n)
    BY <1>2, SampleMeansTheSame
  <2>4. /\ IsRun(c)' <=> IsRun(c)
        /\ CountBefore(pass)' = CountBefore(pass) /\ CountBefore(pass + 1)' = CountBefore(pass + 1)
    BY <1>1 DEF IsRun, Running, CountBefore
  <2>5. CASE ~(c = context /\ p = b /\ s = t)
    <3>1. samples'[r] = samples[r]
      BY <1>10, <1>13, <2>1, <2>5
    <3>2. IsRun(c) => \A phase : JobDone(p, s, phase)' <=> JobDone(p, s, phase)
      BY <1>1, <1>2, <1>6, <1>9, <2>5 DEF IsRun, JobDone, SameTable
    <3>3. \A phase : SampleCount(c, p, s, phase)' = SampleCount(c, p, s, phase)
      BY <1>1, <2>4, <3>2 DEF SampleCount
    <3>. QED  BY <2>1, <2>2, <2>3, <3>1, <3>3 DEF SampleOK
  <2>6. CASE c = context /\ p = b /\ s = t
    <3>1. r = row
      BY <1>7, <2>1, <2>6
    <3>2. /\ SampleCount(c, p, s, "parent")' = SampleCount(c, p, s, "parent")
          /\ SampleCount(c, p, s, "sort") = CountBefore(pass) /\ SampleCount(c, p, s, "sort")' = CountBefore(pass + 1)
          /\ SampleCount(c, p, s, "pipeline") = CountBefore(pass)
          /\ SampleCount(c, p, s, "pipeline")' = CountBefore(pass + 1)
      <4>1. /\ j \in jobs /\ j \notin jobs' /\ p * NSorts + s = j /\ NSorts' = NSorts
            /\ IsRun(c) /\ IsRun(c)' /\ c \notin waiting /\ c \notin waiting'
        BY <1>1, <1>2, <1>3, <1>6, <1>9, <2>6 DEF SameTable, IsRun, Running
      <4>2. stage = "sorts" /\ stage' = "sorts"
        BY <1>1
      <4>3. \A phase : JobDone(p, s, phase) <=> phase = "parent"
        BY <4>1, <4>2 DEF JobDone
      <4>4. \A phase : JobDone(p, s, phase)'
        BY <4>1, <4>2 DEF JobDone
      <4>. QED  BY <2>4, <4>1, <4>3, <4>4 DEF SampleCount
    <3>3. /\ IsList(samples[r]["sort"]) /\ Len(samples[r]["sort"]) = CountBefore(pass)
          /\ IsList(samples[r]["pipeline"]) /\ Len(samples[r]["pipeline"]) = CountBefore(pass)
      BY <1>14, <2>2, <3>2 DEF SampleOK, Phases
    <3>4. /\ \A k \in DOMAIN samples[r]["sort"] : Warmup + k - 1 \in Nat
          /\ \A k \in DOMAIN samples[r]["pipeline"] : Warmup + k - 1 \in Nat
      BY <1>3, <3>3, AppendKeepsList
    <3>5. PICK sorts, pipes : /\ sorts = [n \in Nat |-> SortedIn(c, p, s, n)]
                             /\ pipes = [n \in Nat |-> <<BuiltIn(c, p, n), SortedIn(c, p, s, n)>>]
      OBVIOUS
    <3>6. IsRecord(samples[r]["sort"], CountBefore(pass), sorts)
      BY <2>2, <3>3, <3>4, <3>5 DEF SampleOK, IsRecord
    <3>7. IsRecord(samples[r]["pipeline"], CountBefore(pass), pipes)
      BY <2>2, <3>3, <3>4, <3>5 DEF SampleOK, IsRecord
    <3>8. samples'[r]["sort"] = AfterPass(samples[r]["sort"], pass, sorts)
      BY <1>3, <1>8, <1>15, <2>6, <3>1, <3>5 DEF AfterPass, Recorded, RecordSample
    <3>9. samples'[r]["pipeline"] = AfterPass(samples[r]["pipeline"], pass, pipes)
      BY <1>3, <1>8, <1>15, <2>6, <3>1, <3>5 DEF AfterPass, Recorded, RecordSample
    <3>10. IsRecord(samples'[r]["sort"], CountBefore(pass + 1), sorts)
      BY <1>3, <3>6, <3>8, RecordingKeepsPairs
    <3>11. IsRecord(samples'[r]["pipeline"], CountBefore(pass + 1), pipes)
      BY <1>3, <3>7, <3>9, RecordingKeepsPairs
    <3>12. /\ \A k \in DOMAIN samples'[r]["sort"] : samples'[r]["sort"][k] = SortedIn(c, p, s, Warmup + k - 1)
           /\ \A k \in DOMAIN samples'[r]["pipeline"] :
                samples'[r]["pipeline"][k] = <<BuiltIn(c, p, Warmup + k - 1), SortedIn(c, p, s, Warmup + k - 1)>>
           /\ Len(samples'[r]["sort"]) = CountBefore(pass + 1) /\ Len(samples'[r]["pipeline"]) = CountBefore(pass + 1)
           /\ DOMAIN samples'[r]["pipeline"] = DOMAIN samples'[r]["sort"]
      <4>1. /\ \A k \in DOMAIN samples'[r]["sort"] : Warmup + k - 1 \in Nat
            /\ \A k \in DOMAIN samples'[r]["pipeline"] : Warmup + k - 1 \in Nat
        BY <1>3, <3>10, <3>11, RecordIndexes
      <4>2. DOMAIN samples'[r]["pipeline"] = DOMAIN samples'[r]["sort"]
        BY <3>10, <3>11, AppendKeepsList DEF IsRecord
      <4>. QED  BY <3>5, <3>10, <3>11, <4>1, <4>2 DEF IsRecord
    <3>13. samples'[r]["parent"] = samples[r]["parent"]
      BY <1>15, <3>1
    <3>. QED  BY <2>1, <2>2, <2>3, <3>2, <3>12, <3>13 DEF SampleOK, Phases
  <2>. QED  BY <2>5, <2>6
<1>18. SamplesOK'
  BY <1>1, <1>2, <1>17 DEF SamplesOK, SameTable
<1>19. MarksOK'
  <2>1. \A w \in wrong' : \E m, c, d, s :
          \/ w = <<"parent-mismatch", c, d>>
          \/ m \in {"sort-mismatch", "verify-failed"} /\ w = <<m, c, d, s>>
    <3>1. \A w \in wrong : \E m, c, d, s :
            \/ w = <<"parent-mismatch", c, d>>
            \/ m \in {"sort-mismatch", "verify-failed"} /\ w = <<m, c, d, s>>
      BY <1>1 DEF RunInv, MarksOK
    <3>2. \A w \in wrong' : w \in wrong \/ \E m \in {"sort-mismatch", "verify-failed"} :
            w = <<m, context, Parents[b + 1], Sorts[t + 1]>>
      BY <1>9
    <3>. QED  BY <3>1, <3>2
  <2>2. ASSUME NEW c \in Sets, NEW p \in Builders, NEW s \in Sorters, NEW m
        PROVE  m \in status'[Row(c, p, s)] <=> IsMarked(c, p, s, m)'
    <3>1. m \in status[Row(c, p, s)] <=> IsMarked(c, p, s, m)
      BY <1>1 DEF RunInv, MarksOK
    <3>2. status'[Row(c, p, s)] = IF c = context /\ p = b /\ s = t THEN status[Row(c, p, s)] \cup markers
                                  ELSE status[Row(c, p, s)]
      BY <1>9, <1>10, <1>12
    <3>3. Parents' = Parents /\ Sorts' = Sorts
      BY <1>2 DEF SameTable
    <3>4. <<"parent-mismatch", c, Parents[p + 1]>> \in wrong' <=>
            <<"parent-mismatch", c, Parents[p + 1]>> \in wrong
      <4>1. \A x \in markers : <<"parent-mismatch", c, Parents[p + 1]>> #
                               <<x, context, Parents[b + 1], Sorts[t + 1]>>
        BY <1>9
      <4>. QED  BY <1>9, <4>1
    <3>5. <<m, c, Parents[p + 1], Sorts[s + 1]>> \in wrong' <=>
            \/ <<m, c, Parents[p + 1], Sorts[s + 1]>> \in wrong
            \/ c = context /\ p = b /\ s = t /\ m \in markers
      <4>1. /\ Parents[p + 1] = Parents[b + 1] => p = b
            /\ Sorts[s + 1] = Sorts[t + 1] => s = t
        BY <1>2, <1>6 DEF Coordinates
      <4>. QED  BY <1>9, <4>1
    <3>6. CASE m \in {"sort-mismatch", "verify-failed"}
      BY <3>1, <3>2, <3>3, <3>5, <3>6 DEF IsMarked
    <3>7. CASE m \notin {"sort-mismatch", "verify-failed"}
      <4>1. m \notin markers
        BY <1>9, <3>7
      <4>. QED  BY <3>1, <3>2, <3>3, <3>4, <3>7, <4>1 DEF IsMarked
    <3>. QED  BY <3>6, <3>7
  <2>. QED  BY <1>1, <1>2, <2>1, <2>2 DEF MarksOK, SameTable
<1>20. FairOK'
  <2>1. Running
    BY <1>1 DEF Running
  <2>. QED  BY <1>1, <1>2, <1>9, <1>10, <1>12, <2>1, FairUntilCompared
<1>21. ProgressOK'
  <2>1. \A p, n : BuiltIn(context, p, n)' = BuiltIn(context, p, n)
    BY <1>1, <1>2 DEF BuiltIn, SameTable
  <2>2. jobs' \subseteq 0 .. NParents * NSorts - 1
    BY <1>3, <1>9
  <2>. QED  BY <1>1, <1>2, <2>1, <2>2 DEF RunInv, ProgressOK, Running, SameTable
<1>. QED  BY <1>11, <1>16, <1>18, <1>19, <1>20, <1>21 DEF RunInv

\* Different builders, sorts or data sets have different rows.
LEMMA RowsAreDistinct ==
  ASSUME Coordinates, NEW c \in Sets, NEW d \in Sets, NEW p \in Builders, NEW q \in Builders,
         NEW s \in Sorters, NEW t \in Sorters, Row(c, p, s) = Row(d, q, t)
  PROVE  c = d /\ p = q /\ s = t
<1>1. \A e, f \in Sets, a, b \in Builders, u, v \in Sorters :
        Row(e, a, u) = Row(f, b, v) => e = f /\ a = b /\ u = v
  BY Zenon DEF Coordinates
<1>. QED  BY <1>1

\* Each row of the data set is compared once, with its own baseline.
LEMMA ComparisonsAreOfTheSet ==
  ASSUME OptionsOK, Coordinates, stage # "options", context \in Sets
  PROVE  /\ \A x : x \in Comparisons <=>
              \E p \in Builders, s \in Sorters, phase \in Phases :
                IsCompared(phase) /\ x = <<Row(context, p, s), phase, BaseRow(context, p, s, phase)>>
         /\ \A p \in Builders, s \in Sorters, phase \in Phases : IsCompared(phase) =>
              BaseRow(context, p, s, phase) \in Rows
<1>1. \A p, s : MatrixResultIndex(p, s) = Row(context, p, s)
  BY DEF Coordinates
<1>2. \A p, s, phase : BaselineRow(p, s, phase) = BaseRow(context, p, s, phase)
  BY <1>1 DEF BaselineRow, BaseRow, BaseBuilder, BaseSorter
<1>3. ParentJobs = Builders /\ 0 .. Len(Sorts) - 1 = Sorters
  BY DEF ParentJobs, Builders, NParents, Sorters, NSorts
<1>4. ASSUME NEW x
      PROVE  x \in Comparisons <=>
              \E p \in Builders, s \in Sorters, phase \in Phases :
                IsCompared(phase) /\ x = <<Row(context, p, s), phase, BaseRow(context, p, s, phase)>>
  BY <1>1, <1>2, <1>3 DEF Comparisons
<1>5. ASSUME NEW p \in Builders, NEW s \in Sorters, NEW phase \in Phases, IsCompared(phase)
      PROVE  BaseRow(context, p, s, phase) \in Rows
  BY <1>5, BaseRowIsThere DEF Coordinates, BaseRow
<1>. QED  BY <1>4, <1>5

\* The data set is compared, and no other.
LEMMA BaselinesKeepRunInv ==
  ASSUME RunInv, ApplyBaselines
  PROVE  RunInv'
<1>1. /\ stage = "baselines" /\ stage' = IF waiting = {} THEN "done" ELSE "context"
      /\ UNCHANGED <<selection, baseline, waiting, context, pass, case, samples, status, wrong>>
  BY DEF ApplyBaselines, options
<1>2. Coordinates /\ SameTable
  BY <1>1, CoordinatesAlways, SelectionStays
<1>3. /\ Warmup \in Nat /\ Iterations \in Nat \ {0} /\ context \in Sets /\ context \notin waiting
      /\ pass + 1 = Warmup + Iterations
  BY <1>1, BenchmarkAssumption, PassesAssumption DEF RunInv, ProgressOK, Running
<1>4. /\ comparison' = [r \in Rows |-> [phase \in Phases |->
           IF \E x \in Comparisons : x[1] = r /\ x[2] = phase
             THEN Outcome(CHOOSE x \in Comparisons : x[1] = r /\ x[2] = phase)
             ELSE comparison[r][phase]]]
      /\ available' = [r \in Rows |-> [phase \in Phases |-> available[r][phase] \/ ShownFor(r, phase)]]
  <2>1. DOMAIN comparison = Rows /\ DOMAIN available = Rows
    BY <1>1 DEF RunInv, TableOK
  <2>. QED  BY <2>1 DEF ApplyBaselines
<1>5. OptionsOK' /\ MarksOK'
  BY <1>1, OptionsStay, MarksStay DEF RunInv
<1>6. TableOK'
  BY <1>1, <1>4, CasesStay DEF RunInv, TableOK
<1>7. ASSUME NEW c \in Sets, NEW p \in Builders, NEW s \in Sorters, NEW phase \in Phases
      PROVE  SampleCount(c, p, s, phase)' = SampleCount(c, p, s, phase)
  <2>1. ~IsRun(c)' /\ JobDone(p, s, phase)
    BY <1>1 DEF IsRun, Running, JobDone
  <2>2. CountBefore(pass + 1) = Iterations
    BY <1>3 DEF CountBefore
  <2>. QED  BY <1>1, <2>1, <2>2 DEF SampleCount
<1>8. SamplesOK'
  BY <1>1, <1>7, SamplesStay DEF RunInv
<1>9. /\ \A x : x \in Comparisons <=>
           \E p \in Builders, s \in Sorters, phase \in Phases :
             IsCompared(phase) /\ x = <<Row(context, p, s), phase, BaseRow(context, p, s, phase)>>
      /\ \A p \in Builders, s \in Sorters, phase \in Phases : IsCompared(phase) =>
           BaseRow(context, p, s, phase) \in Rows
  BY <1>1, <1>2, <1>3, ComparisonsAreOfTheSet DEF RunInv
<1>10. ASSUME NEW c \in Sets, NEW p \in Builders, NEW s \in Sorters, NEW phase \in Phases
       PROVE  ComparedOK(c, p, s, phase)'
  <2>1. PICK r \in Rows : r = Row(c, p, s) /\ r = Row(c, p, s)'
    BY <1>2 DEF Coordinates, SameTable
  <2>2. ComparedOK(c, p, s, phase)
    BY <1>1 DEF RunInv, FairOK
  <2>3. /\ IsCompared(phase)' <=> IsCompared(phase)
        /\ ~IsRun(c)' /\ (c \in waiting' <=> c \in waiting)
        /\ IsRun(c) <=> c = context
    BY <1>1 DEF IsCompared, IsRun, Running
  <2>4. IsCompared(phase) =>
          /\ Compared(Row(c, p, s), BaseRow(c, p, s, phase), phase)'
               = Compared(Row(c, p, s), BaseRow(c, p, s, phase), phase)
          /\ IsShown(c, p, s, phase)' <=> IsShown(c, p, s, phase)
    BY <1>1, <1>2, ComparedMeansTheSame DEF RunInv
  <2>5. ASSUME c # context
        PROVE  comparison'[r][phase] = comparison[r][phase] /\ (available'[r][phase] <=> available[r][phase])
    <3>0. \A q \in Builders, t \in Sorters : Row(context, q, t) # r
      <4> SUFFICES ASSUME NEW q \in Builders, NEW t \in Sorters, Row(context, q, t) = Row(c, p, s)
                   PROVE  FALSE
        BY <2>1
      <4>2. context = c
        BY <1>2, <1>3, RowsAreDistinct
      <4>. QED  BY <2>5, <4>2
    <3>1. \A x \in Comparisons : x[1] # r
      BY <1>9, <3>0
    <3>2. \A x \in Comparisons : x[3] # r
      <4> SUFFICES ASSUME NEW x \in Comparisons PROVE x[3] # r
        OBVIOUS
      <4>1. PICK q \in Builders, t \in Sorters, f \in Phases :
              IsCompared(f) /\ x = <<Row(context, q, t), f, BaseRow(context, q, t, f)>>
        BY <1>9
      <4>2. BaseBuilder(q, f) \in Builders /\ BaseSorter(t, f) \in Sorters
        BY <1>1, <1>2, <4>1, BaseRowIsThere DEF RunInv
      <4>3. x[3] = Row(context, BaseBuilder(q, f), BaseSorter(t, f))
        BY <4>1 DEF BaseRow
      <4>. QED  BY <3>0, <4>2, <4>3
    <3>3. ~ShownFor(r, phase)
      BY <3>1, <3>2 DEF ShownFor
    <3>. QED  BY <1>4, <3>1, <3>3
  <2>6. ASSUME c = context, ~IsCompared(phase)
        PROVE  comparison'[r][phase] = comparison[r][phase] /\ (available'[r][phase] <=> available[r][phase])
    <3>1. \A x \in Comparisons : x[2] # phase
      BY <1>9, <2>6
    <3>2. ~ShownFor(r, phase)
      BY <3>1 DEF ShownFor
    <3>. QED  BY <1>4, <3>1, <3>2
  <2>7. ASSUME c = context, IsCompared(phase)
        PROVE  comparison'[r][phase] = Compared(Row(c, p, s), BaseRow(c, p, s, phase), phase)
    <3>1. PICK one : one = <<Row(context, p, s), phase, BaseRow(context, p, s, phase)>>
      OBVIOUS
    <3>2. one \in Comparisons /\ one[1] = r /\ one[2] = phase
      BY <1>9, <2>1, <2>7, <3>1
    <3>3. \A x \in Comparisons : x[1] = r /\ x[2] = phase => x = one
      <4> SUFFICES ASSUME NEW x \in Comparisons, x[1] = r, x[2] = phase PROVE x = one
        OBVIOUS
      <4>1. PICK q \in Builders, t \in Sorters, f \in Phases :
              IsCompared(f) /\ x = <<Row(context, q, t), f, BaseRow(context, q, t, f)>>
        BY <1>9
      <4>2. f = phase /\ Row(context, q, t) = Row(context, p, s)
        BY <2>1, <2>7, <4>1
      <4>3. q = p /\ t = s
        BY <1>2, <1>3, <4>2 DEF Coordinates
      <4>. QED  BY <3>1, <4>1, <4>2, <4>3
    <3>4. (CHOOSE x \in Comparisons : x[1] = r /\ x[2] = phase) = one
      BY <3>2, <3>3
    <3>5. comparison'[r][phase] = Outcome(one)
      BY <1>4, <3>2, <3>4
    <3>. QED  BY <2>7, <3>1, <3>5 DEF Outcome
  <2>8. ASSUME c = context, IsCompared(phase)
        PROVE  available'[r][phase] <=> IsShown(c, p, s, phase)
    <3>1. ~available[r][phase]
      BY <2>1, <2>2, <2>3, <2>8 DEF ComparedOK
    <3>2. available'[r][phase] <=> ShownFor(r, phase)
      BY <1>4, <3>1
    <3>3. ShownFor(r, phase) <=>
            \E q \in Builders, t \in Sorters :
              LET x == <<Row(context, q, t), phase, BaseRow(context, q, t, phase)>>
              IN  Outcome(x) = "ok" /\ r \in {x[1], x[3]}
      <4>1. \A q \in Builders, t \in Sorters :
              <<Row(context, q, t), phase, BaseRow(context, q, t, phase)>> \in Comparisons
        BY <1>9, <2>8
      <4>2. \A x \in Comparisons : x[2] = phase =>
              \E q \in Builders, t \in Sorters : x = <<Row(context, q, t), phase, BaseRow(context, q, t, phase)>>
        BY <1>9
      <4>. QED  BY <4>1, <4>2 DEF ShownFor
    <3>. QED  BY <2>1, <2>8, <3>2, <3>3 DEF Outcome, IsShown
  <2>9. CASE c # context
    BY <2>1, <2>2, <2>3, <2>4, <2>5, <2>9 DEF ComparedOK
  <2>10. CASE c = context /\ ~IsCompared(phase)
    BY <2>1, <2>2, <2>3, <2>6, <2>10 DEF ComparedOK
  <2>11. CASE c = context /\ IsCompared(phase)
    BY <1>3, <2>1, <2>3, <2>4, <2>7, <2>8, <2>11 DEF ComparedOK
  <2>. QED  BY <2>9, <2>10, <2>11
<1>11. FairOK'
  BY <1>1, <1>2, <1>10 DEF FairOK, SameTable
<1>12. ProgressOK'
  BY <1>1 DEF RunInv, ProgressOK, Running
<1>. QED  BY <1>5, <1>6, <1>8, <1>11, <1>12 DEF RunInv

\* Every step keeps the invariant.
LEMMA RunInvIsInductive ==
  ASSUME RunInv, [RunNext]_runVars
  PROVE  RunInv'
<1>1. ASSUME UNCHANGED runVars PROVE RunInv'
  <2>1. /\ UNCHANGED <<selection, baseline, stage, waiting, context, pass, jobs, artifacts, elapsedMs>>
        /\ UNCHANGED <<case, samples, status, comparison, available, wrong>>
    BY <1>1 DEF runVars, options, parentJobs, results
  <2>2. SameTable
    BY <2>1, SelectionStays
  <2>3. CASE stage \in {"options", "failed"}
    <3>1. OptionsOK' /\ ProgressOK' /\ FairOK'
      BY <2>1, <2>2, <2>3 DEF RunInv, OptionsOK, ProgressOK, FairOK, Running, SameTable
    <3>2. CASE stage = "options"
      BY <2>1, <3>1, <3>2 DEF RunInv, TableOK, SamplesOK, MarksOK
    <3>3. CASE stage = "failed"
      <4>1. TableOK' /\ MarksOK'
        BY <2>1, <3>3, CasesStay, MarksStay DEF RunInv, TableOK
      <4>2. SamplesOK'
        BY <2>1, <3>3, SamplesStay DEF RunInv
      <4>. QED  BY <3>1, <4>1, <4>2 DEF RunInv
    <3>. QED  BY <2>3, <3>2, <3>3
  <2>4. CASE stage \notin {"options", "failed"}
    <3>1. OptionsOK' /\ MarksOK'
      BY <2>1, <2>4, OptionsStay, MarksStay DEF RunInv
    <3>2. TableOK'
      BY <2>1, <2>4, CasesStay DEF RunInv, TableOK
    <3>3. \A c \in Sets, p \in Builders, s \in Sorters, phase \in Phases :
            SampleCount(c, p, s, phase)' = SampleCount(c, p, s, phase)
      BY <2>1, <2>2 DEF SampleCount, IsRun, Running, JobDone, CountBefore, SameTable
    <3>4. SamplesOK'
      BY <2>1, <2>4, <3>3, SamplesStay DEF RunInv
    <3>5. \A c \in Sets : IsDone(c)' <=> IsDone(c)
      BY <2>1 DEF IsDone, IsRun, Running
    <3>6. FairOK'
      BY <2>1, <2>4, <3>5, CoordinatesAlways, FairStays
    <3>7. \A p : BuiltIn(context, p, pass)' = BuiltIn(context, p, pass)
      BY <2>1, <2>2 DEF BuiltIn, SameTable
    <3>8. ProgressOK'
      BY <2>1, <2>2, <3>7 DEF RunInv, ProgressOK, Running, SameTable
    <3>. QED  BY <3>1, <3>2, <3>4, <3>6, <3>8 DEF RunInv
  <2>. QED  BY <2>3, <2>4
<1>2. ASSUME SortThrows \/ ZeroBaseline PROVE RunInv'
  <2>1. Running /\ stage' = "failed" /\ UNCHANGED <<options, waiting, results, wrong>>
    BY <1>2 DEF SortThrows, ZeroBaseline, Running
  <2>. QED  BY <2>1, FailureKeepsRunInv
<1>3. CASE RunNext
  <2>1. CASE ReadSelector \/ ReadBaseline
    BY <2>1, OptionsKeepRunInv
  <2>2. CASE InitializeResults
    BY <2>2, TableIsMade
  <2>3. CASE MaterializeContext
    BY <2>3, MaterializeKeepsRunInv
  <2>4. CASE BuildParent
    BY <2>4, BuildKeepsRunInv
  <2>5. CASE BeginSorts
    BY <2>5, BeginSortsKeepsRunInv
  <2>6. CASE RunSort
    BY <2>6, SortKeepsRunInv
  <2>7. CASE EndPass
    BY <2>7, EndPassKeepsRunInv
  <2>8. CASE ApplyBaselines
    BY <2>8, BaselinesKeepRunInv
  <2>9. CASE Finished
    BY <1>1, <2>9 DEF Finished
  <2>. QED
    BY <1>2, <1>3, <2>1, <2>2, <2>3, <2>4, <2>5, <2>6, <2>7, <2>8, <2>9 DEF RunNext
<1>. QED  BY <1>1, <1>3

\* So it holds of every run.
THEOREM RunInvHolds == RunSpec => []RunInv
<1>1. RunInit => RunInv
  BY InitRunInv
<1>2. RunInv /\ [RunNext]_runVars => RunInv'
  BY RunInvIsInductive
<1>. QED  BY <1>1, <1>2, PTL DEF RunSpec

\* In every run, however many data sets, builders, sorts and passes, and however
\* shuffled, the k-th samples of all rows are of the k-th recorded pass, each with
\* the artifacts its own builder made in it.
THEOREM SamplesAreAlwaysPaired == RunSpec => []SamplesArePaired
<1>1. RunInv => SamplesArePaired
  <2> SUFFICES ASSUME RunInv PROVE SamplesArePaired
    OBVIOUS
  <2>1. CASE stage = "options"
    <3>1. DOMAIN case = {}
      BY <2>1 DEF RunInv, ProgressOK
    <3>. QED  BY <2>1, <3>1 DEF SamplesArePaired
  <2>2. CASE stage # "options"
    <3>1. Coordinates
      BY CoordinatesAlways
    <3>2. /\ DOMAIN case = Rows
          /\ \A c \in Sets, p \in Builders, s \in Sorters :
               case[Row(c, p, s)] = [context |-> c, parent |-> Parents[p + 1], sort |-> Sorts[s + 1]]
      BY <2>2 DEF RunInv, TableOK
    <3>3. \A r \in Rows : \E c \in Sets, p \in Builders, s \in Sorters : r = Row(c, p, s)
      BY <3>1 DEF Coordinates
    <3>4. ASSUME NEW q \in Rows, NEW r \in Rows, case[q] = case[r]
          PROVE  q = r
      <4>1. PICK c \in Sets, p \in Builders, s \in Sorters : q = Row(c, p, s)
        BY <3>3
      <4>2. PICK d \in Sets, b \in Builders, t \in Sorters : r = Row(d, b, t)
        BY <3>3
      <4>3. c = d /\ Parents[p + 1] = Parents[b + 1] /\ Sorts[s + 1] = Sorts[t + 1]
        <5>1. case[q] = [context |-> c, parent |-> Parents[p + 1], sort |-> Sorts[s + 1]]
          BY <3>2, <4>1
        <5>2. case[r] = [context |-> d, parent |-> Parents[b + 1], sort |-> Sorts[t + 1]]
          BY <3>2, <4>2
        <5>3. /\ case[q].context = c /\ case[q].parent = Parents[p + 1]
              /\ case[q].sort = Sorts[s + 1]
          BY <5>1
        <5>4. /\ case[r].context = d /\ case[r].parent = Parents[b + 1]
              /\ case[r].sort = Sorts[t + 1]
          BY <5>2
        <5>. QED  BY <3>4, <5>3, <5>4
      <4>4. p = b /\ s = t
        BY <3>1, <4>3 DEF Coordinates
      <4>. QED  BY <4>1, <4>2, <4>3, <4>4
    <3>5. ASSUME NEW r \in Rows
          PROVE  /\ \A k \in DOMAIN samples[r].parent : samples[r].parent[k] = Build(r, k)
                 /\ \A k \in DOMAIN samples[r].sort :
                      samples[r].sort[k] = <<case[r].context, case[r].sort, Warmup + k - 1, Build(r, k)>>
                 /\ \A k \in DOMAIN samples[r].pipeline :
                      samples[r].pipeline[k] = <<Build(r, k), samples[r].sort[k]>>
                 /\ stage = "done" => \A phase \in Phases : Len(samples[r][phase]) = Iterations
      <4>1. PICK c \in Sets, p \in Builders, s \in Sorters : r = Row(c, p, s)
        BY <3>3
      <4>2. case[r].context = c /\ case[r].parent = Parents[p + 1] /\ case[r].sort = Sorts[s + 1]
        <5>1. case[r] = [context |-> c, parent |-> Parents[p + 1], sort |-> Sorts[s + 1]]
          BY <3>2, <4>1
        <5>. QED  BY <5>1
      <4>3. \A k : /\ BuiltIn(c, p, Warmup + k - 1) = Build(r, k)
                   /\ SortedIn(c, p, s, Warmup + k - 1)
                        = <<case[r].context, case[r].sort, Warmup + k - 1, Build(r, k)>>
        BY <4>2 DEF BuiltIn, SortedIn, Build
      <4>4. SampleOK(c, p, s, samples[r], stage # "failed")
        BY <2>2, <4>1 DEF RunInv, SamplesOK
      <4>5. stage = "done" => \A phase \in Phases : SampleCount(c, p, s, phase) = Iterations
        BY DEF RunInv, ProgressOK, SampleCount, IsRun, Running
      <4>. QED  BY <4>3, <4>4, <4>5 DEF SampleOK
    <3>. QED  BY <3>2, <3>4, <3>5 DEF SamplesArePaired
  <2>. QED  BY <2>1, <2>2
<1>. QED  BY <1>1, RunInvHolds, PTL

\* A row is valid in a phase exactly if nothing of that phase went wrong with it.
LEMMA ValidIsRight ==
  ASSUME RunInv, Coordinates, stage # "options", NEW phase \in Phases,
         NEW c \in Sets, NEW p \in Builders, NEW s \in Sorters
  PROVE  IsValid(Row(c, p, s), phase) <=> ~WentWrong(Row(c, p, s), phase)
<1>1. PICK r, P, S : r = Row(c, p, s) /\ P = Parents[p + 1] /\ S = Sorts[s + 1]
  OBVIOUS
<1>2. case[r].context = c /\ case[r].parent = P /\ case[r].sort = S
  <2>1. case[r] = [context |-> c, parent |-> P, sort |-> S]
    BY <1>1 DEF RunInv, TableOK
  <2>. QED  BY <2>1
<1>3. \A m : m \in status[r] <=>
        \/ m = "parent-mismatch" /\ <<m, c, P>> \in wrong
        \/ m \in {"sort-mismatch", "verify-failed"} /\ <<m, c, P, S>> \in wrong
  BY <1>1 DEF RunInv, MarksOK, IsMarked
<1>4. \A w \in wrong : \E m, d, b, t :
        \/ w = <<"parent-mismatch", d, b>>
        \/ m \in {"sort-mismatch", "verify-failed"} /\ w = <<m, d, b, t>>
  BY DEF RunInv, MarksOK
<1>5. \A x, y, z, m, d, b, t : <<x, y, z>> # <<m, d, b, t>>
  <2> SUFFICES ASSUME NEW x, NEW y, NEW z, NEW m, NEW d, NEW b, NEW t, <<x, y, z>> = <<m, d, b, t>>
               PROVE  FALSE
    OBVIOUS
  <2>1. Len(<<x, y, z>>) = 3 /\ Len(<<m, d, b, t>>) = 4
    OBVIOUS
  <2>. QED  BY <2>1
<1>6. \A m : <<m, c, P>> \in wrong => m = "parent-mismatch"
  <2> SUFFICES ASSUME NEW m, <<m, c, P>> \in wrong PROVE m = "parent-mismatch"
    OBVIOUS
  <2>1. PICK n, d, b, t :
          \/ <<m, c, P>> = <<"parent-mismatch", d, b>>
          \/ n \in {"sort-mismatch", "verify-failed"} /\ <<m, c, P>> = <<n, d, b, t>>
    BY <1>4
  <2>2. <<m, c, P>> = <<"parent-mismatch", d, b>>
    BY <1>5, <2>1
  <2>. QED  BY <2>2
<1>7. \A m : <<m, c, P, S>> \in wrong => m \in {"sort-mismatch", "verify-failed"}
  <2> SUFFICES ASSUME NEW m, <<m, c, P, S>> \in wrong PROVE m \in {"sort-mismatch", "verify-failed"}
    OBVIOUS
  <2>1. PICK n, d, b, t :
          \/ <<m, c, P, S>> = <<"parent-mismatch", d, b>>
          \/ n \in {"sort-mismatch", "verify-failed"} /\ <<m, c, P, S>> = <<n, d, b, t>>
    BY <1>4
  <2>2. n \in {"sort-mismatch", "verify-failed"} /\ <<m, c, P, S>> = <<n, d, b, t>>
    BY <1>5, <2>1
  <2>. QED  BY <2>2
<1>8. \A m : m \in status[r] <=> <<m, c, P>> \in wrong \/ <<m, c, P, S>> \in wrong
  BY <1>3, <1>6, <1>7
<1>9. IsValid(r, phase) <=> \A m \in PhaseMarkers(phase) : m \notin status[r]
  BY DEF IsValid
<1>. QED  BY <1>1, <1>2, <1>8, <1>9 DEF WentWrong

\* And whatever goes wrong, deltas are given for the rows that were right in every
\* pass and whose baseline was so too, and for no other.
THEOREM ComparisonsAreAlwaysFair == RunSpec => []ComparisonsAreFair
<1>1. RunInv => ComparisonsAreFair
  <2> SUFFICES ASSUME RunInv, stage = "done", NEW r \in DOMAIN case, NEW phase \in Phases
               PROVE  LET isOk(q) == ~WentWrong(r, phase) /\ ~WentWrong(q, phase)
                      IN  IF IsCompared(phase)
                            THEN \E q \in DOMAIN case :
                                   /\ IsBaselineFor(q, r, phase)
                                   /\ comparison[r][phase] = "ok" <=> q # r /\ isOk(q)
                                   /\ q # r => (available[r][phase] <=> isOk(q))
                            ELSE comparison[r][phase] = "none" /\ ~available[r][phase]
    BY DEF ComparisonsAreFair
  <2>1. Coordinates /\ DOMAIN case = Rows
    BY CoordinatesAlways DEF RunInv, TableOK
  <2>2. PICK c \in Sets, p \in Builders, s \in Sorters : r = Row(c, p, s)
    <3>1. \A q \in Rows : \E c \in Sets, p \in Builders, s \in Sorters : q = Row(c, p, s)
      BY <2>1 DEF Coordinates
    <3>. QED  BY <2>1, <3>1
  <2>3. ASSUME NEW a \in Builders, NEW u \in Sorters, Row(c, a, u) = Row(c, p, s)
        PROVE  a = p /\ u = s
    BY <2>1, <2>2, <2>3, RowsAreDistinct
  <2>4. ComparedOK(c, p, s, phase) /\ c \notin waiting /\ ~IsRun(c)
    BY DEF RunInv, FairOK, ProgressOK, IsRun, Running
  <2>5. CASE ~IsCompared(phase)
    BY <2>2, <2>4, <2>5 DEF ComparedOK
  <2>6. CASE IsCompared(phase)
    <3>1. PICK b, t : b = BaseBuilder(p, phase) /\ t = BaseSorter(s, phase)
      OBVIOUS
    <3>2. /\ b \in Builders /\ t \in Sorters
          /\ Parents[b + 1] = IF phase = "sort" THEN Parents[p + 1] ELSE baseline["parents"]
          /\ Sorts[t + 1] = IF phase = "parent" THEN Sorts[s + 1] ELSE baseline["sorts"]
      BY <2>1, <2>6, <3>1, BaseRowIsThere DEF RunInv
    <3>3. PICK q : q = Row(c, b, t) /\ q = BaseRow(c, p, s, phase)
      BY <3>1 DEF BaseRow
    <3>4. q \in Rows
      <4>1. \A d \in Sets, a \in Builders, u \in Sorters : Row(d, a, u) \in Rows
        BY <2>1 DEF Coordinates
      <4>. QED  BY <3>2, <3>3, <4>1
    <3>5. IsBaselineFor(q, r, phase)
      <4>1. case[q] = [context |-> c, parent |-> Parents[b + 1], sort |-> Sorts[t + 1]]
        BY <3>2, <3>3 DEF RunInv, TableOK
      <4>2. case[r] = [context |-> c, parent |-> Parents[p + 1], sort |-> Sorts[s + 1]]
        BY <2>2 DEF RunInv, TableOK
      <4>3. /\ case[q].context = c /\ case[q].parent = Parents[b + 1] /\ case[q].sort = Sorts[t + 1]
            /\ case[r].context = c /\ case[r].parent = Parents[p + 1] /\ case[r].sort = Sorts[s + 1]
        BY <4>1, <4>2
      <4>. QED  BY <3>2, <4>3 DEF IsBaselineFor
    <3>6. /\ IsValid(r, phase) <=> ~WentWrong(r, phase)
          /\ IsValid(q, phase) <=> ~WentWrong(q, phase)
      BY <2>1, <2>2, <3>2, <3>3, ValidIsRight
    <3>7. Compared(r, q, phase) = "ok" <=> q # r /\ IsValid(r, phase) /\ IsValid(q, phase)
      BY DEF Compared
    <3>8. comparison[r][phase] = Compared(r, q, phase)
      BY <2>2, <2>4, <2>6, <3>3 DEF ComparedOK
    <3>9. available[r][phase] <=> IsShown(c, p, s, phase)
      BY <2>2, <2>4, <2>6 DEF ComparedOK
    <3>10. ASSUME q # r PROVE IsShown(c, p, s, phase) <=> Compared(r, q, phase) = "ok"
      <4>1. ASSUME NEW a \in Builders, NEW u \in Sorters, r = BaseRow(c, a, u, phase)
            PROVE  FALSE
        <5>1. BaseBuilder(a, phase) \in Builders /\ BaseSorter(u, phase) \in Sorters
          BY <2>1, <2>6, BaseRowIsThere DEF RunInv
        <5>2. p = BaseBuilder(a, phase) /\ s = BaseSorter(u, phase)
          <6>1. Row(c, BaseBuilder(a, phase), BaseSorter(u, phase)) = Row(c, p, s)
            BY <2>2, <4>1 DEF BaseRow
          <6>. QED  BY <2>3, <5>1, <6>1
        <5>3. b = p /\ t = s
          BY <3>1, <5>2 DEF BaseBuilder, BaseSorter
        <5>. QED  BY <2>2, <3>3, <3>10, <5>3
      <4>2. ASSUME NEW a \in Builders, NEW u \in Sorters, r = Row(c, a, u)
            PROVE  Compared(Row(c, a, u), BaseRow(c, a, u, phase), phase) = Compared(r, q, phase)
        <5>1. a = p /\ u = s
          <6>1. Row(c, a, u) = Row(c, p, s)
            BY <2>2, <4>2
          <6>. QED  BY <2>3, <6>1
        <5>. QED  BY <2>2, <3>3, <5>1
      <4>. QED  BY <2>2, <4>1, <4>2 DEF IsShown
    <3>. QED  BY <2>1, <2>6, <3>4, <3>5, <3>6, <3>7, <3>8, <3>9, <3>10
  <2>. QED  BY <2>5, <2>6
<1>. QED  BY <1>1, RunInvHolds, PTL

-----------------------------------------------------------------------------
(* The tail benchmark: only what passed the oracle is timed. *)

TailCorpora == 0 .. Corpora - 1
TailRows == 0 .. Corpora * Len(algorithms) - 1
IsTailRun(c) == stage \in {"verify", "time", "deltas"} /\ c = corpus

TailOptionsOK ==
  /\ algorithms \in Seq(Registered) /\ algorithms # <<>>
  /\ IsInjective(algorithms) /\ Contains(algorithms, baseline)

TailProgressOK ==
  /\ stage \in {"corpus", "verify", "time", "deltas", "done", "failed"}
  /\ waiting \subseteq TailCorpora /\ DOMAIN kind = TailCorpora
  /\ stage \in {"verify", "time", "deltas"} => corpus \in TailCorpora /\ corpus \notin waiting /\ kind[corpus] \in Kinds
  /\ stage \in {"verify", "time"} => schedule \subseteq Schedule
  /\ stage = "time" => pass \in 0 .. Warmup + Iterations - 1 /\ ~kind[corpus].isEmpty
  /\ stage = "done" => waiting = {}

\* Whether an algorithm was held against the oracle, and how many of its
\* samples on the corpus have been recorded.
IsVerified(c, a) == c \notin waiting /\ ~(stage = "verify" /\ c = corpus /\ a \in schedule)
TimedCount(c, a) ==
  IF c \in waiting \/ (stage = "verify" /\ c = corpus) THEN 0
  ELSE IF stage = "time" /\ c = corpus
    THEN IF a \in schedule THEN CountBefore(pass) ELSE CountBefore(pass + 1)
  ELSE Iterations

Measured(c, name, n) == [k \in 1 .. Iterations |-> IF k <= n THEN <<c, name, Warmup + k - 1>> ELSE Unset]

\* A row is as initialized until the oracle has spoken; then it has a sample
\* for each recorded pass, or none at all.
MayBeTimed(c, a) == IsVerified(c, a) => PassesOracle(c, algorithms[a + 1])
TailRowOK(c, a) ==
  /\ status[RowOf(c, a)] = "ok" <=> MayBeTimed(c, a)
  /\ samples[RowOf(c, a)] =
       IF MayBeTimed(c, a) THEN Measured(c, algorithms[a + 1], TimedCount(c, a)) ELSE <<>>

TailRowsOK ==
  /\ DOMAIN samples = TailRows /\ DOMAIN status = TailRows /\ DOMAIN hasDelta = TailRows
  /\ stage # "failed" => \A c \in TailCorpora, a \in Schedule : TailRowOK(c, a)

\* What the comparison of a corpus shows of an algorithm.
IsTailCompared(c, name) ==
  /\ PassesOracle(c, name) /\ PassesOracle(c, baseline)
  /\ name # baseline \/ \E other \in ToSet(algorithms) \ {baseline} : PassesOracle(c, other)

DeltasOK ==
  stage # "failed" => \A c \in TailCorpora, a \in Schedule :
    hasDelta[RowOf(c, a)] <=> c \notin waiting /\ ~IsTailRun(c) /\ IsTailCompared(c, algorithms[a + 1])

TailInv == TailOptionsOK /\ TailProgressOK /\ TailRowsOK /\ DeltasOK

\* The rows are apart, and the baseline is among them.
LEMMA TailRowsApart ==
  ASSUME TailOptionsOK
  PROVE  /\ Len(algorithms) \in Nat \ {0} /\ DOMAIN algorithms = 1 .. Len(algorithms)
         /\ Schedule = 0 .. Len(algorithms) - 1
         /\ \A c \in TailCorpora, a \in Schedule : RowOf(c, a) \in TailRows
         /\ \A c, d \in TailCorpora, a, b \in Schedule : RowOf(c, a) = RowOf(d, b) => c = d /\ a = b
         /\ BaselineAlgorithm \in Schedule /\ algorithms[BaselineAlgorithm + 1] = baseline
         /\ \A a, b \in Schedule : algorithms[a + 1] = algorithms[b + 1] => a = b
         /\ \A name : name \in ToSet(algorithms) <=> \E a \in Schedule : name = algorithms[a + 1]
<1>1. Len(algorithms) \in Nat \ {0} /\ DOMAIN algorithms = 1 .. Len(algorithms)
  BY LenProperties, EmptySeq DEF TailOptionsOK
<1>2. Schedule = 0 .. Len(algorithms) - 1
  BY DEF Schedule
<1>3. \A i \in 1 .. Len(algorithms) : i - 1 \in Schedule /\ (i - 1) + 1 = i
  BY <1>1, <1>2
<1>4. \A a \in Schedule : a \in Nat /\ a + 1 \in DOMAIN algorithms
  BY <1>1, <1>2
<1>5. PICK n \in Nat \ {0} : n = Len(algorithms)
  BY <1>1
<1>6. \A c \in TailCorpora, a \in Schedule :
        RowOf(c, a) = n * c + a /\ c \in Nat /\ a \in 0 .. n - 1 /\ c <= Corpora - 1
  BY <1>2, <1>5, TailAssumption DEF RowOf, TailCorpora
<1>7. \A c \in TailCorpora, a \in Schedule : RowOf(c, a) \in TailRows
  <2> SUFFICES ASSUME NEW c \in TailCorpora, NEW a \in Schedule PROVE RowOf(c, a) \in TailRows
    OBVIOUS
  <2>1. RowOf(c, a) = n * c + a /\ c \in Nat /\ a \in 0 .. n - 1 /\ c <= Corpora - 1
    BY <1>6
  <2>2. PICK d \in Nat : Corpora = c + 1 + d
    BY <2>1, TailAssumption
  <2>3. Corpora * n = n * c + n + n * d /\ n * d \in Nat /\ n * c \in Nat
    BY <2>1, <2>2
  <2>4. n * c + a \in 0 .. Corpora * n - 1
    BY <2>1, <2>3
  <2>. QED  BY <1>5, <2>1, <2>4 DEF TailRows
<1>8. ASSUME NEW c \in TailCorpora, NEW d \in TailCorpora, NEW a \in Schedule, NEW b \in Schedule,
             RowOf(c, a) = RowOf(d, b)
      PROVE  c = d /\ a = b
  <2>1. (n * c + a) \div n = c /\ (n * c + a) % n = a
    BY <1>6, QuotientIs
  <2>2. (n * d + b) \div n = d /\ (n * d + b) % n = b
    BY <1>6, QuotientIs
  <2>3. n * c + a = n * d + b
    BY <1>6, <1>8
  <2>. QED  BY <2>1, <2>2, <2>3, Zenon
<1>9. BaselineAlgorithm \in Schedule /\ algorithms[BaselineAlgorithm + 1] = baseline
  <2>1. PICK i \in 1 .. Len(algorithms) : algorithms[i] = baseline
    BY DEF TailOptionsOK, Contains
  <2>2. \E a \in Schedule : algorithms[a + 1] = baseline
    BY <2>1, <1>3
  <2>. QED  BY <2>2, Zenon DEF BaselineAlgorithm
<1>10. \A a, b \in Schedule : algorithms[a + 1] = algorithms[b + 1] => a = b
  <2> SUFFICES ASSUME NEW a \in Schedule, NEW b \in Schedule, algorithms[a + 1] = algorithms[b + 1]
               PROVE  a = b
    OBVIOUS
  <2>1. a + 1 = b + 1
    BY <1>4 DEF TailOptionsOK, IsInjective
  <2>. QED  BY <2>1, <1>4
<1>11. \A name : name \in ToSet(algorithms) <=> \E a \in Schedule : name = algorithms[a + 1]
  BY <1>1, <1>3, <1>4 DEF ToSet
<1>. QED  BY <1>1, <1>2, <1>7, <1>8, <1>9, <1>10, <1>11

SameAlgorithms ==
  /\ algorithms' = algorithms /\ baseline' = baseline /\ Schedule' = Schedule /\ TailRows' = TailRows
  /\ TailOptionsOK' = TailOptionsOK
  /\ \A c, a : RowOf(c, a)' = RowOf(c, a)

LEMMA AlgorithmsStay == ASSUME UNCHANGED tailOptions PROVE SameAlgorithms
<1>1. algorithms' = algorithms /\ baseline' = baseline
  BY DEF tailOptions
<1>2. Schedule' = Schedule /\ TailRows' = TailRows /\ TailOptionsOK' = TailOptionsOK
  BY <1>1 DEF Schedule, TailRows, TailOptionsOK
<1>3. \A c, a : RowOf(c, a)' = RowOf(c, a)
  BY <1>1 DEF RowOf
<1>. QED  BY <1>1, <1>2, <1>3 DEF SameAlgorithms

\* A row that is not written.
LEMMA TailRowStays ==
  ASSUME SameAlgorithms, NEW c, NEW a, TailRowOK(c, a),
         samples'[RowOf(c, a)] = samples[RowOf(c, a)], status'[RowOf(c, a)] = status[RowOf(c, a)],
         MayBeTimed(c, a)' <=> MayBeTimed(c, a),
         MayBeTimed(c, a) => TimedCount(c, a)' = TimedCount(c, a)
  PROVE  TailRowOK(c, a)'
BY Zenon DEF TailRowOK, SameAlgorithms, Measured

\* A corpus that was looked at stays what it is.
LEMMA OracleStays ==
  ASSUME SameAlgorithms, NEW c, kind'[c] = kind[c]
  PROVE  /\ \A name : PassesOracle(c, name)' <=> PassesOracle(c, name)
         /\ \A a : (IsVerified(c, a)' <=> IsVerified(c, a)) => (MayBeTimed(c, a)' <=> MayBeTimed(c, a))
         /\ \A name : IsTailCompared(c, name)' <=> IsTailCompared(c, name)
<1>1. \A name : PassesOracle(c, name)' <=> PassesOracle(c, name)
  BY DEF PassesOracle
<1>. QED  BY <1>1 DEF SameAlgorithms, MayBeTimed, IsTailCompared

\* parseOptions and initializeCorpusDescriptors.
LEMMA InitTailInv == ASSUME TailInit PROVE TailInv
<1>1. PICK chosen \in Selections : algorithms = AppendUnique(chosen, baseline)
  BY DEF TailInit
<1>2. PICK n \in Nat : chosen \in [1 .. n -> Registered] /\ IsInjective(chosen)
  <2>1. Cardinality(Registered) \in Nat
    BY TailAssumption, FS_CardinalityType
  <2>. QED  BY <2>1 DEF Selections
<1>3. chosen \in Seq(Registered) /\ baseline \in Registered
  BY <1>2, SeqDef DEF TailInit
<1>4. TailOptionsOK
  BY <1>1, <1>2, <1>3, AppendUniqueAdds DEF TailOptionsOK
<1>5. /\ stage = "corpus" /\ waiting = TailCorpora /\ DOMAIN kind = TailCorpora
      /\ samples = [r \in TailRows |-> [k \in 1 .. Iterations |-> Unset]]
      /\ status = [r \in TailRows |-> "ok"] /\ hasDelta = [r \in TailRows |-> FALSE]
  BY DEF TailInit, TailCorpora, TailRows
<1>6. TailProgressOK
  BY <1>5 DEF TailProgressOK
<1>7. ASSUME NEW c \in TailCorpora, NEW a \in Schedule PROVE TailRowOK(c, a)
  <2>1. RowOf(c, a) \in TailRows
    BY <1>4, TailRowsApart
  <2>2. MayBeTimed(c, a) /\ TimedCount(c, a) = 0
    BY <1>5 DEF MayBeTimed, IsVerified, TimedCount
  <2>3. Measured(c, algorithms[a + 1], 0) = [k \in 1 .. Iterations |-> Unset]
    BY PassesAssumption DEF Measured
  <2>. QED  BY <1>5, <2>1, <2>2, <2>3 DEF TailRowOK
<1>8. TailRowsOK
  BY <1>5, <1>7 DEF TailRowsOK
<1>9. DeltasOK
  BY <1>4, <1>5, TailRowsApart DEF DeltasOK
<1>. QED  BY <1>4, <1>6, <1>8, <1>9 DEF TailInv

\* A corpus is begun: none of its algorithms was held against the oracle.
LEMMA MaterializeKeepsTailInv == ASSUME TailInv, MaterializeCorpus PROVE TailInv'
<1>1. PICK now \in waiting, k \in Kinds :
        corpus' = now /\ waiting' = waiting \ {now} /\ kind' = [kind EXCEPT ![now] = k]
  BY DEF MaterializeCorpus
<1>2. /\ stage = "corpus" /\ stage' = "verify" /\ schedule' = Schedule
      /\ UNCHANGED tailOptions /\ samples' = samples /\ status' = status /\ hasDelta' = hasDelta
  BY DEF MaterializeCorpus, tailResults
<1>3. SameAlgorithms /\ TailOptionsOK'
  BY <1>2, AlgorithmsStay DEF TailInv, SameAlgorithms
<1>4. waiting \subseteq TailCorpora /\ DOMAIN kind = TailCorpora
  BY DEF TailInv, TailProgressOK
<1>5. TailProgressOK'
  BY <1>1, <1>2, <1>3, <1>4 DEF TailProgressOK, SameAlgorithms, TailCorpora
<1>6. ASSUME NEW c \in TailCorpora, NEW a \in Schedule PROVE TailRowOK(c, a)'
  <2>1. TailRowOK(c, a)
    BY <1>2 DEF TailInv, TailRowsOK
  <2>2. CASE c = now
    <3>1. MayBeTimed(c, a) /\ MayBeTimed(c, a)' /\ TimedCount(c, a) = 0 /\ TimedCount(c, a)' = 0
      BY <1>1, <1>2, <2>2 DEF MayBeTimed, IsVerified, TimedCount
    <3>. QED  BY <1>2, <1>3, <2>1, <3>1, TailRowStays
  <2>3. CASE c # now
    <3>1. kind'[c] = kind[c]
      BY <1>1, <1>4, <2>3
    <3>2. (IsVerified(c, a)' <=> IsVerified(c, a)) /\ TimedCount(c, a)' = TimedCount(c, a)
      BY <1>1, <1>2, <2>3 DEF IsVerified, TimedCount
    <3>3. MayBeTimed(c, a)' <=> MayBeTimed(c, a)
      BY <1>3, <3>1, <3>2, OracleStays
    <3>. QED  BY <1>2, <1>3, <2>1, <3>2, <3>3, TailRowStays
  <2>. QED  BY <2>2, <2>3
<1>7. TailRowsOK'
  BY <1>2, <1>3, <1>6 DEF TailInv, TailRowsOK, SameAlgorithms
<1>8. ASSUME NEW c \in TailCorpora, NEW a \in Schedule
      PROVE  (c \notin waiting /\ ~IsTailRun(c) /\ IsTailCompared(c, algorithms[a + 1]))' <=>
               c \notin waiting /\ ~IsTailRun(c) /\ IsTailCompared(c, algorithms[a + 1])
  <2>1. CASE c = now
    BY <1>1, <1>2, <2>1 DEF IsTailRun
  <2>2. CASE c # now
    <3>1. kind'[c] = kind[c]
      BY <1>1, <1>4, <2>2
    <3>2. IsTailCompared(c, algorithms[a + 1])' <=> IsTailCompared(c, algorithms[a + 1])
      BY <1>3, <3>1, OracleStays DEF SameAlgorithms
    <3>. QED  BY <1>1, <1>2, <2>2, <3>2 DEF IsTailRun
  <2>. QED  BY <2>1, <2>2
<1>9. DeltasOK'
  BY <1>2, <1>3, <1>8 DEF TailInv, DeltasOK, SameAlgorithms
<1>. QED  BY <1>3, <1>5, <1>7, <1>9 DEF TailInv

\* No row of another corpus is touched, and no delta given.
LEMMA DeltasStay ==
  ASSUME TailInv, SameAlgorithms, stage \in {"verify", "time"}, stage' \in {"verify", "time", "deltas"},
         UNCHANGED <<corpus, waiting, kind, hasDelta>>
  PROVE  DeltasOK'
<1>1. \A c : IsTailRun(c)' <=> IsTailRun(c)
  BY DEF IsTailRun
<1>2. \A c, name : IsTailCompared(c, name)' <=> IsTailCompared(c, name)
  BY OracleStays
<1>3. \A c \in TailCorpora, a \in Schedule :
        hasDelta[RowOf(c, a)] <=> c \notin waiting /\ ~IsTailRun(c) /\ IsTailCompared(c, algorithms[a + 1])
  BY DEF TailInv, DeltasOK
<1>. QED  BY <1>1, <1>2, <1>3 DEF DeltasOK, SameAlgorithms

\* What a step on one corpus leaves of the others.
LEMMA OtherCorporaStay ==
  ASSUME TailInv, SameAlgorithms, stage \in {"verify", "time", "deltas"}, stage' # "failed",
         UNCHANGED <<corpus, waiting, kind>>,
         NEW c \in TailCorpora, c # corpus, NEW a \in Schedule,
         samples'[RowOf(c, a)] = samples[RowOf(c, a)], status'[RowOf(c, a)] = status[RowOf(c, a)]
  PROVE  TailRowOK(c, a)'
<1>1. TailRowOK(c, a)
  BY DEF TailInv, TailRowsOK
<1>2. (IsVerified(c, a)' <=> IsVerified(c, a)) /\ TimedCount(c, a)' = TimedCount(c, a)
  BY DEF IsVerified, TimedCount
<1>3. MayBeTimed(c, a)' <=> MayBeTimed(c, a)
  BY <1>2, OracleStays
<1>. QED  BY <1>1, <1>2, <1>3, TailRowStays

\* verifySorterOnCorpus: the row of one algorithm.
LEMMA VerifyKeepsTailInv == ASSUME TailInv, Verify PROVE TailInv'
<1>1. PICK v \in schedule :
        /\ schedule' = schedule \ {v}
        /\ status' = [status EXCEPT ![RowOf(corpus, v)] = Verdict(v)]
        /\ samples' = [samples EXCEPT ![RowOf(corpus, v)] = IF Verdict(v) = "ok" THEN @ ELSE <<>>]
  BY DEF Verify
<1>2. stage = "verify" /\ stage' = "verify" /\ UNCHANGED <<tailOptions, waiting, corpus, kind, pass, hasDelta>>
  BY DEF Verify
<1>3. SameAlgorithms /\ TailOptionsOK'
  BY <1>2, AlgorithmsStay DEF TailInv, SameAlgorithms
<1>4. /\ corpus \in TailCorpora /\ corpus \notin waiting /\ kind[corpus] \in Kinds /\ schedule \subseteq Schedule
      /\ DOMAIN samples = TailRows /\ DOMAIN status = TailRows /\ TailOptionsOK
  BY <1>2 DEF TailInv, TailProgressOK, TailRowsOK
<1>5. TailProgressOK'
  BY <1>1, <1>2, <1>3 DEF TailInv, TailProgressOK, SameAlgorithms
<1>6. RowOf(corpus, v) \in TailRows
  BY <1>1, <1>4, TailRowsApart
<1>7. ASSUME NEW c \in TailCorpora, NEW a \in Schedule PROVE TailRowOK(c, a)'
  <2>1. TailRowOK(c, a)
    BY <1>2 DEF TailInv, TailRowsOK
  <2>2. CASE c = corpus /\ a = v
    <3>1. MayBeTimed(c, a) /\ ~IsVerified(c, a) /\ IsVerified(c, a)'
      BY <1>1, <1>2, <1>4, <2>2 DEF MayBeTimed, IsVerified
    <3>2. TimedCount(c, a) = 0 /\ TimedCount(c, a)' = 0
      BY <1>2, <2>2 DEF TimedCount
    <3>3. PassesOracle(c, algorithms[a + 1])' <=> PassesOracle(c, algorithms[a + 1])
      BY <1>2, <1>3, OracleStays DEF SameAlgorithms
    <3>4. MayBeTimed(c, a)' <=> PassesOracle(c, algorithms[a + 1])
      BY <1>3, <3>1, <3>3 DEF MayBeTimed, SameAlgorithms
    <3>5. Verdict(v) = "ok" <=> PassesOracle(c, algorithms[a + 1])
      BY <1>4, <2>2 DEF Verdict, PassesOracle, Kinds
    <3>6. /\ status'[RowOf(c, a)] = Verdict(v)
          /\ samples'[RowOf(c, a)] = IF Verdict(v) = "ok" THEN samples[RowOf(c, a)] ELSE <<>>
      BY <1>1, <1>4, <1>6, <2>2
    <3>7. samples[RowOf(c, a)] = Measured(c, algorithms[a + 1], 0)
      BY <2>1, <3>1, <3>2 DEF TailRowOK
    <3>8. /\ status'[RowOf(c, a)] = "ok" <=> MayBeTimed(c, a)'
          /\ samples'[RowOf(c, a)] =
               IF MayBeTimed(c, a)' THEN Measured(c, algorithms[a + 1], TimedCount(c, a)') ELSE <<>>
      BY <3>2, <3>4, <3>5, <3>6, <3>7
    <3>. QED  BY <1>3, <3>8 DEF TailRowOK, SameAlgorithms, Measured
  <2>3. CASE ~(c = corpus /\ a = v)
    <3>1. RowOf(c, a) # RowOf(corpus, v)
      BY <1>1, <1>4, <2>3, TailRowsApart
    <3>2. samples'[RowOf(c, a)] = samples[RowOf(c, a)] /\ status'[RowOf(c, a)] = status[RowOf(c, a)]
      <4>1. RowOf(c, a) \in TailRows
        BY <1>4, TailRowsApart
      <4>. QED  BY <1>1, <1>4, <3>1, <4>1
    <3>3. (IsVerified(c, a)' <=> IsVerified(c, a)) /\ TimedCount(c, a)' = TimedCount(c, a)
      BY <1>1, <1>2, <2>3 DEF IsVerified, TimedCount
    <3>4. MayBeTimed(c, a)' <=> MayBeTimed(c, a)
      BY <1>2, <1>3, <3>3, OracleStays
    <3>. QED  BY <1>3, <2>1, <3>2, <3>3, <3>4, TailRowStays
  <2>. QED  BY <2>2, <2>3
<1>8. DOMAIN samples' = TailRows /\ DOMAIN status' = TailRows
  BY <1>1, <1>4
<1>9. TailRowsOK'
  BY <1>2, <1>3, <1>7, <1>8 DEF TailInv, TailRowsOK, SameAlgorithms
<1>10. DeltasOK'
  BY <1>2, <1>3, DeltasStay
<1>. QED  BY <1>3, <1>5, <1>9, <1>10 DEF TailInv

\* The oracle has spoken; an empty corpus is not timed.
LEMMA BeginPassesKeepsTailInv == ASSUME TailInv, BeginPasses PROVE TailInv'
<1>1. /\ stage = "verify" /\ schedule = {} /\ pass' = 0
      /\ UNCHANGED <<tailOptions, waiting, corpus, kind, samples, status, hasDelta>>
      /\ \/ kind[corpus].isEmpty /\ stage' = "deltas"
         \/ ~kind[corpus].isEmpty /\ stage' = "time" /\ schedule' = Schedule
  BY DEF BeginPasses, tailResults
<1>2. SameAlgorithms /\ TailOptionsOK'
  BY <1>1, AlgorithmsStay DEF TailInv, SameAlgorithms
<1>3. corpus \in TailCorpora /\ corpus \notin waiting
  BY <1>1 DEF TailInv, TailProgressOK
<1>4. TailProgressOK'
  BY <1>1, <1>2, PassesAssumption DEF TailInv, TailProgressOK, SameAlgorithms
<1>5. ASSUME NEW c \in TailCorpora, NEW a \in Schedule PROVE TailRowOK(c, a)'
  <2>1. CASE c # corpus
    BY <1>1, <1>2, <2>1, OtherCorporaStay
  <2>2. CASE c = corpus
    <3>1. TailRowOK(c, a)
      BY <1>1 DEF TailInv, TailRowsOK
    <3>2. IsVerified(c, a) /\ IsVerified(c, a)'
      BY <1>1, <1>3, <2>2 DEF IsVerified
    <3>3. MayBeTimed(c, a)' <=> MayBeTimed(c, a)
      BY <1>1, <1>2, <3>2, OracleStays
    <3>4. ASSUME MayBeTimed(c, a) PROVE TimedCount(c, a)' = TimedCount(c, a)
      <4>1. ~kind[corpus].isEmpty
        BY <2>2, <3>2, <3>4 DEF MayBeTimed, PassesOracle
      <4>2. TimedCount(c, a) = 0 /\ TimedCount(c, a)' = CountBefore(0)
        BY <1>1, <1>2, <1>3, <2>2, <4>1 DEF TimedCount, CountBefore
      <4>. QED  BY <4>2, PassesAssumption DEF CountBefore
    <3>. QED  BY <1>1, <1>2, <3>1, <3>3, <3>4, TailRowStays
  <2>. QED  BY <2>1, <2>2
<1>6. TailRowsOK'
  BY <1>1, <1>2, <1>5 DEF TailInv, TailRowsOK, SameAlgorithms
<1>7. DeltasOK'
  BY <1>1, <1>2, DeltasStay
<1>. QED  BY <1>2, <1>4, <1>6, <1>7 DEF TailInv

\* A recorded pass adds the sample that comes next.
LEMMA MeasuredNext ==
  ASSUME NEW c, NEW name, NEW n \in 0 .. Warmup + Iterations - 1
  PROVE  Measured(c, name, CountBefore(n + 1)) =
           IF SampleOf(n) # 0
             THEN [Measured(c, name, CountBefore(n)) EXCEPT ![SampleOf(n)] = <<c, name, n>>]
             ELSE Measured(c, name, CountBefore(n))
<1>1. Warmup \in Nat /\ Iterations \in Nat \ {0} /\ n \in Nat
  BY PassesAssumption
<1>2. CASE n >= Warmup
  <2>1. PICK k \in 1 .. Iterations : k = SampleOf(n) /\ n = Warmup + k - 1
    BY <1>1, <1>2 DEF SampleOf
  <2>2. CountBefore(n) = k - 1 /\ CountBefore(n + 1) = k
    BY <1>1, <1>2, <2>1 DEF CountBefore
  <2>3. Measured(c, name, k) = [Measured(c, name, k - 1) EXCEPT ![k] = <<c, name, n>>]
    <3>1. \A i \in 1 .. Iterations : (i <= k <=> i <= k - 1 \/ i = k) /\ ~(k <= k - 1)
      BY <1>1, <2>1
    <3>. QED  BY <2>1, <3>1 DEF Measured
  <2>. QED  BY <2>1, <2>2, <2>3
<1>3. CASE ~(n >= Warmup)
  BY <1>1, <1>3 DEF SampleOf, CountBefore
<1>. QED  BY <1>2, <1>3

\* A timing of what passed the oracle.
LEMMA TimeKeepsTailInv == ASSUME TailInv, Time PROVE TailInv'
<1>1. PICK v \in schedule :
        /\ schedule' = schedule \ {v}
        /\ samples' = IF status[RowOf(corpus, v)] = "ok" /\ SampleOf(pass) # 0
                        THEN [samples EXCEPT ![RowOf(corpus, v)][SampleOf(pass)] = <<corpus, algorithms[v + 1], pass>>]
                        ELSE samples
  BY DEF Time
<1>2. stage = "time" /\ stage' = "time" /\ UNCHANGED <<tailOptions, waiting, corpus, kind, pass, status, hasDelta>>
  BY DEF Time
<1>3. SameAlgorithms /\ TailOptionsOK'
  BY <1>2, AlgorithmsStay DEF TailInv, SameAlgorithms
<1>4. /\ corpus \in TailCorpora /\ corpus \notin waiting /\ schedule \subseteq Schedule
      /\ pass \in 0 .. Warmup + Iterations - 1
      /\ DOMAIN samples = TailRows /\ DOMAIN status = TailRows /\ TailOptionsOK
  BY <1>2 DEF TailInv, TailProgressOK, TailRowsOK
<1>5. TailProgressOK'
  BY <1>1, <1>2, <1>3 DEF TailInv, TailProgressOK, SameAlgorithms
<1>6. RowOf(corpus, v) \in TailRows
  BY <1>1, <1>4, TailRowsApart
<1>7. ASSUME NEW c \in TailCorpora, NEW a \in Schedule PROVE TailRowOK(c, a)'
  <2>1. TailRowOK(c, a)
    BY <1>2 DEF TailInv, TailRowsOK
  <2>2. CASE c = corpus /\ a = v
    <3>1. IsVerified(c, a) /\ IsVerified(c, a)'
      BY <1>2, <1>4, <2>2 DEF IsVerified
    <3>2. MayBeTimed(c, a)' <=> MayBeTimed(c, a)
      BY <1>2, <1>3, <3>1, OracleStays
    <3>3. TimedCount(c, a) = CountBefore(pass) /\ TimedCount(c, a)' = CountBefore(pass + 1)
      BY <1>1, <1>2, <1>4, <2>2 DEF TimedCount, CountBefore
    <3>4. status'[RowOf(c, a)] = "ok" <=> MayBeTimed(c, a)'
      BY <1>2, <2>1, <3>2 DEF TailRowOK
    <3>5. CASE ~MayBeTimed(c, a)
      <4>1. samples'[RowOf(c, a)] = samples[RowOf(c, a)]
        BY <1>1, <2>1, <2>2, <3>5 DEF TailRowOK
      <4>. QED  BY <1>2, <1>3, <2>1, <3>2, <3>5, <4>1, TailRowStays
    <3>6. CASE MayBeTimed(c, a)
      <4>1. samples[RowOf(c, a)] = Measured(c, algorithms[a + 1], CountBefore(pass))
        BY <2>1, <3>3, <3>6 DEF TailRowOK
      <4>2. status[RowOf(c, a)] = "ok"
        BY <2>1, <3>6 DEF TailRowOK
      <4>3. samples'[RowOf(c, a)] =
              IF SampleOf(pass) # 0
                THEN [samples[RowOf(c, a)] EXCEPT ![SampleOf(pass)] = <<c, algorithms[a + 1], pass>>]
                ELSE samples[RowOf(c, a)]
        BY <1>1, <1>4, <1>6, <2>2, <4>2
      <4>4. samples'[RowOf(c, a)] = Measured(c, algorithms[a + 1], CountBefore(pass + 1))
        BY <1>4, <4>1, <4>3, MeasuredNext
      <4>5. samples'[RowOf(c, a)] =
              IF MayBeTimed(c, a)' THEN Measured(c, algorithms[a + 1], TimedCount(c, a)') ELSE <<>>
        BY <3>2, <3>3, <3>6, <4>4
      <4>. QED  BY <1>3, <3>4, <4>5 DEF TailRowOK, SameAlgorithms, Measured
    <3>. QED  BY <3>5, <3>6
  <2>3. CASE ~(c = corpus /\ a = v)
    <3>1. RowOf(c, a) # RowOf(corpus, v)
      BY <1>1, <1>4, <2>3, TailRowsApart
    <3>2. samples'[RowOf(c, a)] = samples[RowOf(c, a)] /\ status'[RowOf(c, a)] = status[RowOf(c, a)]
      <4>1. RowOf(c, a) \in TailRows
        BY <1>4, TailRowsApart
      <4>. QED  BY <1>1, <1>2, <1>4, <3>1, <4>1
    <3>3. (IsVerified(c, a)' <=> IsVerified(c, a)) /\ TimedCount(c, a)' = TimedCount(c, a)
      BY <1>1, <1>2, <2>3 DEF IsVerified, TimedCount
    <3>4. MayBeTimed(c, a)' <=> MayBeTimed(c, a)
      BY <1>2, <1>3, <3>3, OracleStays
    <3>. QED  BY <1>3, <2>1, <3>2, <3>3, <3>4, TailRowStays
  <2>. QED  BY <2>2, <2>3
<1>8. DOMAIN samples' = TailRows
  BY <1>1, <1>4
<1>9. TailRowsOK'
  BY <1>2, <1>3, <1>7, <1>8 DEF TailInv, TailRowsOK, SameAlgorithms
<1>10. DeltasOK'
  BY <1>2, <1>3, DeltasStay
<1>. QED  BY <1>3, <1>5, <1>9, <1>10 DEF TailInv

\* The next pass, or all samples are there.
LEMMA EndTailPassKeepsTailInv == ASSUME TailInv, EndTailPass PROVE TailInv'
<1>1. /\ stage = "time" /\ schedule = {}
      /\ UNCHANGED <<tailOptions, waiting, corpus, kind, samples, status, hasDelta>>
      /\ \/ /\ pass + 1 < Warmup + Iterations
            /\ pass' = pass + 1 /\ schedule' = Schedule /\ stage' = "time"
         \/ ~(pass + 1 < Warmup + Iterations) /\ stage' = "deltas"
  BY DEF EndTailPass, tailResults
<1>2. SameAlgorithms /\ TailOptionsOK'
  BY <1>1, AlgorithmsStay DEF TailInv, SameAlgorithms
<1>3. /\ corpus \in TailCorpora /\ corpus \notin waiting /\ pass \in 0 .. Warmup + Iterations - 1
      /\ Warmup \in Nat /\ Iterations \in Nat \ {0}
  BY <1>1, PassesAssumption DEF TailInv, TailProgressOK
<1>4. TailProgressOK'
  BY <1>1, <1>2, <1>3 DEF TailInv, TailProgressOK, SameAlgorithms
<1>5. ASSUME NEW c \in TailCorpora, NEW a \in Schedule PROVE TailRowOK(c, a)'
  <2>1. CASE c # corpus
    BY <1>1, <1>2, <2>1, OtherCorporaStay
  <2>2. CASE c = corpus
    <3>1. TailRowOK(c, a)
      BY <1>1 DEF TailInv, TailRowsOK
    <3>2. IsVerified(c, a) /\ IsVerified(c, a)'
      BY <1>1, <1>3, <2>2 DEF IsVerified
    <3>3. MayBeTimed(c, a)' <=> MayBeTimed(c, a)
      BY <1>1, <1>2, <3>2, OracleStays
    <3>4. TimedCount(c, a) = CountBefore(pass + 1)
      BY <1>1, <1>3, <2>2 DEF TimedCount
    <3>5. CASE pass + 1 < Warmup + Iterations
      <4>1. pass' = pass + 1 /\ stage' = "time" /\ a \in schedule'
        BY <1>1, <3>5
      <4>2. TimedCount(c, a)' = CountBefore(pass + 1)
        BY <1>1, <1>3, <2>2, <4>1 DEF TimedCount, CountBefore
      <4>. QED  BY <1>1, <1>2, <3>1, <3>3, <3>4, <4>2, TailRowStays
    <3>6. CASE ~(pass + 1 < Warmup + Iterations)
      <4>1. stage' = "deltas" /\ CountBefore(pass + 1) = Iterations
        BY <1>1, <1>3, <3>6 DEF CountBefore
      <4>2. TimedCount(c, a)' = Iterations
        BY <1>1, <1>3, <2>2, <4>1 DEF TimedCount
      <4>. QED  BY <1>1, <1>2, <3>1, <3>3, <3>4, <4>1, <4>2, TailRowStays
    <3>. QED  BY <3>5, <3>6
  <2>. QED  BY <2>1, <2>2
<1>6. TailRowsOK'
  BY <1>1, <1>2, <1>5 DEF TailInv, TailRowsOK, SameAlgorithms
<1>7. DeltasOK'
  BY <1>1, <1>2, DeltasStay
<1>. QED  BY <1>2, <1>4, <1>6, <1>7 DEF TailInv

\* applyCorpusDeltas: the rows compared are those that passed, if the baseline
\* did and is not alone.
LEMMA ApplyDeltasKeepsTailInv == ASSUME TailInv, ApplyDeltas PROVE TailInv'
<1>1. /\ stage = "deltas" /\ stage' = IF waiting = {} THEN "done" ELSE "corpus"
      /\ hasDelta' = [r \in DOMAIN hasDelta |->
           hasDelta[r] \/ r \in ComparedRows \/ (r = RowOfBaseline /\ ComparedRows # {})]
      /\ UNCHANGED <<tailOptions, waiting, corpus, kind, schedule, pass, samples, status>>
  BY DEF ApplyDeltas
<1>2. SameAlgorithms /\ TailOptionsOK /\ TailOptionsOK'
  BY <1>1, AlgorithmsStay DEF TailInv, SameAlgorithms
<1>3. corpus \in TailCorpora /\ corpus \notin waiting /\ DOMAIN hasDelta = TailRows
  BY <1>1 DEF TailInv, TailProgressOK, TailRowsOK
<1>4. TailProgressOK'
  BY <1>1, <1>2 DEF TailInv, TailProgressOK
<1>5. ASSUME NEW c \in TailCorpora, NEW a \in Schedule PROVE TailRowOK(c, a)'
  <2>1. TailRowOK(c, a)
    BY <1>1 DEF TailInv, TailRowsOK
  <2>2. (IsVerified(c, a)' <=> IsVerified(c, a)) /\ TimedCount(c, a)' = TimedCount(c, a)
    BY <1>1, <1>3 DEF IsVerified, TimedCount
  <2>3. MayBeTimed(c, a)' <=> MayBeTimed(c, a)
    BY <1>1, <1>2, <2>2, OracleStays
  <2>. QED  BY <1>1, <1>2, <2>1, <2>2, <2>3, TailRowStays
<1>6. TailRowsOK'
  BY <1>1, <1>2, <1>3, <1>5 DEF TailInv, TailRowsOK, SameAlgorithms
<1> DEFINE B == BaselineAlgorithm
<1>7. B \in Schedule /\ algorithms[B + 1] = baseline /\ RowOfBaseline = RowOf(corpus, B)
  BY <1>2, TailRowsApart DEF RowOfBaseline
<1>8. ASSUME NEW a \in Schedule
      PROVE  status[RowOf(corpus, a)] = "ok" <=> PassesOracle(corpus, algorithms[a + 1])
  <2>1. TailRowOK(corpus, a) /\ IsVerified(corpus, a)
    BY <1>1, <1>3 DEF TailInv, TailRowsOK, IsVerified
  <2>. QED  BY <2>1 DEF TailRowOK, MayBeTimed
<1>9. ASSUME NEW c \in TailCorpora, NEW a \in Schedule
      PROVE  RowOf(c, a) \in ComparedRows <=>
               /\ c = corpus /\ a # B
               /\ PassesOracle(corpus, baseline) /\ PassesOracle(corpus, algorithms[a + 1])
  <2>1. \A b \in Schedule : RowOf(c, a) = RowOf(corpus, b) <=> c = corpus /\ a = b
    BY <1>2, <1>3, TailRowsApart
  <2>2. RowOf(c, a) \in {RowOf(corpus, b) : b \in Schedule} <=> c = corpus
    BY <2>1
  <2>3. RowOf(c, a) = RowOfBaseline <=> c = corpus /\ a = B
    BY <1>7, <2>1
  <2>4. status[RowOfBaseline] = "ok" <=> PassesOracle(corpus, baseline)
    BY <1>7, <1>8
  <2>5. c = corpus => (status[RowOf(c, a)] = "ok" <=> PassesOracle(corpus, algorithms[a + 1]))
    BY <1>8
  <2>. QED  BY <2>2, <2>3, <2>4, <2>5 DEF ComparedRows
<1>10. ComparedRows # {} <=>
         /\ PassesOracle(corpus, baseline)
         /\ \E other \in ToSet(algorithms) \ {baseline} : PassesOracle(corpus, other)
  <2>1. ComparedRows # {} <=> \E a \in Schedule : RowOf(corpus, a) \in ComparedRows
    BY DEF ComparedRows
  <2>2. \A a \in Schedule : a # B <=> algorithms[a + 1] # baseline
    BY <1>2, <1>7, TailRowsApart
  <2>3. \A other \in ToSet(algorithms) : \E a \in Schedule : other = algorithms[a + 1]
    BY <1>2, TailRowsApart
  <2>4. \A a \in Schedule : algorithms[a + 1] \in ToSet(algorithms)
    BY <1>2, TailRowsApart
  <2>. QED  BY <1>3, <1>9, <2>1, <2>2, <2>3, <2>4
<1>11. ASSUME NEW c \in TailCorpora, NEW a \in Schedule
       PROVE  (hasDelta[RowOf(c, a)] <=> c \notin waiting /\ ~IsTailRun(c) /\ IsTailCompared(c, algorithms[a + 1]))'
  <2>1. RowOf(c, a) \in TailRows
    BY <1>2, TailRowsApart
  <2>2. hasDelta'[RowOf(c, a)] <=>
          hasDelta[RowOf(c, a)] \/ RowOf(c, a) \in ComparedRows \/ (RowOf(c, a) = RowOfBaseline /\ ComparedRows # {})
    BY <1>1, <1>3, <2>1
  <2>3. hasDelta[RowOf(c, a)] <=> c \notin waiting /\ ~IsTailRun(c) /\ IsTailCompared(c, algorithms[a + 1])
    BY <1>1 DEF TailInv, DeltasOK
  <2>4. ~IsTailRun(c)' /\ (IsTailRun(c) <=> c = corpus)
    BY <1>1 DEF IsTailRun
  <2>5. IsTailCompared(c, algorithms[a + 1])' <=> IsTailCompared(c, algorithms[a + 1])
    BY <1>1, <1>2, OracleStays DEF SameAlgorithms
  <2>6. RowOf(c, a) = RowOfBaseline <=> c = corpus /\ a = B
    BY <1>2, <1>3, <1>7, TailRowsApart
  <2>7. a # B <=> algorithms[a + 1] # baseline
    BY <1>2, <1>7, TailRowsApart
  <2>8. algorithms[a + 1] \in ToSet(algorithms)
    BY <1>2, TailRowsApart
  <2>9. c = corpus =>
          (IsTailCompared(c, algorithms[a + 1]) <=>
             RowOf(c, a) \in ComparedRows \/ (RowOf(c, a) = RowOfBaseline /\ ComparedRows # {}))
    BY <1>7, <1>9, <1>10, <2>6, <2>7, <2>8 DEF IsTailCompared
  <2>10. c # corpus => RowOf(c, a) \notin ComparedRows /\ RowOf(c, a) # RowOfBaseline
    BY <1>9, <2>6
  <2>. QED  BY <1>1, <1>2, <1>3, <2>2, <2>3, <2>4, <2>5, <2>9, <2>10 DEF SameAlgorithms
<1>12. DeltasOK'
  BY <1>2, <1>11 DEF DeltasOK, SameAlgorithms
<1>. QED  BY <1>2, <1>4, <1>6, <1>12 DEF TailInv

\* A run that fails reports nothing.
LEMMA TailFailureKeepsTailInv ==
  ASSUME TailInv, stage' = "failed",
         UNCHANGED <<tailOptions, waiting, corpus, kind, pass, schedule, tailResults>>
  PROVE  TailInv'
<1>1. SameAlgorithms /\ TailOptionsOK'
  BY AlgorithmsStay DEF TailInv, SameAlgorithms
<1>. QED  BY <1>1 DEF TailInv, TailProgressOK, TailRowsOK, DeltasOK, SameAlgorithms, tailResults

\* Nor does what the capture does concern the rows.
LEMMA CaptureKeepsTailInv == ASSUME TailInv, UNCHANGED tailVars PROVE TailInv'
<1>1. UNCHANGED <<tailOptions, stage, waiting, corpus, kind, pass, schedule, samples, status, hasDelta>>
  BY DEF tailVars, tailResults
<1>2. SameAlgorithms /\ TailOptionsOK'
  BY <1>1, AlgorithmsStay DEF TailInv, SameAlgorithms
<1>3. TailProgressOK'
  BY <1>1, <1>2 DEF TailInv, TailProgressOK, SameAlgorithms
<1>4. ASSUME stage # "failed", NEW c \in TailCorpora, NEW a \in Schedule PROVE TailRowOK(c, a)'
  <2>1. TailRowOK(c, a)
    BY <1>4 DEF TailInv, TailRowsOK
  <2>2. (IsVerified(c, a)' <=> IsVerified(c, a)) /\ TimedCount(c, a)' = TimedCount(c, a)
    BY <1>1 DEF IsVerified, TimedCount, CountBefore
  <2>3. MayBeTimed(c, a)' <=> MayBeTimed(c, a)
    BY <1>1, <1>2, <2>2, OracleStays
  <2>. QED  BY <1>1, <1>2, <2>1, <2>2, <2>3, TailRowStays
<1>5. TailRowsOK'
  BY <1>1, <1>2, <1>4 DEF TailInv, TailRowsOK, SameAlgorithms
<1>6. ASSUME stage # "failed", NEW c \in TailCorpora, NEW a \in Schedule
      PROVE  (hasDelta[RowOf(c, a)] <=> c \notin waiting /\ ~IsTailRun(c) /\ IsTailCompared(c, algorithms[a + 1]))'
  <2>1. hasDelta[RowOf(c, a)] <=> c \notin waiting /\ ~IsTailRun(c) /\ IsTailCompared(c, algorithms[a + 1])
    BY <1>6 DEF TailInv, DeltasOK
  <2>2. IsTailCompared(c, algorithms[a + 1])' <=> IsTailCompared(c, algorithms[a + 1])
    BY <1>1, <1>2, OracleStays DEF SameAlgorithms
  <2>. QED  BY <1>1, <1>2, <2>1, <2>2 DEF IsTailRun, SameAlgorithms
<1>7. DeltasOK'
  BY <1>1, <1>2, <1>6 DEF DeltasOK, SameAlgorithms
<1>. QED  BY <1>2, <1>3, <1>5, <1>7 DEF TailInv

\* Every step keeps the invariant.
LEMMA TailInvIsInductive == ASSUME TailInv, [BenchmarkNext]_benchmarkVars PROVE TailInv'
<1>1. CASE UNCHANGED tailVars
  BY <1>1, CaptureKeepsTailInv
<1>2. CASE CaptureStep \/ BenchmarkEnded \/ UNCHANGED benchmarkVars
  <2>1. UNCHANGED tailVars
    BY <1>2 DEF CaptureStep, BenchmarkEnded, TailFinished, benchmarkVars
  <2>. QED  BY <1>1, <2>1
<1>3. CASE CorpusReady
  BY <1>3, MaterializeKeepsTailInv DEF CorpusReady
<1>4. CASE CaptureFails
  BY <1>4, TailFailureKeepsTailInv DEF CaptureFails
<1>5. CASE RunStep
  <2>1. CASE Verify
    BY <2>1, VerifyKeepsTailInv
  <2>2. CASE BeginPasses
    BY <2>2, BeginPassesKeepsTailInv
  <2>3. CASE Time
    BY <2>3, TimeKeepsTailInv
  <2>4. CASE EndTailPass
    BY <2>4, EndTailPassKeepsTailInv
  <2>5. CASE ApplyDeltas
    BY <2>5, ApplyDeltasKeepsTailInv
  <2>6. CASE ZeroTailBaseline
    BY <2>6, TailFailureKeepsTailInv DEF ZeroTailBaseline
  <2>. QED  BY <1>5, <2>1, <2>2, <2>3, <2>4, <2>5, <2>6 DEF RunStep
<1>. QED  BY <1>2, <1>3, <1>4, <1>5 DEF BenchmarkNext

\* In every run of the tail benchmark, for every number of corpora, algorithms
\* and passes, an algorithm has its samples, of the recorded passes over that
\* corpus, just where it passed the oracle, and is compared just where the
\* baseline passed too.
THEOREM OnlyVerifiedRowsAreEverTimed == BenchmarkSpec => []OnlyVerifiedRowsAreTimed
<1>1. BenchmarkInit => TailInv
  BY InitTailInv DEF BenchmarkInit
<1>2. TailInv /\ [BenchmarkNext]_benchmarkVars => TailInv'
  BY TailInvIsInductive
<1>3. TailInv => OnlyVerifiedRowsAreTimed
  <2> SUFFICES ASSUME TailInv, stage = "done", NEW c \in TailCorpora, NEW a \in Schedule
               PROVE  LET name == algorithms[a + 1]
                          row == RowOf(c, a)
                          passes(other) == PassesOracle(c, other)
                      IN  /\ status[row] = "ok" <=> passes(name)
                          /\ samples[row] = IF passes(name)
                                              THEN [k \in 1 .. Iterations |-> <<c, name, Warmup + k - 1>>]
                                              ELSE <<>>
                          /\ hasDelta[row] <=> passes(name) /\ passes(baseline) /\
                               (name # baseline \/ \E other \in ToSet(algorithms) \ {baseline} : passes(other))
    BY DEF OnlyVerifiedRowsAreTimed, TailCorpora
  <2>1. c \notin waiting /\ ~IsTailRun(c) /\ IsVerified(c, a) /\ TimedCount(c, a) = Iterations
    BY DEF TailInv, TailProgressOK, IsTailRun, IsVerified, TimedCount
  <2>2. TailRowOK(c, a) /\ (hasDelta[RowOf(c, a)] <=> IsTailCompared(c, algorithms[a + 1]))
    BY <2>1 DEF TailInv, TailRowsOK, DeltasOK
  <2>3. MayBeTimed(c, a) <=> PassesOracle(c, algorithms[a + 1])
    BY <2>1 DEF MayBeTimed
  <2>4. Measured(c, algorithms[a + 1], Iterations) =
          [k \in 1 .. Iterations |-> <<c, algorithms[a + 1], Warmup + k - 1>>]
    BY PassesAssumption DEF Measured
  <2>. QED  BY <2>1, <2>2, <2>3, <2>4 DEF TailRowOK, IsTailCompared
<1>. QED  BY <1>1, <1>2, <1>3, PTL DEF BenchmarkSpec

-----------------------------------------------------------------------------
(* The capture of a corpus: what it was captured from is gone first. *)

OwnerList == Capture!OwnersOf(workload)
OwnerCount == Len(OwnerList)

GuardOf(i, armed) == [isGuard |-> TRUE, owner |-> OwnerList[i], armed |-> armed]
OwnerAt(i) == [isGuard |-> FALSE, owner |-> OwnerList[i], armed |-> FALSE]

\* Guards and owners alternate, the first `up` guards were armed, and `down` of
\* these have reported.
ScopeOK(up) ==
  /\ IsList(scope) /\ Len(scope) <= 2 * OwnerCount
  /\ \A i \in 1 .. OwnerCount :
       /\ 2 * i - 1 <= Len(scope) => scope[2 * i - 1] = GuardOf(i, i <= up)
       /\ 2 * i <= Len(scope) => scope[2 * i] = OwnerAt(i)

ReportsOK(up, down) ==
  /\ up \in 0 .. OwnerCount /\ down \in 0 .. up
  /\ IsList(reports) /\ Len(reports) = up + down
  /\ \A i \in 1 .. up : reports[i] = <<"constructed", OwnerList[i]>>
  /\ \A i \in 1 .. down : reports[up + i] = <<"destroyed", OwnerList[up + 1 - i]>>
  /\ \A i \in 1 .. up : i <= up - down <=> 2 * i - 1 <= Len(scope)

CapturePhaseOK(up, down) ==
  /\ workload \in {"none", "synthetic", "node-ids", "parent-queries"}
  /\ capturePc \in {"idle", "owners", "sorting", "leaving", "unwinding", "corpus", "done", "failed"}
  /\ capturePc \in {"idle", "owners", "sorting"} => down = 0
  /\ capturePc = "owners" => up < OwnerCount /\ 2 * up <= Len(scope) /\ Len(scope) <= 2 * up + 2
  /\ capturePc = "sorting" => up = OwnerCount /\ Len(scope) = 2 * OwnerCount
  /\ capturePc \in {"idle", "corpus", "done", "failed"} => scope = <<>>
  /\ capturePc = "idle" => workload = "none"

CaptureOK(up, down) == ScopeOK(up) /\ ReportsOK(up, down) /\ CapturePhaseOK(up, down)

OwnersInv ==
  /\ \E up, down \in Nat : CaptureOK(up, down)
  /\ stage \in {"verify", "time", "deltas"} => capturePc = "idle"

(* The reservoir and the corpus. *)

IsSizeList(s) == s \in Seq(Nat \ {0})

ReservoirOK ==
  /\ IsSizeList(observed) /\ IsSizeList(selected)
  /\ Len(selected) = IF Len(observed) <= Limit THEN Len(observed) ELSE Limit
  /\ \A i \in 1 .. Len(selected) : selected[i] \in 1 .. Len(observed)
  /\ \A i, j \in 1 .. Len(selected) : selected[i] = selected[j] => i = j

\* The tails of the corpus, one after the other.
TailsOK ==
  /\ nodes \in Seq(Nat) /\ IsList(ranges) /\ Len(ranges) <= Len(selected)
  /\ capturePc \in {"idle", "owners", "sorting"} => ranges = <<>>
  /\ \A i \in 1 .. Len(ranges) :
       /\ ranges[i].begin \in Nat /\ ranges[i].end \in Nat
       /\ ranges[i].begin = IF i = 1 THEN 0 ELSE ranges[i - 1].end
       /\ ranges[i].end = ranges[i].begin + observed[selected[i]]
       /\ ranges[i].end <= Len(nodes)
       /\ \A n \in ranges[i].begin + 1 .. ranges[i].end : nodes[n] = selected[i]
  /\ Len(nodes) = IF ranges = <<>> THEN 0 ELSE ranges[Len(ranges)].end

\* Zero is the least size only of no tail.
ExtremesOK ==
  /\ extremes = [min |-> extremes.min, max |-> extremes.max]
  /\ ranges = <<>> => extremes.min = 0 /\ extremes.max = 0
  /\ ranges # <<>> =>
       /\ \E i \in 1 .. Len(ranges) : extremes.min = observed[selected[i]]
       /\ \E i \in 1 .. Len(ranges) : extremes.max = observed[selected[i]]
       /\ \A i \in 1 .. Len(ranges) :
            extremes.min <= observed[selected[i]] /\ observed[selected[i]] <= extremes.max
  /\ capturePc = "done" => Len(ranges) = Len(selected)

CorpusInv == ReservoirOK /\ TailsOK /\ ExtremesOK

(* The owners. *)

LEMMA OwnersAreDifferent ==
  ASSUME workload \in {"none", "synthetic", "node-ids", "parent-queries"}
  PROVE  /\ OwnerCount \in Nat
         /\ workload \in {"none", "synthetic"} => OwnerCount = 0
         /\ workload \in {"node-ids", "parent-queries"} => OwnerCount > 0
         /\ \A i, j \in 1 .. OwnerCount : OwnerList[i] = OwnerList[j] => i = j
<1>1. CASE workload \in {"none", "synthetic"}
  <2>1. OwnerList = <<>>
    BY <1>1 DEF OwnerList, Capture!OwnersOf
  <2>. QED  BY <1>1, <2>1 DEF OwnerCount
<1>2. CASE workload = "node-ids"
  <2>1. OwnerList = <<"SourceForest", "RadixOrder", "RadixWorkspace">>
    BY <1>2 DEF OwnerList, Capture!OwnersOf
  <2>2. OwnerCount = 3
    BY <2>1 DEF OwnerCount
  <2>. QED  BY <1>2, <2>1, <2>2
<1>3. CASE workload = "parent-queries"
  <2>1. OwnerList = <<"SourceForest", "ParentQueries", "RadixOrder", "RadixWorkspace">>
    BY <1>3 DEF OwnerList, Capture!OwnersOf
  <2>2. OwnerCount = 4
    BY <2>1 DEF OwnerCount
  <2>. QED  BY <1>3, <2>1, <2>2
<1>. QED  BY <1>1, <1>2, <1>3

SameOwners ==
  /\ OwnerList' = OwnerList /\ OwnerCount' = OwnerCount
  /\ \A i, armed : GuardOf(i, armed)' = GuardOf(i, armed) /\ OwnerAt(i)' = OwnerAt(i)

LEMMA OwnersStay == ASSUME workload' = workload PROVE SameOwners
<1>1. OwnerList' = OwnerList
  BY DEF OwnerList
<1>2. OwnerCount' = OwnerCount
  BY <1>1 DEF OwnerCount
<1>. QED  BY <1>1, <1>2 DEF SameOwners, GuardOf, OwnerAt

\* Every place is that of a guard or of an owner.
LEMMA ScopePlaces ==
  ASSUME NEW n \in Nat, NEW i \in 1 .. 2 * n
  PROVE  \E j \in 1 .. n : i = 2 * j - 1 \/ i = 2 * j
<1>1. PICK q \in Nat, r \in 0 .. 1 : i = 2 * q + r
  <2>1. i \div 2 \in Nat /\ i % 2 \in 0 .. 2 - 1 /\ i = 2 * (i \div 2) + (i % 2)
    BY QuotientOf
  <2>2. i % 2 \in 0 .. 1
    BY <2>1
  <2>. QED  BY <2>1, <2>2
<1>2. CASE r = 0
  BY <1>1, <1>2
<1>3. CASE r = 1
  <2>1. q + 1 \in 1 .. n /\ i = 2 * (q + 1) - 1
    BY <1>1, <1>3
  <2>. QED  BY <2>1
<1>. QED  BY <1>2, <1>3

LEMMA EntryFields ==
  ASSUME NEW i, NEW armed
  PROVE  /\ GuardOf(i, armed).isGuard /\ GuardOf(i, armed).owner = OwnerList[i]
         /\ GuardOf(i, armed).armed = armed
         /\ ~OwnerAt(i).isGuard /\ OwnerAt(i).owner = OwnerList[i] /\ ~OwnerAt(i).armed
<1>1. GuardOf(i, armed).isGuard = TRUE /\ GuardOf(i, armed).owner = OwnerList[i] /\ GuardOf(i, armed).armed = armed
  BY DEF GuardOf
<1>2. OwnerAt(i).isGuard = FALSE /\ OwnerAt(i).owner = OwnerList[i] /\ OwnerAt(i).armed = FALSE
  BY DEF OwnerAt
<1>. QED  BY <1>1, <1>2

LEMMA SameCountInCapture == \A S : Capture!Cardinality(S) = Cardinality(S)
<1>1. \A S : Capture!IsFiniteSet(S) <=> IsFiniteSet(S)
  BY DEF Capture!IsFiniteSet, IsFiniteSet
<1>. QED  BY <1>1 DEF Capture!Cardinality, Cardinality

\* How many owners are in the scope.
LEMMA OwnedCountIs ==
  ASSUME NEW up, ScopeOK(up), OwnerCount \in Nat, NEW m \in Nat, Len(scope) = 2 * m \/ Len(scope) = 2 * m + 1
  PROVE  Capture!OwnedCount = m
<1> DEFINE Owned == {i \in DOMAIN scope : ~scope[i].isGuard}
           f == [j \in 1 .. m |-> 2 * j]
<1>1. DOMAIN scope = 1 .. Len(scope)
  BY AppendKeepsList DEF ScopeOK
<1>2. Len(scope) <= 2 * OwnerCount /\ Len(scope) \in Nat /\ m <= OwnerCount
  BY DEF ScopeOK
<1>3. ASSUME NEW j \in 1 .. m PROVE 2 * j \in Owned
  <2>1. 2 * j \in 1 .. Len(scope) /\ j \in 1 .. OwnerCount
    BY <1>2
  <2>2. scope[2 * j] = OwnerAt(j)
    BY <2>1 DEF ScopeOK
  <2>3. ~scope[2 * j].isGuard
    BY <2>2, EntryFields, Zenon
  <2>4. 2 * j \in DOMAIN scope
    BY <1>1, <2>1, Zenon
  <2>. QED  BY <2>3, <2>4, Zenon
<1>4. ASSUME NEW i \in Owned PROVE \E j \in 1 .. m : i = 2 * j
  <2>0. i \in DOMAIN scope /\ ~scope[i].isGuard
    BY Zenon
  <2>1. i \in 1 .. Len(scope)
    BY <1>1, <2>0, Zenon
  <2>2. PICK j \in 1 .. OwnerCount : i = 2 * j - 1 \/ i = 2 * j
    <3>1. i \in 1 .. 2 * OwnerCount
      BY <1>2, <2>1
    <3>. QED  BY <3>1, ScopePlaces
  <2>3. i # 2 * j - 1
    <3>1. SUFFICES ASSUME i = 2 * j - 1 PROVE FALSE
      OBVIOUS
    <3>2. scope[i] = GuardOf(j, j <= up)
      BY <2>1, <3>1 DEF ScopeOK
    <3>3. GuardOf(j, j <= up).isGuard
      BY EntryFields
    <3>4. scope[i].isGuard
      BY <3>2, <3>3, Zenon
    <3>. QED  BY <2>0, <3>4, Zenon
  <2>. QED  BY <2>1, <2>2, <2>3
<1>5. f \in Bijection(1 .. m, Owned)
  <2>1. f \in [1 .. m -> Owned] /\ \A i, j \in 1 .. m : f[i] = f[j] => i = j
    BY <1>3
  <2>2. \A i \in Owned : \E j \in 1 .. m : f[j] = i
    BY <1>4
  <2>. QED  BY <2>1, <2>2 DEF Bijection, Injection, Surjection, IsInjective
<1>6. ExistsBijection(1 .. m, Owned)
  BY <1>5 DEF ExistsBijection
<1>7. Cardinality(Owned) = m
  BY <1>6, FS_CountingElements, Zenon
<1>. QED  BY <1>7, SameCountInCapture, Zenon DEF Capture!OwnedCount

\* What dropping the last of a list does, and what replacing one of it does.
LEMMA FrontKeepsList ==
  ASSUME NEW s, IsList(s), Len(s) > 0
  PROVE  /\ IsList(Capture!Front(s)) /\ Len(Capture!Front(s)) = Len(s) - 1
         /\ \A k \in 1 .. Len(s) - 1 : Capture!Front(s)[k] = s[k]
<1>1. PICK T : s \in Seq(T)
  BY DEF IsList
<1>2. Capture!Front(s) = SubSeq(s, 1, Len(s) - 1)
  BY DEF Capture!Front
<1>3. Len(s) \in Nat
  BY <1>1
<1>4. SubSeq(s, 1, Len(s) - 1) \in Seq(T) /\ Len(SubSeq(s, 1, Len(s) - 1)) = Len(s) - 1
      /\ \A k \in 1 .. Len(s) - 1 : SubSeq(s, 1, Len(s) - 1)[k] = s[k]
  <2> DEFINE n == Len(s) - 1
  <2>1. n \in Int /\ 1 \in Int /\ \A i \in 1 .. n : s[i] \in T
    BY <1>1, <1>3
  <2>2. n \in Nat
    BY <1>3
  <2> HIDE DEF n
  <2>3. /\ SubSeq(s, 1, n) \in Seq(T) /\ Len(SubSeq(s, 1, n)) = IF 1 <= n THEN n - 1 + 1 ELSE 0
        /\ \A i \in 1 .. n - 1 + 1 : SubSeq(s, 1, n)[i] = s[1 + i - 1]
    BY <2>1, SubSeqProperties
  <2>4. SubSeq(s, 1, n) \in Seq(T) /\ Len(SubSeq(s, 1, n)) = n /\ \A k \in 1 .. n : SubSeq(s, 1, n)[k] = s[k]
    BY <2>2, <2>3
  <2>. QED  BY <2>4 DEF n
<1>. QED  BY <1>2, <1>4 DEF IsList

LEMMA ReplacingKeepsList ==
  ASSUME NEW s, IsList(s), NEW n \in 1 .. Len(s), NEW x
  PROVE  /\ IsList([s EXCEPT ![n] = x]) /\ Len([s EXCEPT ![n] = x]) = Len(s)
         /\ [s EXCEPT ![n] = x][n] = x
         /\ \A k \in 1 .. Len(s) : k # n => [s EXCEPT ![n] = x][k] = s[k]
<1>1. PICK T : s \in Seq(T)
  BY DEF IsList
<1>2. s \in Seq(T \cup {x}) /\ x \in T \cup {x}
  BY <1>1, SeqMonotonic
<1>3. [s EXCEPT ![n] = x] \in Seq(T \cup {x}) /\ Len([s EXCEPT ![n] = x]) = Len(s)
  BY <1>2
<1>4. n \in DOMAIN s /\ DOMAIN s = 1 .. Len(s)
  BY <1>1
<1>. QED  BY <1>3, <1>4 DEF IsList

\* What every step finds.
LEMMA CaptureFacts ==
  ASSUME NEW up \in Nat, NEW down \in Nat, CaptureOK(up, down)
  PROVE  /\ OwnerCount \in Nat /\ IsList(scope) /\ IsList(reports)
         /\ Len(scope) \in 0 .. 2 * OwnerCount /\ DOMAIN scope = 1 .. Len(scope)
         /\ Len(reports) = up + down /\ DOMAIN reports = 1 .. up + down
         /\ up \in 0 .. OwnerCount /\ down \in 0 .. up
         /\ scope = <<>> <=> Len(scope) = 0
         /\ Capture!Owners = OwnerList /\ Capture!Top = scope[Len(scope)]
<1>1. OwnerCount \in Nat
  BY OwnersAreDifferent DEF CaptureOK, CapturePhaseOK
<1>2. IsList(scope) /\ Len(scope) <= 2 * OwnerCount
  BY DEF CaptureOK, ScopeOK
<1>3. Len(scope) \in Nat /\ DOMAIN scope = 1 .. Len(scope)
  BY <1>2, AppendKeepsList
<1>4. up \in 0 .. OwnerCount /\ down \in 0 .. up /\ IsList(reports) /\ Len(reports) = up + down
  BY DEF CaptureOK, ReportsOK
<1>5. DOMAIN reports = 1 .. up + down
  BY <1>4, AppendKeepsList
<1>6. scope = <<>> <=> Len(scope) = 0
  BY <1>2 DEF IsList
<1>7. Capture!Owners = OwnerList /\ Capture!Top = scope[Len(scope)]
  BY DEF Capture!Owners, OwnerList, Capture!Top
<1>. QED  BY <1>1, <1>2, <1>3, <1>4, <1>5, <1>6, <1>7

\* Who is on top while the owners are constructed.
LEMMA TopWhileConstructing ==
  ASSUME NEW up \in Nat, NEW down \in Nat, CaptureOK(up, down), capturePc = "owners"
  PROVE  /\ up < OwnerCount /\ down = 0 /\ Len(scope) \in {2 * up, 2 * up + 1, 2 * up + 2}
         /\ Len(scope) = 2 * up /\ scope # <<>> =>
              ~Capture!Top.isGuard /\ scope[Len(scope) - 1].armed
         /\ Len(scope) = 2 * up + 1 =>
              Capture!Top.isGuard /\ ~Capture!Top.armed /\ Capture!Top.owner = OwnerList[up + 1]
         /\ Len(scope) = 2 * up + 2 =>
              ~Capture!Top.isGuard /\ Capture!Top.owner = OwnerList[up + 1]
              /\ scope[Len(scope) - 1].isGuard /\ ~scope[Len(scope) - 1].armed
<1>1. up < OwnerCount /\ down = 0 /\ Len(scope) \in {2 * up, 2 * up + 1, 2 * up + 2}
  <2>1. up < OwnerCount /\ 2 * up <= Len(scope) /\ Len(scope) <= 2 * up + 2 /\ down = 0
    BY DEF CaptureOK, CapturePhaseOK
  <2>. QED  BY <2>1, CaptureFacts
<1>2. ASSUME Len(scope) = 2 * up, scope # <<>>
      PROVE  ~Capture!Top.isGuard /\ scope[Len(scope) - 1].armed
  <2>1. up \in 1 .. OwnerCount /\ Len(scope) - 1 = 2 * up - 1
    BY <1>1, <1>2, CaptureFacts
  <2>2. scope[2 * up] = OwnerAt(up) /\ scope[2 * up - 1] = GuardOf(up, up <= up)
    BY <1>2, <2>1 DEF CaptureOK, ScopeOK
  <2>3. ~OwnerAt(up).isGuard /\ GuardOf(up, up <= up).armed = (up <= up)
    BY EntryFields
  <2>4. up <= up
    OBVIOUS
  <2>5. ~Capture!Top.isGuard
    BY <1>2, <2>2, <2>3, CaptureFacts, Zenon
  <2>6. scope[Len(scope) - 1].armed
    BY <2>1, <2>2, <2>3, <2>4, Zenon
  <2>. QED  BY <2>5, <2>6
<1>3. ASSUME Len(scope) = 2 * up + 1
      PROVE  Capture!Top.isGuard /\ ~Capture!Top.armed /\ Capture!Top.owner = OwnerList[up + 1]
  <2>1. up + 1 \in 1 .. OwnerCount /\ 2 * (up + 1) - 1 = Len(scope)
    BY <1>1, <1>3, CaptureFacts
  <2>2. scope[Len(scope)] = GuardOf(up + 1, up + 1 <= up)
    BY <2>1 DEF CaptureOK, ScopeOK
  <2>3. GuardOf(up + 1, up + 1 <= up).isGuard /\ GuardOf(up + 1, up + 1 <= up).owner = OwnerList[up + 1]
        /\ GuardOf(up + 1, up + 1 <= up).armed = (up + 1 <= up)
    BY EntryFields
  <2>4. ~(up + 1 <= up)
    OBVIOUS
  <2>5. Capture!Top = GuardOf(up + 1, up + 1 <= up)
    BY <2>2, CaptureFacts, Zenon
  <2>6. Capture!Top.isGuard
    BY <2>5, <2>3, Zenon
  <2>7. ~Capture!Top.armed
    BY <2>5, <2>3, <2>4, Zenon
  <2>8. Capture!Top.owner = OwnerList[up + 1]
    BY <2>5, <2>3, Zenon
  <2>. QED  BY <2>6, <2>7, <2>8
<1>4. ASSUME Len(scope) = 2 * up + 2
      PROVE  ~Capture!Top.isGuard /\ Capture!Top.owner = OwnerList[up + 1]
             /\ scope[Len(scope) - 1].isGuard /\ ~scope[Len(scope) - 1].armed
  <2>1. up + 1 \in 1 .. OwnerCount /\ 2 * (up + 1) = Len(scope) /\ 2 * (up + 1) - 1 = Len(scope) - 1
        /\ 2 * (up + 1) - 1 <= Len(scope) /\ 2 * (up + 1) <= Len(scope)
    BY <1>1, <1>4, CaptureFacts
  <2>2. scope[Len(scope)] = OwnerAt(up + 1) /\ scope[Len(scope) - 1] = GuardOf(up + 1, up + 1 <= up)
    BY <2>1 DEF CaptureOK, ScopeOK
  <2>3. ~OwnerAt(up + 1).isGuard /\ OwnerAt(up + 1).owner = OwnerList[up + 1]
        /\ GuardOf(up + 1, up + 1 <= up).isGuard /\ GuardOf(up + 1, up + 1 <= up).armed = (up + 1 <= up)
    BY EntryFields
  <2>4. ~(up + 1 <= up)
    OBVIOUS
  <2>5. Capture!Top = OwnerAt(up + 1)
    BY <2>2, CaptureFacts, Zenon
  <2>6. ~Capture!Top.isGuard
    BY <2>5, <2>3, Zenon
  <2>7. Capture!Top.owner = OwnerList[up + 1]
    BY <2>5, <2>3, Zenon
  <2>8. scope[Len(scope) - 1].isGuard
    BY <2>2, <2>3, Zenon
  <2>9. ~scope[Len(scope) - 1].armed
    BY <2>2, <2>3, <2>4, Zenon
  <2>. QED  BY <2>6, <2>7, <2>8, <2>9
<1>. QED  BY <1>1, <1>2, <1>3, <1>4

\* What the owners are after a corpus was begun.
OwnersFacts ==
  /\ OwnerCount \in Nat
  /\ workload \in {"none", "synthetic"} => OwnerCount = 0
  /\ workload \in {"node-ids", "parent-queries"} => OwnerCount > 0

LEMMA OwnersOfWorkload == workload \in {"none"} \cup Capture!Workloads => OwnersFacts
BY OwnersAreDifferent DEF OwnersFacts, Capture!Workloads

LEMMA OwnersOfNextWorkload == workload' \in {"none"} \cup Capture!Workloads => OwnersFacts'
<1>1. (workload \in {"none"} \cup Capture!Workloads => OwnersFacts)'
  BY OwnersOfWorkload, PTL
<1>. QED  BY <1>1 DEF Capture!Workloads

\* A scope without owners, before there are any.
LEMMA EmptyScopeIsOK ==
  ASSUME OwnersFacts', scope' = <<>>, reports' = <<>>
  PROVE  ScopeOK(0)' /\ ReportsOK(0, 0)'
<1>1. IsList(scope') /\ Len(scope') = 0 /\ IsList(reports') /\ Len(reports') = 0
  BY EmptyIsList
<1>2. OwnerCount' \in Nat
  BY DEF OwnersFacts
<1>3. ScopeOK(0)'
  <2>1. \A i \in 1 .. OwnerCount' : ~(2 * i - 1 <= Len(scope')) /\ ~(2 * i <= Len(scope'))
    BY <1>1, <1>2
  <2>2. Len(scope') <= 2 * OwnerCount'
    <3>1. \A n \in Nat : 0 <= 2 * n
      OBVIOUS
    <3>. QED  BY <1>1, <1>2, <3>1, Zenon
  <2>. QED  BY <1>1, <2>1, <2>2, Zenon DEF ScopeOK
<1>4. ReportsOK(0, 0)'
  BY <1>1, <1>2 DEF ReportsOK
<1>. QED  BY <1>3, <1>4

LEMMA BeginKeepsOwners ==
  ASSUME NEW up \in Nat, NEW down \in Nat, CaptureOK(up, down), Capture!Begin
  PROVE  CaptureOK(0, 0)'
<1>1. capturePc = "idle" /\ workload' \in Capture!Workloads /\ scope' = scope /\ reports' = reports
  BY DEF Capture!Begin
<1>2. scope = <<>> /\ OwnerCount = 0 /\ down = 0
  BY <1>1, OwnersAreDifferent DEF CaptureOK, CapturePhaseOK
<1>3. reports = <<>>
  <2>1. up = 0 /\ Len(reports) = 0 /\ IsList(reports)
    BY <1>2, CaptureFacts
  <2>. QED  BY <2>1 DEF IsList
<1>4. OwnersFacts'
  BY <1>1, OwnersOfNextWorkload
<1>5. ScopeOK(0)' /\ ReportsOK(0, 0)'
  BY <1>1, <1>2, <1>3, <1>4, EmptyScopeIsOK
<1>6. Len(scope') = 0
  BY <1>1, <1>2
<1>7. CASE workload' = "synthetic"
  <2>1. capturePc' = "corpus"
    BY <1>7 DEF Capture!Begin
  <2>. QED  BY <1>1, <1>2, <1>5, <1>6, <1>7, <2>1 DEF CaptureOK, CapturePhaseOK
<1>8. CASE workload' \in {"node-ids", "parent-queries"}
  <2>1. capturePc' = "owners"
    BY <1>8 DEF Capture!Begin
  <2>2. OwnerCount' > 0
    BY <1>4, <1>8 DEF OwnersFacts
  <2>. QED  BY <1>1, <1>2, <1>5, <1>6, <1>8, <2>1, <2>2 DEF CaptureOK, CapturePhaseOK
<1>. QED  BY <1>1, <1>7, <1>8 DEF Capture!Workloads

LEMMA DeclareGuardKeepsOwners ==
  ASSUME NEW up \in Nat, NEW down \in Nat, CaptureOK(up, down), Capture!DeclareGuard
  PROVE  CaptureOK(up, 0)'
<1> DEFINE guard == [isGuard |-> TRUE, owner |-> OwnerList[up + 1], armed |-> FALSE]
<1>1. capturePc = "owners" /\ capturePc' = capturePc /\ workload' = workload /\ reports' = reports
  BY DEF Capture!DeclareGuard
<1>2. \A i \in DOMAIN scope : scope[i].isGuard => scope[i].armed
  BY DEF Capture!DeclareGuard
<1>3. up < OwnerCount /\ down = 0 /\ Len(scope) \in {2 * up, 2 * up + 1, 2 * up + 2}
  BY <1>1, TopWhileConstructing
<1>4. Len(scope) = 2 * up
  <2>1. CASE Len(scope) = 2 * up + 1
    <3>1. Capture!Top.isGuard /\ ~Capture!Top.armed
      BY <1>1, <2>1, TopWhileConstructing
    <3>2. Len(scope) \in DOMAIN scope /\ Capture!Top = scope[Len(scope)]
      BY <2>1, CaptureFacts
    <3>. QED  BY <1>2, <3>1, <3>2, Zenon
  <2>2. CASE Len(scope) = 2 * up + 2
    <3>1. scope[Len(scope) - 1].isGuard /\ ~scope[Len(scope) - 1].armed
      BY <1>1, <2>2, TopWhileConstructing
    <3>2. Len(scope) - 1 \in DOMAIN scope
      BY <2>2, CaptureFacts
    <3>. QED  BY <1>2, <3>1, <3>2, Zenon
  <2>. QED  BY <1>3, <2>1, <2>2
<1>5. Capture!OwnedCount = up
  BY <1>4, CaptureFacts, OwnedCountIs DEF CaptureOK
<1>6. scope' = Append(scope, guard)
  BY <1>5, CaptureFacts DEF Capture!DeclareGuard
<1>7. SameOwners
  BY <1>1, OwnersStay
<1> HIDE DEF guard
<1>8. /\ IsList(scope') /\ Len(scope') = 2 * up + 1
      /\ \A k \in 1 .. 2 * up : scope'[k] = scope[k]
      /\ scope'[2 * up + 1] = guard
  <2>1. IsList(scope)
    BY CaptureFacts
  <2>2. PICK n \in Nat : n = 2 * up
    OBVIOUS
  <2>3. /\ IsList(scope') /\ Len(scope') = n + 1
        /\ \A k \in 1 .. n : scope'[k] = scope[k]
        /\ scope'[n + 1] = guard
    <3>1. /\ IsList(Append(scope, guard)) /\ Len(Append(scope, guard)) = Len(scope) + 1
          /\ \A k \in 1 .. Len(scope) : Append(scope, guard)[k] = scope[k]
          /\ Append(scope, guard)[Len(scope) + 1] = guard
      BY <2>1, AppendKeepsList
    <3>2. Len(scope) = n
      BY <1>4, <2>2
    <3>. QED  BY <1>6, <3>1, <3>2, Zenon
  <2>. QED  BY <2>2, <2>3, Zenon
<1>9. guard = GuardOf(up + 1, up + 1 <= up)
  <2>1. (up + 1 <= up) = FALSE
    OBVIOUS
  <2>. QED  BY <2>1, Zenon DEF guard, GuardOf
<1>10. ScopeOK(up)'
  <2>1. ASSUME NEW i \in 1 .. OwnerCount, 2 * i - 1 <= 2 * up + 1
        PROVE  scope'[2 * i - 1] = GuardOf(i, i <= up)
    <3>1. CASE i = up + 1
      <4>1. 2 * i - 1 = 2 * up + 1
        BY <3>1
      <4>. QED  BY <3>1, <4>1, <1>8, <1>9, Zenon
    <3>2. CASE i <= up
      <4>1. 2 * i - 1 \in 1 .. 2 * up
        BY <3>2
      <4>2. scope[2 * i - 1] = GuardOf(i, i <= up)
        BY <1>4, <4>1 DEF CaptureOK, ScopeOK
      <4>. QED  BY <4>1, <4>2, <1>8, Zenon
    <3>. QED  BY <2>1, <3>1, <3>2
  <2>2. ASSUME NEW i \in 1 .. OwnerCount, 2 * i <= 2 * up + 1
        PROVE  scope'[2 * i] = OwnerAt(i)
    <3>1. 2 * i \in 1 .. 2 * up
      BY <2>2
    <3>2. scope[2 * i] = OwnerAt(i)
      BY <1>4, <3>1 DEF CaptureOK, ScopeOK
    <3>. QED  BY <3>1, <3>2, <1>8
  <2>3. 2 * up + 1 <= 2 * OwnerCount
    BY <1>3, CaptureFacts
  <2>. QED  BY <1>7, <1>8, <2>1, <2>2, <2>3 DEF ScopeOK, SameOwners
<1>11. ReportsOK(up, 0)'
  BY <1>1, <1>3, <1>7, <1>8 DEF CaptureOK, ReportsOK, SameOwners
<1>12. CapturePhaseOK(up, 0)'
  BY <1>1, <1>3, <1>7, <1>8 DEF CaptureOK, CapturePhaseOK, SameOwners
<1>. QED  BY <1>10, <1>11, <1>12 DEF CaptureOK

LEMMA ConstructOwnerKeepsOwners ==
  ASSUME NEW up \in Nat, NEW down \in Nat, CaptureOK(up, down), Capture!ConstructOwner
  PROVE  CaptureOK(up, 0)'
<1>1. capturePc = "owners" /\ capturePc' = capturePc /\ workload' = workload /\ reports' = reports
      /\ scope # <<>> /\ Capture!Top.isGuard
  BY DEF Capture!ConstructOwner
<1>2. up < OwnerCount /\ down = 0
  BY <1>1, TopWhileConstructing
<1>3. Len(scope) = 2 * up + 1
  BY <1>1, TopWhileConstructing
<1>4. scope' = Append(scope, OwnerAt(up + 1))
  <2>1. Capture!Top.owner = OwnerList[up + 1]
    BY <1>1, <1>3, TopWhileConstructing
  <2>. QED  BY <2>1 DEF Capture!ConstructOwner, OwnerAt
<1>5. /\ IsList(scope') /\ Len(scope') = 2 * up + 2
      /\ \A k \in 1 .. 2 * up + 1 : scope'[k] = scope[k]
      /\ scope'[2 * up + 2] = OwnerAt(up + 1)
  <2>1. IsList(scope)
    BY CaptureFacts
  <2>2. PICK n \in Nat : n = 2 * up + 1
    OBVIOUS
  <2>3. /\ IsList(scope') /\ Len(scope') = n + 1
        /\ \A k \in 1 .. n : scope'[k] = scope[k]
        /\ scope'[n + 1] = OwnerAt(up + 1)
    <3>1. /\ IsList(Append(scope, OwnerAt(up + 1))) /\ Len(Append(scope, OwnerAt(up + 1))) = Len(scope) + 1
          /\ \A k \in 1 .. Len(scope) : Append(scope, OwnerAt(up + 1))[k] = scope[k]
          /\ Append(scope, OwnerAt(up + 1))[Len(scope) + 1] = OwnerAt(up + 1)
      BY <2>1, AppendKeepsList
    <3>2. Len(scope) = n
      BY <1>3, <2>2
    <3>. QED  BY <1>4, <3>1, <3>2, Zenon
  <2>4. n + 1 = 2 * up + 2
    BY <2>2
  <2>. QED  BY <2>2, <2>3, <2>4, Zenon
<1>6. SameOwners
  BY <1>1, OwnersStay
<1>7. ScopeOK(up)'
  <2>1. ASSUME NEW i \in 1 .. OwnerCount, 2 * i - 1 <= 2 * up + 2
        PROVE  scope'[2 * i - 1] = GuardOf(i, i <= up)
    <3>1. 2 * i - 1 \in 1 .. 2 * up + 1
      BY <2>1
    <3>2. scope[2 * i - 1] = GuardOf(i, i <= up)
      BY <1>3, <3>1 DEF CaptureOK, ScopeOK
    <3>. QED  BY <3>1, <3>2, <1>5, Zenon
  <2>2. ASSUME NEW i \in 1 .. OwnerCount, 2 * i <= 2 * up + 2
        PROVE  scope'[2 * i] = OwnerAt(i)
    <3>1. CASE i = up + 1
      BY <1>5, <3>1
    <3>2. CASE i <= up
      <4>1. 2 * i \in 1 .. 2 * up + 1
        BY <3>2
      <4>2. scope[2 * i] = OwnerAt(i)
        BY <1>3, <4>1 DEF CaptureOK, ScopeOK
      <4>. QED  BY <4>1, <4>2, <1>5
    <3>. QED  BY <2>2, <3>1, <3>2
  <2>3. 2 * up + 2 <= 2 * OwnerCount
    BY <1>2, CaptureFacts
  <2>. QED  BY <1>5, <1>6, <2>1, <2>2, <2>3 DEF ScopeOK, SameOwners
<1>8. ReportsOK(up, 0)'
  BY <1>1, <1>2, <1>5, <1>6 DEF CaptureOK, ReportsOK, SameOwners
<1>9. CapturePhaseOK(up, 0)'
  BY <1>1, <1>2, <1>5, <1>6 DEF CaptureOK, CapturePhaseOK, SameOwners
<1>. QED  BY <1>7, <1>8, <1>9 DEF CaptureOK

LEMMA ArmedGuard == ASSUME NEW i, NEW b, NEW x PROVE [GuardOf(i, b) EXCEPT !.armed = x] = GuardOf(i, x)
<1>1. \A g, o : [[isGuard |-> g, owner |-> o, armed |-> b] EXCEPT !.armed = x] = [isGuard |-> g, owner |-> o, armed |-> x]
  OBVIOUS
<1>. QED  BY <1>1, Zenon DEF GuardOf

LEMMA ArmKeepsOwners ==
  ASSUME NEW up \in Nat, NEW down \in Nat, CaptureOK(up, down), Capture!Arm
  PROVE  CaptureOK(up + 1, 0)'
<1> DEFINE n == Len(scope) - 1
           armed == [scope[n] EXCEPT !.armed = TRUE]
<1>1. /\ capturePc = "owners" /\ workload' = workload
      /\ scope # <<>> /\ ~Capture!Top.isGuard /\ ~scope[n].armed
  BY DEF Capture!Arm
<1>2. up < OwnerCount /\ down = 0 /\ Len(scope) \in {2 * up, 2 * up + 1, 2 * up + 2}
  BY <1>1, TopWhileConstructing
<1>3. Len(scope) = 2 * up + 2
  <2>1. Len(scope) # 2 * up
    BY <1>1, TopWhileConstructing
  <2>2. Len(scope) # 2 * up + 1
    BY <1>1, TopWhileConstructing
  <2>. QED  BY <1>2, <2>1, <2>2
<1>4. n = 2 * up + 1 /\ n \in 1 .. Len(scope)
  BY <1>3
<1>5. scope' = [scope EXCEPT ![n] = armed]
  BY DEF Capture!Arm
<1>6. reports' = Append(reports, <<"constructed", OwnerList[up + 1]>>)
  <2>1. Capture!Top.owner = OwnerList[up + 1]
    BY <1>1, <1>3, TopWhileConstructing
  <2>. QED  BY <2>1 DEF Capture!Arm
<1>7. capturePc' = IF up + 1 = OwnerCount THEN "sorting" ELSE "owners"
  <2>1. Capture!OwnedCount = up + 1
    <3>1. Len(scope) = 2 * (up + 1) /\ up + 1 \in Nat
      BY <1>3
    <3>. QED  BY <3>1, CaptureFacts, OwnedCountIs DEF CaptureOK
  <2>2. Len(Capture!Owners) = OwnerCount
    BY CaptureFacts DEF OwnerCount
  <2>. QED  BY <2>1, <2>2 DEF Capture!Arm
<1>8. armed = GuardOf(up + 1, TRUE)
  <2>1. scope[n] = GuardOf(up + 1, up + 1 <= up)
    <3>1. up + 1 \in 1 .. OwnerCount /\ 2 * (up + 1) - 1 = n /\ 2 * (up + 1) - 1 <= Len(scope)
      BY <1>2, <1>4, CaptureFacts
    <3>. QED  BY <3>1 DEF CaptureOK, ScopeOK
  <2>2. armed = [GuardOf(up + 1, up + 1 <= up) EXCEPT !.armed = TRUE]
    BY <2>1
  <2>. QED  BY <2>2, ArmedGuard, Zenon
<1>9. SameOwners
  BY <1>1, OwnersStay
<1> HIDE DEF n, armed
<1>10. /\ IsList(scope') /\ Len(scope') = 2 * up + 2
       /\ scope'[n] = GuardOf(up + 1, TRUE)
       /\ \A k \in 1 .. 2 * up + 2 : k # n => scope'[k] = scope[k]
  <2>1. IsList(scope)
    BY CaptureFacts
  <2>2. /\ IsList([scope EXCEPT ![n] = armed]) /\ Len([scope EXCEPT ![n] = armed]) = Len(scope)
        /\ [scope EXCEPT ![n] = armed][n] = armed
        /\ \A k \in 1 .. Len(scope) : k # n => [scope EXCEPT ![n] = armed][k] = scope[k]
    <3>1. n \in 1 .. Len(scope)
      BY <1>4
    <3>. QED  BY <2>1, <3>1, ReplacingKeepsList
  <2>. QED  BY <1>3, <1>5, <1>8, <2>2, Zenon
<1>11. ScopeOK(up + 1)'
  <2>1. ASSUME NEW i \in 1 .. OwnerCount, 2 * i - 1 <= 2 * up + 2
        PROVE  scope'[2 * i - 1] = GuardOf(i, i <= up + 1)
    <3>1. CASE i = up + 1
      <4>1. 2 * i - 1 = n /\ (i <= up + 1) = TRUE
        BY <1>4, <3>1
      <4>. QED  BY <3>1, <4>1, <1>10, Zenon
    <3>2. CASE i <= up
      <4>1. 2 * i - 1 \in 1 .. 2 * up + 2 /\ 2 * i - 1 # n
        BY <1>4, <3>2
      <4>2. scope[2 * i - 1] = GuardOf(i, i <= up)
        BY <1>3, <4>1 DEF CaptureOK, ScopeOK
      <4>3. (i <= up) = (i <= up + 1)
        BY <3>2
      <4>. QED  BY <4>1, <4>2, <4>3, <1>10, Zenon
    <3>. QED  BY <2>1, <3>1, <3>2
  <2>2. ASSUME NEW i \in 1 .. OwnerCount, 2 * i <= 2 * up + 2
        PROVE  scope'[2 * i] = OwnerAt(i)
    <3>1. 2 * i \in 1 .. 2 * up + 2 /\ 2 * i # n
      BY <1>4, <2>2
    <3>2. scope[2 * i] = OwnerAt(i)
      BY <1>3, <3>1 DEF CaptureOK, ScopeOK
    <3>. QED  BY <3>1, <3>2, <1>10
  <2>3. 2 * up + 2 <= 2 * OwnerCount
    BY <1>2, CaptureFacts
  <2>. QED  BY <1>9, <1>10, <2>1, <2>2, <2>3 DEF ScopeOK, SameOwners
<1>12. ReportsOK(up + 1, 0)'
  <2>1. /\ IsList(reports') /\ Len(reports') = up + 1
        /\ \A k \in 1 .. up : reports'[k] = reports[k]
        /\ reports'[up + 1] = <<"constructed", OwnerList[up + 1]>>
    BY <1>2, <1>6, CaptureFacts, AppendKeepsList
  <2>2. \A i \in 1 .. up + 1 : reports'[i] = <<"constructed", OwnerList[i]>>
    <3>1. \A i \in 1 .. up : reports[i] = <<"constructed", OwnerList[i]>>
      BY DEF CaptureOK, ReportsOK
    <3>2. \A i \in 1 .. up + 1 : i \in 1 .. up \/ i = up + 1
      OBVIOUS
    <3>. QED  BY <2>1, <3>1, <3>2, Zenon
  <2>3. up + 1 \in 0 .. OwnerCount
    BY <1>2, CaptureFacts
  <2>. QED  BY <1>9, <1>10, <2>1, <2>2, <2>3 DEF ReportsOK, SameOwners
<1>13. CapturePhaseOK(up + 1, 0)'
  <2>1. CASE up + 1 = OwnerCount
    <3>1. capturePc' = "sorting" /\ Len(scope') = 2 * OwnerCount
      BY <1>7, <1>10, <2>1
    <3>. QED  BY <1>1, <1>9, <2>1, <3>1 DEF CaptureOK, CapturePhaseOK, SameOwners
  <2>2. CASE up + 1 # OwnerCount
    <3>1. capturePc' = "owners" /\ up + 1 < OwnerCount
          /\ 2 * (up + 1) <= Len(scope') /\ Len(scope') <= 2 * (up + 1) + 2
      BY <1>2, <1>7, <1>10, <2>2, CaptureFacts
    <3>. QED  BY <1>1, <1>9, <3>1 DEF CaptureOK, CapturePhaseOK, SameOwners
  <2>. QED  BY <2>1, <2>2
<1>. QED  BY <1>11, <1>12, <1>13 DEF CaptureOK

\* Whose end is reported next.
LEMMA TopWhileLeaving ==
  ASSUME NEW up \in Nat, NEW down \in Nat, CaptureOK(up, down), scope # <<>>
  PROVE  \/ ~Capture!ReportsItsEnd(Capture!Top)
            /\ \A i \in 1 .. up : i <= up - down <=> 2 * i - 1 <= Len(scope) - 1
         \/ Capture!ReportsItsEnd(Capture!Top) /\ Capture!Top.owner = OwnerList[up - down]
            /\ down < up /\ \A i \in 1 .. up : i <= up - down - 1 <=> 2 * i - 1 <= Len(scope) - 1
<1>1. Len(scope) \in 1 .. 2 * OwnerCount /\ OwnerCount \in Nat /\ Capture!Top = scope[Len(scope)]
  BY CaptureFacts
<1>2. \A i \in 1 .. up : i <= up - down <=> 2 * i - 1 <= Len(scope)
  BY DEF CaptureOK, ReportsOK
<1>3. up \in 0 .. OwnerCount /\ down \in 0 .. up
  BY CaptureFacts
<1>4. PICK j \in 1 .. OwnerCount : Len(scope) = 2 * j - 1 \/ Len(scope) = 2 * j
  BY <1>1, ScopePlaces
<1>5. CASE Len(scope) = 2 * j
  <2>1. scope[2 * j] = OwnerAt(j)
    BY <1>5 DEF CaptureOK, ScopeOK
  <2>2. Capture!Top = OwnerAt(j)
    BY <1>1, <1>5, <2>1, Zenon
  <2>3. ~Capture!Top.isGuard
    BY <2>2, EntryFields, Zenon
  <2>4. ASSUME NEW i \in 1 .. up PROVE i <= up - down <=> 2 * i - 1 <= Len(scope) - 1
    <3>1. 2 * i - 1 <= 2 * j <=> 2 * i - 1 <= 2 * j - 1
      OBVIOUS
    <3>. QED  BY <1>2, <1>5, <3>1
  <2>. QED  BY <2>3, <2>4 DEF Capture!ReportsItsEnd
<1>6. CASE Len(scope) = 2 * j - 1 /\ j <= up
  <2>1. scope[2 * j - 1] = GuardOf(j, j <= up)
    BY <1>6 DEF CaptureOK, ScopeOK
  <2>2. Capture!Top = GuardOf(j, j <= up) /\ (j <= up) = TRUE
    BY <1>1, <1>6, <2>1
  <2>3. Capture!Top = GuardOf(j, TRUE)
    BY <2>2, Zenon
  <2>4. GuardOf(j, TRUE).isGuard /\ GuardOf(j, TRUE).armed = TRUE /\ GuardOf(j, TRUE).owner = OwnerList[j]
    BY EntryFields
  <2>5. Capture!Top.isGuard
    BY <2>3, <2>4, Zenon
  <2>6. Capture!Top.armed
    BY <2>3, <2>4, Zenon
  <2>7. Capture!Top.owner = OwnerList[j]
    BY <2>3, <2>4, Zenon
  <2>8. j = up - down
    <3>1. j <= up - down
      BY <1>2, <1>6
    <3>2. ~(j < up - down)
      <4>1. SUFFICES ASSUME j < up - down PROVE FALSE
        OBVIOUS
      <4>2. j + 1 \in 1 .. up /\ j + 1 <= up - down /\ ~(2 * (j + 1) - 1 <= Len(scope))
        BY <1>3, <1>6, <4>1
      <4>. QED  BY <1>2, <4>2
    <3>. QED  BY <1>3, <3>1, <3>2
  <2>9. down < up /\ \A i \in 1 .. up : i <= up - down - 1 <=> 2 * i - 1 <= Len(scope) - 1
    BY <1>3, <1>6, <2>8
  <2>. QED  BY <2>5, <2>6, <2>7, <2>8, <2>9 DEF Capture!ReportsItsEnd
<1>7. CASE Len(scope) = 2 * j - 1 /\ up < j
  <2>1. scope[2 * j - 1] = GuardOf(j, j <= up)
    BY <1>7 DEF CaptureOK, ScopeOK
  <2>2. Capture!Top = GuardOf(j, j <= up) /\ (j <= up) = FALSE
    BY <1>1, <1>3, <1>7, <2>1
  <2>3. Capture!Top = GuardOf(j, FALSE)
    BY <2>2, Zenon
  <2>4. GuardOf(j, FALSE).armed = FALSE
    BY EntryFields
  <2>5. ~Capture!Top.armed
    BY <2>3, <2>4, Zenon
  <2>6. \A i \in 1 .. up : i <= up - down <=> 2 * i - 1 <= Len(scope) - 1
    BY <1>2, <1>3, <1>7
  <2>. QED  BY <2>5, <2>6 DEF Capture!ReportsItsEnd
<1>. QED  BY <1>3, <1>4, <1>5, <1>6, <1>7

LEMMA DestroyKeepsOwners ==
  ASSUME NEW up \in Nat, NEW down \in Nat, CaptureOK(up, down), Capture!Destroy
  PROVE  CaptureOK(up, down)' \/ CaptureOK(up, down + 1)'
<1>1. /\ capturePc \in {"leaving", "unwinding"} /\ scope # <<>>
      /\ capturePc' = capturePc /\ workload' = workload
      /\ scope' = Capture!Front(scope)
      /\ reports' = IF Capture!ReportsItsEnd(Capture!Top)
                      THEN Append(reports, <<"destroyed", Capture!Top.owner>>) ELSE reports
  BY DEF Capture!Destroy
<1>2. /\ IsList(scope') /\ Len(scope') = Len(scope) - 1
      /\ \A k \in 1 .. Len(scope) - 1 : scope'[k] = scope[k]
      /\ Len(scope) \in 1 .. 2 * OwnerCount
  <2>1. Len(scope) > 0 /\ IsList(scope) /\ Len(scope) \in 1 .. 2 * OwnerCount
    BY <1>1, CaptureFacts
  <2>. QED  BY <1>1, <2>1, FrontKeepsList
<1>3. SameOwners
  BY <1>1, OwnersStay
<1>4. ScopeOK(up)'
  <2>1. ASSUME NEW i \in 1 .. OwnerCount, 2 * i - 1 <= Len(scope) - 1
        PROVE  scope'[2 * i - 1] = GuardOf(i, i <= up)
    <3>1. 2 * i - 1 \in 1 .. Len(scope) - 1 /\ 2 * i - 1 <= Len(scope)
      BY <1>2, <2>1
    <3>2. scope[2 * i - 1] = GuardOf(i, i <= up)
      BY <3>1 DEF CaptureOK, ScopeOK
    <3>. QED  BY <3>1, <3>2, <1>2, Zenon
  <2>2. ASSUME NEW i \in 1 .. OwnerCount, 2 * i <= Len(scope) - 1
        PROVE  scope'[2 * i] = OwnerAt(i)
    <3>1. 2 * i \in 1 .. Len(scope) - 1 /\ 2 * i <= Len(scope)
      BY <1>2, <2>2
    <3>2. scope[2 * i] = OwnerAt(i)
      BY <3>1 DEF CaptureOK, ScopeOK
    <3>. QED  BY <3>1, <3>2, <1>2, Zenon
  <2>3. Len(scope) - 1 <= 2 * OwnerCount
    BY <1>2, CaptureFacts
  <2>. QED  BY <1>2, <1>3, <2>1, <2>2, <2>3 DEF ScopeOK, SameOwners
<1>5. CapturePhaseOK(up, down)' /\ CapturePhaseOK(up, down + 1)'
  BY <1>1 DEF CaptureOK, CapturePhaseOK
<1>6. CASE ~Capture!ReportsItsEnd(Capture!Top)
  <2>1. \A i \in 1 .. up : i <= up - down <=> 2 * i - 1 <= Len(scope')
    BY <1>1, <1>2, <1>6, TopWhileLeaving
  <2>2. reports' = reports
    BY <1>1, <1>6
  <2>3. ReportsOK(up, down)'
    BY <1>3, <2>1, <2>2 DEF CaptureOK, ReportsOK, SameOwners
  <2>. QED  BY <1>4, <1>5, <2>3 DEF CaptureOK
<1>7. CASE Capture!ReportsItsEnd(Capture!Top)
  <2>1. /\ Capture!Top.owner = OwnerList[up - down] /\ down < up
        /\ \A i \in 1 .. up : i <= up - down - 1 <=> 2 * i - 1 <= Len(scope')
    BY <1>1, <1>2, <1>7, TopWhileLeaving
  <2>2. reports' = Append(reports, <<"destroyed", OwnerList[up - down]>>)
    BY <1>1, <1>7, <2>1
  <2>3. /\ IsList(reports') /\ Len(reports') = up + down + 1
        /\ \A k \in 1 .. up + down : reports'[k] = reports[k]
        /\ reports'[up + down + 1] = <<"destroyed", OwnerList[up - down]>>
    BY <2>2, CaptureFacts, AppendKeepsList
  <2>4. \A i \in 1 .. up : reports'[i] = <<"constructed", OwnerList[i]>>
    <3>1. \A i \in 1 .. up : reports[i] = <<"constructed", OwnerList[i]>>
      BY DEF CaptureOK, ReportsOK
    <3>2. \A i \in 1 .. up : i \in 1 .. up + down
      OBVIOUS
    <3>. QED  BY <2>3, <3>1, <3>2, Zenon
  <2>5. \A i \in 1 .. down + 1 : reports'[up + i] = <<"destroyed", OwnerList[up + 1 - i]>>
    <3>1. TAKE i \in 1 .. down + 1
    <3>2. CASE i = down + 1
      <4>1. up + i = up + down + 1 /\ up + 1 - i = up - down
        BY <3>2
      <4>. QED  BY <2>3, <4>1, Zenon
    <3>3. CASE i \in 1 .. down
      <4>1. reports[up + i] = <<"destroyed", OwnerList[up + 1 - i]>>
        BY <3>3 DEF CaptureOK, ReportsOK
      <4>2. up + i \in 1 .. up + down
        BY <3>3
      <4>. QED  BY <2>3, <4>1, <4>2, Zenon
    <3>. QED  BY <3>2, <3>3
  <2>6. up \in 0 .. OwnerCount /\ down + 1 \in 0 .. up /\ up + down + 1 = up + (down + 1)
        /\ \A i \in 1 .. up : i <= up - (down + 1) <=> 2 * i - 1 <= Len(scope')
    BY <2>1, CaptureFacts
  <2>7. ReportsOK(up, down + 1)'
    BY <1>3, <2>3, <2>4, <2>5, <2>6 DEF ReportsOK, SameOwners
  <2>. QED  BY <1>4, <1>5, <2>7 DEF CaptureOK
<1>. QED  BY <1>6, <1>7

\* The other steps leave scope and reports alone.
LEMMA OthersKeepOwners ==
  ASSUME NEW up \in Nat, NEW down \in Nat, CaptureOK(up, down),
         UNCHANGED <<workload, scope, reports>>, CapturePhaseOK(up, down)'
  PROVE  CaptureOK(up, down)'
<1>1. SameOwners
  BY OwnersStay
<1>2. ScopeOK(up)'
  BY <1>1 DEF CaptureOK, ScopeOK, SameOwners
<1>3. ReportsOK(up, down)'
  BY <1>1 DEF CaptureOK, ReportsOK, SameOwners
<1>. QED  BY <1>2, <1>3 DEF CaptureOK

LEMMA CaptureStepKeepsOwners ==
  ASSUME NEW up \in Nat, NEW down \in Nat, CaptureOK(up, down), Capture!Step
  PROVE  \E u, d \in Nat : CaptureOK(u, d)'
<1>1. CASE Capture!Begin
  BY <1>1, BeginKeepsOwners
<1>2. CASE Capture!DeclareGuard
  BY <1>2, DeclareGuardKeepsOwners
<1>3. CASE Capture!ConstructOwner
  BY <1>3, ConstructOwnerKeepsOwners
<1>4. CASE Capture!Arm
  <2>1. up + 1 \in Nat
    OBVIOUS
  <2>. QED  BY <1>4, <2>1, ArmKeepsOwners
<1>5. CASE Capture!Destroy
  <2>1. down + 1 \in Nat
    OBVIOUS
  <2>. QED  BY <1>5, <2>1, DestroyKeepsOwners
<1>6. CASE Capture!Left
  <2>1. /\ capturePc' \in {"corpus", "failed"} /\ scope = <<>>
        /\ UNCHANGED <<workload, scope, reports>>
    BY <1>6 DEF Capture!Left
  <2>2. CapturePhaseOK(up, down)'
    BY <2>1 DEF CaptureOK, CapturePhaseOK
  <2>. QED  BY <2>1, <2>2, OthersKeepOwners
<1>7. CASE Capture!Throw
  <2>1. capturePc' = "unwinding" /\ UNCHANGED <<workload, scope, reports>>
    BY <1>7 DEF Capture!Throw
  <2>2. CapturePhaseOK(up, down)'
    BY <2>1 DEF CaptureOK, CapturePhaseOK
  <2>. QED  BY <2>1, <2>2, OthersKeepOwners
<1>8. CASE Capture!Observe
  <2>1. capturePc' = capturePc /\ UNCHANGED <<workload, scope, reports>>
    BY <1>8 DEF Capture!Observe
  <2>2. SameOwners
    BY <2>1, OwnersStay
  <2>3. CapturePhaseOK(up, down)'
    BY <2>1, <2>2 DEF CaptureOK, CapturePhaseOK, SameOwners
  <2>. QED  BY <2>1, <2>3, OthersKeepOwners
<1>9. CASE Capture!ReservoirComplete
  <2>1. capturePc' = "leaving" /\ UNCHANGED <<workload, scope, reports>>
    BY <1>9 DEF Capture!ReservoirComplete
  <2>2. CapturePhaseOK(up, down)'
    BY <2>1 DEF CaptureOK, CapturePhaseOK
  <2>. QED  BY <2>1, <2>2, OthersKeepOwners
<1>10. CASE Capture!AppendTail
  <2>1. capturePc = "corpus" /\ capturePc' = capturePc /\ UNCHANGED <<workload, scope, reports>>
    BY <1>10 DEF Capture!AppendTail
  <2>2. CapturePhaseOK(up, down)'
    BY <2>1 DEF CaptureOK, CapturePhaseOK
  <2>. QED  BY <2>1, <2>2, OthersKeepOwners
<1>11. CASE Capture!CorpusConstructed
  <2>1. capturePc = "corpus" /\ capturePc' = "done" /\ UNCHANGED <<workload, scope, reports>>
    BY <1>11 DEF Capture!CorpusConstructed
  <2>2. CapturePhaseOK(up, down)'
    BY <2>1 DEF CaptureOK, CapturePhaseOK
  <2>. QED  BY <2>1, <2>2, OthersKeepOwners
<1>. QED
  BY <1>1, <1>2, <1>3, <1>4, <1>5, <1>6, <1>7, <1>8, <1>9, <1>10, <1>11 DEF Capture!Step

LEMMA NoOwnersYet ==
  ASSUME OwnersFacts', workload' = "none", capturePc' = "idle", scope' = <<>>, reports' = <<>>
  PROVE  CaptureOK(0, 0)'
<1>1. ScopeOK(0)' /\ ReportsOK(0, 0)'
  BY EmptyScopeIsOK
<1>2. CapturePhaseOK(0, 0)'
  BY DEF CapturePhaseOK
<1>. QED  BY <1>1, <1>2 DEF CaptureOK

LEMMA InitOwnersInv == ASSUME BenchmarkInit PROVE OwnersInv
<1>1. workload = "none" /\ capturePc = "idle" /\ scope = <<>> /\ reports = <<>>
  BY DEF BenchmarkInit, Capture!Init
<1>2. OwnerCount = 0
  BY <1>1, OwnersAreDifferent
<1>3. IsList(scope) /\ Len(scope) = 0 /\ IsList(reports) /\ Len(reports) = 0
  BY <1>1, EmptyIsList
<1>4. ScopeOK(0)
  BY <1>2, <1>3 DEF ScopeOK
<1>5. ReportsOK(0, 0)
  BY <1>2, <1>3 DEF ReportsOK
<1>6. CapturePhaseOK(0, 0)
  BY <1>1 DEF CapturePhaseOK
<1>. QED  BY <1>1, <1>4, <1>5, <1>6 DEF OwnersInv, CaptureOK

LEMMA OwnersInvIsInductive == ASSUME OwnersInv, [BenchmarkNext]_benchmarkVars PROVE OwnersInv'
<1>1. PICK up \in Nat : \E down \in Nat : CaptureOK(up, down)
  BY DEF OwnersInv
<1>2. PICK down \in Nat : CaptureOK(up, down)
  BY <1>1
<1>3. ASSUME UNCHANGED captureVars, stage' \in {"verify", "time", "deltas"} => capturePc = "idle"
      PROVE  OwnersInv'
  <2>1. UNCHANGED <<workload, scope, reports, capturePc>>
    BY <1>3 DEF captureVars
  <2>2. SameOwners
    BY <2>1, OwnersStay
  <2>3. CapturePhaseOK(up, down)'
    BY <1>2, <2>1, <2>2 DEF CaptureOK, CapturePhaseOK, SameOwners
  <2>4. CaptureOK(up, down)'
    BY <1>2, <2>1, <2>3, OthersKeepOwners
  <2>. QED  BY <1>3, <2>1, <2>4 DEF OwnersInv
<1>4. CASE CaptureStep
  <2>1. \E u, d \in Nat : CaptureOK(u, d)'
    BY <1>2, <1>4, CaptureStepKeepsOwners DEF CaptureStep
  <2>2. stage' = "corpus"
    BY <1>4 DEF CaptureStep, tailVars
  <2>. QED  BY <2>1, <2>2 DEF OwnersInv
<1>5. CASE CorpusReady
  <2>1. workload' = "none" /\ capturePc' = "idle" /\ scope' = <<>> /\ reports' = <<>>
    BY <1>5 DEF CorpusReady
  <2>2. OwnersFacts'
    BY <2>1, OwnersOfNextWorkload
  <2>3. CaptureOK(0, 0)'
    BY <2>1, <2>2, NoOwnersYet
  <2>. QED  BY <2>1, <2>3 DEF OwnersInv
<1>6. CASE CaptureFails
  <2>1. UNCHANGED captureVars /\ stage' = "failed"
    BY <1>6 DEF CaptureFails
  <2>. QED  BY <1>3, <2>1
<1>7. CASE RunStep
  <2>1. UNCHANGED captureVars
    BY <1>7 DEF RunStep
  <2>2. stage' \in {"verify", "time", "deltas"} => stage \in {"verify", "time", "deltas"}
    <3>1. CASE ApplyDeltas
      BY <3>1 DEF ApplyDeltas
    <3>2. CASE ZeroTailBaseline
      BY <3>2 DEF ZeroTailBaseline
    <3>3. CASE Verify \/ BeginPasses \/ Time \/ EndTailPass
      BY <3>3 DEF Verify, BeginPasses, Time, EndTailPass
    <3>. QED  BY <1>7, <3>1, <3>2, <3>3 DEF RunStep
  <2>. QED  BY <1>3, <2>1, <2>2 DEF OwnersInv
<1>8. CASE BenchmarkEnded \/ UNCHANGED benchmarkVars
  <2>1. UNCHANGED captureVars /\ stage' = stage
    BY <1>8 DEF BenchmarkEnded, TailFinished, benchmarkVars, tailVars
  <2>. QED  BY <1>3, <2>1 DEF OwnersInv
<1>. QED  BY <1>4, <1>5, <1>6, <1>7, <1>8 DEF BenchmarkNext

\* How often the observer has been told of an owner.
LEMMA ReportsOfOwner ==
  ASSUME NEW up \in Nat, NEW down \in Nat, CaptureOK(up, down), NEW i \in 1 .. OwnerCount
  PROVE  /\ Capture!Reported("constructed", OwnerList[i]) = IF i <= up THEN 1 ELSE 0
         /\ Capture!Reported("destroyed", OwnerList[i]) = IF i <= up /\ up - down < i THEN 1 ELSE 0
<1> DEFINE Spots(k) == {n \in DOMAIN reports : reports[n] = <<k, OwnerList[i]>>}
<1>1. /\ \A n \in 1 .. up : reports[n] = <<"constructed", OwnerList[n]>>
      /\ \A n \in 1 .. down : reports[up + n] = <<"destroyed", OwnerList[up + 1 - n]>>
  BY DEF CaptureOK, ReportsOK
<1>2. DOMAIN reports = 1 .. up + down /\ up \in 0 .. OwnerCount /\ down \in 0 .. up /\ OwnerCount \in Nat
  BY CaptureFacts
<1>3. \A n, m \in 1 .. OwnerCount : OwnerList[n] = OwnerList[m] => n = m
  BY OwnersAreDifferent DEF CaptureOK, CapturePhaseOK
<1>4. ASSUME NEW k \in {"constructed", "destroyed"}
      PROVE  Capture!Reported(k, OwnerList[i]) = Cardinality(Spots(k))
  BY SameCountInCapture DEF Capture!Reported
<1>5. Spots("constructed") = IF i <= up THEN {i} ELSE {}
  <2>1. ASSUME NEW n \in 1 .. up PROVE reports[n] = <<"constructed", OwnerList[i]>> <=> n = i
    <3>1. n \in 1 .. OwnerCount
      BY <1>2
    <3>. QED  BY <1>1, <1>3, <3>1
  <2>2. ASSUME NEW n \in up + 1 .. up + down PROVE reports[n] # <<"constructed", OwnerList[i]>>
    <3>1. n - up \in 1 .. down /\ up + (n - up) = n
      OBVIOUS
    <3>2. reports[n] = <<"destroyed", OwnerList[up + 1 - (n - up)]>>
      BY <1>1, <3>1
    <3>. QED  BY <3>2
  <2>3. \A n \in 1 .. up + down : n \in 1 .. up \/ n \in up + 1 .. up + down
    OBVIOUS
  <2>4. i <= up => i \in 1 .. up + down
    OBVIOUS
  <2>5. ~(i <= up) => \A n \in 1 .. up : n # i
    OBVIOUS
  <2>. QED  BY <1>2, <2>1, <2>2, <2>3, <2>4, <2>5
<1>6. Spots("destroyed") = IF i <= up /\ up - down < i THEN {up + up + 1 - i} ELSE {}
  <2>1. ASSUME NEW n \in 1 .. up PROVE reports[n] # <<"destroyed", OwnerList[i]>>
    BY <1>1
  <2>2. ASSUME NEW n \in up + 1 .. up + down
        PROVE  reports[n] = <<"destroyed", OwnerList[i]>> <=> n = up + up + 1 - i
    <3>1. n - up \in 1 .. down /\ up + (n - up) = n /\ up + 1 - (n - up) \in 1 .. OwnerCount
      BY <1>2
    <3>2. reports[n] = <<"destroyed", OwnerList[up + 1 - (n - up)]>>
      BY <1>1, <3>1
    <3>3. reports[n] = <<"destroyed", OwnerList[i]>> <=> OwnerList[up + 1 - (n - up)] = OwnerList[i]
      BY <3>2
    <3>4. OwnerList[up + 1 - (n - up)] = OwnerList[i] <=> up + 1 - (n - up) = i
      BY <1>3, <3>1
    <3>. QED  BY <3>3, <3>4
  <2>3. \A n \in 1 .. up + down : n \in 1 .. up \/ n \in up + 1 .. up + down
    OBVIOUS
  <2>4. i <= up /\ up - down < i <=> up + up + 1 - i \in up + 1 .. up + down
    BY <1>2
  <2>5. up + 1 .. up + down \subseteq 1 .. up + down
    OBVIOUS
  <2>. QED  BY <1>2, <2>1, <2>2, <2>3, <2>4, <2>5
<1>7. \A n : Cardinality({n}) = 1
  BY FS_Singleton
<1>8. Cardinality({}) = 0
  BY FS_EmptySet
<1> HIDE DEF Spots
<1>. QED  BY <1>4, <1>5, <1>6, <1>7, <1>8

\* Which owners are in the scope.
LEMMA AliveInScope ==
  ASSUME NEW up \in Nat, NEW down \in Nat, CaptureOK(up, down), NEW i \in 1 .. OwnerCount
  PROVE  Capture!IsAlive(OwnerList[i]) <=> 2 * i <= Len(scope)
<1>1. Len(scope) \in 0 .. 2 * OwnerCount /\ DOMAIN scope = 1 .. Len(scope) /\ OwnerCount \in Nat
  BY CaptureFacts
<1>2. \A n, m \in 1 .. OwnerCount : OwnerList[n] = OwnerList[m] => n = m
  BY OwnersAreDifferent DEF CaptureOK, CapturePhaseOK
<1>3. ASSUME 2 * i <= Len(scope) PROVE Capture!IsAlive(OwnerList[i])
  <2>1. scope[2 * i] = OwnerAt(i) /\ 2 * i \in DOMAIN scope
    BY <1>1, <1>3 DEF CaptureOK, ScopeOK
  <2>2. ~scope[2 * i].isGuard
    BY <2>1, EntryFields, Zenon
  <2>3. scope[2 * i].owner = OwnerList[i]
    BY <2>1, EntryFields, Zenon
  <2>. QED  BY <2>1, <2>2, <2>3, Zenon DEF Capture!IsAlive
<1>4. ASSUME Capture!IsAlive(OwnerList[i]) PROVE 2 * i <= Len(scope)
  <2>1. PICK n \in DOMAIN scope : ~scope[n].isGuard /\ scope[n].owner = OwnerList[i]
    BY <1>4, Zenon DEF Capture!IsAlive
  <2>2. n \in 1 .. Len(scope) /\ n \in 1 .. 2 * OwnerCount
    BY <1>1, <2>1
  <2>3. PICK j \in 1 .. OwnerCount : n = 2 * j - 1 \/ n = 2 * j
    BY <1>1, <2>2, ScopePlaces
  <2>4. n # 2 * j - 1
    <3>1. SUFFICES ASSUME n = 2 * j - 1 PROVE FALSE
      OBVIOUS
    <3>2. scope[n] = GuardOf(j, j <= up)
      BY <2>2, <3>1 DEF CaptureOK, ScopeOK
    <3>3. GuardOf(j, j <= up).isGuard
      BY EntryFields
    <3>4. scope[n].isGuard
      BY <3>2, <3>3, Zenon
    <3>. QED  BY <2>1, <3>4, Zenon
  <2>5. scope[n] = OwnerAt(j)
    BY <2>2, <2>3, <2>4 DEF CaptureOK, ScopeOK
  <2>6. OwnerAt(j).owner = OwnerList[j]
    BY EntryFields
  <2>7. OwnerList[j] = OwnerList[i]
    BY <2>1, <2>5, <2>6, Zenon
  <2>8. j = i
    BY <1>2, <2>7
  <2>. QED  BY <2>2, <2>3, <2>4, <2>8
<1>. QED  BY <1>3, <1>4

\* In every run of the tail benchmark, for every source and limit, what a
\* corpus was captured from has been freed, and its end reported once and after
\* its construction, before the corpus is built and before anything is timed,
\* and also when the capture fails.
THEOREM OwnersAreAlwaysGoneFirst == BenchmarkSpec => []OwnersAreGoneFirst
<1>1. BenchmarkInit => OwnersInv
  BY InitOwnersInv
<1>2. OwnersInv /\ [BenchmarkNext]_benchmarkVars => OwnersInv'
  BY OwnersInvIsInductive
<1>3. OwnersInv => OwnersAreGoneFirst
  <2> SUFFICES ASSUME OwnersInv PROVE OwnersAreGoneFirst
    OBVIOUS
  <2>1. PICK up \in Nat : \E down \in Nat : CaptureOK(up, down)
    BY DEF OwnersInv
  <2>2. PICK down \in Nat : CaptureOK(up, down)
    BY <2>1
  <2>3. /\ Capture!Owners = OwnerList /\ Len(Capture!Owners) = OwnerCount /\ OwnerCount \in Nat
        /\ up \in 0 .. OwnerCount /\ down \in 0 .. up
    BY <2>2, CaptureFacts DEF OwnerCount
  <2>4. \A i \in 1 .. up : i <= up - down <=> 2 * i - 1 <= Len(scope)
    BY <2>2 DEF CaptureOK, ReportsOK
  <2>5. ASSUME NEW i \in 1 .. OwnerCount
        PROVE  /\ Capture!Reported("destroyed", OwnerList[i]) <= Capture!Reported("constructed", OwnerList[i])
               /\ Capture!Reported("constructed", OwnerList[i]) <= 1
               /\ Capture!Reported("destroyed", OwnerList[i]) > 0 => ~Capture!IsAlive(OwnerList[i])
               /\ capturePc = "sorting" =>
                    Capture!IsAlive(OwnerList[i]) /\ Capture!Reported("constructed", OwnerList[i]) = 1
               /\ capturePc \in {"corpus", "done", "failed"} =>
                    Capture!Reported("destroyed", OwnerList[i]) = Capture!Reported("constructed", OwnerList[i])
    <3>1. /\ Capture!Reported("constructed", OwnerList[i]) = IF i <= up THEN 1 ELSE 0
          /\ Capture!Reported("destroyed", OwnerList[i]) = IF i <= up /\ up - down < i THEN 1 ELSE 0
          /\ Capture!IsAlive(OwnerList[i]) <=> 2 * i <= Len(scope)
      BY <2>2, ReportsOfOwner, AliveInScope
    <3>2. Len(scope) \in Nat
      BY <2>2, CaptureFacts
    <3>3. Capture!Reported("destroyed", OwnerList[i]) > 0 => ~(2 * i <= Len(scope))
      <4>1. SUFFICES ASSUME Capture!Reported("destroyed", OwnerList[i]) > 0 PROVE ~(2 * i <= Len(scope))
        OBVIOUS
      <4>2. i <= up /\ up - down < i
        BY <3>1, <4>1
      <4>3. ~(2 * i - 1 <= Len(scope))
        BY <2>3, <2>4, <4>2
      <4>. QED  BY <3>2, <4>3
    <3>4. capturePc = "sorting" => i <= up /\ 2 * i <= Len(scope)
      BY <2>2, <2>3, <3>2 DEF CaptureOK, CapturePhaseOK
    <3>5. capturePc \in {"corpus", "done", "failed"} => (i <= up => up - down < i)
      <4>1. SUFFICES ASSUME capturePc \in {"corpus", "done", "failed"}, i <= up PROVE up - down < i
        OBVIOUS
      <4>2. Len(scope) = 0
        BY <2>2, <4>1 DEF CaptureOK, CapturePhaseOK
      <4>3. ~(i <= up - down)
        BY <2>4, <4>1, <4>2
      <4>. QED  BY <2>3, <4>3
    <3>. QED  BY <3>1, <3>3, <3>4, <3>5
  <2>6. capturePc \in {"idle", "corpus", "done", "failed"} => scope = <<>>
    BY <2>2 DEF CaptureOK, CapturePhaseOK
  <2>7. stage \in {"verify", "time"} => scope = <<>>
    BY <2>6 DEF OwnersInv
  <2>8. Capture!OwnersAreGoneFirst
    BY <2>3, <2>5, <2>6 DEF Capture!OwnersAreGoneFirst
  <2>. QED  BY <2>7, <2>8 DEF OwnersAreGoneFirst
<1>. QED  BY <1>1, <1>2, <1>3, PTL DEF BenchmarkSpec

(* The corpus. *)

LEMMA LeastOf ==
  ASSUME NEW S \in SUBSET Int, NEW m \in S, \A y \in S : m <= y
  PROVE  Capture!Min(S) = m
<1>1. \A x \in S : (\A y \in S : x <= y) => x = m
  <2>1. TAKE x \in S
  <2>2. SUFFICES ASSUME \A y \in S : x <= y PROVE x = m
    OBVIOUS
  <2>3. x <= m /\ m <= x /\ x \in Int /\ m \in Int
    BY <2>2
  <2>. QED  BY <2>3
<1>. QED  BY <1>1, Zenon DEF Capture!Min

LEMMA GreatestOf ==
  ASSUME NEW S \in SUBSET Int, NEW m \in S, \A y \in S : m >= y
  PROVE  Capture!Max(S) = m
<1>1. \A x \in S : (\A y \in S : x >= y) => x = m
  <2>1. TAKE x \in S
  <2>2. SUFFICES ASSUME \A y \in S : x >= y PROVE x = m
    OBVIOUS
  <2>3. x >= m /\ m >= x /\ x \in Int /\ m \in Int
    BY <2>2
  <2>. QED  BY <2>3
<1>. QED  BY <1>1, Zenon DEF Capture!Max

LEMMA OfTwo ==
  ASSUME NEW a \in Nat, NEW b \in Nat
  PROVE  /\ Capture!Min({a, b}) = IF a <= b THEN a ELSE b
         /\ Capture!Max({a, b}) = IF a <= b THEN b ELSE a
<1>1. CASE a <= b
  <2>1. Capture!Min({a, b}) = a
    BY <1>1, LeastOf
  <2>2. Capture!Max({a, b}) = b
    BY <1>1, GreatestOf
  <2>. QED  BY <1>1, <2>1, <2>2
<1>2. CASE ~(a <= b)
  <2>1. Capture!Min({a, b}) = b
    BY <1>2, LeastOf
  <2>2. Capture!Max({a, b}) = a
    BY <1>2, GreatestOf
  <2>. QED  BY <1>2, <2>1, <2>2
<1>. QED  BY <1>1, <1>2

\* A corpus of nothing.
LEMMA EmptyCorpus ==
  ASSUME observed = <<>>, selected = <<>>, nodes = <<>>, ranges = <<>>,
         extremes = [min |-> 0, max |-> 0], capturePc = "idle"
  PROVE  CorpusInv
<1>1. Limit \in Nat \ {0}
  BY CaptureAssumption DEF Capture!ConstantsAssumed
<1>2. ReservoirOK
  BY <1>1 DEF ReservoirOK, IsSizeList
<1>3. TailsOK
  BY EmptyIsList DEF TailsOK
<1>4. ExtremesOK
  BY DEF ExtremesOK
<1>. QED  BY <1>2, <1>3, <1>4 DEF CorpusInv

LEMMA EmptyCorpusAgain ==
  observed = <<>> /\ selected = <<>> /\ nodes = <<>> /\ ranges = <<>>
    /\ extremes = [min |-> 0, max |-> 0] /\ capturePc = "idle" => CorpusInv
BY EmptyCorpus

LEMMA EmptyCorpusNext ==
  ASSUME observed' = <<>>, selected' = <<>>, nodes' = <<>>, ranges' = <<>>,
         extremes' = [min |-> 0, max |-> 0], capturePc' = "idle"
  PROVE  CorpusInv'
<1>1. (observed = <<>> /\ selected = <<>> /\ nodes = <<>> /\ ranges = <<>>
         /\ extremes = [min |-> 0, max |-> 0] /\ capturePc = "idle" => CorpusInv)'
  BY EmptyCorpusAgain, PTL
<1>. QED  BY <1>1

\* Steps that leave the corpus alone.
LEMMA CorpusStays ==
  ASSUME CorpusInv, UNCHANGED <<observed, selected, nodes, ranges, extremes>>,
         capturePc' \in {"idle", "owners", "sorting"} => capturePc \in {"idle", "owners", "sorting"},
         capturePc' = "done" => Len(ranges) = Len(selected)
  PROVE  CorpusInv'
<1>1. ReservoirOK'
  BY DEF CorpusInv, ReservoirOK
<1>2. TailsOK'
  BY DEF CorpusInv, TailsOK
<1>3. ExtremesOK'
  BY DEF CorpusInv, ExtremesOK
<1>. QED  BY <1>1, <1>2, <1>3 DEF CorpusInv

\* While no tail is in the corpus, only the reservoir matters.
LEMMA TailsStay ==
  ASSUME CorpusInv, ranges = <<>>, UNCHANGED <<nodes, ranges, extremes>>, ReservoirOK', capturePc' # "done"
  PROVE  CorpusInv'
<1>1. Len(ranges) = 0 /\ Len(selected') \in Nat
  BY DEF ReservoirOK, IsSizeList
<1>2. TailsOK'
  BY <1>1 DEF CorpusInv, TailsOK
<1>3. ExtremesOK'
  BY <1>1 DEF CorpusInv, ExtremesOK
<1>. QED  BY <1>2, <1>3 DEF CorpusInv

LEMMA BeginKeepsCorpus == ASSUME CorpusInv, Capture!Begin PROVE CorpusInv'
<1>1. capturePc = "idle" /\ ranges = <<>> /\ UNCHANGED <<nodes, ranges, extremes>>
  BY DEF Capture!Begin, Capture!corpus, CorpusInv, TailsOK
<1>2. CASE workload' = "synthetic"
  <2>1. PICK size \in 1 .. Threshold : observed' = [i \in 1 .. Limit |-> size]
    BY <1>2 DEF Capture!Begin
  <2>2. selected' = [i \in 1 .. Limit |-> i] /\ capturePc' = "corpus"
    BY <1>2 DEF Capture!Begin
  <2>3. Limit \in Nat \ {0} /\ size \in Nat \ {0}
    BY CaptureAssumption DEF Capture!ConstantsAssumed
  <2>4. observed' \in Seq(Nat \ {0}) /\ Len(observed') = Limit
    BY <2>1, <2>3
  <2>5. selected' \in Seq(Nat \ {0}) /\ Len(selected') = Limit
    BY <2>2, <2>3
  <2>6. ReservoirOK'
    BY <2>2, <2>3, <2>4, <2>5 DEF ReservoirOK, IsSizeList
  <2>. QED  BY <1>1, <2>2, <2>6, TailsStay
<1>3. CASE workload' # "synthetic"
  <2>1. capturePc' = "owners" /\ UNCHANGED <<observed, selected>>
    BY <1>3 DEF Capture!Begin
  <2>. QED  BY <1>1, <2>1, CorpusStays
<1>. QED  BY <1>2, <1>3

\* What the reservoir becomes.
LEMMA RetainedIs ==
  ASSUME NEW reservoir, NEW number, NEW slot
  PROVE  /\ slot = Len(reservoir) => Capture!Retained(reservoir, number, slot) = Append(reservoir, number)
         /\ slot # Len(reservoir) /\ slot < Len(reservoir) =>
              Capture!Retained(reservoir, number, slot) = [reservoir EXCEPT ![slot + 1] = number]
         /\ slot # Len(reservoir) /\ ~(slot < Len(reservoir)) =>
              Capture!Retained(reservoir, number, slot) = reservoir
BY DEF Capture!Retained

LEMMA ObserveKeepsReservoir == ASSUME ReservoirOK, Capture!Observe PROVE ReservoirOK'
<1> DEFINE n == Len(observed) + 1
           Positive == Nat \ {0}
<1>1. PICK size \in 2 .. Threshold : observed' = Append(observed, size)
  BY DEF Capture!Observe
<1>2. size \in Positive /\ observed \in Seq(Positive) /\ selected \in Seq(Positive) /\ Limit \in Nat \ {0}
  BY CaptureAssumption DEF ReservoirOK, IsSizeList, Capture!ConstantsAssumed
<1>3. observed' \in Seq(Positive) /\ Len(observed') = n /\ Len(observed) \in Nat /\ Len(selected) \in Nat /\ n \in Positive
  BY <1>1, <1>2
<1>4. PICK draw \in 0 .. n - 1 : selected' = Capture!Retained(selected, n, Capture!Slot(Len(selected), draw))
  BY <1>3 DEF Capture!Observe, Capture!Draws
<1>5. /\ Len(selected) = IF Len(observed) <= Limit THEN Len(observed) ELSE Limit
      /\ \A i \in 1 .. Len(selected) : selected[i] \in 1 .. Len(observed)
      /\ \A i, j \in 1 .. Len(selected) : selected[i] = selected[j] => i = j
  BY DEF ReservoirOK
<1> HIDE DEF n, Positive
<1>6. n = Len(observed) + 1 /\ Positive = Nat \ {0}
  BY DEF n, Positive
<1>7. \A i \in 1 .. Len(selected) : selected[i] \in 1 .. n /\ selected[i] # n
  <2>1. \A k \in 1 .. Len(observed) : k \in 1 .. n /\ k # n
    BY <1>3, <1>6
  <2>. QED  BY <1>5, <2>1, Zenon
<1>8. n \in 1 .. n
  BY <1>3, <1>6
<1>9. CASE Len(selected) < Limit
  <2>1. Capture!Slot(Len(selected), draw) = Len(selected)
    BY <1>9 DEF Capture!Slot
  <2>2. selected' = Append(selected, n)
    BY <1>4, <2>1, RetainedIs, Zenon
  <2>3. /\ selected' \in Seq(Positive) /\ Len(selected') = Len(selected) + 1
        /\ \A k \in 1 .. Len(selected) : selected'[k] = selected[k]
        /\ selected'[Len(selected) + 1] = n
    BY <1>2, <1>3, <2>2, AppendProperties
  <2>4. Len(selected') = IF n <= Limit THEN n ELSE Limit
    BY <1>2, <1>3, <1>5, <1>6, <1>9, <2>3
  <2>5. \A i \in 1 .. Len(selected') : i \in 1 .. Len(selected) \/ i = Len(selected) + 1
    BY <1>3, <2>3
  <2>6. \A i \in 1 .. Len(selected') : selected'[i] \in 1 .. n
    BY <1>7, <1>8, <2>3, <2>5, Zenon
  <2>7. \A i, j \in 1 .. Len(selected') : selected'[i] = selected'[j] => i = j
    <3>1. \A i \in 1 .. Len(selected) : selected'[i] # n
      BY <1>7, <2>3, Zenon
    <3>. QED  BY <1>5, <2>3, <2>5, <3>1, Zenon
  <2>. QED  BY <1>3, <1>6, <2>3, <2>4, <2>6, <2>7 DEF ReservoirOK, IsSizeList
<1>10. CASE Len(selected) >= Limit /\ draw < Limit
  <2>0. Len(selected) = Limit
    BY <1>2, <1>3, <1>5, <1>10
  <2>1. Capture!Slot(Len(selected), draw) = draw
    BY <1>10, <2>0, <1>2 DEF Capture!Slot
  <2>2. selected' = [selected EXCEPT ![draw + 1] = n]
    <3>1. draw # Len(selected) /\ draw < Len(selected)
      BY <1>10, <2>0, <1>2
    <3>2. Capture!Retained(selected, n, draw) = [selected EXCEPT ![draw + 1] = n]
      BY <3>1, RetainedIs
    <3>. QED  BY <1>4, <2>1, <3>2, Zenon
  <2>3. draw + 1 \in 1 .. Len(selected)
    BY <1>2, <1>10, <2>0
  <2>4. /\ selected' \in Seq(Positive) /\ Len(selected') = Len(selected) /\ selected'[draw + 1] = n
        /\ \A k \in 1 .. Len(selected) : k # draw + 1 => selected'[k] = selected[k]
    BY <1>2, <1>3, <2>2, <2>3
  <2>5. Len(selected') = IF n <= Limit THEN n ELSE Limit
    BY <1>2, <1>3, <1>5, <1>6, <1>10, <2>0, <2>4
  <2>6. \A i \in 1 .. Len(selected') : selected'[i] \in 1 .. n
    BY <1>7, <1>8, <2>4, Zenon
  <2>7. \A i, j \in 1 .. Len(selected') : selected'[i] = selected'[j] => i = j
    <3>1. \A i \in 1 .. Len(selected) : i # draw + 1 => selected'[i] # n
      BY <1>7, <2>4, Zenon
    <3>. QED  BY <1>5, <2>4, <3>1, Zenon
  <2>. QED  BY <1>3, <1>6, <2>4, <2>5, <2>6, <2>7 DEF ReservoirOK, IsSizeList
<1>11. CASE Len(selected) >= Limit /\ draw >= Limit
  <2>0. Len(selected) = Limit
    BY <1>2, <1>3, <1>5, <1>11
  <2>1. Capture!Slot(Len(selected), draw) = Limit + 1
    BY <1>11, <2>0, <1>2 DEF Capture!Slot, Capture!NoSlot
  <2>2. selected' = selected
    <3>1. Limit + 1 # Len(selected) /\ ~(Limit + 1 < Len(selected))
      BY <2>0, <1>2
    <3>2. Capture!Retained(selected, n, Limit + 1) = selected
      BY <3>1, RetainedIs
    <3>. QED  BY <1>4, <2>1, <3>2, Zenon
  <2>3. Len(selected') = IF n <= Limit THEN n ELSE Limit
    BY <1>2, <1>3, <1>5, <1>6, <1>11, <2>0, <2>2
  <2>4. \A i \in 1 .. Len(selected') : selected'[i] \in 1 .. n
    BY <1>7, <2>2, Zenon
  <2>. QED  BY <1>2, <1>3, <1>5, <1>6, <2>2, <2>3, <2>4 DEF ReservoirOK, IsSizeList
<1>. QED  BY <1>2, <1>3, <1>9, <1>10, <1>11

LEMMA ObserveKeepsCorpus == ASSUME CorpusInv, Capture!Observe PROVE CorpusInv'
<1>1. /\ capturePc = "sorting" /\ capturePc' = capturePc
      /\ UNCHANGED <<nodes, ranges, extremes>>
  BY DEF Capture!Observe, Capture!corpus
<1>2. ranges = <<>>
  BY <1>1 DEF CorpusInv, TailsOK
<1>3. ReservoirOK'
  BY ObserveKeepsReservoir DEF CorpusInv
<1>. QED  BY <1>1, <1>2, <1>3, TailsStay

\* The sizes of the tails.
LEMMA SizesOfTails ==
  ASSUME CorpusInv
  PROVE  /\ Len(ranges) \in Nat /\ Len(selected) \in Nat /\ Len(ranges) <= Len(selected)
         /\ \A i \in 1 .. Len(selected) : selected[i] \in Nat /\ observed[selected[i]] \in Nat \ {0}
<1>1. IsList(ranges) /\ Len(ranges) <= Len(selected)
  BY DEF CorpusInv, TailsOK
<1>2. Len(ranges) \in Nat
  BY <1>1, AppendKeepsList
<1>3. /\ selected \in Seq(Nat \ {0}) /\ observed \in Seq(Nat \ {0})
      /\ \A i \in 1 .. Len(selected) : selected[i] \in 1 .. Len(observed)
  BY DEF CorpusInv, ReservoirOK, IsSizeList
<1>4. \A k \in 1 .. Len(observed) : observed[k] \in Nat \ {0}
  BY <1>3
<1>5. Len(selected) \in Nat /\ \A i \in 1 .. Len(selected) : selected[i] \in Nat
  BY <1>3
<1>. QED  BY <1>1, <1>2, <1>3, <1>4, <1>5, Zenon

LEMMA NextTail ==
  ASSUME CorpusInv, Capture!AppendTail
  PROVE  /\ Len(ranges) \in Nat /\ Len(selected) \in Nat /\ Len(ranges) + 1 \in 1 .. Len(selected)
         /\ selected[Len(ranges) + 1] \in Nat
         /\ observed[selected[Len(ranges) + 1]] \in Nat \ {0}
<1>1. Len(ranges) < Len(selected)
  BY DEF Capture!AppendTail
<1>2. Len(ranges) + 1 \in 1 .. Len(selected)
  BY <1>1, SizesOfTails
<1>. QED  BY <1>2, SizesOfTails

LEMMA AppendKeepsTails == ASSUME CorpusInv, Capture!AppendTail PROVE TailsOK'
<1> DEFINE r == Len(ranges)
           tail == selected[r + 1]
           size == observed[tail]
           entry == [begin |-> Len(nodes), end |-> Len(nodes')]
<1>1. /\ capturePc = "corpus" /\ capturePc' = capturePc /\ UNCHANGED <<observed, selected>>
      /\ nodes' = nodes \o [i \in 1 .. size |-> tail]
      /\ ranges' = Append(ranges, entry)
  BY DEF Capture!AppendTail
<1>2. r \in Nat /\ Len(selected) \in Nat /\ r + 1 \in 1 .. Len(selected) /\ tail \in Nat /\ size \in Nat \ {0}
  BY NextTail
<1> DEFINE added == [i \in 1 .. size |-> tail]
<1> HIDE DEF tail, size
<1>3. added \in Seq(Nat) /\ Len(added) = size /\ \A i \in 1 .. size : added[i] = tail
  BY <1>2
<1> HIDE DEF added
<1>4. nodes' = nodes \o added
  BY <1>1 DEF added
<1>5. nodes \in Seq(Nat) /\ IsList(ranges)
  BY DEF CorpusInv, TailsOK
<1>6. /\ nodes' \in Seq(Nat) /\ Len(nodes') = Len(nodes) + size /\ Len(nodes) \in Nat
      /\ \A n \in 1 .. Len(nodes) : nodes'[n] = nodes[n]
      /\ \A n \in Len(nodes) + 1 .. Len(nodes) + size : nodes'[n] = tail
  <2>1. /\ nodes \o added \in Seq(Nat) /\ Len(nodes \o added) = Len(nodes) + size
        /\ \A n \in 1 .. Len(nodes) + size :
             (nodes \o added)[n] = IF n <= Len(nodes) THEN nodes[n] ELSE added[n - Len(nodes)]
    BY <1>3, <1>5, ConcatProperties
  <2>2. Len(nodes) \in Nat
    BY <1>5
  <2>3. ASSUME NEW n \in 1 .. Len(nodes) PROVE (nodes \o added)[n] = nodes[n]
    <3>1. n \in 1 .. Len(nodes) + size /\ n <= Len(nodes)
      BY <1>2, <2>2
    <3>. QED  BY <2>1, <3>1
  <2>4. ASSUME NEW n \in Len(nodes) + 1 .. Len(nodes) + size PROVE (nodes \o added)[n] = tail
    <3>1. n \in 1 .. Len(nodes) + size /\ ~(n <= Len(nodes)) /\ n - Len(nodes) \in 1 .. size
      BY <1>2, <2>2
    <3>2. (nodes \o added)[n] = added[n - Len(nodes)]
      BY <2>1, <3>1
    <3>. QED  BY <1>3, <3>1, <3>2
  <2>. QED  BY <1>4, <2>1, <2>2, <2>3, <2>4
<1>7. entry.begin = Len(nodes) /\ entry.end = Len(nodes')
  OBVIOUS
<1> HIDE DEF entry
<1>8. /\ IsList(ranges') /\ Len(ranges') = r + 1
      /\ \A i \in 1 .. r : ranges'[i] = ranges[i]
      /\ ranges'[r + 1] = entry
  BY <1>1, <1>5, AppendKeepsList
<1> DEFINE Size(i) == observed[selected[i]]
<1>9. size = Size(r + 1) /\ tail = selected[r + 1]
  BY DEF size, tail
<1> HIDE DEF r, Size
<1>10. /\ \A i \in 1 .. r :
            /\ ranges[i].begin \in Nat /\ ranges[i].end \in Nat
            /\ ranges[i].begin = IF i = 1 THEN 0 ELSE ranges[i - 1].end
            /\ ranges[i].end = ranges[i].begin + Size(i)
            /\ ranges[i].end <= Len(nodes)
            /\ \A n \in ranges[i].begin + 1 .. ranges[i].end : nodes[n] = selected[i]
       /\ Len(nodes) = IF r = 0 THEN 0 ELSE ranges[r].end
  <2>1. ranges = <<>> <=> r = 0
    BY <1>5 DEF r, IsList
  <2>. QED  BY <2>1 DEF CorpusInv, TailsOK, r, Size
<1>11. ASSUME NEW i \in 1 .. r + 1
       PROVE  /\ ranges'[i].begin \in Nat /\ ranges'[i].end \in Nat
              /\ ranges'[i].begin = IF i = 1 THEN 0 ELSE ranges'[i - 1].end
              /\ ranges'[i].end = ranges'[i].begin + Size(i)
              /\ ranges'[i].end <= Len(nodes')
              /\ \A n \in ranges'[i].begin + 1 .. ranges'[i].end : nodes'[n] = selected[i]
  <2>1. CASE i \in 1 .. r
    <3>1. ranges'[i] = ranges[i]
      BY <1>8, <2>1
    <3>2. i # 1 => ranges'[i - 1] = ranges[i - 1]
      <4>1. i # 1 => i - 1 \in 1 .. r
        BY <1>2, <2>1
      <4>. QED  BY <1>8, <4>1
    <3>3. ranges[i].begin \in Nat /\ ranges[i].end \in Nat /\ ranges[i].end <= Len(nodes)
      BY <1>10, <2>1
    <3>4. \A n \in ranges[i].begin + 1 .. ranges[i].end : nodes'[n] = selected[i]
      <4>1. \A n \in ranges[i].begin + 1 .. ranges[i].end : n \in 1 .. Len(nodes)
        BY <1>6, <3>3
      <4>. QED  BY <1>6, <1>10, <2>1, <4>1, Zenon
    <3>5. ranges[i].end <= Len(nodes')
      BY <1>2, <1>6, <3>3
    <3>. QED  BY <1>10, <2>1, <3>1, <3>2, <3>3, <3>4, <3>5
  <2>2. CASE i = r + 1
    <3>1. ranges'[i].begin = Len(nodes) /\ ranges'[i].end = Len(nodes')
      BY <1>7, <1>8, <2>2
    <3>2. Len(nodes) = IF i = 1 THEN 0 ELSE ranges'[i - 1].end
      <4>1. CASE r = 0
        BY <1>10, <2>2, <4>1
      <4>2. CASE r # 0
        <5>1. i - 1 = r /\ r \in 1 .. r /\ i # 1
          BY <1>2, <2>2, <4>2
        <5>. QED  BY <1>8, <1>10, <4>2, <5>1
      <4>. QED  BY <4>1, <4>2
    <3>3. \A n \in Len(nodes) + 1 .. Len(nodes') : nodes'[n] = selected[i]
      BY <1>6, <1>9, <2>2
    <3>4. Len(nodes) \in Nat /\ Len(nodes') \in Nat /\ Len(nodes') = Len(nodes) + Size(i) /\ Len(nodes') <= Len(nodes')
      BY <1>2, <1>6, <1>9, <2>2
    <3>. QED  BY <3>1, <3>2, <3>3, <3>4
  <2>. QED  BY <1>2, <2>1, <2>2
<1>12. Len(nodes') = ranges'[r + 1].end /\ ranges' # <<>> /\ r + 1 <= Len(selected)
  <2>1. Len(ranges') # 0
    BY <1>2, <1>8
  <2>. QED  BY <1>2, <1>7, <1>8, <2>1
<1>13. \A i : Size(i) = observed[selected[i]]
  BY DEF Size
<1>14. \A i \in 1 .. Len(ranges') :
         /\ ranges'[i].begin \in Nat /\ ranges'[i].end \in Nat
         /\ ranges'[i].begin = IF i = 1 THEN 0 ELSE ranges'[i - 1].end
         /\ ranges'[i].end = ranges'[i].begin + observed'[selected'[i]]
         /\ ranges'[i].end <= Len(nodes')
         /\ \A n \in ranges'[i].begin + 1 .. ranges'[i].end : nodes'[n] = selected'[i]
  BY <1>1, <1>8, <1>11, <1>13, Zenon
<1>. QED  BY <1>1, <1>6, <1>8, <1>12, <1>14 DEF TailsOK

LEMMA AppendKeepsExtremes == ASSUME CorpusInv, Capture!AppendTail PROVE ExtremesOK'
<1> DEFINE r == Len(ranges)
           Size(i) == observed[selected[i]]
           size == Size(r + 1)
           least == IF extremes.min = 0 THEN size ELSE extremes.min
<1>1. /\ capturePc' = "corpus" /\ UNCHANGED <<observed, selected>>
      /\ extremes' = [min |-> Capture!Min({least, size}), max |-> Capture!Max({extremes.max, size})]
      /\ ranges' = Append(ranges, [begin |-> Len(nodes), end |-> Len(nodes')])
  BY DEF Capture!AppendTail
<1>2. r \in Nat /\ r + 1 \in 1 .. Len(selected) /\ size \in Nat \ {0}
  BY NextTail
<1>3. IsList(ranges) /\ (ranges = <<>> <=> r = 0)
  BY DEF CorpusInv, TailsOK, IsList
<1>4. Len(ranges') = r + 1 /\ ranges' # <<>>
  <2>1. Len(ranges') = r + 1
    BY <1>1, <1>3, AppendKeepsList
  <2>2. Len(ranges') # 0
    BY <1>2, <2>1
  <2>. QED  BY <2>1, <2>2
<1>5. \A i \in 1 .. r : Size(i) \in Nat \ {0}
  <2>1. \A i \in 1 .. r : i \in 1 .. Len(selected)
    BY SizesOfTails
  <2>. QED  BY <2>1, SizesOfTails, Zenon
<1>6. /\ r = 0 => extremes.min = 0 /\ extremes.max = 0
      /\ r # 0 =>
           /\ \E i \in 1 .. r : extremes.min = Size(i)
           /\ \E i \in 1 .. r : extremes.max = Size(i)
           /\ \A i \in 1 .. r : extremes.min <= Size(i) /\ Size(i) <= extremes.max
  BY <1>3 DEF CorpusInv, ExtremesOK
<1> HIDE DEF r, Size
<1>7. /\ extremes'.min = IF r = 0 THEN size ELSE IF extremes.min <= size THEN extremes.min ELSE size
      /\ extremes'.max = IF r = 0 THEN size ELSE IF extremes.max <= size THEN size ELSE extremes.max
      /\ extremes' = [min |-> extremes'.min, max |-> extremes'.max]
  <2>1. CASE r = 0
    <3>1. least = size /\ extremes.max = 0 /\ size \in Nat
      BY <1>2, <1>6, <2>1
    <3>2. Capture!Min({least, size}) = size /\ Capture!Max({extremes.max, size}) = size
      <4> HIDE DEF least, size
      <4>1. size \in Nat /\ 0 \in Nat /\ size <= size /\ 0 <= size
        BY <3>1
      <4>2. /\ Capture!Min({size, size}) = IF size <= size THEN size ELSE size
            /\ Capture!Max({0, size}) = IF 0 <= size THEN size ELSE 0
        BY <4>1, OfTwo, Zenon
      <4>. QED  BY <3>1, <4>1, <4>2, Zenon
    <3>. QED  BY <1>1, <2>1, <3>2
  <2>2. CASE r # 0
    <3>1. extremes.min \in Nat \ {0} /\ extremes.max \in Nat /\ size \in Nat
      BY <1>2, <1>5, <1>6, <2>2
    <3>2. least = extremes.min
      BY <3>1
    <3> HIDE DEF least, size
    <3>3. /\ Capture!Min({extremes.min, size}) = IF extremes.min <= size THEN extremes.min ELSE size
          /\ Capture!Max({extremes.max, size}) = IF extremes.max <= size THEN size ELSE extremes.max
      BY <3>1, OfTwo
    <3>. QED  BY <1>1, <2>2, <3>2, <3>3
  <2>. QED  BY <2>1, <2>2
<1>8. \A i \in 1 .. r + 1 : i \in 1 .. r \/ i = r + 1
  BY <1>2
<1>9. /\ \E i \in 1 .. r + 1 : extremes'.min = Size(i)
      /\ \E i \in 1 .. r + 1 : extremes'.max = Size(i)
      /\ \A i \in 1 .. r + 1 : extremes'.min <= Size(i) /\ Size(i) <= extremes'.max
  <2>0. r + 1 \in 1 .. r + 1 /\ 1 .. r \subseteq 1 .. r + 1
    BY <1>2
  <2>1. CASE r = 0
    BY <1>2, <1>7, <2>1
  <2>2. CASE r # 0
    <3>1. extremes.min \in Nat /\ extremes.max \in Nat /\ size \in Nat
      BY <1>2, <1>5, <1>6, <2>2
    <3>2. extremes'.min = extremes.min \/ extremes'.min = Size(r + 1)
      BY <1>7, <2>2
    <3>3. extremes'.max = extremes.max \/ extremes'.max = Size(r + 1)
      BY <1>7, <2>2
    <3>4. \E i \in 1 .. r + 1 : extremes'.min = Size(i)
      BY <1>6, <2>0, <2>2, <3>2
    <3>5. \E i \in 1 .. r + 1 : extremes'.max = Size(i)
      BY <1>6, <2>0, <2>2, <3>3
    <3>6. /\ extremes'.min <= extremes.min /\ extremes'.min <= size
          /\ extremes.max <= extremes'.max /\ size <= extremes'.max
          /\ extremes'.min \in Nat /\ extremes'.max \in Nat
      BY <1>7, <2>2, <3>1
    <3>7. ASSUME NEW i \in 1 .. r + 1 PROVE extremes'.min <= Size(i) /\ Size(i) <= extremes'.max
      <4>1. CASE i = r + 1
        BY <3>6, <4>1
      <4>2. CASE i \in 1 .. r
        <5>1. extremes.min <= Size(i) /\ Size(i) <= extremes.max /\ Size(i) \in Nat
          BY <1>5, <1>6, <2>2, <4>2
        <5>. QED  BY <3>1, <3>6, <5>1
      <4>. QED  BY <1>8, <4>1, <4>2
    <3>. QED  BY <3>4, <3>5, <3>7
  <2>. QED  BY <2>1, <2>2
<1>. QED  BY <1>1, <1>4, <1>7, <1>9 DEF ExtremesOK, Size

LEMMA CaptureStepKeepsCorpus == ASSUME CorpusInv, Capture!Step PROVE CorpusInv'
<1>1. CASE Capture!Begin
  BY <1>1, BeginKeepsCorpus
<1>2. CASE Capture!Observe
  BY <1>2, ObserveKeepsCorpus
<1>3. CASE Capture!AppendTail
  <2>1. UNCHANGED <<observed, selected>>
    BY <1>3 DEF Capture!AppendTail
  <2>2. ReservoirOK'
    BY <2>1 DEF CorpusInv, ReservoirOK
  <2>. QED  BY <1>3, <2>2, AppendKeepsTails, AppendKeepsExtremes DEF CorpusInv
<1>4. CASE Capture!DeclareGuard \/ Capture!ConstructOwner \/ Capture!Destroy
  <2>1. capturePc' = capturePc /\ UNCHANGED <<observed, selected, nodes, ranges, extremes>>
    BY <1>4 DEF Capture!DeclareGuard, Capture!ConstructOwner, Capture!Destroy, Capture!corpus
  <2>. QED  BY <2>1, CorpusStays DEF CorpusInv, ExtremesOK
<1>5. CASE Capture!Arm
  <2>1. capturePc = "owners" /\ capturePc' \in {"owners", "sorting"}
        /\ UNCHANGED <<observed, selected, nodes, ranges, extremes>>
    BY <1>5 DEF Capture!Arm, Capture!corpus
  <2>. QED  BY <2>1, CorpusStays
<1>6. CASE Capture!Left \/ Capture!Throw \/ Capture!ReservoirComplete
  <2>1. capturePc' \in {"corpus", "failed", "unwinding", "leaving"}
        /\ UNCHANGED <<observed, selected, nodes, ranges, extremes>>
    BY <1>6 DEF Capture!Left, Capture!Throw, Capture!ReservoirComplete, Capture!corpus
  <2>. QED  BY <2>1, CorpusStays
<1>7. CASE Capture!CorpusConstructed
  <2>1. capturePc' = "done" /\ Len(ranges) = Len(selected)
        /\ UNCHANGED <<observed, selected, nodes, ranges, extremes>>
    BY <1>7 DEF Capture!CorpusConstructed, Capture!corpus
  <2>. QED  BY <2>1, CorpusStays
<1>. QED  BY <1>1, <1>2, <1>3, <1>4, <1>5, <1>6, <1>7 DEF Capture!Step

LEMMA CorpusInvIsInductive == ASSUME CorpusInv, [BenchmarkNext]_benchmarkVars PROVE CorpusInv'
<1>1. ASSUME UNCHANGED captureVars PROVE CorpusInv'
  <2>1. capturePc' = capturePc /\ UNCHANGED <<observed, selected, nodes, ranges, extremes>>
    BY <1>1 DEF captureVars
  <2>. QED  BY <2>1, CorpusStays DEF CorpusInv, ExtremesOK
<1>2. CASE CaptureStep
  BY <1>2, CaptureStepKeepsCorpus DEF CaptureStep
<1>3. CASE CorpusReady
  BY <1>3, EmptyCorpusNext DEF CorpusReady
<1>4. CASE CaptureFails \/ RunStep \/ BenchmarkEnded \/ UNCHANGED benchmarkVars
  <2>1. UNCHANGED captureVars
    BY <1>4 DEF CaptureFails, RunStep, BenchmarkEnded, benchmarkVars
  <2>. QED  BY <1>1, <2>1
<1>. QED  BY <1>2, <1>3, <1>4 DEF BenchmarkNext

\* In every run of the tail benchmark, for every limit and whatever ranges the
\* sort hands over, the reservoir holds as many of them as it may, each once,
\* and the corpus is their tails, one after the other, with the right extremes.
THEOREM CorpusAlwaysHoldsSelectedTails == BenchmarkSpec => []CorpusHoldsSelectedTails
<1>1. BenchmarkInit => CorpusInv
  BY EmptyCorpus DEF BenchmarkInit, Capture!Init
<1>2. CorpusInv /\ [BenchmarkNext]_benchmarkVars => CorpusInv'
  BY CorpusInvIsInductive
<1>3. CorpusInv => CorpusHoldsSelectedTails
  <2> SUFFICES ASSUME CorpusInv PROVE CorpusHoldsSelectedTails
    OBVIOUS
  <2>1. /\ observed \in Seq(Nat \ {0}) /\ selected \in Seq(Nat \ {0})
        /\ Len(selected) = IF Len(observed) <= Limit THEN Len(observed) ELSE Limit
        /\ \A i \in 1 .. Len(selected) : selected[i] \in 1 .. Len(observed)
        /\ \A i, j \in 1 .. Len(selected) : selected[i] = selected[j] => i = j
    BY DEF CorpusInv, ReservoirOK, IsSizeList
  <2>2. Len(selected) \in Nat /\ DOMAIN selected = 1 .. Len(selected)
        /\ Len(observed) \in Nat /\ DOMAIN observed = 1 .. Len(observed)
    BY <2>1
  <2>3. Len(selected) = Capture!Min({Len(observed), Limit})
    <3>1. Limit \in Nat
      BY CaptureAssumption DEF Capture!ConstantsAssumed
    <3>. QED  BY <2>1, <2>2, <3>1, OfTwo
  <2>4. Capture!IsInjective(selected) /\ Capture!ToSet(selected) \subseteq DOMAIN observed
    BY <2>1, <2>2 DEF Capture!IsInjective, Capture!ToSet
  <2>5. IsList(ranges) /\ DOMAIN ranges = 1 .. Len(ranges) /\ Len(ranges) \in Nat
    BY AppendKeepsList DEF CorpusInv, TailsOK
  <2>6. ASSUME NEW i \in DOMAIN ranges
        PROVE  /\ ranges[i].begin = IF i = 1 THEN 0 ELSE ranges[i - 1].end
               /\ ranges[i].end - ranges[i].begin = observed[selected[i]]
               /\ \A n \in ranges[i].begin + 1 .. ranges[i].end : nodes[n] = selected[i]
    <3>1. i \in 1 .. Len(ranges) /\ i \in 1 .. Len(selected)
      BY <2>5, SizesOfTails
    <3>2. observed[selected[i]] \in Nat
      BY <3>1, SizesOfTails
    <3>3. /\ ranges[i].begin \in Nat /\ ranges[i].end = ranges[i].begin + observed[selected[i]]
          /\ ranges[i].begin = IF i = 1 THEN 0 ELSE ranges[i - 1].end
          /\ \A n \in ranges[i].begin + 1 .. ranges[i].end : nodes[n] = selected[i]
      BY <3>1 DEF CorpusInv, TailsOK
    <3>4. ranges[i].end - ranges[i].begin = observed[selected[i]]
      BY <3>2, <3>3
    <3>. QED  BY <3>3, <3>4
  <2>7. ranges # <<>> => Capture!Last(ranges).end = Len(nodes)
    BY DEF CorpusInv, TailsOK, Capture!Last
  <2>8. ASSUME capturePc = "done"
        PROVE  LET sizes == {observed[selected[i]] : i \in DOMAIN selected}
               IN  /\ Len(ranges) = Len(selected)
                   /\ sizes # {} => extremes = [min |-> Capture!Min(sizes), max |-> Capture!Max(sizes)]
    <3> DEFINE sizes == {observed[selected[i]] : i \in DOMAIN selected}
    <3>1. Len(ranges) = Len(selected) /\ extremes = [min |-> extremes.min, max |-> extremes.max]
      BY <2>8 DEF CorpusInv, ExtremesOK
    <3>2. ASSUME sizes # {} PROVE Capture!Min(sizes) = extremes.min /\ Capture!Max(sizes) = extremes.max
      <4>1. ranges # <<>>
        <5>1. Len(selected) # 0
          BY <2>2, <3>2
        <5>. QED  BY <2>5, <3>1, <5>1
      <4>2. /\ \E i \in 1 .. Len(ranges) : extremes.min = observed[selected[i]]
            /\ \E i \in 1 .. Len(ranges) : extremes.max = observed[selected[i]]
            /\ \A i \in 1 .. Len(ranges) :
                 extremes.min <= observed[selected[i]] /\ observed[selected[i]] <= extremes.max
        BY <4>1 DEF CorpusInv, ExtremesOK
      <4>3. extremes.min \in sizes /\ extremes.max \in sizes
        BY <2>2, <3>1, <4>2
      <4>4. \A y \in sizes : y \in Nat /\ extremes.min <= y /\ y <= extremes.max
        BY <2>2, <3>1, <4>2, SizesOfTails
      <4> HIDE DEF sizes
      <4>5. sizes \in SUBSET Int /\ \A y \in sizes : extremes.max >= y
        BY <4>3, <4>4
      <4>6. Capture!Min(sizes) = extremes.min
        BY <4>3, <4>4, <4>5, LeastOf
      <4>7. Capture!Max(sizes) = extremes.max
        BY <4>3, <4>5, GreatestOf
      <4>. QED  BY <4>6, <4>7
    <3> HIDE DEF sizes
    <3>3. Len(ranges) = Len(selected)
          /\ (sizes # {} => extremes = [min |-> Capture!Min(sizes), max |-> Capture!Max(sizes)])
      BY <3>1, <3>2
    <3>. QED  BY <3>3 DEF sizes
  <2>. QED  BY <2>3, <2>4, <2>6, <2>7, <2>8 DEF CorpusHoldsSelectedTails, Capture!CorpusHoldsSelectedTails
<1>. QED  BY <1>1, <1>2, <1>3, PTL DEF BenchmarkSpec
=============================================================================
