---------------------------- MODULE ParentTable ----------------------------
(***************************************************************************)
(* The open-addressing hash tables the benchmarks compare the radix join   *)
(* with: ControlIdIndexTable (control_parent_baseline.hpp), which looks at *)
(* a group of control bytes at once, and FlatIdIndex                       *)
(* (parent_index_baselines.hpp), which looks at one slot.  All node ids    *)
(* are inserted, then every parent id is looked up.  Both searches give up *)
(* after some groups, and then the parents come from the radix join.       *)
(*                                                                         *)
(* The flat table is the table with groups of one slot, whose control byte *)
(* says only that the slot is occupied.  The bit tricks that find a byte   *)
(* in a group may also report a byte that differs in its lowest bit; its   *)
(* id is compared and differs, so such reports are left out.               *)
(***************************************************************************)
EXTENDS Naturals, FiniteSets, Functions

CONSTANTS
  Sizes,          \* nodes.size()
  Ids,            \* the ids nodes and parents may have
  Sentinels,      \* the ids the traits take for "no parent"
  NoParent,       \* no_parent
  HashFunctions,  \* traits.hash
  Fingerprints,   \* fingerprints are hashes modulo this; an empty slot has this control byte
  ProbeLimits     \* by the slots of a group: how many groups a search looks at

ASSUME SizesAssumption == Sizes \subseteq Nat
ASSUME HashAssumption == HashFunctions \subseteq [Ids -> Nat]
ASSUME NoParentAssumption == NoParent \notin Nat
ASSUME FingerprintsAssumption == Fingerprints \in Nat \ {0}
ASSUME LimitsAssumption ==
  DOMAIN ProbeLimits \subseteq Nat \ {0} /\ \A w \in DOMAIN ProbeLimits : ProbeLimits[w] \in Nat

VARIABLES
  id,           \* traits.id of each node
  parentId,     \* traits.parent_id of each node
  hash,         \* traits.hash
  groupWidth,   \* control_group_width, or 1 for the flat table
  pc,           \* "insert", "find", "fallback", "done" or "throw"
  nodeIdx,      \* the node being inserted or whose parent is looked up
  groupIndex,   \* groups this search has looked at
  control,      \* control_: one byte for each slot, the first ones repeated after the last
  slotNode,     \* nodeIndexes_, which also gives the id in a slot
  parentIndex   \* the result

inputs == <<id, parentId, hash, groupWidth>>
table == <<control, slotNode>>
vars == <<inputs, pc, nodeIdx, groupIndex, table, parentIndex>>

-----------------------------------------------------------------------------

Nodes == DOMAIN id
NodeCount == Cardinality(Nodes)

\* parentIndexTableCapacity: the smallest power of two above twice the nodes.
\* A power of two has no odd divisor but one.
IsPowerOfTwo(c) == \A d \in 1 .. c : d % 2 = 1 /\ c % d = 0 => d = 1
TableCapacity(items) == CHOOSE c \in 2 * items + 1 .. 4 * items + 1 : IsPowerOfTwo(c)

Capacity == TableCapacity(NodeCount)
Slots == 0 .. Capacity - 1

\* fingerprintForHash; the flat table's byte for an occupied slot.
Fingerprint(key) == IF groupWidth = 1 THEN 0 ELSE hash[key] % Fingerprints

\* The first slot of the group the search for a key is at, and the slot at an
\* offset from it.
GroupStart(key) == (hash[key] + groupIndex * groupWidth) % Capacity
SlotAt(key, offset) == (GroupStart(key) + offset) % Capacity

Offsets == 0 .. groupWidth - 1

\* controlGroupAt: the bytes of a group are read in one piece, past the last
\* slot where need be.
ControlAt(key, offset) == control[GroupStart(key) + offset]

EmptyOffsets(key) == {o \in Offsets : ControlAt(key, o) = Fingerprints}

MatchingNodes(key) ==
  {slotNode[SlotAt(key, o)] : o \in {p \in Offsets : ControlAt(key, p) = Fingerprint(key)}}

Holders(key) == {n \in MatchingNodes(key) : id[n] = key}

\* The control bytes after one is written, with its copy past the last slot
\* when it is in the first group; the mistake is to forget the copy.
WithoutCopy(slot, byte) == [control EXCEPT ![slot] = byte]
WithControl(slot, byte) ==
  [i \in DOMAIN control |->
     IF i = slot \/ (slot < groupWidth /\ i = Capacity + slot) THEN byte ELSE control[i]]

Init ==
  /\ \E size \in Sizes :
       /\ id \in [0 .. size - 1 -> Ids]
       /\ parentId \in [0 .. size - 1 -> Ids]
  /\ hash \in HashFunctions
  /\ groupWidth \in DOMAIN ProbeLimits
  /\ pc = "insert"
  /\ nodeIdx = 0
  /\ groupIndex = 0
  /\ control = [i \in 0 .. Capacity + groupWidth - 1 |-> Fingerprints]
  /\ slotNode = [s \in Slots |-> NoParent]
  /\ parentIndex = [n \in Nodes |-> NoParent]

\* The next node, with a search of its own.
NextNode == nodeIdx' = nodeIdx + 1 /\ groupIndex' = 0

-----------------------------------------------------------------------------
(* insertBounded *)

Searching(phase) ==
  pc = phase /\ nodeIdx < NodeCount /\ groupIndex < ProbeLimits[groupWidth]

GivesUp(phase) ==
  pc = phase /\ nodeIdx < NodeCount /\ groupIndex = ProbeLimits[groupWidth]

Duplicate ==
  /\ Searching("insert") /\ Holders(id[nodeIdx]) # {}
  /\ pc' = "throw"
  /\ UNCHANGED <<inputs, nodeIdx, groupIndex, table, parentIndex>>

\* The first empty slot of the group is taken.
Inserted ==
  /\ Searching("insert") /\ Holders(id[nodeIdx]) = {}
  /\ \E o \in EmptyOffsets(id[nodeIdx]) :
       /\ \A p \in EmptyOffsets(id[nodeIdx]) : o <= p
       /\ control' = WithControl(SlotAt(id[nodeIdx], o), Fingerprint(id[nodeIdx]))
       /\ slotNode' = [slotNode EXCEPT ![SlotAt(id[nodeIdx], o)] = nodeIdx]
  /\ NextNode
  /\ UNCHANGED <<inputs, pc, parentIndex>>

FullGroup ==
  /\ Searching("insert") /\ Holders(id[nodeIdx]) = {} /\ EmptyOffsets(id[nodeIdx]) = {}
  /\ groupIndex' = groupIndex + 1
  /\ UNCHANGED <<inputs, pc, nodeIdx, table, parentIndex>>

AllInserted ==
  /\ pc = "insert" /\ nodeIdx = NodeCount
  /\ pc' = "find" /\ nodeIdx' = 0
  /\ UNCHANGED <<inputs, groupIndex, table, parentIndex>>

-----------------------------------------------------------------------------
(* findBounded *)

Wanted == parentId[nodeIdx]

SkipSentinel ==
  /\ pc = "find" /\ nodeIdx < NodeCount /\ Wanted \in Sentinels
  /\ NextNode
  /\ UNCHANGED <<inputs, pc, table, parentIndex>>

Found ==
  /\ Searching("find") /\ Wanted \notin Sentinels
  /\ \E n \in Holders(Wanted) : parentIndex' = [parentIndex EXCEPT ![nodeIdx] = n]
  /\ NextNode
  /\ UNCHANGED <<inputs, pc, table>>

\* An empty slot ends the search: the id would have been put there.
NotFound ==
  /\ Searching("find") /\ Wanted \notin Sentinels
  /\ Holders(Wanted) = {} /\ EmptyOffsets(Wanted) # {}
  /\ NextNode
  /\ UNCHANGED <<inputs, pc, table, parentIndex>>

LookFurther ==
  /\ Searching("find") /\ Wanted \notin Sentinels
  /\ Holders(Wanted) = {} /\ EmptyOffsets(Wanted) = {}
  /\ groupIndex' = groupIndex + 1
  /\ UNCHANGED <<inputs, pc, nodeIdx, table, parentIndex>>

AllFound ==
  /\ pc = "find" /\ nodeIdx = NodeCount
  /\ pc' = "done"
  /\ UNCHANGED <<inputs, nodeIdx, groupIndex, table, parentIndex>>

-----------------------------------------------------------------------------
(* buildParentIndexRadixJoinResult, by the contract checked for ParentIndex. *)

IsParentOf(m, n) == parentId[n] \notin Sentinels /\ id[m] = parentId[n]

TrueParents ==
  [n \in Nodes |-> IF \E m \in Nodes : IsParentOf(m, n)
                     THEN CHOOSE m \in Nodes : IsParentOf(m, n) ELSE NoParent]

\* A search that gave up decides nothing; the mistake is to take it for a miss.
TakenForMiss == pc' = pc /\ nodeIdx' = nodeIdx + 1
Abandon == pc' = "fallback" /\ UNCHANGED nodeIdx

FallBack ==
  /\ GivesUp("insert") \/ GivesUp("find")
  /\ Abandon
  /\ groupIndex' = 0
  /\ UNCHANGED <<inputs, table, parentIndex>>

RadixJoin ==
  /\ pc = "fallback"
  /\ IF IsInjective(id)
       THEN pc' = "done" /\ parentIndex' = TrueParents
       ELSE pc' = "throw" /\ UNCHANGED parentIndex
  /\ UNCHANGED <<inputs, nodeIdx, groupIndex, table>>

Returned == pc \in {"done", "throw"} /\ UNCHANGED vars

Next ==
  \/ Duplicate \/ Inserted \/ FullGroup \/ AllInserted
  \/ SkipSentinel \/ Found \/ NotFound \/ LookFurther \/ AllFound
  \/ FallBack \/ RadixJoin \/ Returned

Spec == Init /\ [][Next]_vars

-----------------------------------------------------------------------------

\* Searches can stop at an empty slot (control_parent_baseline.hpp:135): each
\* node in the table is in a group its own search reaches within the limit and
\* before which every group is full, and the repeated control bytes agree with
\* those they repeat, so that a group read past the last slot is the group at
\* the first ones.
EntriesAreReachable ==
  /\ \A s \in Slots : s < groupWidth => control[Capacity + s] = control[s]
  /\ \A s \in Slots : slotNode[s] # NoParent =>
       \E g \in 0 .. ProbeLimits[groupWidth] - 1 :
         LET start(k) == hash[id[slotNode[s]]] + k * groupWidth
             group(k) == {(start(k) + o) % Capacity : o \in Offsets}
         IN  /\ s \in group(g)
             /\ \A k \in 0 .. g - 1 : \A t \in group(k) : slotNode[t] # NoParent

\* Whatever the hashes, and whether a search gives up or not, the tables refuse
\* the forests with equal ids and only them, and find the parents the radix
\* join finds: the benchmarks compare like with like.
AgreesWithJoin ==
  /\ pc = "throw" => ~IsInjective(id)
  /\ pc = "done" => IsInjective(id) /\ parentIndex = TrueParents
=============================================================================
