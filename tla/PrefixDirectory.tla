--------------------------- MODULE PrefixDirectory ---------------------------
(***************************************************************************)
(* The parent indexes of the benchmarks that look parents up: the tables   *)
(* of ParentTable, and the prefix directory                                *)
(* (buildRadixDirectoryIdMsdChunk32ParentArtifacts, parent_registry.cpp),  *)
(* which sorts the ids as the radix join does, notes for every prefix of   *)
(* an id where the ids with it are, and searches a parent id in there by   *)
(* halves.                                                                 *)
(***************************************************************************)
EXTENDS ParentTable, FiniteSetsExt

CONSTANT PrefixSize  \* how many ids share a prefix: 256 ^ (16 - IdPrefixBytes)

ASSUME PrefixAssumption == Ids \subseteq Nat /\ PrefixSize \in Nat \ {0}

VARIABLES
  isDirectory,    \* whether parents are looked up in the directory
  idPermutation,  \* the nodes in the order of their ids
  directory,      \* for each prefix, the positions of the ids that have it
  low, high       \* the positions the search is left with

search == <<low, high>>
directoryVars == <<isDirectory, idPermutation, directory, search>>
allVars == <<vars, directoryVars>>

\* prefixDirectoryKey: the first chunk of an id.
Key(i) == i \div PrefixSize
Keys == {Key(i) : i \in Ids}
NoRange == [begin |-> 0, end |-> 0]

LookupInit ==
  /\ Init
  /\ isDirectory \in BOOLEAN
  /\ isDirectory => groupWidth = 1 /\ hash = CHOOSE h \in HashFunctions : TRUE
  /\ idPermutation = <<>>
  /\ directory = [k \in Keys |-> NoRange]
  /\ low = 0 /\ high = 0

UseTable == ~isDirectory /\ Next /\ UNCHANGED directoryVars

-----------------------------------------------------------------------------

\* The ids are sorted and duplicates refused, as IdRadix and ParentIndex do.
SortIds ==
  /\ isDirectory /\ pc = "insert"
  /\ IF IsInjective(id)
       THEN /\ idPermutation' = [p \in Nodes |-> CHOOSE n \in Nodes : Cardinality({m \in Nodes : id[m] < id[n]}) = p]
            /\ pc' = "directory"
       ELSE pc' = "throw" /\ idPermutation' = idPermutation
  /\ UNCHANGED <<inputs, nodeIdx, groupIndex, table, parentIndex, isDirectory, directory, search>>

\* Runs of equal prefixes, one after the other.
RangeOf(positions) ==
  IF positions = {} THEN NoRange ELSE [begin |-> Min(positions), end |-> Max(positions) + 1]

BuildDirectory ==
  /\ pc = "directory"
  /\ directory' = [k \in Keys |-> RangeOf({p \in Nodes : Key(id[idPermutation[p]]) = k})]
  /\ pc' = "look"
  /\ UNCHANGED <<inputs, nodeIdx, groupIndex, table, parentIndex, isDirectory, idPermutation, search>>

\* Only parent ids that are no sentinel were collected.
NotCollected ==
  /\ pc = "look" /\ nodeIdx < NodeCount /\ Wanted \in Sentinels
  /\ NextNode
  /\ UNCHANGED <<inputs, pc, table, parentIndex, directoryVars>>

BeginSearch ==
  /\ pc = "look" /\ nodeIdx < NodeCount /\ Wanted \notin Sentinels
  /\ low' = directory[Key(Wanted)].begin
  /\ high' = directory[Key(Wanted)].end
  /\ pc' = "halve"
  /\ UNCHANGED <<inputs, nodeIdx, groupIndex, table, parentIndex, isDirectory, idPermutation, directory>>

Mid == low + (high - low) \div 2

\* Where the lower half ends: before the middle, which may be the parent; the
\* mistake is to leave that out.
BeforeMid == IF Mid = low THEN low ELSE Mid - 1
UpToMid == Mid

Halve ==
  /\ pc = "halve" /\ low < high
  /\ IF id[idPermutation[Mid]] < Wanted THEN low' = Mid + 1 /\ high' = high
     ELSE low' = low /\ high' = UpToMid
  /\ UNCHANGED <<inputs, pc, nodeIdx, groupIndex, table, parentIndex, isDirectory, idPermutation, directory>>

SearchEnds ==
  /\ pc = "halve" /\ low >= high
  /\ parentIndex' =
       IF low < directory[Key(Wanted)].end /\ id[idPermutation[low]] = Wanted
         THEN [parentIndex EXCEPT ![nodeIdx] = idPermutation[low]]
         ELSE parentIndex
  /\ NextNode
  /\ pc' = "look"
  /\ UNCHANGED <<inputs, table, directoryVars>>

AllSearched ==
  /\ pc = "look" /\ nodeIdx = NodeCount
  /\ pc' = "done"
  /\ UNCHANGED <<inputs, nodeIdx, groupIndex, table, parentIndex, directoryVars>>

UseDirectory ==
  \/ SortIds \/ BuildDirectory \/ NotCollected \/ BeginSearch \/ Halve \/ SearchEnds
  \/ AllSearched
  \/ isDirectory /\ Returned /\ UNCHANGED directoryVars

LookupSpec == LookupInit /\ [][UseTable \/ UseDirectory]_allVars
=============================================================================
