---------------------------- MODULE TailCapture -----------------------------
(***************************************************************************)
(* A corpus of the tail benchmark (tail_corpus.hpp): the ranges of ids that *)
(* the production sort hands to its small sorter are observed while it      *)
(* sorts the ids, or the parent ids, of a generated forest; a reservoir     *)
(* keeps some of them; and the corpus is built from these once everything   *)
(* needed to observe them has been freed.  A synthetic corpus is built at   *)
(* once.                                                                    *)
(*                                                                          *)
(* A range is represented by its number, in the order observed, and its     *)
(* size; the sort that finds the ranges is IdRadix.                         *)
(***************************************************************************)
EXTENDS Naturals, Sequences, SequencesExt, FiniteSets, FiniteSetsExt

CONSTANTS
  SourceSize,  \* how many ids are sorted
  Limit,       \* maxTailCount, tailCountLimit
  Threshold    \* small_id_range_sort_threshold

\* TailBenchmark states it.
ConstantsAssumed == SourceSize \in Nat /\ Limit \in Nat \ {0} /\ Threshold \in Nat \ {0, 1}

Workloads == {"synthetic", "node-ids", "parent-queries"}

\* The owners of memory, in the order of their construction.
OwnersOf(load) ==
  CASE load \in {"none", "synthetic"} -> <<>>
    [] load = "node-ids" -> <<"SourceForest", "RadixOrder", "RadixWorkspace">>
    [] load = "parent-queries" -> <<"SourceForest", "ParentQueries", "RadixOrder", "RadixWorkspace">>

VARIABLES
  workload,
  pc,        \* "idle", "owners", "sorting", "leaving", "unwinding", "corpus", "done" or "failed"
  scope,     \* guards and owners, in the order of their declaration
  reports,   \* what the lifecycle observer was told
  observed,  \* the size of each range observed
  selected,  \* the reservoir: the numbers of ranges
  nodes,     \* the nodes of the corpus: the number of the range each is from
  ranges,    \* [begin, end] of each tail
  extremes   \* [min, max] of the tail sizes

corpus == <<nodes, ranges, extremes>>
vars == <<workload, pc, scope, reports, observed, selected, corpus>>

Init ==
  /\ workload = "none" /\ pc = "idle"
  /\ scope = <<>> /\ reports = <<>> /\ observed = <<>> /\ selected = <<>>
  /\ nodes = <<>> /\ ranges = <<>> /\ extremes = [min |-> 0, max |-> 0]

\* materializeCorpus; the tails of a synthetic corpus have one size.
Begin ==
  /\ pc = "idle"
  /\ workload' \in Workloads
  /\ IF workload' = "synthetic"
       THEN /\ \E size \in 1 .. Threshold : observed' = [i \in 1 .. Limit |-> size]
            /\ selected' = [i \in 1 .. Limit |-> i]
            /\ pc' = "corpus"
       ELSE pc' = "owners" /\ UNCHANGED <<observed, selected>>
  /\ UNCHANGED <<scope, reports, corpus>>

-----------------------------------------------------------------------------
(* CaptureOwnerGuard: declared before its owner, armed after *)

Owners == OwnersOf(workload)
OwnedCount == Cardinality({i \in DOMAIN scope : ~scope[i].isGuard})
Top == scope[Len(scope)]

DeclareGuard ==
  /\ pc = "owners"
  /\ \A i \in DOMAIN scope : scope[i].isGuard => scope[i].armed
  /\ OwnedCount < Len(Owners)
  /\ scope' = Append(scope, [isGuard |-> TRUE, owner |-> Owners[OwnedCount + 1], armed |-> FALSE])
  /\ UNCHANGED <<workload, pc, reports, observed, selected, corpus>>

ConstructOwner ==
  /\ pc = "owners" /\ scope # <<>> /\ Top.isGuard
  /\ scope' = Append(scope, [isGuard |-> FALSE, owner |-> Top.owner, armed |-> FALSE])
  /\ UNCHANGED <<workload, pc, reports, observed, selected, corpus>>

Arm ==
  /\ pc = "owners" /\ scope # <<>> /\ ~Top.isGuard
  /\ LET guard == Len(scope) - 1
     IN  /\ ~scope[guard].armed
         /\ scope' = [scope EXCEPT ![guard].armed = TRUE]
         /\ reports' = Append(reports, <<"constructed", Top.owner>>)
  /\ pc' = IF OwnedCount = Len(Owners) THEN "sorting" ELSE "owners"
  /\ UNCHANGED <<workload, observed, selected, corpus>>

\* The mistake is to report the end of an owner that never was.
ReportsAnyway(entry) == entry.isGuard
ReportsItsEnd(entry) == entry.isGuard /\ entry.armed

\* Leaving a scope, by its end or by an exception, destroys the last declared
\* first.
Destroy ==
  /\ pc \in {"leaving", "unwinding"}
  /\ scope # <<>>
  /\ scope' = Front(scope)
  /\ reports' = IF ReportsItsEnd(Top) THEN Append(reports, <<"destroyed", Top.owner>>) ELSE reports
  /\ UNCHANGED <<workload, pc, observed, selected, corpus>>

Left ==
  /\ pc \in {"leaving", "unwinding"}
  /\ scope = <<>>
  /\ pc' = IF pc = "leaving" THEN "corpus" ELSE "failed"
  /\ UNCHANGED <<workload, scope, reports, observed, selected, corpus>>

\* Memory, a limit of the generator or a checkpoint of the observer.
Throw ==
  /\ pc \in {"owners", "sorting", "corpus"}
  /\ pc' = "unwinding"
  /\ UNCHANGED <<workload, scope, reports, observed, selected, corpus>>

-----------------------------------------------------------------------------
(* TerminalTailCollector *)

NoSlot == Limit + 1

\* What rng() % observedTailCount may be.
Draws(count) == 0 .. count - 1

\* selectReservoirSlot; the mistakes are to take one draw too many, and to draw
\* among the slots and not among the ranges.
SlotUpToLimit(size, draw) ==
  IF size < Limit THEN size ELSE IF draw <= Limit THEN draw ELSE NoSlot
SlotAlways(size, draw) == IF size < Limit THEN size ELSE draw % Limit
Slot(size, draw) ==
  IF size < Limit THEN size ELSE IF draw < Limit THEN draw ELSE NoSlot

Retained(reservoir, number, slot) ==
  CASE slot = Len(reservoir) -> Append(reservoir, number)
    [] slot < Len(reservoir) -> [reservoir EXCEPT ![slot + 1] = number]
    [] OTHER -> reservoir

IdsObserved == FoldLeft(LAMBDA x, y : x + y, 0, observed)

\* The sort calls the observer of a range of more than one id, and no id is in
\* two of them.
Observe ==
  /\ pc = "sorting"
  /\ \E size \in 2 .. Threshold :
       /\ IdsObserved + size <= SourceSize
       /\ observed' = Append(observed, size)
  /\ \E draw \in Draws(Len(observed')) :
       selected' = Retained(selected, Len(observed'), Slot(Len(selected), draw))
  /\ UNCHANGED <<workload, pc, scope, reports, corpus>>

ReservoirComplete ==
  /\ pc = "sorting"
  /\ pc' = "leaving"
  /\ UNCHANGED <<workload, scope, reports, observed, selected, corpus>>

-----------------------------------------------------------------------------
(* consumeCapturedTails, makeSyntheticCorpus: appendTail for each *)

AppendTail ==
  /\ pc = "corpus" /\ Len(ranges) < Len(selected)
  /\ LET tail == selected[Len(ranges) + 1]
         size == observed[tail]
     IN  /\ nodes' = nodes \o [i \in 1 .. size |-> tail]
         /\ ranges' = Append(ranges, [begin |-> Len(nodes), end |-> Len(nodes')])
         /\ extremes' = [min |-> Min({IF extremes.min = 0 THEN size ELSE extremes.min, size}),
                         max |-> Max({extremes.max, size})]
  /\ UNCHANGED <<workload, pc, scope, reports, observed, selected>>

CorpusConstructed ==
  /\ pc = "corpus" /\ Len(ranges) = Len(selected)
  /\ pc' = "done"
  /\ UNCHANGED <<workload, scope, reports, observed, selected, corpus>>

Finished == pc \in {"done", "failed"} /\ UNCHANGED vars

Step ==
  \/ Begin \/ DeclareGuard \/ ConstructOwner \/ Arm \/ Destroy \/ Left \/ Throw
  \/ Observe \/ ReservoirComplete
  \/ AppendTail \/ CorpusConstructed

Next == Step \/ Finished

Spec == Init /\ [][Next]_vars

-----------------------------------------------------------------------------

\* The reservoir holds as many of the observed ranges as it may, each once; the
\* tails of the corpus are these, each a run of its own nodes and no others,
\* one after the other without a gap; and the reported sizes are the extremes.
CorpusHoldsSelectedTails ==
  /\ Len(selected) = Min({Len(observed), Limit})
  /\ IsInjective(selected) /\ ToSet(selected) \subseteq DOMAIN observed
  /\ \A i \in DOMAIN ranges :
       /\ ranges[i].begin = IF i = 1 THEN 0 ELSE ranges[i - 1].end
       /\ ranges[i].end - ranges[i].begin = observed[selected[i]]
       /\ \A n \in ranges[i].begin + 1 .. ranges[i].end : nodes[n] = selected[i]
  /\ ranges # <<>> => Last(ranges).end = Len(nodes)
  /\ pc = "done" =>
       LET sizes == {observed[selected[i]] : i \in DOMAIN selected}
       IN  /\ Len(ranges) = Len(selected)
           /\ sizes # {} => extremes = [min |-> Min(sizes), max |-> Max(sizes)]

\* What the reservoir is after a sequence of draws, one for each range.
AfterDraws(draws) ==
  FoldLeftDomain(LAMBDA reservoir, k : Retained(reservoir, k, Slot(Len(reservoir), draws[k])), <<>>, draws)

DrawSequences(count) == {draws \in [1 .. count -> 0 .. count] : \A k \in 1 .. count : draws[k] \in Draws(k)}

\* Whatever number of ranges was observed, each is in the reservoir for as many
\* of the possible draws: the corpus is a uniform sample of the ranges, early
\* or late, and not of those the sort happened to visit first.
SelectionIsUniform ==
  pc = "leaving" /\ Len(observed) > 0 =>
    \A number \in DOMAIN observed :
      Cardinality({d \in DrawSequences(Len(observed)) : number \in ToSet(AfterDraws(d))}) * Len(observed)
        = Cardinality(DrawSequences(Len(observed))) * Len(selected)

IsAlive(owner) == \E i \in DOMAIN scope : ~scope[i].isGuard /\ scope[i].owner = owner
Reported(kind, owner) == Cardinality({i \in DOMAIN reports : reports[i] = <<kind, owner>>})

\* The observer hears of the end of an owner once, after it is really freed and
\* only if it was constructed, however the capture ends; during the sort all
\* are alive, and none is any more when the corpus is built, so that captured
\* inputs and corpus never stand in memory together.
OwnersAreGoneFirst ==
  /\ \A i \in 1 .. Len(Owners) :
       LET owner == Owners[i]
       IN  /\ Reported("destroyed", owner) <= Reported("constructed", owner)
           /\ Reported("constructed", owner) <= 1
           /\ Reported("destroyed", owner) > 0 => ~IsAlive(owner)
           /\ pc = "sorting" => IsAlive(owner) /\ Reported("constructed", owner) = 1
  /\ pc \in {"corpus", "done", "failed"} =>
       /\ scope = <<>>
       /\ \A i \in 1 .. Len(Owners) :
            Reported("destroyed", Owners[i]) = Reported("constructed", Owners[i])
=============================================================================
