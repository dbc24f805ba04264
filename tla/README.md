# A TLA+ model of forest-sorting

This directory models the `forest-sorting` library (header-only C++20, under
`src/include/forest_sorting`) and the core of its benchmarks in TLA+, checks small instances with TLC, and
proves the properties that matter most with TLAPS for every value of the
constants. File and line references are to the repository.

The library orders the nodes of a forest by `depth || id`. A node has an id and
a parent id; the depth of a node is the number of its ancestors. The result must
be the same whatever order the nodes came in, and an input that is no forest
(duplicate id, parent cycle) must be refused and not sorted somehow.

## Inventory

The production code is single-threaded: nothing runs concurrently, nothing is
persisted, there are no messages and no timeouts. What is hard is elsewhere:
loops over several vectors whose indexes mean different things, explicit
stacks instead of recursion, buffers and counters that are reused without being
cleared, sorts that rely on the stability of other sorts, order that is
established in one phase and trusted in three later ones, and boundaries of
widths (8, 16, 24, 32 bits of depth, padded id chunks).

| component | source | state | operations | how it interacts |
|---|---|---|---|---|
| parent index | `detail/parent_index.hpp`, `validation.hpp`, `parent_sentinel.hpp` | ids, queries and their child indexes, two permutations, two offsets | collect, sort both, reject duplicates, merge join | calls the id radix sort twice on one workspace; hands parents to the depth pass and the id permutation to the grouping |
| id radix sort | `detail/id_radix.hpp`, `radix_counts.hpp`, `id_small_sort.hpp` | the permutation, a stack of ranges, two buffers, counters, cached keys | sort a range by one chunk, split it, insert a small range | used by the parent index, by supplied depths, and by the tail capture of the benchmarks |
| id chunks and comparators | `detail/id_chunks.hpp`, `id_compare.hpp`, `id_permutation_compare.hpp` | none (cached copies of ids) | pack bytes, read chunks back, compare, choose the comparator | used by the sorts and the join |
| depth pass | `detail/depth.hpp` | a visit mark and a depth for each node, the stack of a walk, the maximum | walk to a root, unwind | reads the parent index; its maximum selects the widths of the next phases |
| depth grouping | `detail/order.hpp`, `adaptive_sort.hpp`, `radix.hpp` | the permutation and a scratch copy, a histogram or a stack of ranges | dense scatter, MSD partition | receives the id permutation and the depths and trusts both |
| in-place permutation | `algorithms.hpp` | the caller's nodes and the destination of each | swap along cycles | receives the order |
| verifier | `algorithms.hpp`, `detail/depth.hpp` | verified depths, ready marks, the previous node | one pass | uses the parent index, turns its errors into a verdict |
| public operations | `algorithms.hpp` | the pipeline of one call | order, order with supplied depths, copy, in place | composes all of the above |
| benchmark parent indexes | `benchmarks/support/full/**/parent_index_baselines.hpp`, `control_parent_baseline.hpp`, `hash_variants.hpp`, `parent_registry.*` | hash tables with tags and bounded probes, a prefix directory | insert, find, fall back to radix | compared with the production index |
| benchmark sort variants | `sort_baselines.hpp`, `adaptive_sort_variants.hpp`, `radix_ladder_variants.hpp`, `sort_registry.*` | as the production sorts | sort by depth and id in one of many ways | compared with the production order |
| full benchmark application | `forest_benchmark_app.cpp`, `forest_benchmark_options.cpp`, `forest_benchmark_output.hpp` | the matrix of cases, samples, the exit status | parse, plan, validate, time, report | runs the registered algorithms |
| tail microbenchmark | `benchmarks/support/tail` | corpora of small ranges, a reservoir, the owners alive during capture | capture, schedule, time, report | observes the production id sort |
| benchmark common support | `benchmarks/support/common` | selections, statistics, seeds | parse lists, schedule, summarise | used by both applications |
| traits and node types | `traits.hpp`, `uint128*.hpp`, `constants.hpp` | none | | what the traits return is an input here |
| demonstration program | `src/main.cpp`, `uint128_forest.hpp` | the nodes made so far | make a forest, sort, verify | calls the copying sort and hands its result to the verifier |
| build tooling, test tools | `cmake/`, `tests/tools` | files | | outside the program |

What makes each component correct:

- parent index: a node's parent is exactly the node that has its parent id;
  siblings share one; sentinels have none; duplicates never reach the join.
- id chunks and comparators: whatever the traits offer, whether ids are cached or
  not, every chunk and every comparison gives the order of the bytes.
- id radix sort: the result is in id order and stable, whatever used the
  workspace before; counters that are not reset are clean.
- depth pass: returns exactly for forests within the depth limit, with the true
  depths and their maximum; errors are never false alarms.
- depth grouping: stable by depth, the same from both algorithms, which tell
  their consumer of each depth once, in order, and of final positions only.
- in-place permutation: no node lost, the order reached, every swap settles one.
- verifier: accepts exactly what the sort would return.
- demonstration program: what it sorts it finds sorted, and it fails only for
  inputs the sort may refuse.
- public operations: each call is answered with the canonical order or an error,
  and an error leaves the caller's nodes alone.
- benchmark indexes and sorts: the same parents and the same order as the
  production code, or the comparison of times means nothing.
- benchmark applications: a sample is of the case and the pass it is reported
  for, and what is wrong is never timed or compared.
- tail capture: a uniform sample of the ranges, and no captured input in memory
  when the corpus is built.

## Modules

Each component has a module; proofs are in a module of their own that extends
it; `MC*` modules and configurations give the constants values.

| module | models | correspondence |
|---|---|---|
| `Depth` | `computeDepths` | one action per branch of the two inner loops; `visit`, `stack`, `depth`, `observedMax` are the code's vectors, `remaining` the step budget |
| `ParentIndex` | `buildParentIndexRadixJoinWithPermutationSorter`, `mergeJoinSortedPermutations`, `rejectAdjacentDuplicates` | collecting is one action per node, the join one action per advance, match or miss; the two sorts are taken by contract: any sorted permutation |
| `RadixJoin` | `buildParentIndexRadixJoinResultByMsdChunks` | `ParentIndex` with its two sorts replaced by the steps of `IdRadix` on one workspace, and equality and order by what the comparator answers; `sortedIds` keeps the first permutation while the second is sorted |
| `IdCompare` | `id_chunks.hpp`, `id_compare.hpp`, the comparators, the optional parts of `traits.hpp`, `UInt128Traits` | operators only: an id is the number its bytes spell, a cached id a function from chunk numbers to chunks; traits are a record of what the concepts detect: any positive width of ids, and hooks for any of the four chunk widths, dividing the id or not |
| `IdRadix` | `sortIndexRangeByIdMsdChunks` and all it calls, for several sorts on one workspace | a pass is three actions (count, scatter, clear) so that the counters can be seen between them; `scratch` holds both kinds of counters; `traits` and `joins` say how chunks and keys are read |
| `DepthWidth` | `depthPrefixBytesForMax`, `maxDepthForPrefix`: how many bytes the depths need | operators only, shared by `DepthGroup` and `ForestApi` |
| `DepthGroup` | `stableDepthGroupTrustedIdPermutation`, dense and MSD | the dense scatter is one action per node; the MSD partition one action per range; `ranges` is what the range consumer has been called with |
| `InPlaceSort` | the loops of `sortInPlaceByDepthAndId` | one action per swap; any order may have been computed |
| `VerifySorted` | `verifySortedByDepthAndId` | one action per node |
| `Demonstration` | `main`, with the functions for 128-bit ids, and any other caller of the verifier | one action per node made, one for the sort (by the promise in `ForestOrder`), then the steps of `VerifySorted` on what it returned |
| `GroupAndPlace` | the end of a sort: `DepthGroup` then `InPlaceSort` | the order the swaps follow is the one the grouping computed; what throws before them throws before the grouping |
| `ForestOrder` | the promise of the operations, without an algorithm | a call is pending, then returned or thrown |
| `ParentTable` | `ControlIdIndexTable`, `FlatIdIndex` and their builders | one action per node inserted or looked up and group of slots looked at; the hash is any function; `control` includes the repeated bytes past the last slot |
| `PrefixDirectory` | `buildRadixDirectoryIdMsdChunk32ParentArtifacts`, beside the tables of `ParentTable` | one action for the sort, one for the directory, one per halving of a search |
| `SmallSorts` | the sorts of `tail_sort_variants.hpp`: insertion by linear, binary and exponential search, by bits, shell | one action per place probed, halving, insertion and partition; `keys` are the cached ids beside the entries |
| `BenchmarkSupport` | what both benchmark programs take from `support/common` | no actions: the state of a run they share, and the schedule of its jobs |
| `BenchmarkRun` | `forest_benchmark_app.cpp` and the selectors of `forest_benchmark_options.cpp` | one action per argument, data set, parent job and sort job; a time is represented by what was measured when |
| `TailCapture` | `tail_corpus.hpp` | one action per construction, arming and destruction of an owner, per observed range and per appended tail |
| `TailRun` | `tail_benchmark_app.cpp` | one action per corpus, verification, timing and pass |
| `TailBenchmark` | `runTailBenchmark`: `TailCapture` for each corpus of `TailRun` | the steps of both, and the hand-over of a corpus or of its failure |
| `ForestApi` | the operations as pipelines | one action per phase; phases are taken by the contracts the modules above check; where a cycle and a chain past the limit both exist, the depth pass may report either |

`ForestApi` uses each component by the property its own module checks: the join
by `JoinIsExact` and `DuplicatesAreRejected`, the sort by `SortedStably`, the
depth pass by `ReturnsTrueDepths` and `ErrorsAreReal`, the grouping by
`ResultIsStable`, the swaps by `PlacedInOrder`. `ForestApi` implements
`ForestOrder` through the mapping at its end (`KeepsPromise`).

The modules of the benchmarks use the production ones in the same way: a search
that gives up in `ParentTable` answers with the parents of `ParentIndex`,
`BenchmarkRun` takes builders and sorts for right or wrong as a whole, and
`TailRun` the small sorts for stable or not (`SmallSorts` says which): an unstable
one passes or fails on each corpus, independently of the others.

Compositions that share state instead of a contract are those where things go
wrong between the parts: `GroupAndPlace`, `TailBenchmark` and `RadixJoin`
instantiate one component beside the one they extend, with the other's program
counter renamed, and interleave the steps of both as the calls do.

Two refinements close the gap between a contract and the code behind it.
`ForestApi` implements `ForestOrder`. `RadixJoin` implements `ParentIndex`
(`ImplementsParentIndex`): the steps of the two sorts stutter until the last, which
is the one step `SortBoth`; that both permutations are in id order then follows
from `IdRadix`, and that the comparator decides as the ids do from `IdCompare`.
So what is proved of `ParentIndex` holds of the production join wherever this
refinement does.

Definitions next to a modelled one whose comment speaks of a *mistake* are not
part of any specification; they are the plausible errors each property has been
checked to detect.

## Runs

| run | instance | shows |
|---|---|---|
| `MCDepth` | 4 nodes, every parent vector of 3 or 4 entries incl. a stray index and no parent, every sentinel set, limit 2 | the depth pass is exact: it returns for the forests within the limit and only for them; all inner states are consistent |
| `MCRadixJoin` | 3 nodes, ids and parent ids 0, 1, 2, 3, 5, sentinel 0; 3-byte ids in base 2, cached in chunks of 2 bytes, from bytes or by a hook, or not cached; one-byte sort chunks, insertion up to 2 | the join as production builds it, and that it implements `ParentIndex` |
| `MCIdRadix` | two sorts of 0..5 ids on one workspace, 4-byte ids, with and without hooks, and 5-byte ids, cached or not, with and without hooks (which leave a partial chunk), in 2-byte chunks, base 2, insertion up to 3, workspace counters up to 4 | the id sort in all three regimes, on ids and on cached ids, and its workspace |
| `MCGroupAndPlace` | 0, 1 or 4 nodes, every id permutation, depths 0, 2, 3, 5, base 2 | both groupings, one to three depth bytes, both sides of the dense limits, what they tell the consumer, and the swaps along every order they give |
| `MCDemonstration` | 4 nodes, ids and parent ids 0..4, limit 1 | the verifier is exact; the demonstration program verifies what it sorts and fails only for equal ids or a chain past the limit |
| `MCForestApi` | 0..3 nodes, every operation; supplied depths 0, 1, 2, 4, 15, 16, base 2 | the pipelines keep the promise, and the promise determines the answer; supplied depths of all four widths, at the limit and past it, too few and too many |
| `MCPrefixDirectory` | 0..3 nodes, tables of 1 to 8 slots, groups of 1, 2 and 8, hashes that collide or wrap round, limits of one and two groups; a directory of one prefix with three ids and one with one | the hash tables are exact in the presence of collisions, of groups wider than the table and of abandoned searches, and so is the search in the prefix directory |
| `MCSmallSorts` | 1, 5 and 6 entries, ids of two bits, scratch for 5, the gaps of the code | all seven small sorts, cached and direct |
| `MCBenchmarkRun` | 2 data sets, 2 parent builders, 2 sorts, 3 arguments, one warm-up, 2 iterations, 1 wrong result anywhere | samples and comparisons of the full benchmark |
| `MCTailBenchmark` | 2 corpora of up to 8 ids, reservoir of 2, ranges of 2 or 3, a failure anywhere; 3 algorithms of which 1 unstable, one warm-up, 2 iterations | reservoir, corpus and owners; verification and timing of what was captured |
| `MCInPlaceCycle` | as `MCForestApi` | a violation, see below |
| `MCSmallSortOracle` | as `MCSmallSorts` | a violation, see below |

Why the bounds are enough. The data that decides a branch is a comparison of
two ids, a digit, a depth against a limit, or a size against a threshold; the
instances take values on both sides of every one of these. A base of 2 instead
of 256 keeps all digit arithmetic and makes two, three and four digits
reachable; the thresholds (32 for insertion, 512 for workspace counters,
2^20 - 2 for the dense histogram, 2^32 - 1 for depths) are constants of the
modules, set to a few units. Four nodes are the fewest for which a walk can
meet a branch completed by an earlier walk *and* enter a cycle from a tail;
five ids are the fewest for a range that is counted locally, split, and
counted again in the workspace. Ids one byte longer than their cached chunks have
a padded last one, and sort chunks of half a cached chunk read both halves; three
ids are the fewest that the join counts in the workspace after a sort that did,
and three ids with one prefix the fewest for a search with a middle that is
neither end. The demonstration's chain of three nodes passes a limit of one. A table of eight slots with groups of eight has
its copies exactly once, one of four slots has groups that see slots twice; six
entries and gaps 3, 2, 1 or 7, 3, 1 give shell passes with more than one chain;
four observed ranges against a reservoir of two replace early and late entries;
two by two builders and sorts are the fewest for a row whose baseline differs
in every phase. What no finite instance shows (all sizes, all
ids) is what the proofs are for.

Fairness. `FairSpec` of a module and `SortSpec` of `GroupAndPlace` have weak
fairness on the one step of the program: the function runs on its caller's
thread and takes its next step if it has one. There is nothing else to be fair
to. Deadlock is checked in every run: the modules stutter explicitly once they
have returned, so a state without a step is one the code would be stuck in. The
modules of the benchmarks state safety only and no fairness.

### Divergences

`src/README.md:9` says of production behaviour that it "Computes parent-derived
depth and rejects cycles.", and `src/tests/forest_tests.cpp:247` requires a
single node that is its own parent to be refused by the copying sort. The
in-place sort returns at `algorithms.hpp:117` for at most one node before it
looks at parents, and accepts the same node. `MCInPlaceCycle` exhibits it
(`RejectsCycles`). `ForestOrder` states what the code does (`Trivial`).

The tail benchmark requires of every sorter it offers the result of
`std::stable_sort`, and calls anything else a failure
(`tail_benchmark_app.cpp:392`). The shell sorts it offers (`src/README.md:216`)
are not stable, and the parent ids of siblings are equal: on such a range a
shell sort is reported as failed (`MCSmallSortOracle`, `MatchesOracle`). The
order by id, which is all a caller of distinct ids needs, holds for them
(`SortsById`), and `TailRun` shows that the rows that fail are left out of all
timings and comparisons.

## Proofs

Proved for every value of the constants (any number of nodes, any ids, any
limit, any width), from the `ASSUME`s at the head of each module only. The
modules with proofs extend the module they are about.

- `DepthProofs`: `TypeOK`; `StackIsTheVisitingChain`; `DepthsConsistent` with
  `MaxInv` (the maximum is that of the depths recorded so far); `ErrorsAreReal`; `CompleteIsFinal`; `AcceptsNoCycle`; `ReturnsTrueDepths`. The
  inductive invariant is `DepthInv`: the stack is the chain of parents walked, its
  nodes are exactly those marked visiting, complete nodes are consistent with
  complete parents, and the budget left plus the stack is the node count. It is
  needed because a mark alone does not say *why* a node is visiting: that a marked
  node met again closes a cycle follows only from the chain, and that an exhausted
  budget means a cycle only from the pigeonhole on a chain that holds every node.
  `AcceptsNoCycle` then follows from a node of least depth in a closed set. That
  the depths are the true ones needs two more facts at every moment, `MaxInv` and `ThrowInv` (what an
  error says of the input); consistent depths are then compared with the count of links by an
  induction written out as "the set of counter-examples has no least depth".
- `DepthGroupProofs`, `GroupAndPlaceProofs`: the grouping and the swaps.
  `GroupKeepsNodes`, `RangesAreSeparated`, `RangesTileTheOrder`, `ResultIsStable`
  of the grouping, from the invariant `GroupInv`: every range on the stack holds the
  nodes that agree in the bytes above its own, in the order they came in; what is
  outside is in depth order; and the ranges told to the consumer end where the
  stack begins. A range is partitioned by closed forms for where a bucket starts
  (`BucketRanges`), the counting of entries below a digit. Of the swaps `NodesAreKept`
  with `DestinationsPermute` (`TypeCorrect`: both vectors stay permutations),
  `PlacedInOrder`, `SettledNodesStay`, whose invariant relates nodes to
  destinations: the node at a position is the one whose destination the vector
  holds there, and everything before the index is settled. Both together give
  `EndsGrouped`, and that a sort with the grouping in front of it implements the
  placing alone (`SortPlacesNodes`).
- `ForestApiProofs`: `DepthErrorsComeFirst`, `AnswerIsDetermined`, and that every
  operation implements `ForestOrder` step by step (`OperationsKeepThePromise`: the
  initial states and every step, that is the safety part of `KeepsPromise`). `ApiInv`
  says for each phase what the earlier ones have established; that two canonical
  orders are equal needs that a permutation without descents is the identity.
- `IdRadixProofs`: `CountersAreClear`. By itself it is not inductive: while a pass
  runs the counters are in use. `CountersInv` adds that an untouched counter is zero,
  and that the digits of the range are touched when the scatter begins.
  `RangesAreSeparated` and `SortedStably` rest on three arguments. (1) `IsChunk`:
  chunk `c` of an id is what follows its first `c` chunks, and every way of reading
  it (the `chunk_msb_first` hook, byte by byte, the cached chunk, half of a cached
  chunk) gives that number, also where the id ends inside it; hence the first chunk
  that differs decides as the ids do. (2) A counting pass, with local or with
  touched counters, sends every entry to its rank: how many entries have a smaller
  digit, or the same digit and came earlier. One pass more leaves the entries in
  line by one byte more of the chunk. (3) `SortInv`: ranges waiting are apart, the
  entries of each agree in the chunks before its own and are in the order they came
  in, and any two entries no range has both of are in their final order. It is the
  whole of (3) that is inductive: that a range may be left alone after insertion, or
  pushed in pieces after a pass, follows only because all pairs across ranges are
  settled already.
- `ParentIndexProofs`: `TypeOK`, `PassedIdsAreSmaller`, `DuplicatesAreRejected`,
  `JoinIsExact`. Every id passed is below every query to come, every query
  passed has its answer; sortedness of both permutations carries it on. Then the
  refinement `ImplementsParentIndex`: `RadixJoin` runs both sorts of `IdRadix` one
  after the other on one workspace and compares ids as the traits do, and every
  step of it is a step of `ParentIndex` or a stutter. `JoinInv` carries the invariants
  of the sort (those of `IdRadixProofs`, taken by an instance) and what the finished
  first sort left behind while the second one runs (`SortsOK`); that the comparator
  of the merge orders ids as numbers is a lemma of `IdRadixProofs`. The three facts
  of the join follow for the real sorts.
- `BenchmarkProofs`, the benchmarks. First `EntriesAreReachable` and `AgreesWithJoin`. `LookupInv` holds
  the number of entries against the capacity (there is always an empty slot), the
  copies of control bytes against their slots, and the parents found so far against
  the ids. A lookup that ends without a match met an empty slot; as every node lies
  behind full groups only, its id is absent. The prefix directory keeps the search
  bounds on both sides of the id sought. Then `SamplesArePaired` and
  `ComparisonsAreFair` of `BenchmarkRun`. `RunInv` knows for each row how many samples
  it has at any point of a pass, and from which passes (`SampleCount`, `SampleOK`),
  that its marks are what went wrong with its builder and its sort (`MarksOK`), and
  which data sets have been compared (`ComparedOK`). That no job writes the row of
  another rests on the arithmetic of `MatrixResultIndex` (`RowCoordinates`,
  `RowsHaveCoordinates`), and that a baseline is found on its being selected. Last
  the three properties of `TailBenchmark` that speak of one run. `OwnersInv`
  keeps two numbers: how many guards were armed, and how many have reported since.
  They determine the whole scope and every report, in each phase; a guard that reports
  is then the last armed one left, so that owners end in the reverse order of their
  construction, each once, also when a capture is left halfway by an exception.
  `CorpusInv` holds the reservoir against the ranges observed (a number that
  replaces another is new, so that none is kept twice) and each tail against its
  nodes; the extremes need that no observed range is empty, since zero stands for no tail
  yet. `TailInv` knows for each row whether its algorithm has been held against the
  oracle and which samples it has since (`MayBeTimed`, `TimedCount`).
- `SortedProofs`, what is held to an order: `TypeOK`, `AcceptedIsCanonical`, `RejectedIsNotCanonical`.
  The invariant speaks of *every* function that could be the depths: each agrees
  with the verified depths on the nodes passed. This avoids an induction over
  the forest. Then `DemonstrationVerifies`. That what the sort returns is accepted
  needs only that a stable answer of `ForestOrder` is canonical and stays so while it
  is verified (`DemonstrationInv`). That the sort fails for no other reason is the
  deeper half: parents are made before their children, so depths exist node by
  node unless a chain passes the limit (`DepthsExist`, which carries for each depth
  a chain of that length), and different ids can always be put in order
  (`OrderExists`: the place of a node is the number of nodes that come before it).
  Last `ProgressIsKept` and `SortsById` of `SmallSorts`, from `SorterInv`. An insertion
  is sound wherever its place comes from: `InsertionKeeps` asks only that the entries
  of the chain ahead of the place are not greater and those from it on are, which
  the linear scan, the probes further and further back and the halving each
  establish (`SearchOK`); entries of other chains of a shell pass do not move. Of the
  partition, two entries are settled, or some range to split holds both, agreeing in
  all bits before the range's own and in the order they came (`SplitOK`).
  A step places zeros and ones by their ranks, so that both stay in turn
  (`SplitSourceIs`), and the first bit in which two ids differ says which is smaller
  (`FirstBitDecides`, for any number of bits). That the ranges never outgrow the
  scratch follows from their beginnings being different places (`FewRanges`).

Each inductive invariant was an invariant of the module's run before it was proved.
`Power`, packed bytes, prefix sums and ranges pushed one by one are recursive functions;
the lemma `StepByStep` of `IdRadixProofs` (and of `SortedProofs`, for what the bits of an id
are worth) shows from least elements that a value built step by step exists, where the library's induction theorem cannot be used.

The assumptions say what the code's types and callers give: sizes, ids and depths
are numbers, a sentinel is no index, a radix has at least two digits.
`ParentIdsAssumption` of `ForestApi` says that nodes have some parent id (the type is
inhabited), `FingerprintsAssumption` of `ParentTable` that a control byte has at least
one value that is not the empty mark. `ZeroAssumption` of `Demonstration` is
`is_parent_sentinel` of 128-bit ids (`uint128.hpp:48`), `TraitsAssumption` of `IdRadix`
and `RadixJoin` is what the concepts of `traits.hpp` require (a positive number of bytes,
lines 52-57), `IdsAssumption` and `IdBytesAssumption` that the ids fit the bytes their traits
say they have, `BenchmarkAssumption` of
`BenchmarkRun` that registered names differ and hold the defaults, which
`forest_tests.cpp:78` tests. `PassesAssumption` of `BenchmarkSupport` is what the
options accept (no iterations are refused), `TailAssumption` and `CaptureAssumption` that
there is an algorithm to select, a reservoir has a place and the threshold lets the
small sorter have a range of two. `GapsAssumption` of `SmallSorts` is
`validShellGapSequence` (`tail_sort_variants.hpp:257`).

Only model-checked: liveness (`Terminates`, `AlwaysReturns`) and the fairness part of
`KeepsPromise`, which are beyond the prover; and `SelectionIsUniform`, which counts
sequences of draws, folding each into a reservoir, and so needs an induction over
their length.

## Not modelled

- Allocation failure (`std::bad_alloc`, `length_error`) anywhere; the vectors are
  as large as the code asks for.
- `requireFixedSmallSortCapacity` (`id_small_sort.hpp:84`): the production caller
  passes its own threshold as the capacity, so the error is unreachable from it.
- Traits that contradict themselves (`less`, `equal` or a chunk hook against bytes):
  `traits.hpp:82` makes consistency the caller's duty.
- The capacity error of `observe` in the tail capture, for the same reason, and
  `length_error` of `consumeCapturedTails`.
- Of the benchmarks: the sorts of the full benchmark and their ladders of chunk
  widths (their passes are those of `IdRadix` and `DepthGroup`, in other widths and
  orders; `BenchmarkRun` takes each for right or wrong), the index on
  `std::unordered_map`, patterns of synthetic ids and seeds, parsing of numbers,
  bootstrap and winner statistics (floating point), and all output. Random
  generators are a free choice among the values they are asked for.
- Input concepts of `traits.hpp` and `toHex`: compile-time checks and text.
- Build and test tooling: see the components in `PROJECT.json` for each reason.

## Plan

Done in this order, the most important behaviour first: depth pass, in-place
swaps, parent join, verifier, grouping, id sort, the operations and their
promise, hash tables, small sorts, benchmark runs, tail capture; then id chunks
and comparators, the join on the real sorts, the consumer of depth ranges, the
prefix directory and the demonstration program. Next:

1. `SortVariants`: the sorts of the full benchmark, each a composition of the
   passes of `IdRadix` and `DepthGroup`; promise: one order for all of them.
2. `Statistics`: the boundaries of medians, trimmed samples and the winner
   classification, on integers.
