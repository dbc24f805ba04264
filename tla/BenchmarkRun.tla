---------------------------- MODULE BenchmarkRun ----------------------------
(***************************************************************************)
(* A run of the full benchmark (forest_benchmark_app.cpp): the selectors   *)
(* of the command line, one row of results for each data set, parent       *)
(* builder and sort, the data sets in some order, the warm-up and recorded *)
(* passes over each with the parent builders first and then the sorts, in  *)
(* an order of its own per pass, and the comparison with the baselines.    *)
(*                                                                         *)
(* A time is represented by what was measured when: <<data set, parent     *)
(* builder, pass>>, and for a sort also the sort and the build whose       *)
(* artifacts it was given.  What a builder, a sort or the verifier returns *)
(* is right or wrong, and wrong at most MaxMismatches times in a run.      *)
(***************************************************************************)
EXTENDS BenchmarkSupport

CONSTANTS
  Contexts,       \* how many data sets (sizes, kinds and seeds) are selected
  Registry,       \* [parents, sorts]: all registered names
  Defaults,       \* [parents, sorts]: those selected without a selector
  NoName,         \* no baseline, or nothing built yet
  MaxArguments,   \* bound: selectors and baselines on the command line
  MaxMismatches   \* bound: wrong results of builders, sorts and verifier

Axes == {"parents", "sorts"}
Phases == {"parent", "sort", "pipeline"}

\* Registered names differ, and the defaults are among them.
ASSUME BenchmarkAssumption ==
  /\ Contexts \in Nat
  /\ DOMAIN Registry = Axes /\ DOMAIN Defaults = Axes
  /\ \A axis \in Axes :
       /\ Defaults[axis] # <<>>
       /\ \A names \in {Registry[axis], Defaults[axis]} :
            names \in Seq(ToSet(Registry[axis])) /\ IsInjective(names)

\* baseline: baselineParent and baselineSort; stage: "options", "context",
\* "parents", "sorts", "baselines", "done" or "failed"; samples by phase.
VARIABLES
  arguments,    \* how many arguments were read
  selection,    \* options.parents and options.sorts
  selectorSeen, \* whether the curated defaults were cleared
  context,      \* the data set being run
  jobs,         \* the jobs of this phase of the pass still to run
  artifacts,    \* what each parent job retained
  elapsedMs,    \* the time of each parent job
  case,         \* what each row is about
  comparison,   \* the comparison status of each row, by phase
  available,    \* whether a delta is shown for it
  wrong         \* what has gone wrong so far, whether a row tells or not

options == <<selection, selectorSeen, baseline, shuffle>>
parentJobs == <<artifacts, elapsedMs>>
results == <<case, samples, status, comparison, available>>
runVars == <<arguments, options, stage, waiting, context, pass, jobs, parentJobs, results, wrong>>

-----------------------------------------------------------------------------
(* parseOptions *)

RunInit ==
  /\ arguments = 0
  /\ selection = Defaults
  /\ selectorSeen = [axis \in Axes |-> FALSE]
  /\ baseline = [axis \in Axes |-> NoName]
  /\ shuffle \in BOOLEAN
  /\ stage = "options"
  /\ waiting = {} /\ context = 0 /\ pass = 0 /\ jobs = {}
  /\ artifacts = <<>> /\ elapsedMs = <<>>
  /\ case = <<>> /\ samples = <<>> /\ status = <<>> /\ comparison = <<>> /\ available = <<>>
  /\ wrong = {}

\* applyRegistrySelection: the first selector clears the defaults.
Selected(axis, value) ==
  CASE value = "default" -> Defaults[axis]
    [] value = "all" -> Registry[axis]
    [] OTHER -> AppendUnique(IF selectorSeen[axis] THEN selection[axis] ELSE <<>>, value)

ReadSelector ==
  /\ stage = "options" /\ arguments < MaxArguments
  /\ \E axis \in Axes : \E value \in ToSet(Registry[axis]) \cup {"default", "all"} :
       /\ selection' = [selection EXCEPT ![axis] = Selected(axis, value)]
       /\ selectorSeen' = [selectorSeen EXCEPT ![axis] = TRUE]
  /\ arguments' = arguments + 1
  /\ UNCHANGED <<baseline, shuffle, stage, waiting, context, pass, jobs, parentJobs, results, wrong>>

ReadBaseline ==
  /\ stage = "options" /\ arguments < MaxArguments
  /\ \E axis \in Axes : \E name \in ToSet(Registry[axis]) : baseline' = [baseline EXCEPT ![axis] = name]
  /\ arguments' = arguments + 1
  /\ UNCHANGED <<selection, selectorSeen, shuffle, stage, waiting, context, pass, jobs, parentJobs, results, wrong>>

-----------------------------------------------------------------------------
(* initializeBenchmarkResults *)

Parents == selection.parents
Sorts == selection.sorts
ParentJobs == 0 .. Len(Parents) - 1
SortJobs == 0 .. Len(Parents) * Len(Sorts) - 1

ResultBegin(descriptor) == descriptor * Len(Parents) * Len(Sorts)

\* The row of a parent builder and a sort; the mistake is to step by the
\* number of builders.
StepByParents(parent, sort) == ResultBegin(context) + parent * Len(Parents) + sort
MatrixResultIndex(parent, sort) == ResultBegin(context) + parent * Len(Sorts) + sort

Cases ==
  [r \in 0 .. Contexts * Len(selection'.parents) * Len(selection'.sorts) - 1 |->
     LET s == selection'.sorts p == selection'.parents
     IN  [context |-> r \div (Len(p) * Len(s)),
          parent |-> p[((r \div Len(s)) % Len(p)) + 1],
          sort |-> s[(r % Len(s)) + 1]]]

ForEachRow(value) == [r \in DOMAIN case' |-> [phase \in Phases |-> value]]

\* A baseline that was not selected is appended.
InitializeResults ==
  /\ stage = "options"
  /\ selection' = [axis \in Axes |->
                     IF baseline[axis] = NoName THEN selection[axis]
                     ELSE AppendUnique(selection[axis], baseline[axis])]
  /\ case' = Cases
  /\ samples' = ForEachRow(<<>>)
  /\ status' = [r \in DOMAIN case' |-> {}]
  /\ comparison' = ForEachRow("none")
  /\ available' = ForEachRow(FALSE)
  /\ waiting' = 0 .. Contexts - 1
  /\ stage' = "context"
  /\ UNCHANGED <<arguments, selectorSeen, baseline, shuffle, context, pass, jobs, parentJobs, wrong>>

-----------------------------------------------------------------------------
(* runBenchmarkContext *)

MaterializeContext ==
  /\ stage = "context"
  /\ \E descriptor \in waiting :
       /\ MayComeNext(descriptor, waiting)
       /\ context' = descriptor
       /\ waiting' = waiting \ {descriptor}
  /\ pass' = 0
  /\ jobs' = ParentJobs
  /\ artifacts' = [j \in ParentJobs |-> NoName]
  /\ elapsedMs' = [j \in ParentJobs |-> NoName]
  /\ stage' = "parents"
  /\ UNCHANGED <<arguments, options, results, wrong>>

RecordSample == pass >= Warmup

\* A wrong result is marked in every pass; the mistake is to look at recorded
\* passes only.
MarkRecorded(marked, markers) == IF RecordSample THEN marked \cup markers ELSE marked
Mark(marked, markers) == marked \cup markers

Recorded(row, phase, measurement) ==
  IF RecordSample THEN Append(samples[row][phase], measurement) ELSE samples[row][phase]

MayGoWrong(markers) == markers = {} \/ Cardinality(wrong) < MaxMismatches

\* timeParentBuildMs and recordParentSample for every row of the builder.
BuildParent ==
  /\ stage = "parents"
  /\ \E j \in jobs, markers \in SUBSET {"parent-mismatch"} :
       LET built == <<context, Parents[j + 1], pass>>
           rows == {MatrixResultIndex(j, s) : s \in 0 .. Len(Sorts) - 1}
       IN  /\ MayComeNext(j, jobs) /\ MayGoWrong(markers)
           /\ jobs' = jobs \ {j}
           /\ artifacts' = [artifacts EXCEPT ![j] = built]
           /\ elapsedMs' = [elapsedMs EXCEPT ![j] = built]
           /\ samples' = [r \in DOMAIN samples |->
                            IF r \in rows
                              THEN [samples[r] EXCEPT !["parent"] = Recorded(r, "parent", built)]
                              ELSE samples[r]]
           /\ status' = [r \in DOMAIN status |->
                           IF r \in rows THEN Mark(status[r], markers) ELSE status[r]]
           /\ wrong' = wrong \cup {<<marker, context, Parents[j + 1]>> : marker \in markers}
  /\ UNCHANGED <<arguments, options, stage, waiting, context, pass, case, comparison, available>>

BeginSorts ==
  /\ stage = "parents" /\ jobs = {}
  /\ jobs' = SortJobs
  /\ stage' = "sorts"
  /\ UNCHANGED <<arguments, options, waiting, context, pass, parentJobs, results, wrong>>

\* recordSortSample, with the artifacts the parent job retained.
RunSort ==
  /\ stage = "sorts"
  /\ \E j \in jobs, markers \in SUBSET {"sort-mismatch", "verify-failed"} :
       LET parent == j \div Len(Sorts)
           sort == j % Len(Sorts)
           row == MatrixResultIndex(parent, sort)
           sorted == <<context, Sorts[sort + 1], pass, artifacts[parent]>>
       IN  /\ MayComeNext(j, jobs) /\ MayGoWrong(markers)
           /\ jobs' = jobs \ {j}
           /\ samples' = [samples EXCEPT
                            ![row]["sort"] = Recorded(row, "sort", sorted),
                            ![row]["pipeline"] = Recorded(row, "pipeline", <<elapsedMs[parent], sorted>>)]
           /\ status' = [status EXCEPT ![row] = Mark(@, markers)]
           /\ wrong' = wrong \cup
                {<<marker, context, Parents[parent + 1], Sorts[sort + 1]>> : marker \in markers}
  /\ UNCHANGED <<arguments, options, stage, waiting, context, pass, parentJobs, case, comparison, available>>

EndPass ==
  /\ stage = "sorts" /\ jobs = {}
  /\ IF pass + 1 < Warmup + Iterations
       THEN stage' = "parents" /\ pass' = pass + 1 /\ jobs' = ParentJobs
       ELSE stage' = "baselines" /\ UNCHANGED <<pass, jobs>>
  /\ UNCHANGED <<arguments, options, waiting, context, parentJobs, results, wrong>>

\* A sort given a wrong parent index may throw: nothing is reported then.
SortThrows ==
  /\ stage = "sorts"
  /\ \E j \in jobs : <<"parent-mismatch", context, Parents[(j \div Len(Sorts)) + 1]>> \in wrong
  /\ stage' = "failed"
  /\ UNCHANGED <<arguments, options, waiting, context, pass, jobs, parentJobs, results, wrong>>

-----------------------------------------------------------------------------
(* applyContextBaselines *)

PhaseMarkers(phase) ==
  CASE phase = "parent" -> {"parent-mismatch"}
    [] phase = "sort" -> {"sort-mismatch", "verify-failed"}
    [] phase = "pipeline" -> {"parent-mismatch", "sort-mismatch", "verify-failed"}

IsValid(row, phase) == status[row] \cap PhaseMarkers(phase) = {}

IsCompared(phase) ==
  /\ phase \in {"parent", "pipeline"} => baseline.parents # NoName
  /\ phase \in {"sort", "pipeline"} => baseline.sorts # NoName

PlaceOf(names, name) == CHOOSE i \in 0 .. Len(names) - 1 : names[i + 1] = name

\* The row the one of a builder and a sort is compared with.
BaselineRow(parent, sort, phase) ==
  MatrixResultIndex(
    IF phase = "sort" THEN parent ELSE PlaceOf(Parents, baseline.parents),
    IF phase = "parent" THEN sort ELSE PlaceOf(Sorts, baseline.sorts))

Compared(row, base, phase) ==
  CASE row = base -> IF IsValid(row, phase) THEN "baseline" ELSE "invalid-result"
    [] row # base /\ ~IsValid(row, phase) -> "invalid-result"
    [] row # base /\ IsValid(row, phase) /\ ~IsValid(base, phase) -> "baseline-failed"
    [] OTHER -> "ok"

\* The comparisons of the data set: <<row, phase, baseline row>>.
Comparisons ==
  {<<MatrixResultIndex(p, s), phase, BaselineRow(p, s, phase)>> :
     p \in ParentJobs, s \in 0 .. Len(Sorts) - 1, phase \in {f \in Phases : IsCompared(f)}}

Outcome(c) == Compared(c[1], c[3], c[2])
ShownFor(row, phase) ==
  \E c \in Comparisons : c[2] = phase /\ Outcome(c) = "ok" /\ row \in {c[1], c[3]}

ApplyBaselines ==
  /\ stage = "baselines"
  /\ comparison' = [r \in DOMAIN comparison |-> [phase \in Phases |->
       IF \E c \in Comparisons : c[1] = r /\ c[2] = phase
         THEN Outcome(CHOOSE c \in Comparisons : c[1] = r /\ c[2] = phase)
         ELSE comparison[r][phase]]]
  /\ available' = [r \in DOMAIN available |-> [phase \in Phases |->
       available[r][phase] \/ ShownFor(r, phase)]]
  /\ stage' = IF waiting = {} THEN "done" ELSE "context"
  /\ UNCHANGED <<arguments, options, waiting, context, pass, jobs, parentJobs, case, samples, status, wrong>>

\* A baseline sample of zero has no relative delta, and the run fails.
ZeroBaseline ==
  /\ stage = "baselines"
  /\ \E c \in Comparisons : Outcome(c) = "ok"
  /\ stage' = "failed"
  /\ UNCHANGED <<arguments, options, waiting, context, pass, jobs, parentJobs, results, wrong>>

Finished == HasEnded /\ UNCHANGED runVars

RunNext ==
  \/ ReadSelector \/ ReadBaseline \/ InitializeResults
  \/ MaterializeContext \/ BuildParent \/ BeginSorts \/ RunSort \/ EndPass \/ SortThrows
  \/ ApplyBaselines \/ ZeroBaseline \/ Finished

RunSpec == RunInit /\ [][RunNext]_runVars

-----------------------------------------------------------------------------

Build(r, sample) == <<case[r].context, case[r].parent, Warmup + sample - 1>>

\* Deltas pair the samples of two rows by their number
\* (benchmark_stats.hpp:177), so the k-th sample of every row is from the k-th
\* recorded pass: of its own data set, builder and sort, with the artifacts
\* that builder made in that very pass, and the time of the pipeline is the
\* sum of these two, in whatever order the jobs ran.  No two rows are about the
\* same case, and what is printed has every sample.
SamplesArePaired ==
  /\ \A q, r \in DOMAIN case : case[q] = case[r] => q = r
  /\ \A r \in DOMAIN case :
       /\ \A k \in DOMAIN samples[r].parent : samples[r].parent[k] = Build(r, k)
       /\ \A k \in DOMAIN samples[r].sort :
            samples[r].sort[k] = <<case[r].context, case[r].sort, Warmup + k - 1, Build(r, k)>>
       /\ \A k \in DOMAIN samples[r].pipeline :
            samples[r].pipeline[k] = <<Build(r, k), samples[r].sort[k]>>
       /\ stage = "done" => \A phase \in Phases : Len(samples[r][phase]) = Iterations

\* What went wrong with a row in a phase, in any pass.
WentWrong(r, phase) ==
  \E marker \in PhaseMarkers(phase) :
    \/ <<marker, case[r].context, case[r].parent>> \in wrong
    \/ <<marker, case[r].context, case[r].parent, case[r].sort>> \in wrong

IsBaselineFor(q, r, phase) ==
  /\ case[q].context = case[r].context
  /\ case[q].parent = IF phase = "sort" THEN case[r].parent ELSE baseline.parents
  /\ case[q].sort = IF phase = "parent" THEN case[r].sort ELSE baseline.sorts

\* A delta and a winner are given for just those rows that were right in every
\* pass, warm-up included, and whose baseline, of the same data set and with
\* everything else equal, was so too: a builder or sort that is fast and wrong
\* never wins, and never spoils the comparison of another.
ComparisonsAreFair ==
  stage = "done" =>
    \A r \in DOMAIN case, phase \in Phases :
      LET isOk(q) == ~WentWrong(r, phase) /\ ~WentWrong(q, phase)
      IN  IF IsCompared(phase)
            THEN \E q \in DOMAIN case :
                   /\ IsBaselineFor(q, r, phase)
                   /\ comparison[r][phase] = "ok" <=> q # r /\ isOk(q)
                   /\ q # r => (available[r][phase] <=> isOk(q))
            ELSE comparison[r][phase] = "none" /\ ~available[r][phase]
=============================================================================
