------------------------------ MODULE TailRun -------------------------------
(***************************************************************************)
(* A run of the tail benchmark (tail_benchmark_app.cpp): for each corpus,   *)
(* in some order, every algorithm is first held against an oracle, then     *)
(* those that passed are timed in warm-up and recorded passes, and their    *)
(* samples are compared with those of the baseline algorithm.               *)
(*                                                                          *)
(* A corpus is empty, or each algorithm that does not keep equal ids in     *)
(* order gets those in its tails right or not (TailCapture says how a       *)
(* corpus comes to be).  A time is represented by what was measured when:   *)
(* <<corpus, algorithm, pass>>.                                             *)
(***************************************************************************)
EXTENDS BenchmarkSupport

CONSTANTS
  Corpora,     \* how many corpora are selected
  Registered,  \* the names of the algorithms
  Unstable,    \* those that need not keep equal ids as the oracle does
  Unset        \* a sample not yet measured

ASSUME TailAssumption ==
  Corpora \in Nat /\ IsFiniteSet(Registered) /\ Registered # {} /\ Unstable \subseteq Registered

\* What matters of a corpus: whether it has tails, and the algorithms that do
\* not order them as the oracle does, whose sorts would do so again.
NoTails == [isEmpty |-> TRUE, misordered |-> {}]
Kinds == {NoTails} \cup [isEmpty : {FALSE}, misordered : SUBSET Unstable]

\* baseline: --baseline-algorithm; stage: "corpus", "verify", "time", "deltas",
\* "done" or "failed".
VARIABLES
  algorithms,  \* options.algorithms
  corpus,      \* the one being run
  kind,        \* what each corpus turned out to be, once it is made
  schedule,    \* the algorithms still to verify or to time in this pass
  hasDelta     \* of each row, whether it was compared

tailOptions == <<algorithms, baseline, shuffle>>
tailResults == <<samples, status, hasDelta>>
tailVars == <<tailOptions, stage, waiting, corpus, kind, pass, schedule, tailResults>>

Schedule == 0 .. Len(algorithms) - 1

\* descriptor.resultBegin + algorithmIndex
RowOf(c, algorithm) == c * Len(algorithms) + algorithm
BaselineAlgorithm == CHOOSE a \in Schedule : algorithms[a + 1] = baseline
RowOfBaseline == RowOf(corpus, BaselineAlgorithm)

Selections ==
  {names \in UNION {[1 .. n -> Registered] : n \in 1 .. Cardinality(Registered)} : IsInjective(names)}

\* parseOptions and initializeCorpusDescriptors
TailInit ==
  /\ shuffle \in BOOLEAN
  /\ baseline \in Registered
  /\ \E selected \in Selections : algorithms = AppendUnique(selected, baseline)
  /\ stage = "corpus"
  /\ waiting = 0 .. Corpora - 1 /\ corpus = 0 /\ kind = [c \in waiting |-> NoTails]
  /\ pass = 0 /\ schedule = {}
  /\ samples = [r \in 0 .. Corpora * Len(algorithms) - 1 |-> [k \in 1 .. Iterations |-> Unset]]
  /\ status = [r \in DOMAIN samples |-> "ok"]
  /\ hasDelta = [r \in DOMAIN samples |-> FALSE]

MaterializeCorpus ==
  /\ stage = "corpus"
  /\ \E c \in waiting, k \in Kinds :
       /\ MayComeNext(c, waiting)
       /\ corpus' = c
       /\ waiting' = waiting \ {c}
       /\ kind' = [kind EXCEPT ![c] = k]
  /\ stage' = "verify"
  /\ schedule' = Schedule
  /\ UNCHANGED <<tailOptions, pass, tailResults>>

\* verifySorterOnCorpus
Verdict(algorithm) ==
  CASE kind[corpus].isEmpty -> "empty"
    [] algorithms[algorithm + 1] \in kind[corpus].misordered -> "sorter failed oracle"
    [] OTHER -> "ok"

\* The oracle is asked in the order selected, whether shuffled or not.
Verify ==
  /\ stage = "verify"
  /\ \E a \in schedule :
       /\ \A other \in schedule : a <= other
       /\ schedule' = schedule \ {a}
       /\ status' = [status EXCEPT ![RowOf(corpus, a)] = Verdict(a)]
       /\ samples' = [samples EXCEPT ![RowOf(corpus, a)] = IF Verdict(a) = "ok" THEN @ ELSE <<>>]
  /\ UNCHANGED <<tailOptions, stage, waiting, corpus, kind, pass, hasDelta>>

BeginPasses ==
  /\ stage = "verify" /\ schedule = {}
  /\ IF kind[corpus].isEmpty
       THEN stage' = "deltas" /\ UNCHANGED schedule
       ELSE stage' = "time" /\ schedule' = Schedule
  /\ pass' = 0
  /\ UNCHANGED <<tailOptions, waiting, corpus, kind, tailResults>>

\* The sample a pass is recorded in, and none for 0; the mistake is to take
\* one more pass for warm-up.
SampleAfterLongerWarmup(p) == IF p > Warmup THEN p - Warmup ELSE 0
SampleOf(p) == IF p >= Warmup THEN p - Warmup + 1 ELSE 0

Time ==
  /\ stage = "time"
  /\ \E a \in schedule :
       /\ MayComeNext(a, schedule)
       /\ schedule' = schedule \ {a}
       /\ samples' =
            IF status[RowOf(corpus, a)] = "ok" /\ SampleOf(pass) # 0
              THEN [samples EXCEPT ![RowOf(corpus, a)][SampleOf(pass)] = <<corpus, algorithms[a + 1], pass>>]
              ELSE samples
  /\ UNCHANGED <<tailOptions, stage, waiting, corpus, kind, pass, status, hasDelta>>

EndTailPass ==
  /\ stage = "time" /\ schedule = {}
  /\ IF pass + 1 < Warmup + Iterations
       THEN pass' = pass + 1 /\ schedule' = Schedule /\ UNCHANGED stage
       ELSE stage' = "deltas" /\ UNCHANGED <<pass, schedule>>
  /\ UNCHANGED <<tailOptions, waiting, corpus, kind, tailResults>>

ComparedRows ==
  IF status[RowOfBaseline] # "ok" THEN {}
  ELSE {r \in {RowOf(corpus, a) : a \in Schedule} : r # RowOfBaseline /\ status[r] = "ok"}

ApplyDeltas ==
  /\ stage = "deltas"
  /\ hasDelta' = [r \in DOMAIN hasDelta |->
       hasDelta[r] \/ r \in ComparedRows \/ (r = RowOfBaseline /\ ComparedRows # {})]
  /\ stage' = IF waiting = {} THEN "done" ELSE "corpus"
  /\ UNCHANGED <<tailOptions, waiting, corpus, kind, pass, schedule, samples, status>>

\* A baseline sample of zero has no relative delta, and the run fails.
ZeroTailBaseline ==
  /\ stage = "deltas"
  /\ ComparedRows # {}
  /\ stage' = "failed"
  /\ UNCHANGED <<tailOptions, waiting, corpus, kind, pass, schedule, tailResults>>

TailFinished == HasEnded /\ UNCHANGED tailVars

TailNext ==
  \/ MaterializeCorpus \/ Verify \/ BeginPasses \/ Time \/ EndTailPass
  \/ ApplyDeltas \/ ZeroTailBaseline \/ TailFinished

TailSpec == TailInit /\ [][TailNext]_tailVars

-----------------------------------------------------------------------------

PassesOracle(c, name) == ~kind[c].isEmpty /\ name \notin kind[c].misordered

\* What is reported of an algorithm on a corpus, in whatever order these ran:
\* if it passed the oracle on that very corpus, all its samples, the k-th from
\* the k-th recorded pass over that corpus, none left at its initial zero;
\* otherwise no sample at all.  It is compared with the baseline just when both
\* passed, and the baseline shows a comparison just when there is one.
OnlyVerifiedRowsAreTimed ==
  stage = "done" =>
    \A c \in 0 .. Corpora - 1, a \in Schedule :
      LET name == algorithms[a + 1]
          row == RowOf(c, a)
          passes(other) == PassesOracle(c, other)
      IN  /\ status[row] = "ok" <=> passes(name)
          /\ samples[row] = IF passes(name)
                              THEN [k \in 1 .. Iterations |-> <<c, name, Warmup + k - 1>>]
                              ELSE <<>>
          /\ hasDelta[row] <=> passes(name) /\ passes(baseline) /\
               (name # baseline \/ \E other \in ToSet(algorithms) \ {baseline} : passes(other))
=============================================================================
