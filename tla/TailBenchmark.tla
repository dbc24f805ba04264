---------------------------- MODULE TailBenchmark ----------------------------
(***************************************************************************)
(* The tail benchmark as a whole (runMicrobenchmarks): each corpus is       *)
(* captured or made (TailCapture) when its turn comes, then the algorithms  *)
(* are verified and timed on it (TailRun).  A capture that fails fails the  *)
(* run, results of earlier corpora included.                                *)
(***************************************************************************)
EXTENDS TailRun

CONSTANTS
  SourceSize,  \* how many ids are sorted
  Limit,       \* --tail-count
  Threshold    \* small_id_range_sort_threshold

VARIABLES
  workload, capturePc, scope, reports, observed, selected, nodes, ranges, extremes

Capture == INSTANCE TailCapture WITH pc <- capturePc

ASSUME CaptureAssumption == Capture!ConstantsAssumed

captureVars == <<workload, capturePc, scope, reports, observed, selected, nodes, ranges, extremes>>
benchmarkVars == <<tailVars, captureVars>>

BenchmarkInit == TailInit /\ Capture!Init

CaptureStep ==
  /\ stage = "corpus"
  /\ Capture!Step
  /\ UNCHANGED tailVars

\* Ids are distinct, those of parents are not: siblings have one.  Whether a
\* tail has equal ids, and an unstable sort disturbs them, is not told apart.
KindsOfCorpus ==
  IF ranges = <<>> THEN {NoTails}
  ELSE {k \in Kinds \ {NoTails} : workload # "parent-queries" => k.misordered = {}}

\* The run takes the corpus, of which only its kind matters from here on.
CorpusReady ==
  /\ capturePc = "done"
  /\ MaterializeCorpus
  /\ kind'[corpus'] \in KindsOfCorpus
  /\ workload' = "none" /\ capturePc' = "idle"
  /\ scope' = <<>> /\ reports' = <<>> /\ observed' = <<>> /\ selected' = <<>>
  /\ nodes' = <<>> /\ ranges' = <<>> /\ extremes' = [min |-> 0, max |-> 0]

CaptureFails ==
  /\ stage = "corpus" /\ capturePc = "failed"
  /\ stage' = "failed"
  /\ UNCHANGED <<tailOptions, waiting, corpus, kind, pass, schedule, tailResults, captureVars>>

RunStep ==
  /\ \/ Verify \/ BeginPasses \/ Time \/ EndTailPass \/ ApplyDeltas \/ ZeroTailBaseline
  /\ UNCHANGED captureVars

BenchmarkEnded == TailFinished /\ UNCHANGED captureVars

BenchmarkNext == CaptureStep \/ CorpusReady \/ CaptureFails \/ RunStep \/ BenchmarkEnded

BenchmarkSpec == BenchmarkInit /\ [][BenchmarkNext]_benchmarkVars

-----------------------------------------------------------------------------

\* The reservoir and the corpus hold the observed ranges, each once.
CorpusHoldsSelectedTails == Capture!CorpusHoldsSelectedTails

\* Each observed range is as likely to be in the corpus as any other.
SelectionIsUniform == Capture!SelectionIsUniform

\* What was captured from is freed, and reported freed, before the corpus is
\* built and anything is timed, and also when the capture fails.
OwnersAreGoneFirst ==
  /\ Capture!OwnersAreGoneFirst
  /\ stage \in {"verify", "time"} => scope = <<>>
=============================================================================
