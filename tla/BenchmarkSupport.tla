-------------------------- MODULE BenchmarkSupport --------------------------
(***************************************************************************)
(* What the two benchmark programs have in common (support/common): where   *)
(* a run is, the cases waiting for their turn and the rows of results, the  *)
(* selection of names and the schedule.                                     *)
(***************************************************************************)
EXTENDS Naturals, Sequences, SequencesExt, FiniteSets

CONSTANTS
  Warmup,      \* --warmup
  Iterations   \* --iterations

ASSUME PassesAssumption == Warmup \in Nat /\ Iterations \in Nat \ {0}

VARIABLES
  stage,       \* what the program does next; "done" or "failed" in the end
  shuffle,     \* --shuffle
  baseline,    \* the names results are compared with
  waiting,     \* the data sets, or corpora, still to run
  pass,        \* the warm-up or recorded pass over the one being run
  samples,     \* the samples of each row of results
  status       \* and what went wrong with it

AppendUnique(names, name) == IF Contains(names, name) THEN names ELSE Append(names, name)

\* In order, or shuffled anew each time: shuffled items may come in any order.
MayComeNext(item, items) == item \in items /\ (shuffle \/ \A other \in items : item <= other)

HasEnded == stage \in {"done", "failed"}
=============================================================================
