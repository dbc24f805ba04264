--------------------------- MODULE MCTailBenchmark ---------------------------
(* Two corpora and three algorithms of which one is unstable, one warm-up    *)
(* and two recorded passes.  Up to eight ids in ranges of two or three, so   *)
(* that up to four ranges are observed by a reservoir of two.                *)
EXTENDS TailBenchmark
=============================================================================
