---------------------------- MODULE MCSmallSorts ----------------------------
(* Ranges of up to six entries with ids of two bits, most of them with      *)
(* equal ids, where five fit the fixed scratch.  The shell sorts have the   *)
(* gaps of the benchmark; those as large as the range make empty passes.    *)
EXTENDS SmallSorts

BenchmarkGaps == {<<10, 4, 1>>, <<3, 2, 1>>, <<16, 7, 3, 1>>}
=============================================================================
