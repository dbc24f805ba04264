--------------------------- MODULE MCBenchmarkRun ---------------------------
(* Two data sets, two parent builders and two sorts of which one each is a  *)
(* default, three arguments, one warm-up and two recorded passes, and one   *)
(* wrong result.                                                            *)
EXTENDS BenchmarkRun

TwoEach == [parents |-> <<"p1", "p2">>, sorts |-> <<"s1", "s2">>]
OneEach == [parents |-> <<"p1">>, sorts |-> <<"s1">>]
=============================================================================
