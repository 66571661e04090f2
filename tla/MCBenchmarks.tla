---------------------------- MODULE MCBenchmarks ----------------------------
(***************************************************************************)
(* Batches of up to four calls over up to three levels each, which takes     *)
(* every benchmark past the point where its batch uses up what was set up.   *)
(***************************************************************************)
EXTENDS Benchmarks

Ids == 0 .. 24

=============================================================================
