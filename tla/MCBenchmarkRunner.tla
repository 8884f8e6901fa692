-------------------------- MODULE MCBenchmarkRunner --------------------------
(***************************************************************************)
(* BenchmarkRunner with one warmup iteration and enough measured ones for  *)
(* an instrument to carry something over.                                  *)
(***************************************************************************)
EXTENDS BenchmarkRunner
=============================================================================
