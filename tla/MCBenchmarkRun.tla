--------------------------- MODULE MCBenchmarkRun ---------------------------
(***************************************************************************)
(* Small instances of BenchmarkRun.  Workers are numbered and the last one *)
(* has a larger share, so they are not symmetric and no symmetry is used.  *)
(***************************************************************************)
EXTENDS BenchmarkRun
==============================================================================
