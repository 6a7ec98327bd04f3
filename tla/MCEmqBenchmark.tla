--------------------------- MODULE MCEmqBenchmark ---------------------------
(***************************************************************************)
(* The benchmark with few clients and messages.                            *)
(***************************************************************************)
EXTENDS EmqBenchmark
=============================================================================
