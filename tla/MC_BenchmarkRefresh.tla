------------------------ MODULE MC_BenchmarkRefresh ------------------------
(* Small instances of BenchmarkRefresh. *)
EXTENDS BenchmarkRefresh

CONSTANTS b1, b2, b3, gpt, claude, top, second, c1, c2, w1, w2
=============================================================================
