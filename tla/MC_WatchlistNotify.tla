------------------------ MODULE MC_WatchlistNotify ------------------------
(* Two price metrics of a deployment of one model and a metric of another. *)
EXTENDS WatchlistNotify

CONSTANTS input, output, rival, gpt, claude, w1

MCModelOf == [x \in Series |-> IF x = rival THEN claude ELSE gpt]
=============================================================================
