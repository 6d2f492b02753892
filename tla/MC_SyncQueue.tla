---------------------------- MODULE MC_SyncQueue ----------------------------
(* Small instances of SyncQueue. *)
EXTENDS SyncQueue

CONSTANTS models_dev, litellm, openrouter, w1, w2, cli, r1, r2, r3
=============================================================================
