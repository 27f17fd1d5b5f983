----------------------------- MODULE MCBatching -----------------------------
(* Model-checking instance of Batching: the constants are given in the     *)
(* MCBatching_*.cfg files, one per batching policy.                        *)
EXTENDS Batching
=============================================================================
