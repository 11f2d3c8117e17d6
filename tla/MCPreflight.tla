----------------------------- MODULE MCPreflight -----------------------------
(* Model-checking instance of Preflight. *)
EXTENDS Preflight, TLC

RequestSymmetry == Permutations(Requests)
=============================================================================
