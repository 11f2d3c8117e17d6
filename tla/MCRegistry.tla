----------------------------- MODULE MCRegistry -----------------------------
(* Model-checking instance of Registry. *)
EXTENDS Registry, TLC

NodeSymmetry == Permutations(Nodes)
=============================================================================
