---------------------------- MODULE MCLeadership -----------------------------
(* Model-checking instance of Leadership. *)
EXTENDS Leadership, TLC

Symmetry == Permutations(Clients) \cup Permutations(Nodes)
=============================================================================
