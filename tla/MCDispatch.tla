----------------------------- MODULE MCDispatch -----------------------------
(* Model-checking instance of Dispatch. *)
EXTENDS Dispatch, TLC

DispatchSymmetry ==
  Permutations(Nodes) \cup Permutations(Workers) \cup Permutations(Events)
=============================================================================
