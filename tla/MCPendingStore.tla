---------------------------- MODULE MCPendingStore ----------------------------
(* Model-checking instance of PendingStore. *)
EXTENDS PendingStore, TLC

HandlerSymmetry == Permutations(Handlers)
=============================================================================
