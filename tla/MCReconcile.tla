----------------------------- MODULE MCReconcile -----------------------------
(* Model-checking instance of Reconcile. *)
EXTENDS Reconcile, TLC

ReconcileSymmetry == Permutations(Runs) \cup Permutations(Events)
=============================================================================
