--------------------------- MODULE MCQueueService ---------------------------
(* Model-checking instance of QueueService. *)
EXTENDS QueueService, TLC

QueueSymmetry == Permutations(Workers) \cup Permutations(Events)
=============================================================================
