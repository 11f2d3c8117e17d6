------------------------------- MODULE MCAgent -------------------------------
(* Model-checking instance of Agent.  No symmetry: FailsOver is a liveness   *)
(* property.                                                                 *)
EXTENDS Agent
=============================================================================
