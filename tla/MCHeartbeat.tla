----------------------------- MODULE MCHeartbeat -----------------------------
(* Model-checking instance of Heartbeat. *)
EXTENDS Heartbeat
=============================================================================
