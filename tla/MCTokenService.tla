--------------------------- MODULE MCTokenService ---------------------------
(* Model-checking instance of TokenService. *)
EXTENDS TokenService, TLC

PatientSymmetry == Permutations(Patient)
=============================================================================
