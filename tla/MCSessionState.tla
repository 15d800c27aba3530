--------------------------- MODULE MCSessionState ---------------------------
(* state.json with two CLI processes. *)
EXTENDS SessionState, TLC

ClientSymmetry == Permutations(Client)
=============================================================================
