--------------------------- MODULE MCSessionLease ---------------------------
(***************************************************************************)
(* Model values for checking SessionLease.  Owners are interchangeable, so *)
(* the safety runs use their permutations as a symmetry set.               *)
(***************************************************************************)
EXTENDS SessionLease, TLC

OwnerSymmetry == Permutations(Owner)
=============================================================================
