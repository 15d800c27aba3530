--------------------------- MODULE MCRuntimeOwner ---------------------------
(***************************************************************************)
(* Model values for checking RuntimeOwner.                                 *)
(***************************************************************************)
EXTENDS RuntimeOwner, TLC

OwnerSymmetry == Permutations(Owner)
=============================================================================
