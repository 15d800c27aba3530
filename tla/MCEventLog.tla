----------------------------- MODULE MCEventLog -----------------------------
(***************************************************************************)
(* Model values for checking EventLog.                                     *)
(***************************************************************************)
EXTENDS EventLog, TLC

OwnerSymmetry == Permutations(Owner)
=============================================================================
