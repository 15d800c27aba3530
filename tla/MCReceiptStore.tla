--------------------------- MODULE MCReceiptStore ---------------------------
(***************************************************************************)
(* Model values for checking ReceiptStore.                                 *)
(***************************************************************************)
EXTENDS ReceiptStore, TLC

StoreSymmetry == Permutations(Procs) \cup Permutations(Receipts)
=============================================================================
