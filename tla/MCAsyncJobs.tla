---------------------------- MODULE MCAsyncJobs ----------------------------
(* AsyncJobs for TLC. *)
EXTENDS AsyncJobs, TLC

CONSTANTS w1

=============================================================================
