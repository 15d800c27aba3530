---------------------------- MODULE MCSlackInbound ----------------------------
(***************************************************************************)
(* Instance of SlackInbound for TLC: one daemon, whose handler, drain and  *)
(* retirement race, an event that is delivered twice, and two faults.      *)
(* Daemons that overlap are covered by the proofs.                         *)
(***************************************************************************)
EXTENDS SlackInbound
=============================================================================
