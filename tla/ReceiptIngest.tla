---------------------------- MODULE ReceiptIngest ----------------------------
(***************************************************************************)
(* What a receipt proves: receipts.ts validateReceipt for the families the *)
(* finalizer writes, and receipt-ingest.ts ingestReceipts, which replays a *)
(* session's receipts into a lifecycle.                                    *)
(*                                                                         *)
(* A receipt is [family, valid, pass, commit, pr, tests, verdict]: the     *)
(* envelope's own valid flag, and of its evidence what the validators read.*)
(* Envelopes are built by buildReceipt, so their hash and structure hold.  *)
(***************************************************************************)
EXTENDS Naturals, Sequences, Functions

CONSTANT NoCommit    \* git rev-parse HEAD failed

Families == {"validation", "completion", "review-verdict", "review-failure"}
Confirmation == "OWNER_CONFIRMATION_REQUIRED"
ReviewVerdicts == {"APPROVE_MERGE_READY", "REQUEST_CHANGES", Confirmation}
Verdicts == ReviewVerdicts \cup {"none", "other"}

\* TRANSITIONS, the part that leads to completed.
CanTransition(from, to) == from = "finalizing" /\ to = "completed"

\* Mutant: a completion without a PR or an issue is valid.
ValidateCompletionNoPr(r) == r.commit # NoCommit /\ r.tests # {}

ValidateCompletion(r) == r.commit # NoCommit /\ r.pr /\ r.tests # {}

ValidateReceipt(r) ==
  CASE r.family = "validation"     -> r.pass
    [] r.family = "completion"     -> ValidateCompletion(r)
    [] r.family = "review-verdict" -> r.verdict \in ReviewVerdicts
    [] r.family = "review-failure" -> TRUE

\* RECEIPT_FAMILY_LIFECYCLE_TARGETS
Targeted(r) == r.family \in {"completion", "review-verdict"}

\* Mutant: a verdict that asks for a human is taken for a success.
ContradictsNever(r) == FALSE

\* evidenceContradiction; finalLifecycle is always written as completed.
Contradicts(r) == r.family = "review-verdict" /\ r.verdict = Confirmation

Moves(lifecycle, r) ==
  /\ ValidateReceipt(r) /\ r.valid
  /\ Targeted(r) /\ ~Contradicts(r)
  /\ CanTransition(lifecycle, "completed")

\* ingestReceipts: the lifecycle the receipts lead to, in their order.
Ingest(lifecycle, receipts) ==
  LET after[n \in 0 .. Len(receipts)] ==
        IF n = 0 THEN lifecycle
        ELSE IF Moves(after[n - 1], receipts[n]) THEN "completed" ELSE after[n - 1]
  IN  after[Len(receipts)]
=============================================================================
