------------------------------ MODULE Recovery ------------------------------
(***************************************************************************)
(* The pure decisions of recovery: classifyRecovery (classifier.ts), the   *)
(* snapshot a vanish receipt rests on (preserve.ts preserveDirtyWorktree)  *)
(* and the verdict on that receipt (receipts.ts validateVanish).           *)
(***************************************************************************)
EXTENDS Integers

Deltas == {"clean", "dirty", "zero-delta", "unknown"}
Risks == {"normal", "prompt-not-accepted", "deleted-worktree", "vanished-dirty"}

Classifications ==
  {"continue", "reinject-prompt", "restart-clean", "restart-preserve-delta",
   "fallback-codex-exec", "human-check"}

\* What the classifier reads of an Observation: `failed` and `done` stand for
\* the signals "validation-failed" and "completed" (or lifecycle finalizing).
Observations ==
  [ownerLive : BOOLEAN, risk : Risks, gitDelta : Deltas,
   failed : BOOLEAN, done : BOOLEAN]

Budgets ==
  [reinjectPrompt : Nat, zeroDeltaVanish : Nat,
   dirtyVanishPreserve : Nat, validationRepair : Nat]

\* Mutant: an exhausted dirty budget ends in a clean restart.
VanishedRestarts(o, b) ==
  IF o.gitDelta = "dirty" /\ b.dirtyVanishPreserve > 0 THEN "restart-preserve-delta"
  ELSE IF o.gitDelta = "zero-delta" /\ b.zeroDeltaVanish = 0 THEN "fallback-codex-exec"
  ELSE IF o.gitDelta = "unknown" THEN "human-check"
  ELSE "restart-clean"

\* The owner is gone: the delta decides.
Vanished(o, b) ==
  IF o.gitDelta = "dirty"
  THEN IF b.dirtyVanishPreserve > 0 THEN "restart-preserve-delta" ELSE "fallback-codex-exec"
  ELSE IF o.gitDelta = "zero-delta"
  THEN IF b.zeroDeltaVanish > 0 THEN "restart-clean" ELSE "fallback-codex-exec"
  ELSE IF o.gitDelta = "clean" THEN "restart-clean" ELSE "human-check"

ClassifyRecovery(o, b) ==
  IF o.risk = "deleted-worktree" THEN "human-check"
  ELSE IF ~o.ownerLive THEN Vanished(o, b)
  ELSE IF o.risk = "prompt-not-accepted"
  THEN IF b.reinjectPrompt > 0 THEN "reinject-prompt" ELSE "human-check"
  ELSE IF o.failed /\ b.validationRepair = 0 THEN "human-check" ELSE "continue"

\* The decision's ownerRequired field.
OwnerRequired(class) == class # "human-check"

RequiresVanishBeforeAction(class) ==
  class \in {"restart-clean", "restart-preserve-delta", "fallback-codex-exec"}
-----------------------------------------------------------------------------
\* A worktree as preserveDirtyWorktree finds it: are there tracked changes, what
\* are the untracked files like, which of its git commands succeed.
Worktrees ==
  [tracked : BOOLEAN, untracked : {"none", "readable", "unreadable"},
   diffWorks : BOOLEAN, listWorks : BOOLEAN, stashWorks : BOOLEAN]

\* A failing `git diff` or `git ls-files` counts as nothing to capture.
SeesTracked(w) == w.tracked /\ w.diffWorks
SeesUntracked(w) == IF w.listWorks THEN w.untracked ELSE "none"
Stashed(w) == w.tracked /\ w.stashWorks

SnapshotComplete(w) ==
  (SeesTracked(w) => Stashed(w)) /\ SeesUntracked(w) # "unreadable"

\* validateVanish of the receipt writeVanish builds: preservation is "stash"
\* exactly when there is a stash ref, and only a snapshot must be complete.
VanishValid(delta, w) ==
  delta \in {"dirty", "unknown"} /\ ~Stashed(w) => SnapshotComplete(w)

\* What the worktree holds is in the stash or in the manifest by its hash.
Captured(w) == (w.tracked => Stashed(w)) /\ (w.untracked # "none" => w.listWorks /\ w.untracked = "readable")
=============================================================================
