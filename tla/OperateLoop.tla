----------------------------- MODULE OperateLoop -----------------------------
(***************************************************************************)
(* One call of operate() (operate.ts): submit the goal, observe and        *)
(* classify up to maxIterations times, preserve before acting, finalize    *)
(* once the agent has signalled completion.                                *)
(***************************************************************************)
EXTENDS Recovery

CONSTANTS MaxIterations,   \* opts.maxIterations
          InitialBudget,   \* {...DEFAULT_RETRY_BUDGET, ...opts.retryBudget}
          Observable,      \* what opts.observe() may return
          Trees            \* the worktrees preserve may meet

ASSUME OperateConstants ==
  /\ MaxIterations \in Nat
  /\ InitialBudget \in Budgets
  /\ Observable \subseteq Observations /\ Observable # {}
  /\ Trees \subseteq Worktrees /\ Trees # {}

VARIABLES at,          \* where the loop is
          budget,      \* what is left of the retry budget
          accepted,    \* was the last prompt accepted
          iterations,  \* rounds begun
          obs,         \* the observation of this round (any, before the first)
          tree,        \* the worktree of the last vanish receipt (any, before it)
          lifecycle,   \* the result's lifecycle
          spent        \* per classification and delta, how often it was acted on

operateVars == <<at, budget, accepted, iterations, obs, tree, lifecycle, spent>>

Class == ClassifyRecovery(obs, budget)

Lifecycles == {"started", "observing", "submitted", "finalizing", "blocked", "completed"}

OperateInit ==
  /\ at = "submit"
  /\ budget = InitialBudget
  /\ accepted = FALSE
  /\ iterations = 0
  /\ obs = CHOOSE o \in Observable : TRUE
  /\ tree = CHOOSE w \in Trees : TRUE
  /\ lifecycle = "started"
  /\ spent = [c \in Classifications |-> [d \in Deltas |-> 0]]

ByAcceptance(a) == IF a THEN "observing" ELSE "submitted"

\* The first submit.
SubmitGoal ==
  /\ at = "submit"
  /\ \E a \in BOOLEAN : accepted' = a /\ lifecycle' = ByAcceptance(a)
  /\ at' = "loop"
  /\ UNCHANGED <<budget, iterations, obs, tree, spent>>

ObserveRound ==
  /\ at = "loop" /\ iterations < MaxIterations
  /\ iterations' = iterations + 1
  /\ \E o \in Observable : obs' = o
  /\ at' = "act"
  /\ UNCHANGED <<budget, accepted, tree, lifecycle, spent>>

Continue ==
  /\ at = "act" /\ Class = "continue"
  /\ IF obs.done THEN lifecycle' = "finalizing" /\ at' = "end"
     ELSE lifecycle' = ByAcceptance(accepted) /\ at' = "loop"
  /\ UNCHANGED <<budget, accepted, iterations, obs, tree, spent>>

\* Mutant: the action goes ahead although the receipt is not valid.
WriteVanishUnchecked ==
  /\ at = "act" /\ RequiresVanishBeforeAction(Class)
  /\ \E w \in Trees : tree' = w
  /\ at' = "ready"
  /\ UNCHANGED <<budget, accepted, iterations, obs, lifecycle, spent>>

\* writeVanish: an invalid receipt blocks.
WriteVanish ==
  /\ at = "act" /\ RequiresVanishBeforeAction(Class)
  /\ \E w \in Trees :
       /\ tree' = w
       /\ IF VanishValid(obs.gitDelta, w) THEN at' = "ready" /\ UNCHANGED lifecycle
          ELSE at' = "end" /\ lifecycle' = "blocked"
  /\ UNCHANGED <<budget, accepted, iterations, obs, spent>>

Spend(field) == [budget EXCEPT ![field] = IF @ > 0 THEN @ - 1 ELSE 0]

Ready == at = IF RequiresVanishBeforeAction(Class) THEN "ready" ELSE "act"

\* Mutant: a preserving restart is paid from the zero-delta budget.
PaysWrong(class) ==
  IF class = "reinject-prompt" THEN Spend("reinjectPrompt") ELSE Spend("zeroDeltaVanish")

Pays(class) ==
  IF class = "reinject-prompt" THEN Spend("reinjectPrompt")
  ELSE IF class = "restart-clean" THEN Spend("zeroDeltaVanish")
  ELSE Spend("dirtyVanishPreserve")

\* Reinject or restart, and submit the goal again.
Resubmit ==
  /\ Ready
  /\ Class \in {"reinject-prompt", "restart-clean", "restart-preserve-delta"}
  /\ budget' = Pays(Class)
  /\ spent' = [spent EXCEPT ![Class][obs.gitDelta] = @ + 1]
  /\ accepted' \in BOOLEAN
  /\ at' = "loop"
  /\ UNCHANGED <<iterations, obs, tree, lifecycle>>

\* fallback-codex-exec-requested, human-check-required.
GiveUp ==
  /\ Ready /\ Class \in {"fallback-codex-exec", "human-check"}
  /\ lifecycle' = "blocked" /\ at' = "end"
  /\ UNCHANGED <<budget, accepted, iterations, obs, tree, spent>>

WindowEnds ==
  /\ at = "loop" /\ iterations = MaxIterations
  /\ at' = "end"
  /\ UNCHANGED <<budget, accepted, iterations, obs, tree, lifecycle, spent>>

\* Return; runFinalize decides only after an explicit completion signal.
Finish ==
  /\ at = "end"
  /\ IF lifecycle = "finalizing" THEN lifecycle' \in {"completed", "blocked"}
     ELSE UNCHANGED lifecycle
  /\ at' = "done"
  /\ UNCHANGED <<budget, accepted, iterations, obs, tree, spent>>

OperateNext ==
  \/ SubmitGoal \/ ObserveRound \/ Continue \/ WriteVanish \/ Resubmit
  \/ GiveUp \/ WindowEnds \/ Finish

OperateSpec == OperateInit /\ [][OperateNext]_operateVars
-----------------------------------------------------------------------------
\* The loop's variables keep their types.
OperateTypeOK ==
  /\ at \in {"submit", "loop", "act", "ready", "end", "done"}
  /\ budget \in Budgets /\ accepted \in BOOLEAN
  /\ iterations \in 0 .. MaxIterations
  /\ obs \in Observable /\ tree \in Trees /\ lifecycle \in Lifecycles
  /\ spent \in [Classifications -> [Deltas -> Nat]]

\* Each kind of retry happens at most as often as its budget allows, although
\* clean restarts are unlimited and draw on the zero-delta budget too.
RetriesWithinBudget ==
  /\ \A d \in Deltas :
       spent["reinject-prompt"][d] <= InitialBudget.reinjectPrompt
  /\ spent["restart-preserve-delta"]["dirty"] <= InitialBudget.dirtyVanishPreserve
  /\ spent["restart-clean"]["zero-delta"] <= InitialBudget.zeroDeltaVanish

\* classifier.ts:6-8, over the whole run: a session whose delta was dirty or
\* unknown is never restarted clean, and one of unknown delta not at all.
NoCleanRestartOverWork ==
  /\ \A d \in {"dirty", "unknown"} : spent["restart-clean"][d] = 0
  /\ \A d \in Deltas \ {"dirty"} : spent["restart-preserve-delta"][d] = 0

\* operate.ts:149, "Destructive/recovery actions require a valid vanish receipt
\* first": each restart acts on the receipt of this very round.
RestartNeedsReceipt ==
  [][\A d \in Deltas :
       spent["restart-clean"][d] + spent["restart-preserve-delta"][d]
         # spent'["restart-clean"][d] + spent'["restart-preserve-delta"][d]
       => obs.gitDelta = d /\ VanishValid(d, tree) /\ ~obs.ownerLive]_operateVars

\* operate.ts:186-188: an exhausted window is no failure and no completion;
\* only an observed completion signal leads to "completed".
CompletionIsObserved ==
  lifecycle = "completed" => obs.done /\ obs.ownerLive

\* preserve.ts:11-12, the snapshot "is what backs a valid `vanish` receipt so the
\* data-loss invariant is enforced in practice, not just structurally": a
\* restart over a dirty worktree comes after all of it was captured.
RestartsOverCapturedWork ==
  [][spent'["restart-preserve-delta"] # spent["restart-preserve-delta"]
     => Captured(tree)]_operateVars
=============================================================================
