---------------------------- MODULE MCOperateLoop ----------------------------
(* operate() with small budgets, every observation the classifier tells     *)
(* apart, and a worktree for every outcome of preserveDirtyWorktree.        *)
EXTENDS OperateLoop

MCBudget ==
  [reinjectPrompt |-> 1, zeroDeltaVanish |-> 1,
   dirtyVanishPreserve |-> 1, validationRepair |-> 0]

MCObservable == {o \in Observations : o.risk # "vanished-dirty" /\ (o.failed => ~o.done)}

MCTrees ==
  {w \in Worktrees :
     /\ w.listWorks
     /\ w.diffWorks \/ (w.tracked /\ w.untracked = "none")
     /\ w.stashWorks \/ w.tracked}

\* Every git command of preserveDirtyWorktree succeeds.
MCWorkingTrees == {w \in MCTrees : w.diffWorks /\ w.stashWorks}
=============================================================================
