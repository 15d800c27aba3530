------------------------------ MODULE Finalize ------------------------------
(***************************************************************************)
(* The evidence-gated finalizer (finalize.ts runFinalize and               *)
(* runReviewFinalize), as RuntimeOwner runs it for the finalize verb and   *)
(* at the end of the operate loop (owner.ts #finalizeOwned,                *)
(* #persistOwnedReceipt, #persistValidationLifecycle).                     *)
(*                                                                         *)
(* Several calls are under way at once.  Between their steps the agent     *)
(* goes on committing to the workspace, a caller withdraws its request,    *)
(* and the session may be retired.  The operate loop gives runFinalize no  *)
(* signal: it learns of a withdrawal from the validation command it runs   *)
(* and when it asks for a receipt to be written.                           *)
(*                                                                         *)
(* Reads and writes of state.json are one step here, as they are for all   *)
(* that runs in the owner; SessionState splits them to show what a second  *)
(* process does in between.  The other verbs appear as Resume.             *)
(***************************************************************************)
EXTENDS ReceiptIngest, FiniteSets

CONSTANTS Calls,       \* finalize calls
          Commits,
          MaxCommands, \* bound: configured validation commands
          MaxMoves,    \* bound: commits and rewrites during the run
          Requests     \* the options calls are made with

ASSUME FinalizeAssumption ==
  /\ NoCommit \notin Commits
  /\ MaxCommands \in Nat /\ MaxMoves \in Nat
  /\ Requests \subseteq [operate : BOOLEAN, tests : BOOLEAN, commit : BOOLEAN, pr : BOOLEAN]

VARIABLES head,        \* HEAD of the workspace
          onBranch,    \* the commits the session's branch contains
          pr,          \* a PR or an issue artifact exists
          review,      \* the session is a review session
          commands,    \* how many validation commands the owner is configured with
          lifecycle,   \* "open" (neither blocked nor terminal), "blocked", "completed", "retired"
          receipts,    \* persisted receipts, in order
          retiring,    \* the owner has been asked to retire
          aborted,     \* the calls whose signal is aborted
          call,        \* per call: options and local variables of runFinalize
          moves

finVars == <<head, onBranch, pr, review, commands, lifecycle, receipts, retiring, aborted, call, moves>>
world == <<head, onBranch, pr, review, commands, moves>>

\* runFinalize with requireX all true, as the operate loop calls it
Strict == [operate |-> TRUE, tests |-> TRUE, commit |-> TRUE, pr |-> TRUE]

Fresh == [pc |-> "new", opts |-> Strict, commit |-> NoCommit, tests |-> {}, pass |-> FALSE,
          tested |-> NoCommit, sawPr |-> FALSE, unsure |-> FALSE, blockers |-> {}, completed |-> FALSE]

Init ==
  /\ head \in Commits \cup {NoCommit}
  /\ onBranch = {head} \ {NoCommit}
  /\ pr \in BOOLEAN /\ review \in BOOLEAN /\ commands \in 0..MaxCommands
  /\ lifecycle = "open" /\ receipts = <<>>
  /\ retiring = FALSE /\ aborted = {}
  /\ call = [c \in Calls |-> Fresh]
  /\ moves = 0

(***************************************************************************)
(* The workspace and the callers.                                          *)
(***************************************************************************)
\* The agent commits on the branch, or rewrites its last commit.
MoveHead(commit, rewrite) ==
  /\ moves < MaxMoves /\ moves' = moves + 1
  /\ head' = commit /\ commit # head
  /\ onBranch' = (IF rewrite THEN onBranch \ {head} ELSE onBranch) \cup {commit}
  /\ UNCHANGED <<pr, review, commands, lifecycle, receipts, retiring, aborted, call>>

CleanupFailed == {"validation_process_cleanup_failed"}
Active == {c \in Calls : call[c].pc \notin {"new", "done"}}

Withdraw(c) ==
  /\ c \in Active \ aborted
  /\ aborted' = aborted \cup {c}
  /\ UNCHANGED <<world, lifecycle, receipts, retiring, call>>

\* #retireOnce refuses new calls, aborts the active ones, joins them, and
\* records the retirement unless one of them failed to clean up.
BeginRetire ==
  /\ ~retiring
  /\ retiring' = TRUE /\ aborted' = aborted \cup Active
  /\ UNCHANGED <<world, lifecycle, receipts, call>>

FinishRetire ==
  /\ retiring /\ Active = {} /\ lifecycle # "retired"
  /\ \A c \in aborted : call[c].blockers # CleanupFailed
  /\ lifecycle' = "retired"
  /\ UNCHANGED <<world, receipts, retiring, aborted, call>>

\* A command that does not reach the owner retires the session by itself.
CliRetire ==
  /\ lifecycle # "retired"
  /\ lifecycle' = "retired"
  /\ UNCHANGED <<world, receipts, retiring, aborted, call>>

\* Recovery or a new prompt takes a blocked session up again.
Resume ==
  /\ lifecycle = "blocked"
  /\ lifecycle' = "open"
  /\ UNCHANGED <<world, receipts, retiring, aborted, call>>

(***************************************************************************)
(* The steps of a call.                                                    *)
(***************************************************************************)
\* opts.signal?.aborted
Cancelled(c) == c \in aborted /\ ~call[c].opts.operate

\* Mutant: a session that another call completed meanwhile is not looked at.
WithdrawnUnlessCompleted(c) == c \in aborted \/ retiring \/ lifecycle = "retired"

\* What #persistOwnedReceipt refuses to write for.
Withdrawn(c) == c \in aborted \/ retiring \/ lifecycle \in {"retired", "completed"}

Local(c) == UNCHANGED <<world, lifecycle, retiring, aborted>>
Cancel(c) == call' = [call EXCEPT ![c].blockers = {"cancelled"}, ![c].pc = "settle"]
Blocked(c, reason) == call[c].blockers \cup {reason}

Begin(c, opts) ==
  /\ call[c].pc = "new" /\ ~retiring
  /\ opts.operate => opts = Strict
  /\ call' = [call EXCEPT ![c].opts = opts,
                          ![c].pc = IF review /\ ~opts.operate THEN "verdict" ELSE "commit"]
  /\ Local(c) /\ UNCHANGED receipts

ResolveCommit(c) ==
  /\ call[c].pc = "commit"
  /\ \/ Cancelled(c) /\ Cancel(c)
     \/ ~Cancelled(c) /\ call' = [call EXCEPT ![c].commit = head, ![c].pc = "run"]
  /\ Local(c) /\ UNCHANGED receipts

MoreCommands(c) == Cardinality(call[c].tests) < commands

\* Mutant: an uncertain observation is skipped and the next check is made.
RunValidationSkips(c) ==
  /\ call[c].pc = "run" /\ MoreCommands(c)
  /\ \/ /\ c \notin aborted
        /\ \E pass \in BOOLEAN :
             call' = [call EXCEPT ![c].pass = pass, ![c].tested = head, ![c].pc = "persist"]
     \/ call' = [call EXCEPT ![c].pc = "branch", ![c].unsure = TRUE]
  /\ Local(c) /\ UNCHANGED receipts

\* The command runs on what is checked out now.  An observation that is
\* uncertain, as after an abort, ends the validation and all further checks;
\* a process group that cannot be ended makes the call throw.
RunValidation(c) ==
  /\ call[c].pc = "run" /\ MoreCommands(c)
  /\ \/ /\ c \notin aborted
        /\ \E pass \in BOOLEAN :
             call' = [call EXCEPT ![c].pass = pass, ![c].tested = head, ![c].pc = "persist"]
     \/ call' = [call EXCEPT ![c].blockers = Blocked(c, "validation-unknown"),
                             ![c].pc = "settle", ![c].unsure = TRUE]
     \/ call' = [call EXCEPT ![c].blockers = CleanupFailed, ![c].pc = "done", ![c].unsure = TRUE]
  /\ Local(c) /\ UNCHANGED receipts

\* The validation receipt names the commit resolved at the start.
ValidationReceipt(c) ==
  [call |-> c, family |-> "validation", valid |-> call[c].pass, pass |-> call[c].pass,
   commit |-> call[c].commit, pr |-> FALSE, tests |-> {}, verdict |-> "none",
   tested |-> call[c].tested]

PersistValidation(c) ==
  /\ call[c].pc = "persist"
  /\ \/ Withdrawn(c) /\ Cancel(c) /\ UNCHANGED receipts
     \/ /\ ~Withdrawn(c)
        /\ receipts' = Append(receipts, ValidationReceipt(c))
        /\ call' = [call EXCEPT ![c].tests = @ \cup {Len(receipts')},
                                ![c].blockers = IF call[c].opts.tests /\ ~call[c].pass
                                                THEN Blocked(c, "validation-failed") ELSE @,
                                ![c].pc = "run"]
  /\ Local(c)

EndValidation(c) ==
  /\ call[c].pc = "run" /\ ~MoreCommands(c)
  /\ \/ Cancelled(c) /\ commands > 0 /\ Cancel(c)
     \/ call' = [call EXCEPT ![c].blockers = IF call[c].opts.tests /\ commands = 0
                                             THEN Blocked(c, "none-run") ELSE @,
                             ![c].pc = "branch"]
  /\ Local(c) /\ UNCHANGED receipts

CheckBranch(c) ==
  /\ call[c].pc = "branch"
  /\ \/ Cancelled(c) /\ call[c].opts.commit /\ call[c].commit # NoCommit /\ Cancel(c)
     \/ call' = [call EXCEPT ![c].blockers = IF call[c].opts.commit /\ call[c].commit \notin onBranch
                                             THEN Blocked(c, "commit") ELSE @,
                             ![c].pc = "artifact"]
  /\ Local(c) /\ UNCHANGED receipts

CheckArtifact(c) ==
  /\ call[c].pc = "artifact"
  /\ \/ Cancelled(c) /\ Cancel(c)
     \/ /\ ~Cancelled(c)
        /\ call' = [call EXCEPT ![c].blockers = IF call[c].opts.pr /\ ~pr
                                                THEN Blocked(c, "missing-pr") ELSE @,
                                ![c].sawPr = pr, ![c].pc = "cross"]
  /\ Local(c) /\ UNCHANGED receipts

\* B4: the call's own receipts are read back.
CrossBlockers(c) ==
  {reason \in {"validation-receipt-invalid", "validation-stale-commit"} :
     \E i \in call[c].tests :
        IF reason = "validation-receipt-invalid" THEN ~ValidateReceipt(receipts[i])
        ELSE /\ ValidateReceipt(receipts[i])
             /\ call[c].commit \notin {NoCommit, receipts[i].commit}}

CrossValidate(c) ==
  /\ call[c].pc = "cross"
  /\ LET found == IF call[c].blockers = {} THEN CrossBlockers(c) ELSE call[c].blockers IN
     \/ found # {} /\ call' = [call EXCEPT ![c].blockers = found, ![c].pc = "settle"]
     \/ found = {} /\ Cancelled(c) /\ Cancel(c)
     \/ found = {} /\ ~Cancelled(c) /\ call' = [call EXCEPT ![c].pc = "complete"]
  /\ Local(c) /\ UNCHANGED receipts

CompletionReceipt(c) ==
  [call |-> c, family |-> "completion", valid |-> TRUE, pass |-> FALSE,
   commit |-> call[c].commit, pr |-> call[c].sawPr, tests |-> call[c].tests,
   verdict |-> "none", tested |-> NoCommit]

\* An invalid completion is persisted too, and reported as not completed.
Complete(c) ==
  /\ call[c].pc = "complete"
  /\ \/ Withdrawn(c) /\ Cancel(c) /\ UNCHANGED receipts
     \/ /\ ~Withdrawn(c)
        /\ receipts' = Append(receipts, CompletionReceipt(c))
        /\ LET ok == ValidateReceipt(CompletionReceipt(c)) IN
           call' = [call EXCEPT ![c].completed = ok, ![c].pc = "settle",
                                ![c].blockers = IF ok THEN {} ELSE {"completion-invalid"}]
  /\ Local(c)

\* The verdict given, or when none is given the one in the assistant's text.
ReviewVerdict(given, text) ==
  IF given = "none" THEN text ELSE IF given \in ReviewVerdicts THEN given ELSE "none"

VerdictReceipt(c, verdict) ==
  [call |-> c, family |-> IF verdict = "none" THEN "review-failure" ELSE "review-verdict",
   valid |-> TRUE, pass |-> FALSE, commit |-> NoCommit, pr |-> FALSE, tests |-> {},
   verdict |-> verdict, tested |-> NoCommit]

\* Mutant: a verdict that needs confirmation completes the session.
AutonomousAny(verdict) == verdict # "none"

Autonomous(verdict) == verdict \notin {"none", Confirmation}

RunReviewFinalize(c, given, text) ==
  /\ call[c].pc = "verdict"
  /\ \/ Withdrawn(c) /\ Cancel(c) /\ UNCHANGED receipts
     \/ LET verdict == ReviewVerdict(given, text)
            receipt == VerdictReceipt(c, verdict)
            ok      == ValidateReceipt(receipt) /\ Autonomous(verdict) IN
        /\ ~Withdrawn(c)
        /\ receipts' = Append(receipts, receipt)
        /\ call' = [call EXCEPT ![c].completed = ok, ![c].pc = "settle",
                                ![c].blockers = IF ok THEN {} ELSE {"review"}]
  /\ Local(c)

\* #persistValidationLifecycle; the operate loop goes through it twice.
Settle(c) ==
  /\ call[c].pc \in {"settle", "again"}
  /\ lifecycle' = IF c \in aborted \/ lifecycle \in {"retired", "completed"} THEN lifecycle
                  ELSE IF call[c].completed THEN "completed" ELSE "blocked"
  /\ call' = [call EXCEPT ![c].pc = IF call[c].opts.operate /\ @ = "settle" THEN "again" ELSE "done"]
  /\ UNCHANGED <<world, receipts, retiring, aborted>>

Next ==
  \/ \E commit \in Commits, rewrite \in BOOLEAN : MoveHead(commit, rewrite)
  \/ BeginRetire \/ FinishRetire \/ CliRetire \/ Resume
  \/ \E c \in Calls :
       \/ Withdraw(c)
       \/ \E opts \in Requests : Begin(c, opts)
       \/ ResolveCommit(c) \/ RunValidation(c) \/ PersistValidation(c) \/ EndValidation(c)
       \/ CheckBranch(c) \/ CheckArtifact(c) \/ CrossValidate(c) \/ Complete(c)
       \/ \E given \in Verdicts, text \in Verdicts \ {"other"} : RunReviewFinalize(c, given, text)
       \/ Settle(c)

FinalizeSpec == Init /\ [][Next]_finVars

(***************************************************************************)
(* Properties.                                                             *)
(***************************************************************************)
\* What a completed implementation session rests on: all commands ran and
\* passed for the one commit, a PR or an issue was seen, and the receipt that
\* says so is on disk.
Evidenced(c) ==
  /\ commands > 0 /\ Cardinality(call[c].tests) = commands
  /\ call[c].commit # NoCommit /\ call[c].sawPr
  /\ \A i \in call[c].tests : receipts[i].pass /\ receipts[i].commit = call[c].commit
  /\ \E r \in Range(receipts) : r = CompletionReceipt(c)

\* runFinalize reports completed only with the whole evidence, also when the
\* caller waived tests, commit and PR with requireX = false.
CompletedIsEvidenced ==
  \A c \in Calls : call[c].completed =>
     \/ Evidenced(c)
     \/ \E r \in Range(receipts) : r.call = c /\ r.family = "review-verdict"

\* A validation whose outcome could not be observed ends the call: it is never
\* completed, and no receipt is written for that command or for completion
\* (finalize.test.ts, "blocks uncertain validation observation without
\* receipts even when tests are optional").
UncertainStops ==
  \A c \in Calls : call[c].unsure =>
     /\ ~call[c].completed /\ Cardinality(call[c].tests) < commands
     /\ \A r \in Range(receipts) : r.call = c => r.family = "validation"

\* The lifecycle in state.json is never ahead of the receipts: replaying the
\* receipts of a completed session leads to completed as well.
LifecycleBacked ==
  lifecycle = "completed" => Ingest("finalizing", receipts) = "completed"

\* And the receipts are never ahead of the finalizer: ingestReceipts completes
\* a session only if some finalize call found it completed.
IngestAgrees ==
  Ingest("finalizing", receipts) = "completed" => \E c \in Calls : call[c].completed

\* Once one call has completed the session, no other call that was already
\* under way adds a receipt to it (#persistOwnedReceipt).
EvidenceFrozen == [][lifecycle = "completed" => receipts' = receipts]_finVars

\* Every validation a completed call rests on ran on the commit it names.
\* It does not hold: HEAD is resolved once, before the commands run.
ValidatedAtCommit ==
  \A c \in Calls : call[c].completed =>
     \A i \in call[c].tests : receipts[i].tested = call[c].commit
=============================================================================
