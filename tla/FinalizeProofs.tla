--------------------------- MODULE FinalizeProofs ---------------------------
(***************************************************************************)
(* The safety properties of Finalize, for any number of calls, commands    *)
(* and commits.                                                            *)
(*                                                                         *)
(* FinalizeInv says of every call which validation receipts it has written *)
(* and how far it can be with them, and of every receipt what its call has *)
(* become.  What ingestReceipts computes from the receipts is the lemma    *)
(* IngestCompletes: the loop is a recursive function, and the least round  *)
(* in which it differs from its closed form would be a contradiction.      *)
(***************************************************************************)
EXTENDS Finalize, FiniteSetTheorems, WellFoundedInduction, TLAPS

\* Every nonempty set of naturals has a least element.
LEMMA LeastNatural ==
  ASSUME NEW T \in SUBSET Nat, T # {}
  PROVE  \E m \in T : \A n \in T : m <= n
<1> DEFINE R == {ss \in Nat \X Nat : ss[1] < ss[2]}
<1>1. IsWellFoundedOn(R, Nat)
  BY NatLessThanWellFounded, Zenon DEF OpToRel
<1> HIDE DEF R
<1>2. \E m \in T : \A n \in T : ~(<<n, m>> \in R)
  BY <1>1, WFMin, Zenon
<1>3. ASSUME NEW m \in Nat, NEW n \in Nat, ~(<<n, m>> \in R) PROVE m <= n
  BY <1>3 DEF R
<1> QED
  BY <1>2, <1>3, Zenon

(***************************************************************************)
(* The finalizer.                                                          *)
(***************************************************************************)

\* What the loop of ingestReceipts computes, whatever the receipts and their
\* order: the session ends completed if one of them can complete it.
LEMMA IngestCompletes ==
  ASSUME NEW rs, Len(rs) \in Nat
  PROVE  Ingest("finalizing", rs) = "completed"
           <=> \E i \in 1 .. Len(rs) : Moves("finalizing", rs[i])
<1> DEFINE N == Len(rs)
           Round(g, n) == IF n = 0 THEN "finalizing"
                         ELSE IF Moves(g[n - 1], rs[n]) THEN "completed" ELSE g[n - 1]
           f == CHOOSE g : g = [n \in 0 .. N |-> Round(g, n)]
           Hit(n) == \E i \in 1 .. n : Moves("finalizing", rs[i])
           h == [n \in 0 .. N |-> IF Hit(n) THEN "completed" ELSE "finalizing"]
<1>1. Ingest("finalizing", rs) = f[N]
  BY DEF Ingest
<1>3. h = [n \in 0 .. N |-> Round(h, n)]
  <2>1. ASSUME NEW n \in 0 .. N PROVE h[n] = Round(h, n)
    <3>1. CASE n = 0
      BY <3>1
    <3>2. CASE n # 0
      <4>1. n - 1 \in 0 .. N /\ h[n - 1] = IF Hit(n - 1) THEN "completed" ELSE "finalizing"
        BY <2>1, <3>2
      <4>2. Hit(n) <=> Hit(n - 1) \/ Moves("finalizing", rs[n])
        BY <2>1, <3>2
      <4> HIDE DEF h
      <4> QED
        BY <2>1, <3>2, <4>1, <4>2 DEF h
    <3> QED BY <3>1, <3>2
  <2> QED BY <2>1
<1>4. f = [n \in 0 .. N |-> Round(f, n)]
  <2>1. \E g : g = [n \in 0 .. N |-> Round(g, n)]
    BY <1>3, Zenon
  <2> QED BY <2>1, Zenon
<1> HIDE DEF f
<1>5. \A n \in 0 .. N : f[n] = h[n]
  <2> DEFINE T == {n \in 0 .. N : f[n] # h[n]}
  <2> SUFFICES ASSUME T # {} PROVE FALSE
    BY SMTT(20)
  <2>1. T \in SUBSET Nat
    OBVIOUS
  <2>2. PICK m \in T : \A n \in T : m <= n
    <3> HIDE DEF T
    <3> QED BY <2>1, LeastNatural
  <2> HIDE DEF h
  <2>3. m \in 0 .. N /\ f[m] # h[m] /\ f[m] = Round(f, m) /\ h[m] = Round(h, m)
    BY <1>3, <1>4, <2>2
  <2>4. m # 0
    BY <2>3
  <2>5. m - 1 \in 0 .. N /\ m - 1 \notin T
    BY <2>2, <2>3, <2>4
  <2>6. f[m - 1] = h[m - 1]
    BY <2>5
  <2> QED BY <2>3, <2>4, <2>6
<1>6. N \in 0 .. N /\ h[N] = IF Hit(N) THEN "completed" ELSE "finalizing"
  OBVIOUS
<1> QED
  BY <1>1, <1>5, <1>6

Revision == Commits \cup {NoCommit}
Receipt == [call : Calls, family : Families, valid : BOOLEAN, pass : BOOLEAN, commit : Revision,
            pr : BOOLEAN, tests : SUBSET Nat, verdict : Verdicts, tested : Revision]
Options == [operate : BOOLEAN, tests : BOOLEAN, commit : BOOLEAN, pr : BOOLEAN]
Running == {"branch", "artifact", "cross", "complete"}
Over == {"settle", "again", "done"}
Places == {"new", "commit", "verdict", "run", "persist"} \cup Running \cup Over
Reasons == {"cancelled", "validation_process_cleanup_failed", "validation-unknown", "validation-failed",
            "none-run", "commit", "missing-pr", "validation-receipt-invalid",
            "validation-stale-commit", "completion-invalid", "review"}
CallState == [pc : Places, opts : Options, commit : Revision, tests : SUBSET Nat, pass : BOOLEAN,
              tested : Revision, sawPr : BOOLEAN, unsure : BOOLEAN, blockers : SUBSET Reasons,
              completed : BOOLEAN]

FinalizeTypes ==
  /\ head \in Revision /\ pr \in BOOLEAN /\ commands \in Nat
  /\ receipts \in Seq(Receipt)
  /\ call \in [Calls -> CallState]

\* What a completed call rests on, k being its variables, rs the receipts
\* and n the number of commands: the whole evidence, or a verdict that needs nobody's confirmation.
Grounds(c, k, rs, n) ==
  \/ /\ n > 0 /\ Cardinality(k.tests) = n
     /\ k.commit # NoCommit /\ k.sawPr
     /\ \A i \in k.tests : rs[i].pass /\ rs[i].commit = k.commit
     /\ \E i \in DOMAIN rs :
          rs[i] = [call |-> c, family |-> "completion", valid |-> TRUE, pass |-> FALSE,
                   commit |-> k.commit, pr |-> k.sawPr, tests |-> k.tests,
                   verdict |-> "none", tested |-> NoCommit]
  \/ \E i \in DOMAIN rs :
       rs[i].call = c /\ rs[i].family = "review-verdict" /\ Moves("finalizing", rs[i])

\* What holds of every call: its validation receipts are on disk, one for each
\* command that ran, for the commit it resolved; it gets past the commands
\* only when all of them ran, and to the completion receipt only when all of
\* them passed; once it is over it is completed with grounds, or unsure and
\* then short of a command.
CallOK(c, k, rs, n) ==
  /\ k.tests \subseteq DOMAIN rs /\ IsFiniteSet(k.tests)
  /\ Cardinality(k.tests) <= n
  /\ k.pc = "persist" => Cardinality(k.tests) < n
  /\ k.pc \in Running => Cardinality(k.tests) = n
  /\ k.pc \in {"new", "commit", "verdict"} => k.tests = {}
  /\ \A i \in k.tests : rs[i].family = "validation" /\ rs[i].commit = k.commit
  /\ k.pc = "complete" => \A i \in k.tests : rs[i].pass
  /\ k.completed => k.pc \in Over /\ ~k.unsure /\ Grounds(c, k, rs, n)
  /\ k.unsure => k.pc \in Over /\ Cardinality(k.tests) < n

\* What holds of every receipt, k being the call that wrote it.
ReceiptOK(r, k) ==
  /\ r.family # "validation" => k.pc \in Over /\ ~k.unsure
  /\ Moves("finalizing", r) => k.completed

\* The inductive invariant.
FinalizeInv ==
  /\ FinalizeTypes
  /\ \A c \in Calls : CallOK(c, call[c], receipts, commands)
  /\ \A i \in DOMAIN receipts : ReceiptOK(receipts[i], call[receipts[i].call])
  /\ lifecycle = "completed" => \E i \in DOMAIN receipts : Moves("finalizing", receipts[i])

\* Appending a receipt leaves the others where they are.
LEMMA Appended ==
  ASSUME NEW rs \in Seq(Receipt), NEW r \in Receipt
  PROVE  LET n == Len(rs) + 1 IN
         /\ Append(rs, r) \in Seq(Receipt) /\ Len(Append(rs, r)) = n /\ Append(rs, r)[n] = r
         /\ n \in Nat /\ n \notin DOMAIN rs /\ DOMAIN Append(rs, r) = DOMAIN rs \cup {n}
         /\ \A i \in DOMAIN rs : Append(rs, r)[i] = rs[i]
  OBVIOUS

\* Receipts are only added, which takes no call's grounds away.
LEMMA GroundsKept ==
  ASSUME NEW rs \in Seq(Receipt), NEW qs \in Seq(Receipt), DOMAIN rs \subseteq DOMAIN qs,
         \A i \in DOMAIN rs : qs[i] = rs[i],
         NEW c \in Calls, NEW k \in CallState, NEW n \in Nat, CallOK(c, k, rs, n)
  PROVE  CallOK(c, k, qs, n)
<1>1. k.tests \subseteq DOMAIN rs /\ \A i \in k.tests : qs[i] = rs[i]
  BY DEF CallOK
<1>2. Grounds(c, k, rs, n) => Grounds(c, k, qs, n)
  BY <1>1 DEF Grounds
<1> QED
  BY <1>1, <1>2 DEF CallOK

\* A completed call has left a receipt that ingestReceipts completes the
\* session with.
LEMMA GroundsMove ==
  ASSUME NEW rs \in Seq(Receipt), NEW c \in Calls, NEW k \in CallState, NEW n \in Nat,
         Grounds(c, k, rs, n)
  PROVE  \E i \in DOMAIN rs : Moves("finalizing", rs[i])
<1>1. CASE \E i \in DOMAIN rs : rs[i].family = "review-verdict" /\ Moves("finalizing", rs[i])
  BY <1>1
<1>2. ASSUME n > 0, Cardinality(k.tests) = n, k.commit # NoCommit, k.sawPr,
             NEW i \in DOMAIN rs,
             rs[i] = [call |-> c, family |-> "completion", valid |-> TRUE, pass |-> FALSE,
                      commit |-> k.commit, pr |-> k.sawPr, tests |-> k.tests,
                      verdict |-> "none", tested |-> NoCommit]
      PROVE  Moves("finalizing", rs[i])
  <2>1. k.tests # {}
    BY <1>2, FS_EmptySet
  <2>2. ValidateReceipt(rs[i]) /\ rs[i].valid /\ rs[i].family = "completion"
    BY <1>2, <2>1 DEF ValidateReceipt, ValidateCompletion
  <2> QED
    BY <2>2 DEF Moves, Targeted, Contradicts, CanTransition
<1> QED
  BY <1>1, <1>2 DEF Grounds

\* A step of one call, which may add a receipt of its own.
LEMMA StepOfCall ==
  ASSUME FinalizeInv, NEW c \in Calls, call' \in [Calls -> CallState],
         \A d \in Calls \ {c} : call'[d] = call[d],
         head' = head, pr' = pr, commands' = commands,
         \/ receipts' = receipts
         \/ \E r \in Receipt :
              receipts' = Append(receipts, r) /\ r.call = c /\ ReceiptOK(r, call'[c]),
         CallOK(c, call'[c], receipts', commands),
         call[c].completed => call'[c].completed,
         call[c].pc \in Over => call'[c].pc \in Over /\ (call'[c].unsure => call[c].unsure),
         lifecycle' = "completed" => lifecycle = "completed" \/ call'[c].completed
  PROVE  FinalizeInv'
<1> DEFINE k == call'[c]
<1>1. /\ receipts \in Seq(Receipt) /\ call \in [Calls -> CallState] /\ commands \in Nat
      /\ head \in Revision /\ pr \in BOOLEAN /\ k \in CallState
  BY DEF FinalizeInv, FinalizeTypes
<1>2. /\ receipts' \in Seq(Receipt) /\ DOMAIN receipts \subseteq DOMAIN receipts'
      /\ \A i \in DOMAIN receipts : receipts'[i] = receipts[i]
  <2>1. CASE receipts' = receipts
    BY <1>1, <2>1
  <2>2. ASSUME NEW r \in Receipt, receipts' = Append(receipts, r)
        PROVE  /\ receipts' \in Seq(Receipt) /\ DOMAIN receipts \subseteq DOMAIN receipts'
               /\ \A i \in DOMAIN receipts : receipts'[i] = receipts[i]
    BY <1>1, <2>2, Appended
  <2> QED BY <2>1, <2>2
<1>3. ASSUME NEW i \in DOMAIN receipts', i \notin DOMAIN receipts
      PROVE  receipts'[i].call = c /\ ReceiptOK(receipts'[i], k)
  BY <1>1, <1>3, Appended
<1>4. FinalizeTypes'
  BY <1>1, <1>2 DEF FinalizeTypes
<1>5. ASSUME NEW d \in Calls PROVE CallOK(d, call'[d], receipts', commands')
  <2>1. CASE d = c
    BY <1>1, <2>1
  <2>2. CASE d # c
    <3>1. call'[d] = call[d] /\ call[d] \in CallState /\ CallOK(d, call[d], receipts, commands)
      BY <1>1, <2>2 DEF FinalizeInv
    <3> QED BY <1>1, <1>2, <3>1, GroundsKept
  <2> QED BY <2>1, <2>2
<1>6. ASSUME NEW i \in DOMAIN receipts' PROVE ReceiptOK(receipts'[i], call'[receipts'[i].call])
  <2>1. CASE i \in DOMAIN receipts
    <3>1. receipts'[i] = receipts[i] /\ receipts[i] \in Receipt
      BY <1>1, <1>2, <2>1
    <3>2. receipts[i].call \in Calls
      BY <3>1 DEF Receipt
    <3>3. ReceiptOK(receipts[i], call[receipts[i].call])
      BY <2>1 DEF FinalizeInv
    <3>4. CASE receipts[i].call # c
      BY <3>1, <3>2, <3>3, <3>4
    <3>5. CASE receipts[i].call = c
      <4>1. ReceiptOK(receipts[i], k)
        BY <3>3, <3>5 DEF ReceiptOK
      <4> QED BY <3>1, <3>5, <4>1
    <3> QED BY <3>4, <3>5
  <2>2. CASE i \notin DOMAIN receipts
    BY <1>3, <2>2
  <2> QED BY <2>1, <2>2
<1>7. lifecycle' = "completed" => \E i \in DOMAIN receipts' : Moves("finalizing", receipts'[i])
  <2>1. CASE lifecycle = "completed"
    BY <1>2, <2>1 DEF FinalizeInv
  <2>2. CASE k.completed
    BY <1>1, <1>2, <2>2, GroundsMove DEF CallOK
  <2> QED BY <2>1, <2>2
<1> QED
  BY <1>4, <1>5, <1>6, <1>7 DEF FinalizeInv

\* A step that gives the call up, or takes it further without a receipt.
LEMMA QuietStep ==
  ASSUME FinalizeInv, NEW c \in Calls, NEW k \in CallState, call' = [call EXCEPT ![c] = k],
         UNCHANGED <<head, pr, commands, receipts, lifecycle>>, call[c].pc \notin Over,
         k.tests = call[c].tests, (k.completed => call[c].completed),
         k.commit = call[c].commit \/ call[c].tests = {},
         k.unsure => call[c].unsure \/ (k.pc \in Over /\ Cardinality(k.tests) < commands),
         k.pc = "persist" => Cardinality(k.tests) < commands,
         k.pc \in Running => Cardinality(k.tests) = commands,
         k.pc \in {"new", "commit", "verdict"} => k.tests = {},
         k.pc = "complete" => \A i \in k.tests : receipts[i].pass
  PROVE  FinalizeInv'
<1>1. call \in [Calls -> CallState] /\ CallOK(c, call[c], receipts, commands)
  BY DEF FinalizeInv, FinalizeTypes
<1>2. call' \in [Calls -> CallState] /\ call'[c] = k /\ \A d \in Calls \ {c} : call'[d] = call[d]
  BY <1>1
<1>3. ~call[c].completed /\ ~call[c].unsure
  BY <1>1 DEF CallOK
<1>4. CallOK(c, k, receipts, commands)
  BY <1>1, <1>3 DEF CallOK
<1> QED
  BY <1>2, <1>3, <1>4, StepOfCall

\* Giving the call up is such a step.
LEMMA CancelStep ==
  ASSUME FinalizeInv, NEW c \in Calls, call[c].pc \notin Over, Cancel(c),
         UNCHANGED <<head, pr, commands, receipts, lifecycle>>
  PROVE  FinalizeInv'
<1> DEFINE k == [call[c] EXCEPT !.blockers = {"cancelled"}, !.pc = "settle"]
<1>1. call \in [Calls -> CallState] /\ call[c] \in CallState
  BY DEF FinalizeInv, FinalizeTypes
<1>2. call' = [call EXCEPT ![c] = k]
  BY <1>1, Zenon DEF Cancel
<1>3. {"cancelled"} \in SUBSET Reasons
  BY DEF Reasons
<1>4. /\ k \in CallState /\ k.pc = "settle" /\ k.tests = call[c].tests
      /\ (k.completed => call[c].completed) /\ k.commit = call[c].commit /\ (k.unsure => call[c].unsure)
  BY <1>1, <1>3, Zenon DEF CallState, Places, Over
<1> HIDE DEF k
<1> QED
  BY <1>2, <1>4, QuietStep, Zenon DEF Running, Over

\* The steps of a call that write no receipt.
LEMMA QuietActions ==
  ASSUME FinalizeInv, NEW c \in Calls,
         \/ \E opts \in Requests : Begin(c, opts)
         \/ ResolveCommit(c) \/ RunValidation(c) \/ EndValidation(c)
         \/ CheckBranch(c) \/ CheckArtifact(c) \/ CrossValidate(c)
  PROVE  FinalizeInv'
<1>1. /\ call \in [Calls -> CallState] /\ call[c] \in CallState /\ CallOK(c, call[c], receipts, commands)
      /\ head \in Revision /\ pr \in BOOLEAN /\ commands \in Nat
  BY DEF FinalizeInv, FinalizeTypes
<1>2. UNCHANGED <<head, pr, commands, receipts, lifecycle>>
  BY Zenon DEF Begin, ResolveCommit, RunValidation, EndValidation, CheckBranch, CheckArtifact,
         CrossValidate, Local, world
<1>3. ASSUME NEW opts \in Requests, Begin(c, opts) PROVE FinalizeInv'
  <2> DEFINE p == IF review /\ ~opts.operate THEN "verdict" ELSE "commit"
             k == [call[c] EXCEPT !.opts = opts, !.pc = p]
  <2>1. call' = [call EXCEPT ![c] = k] /\ call[c].pc = "new"
    BY <1>1, <1>3, Zenon DEF Begin
  <2>2. p \in {"verdict", "commit"} /\ opts \in Options
    BY FinalizeAssumption DEF Options
  <2> HIDE DEF p
  <2>3. /\ k \in CallState /\ k.pc = p /\ k.tests = call[c].tests
        /\ (k.completed => call[c].completed) /\ k.commit = call[c].commit /\ (k.unsure => call[c].unsure)
    BY <1>1, <2>2, Zenon DEF CallState, Places
  <2>4. call[c].tests = {}
    BY <1>1, <2>1 DEF CallOK
  <2> HIDE DEF k
  <2> QED BY <1>2, <2>1, <2>2, <2>3, <2>4, QuietStep, Zenon DEF Running, Over
<1>4. CASE ResolveCommit(c)
  <2> DEFINE k == [call[c] EXCEPT !.commit = head, !.pc = "run"]
  <2>1. call[c].pc = "commit" /\ (Cancel(c) \/ call' = [call EXCEPT ![c] = k])
    BY <1>1, <1>4, Zenon DEF ResolveCommit
  <2>2. /\ k \in CallState /\ k.pc = "run" /\ k.tests = call[c].tests
        /\ (k.completed => call[c].completed) /\ (k.unsure => call[c].unsure)
    BY <1>1, Zenon DEF CallState, Places
  <2>3. call[c].tests = {}
    BY <1>1, <2>1 DEF CallOK
  <2> HIDE DEF k
  <2> QED BY <1>2, <2>1, <2>2, <2>3, QuietStep, CancelStep, Zenon DEF Running, Over
<1>5. CASE RunValidation(c)
  <2> DEFINE b == Blocked(c, "validation-unknown")
             k(pass) == [call[c] EXCEPT !.pass = pass, !.tested = head, !.pc = "persist"]
             u == [call[c] EXCEPT !.blockers = b, !.pc = "settle", !.unsure = TRUE]
             t == [call[c] EXCEPT !.blockers = CleanupFailed, !.pc = "done", !.unsure = TRUE]
  <2>1. /\ call[c].pc = "run" /\ Cardinality(call[c].tests) < commands
        /\ \/ \E pass \in BOOLEAN : call' = [call EXCEPT ![c] = k(pass)]
           \/ call' = [call EXCEPT ![c] = u]
           \/ call' = [call EXCEPT ![c] = t]
    BY <1>1, <1>5, Zenon DEF RunValidation, MoreCommands
  <2>2. ASSUME NEW pass \in BOOLEAN
        PROVE  /\ k(pass) \in CallState /\ k(pass).pc = "persist" /\ k(pass).tests = call[c].tests
               /\ (k(pass).completed => call[c].completed) /\ k(pass).commit = call[c].commit
               /\ (k(pass).unsure => call[c].unsure)
    BY <1>1, Zenon DEF CallState, Places
  <2>0. b \in SUBSET Reasons /\ CleanupFailed \in SUBSET Reasons
    BY <1>1 DEF CallState, Blocked, CleanupFailed, Reasons
  <2> HIDE DEF b
  <2>3. /\ u \in CallState /\ u.pc = "settle" /\ u.tests = call[c].tests
        /\ (u.completed => call[c].completed) /\ u.commit = call[c].commit
    BY <1>1, <2>0, Zenon DEF CallState, Places, Over
  <2>4. /\ t \in CallState /\ t.pc = "done" /\ t.tests = call[c].tests
        /\ (t.completed => call[c].completed) /\ t.commit = call[c].commit
    BY <1>1, <2>0, Zenon DEF CallState, Places, Over
  <2> HIDE DEF k, u, t
  <2>5. ASSUME NEW pass \in BOOLEAN, call' = [call EXCEPT ![c] = k(pass)] PROVE FinalizeInv'
    BY <1>2, <2>1, <2>2, <2>5, QuietStep, Zenon DEF Running, Over
  <2>6. CASE call' = [call EXCEPT ![c] = u]
    BY <1>2, <2>1, <2>3, <2>6, QuietStep, Zenon DEF Running, Over
  <2>7. CASE call' = [call EXCEPT ![c] = t]
    BY <1>2, <2>1, <2>4, <2>7, QuietStep, Zenon DEF Running, Over
  <2> QED BY <2>1, <2>5, <2>6, <2>7
<1>6. CASE EndValidation(c)
  <2> DEFINE b == IF call[c].opts.tests /\ commands = 0 THEN Blocked(c, "none-run")
                  ELSE call[c].blockers
             k == [call[c] EXCEPT !.blockers = b, !.pc = "branch"]
  <2>1. /\ call[c].pc = "run" /\ ~(Cardinality(call[c].tests) < commands)
        /\ Cancel(c) \/ call' = [call EXCEPT ![c] = k]
    BY <1>1, <1>6, Zenon DEF EndValidation, MoreCommands
  <2>2. b \in SUBSET Reasons
    BY <1>1 DEF CallState, Blocked, Reasons
  <2> HIDE DEF b
  <2>3. /\ k \in CallState /\ k.pc = "branch" /\ k.tests = call[c].tests
        /\ (k.completed => call[c].completed) /\ k.commit = call[c].commit /\ (k.unsure => call[c].unsure)
    BY <1>1, <2>2, Zenon DEF CallState, Places, Running
  <2>4. Cardinality(call[c].tests) = commands
    BY <1>1, <2>1, FS_CardinalityType, SMTT(20) DEF CallOK
  <2> HIDE DEF k
  <2> QED BY <1>2, <2>1, <2>3, <2>4, QuietStep, CancelStep DEF Running, Over
<1>7. CASE CheckBranch(c)
  <2> DEFINE b == IF call[c].opts.commit /\ call[c].commit \notin onBranch
                  THEN Blocked(c, "commit") ELSE call[c].blockers
             k == [call[c] EXCEPT !.blockers = b, !.pc = "artifact"]
  <2>1. call[c].pc = "branch" /\ (Cancel(c) \/ call' = [call EXCEPT ![c] = k])
    BY <1>1, <1>7, Zenon DEF CheckBranch
  <2>2. b \in SUBSET Reasons
    BY <1>1 DEF CallState, Blocked, Reasons
  <2> HIDE DEF b
  <2>3. /\ k \in CallState /\ k.pc = "artifact" /\ k.tests = call[c].tests
        /\ (k.completed => call[c].completed) /\ k.commit = call[c].commit /\ (k.unsure => call[c].unsure)
    BY <1>1, <2>2, Zenon DEF CallState, Places, Running
  <2>4. Cardinality(call[c].tests) = commands
    BY <1>1, <2>1 DEF CallOK, Running
  <2> HIDE DEF k
  <2> QED BY <1>2, <2>1, <2>3, <2>4, QuietStep, CancelStep DEF Running, Over
<1>8. CASE CheckArtifact(c)
  <2> DEFINE b == IF call[c].opts.pr /\ ~pr THEN Blocked(c, "missing-pr") ELSE call[c].blockers
             k == [call[c] EXCEPT !.blockers = b, !.sawPr = pr, !.pc = "cross"]
  <2>1. call[c].pc = "artifact" /\ (Cancel(c) \/ call' = [call EXCEPT ![c] = k])
    BY <1>1, <1>8, Zenon DEF CheckArtifact
  <2>2. b \in SUBSET Reasons
    BY <1>1 DEF CallState, Blocked, Reasons
  <2> HIDE DEF b
  <2>3. /\ k \in CallState /\ k.pc = "cross" /\ k.tests = call[c].tests
        /\ (k.completed => call[c].completed) /\ k.commit = call[c].commit /\ (k.unsure => call[c].unsure)
    BY <1>1, <2>2, Zenon DEF CallState, Places, Running
  <2>4. Cardinality(call[c].tests) = commands
    BY <1>1, <2>1 DEF CallOK, Running
  <2> HIDE DEF k
  <2> QED BY <1>2, <2>1, <2>3, <2>4, QuietStep, CancelStep DEF Running, Over
<1>9. CASE CrossValidate(c)
  <2> DEFINE found == IF call[c].blockers = {} THEN CrossBlockers(c) ELSE call[c].blockers
             b == [call[c] EXCEPT !.blockers = found, !.pc = "settle"]
             k == [call[c] EXCEPT !.pc = "complete"]
  <2>1. /\ call[c].pc = "cross"
        /\ \/ call' = [call EXCEPT ![c] = b]
           \/ Cancel(c)
           \/ found = {} /\ call' = [call EXCEPT ![c] = k]
    BY <1>1, <1>9, Zenon DEF CrossValidate
  <2>2. found \in SUBSET Reasons
    BY <1>1 DEF CallState, CrossBlockers, Reasons
  <2>3. /\ b \in CallState /\ b.pc = "settle" /\ b.tests = call[c].tests
        /\ (b.completed => call[c].completed) /\ b.commit = call[c].commit /\ (b.unsure => call[c].unsure)
    BY <1>1, <2>2, Zenon DEF CallState, Places, Over
  <2>4. /\ k \in CallState /\ k.pc = "complete" /\ k.tests = call[c].tests
        /\ (k.completed => call[c].completed) /\ k.commit = call[c].commit /\ (k.unsure => call[c].unsure)
    BY <1>1 DEF CallState, Places, Running
  <2>5. Cardinality(call[c].tests) = commands
    BY <1>1, <2>1 DEF CallOK, Running
  <2>6. found = {} => \A i \in call[c].tests : receipts[i].pass
    <3> SUFFICES ASSUME CrossBlockers(c) = {}, NEW i \in call[c].tests PROVE receipts[i].pass
      OBVIOUS
    <3>1. "validation-receipt-invalid" \notin CrossBlockers(c)
      OBVIOUS
    <3>2. ValidateReceipt(receipts[i])
      BY <3>1 DEF CrossBlockers
    <3>3. receipts[i].family = "validation"
      BY <1>1 DEF CallOK
    <3> QED BY <3>2, <3>3 DEF ValidateReceipt
  <2> HIDE DEF found, b, k
  <2>7. CASE call' = [call EXCEPT ![c] = b]
    BY <1>2, <2>1, <2>3, <2>7, QuietStep, Zenon DEF Running, Over
  <2>8. CASE found = {} /\ call' = [call EXCEPT ![c] = k]
    BY <1>2, <2>1, <2>4, <2>5, <2>6, <2>8, QuietStep, Zenon DEF Running, Over
  <2>9. CASE Cancel(c)
    BY <1>2, <2>1, <2>9, CancelStep DEF Over
  <2> QED BY <2>1, <2>7, <2>8, <2>9
<1> QED
  BY <1>3, <1>4, <1>5, <1>6, <1>7, <1>8, <1>9

\* A validation receipt adds one to what the call has observed.
LEMMA PersistStep ==
  ASSUME FinalizeInv, NEW c \in Calls, PersistValidation(c)
  PROVE  FinalizeInv'
<1>1. /\ call \in [Calls -> CallState] /\ call[c] \in CallState /\ CallOK(c, call[c], receipts, commands)
      /\ receipts \in Seq(Receipt) /\ commands \in Nat
  BY DEF FinalizeInv, FinalizeTypes
<1>2. UNCHANGED <<head, pr, commands, lifecycle>> /\ call[c].pc = "persist"
  BY DEF PersistValidation, Local, world
<1>3. CASE Cancel(c) /\ UNCHANGED receipts
  BY <1>2, <1>3, CancelStep DEF Over
<1>4. CASE /\ receipts' = Append(receipts, ValidationReceipt(c))
           /\ call' = [call EXCEPT ![c].tests = @ \cup {Len(receipts')},
                                   ![c].blockers = IF call[c].opts.tests /\ ~call[c].pass
                                                   THEN Blocked(c, "validation-failed") ELSE @,
                                   ![c].pc = "run"]
  <2> DEFINE n == Len(receipts) + 1
             r == ValidationReceipt(c)
             t == call[c].tests \cup {n}
             b == IF call[c].opts.tests /\ ~call[c].pass
                  THEN Blocked(c, "validation-failed") ELSE call[c].blockers
             k == [call[c] EXCEPT !.tests = t, !.blockers = b, !.pc = "run"]
  <2>1. /\ r \in Receipt /\ r.call = c /\ r.family = "validation" /\ r.commit = call[c].commit
        /\ r.pass = call[c].pass
    BY <1>1 DEF ValidationReceipt, Receipt, CallState, Families, Verdicts, Revision
  <2>2. ~Moves("finalizing", r)
    BY <2>1 DEF Moves, Targeted
  <2>3. /\ receipts' = Append(receipts, r) /\ Len(receipts') = n /\ receipts'[n] = r
        /\ DOMAIN receipts' = DOMAIN receipts \cup {n} /\ n \notin DOMAIN receipts /\ n \in Nat
        /\ \A i \in DOMAIN receipts : receipts'[i] = receipts[i]
    BY <1>1, <1>4, <2>1, Appended
  <2>4. call' = [call EXCEPT ![c] = k]
    BY <1>1, <1>4, <2>3, Zenon
  <2>5. t \in SUBSET Nat /\ b \in SUBSET Reasons
    BY <1>1, <2>3 DEF CallState, Blocked, Reasons
  <2>6. /\ call[c].tests \subseteq DOMAIN receipts /\ IsFiniteSet(call[c].tests)
        /\ Cardinality(call[c].tests) < commands
    BY <1>1, <1>2 DEF CallOK
  <2>7. n \notin call[c].tests
    BY <2>3, <2>6
  <2>8. IsFiniteSet(t) /\ Cardinality(t) <= commands
    <3>1. IsFiniteSet(t) /\ Cardinality(t) = Cardinality(call[c].tests) + 1
      BY <2>6, <2>7, FS_AddElement
    <3> QED BY <1>1, <2>6, <3>1, FS_CardinalityType
  <2>9. \A i \in t : i \in DOMAIN receipts' /\ receipts'[i].family = "validation"
                     /\ receipts'[i].commit = call[c].commit
    <3>1. \A i \in call[c].tests : receipts[i].family = "validation" /\ receipts[i].commit = call[c].commit
      BY <1>1 DEF CallOK
    <3> QED BY <2>1, <2>3, <2>6, <3>1
  <2> HIDE DEF t, b, r, n
  <2>10. /\ k \in CallState /\ k.pc = "run" /\ k.tests = t /\ k.commit = call[c].commit
         /\ (k.completed => call[c].completed) /\ (k.unsure => call[c].unsure)
    BY <1>1, <2>5, Zenon DEF CallState, Places
  <2>11. ~call[c].completed /\ ~call[c].unsure
    BY <1>1, <1>2 DEF CallOK, Over
  <2> HIDE DEF k
  <2>12. CallOK(c, k, receipts', commands)
    BY <2>8, <2>9, <2>10, <2>11 DEF CallOK, Running
  <2>13. ReceiptOK(r, k)
    BY <2>1, <2>2 DEF ReceiptOK
  <2>14. /\ call' \in [Calls -> CallState] /\ call'[c] = k
         /\ \A d \in Calls \ {c} : call'[d] = call[d]
    BY <1>1, <2>4, <2>10
  <2> QED
    BY <1>2, <2>1, <2>3, <2>11, <2>12, <2>13, <2>14, StepOfCall, SMTT(20) DEF Over
<1> QED
  BY <1>3, <1>4, Zenon DEF PersistValidation

\* Changing one call leaves the others alone.
LEMMA OneCall ==
  ASSUME NEW f \in [Calls -> CallState], NEW c \in Calls, NEW k \in CallState
  PROVE  /\ [f EXCEPT ![c] = k] \in [Calls -> CallState] /\ [f EXCEPT ![c] = k][c] = k
         /\ \A d \in Calls \ {c} : [f EXCEPT ![c] = k][d] = f[d]
  OBVIOUS

\* The receipt a call ends with: the call is completed exactly if the receipt
\* moves the lifecycle, and then has grounds.
LEMMA EndingStep ==
  ASSUME FinalizeInv, NEW c \in Calls, NEW r \in Receipt, NEW ok \in BOOLEAN, NEW b \in SUBSET Reasons,
         UNCHANGED <<head, pr, commands, lifecycle>>,
         call[c].pc \in {"complete", "verdict"}, r.call = c,
         receipts' = Append(receipts, r),
         call' = [call EXCEPT ![c] = [call[c] EXCEPT !.completed = ok, !.pc = "settle", !.blockers = b]],
         Moves("finalizing", r) => ok,
         ok => \/ r.family = "review-verdict" /\ Moves("finalizing", r)
               \/ call[c].pc = "complete" /\ r = CompletionReceipt(c) /\ ValidateReceipt(r)
  PROVE  FinalizeInv'
<1> DEFINE k == [call[c] EXCEPT !.completed = ok, !.pc = "settle", !.blockers = b]
           n == Len(receipts) + 1
<1>1. /\ call \in [Calls -> CallState] /\ call[c] \in CallState /\ CallOK(c, call[c], receipts, commands)
      /\ receipts \in Seq(Receipt) /\ commands \in Nat
  BY DEF FinalizeInv, FinalizeTypes
<1>2. call' = [call EXCEPT ![c] = k]
  OBVIOUS
<1>3. /\ k \in CallState /\ k.pc = "settle" /\ k.tests = call[c].tests /\ k.commit = call[c].commit
      /\ k.sawPr = call[c].sawPr /\ (k.unsure => call[c].unsure)
  BY <1>1, Zenon DEF CallState, Places, Over
<1>4. k.completed <=> ok
  BY <1>1 DEF CallState
<1> HIDE DEF k
<1>5. /\ receipts'[n] = r /\ n \in DOMAIN receipts' /\ DOMAIN receipts \subseteq DOMAIN receipts'
      /\ \A i \in DOMAIN receipts : receipts'[i] = receipts[i]
  BY <1>1, Appended
<1>6. ~call[c].completed /\ ~call[c].unsure
  BY <1>1 DEF CallOK, Over
<1>7. /\ k.tests \subseteq DOMAIN receipts /\ IsFiniteSet(k.tests) /\ Cardinality(k.tests) <= commands
      /\ \A i \in k.tests : receipts[i].family = "validation" /\ receipts[i].commit = k.commit
  BY <1>1, <1>3 DEF CallOK
<1>8. ok => Grounds(c, k, receipts', commands)
  <2>1. CASE r.family = "review-verdict" /\ Moves("finalizing", r)
    BY <1>5, <2>1 DEF Grounds
  <2>2. CASE call[c].pc = "complete" /\ r = CompletionReceipt(c) /\ ValidateReceipt(r)
    <3>1. r.family = "completion" /\ r.commit = k.commit /\ r.pr = k.sawPr /\ r.tests = k.tests
      BY <1>3, <2>2 DEF CompletionReceipt
    <3>2. k.commit # NoCommit /\ k.sawPr /\ k.tests # {}
      BY <2>2, <3>1 DEF ValidateReceipt, ValidateCompletion
    <3>3. Cardinality(k.tests) = commands /\ \A i \in k.tests : receipts[i].pass
      BY <1>1, <1>3, <2>2 DEF CallOK, Running
    <3>4. commands > 0
      BY <1>1, <1>7, <3>2, <3>3, FS_EmptySet, FS_CardinalityType
    <3>5. receipts'[n] = [call |-> c, family |-> "completion", valid |-> TRUE, pass |-> FALSE,
                          commit |-> k.commit, pr |-> k.sawPr, tests |-> k.tests,
                          verdict |-> "none", tested |-> NoCommit]
      BY <1>3, <1>5, <2>2 DEF CompletionReceipt
    <3>6. \A i \in k.tests : receipts'[i].pass /\ receipts'[i].commit = k.commit
      BY <1>5, <1>7, <3>3
    <3> HIDE DEF n
    <3> QED BY <1>5, <3>2, <3>3, <3>4, <3>5, <3>6, Zenon DEF Grounds
  <2> QED BY <2>1, <2>2
<1>9. CallOK(c, k, receipts', commands)
  BY <1>3, <1>4, <1>5, <1>6, <1>7, <1>8 DEF CallOK, Running, Over
<1>10. ReceiptOK(r, k)
  BY <1>3, <1>4, <1>6 DEF ReceiptOK, Over
<1>11. /\ call' \in [Calls -> CallState] /\ call'[c] = k
       /\ \A d \in Calls \ {c} : call'[d] = call[d]
  BY <1>1, <1>2, <1>3, OneCall
<1> QED
  BY <1>6, <1>9, <1>10, <1>11, StepOfCall DEF Over

\* The two ways a call ends with a receipt of its own.
LEMMA EndingActions ==
  ASSUME FinalizeInv, NEW c \in Calls,
         \/ Complete(c)
         \/ \E given \in Verdicts, text \in Verdicts \ {"other"} : RunReviewFinalize(c, given, text)
  PROVE  FinalizeInv'
<1>1. call \in [Calls -> CallState] /\ call[c] \in CallState
  BY DEF FinalizeInv, FinalizeTypes
<1>2. UNCHANGED <<head, pr, commands, lifecycle>>
  BY Zenon DEF Complete, RunReviewFinalize, Local, world
<1>3. CASE Complete(c)
  <2> DEFINE r == CompletionReceipt(c)
             ok == ValidateReceipt(r)
             b == IF ok THEN {} ELSE {"completion-invalid"}
  <2>1. r \in Receipt /\ r.call = c /\ r.family = "completion" /\ b \in SUBSET Reasons
    BY <1>1 DEF CompletionReceipt, Receipt, CallState, Families, Verdicts, Revision, Reasons
  <2>2. ok \in BOOLEAN
    <3>1. ok = ValidateCompletion(r)
      BY <2>1 DEF ValidateReceipt
    <3> QED BY <3>1, <2>1 DEF ValidateCompletion, Receipt
  <2>3. Moves("finalizing", r) => ok
    BY DEF Moves
  <2>4. CASE Cancel(c) /\ UNCHANGED receipts
    BY <1>2, <1>3, <2>4, CancelStep DEF Over, Complete
  <2>5. CASE /\ receipts' = Append(receipts, r)
             /\ call' = [call EXCEPT ![c].completed = ok, ![c].pc = "settle", ![c].blockers = b]
    <3>0. call' = [call EXCEPT ![c] = [call[c] EXCEPT !.completed = ok, !.pc = "settle", !.blockers = b]]
      BY <1>1, <2>5, Zenon
    <3>1. call[c].pc = "complete"
      BY <1>3 DEF Complete
    <3> HIDE DEF b
    <3> QED BY <1>2, <2>1, <2>2, <2>3, <2>5, <3>0, <3>1, EndingStep, Zenon
  <2> QED BY <1>3, <2>4, <2>5 DEF Complete
<1>4. ASSUME NEW given \in Verdicts, NEW text \in Verdicts \ {"other"}, RunReviewFinalize(c, given, text)
      PROVE  FinalizeInv'
  <2> DEFINE v == ReviewVerdict(given, text)
             r == VerdictReceipt(c, v)
             ok == ValidateReceipt(r) /\ Autonomous(v)
             b == IF ok THEN {} ELSE {"review"}
  <2>1. v \in ReviewVerdicts \cup {"none"}
    BY DEF ReviewVerdict, Verdicts
  <2> HIDE DEF v
  <2>2. r \in Receipt /\ r.call = c /\ b \in SUBSET Reasons /\ ok \in BOOLEAN /\ r.valid /\ r.verdict = v
    BY <2>1 DEF VerdictReceipt, Receipt, Families, Verdicts, Revision, Reasons
  <2>3. r.family = IF v = "none" THEN "review-failure" ELSE "review-verdict"
    BY DEF VerdictReceipt
  <2>4. Moves("finalizing", r) => ok
    BY <2>2, <2>3 DEF Moves, Targeted, Contradicts, Autonomous
  <2>5. ok => r.family = "review-verdict" /\ Moves("finalizing", r)
    BY <2>2, <2>3 DEF Moves, Targeted, Contradicts, Autonomous, CanTransition
  <2>6. CASE Cancel(c) /\ UNCHANGED receipts
    BY <1>2, <1>4, <2>6, CancelStep, Zenon DEF Over, RunReviewFinalize
  <2>7. CASE /\ receipts' = Append(receipts, r)
             /\ call' = [call EXCEPT ![c].completed = ok, ![c].pc = "settle", ![c].blockers = b]
    <3>0. call' = [call EXCEPT ![c] = [call[c] EXCEPT !.completed = ok, !.pc = "settle", !.blockers = b]]
      BY <1>1, <2>7, Zenon
    <3>1. call[c].pc = "verdict"
      BY <1>4, Zenon DEF RunReviewFinalize
    <3> HIDE DEF r, ok, b
    <3> QED BY <1>2, <2>2, <2>4, <2>5, <2>7, <3>0, <3>1, EndingStep, Zenon
  <2> QED BY <1>4, <2>6, <2>7, Zenon DEF RunReviewFinalize, v
<1> QED
  BY <1>3, <1>4

\* Writing the lifecycle: completed is written only for a completed call.
LEMMA LifecycleStep ==
  ASSUME FinalizeInv, NEW c \in Calls, Settle(c)
  PROVE  FinalizeInv'
<1> DEFINE p == IF call[c].opts.operate /\ call[c].pc = "settle" THEN "again" ELSE "done"
           k == [call[c] EXCEPT !.pc = p]
<1>1. /\ call \in [Calls -> CallState] /\ call[c] \in CallState /\ CallOK(c, call[c], receipts, commands)
      /\ receipts \in Seq(Receipt)
  BY DEF FinalizeInv, FinalizeTypes
<1>2. /\ UNCHANGED <<head, pr, commands, receipts>> /\ call[c].pc \in Over
      /\ call' = [call EXCEPT ![c] = k]
  BY <1>1 DEF Settle, world, Over
<1>3. p \in {"again", "done"}
  OBVIOUS
<1> HIDE DEF p
<1>4. /\ k \in CallState /\ k.pc = p /\ k.tests = call[c].tests /\ k.commit = call[c].commit
      /\ k.sawPr = call[c].sawPr /\ (k.unsure <=> call[c].unsure)
      /\ (k.completed <=> call[c].completed)
  BY <1>1, <1>3 DEF CallState, Places, Over
<1> HIDE DEF k
<1>5. Grounds(c, call[c], receipts, commands) => Grounds(c, k, receipts, commands)
  BY <1>4, SMTT(20) DEF Grounds
<1>6. CallOK(c, k, receipts, commands)
  BY <1>1, <1>2, <1>3, <1>4, <1>5 DEF CallOK, Over, Running
<1>7. /\ call' \in [Calls -> CallState] /\ call'[c] = k
      /\ \A d \in Calls \ {c} : call'[d] = call[d]
  BY <1>1, <1>2, <1>4, OneCall
<1>8. lifecycle' = "completed" => lifecycle = "completed" \/ call[c].completed
  BY DEF Settle
<1> QED
  BY <1>2, <1>3, <1>4, <1>6, <1>7, <1>8, StepOfCall DEF Over

\* The workspace, the callers and the other verbs leave calls and receipts be.
LEMMA OutsideSteps ==
  ASSUME FinalizeInv, UNCHANGED <<pr, commands, receipts, call>>, head' \in Revision,
         lifecycle' = "completed" => lifecycle = "completed"
  PROVE  FinalizeInv'
  BY DEF FinalizeInv, FinalizeTypes

\* The invariant holds at the start.
LEMMA InitFinalize == Init => FinalizeInv
<1> SUFFICES ASSUME Init PROVE FinalizeInv
  OBVIOUS
<1>1. Fresh \in CallState
  BY DEF Fresh, CallState, Places, Options, Strict, Revision
<1>2. FinalizeTypes
  BY <1>1, FinalizeAssumption DEF Init, FinalizeTypes, Revision
<1>3. ASSUME NEW c \in Calls PROVE CallOK(c, call[c], receipts, commands)
  <2>1. call[c].pc = "new" /\ call[c].tests = {} /\ ~call[c].completed /\ ~call[c].unsure
    BY DEF Init, Fresh
  <2>2. commands \in Nat
    BY <1>2 DEF FinalizeTypes
  <2>3. IsFiniteSet({}) /\ Cardinality({}) = 0
    BY FS_EmptySet, Zenon
  <2> QED BY <2>1, <2>2, <2>3, SMTT(20) DEF CallOK, Running
<1> QED
  BY <1>2, <1>3 DEF FinalizeInv, Init

\* Every step keeps the invariant.
LEMMA NextFinalize == FinalizeInv /\ [Next]_finVars => FinalizeInv'
<1> SUFFICES ASSUME FinalizeInv, [Next]_finVars PROVE FinalizeInv'
  OBVIOUS
<1>0. head \in Revision
  BY DEF FinalizeInv, FinalizeTypes
<1>1. ASSUME NEW commit \in Commits, NEW rewrite \in BOOLEAN, MoveHead(commit, rewrite)
      PROVE  FinalizeInv'
  BY <1>1, OutsideSteps DEF MoveHead, Revision
<1>2. CASE BeginRetire \/ FinishRetire \/ CliRetire \/ Resume \/ UNCHANGED finVars
  BY <1>0, <1>2, OutsideSteps DEF BeginRetire, FinishRetire, CliRetire, Resume, finVars, world
<1>3. ASSUME NEW c \in Calls, Withdraw(c) PROVE FinalizeInv'
  BY <1>0, <1>3, OutsideSteps DEF Withdraw, world
<1> QED
  BY <1>1, <1>2, <1>3, QuietActions, PersistStep, EndingActions, LifecycleStep DEF Next

\* Every reachable state satisfies the invariant of the finalizer.
THEOREM FinalizeInvariant == FinalizeSpec => []FinalizeInv
  BY InitFinalize, NextFinalize, PTL DEF FinalizeSpec

\* runFinalize reports completed only with the whole evidence, whatever the
\* caller waived: for any number of calls, commands and commits.
THEOREM CompletionNeedsEvidence == FinalizeSpec => []CompletedIsEvidenced
<1>1. FinalizeInv => CompletedIsEvidenced
  <2> SUFFICES ASSUME FinalizeInv, NEW c \in Calls, call[c].completed
               PROVE  \/ Evidenced(c)
                      \/ \E r \in Range(receipts) : r.call = c /\ r.family = "review-verdict"
    BY DEF CompletedIsEvidenced
  <2>1. Grounds(c, call[c], receipts, commands)
    BY DEF FinalizeInv, CallOK
  <2> QED BY <2>1 DEF Grounds, Evidenced, CompletionReceipt, Range
<1> QED BY <1>1, FinalizeInvariant, PTL

\* A validation whose outcome could not be observed ends the call, and leaves
\* it without a completion.
THEOREM UncertaintyStops == FinalizeSpec => []UncertainStops
<1>1. FinalizeInv => UncertainStops
  <2> SUFFICES ASSUME FinalizeInv, NEW c \in Calls, call[c].unsure
               PROVE  /\ ~call[c].completed /\ Cardinality(call[c].tests) < commands
                      /\ \A r \in Range(receipts) : r.call = c => r.family = "validation"
    BY DEF UncertainStops
  <2>1. ~call[c].completed /\ Cardinality(call[c].tests) < commands
    BY DEF FinalizeInv, CallOK
  <2>2. ASSUME NEW i \in DOMAIN receipts, receipts[i].call = c PROVE receipts[i].family = "validation"
    BY <2>2 DEF FinalizeInv, ReceiptOK
  <2> QED BY <2>1, <2>2 DEF Range
<1> QED BY <1>1, FinalizeInvariant, PTL

\* Replaying the receipts of a completed session leads to completed as well,
\* however many receipts there are and in whatever order they were written.
THEOREM CompletedIsBacked == FinalizeSpec => []LifecycleBacked
<1>1. FinalizeInv => LifecycleBacked
  <2> SUFFICES ASSUME FinalizeInv, lifecycle = "completed"
               PROVE  Ingest("finalizing", receipts) = "completed"
    BY DEF LifecycleBacked
  <2>1. receipts \in Seq(Receipt) /\ \E i \in DOMAIN receipts : Moves("finalizing", receipts[i])
    BY DEF FinalizeInv, FinalizeTypes
  <2>2. Len(receipts) \in Nat /\ DOMAIN receipts = 1 .. Len(receipts)
    BY <2>1
  <2> QED BY <2>1, <2>2, IngestCompletes
<1> QED BY <1>1, FinalizeInvariant, PTL

\* And ingestReceipts completes only a session that some call found completed.
THEOREM ReplayNeedsCall == FinalizeSpec => []IngestAgrees
<1>1. FinalizeInv => IngestAgrees
  <2> SUFFICES ASSUME FinalizeInv, Ingest("finalizing", receipts) = "completed"
               PROVE  \E c \in Calls : call[c].completed
    BY DEF IngestAgrees
  <2>1. receipts \in Seq(Receipt)
    BY DEF FinalizeInv, FinalizeTypes
  <2>2. Len(receipts) \in Nat /\ DOMAIN receipts = 1 .. Len(receipts)
    BY <2>1
  <2>3. PICK i \in DOMAIN receipts : Moves("finalizing", receipts[i])
    BY <2>2, IngestCompletes
  <2>4. receipts[i].call \in Calls
    <3>1. receipts[i] \in Receipt
      BY <2>1
    <3> QED BY <3>1 DEF Receipt
  <2>5. call[receipts[i].call].completed
    BY <2>3 DEF FinalizeInv, ReceiptOK
  <2> QED BY <2>4, <2>5
<1> QED BY <1>1, FinalizeInvariant, PTL

\* Once the session is completed no step adds a receipt to it.
THEOREM EvidenceIsFrozen == FinalizeSpec => EvidenceFrozen
<1>1. ASSUME [Next]_finVars, lifecycle = "completed" PROVE receipts' = receipts
  <2>1. ASSUME NEW c \in Calls,
               \/ PersistValidation(c) \/ Complete(c)
               \/ \E given \in Verdicts, text \in Verdicts \ {"other"} : RunReviewFinalize(c, given, text)
        PROVE  receipts' = receipts
    BY <1>1, <2>1 DEF PersistValidation, Complete, RunReviewFinalize, Withdrawn
  <2>2. ASSUME NEW c \in Calls,
               \/ Withdraw(c) \/ (\E opts \in Requests : Begin(c, opts))
               \/ ResolveCommit(c) \/ RunValidation(c) \/ EndValidation(c) \/ CheckBranch(c)
               \/ CheckArtifact(c) \/ CrossValidate(c) \/ Settle(c)
        PROVE  receipts' = receipts
    BY <2>2, Zenon DEF Withdraw, Begin, ResolveCommit, RunValidation, EndValidation, CheckBranch,
                CheckArtifact, CrossValidate, Settle
  <2>3. CASE \/ \E commit \in Commits, rewrite \in BOOLEAN : MoveHead(commit, rewrite)
             \/ BeginRetire \/ FinishRetire \/ CliRetire \/ Resume \/ UNCHANGED finVars
    BY <2>3 DEF MoveHead, BeginRetire, FinishRetire, CliRetire, Resume, finVars
  <2> QED BY <1>1, <2>1, <2>2, <2>3 DEF Next
<1> QED BY <1>1, PTL DEF FinalizeSpec, EvidenceFrozen

(***************************************************************************)
(* A still workspace.  ValidatedAtCommit fails when HEAD moves between the *)
(* resolution of the commit and a validation command, and only then.       *)
(***************************************************************************)
\* What a call has resolved and tested, k being its variables, while HEAD is h.
Pinned(k, rs, h) ==
  /\ k.pc \in {"run", "persist"} => k.commit = h
  /\ k.pc = "persist" => k.tested = h
  /\ \A i \in k.tests : rs[i].tested = k.commit

StillInv == moves \in Nat /\ (moves = 0 => \A c \in Calls : Pinned(call[c], receipts, head))

\* A step of one call while HEAD stands still.
LEMMA StillStep ==
  ASSUME FinalizeInv, StillInv, moves = 0, NEW c \in Calls, NEW k \in CallState,
         call' = [call EXCEPT ![c] = k], head' = head,
         \/ receipts' = receipts
         \/ \E r \in Receipt : receipts' = Append(receipts, r),
         Pinned(k, receipts', head)
  PROVE  \A d \in Calls : Pinned(call[d], receipts, head)'
<1> SUFFICES ASSUME NEW d \in Calls PROVE Pinned(call'[d], receipts', head')
  OBVIOUS
<1>1. /\ call \in [Calls -> CallState] /\ receipts \in Seq(Receipt)
      /\ CallOK(d, call[d], receipts, commands) /\ Pinned(call[d], receipts, head)
  BY DEF FinalizeInv, FinalizeTypes, StillInv
<1>2. CASE d = c
  BY <1>1, <1>2, OneCall, SMTT(20)
<1>3. CASE d # c
  <2>1. call'[d] = call[d]
    BY <1>1, <1>3, OneCall
  <2>2. \A i \in DOMAIN receipts : receipts'[i] = receipts[i]
    BY <1>1, Appended, SMTT(20)
  <2>3. call[d].tests \subseteq DOMAIN receipts
    BY <1>1 DEF CallOK
  <2> QED BY <1>1, <2>1, <2>2, <2>3 DEF Pinned
<1> QED BY <1>2, <1>3

\* The steps that change neither what a call has tested nor its commit.
LEMMA StillQuiet ==
  ASSUME FinalizeInv, StillInv, moves = 0, NEW c \in Calls, NEW k \in CallState,
         call' = [call EXCEPT ![c] = k], head' = head,
         \/ receipts' = receipts
         \/ \E r \in Receipt : receipts' = Append(receipts, r),
         k.tests = call[c].tests, k.commit = call[c].commit,
         k.pc \notin {"run", "persist"}
  PROVE  \A d \in Calls : Pinned(call[d], receipts, head)'
<1>1. /\ receipts \in Seq(Receipt) /\ call[c].tests \subseteq DOMAIN receipts
      /\ Pinned(call[c], receipts, head)
  BY DEF FinalizeInv, FinalizeTypes, CallOK, StillInv
<1>2. \A i \in DOMAIN receipts : receipts'[i] = receipts[i]
  BY <1>1, Appended
<1>3. Pinned(k, receipts', head)
  BY <1>1, <1>2 DEF Pinned
<1> QED
  BY <1>3, StillStep, Zenon

\* Every step of a call keeps what it tested pinned to its commit.
LEMMA StillCalls ==
  ASSUME FinalizeInv, FinalizeInv', StillInv, moves = 0, NEW c \in Calls,
         \/ \E opts \in Requests : Begin(c, opts)
         \/ ResolveCommit(c) \/ RunValidation(c) \/ PersistValidation(c) \/ EndValidation(c)
         \/ CheckBranch(c) \/ CheckArtifact(c) \/ CrossValidate(c) \/ Complete(c)
         \/ \E given \in Verdicts, text \in Verdicts \ {"other"} : RunReviewFinalize(c, given, text)
         \/ Settle(c)
  PROVE  \A d \in Calls : Pinned(call[d], receipts, head)'
<1> DEFINE k == call'[c]
<1>1. /\ call \in [Calls -> CallState] /\ call[c] \in CallState /\ k \in CallState
      /\ call' \in [Calls -> CallState] /\ receipts \in Seq(Receipt) /\ receipts' \in Seq(Receipt)
      /\ Pinned(call[c], receipts, head) /\ CallOK(c, call[c], receipts, commands)
  BY DEF FinalizeInv, FinalizeTypes, StillInv
<1>2. head' = head
  BY Zenon DEF Begin, ResolveCommit, RunValidation, PersistValidation, EndValidation, CheckBranch,
         CheckArtifact, CrossValidate, Complete, RunReviewFinalize, Settle, Local, world
<1>3. ASSUME NEW f \in [Calls -> CallState], \A d \in Calls \ {c} : f[d] = call[d]
      PROVE  f = [call EXCEPT ![c] = f[c]]
  BY <1>1, <1>3
<1>4. ASSUME /\ k.tests = call[c].tests /\ k.commit = call[c].commit /\ k.pc \notin {"run", "persist"}
             /\ \A d \in Calls \ {c} : call'[d] = call[d],
             receipts' = receipts \/ \E r \in Receipt : receipts' = Append(receipts, r)
      PROVE  \A d \in Calls : Pinned(call[d], receipts, head)'
  BY <1>1, <1>2, <1>3, <1>4, StillQuiet
<1>5. CASE Cancel(c) /\ UNCHANGED receipts
  BY <1>1, <1>4, <1>5 DEF Cancel, CallState
<1>6. ASSUME NEW r \in Receipt, receipts' = Append(receipts, r), NEW ok, NEW b,
             call' = [call EXCEPT ![c].completed = ok, ![c].pc = "settle", ![c].blockers = b]
      PROVE  \A d \in Calls : Pinned(call[d], receipts, head)'
  BY <1>1, <1>4, <1>6 DEF CallState
<1>7. CASE CheckBranch(c)
  BY <1>1, <1>4, <1>5, <1>7 DEF CheckBranch, CallState
<1>8. CASE CheckArtifact(c)
  BY <1>1, <1>4, <1>5, <1>8 DEF CheckArtifact, CallState
<1>9. CASE CrossValidate(c)
  BY <1>1, <1>4, <1>5, <1>9 DEF CrossValidate, CallState
<1>10. CASE EndValidation(c)
  BY <1>1, <1>4, <1>5, <1>10 DEF EndValidation, CallState
<1>11. CASE Settle(c)
  BY <1>1, <1>4, <1>11 DEF Settle, CallState
<1>12. ASSUME NEW opts \in Requests, Begin(c, opts) PROVE \A d \in Calls : Pinned(call[d], receipts, head)'
  BY <1>1, <1>4, <1>12, Zenon DEF Begin, CallState
<1>13. CASE Complete(c)
  <2>1. CompletionReceipt(c) \in Receipt
    BY <1>1 DEF CompletionReceipt, Receipt, CallState, Families, Verdicts, Revision
  <2> QED BY <1>5, <1>6, <1>13, <2>1, Zenon DEF Complete
<1>14. ASSUME NEW given \in Verdicts, NEW text \in Verdicts \ {"other"}, RunReviewFinalize(c, given, text)
       PROVE  \A d \in Calls : Pinned(call[d], receipts, head)'
  <2>1. VerdictReceipt(c, ReviewVerdict(given, text)) \in Receipt
    BY DEF VerdictReceipt, ReviewVerdict, Receipt, Families, Verdicts, Revision
  <2> QED BY <1>5, <1>6, <1>14, <2>1, Zenon DEF RunReviewFinalize
<1>15. CASE ResolveCommit(c)
  <2>1. CASE call' = [call EXCEPT ![c].commit = head, ![c].pc = "run"]
    <3>1. /\ k.tests = call[c].tests /\ k.commit = head /\ k.pc = "run" /\ receipts' = receipts
          /\ (\A d \in Calls \ {c} : call'[d] = call[d]) /\ call[c].pc = "commit"
      BY <1>1, <1>15, <2>1 DEF ResolveCommit, CallState
    <3>2. Pinned(k, receipts', head)
      BY <1>1, <3>1, Zenon DEF Pinned, CallOK
    <3> QED BY <1>1, <1>2, <1>3, <3>1, <3>2, StillStep
  <2> QED BY <1>5, <1>15, <2>1 DEF ResolveCommit
<1>16. CASE RunValidation(c)
  <2>1. receipts' = receipts /\ call[c].pc = "run"
    BY <1>16, Zenon DEF RunValidation
  <2>2. ASSUME NEW pass \in BOOLEAN,
               call' = [call EXCEPT ![c].pass = pass, ![c].tested = head, ![c].pc = "persist"]
        PROVE  \A d \in Calls : Pinned(call[d], receipts, head)'
    <3>1. /\ k.tests = call[c].tests /\ k.commit = call[c].commit /\ k.tested = head /\ k.pc = "persist"
          /\ \A d \in Calls \ {c} : call'[d] = call[d]
      BY <1>1, <2>2 DEF CallState
    <3>2. Pinned(k, receipts', head)
      BY <1>1, <2>1, <3>1, Zenon DEF Pinned
    <3> QED BY <1>1, <1>2, <1>3, <2>1, <3>1, <3>2, StillStep
  <2>3. ASSUME NEW b, NEW p \in {"settle", "done"},
               call' = [call EXCEPT ![c].blockers = b, ![c].pc = p, ![c].unsure = TRUE]
        PROVE  \A d \in Calls : Pinned(call[d], receipts, head)'
    BY <1>1, <1>4, <2>1, <2>3 DEF CallState
  <2> QED BY <1>16, <2>2, <2>3, Zenon DEF RunValidation
<1>17. CASE PersistValidation(c)
  <2> DEFINE r == ValidationReceipt(c)
             n == Len(receipts) + 1
  <2>1. r \in Receipt /\ r.tested = call[c].tested
    BY <1>1, Zenon DEF ValidationReceipt, Receipt, CallState, Families, Verdicts, Revision
  <2>2. CASE /\ receipts' = Append(receipts, r)
             /\ call' = [call EXCEPT ![c].tests = @ \cup {Len(receipts')},
                                     ![c].blockers = IF call[c].opts.tests /\ ~call[c].pass
                                                     THEN Blocked(c, "validation-failed") ELSE @,
                                     ![c].pc = "run"]
    <3>1. /\ Len(receipts') = n /\ receipts'[n] = r
          /\ \A i \in DOMAIN receipts : receipts'[i] = receipts[i]
      BY <1>1, <2>1, <2>2, Appended, SMTT(20)
    <3>2. /\ k.tests = call[c].tests \cup {n} /\ k.commit = call[c].commit /\ k.pc = "run"
          /\ \A d \in Calls \ {c} : call'[d] = call[d]
      BY <1>1, <2>2, <3>1 DEF CallState
    <3>3. call[c].tests \subseteq DOMAIN receipts /\ call[c].tested = head /\ call[c].commit = head
      BY <1>1, <1>17 DEF CallOK, Pinned, PersistValidation
    <3>4. \A i \in call[c].tests : receipts[i].tested = call[c].commit
      BY <1>1, Zenon DEF Pinned
    <3>5. \A i \in k.tests : receipts'[i].tested = k.commit
      BY <2>1, <3>1, <3>2, <3>3, <3>4, SMTT(20)
    <3>6. Pinned(k, receipts', head)
      BY <3>2, <3>3, <3>5 DEF Pinned
    <3> QED BY <1>1, <1>2, <1>3, <2>1, <2>2, <3>2, <3>6, StillStep, Zenon
  <2> QED BY <1>5, <1>17, <2>2, Zenon DEF PersistValidation
<1> QED
  BY <1>7, <1>8, <1>9, <1>10, <1>11, <1>12, <1>13, <1>14, <1>15, <1>16, <1>17, SMTT(20)

\* As long as HEAD has not moved, every validation a completed call rests on
\* ran on the commit the call names.
THEOREM StillWorkspaceValidates == FinalizeSpec => [](moves = 0 => ValidatedAtCommit)
<1>1. Init => StillInv
  <2> SUFFICES ASSUME Init PROVE StillInv
    OBVIOUS
  <2>1. ASSUME NEW c \in Calls PROVE Pinned(call[c], receipts, head)
    <3>1. call[c].pc = "new" /\ call[c].tests = {}
      BY DEF Init, Fresh
    <3> QED BY <3>1 DEF Pinned
  <2> QED BY <2>1 DEF Init, StillInv
<1>2. FinalizeInv /\ FinalizeInv' /\ StillInv /\ [Next]_finVars => StillInv'
  <2> SUFFICES ASSUME FinalizeInv, FinalizeInv', StillInv, [Next]_finVars PROVE StillInv'
    OBVIOUS
  <2>1. CASE \E commit \in Commits, rewrite \in BOOLEAN : MoveHead(commit, rewrite)
    BY <2>1 DEF MoveHead, StillInv
  <2>2. CASE UNCHANGED <<moves, call, receipts, head>>
    BY <2>2 DEF StillInv
  <2>3. ASSUME BeginRetire \/ FinishRetire \/ CliRetire \/ Resume \/ UNCHANGED finVars
        PROVE  UNCHANGED <<moves, call, receipts, head>>
    BY <2>3 DEF BeginRetire, FinishRetire, CliRetire, Resume, finVars, world
  <2>4. ASSUME NEW c \in Calls, Withdraw(c) PROVE UNCHANGED <<moves, call, receipts, head>>
    BY <2>4 DEF Withdraw, world
  <2>5. ASSUME NEW c \in Calls,
               \/ \E opts \in Requests : Begin(c, opts)
               \/ ResolveCommit(c) \/ RunValidation(c) \/ PersistValidation(c) \/ EndValidation(c)
               \/ CheckBranch(c) \/ CheckArtifact(c) \/ CrossValidate(c) \/ Complete(c)
               \/ \E given \in Verdicts, text \in Verdicts \ {"other"} : RunReviewFinalize(c, given, text)
               \/ Settle(c)
        PROVE  StillInv'
    <3>1. moves' = moves
      BY <2>5, Zenon DEF Begin, ResolveCommit, RunValidation, PersistValidation, EndValidation, CheckBranch,
                  CheckArtifact, CrossValidate, Complete, RunReviewFinalize, Settle, Local, world
    <3>2. moves = 0 => \A d \in Calls : Pinned(call[d], receipts, head)'
      BY <2>5, StillCalls
    <3> QED BY <3>1, <3>2 DEF StillInv
  <2> QED BY <2>1, <2>2, <2>3, <2>4, <2>5 DEF Next
<1>3. StillInv => (moves = 0 => ValidatedAtCommit)
  BY DEF StillInv, Pinned, ValidatedAtCommit
<1> QED
  BY <1>1, <1>2, <1>3, FinalizeInvariant, PTL DEF FinalizeSpec
=============================================================================
