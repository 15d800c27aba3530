------------------------ MODULE JobsAndStoreProofs ------------------------
(***************************************************************************)
(* What TLAPS proves of background jobs, for any number of jobs, pollers   *)
(* and attempts, and of the lock of the conversation store, for any number *)
(* of processes, mutations and faults.                                     *)
(*                                                                         *)
(* OneGenerationPerId is inductive: a step other than a registration never *)
(* makes a generation a holder that was not one, and a registration takes  *)
(* an id no holder has.  CancelledIsQuiet and ToldIsNotInjected need to    *)
(* know where a delivery can be in each phase of its job's life.           *)
(*                                                                         *)
(* StoreInv is inductive as it stands.  While no lock of a live process    *)
(* has been unlinked by a reclaimer, a process in Critical owns the lock   *)
(* file; hence at most one is, no other can replace the document between   *)
(* its read and its commit, and each commit extends the one before.        *)
(***************************************************************************)
EXTENDS AsyncJobs, ConversationStore, TLAPS

(***************************************************************************)
(* Background jobs.                                                        *)
(***************************************************************************)
\* A step that registers nothing leaves the ids alone and makes no new holder.
Aside == id' = id /\ Holders' \subseteq Holders

\* acknowledgeDeliveries only suppresses generations that already hold their id.
LEMMA AcknowledgeAside ==
    ASSUME NEW I, NEW pending, pending \subseteq queue,
           AcknowledgeDeliveries(I, pending), UNCHANGED <<kept, dead, id>>,
           inflight' \subseteq inflight \cup queue
    PROVE  Aside
  BY DEF AcknowledgeDeliveries, Aside, Holders

\* The initial state satisfies the invariant.
LEMMA InitJobs == Init => JobInv
  BY JobsAssumption DEF Init, JobInv, OneGenerationPerId, JobsTypeOK, Holders

\* Every step keeps the types.
LEMMA TypeStep == JobsTypeOK /\ [Next]_vars => JobsTypeOK'
  <1> SUFFICES ASSUME JobsTypeOK, [Next]_vars PROVE JobsTypeOK'
    OBVIOUS
  <1> USE JobsAssumption DEF JobsTypeOK
  <1>1. ASSUME NEW g \in Gen, NEW w \in {"none", "waiting"}, Register(g, w) PROVE JobsTypeOK'
    <2>1. PICK i \in 1..MaxJobs : id' = [id EXCEPT ![g] = i]
      BY <1>1, Zenon DEF Register
    <2>2. id' \in [Gen -> 0..MaxJobs]
      BY <2>1
    <2>3. status' \in [Gen -> {"none", "running", "done", "cancelled"}]
      BY <1>1 DEF Register
    <2>4. wait' \in [Gen -> {"none", "waiting", "aborted", "ready", "returned"}]
      BY <1>1 DEF Register
    <2> QED BY <1>1, <2>2, <2>3, <2>4 DEF Register, deliveryVars, agentVars
  <1>2. ASSUME NEW g \in Gen, Settle(g) PROVE JobsTypeOK'
    BY <1>2 DEF Settle, EnqueueDelivery, agentVars
  <1>3. ASSUME NEW g \in Gen, FailNow(g) PROVE JobsTypeOK'
    BY <1>3 DEF FailNow, EnqueueDelivery, agentVars
  <1>4. ASSUME NEW g \in Gen, Evict(g) PROVE JobsTypeOK'
    BY <1>4 DEF Evict, deliveryVars, agentVars
  <1>5. ASSUME NEW g \in Gen, Complete(g) \/ Background(g) PROVE JobsTypeOK'
    BY <1>5 DEF Complete, Background, deliveryVars, agentVars
  <1>6. ASSUME NEW g \in Gen, Abort(g) PROVE JobsTypeOK'
    BY <1>6 DEF Abort, deliveryVars, agentVars
  <1>7. ASSUME NEW g \in Gen, ForegroundReturns(g) PROVE JobsTypeOK'
    BY <1>7 DEF ForegroundReturns, AcknowledgeDeliveries
  <1>8. ASSUME NEW g \in Gen, CancelJob(g) PROVE JobsTypeOK'
    BY <1>8 DEF CancelJob, AcknowledgeDeliveries
  <1>9. ASSUME NEW g \in Gen, PollFinished(g) PROVE JobsTypeOK'
    BY <1>9 DEF PollFinished, BuildResult, AcknowledgeDeliveries, Current, jobVars
  <1>10. ASSUME NEW g \in Gen, Deliver(g) PROVE JobsTypeOK'
    BY <1>10 DEF Deliver, Started, jobVars, agentVars
  <1>11. ASSUME NEW g \in Gen, Formatted(g) PROVE JobsTypeOK'
    BY <1>11 DEF Formatted, jobVars
  <1>12. ASSUME NEW g \in Gen, FormatFails(g) PROVE JobsTypeOK'
    <2>1. attempt' \in [Gen -> Nat] /\ queue' \subseteq Gen /\ dead' \subseteq Gen /\ inflight' \subseteq Gen
      BY <1>12 DEF FormatFails
    <2> QED BY <1>12, <2>1 DEF FormatFails, jobVars, agentVars
  <1>13. ASSUME NEW w \in Poller, NEW S \in SUBSET kept, StartPoll(w, S) PROVE JobsTypeOK'
    BY <1>13 DEF StartPoll, jobVars, deliveryVars, agentVars
  <1>14. ASSUME NEW w \in Poller, NEW next \in SUBSET queue, Poll(w, next) PROVE JobsTypeOK'
    BY <1>14 DEF Poll, BuildResult, AcknowledgeDeliveries, Started, Current, jobVars
  <1>15. CASE PruneSuppressedDeliveries
    BY <1>15 DEF PruneSuppressedDeliveries, jobVars, agentVars
  <1>16. CASE Flush
    BY <1>16 DEF Flush, jobVars
  <1>17. CASE UNCHANGED vars
    BY <1>17, SMTT(20) DEF vars, jobVars, deliveryVars, agentVars
  <1>18. ASSUME NEW g \in Gen, Step(g) PROVE JobsTypeOK'
    BY <1>1, <1>2, <1>3, <1>4, <1>5, <1>6, <1>7, <1>8, <1>9, <1>10, <1>11, <1>12, <1>18, Zenon DEF Step
  <1>19. ASSUME NEW w \in Poller, PollStep(w) PROVE JobsTypeOK'
    BY <1>13, <1>14, <1>19, Zenon DEF PollStep
  <1> QED BY <1>15, <1>16, <1>17, <1>18, <1>19 DEF Next

\* Every step but a registration leaves the ids and makes no new holder.
LEMMA StepAside ==
    ASSUME JobInv, [Next]_vars,
           ~ \E g \in Gen, w \in {"none", "waiting"} : Register(g, w)
    PROVE  Aside
  <1> USE DEF Aside, Holders
  <1>1. ASSUME NEW g \in Gen, Settle(g) \/ FailNow(g) PROVE Aside
    <2>1. queue' \subseteq queue \cup {g} /\ (queue' # queue => g \in kept)
      BY <1>1 DEF Settle, FailNow, EnqueueDelivery, JobInv, JobsTypeOK
    <2> QED BY <1>1, <2>1 DEF Settle, FailNow
  <1>2. ASSUME NEW g \in Gen, Evict(g) \/ Complete(g) \/ Background(g) \/ Abort(g) PROVE Aside
    BY <1>2 DEF Evict, Complete, Background, Abort, deliveryVars
  <1>3. ASSUME NEW g \in Gen, ForegroundReturns(g) \/ CancelJob(g) PROVE Aside
    BY <1>3, AcknowledgeAside DEF ForegroundReturns, CancelJob
  <1>4. ASSUME NEW g \in Gen, PollFinished(g) PROVE Aside
    BY <1>4, AcknowledgeAside DEF PollFinished, BuildResult, jobVars
  <1>5. ASSUME NEW g \in Gen, Deliver(g) PROVE Aside
    BY <1>5 DEF Deliver, Deliverable, Started, jobVars
  <1>6. ASSUME NEW g \in Gen, Formatted(g) \/ FormatFails(g) PROVE Aside
    BY <1>6 DEF Formatted, FormatFails, jobVars
  <1>7. ASSUME NEW w \in Poller, NEW S, StartPoll(w, S) PROVE Aside
    BY <1>7 DEF StartPoll, jobVars, deliveryVars
  <1>8. ASSUME NEW w \in Poller, NEW next \in SUBSET queue, Poll(w, next) PROVE Aside
    BY <1>8, AcknowledgeAside DEF Poll, BuildResult, Started, jobVars
  <1>9. CASE PruneSuppressedDeliveries \/ Flush \/ UNCHANGED vars
    BY <1>9 DEF PruneSuppressedDeliveries, Flush, vars, jobVars, deliveryVars
  <1>10. ASSUME NEW g \in Gen, Step(g) PROVE Aside
    BY <1>1, <1>2, <1>3, <1>4, <1>5, <1>6, <1>10 DEF Step
  <1>11. ASSUME NEW w \in Poller, PollStep(w) PROVE Aside
    BY <1>7, <1>8, <1>11, Zenon DEF PollStep
  <1> QED BY <1>9, <1>10, <1>11 DEF Next

\* Every step keeps one generation per id.
LEMMA IdStep == JobInv /\ [Next]_vars => OneGenerationPerId'
  <1> SUFFICES ASSUME JobInv, [Next]_vars PROVE OneGenerationPerId'
    OBVIOUS
  <1>1. CASE Aside
    BY <1>1 DEF Aside, JobInv, OneGenerationPerId
  <1>2. ASSUME NEW g \in Gen, NEW w \in {"none", "waiting"}, Register(g, w) PROVE OneGenerationPerId'
    <2>1. PICK i \in 1..MaxJobs : ResolvesTo(i) /\ id' = [id EXCEPT ![g] = i]
      BY <1>2, Zenon DEF Register
    <2>2. Holders' = Holders \cup {g} /\ Holders \subseteq Gen
      BY <1>2 DEF Register, Holders, deliveryVars, JobInv, JobsTypeOK
    <2>3. \A h \in Holders : id[h] # i
      BY <2>1 DEF ResolvesTo, IdsOf
    <2>4. \A h \in Gen : id'[h] = IF h = g THEN i ELSE id[h]
      BY <2>1 DEF JobInv, JobsTypeOK
    <2> QED BY <2>2, <2>3, <2>4 DEF JobInv, OneGenerationPerId
  <1> QED BY <1>1, <1>2, StepAside

\* Every step keeps the history of a result in order: its job has a record while it
\* runs, is delivered once it ended and stays acknowledged after it was returned.
LEMMA HistoryStep ==
    ASSUME JobInv, [Next]_vars, JobsTypeOK'
    PROVE  /\ (\A g \in queue \cup inflight \cup entries \cup injected : status[g] = "done")'
           /\ (\A g \in Gen : status[g] = "running" => g \in kept)'
           /\ (\A g \in Gen : status[g] = "done" => g \in settled \cup external)'
           /\ (\A g \in Gen : wait[g] # "none" => status[g] # "none")'
           /\ (\A g \in told : status[g] # "none" /\ (g \in kept => g \in acked))'
  <1> DEFINE Goal ==
           /\ \A g \in queue \cup inflight \cup entries \cup injected : status[g] = "done"
           /\ \A g \in Gen : status[g] = "running" => g \in kept
           /\ \A g \in Gen : status[g] = "done" => g \in settled \cup external
           /\ \A g \in Gen : wait[g] # "none" => status[g] # "none"
           /\ \A g \in told : status[g] # "none" /\ (g \in kept => g \in acked)
  <1> SUFFICES Goal' OBVIOUS
  <1>0. Goal /\ JobsTypeOK
    BY DEF JobInv
  <1> USE <1>0 DEF JobsTypeOK
  <1>1. ASSUME NEW g \in Gen, NEW w \in {"none", "waiting"}, Register(g, w) PROVE Goal'
    BY <1>1 DEF Register, deliveryVars, agentVars
  <1>2. ASSUME NEW g \in Gen, Settle(g) PROVE Goal'
    BY <1>2 DEF Settle, EnqueueDelivery, agentVars
  <1>3. ASSUME NEW g \in Gen, FailNow(g) PROVE Goal'
    BY <1>3 DEF FailNow, EnqueueDelivery, agentVars
  <1>4. ASSUME NEW g \in Gen, Evict(g) PROVE Goal'
    BY <1>4 DEF Evict, deliveryVars, agentVars
  <1>5. ASSUME NEW g \in Gen, Complete(g) \/ Background(g) PROVE Goal'
    BY <1>5 DEF Complete, Background, deliveryVars, agentVars
  <1>6. ASSUME NEW g \in Gen, Abort(g) PROVE Goal'
    BY <1>6 DEF Abort, deliveryVars, agentVars
  <1>7. ASSUME NEW g \in Gen, ForegroundReturns(g) PROVE Goal'
    BY <1>7 DEF ForegroundReturns, AcknowledgeDeliveries
  <1>8. ASSUME NEW g \in Gen, CancelJob(g) PROVE Goal'
    BY <1>8 DEF CancelJob, AcknowledgeDeliveries
  <1>9. ASSUME NEW g \in Gen, PollFinished(g) PROVE Goal'
    BY <1>9 DEF PollFinished, BuildResult, AcknowledgeDeliveries, Current, Terminal, IdsOf, jobVars
  <1>10. ASSUME NEW g \in Gen, Deliver(g) PROVE Goal'
    BY <1>10 DEF Deliver, Deliverable, Started, jobVars, agentVars
  <1>11. ASSUME NEW g \in Gen, Formatted(g) PROVE Goal'
    BY <1>11 DEF Formatted, jobVars
  <1>12. ASSUME NEW g \in Gen, FormatFails(g) PROVE Goal'
    BY <1>12 DEF FormatFails, jobVars, agentVars
  <1>13. ASSUME NEW w \in Poller, NEW S, StartPoll(w, S) PROVE Goal'
    BY <1>13, SMTT(20) DEF StartPoll, jobVars, deliveryVars, agentVars
  <1>14. ASSUME NEW w \in Poller, NEW next \in SUBSET queue, Poll(w, next) PROVE Goal'
    BY <1>14 DEF Poll, BuildResult, AcknowledgeDeliveries, Started, Current, Terminal, IdsOf, jobVars
  <1>15. CASE PruneSuppressedDeliveries
    BY <1>15 DEF PruneSuppressedDeliveries, jobVars, agentVars
  <1>16. CASE Flush
    BY <1>16 DEF Flush, jobVars
  <1>17. CASE UNCHANGED vars
    BY <1>17, SMTT(20) DEF vars, jobVars, deliveryVars, agentVars
  <1>18. ASSUME NEW g \in Gen, Step(g) PROVE Goal'
    BY <1>1, <1>2, <1>3, <1>4, <1>5, <1>6, <1>7, <1>8, <1>9, <1>10, <1>11, <1>12, <1>18, Zenon DEF Step
  <1>19. ASSUME NEW w \in Poller, PollStep(w) PROVE Goal'
    BY <1>13, <1>14, <1>19, Zenon DEF PollStep
  <1> QED BY <1>15, <1>16, <1>17, <1>18, <1>19 DEF Next

\* JobInv is inductive and holds of every behaviour of the manager.
THEOREM JobInvariant == Spec => []JobInv
  <1>1. JobInv /\ [Next]_vars => JobInv'
    <2> SUFFICES ASSUME JobInv, [Next]_vars PROVE JobInv'
      OBVIOUS
    <2>1. JobsTypeOK'
      BY TypeStep DEF JobInv
    <2>2. OneGenerationPerId'
      BY IdStep
    <2> QED BY <2>1, <2>2, HistoryStep DEF JobInv
  <1> QED BY InitJobs, <1>1, PTL DEF Spec

\* Recycling an id never confuses two generations the manager still knows.
THEOREM IdsKeepApart == Spec => []OneGenerationPerId
  <1>1. JobInv => OneGenerationPerId
    BY DEF JobInv
  <1> QED BY JobInvariant, <1>1, PTL

\* A cancelled job's result is never delivered.
THEOREM CancelSilences == Spec => []CancelledIsQuiet
  <1>1. JobInv => CancelledIsQuiet
    BY DEF JobInv, CancelledIsQuiet
  <1> QED BY JobInvariant, <1>1, PTL

\* A result returned by a tool call is not injected again while its record is retained.
THEOREM ToldOnceWhileKept == Spec => ToldIsNotInjected
  <1> DEFINE A == \A g \in Gen : g \in injected' \ injected => g \notin told \/ g \notin kept
  <1>1. JobInv /\ [Next]_vars => [A]_vars
    <2> SUFFICES ASSUME JobInv, Next PROVE A
      OBVIOUS
    <2>1. CASE Flush
      BY <2>1, SMTT(20) DEF Flush, IsDeliverySuppressed, IsDeliveryAcknowledged, AcknowledgedBy, JobInv
    <2>2. ASSUME NEW g \in Gen, Step(g) PROVE injected' = injected
      BY <2>2 DEF Step, Register, Settle, FailNow, Evict, Complete, ForegroundReturns, Background,
        Abort, PollFinished, CancelJob, Deliver, Formatted, FormatFails, agentVars
    <2>3. ASSUME NEW w \in Poller, PollStep(w) PROVE injected' = injected
      BY <2>3, Zenon DEF PollStep, StartPoll, Poll, agentVars
    <2>4. CASE PruneSuppressedDeliveries
      BY <2>4 DEF PruneSuppressedDeliveries, agentVars
    <2> QED BY <2>1, <2>2, <2>3, <2>4 DEF Next
  <1> QED BY JobInvariant, <1>1, PTL DEF Spec, ToldIsNotInjected

(***************************************************************************)
(* The conversation store.                                                 *)
(***************************************************************************)
\* A lock file of a process is not the missing one (FileOf, NoFile).
LEMMA FileFacts ==
  /\ \A p \in Proc : FileOf(p) \in Files /\ FileOf(p) # NoFile /\ FileOf(p).by = p
  /\ NoFile \notin Files
  BY StoreAssumption DEF FileOf, NoFile, Files

\* Publishing keeps the file and whose it is (acquireFileLock's writeFile).
LEMMA PublishedFacts ==
  ASSUME NEW f \in Files \cup {NoFile}, NEW p \in Proc
  PROVE  /\ Published(f, p) \in Files \cup {NoFile}
         /\ Published(f, p).by = f.by
         /\ f # NoFile => Published(f, p) # NoFile
<1>1. CASE f = NoFile
  BY <1>1, StoreAssumption DEF Published, NoFile
<1>2. CASE f \in Files
  BY <1>2, StoreAssumption, Zenon DEF Published, NoFile, Files
<1> QED  BY <1>1, <1>2

\* Growing old keeps the file and whose it is (isExpiredUnpublishedLock).
LEMMA AgedFacts ==
  ASSUME NEW f \in Files
  PROVE  /\ [f EXCEPT !.old = TRUE] \in Files
         /\ [f EXCEPT !.old = TRUE].by = f.by
  BY Zenon DEF Files

\* The invariant holds initially: no document, no live process under way, and
\* no lock file but one that a dead process left.
LEMMA InitStore == StoreInit => StoreInv
<1> SUFFICES ASSUME StoreInit PROVE StoreInv  OBVIOUS
<1>1. Absent \in Documents
  BY DEF Absent, Documents
<1>2. [kind |-> "transact", expected |-> Absent] \in Ops
  BY <1>1 DEF Ops, Kinds
<1>a. lock \in Files \cup {NoFile} /\ reclaim \in Files \cup {NoFile}
  BY DEF StoreInit, Leftovers
<1>b. at \in [Proc -> {"idle", "dead"}]
  BY DEF StoreInit
<1>3. StoreTypeOK
  BY <1>1, <1>2, <1>a, <1>b, Zenon DEF StoreInit, StoreTypeOK, Steps
<1>4. HolderOwnsLock /\ SnapshotIsCurrent
  BY <1>b DEF HolderOwnsLock, SnapshotIsCurrent, Critical
<1>5. NoUpdateLost
  BY DEF StoreInit, NoUpdateLost, Absent
<1> QED  BY <1>3, <1>4, <1>5 DEF StoreInv

\* A step of one process that touches neither the lock nor the document, and
\* does not put it among the holders, keeps the invariant (waiting, judging,
\* the reclaim lock, a crash).
LEMMA StepsAside ==
  ASSUME StoreInv, NEW p \in Proc, NEW there \in Steps \ Critical,
         at' = [at EXCEPT ![p] = there],
         UNCHANGED <<lock, work, stolen>>,
         reclaim' \in Files \cup {NoFile}, faults' \in Nat
  PROVE  StoreInv'
<1> USE DEF StoreInv, work
<1>1. StoreTypeOK'
  BY DEF StoreTypeOK
<1>2. HolderOwnsLock'
  BY DEF HolderOwnsLock, StoreTypeOK
<1>3. there # "update"
  BY DEF Critical
<1>4. SnapshotIsCurrent'
  BY <1>3 DEF SnapshotIsCurrent, StoreTypeOK
<1>5. NoUpdateLost'
  BY DEF NoUpdateLost
<1> QED  BY <1>1, <1>2, <1>4, <1>5

\* A holder that gives up the lock file leaves nobody in Critical, unless a
\* lock was stolen before (release, and the failed publication).
LEMMA Unlinks ==
  ASSUME StoreInv, NEW p \in Proc, at[p] \in Critical,
         at' = [at EXCEPT ![p] = "idle"], lock' = NoFile,
         UNCHANGED <<work, reclaim, stolen>>, faults' \in Nat
  PROVE  StoreInv'
<1> USE DEF StoreInv, work
<1>1. StoreTypeOK'
  BY DEF StoreTypeOK, Steps
<1>2. ASSUME ~stolen, NEW q \in Proc, at'[q] \in Critical PROVE FALSE
  BY <1>2 DEF HolderOwnsLock, StoreTypeOK, Critical
<1>3. HolderOwnsLock'
  BY <1>2 DEF HolderOwnsLock
<1>4. SnapshotIsCurrent'
  BY <1>2 DEF SnapshotIsCurrent, Critical
<1>5. NoUpdateLost'
  BY DEF NoUpdateLost
<1> QED  BY <1>1, <1>3, <1>4, <1>5
\* A commit is built on the document it replaces (persist).
LEMMA Commits ==
  ASSUME StoreInv, NEW p \in Proc, at[p] = "update",
         NEW d \in Documents, d.n = snap[p].n + 1, Persist(p, d)
  PROVE  StoreInv'
<1> USE DEF StoreInv, Persist, Go
<1>1. StoreTypeOK'
  BY DEF StoreTypeOK, Steps, Critical
<1>2. HolderOwnsLock'
  BY DEF HolderOwnsLock, StoreTypeOK, Critical
<1>3. ASSUME ~stolen, NEW q \in Proc, at'[q] = "update" PROVE FALSE
  BY <1>3 DEF HolderOwnsLock, StoreTypeOK, Critical
<1>4. SnapshotIsCurrent'
  BY <1>3 DEF SnapshotIsCurrent
<1>5. NoUpdateLost'
  BY DEF NoUpdateLost, SnapshotIsCurrent, StoreTypeOK
<1> QED  BY <1>1, <1>2, <1>4, <1>5

\* The documents a commit puts in place (write, transactWithSnapshot, delete).
LEMMA DocumentFacts ==
  ASSUME StoreInv, NEW p \in Proc
  PROVE  /\ NextDocument(p) \in Documents
         /\ NextDocument(p).n = snap[p].n + 1
         /\ [gen |-> 0, n |-> snap[p].n + 1] \in Documents
  BY DEF StoreInv, StoreTypeOK, NextDocument, Documents

\* Every step of the store keeps the invariant.
LEMMA NextStore == StoreInv /\ [StoreNext]_storeVars => StoreInv'
<1> SUFFICES ASSUME StoreInv, [StoreNext]_storeVars PROVE StoreInv'
  OBVIOUS
<1>t. /\ lock \in Files \cup {NoFile} /\ reclaim \in Files \cup {NoFile}
      /\ doc \in Documents
      /\ at \in [Proc -> Steps] /\ op \in [Proc -> Ops] /\ snap \in [Proc -> Documents]
      /\ ops \in Nat /\ faults \in Nat /\ commits \in Nat
      /\ stolen \in BOOLEAN
  BY DEF StoreInv, StoreTypeOK
<1>f. Fault => faults' \in Nat
  BY <1>t DEF Fault
<1>a. {"idle", "open", "wait", "dead"} \cup Reclaiming \subseteq Steps \ Critical
  BY DEF Steps, Critical, Reclaiming
<1>1. ASSUME NEW p \in Proc, Begin(p) PROVE StoreInv'
  <2>1. PICK k \in Kinds : op' = [op EXCEPT ![p] = [kind |-> k, expected |-> doc]]
    BY <1>1, Zenon DEF Begin
  <2>2. [kind |-> k, expected |-> doc] \in Ops
    BY <1>t DEF Ops
  <2>3. op' \in [Proc -> Ops] /\ ops' \in Nat
    BY <1>1, <1>t, <2>1, <2>2 DEF Begin
  <2>4. StoreTypeOK'
    BY <1>1, <1>t, <2>3 DEF Begin, Go, StoreTypeOK, Steps
  <2>5. HolderOwnsLock'
    BY <1>1, <1>t, SMTT(20) DEF Begin, Go, StoreInv, HolderOwnsLock, Critical
  <2>6. SnapshotIsCurrent' /\ NoUpdateLost'
    BY <1>1, <1>t DEF Begin, Go, StoreInv, SnapshotIsCurrent, NoUpdateLost
  <2> QED  BY <2>4, <2>5, <2>6 DEF StoreInv
<1>2. ASSUME NEW p \in Proc, OpenLock(p) PROVE StoreInv'
  <2>1. CASE lock # NoFile
    <3>1. at' = [at EXCEPT ![p] = "judge"] /\ "judge" \in Steps \ Critical
      BY <1>2, <2>1, <1>a DEF OpenLock, Go, Reclaiming
    <3> QED  BY <1>2, <2>1, <3>1, <1>t, StepsAside, Zenon DEF OpenLock
  <2>2. CASE lock = NoFile
    <3>1. lock' = FileOf(p) /\ at' = [at EXCEPT ![p] = "publish"]
          /\ UNCHANGED <<work, reclaim, faults, stolen>>
      BY <1>2, <2>2 DEF OpenLock, Go
    <3>2. ASSUME ~stolen, NEW q \in Proc, at'[q] \in Critical PROVE q = p
      BY <3>1, <3>2, <2>2, <1>t DEF StoreInv, HolderOwnsLock
    <3>3. StoreTypeOK'
      BY <3>1, <1>t, FileFacts DEF StoreTypeOK, Steps, Critical, work
    <3>4. HolderOwnsLock'
      BY <3>1, <3>2, FileFacts DEF HolderOwnsLock
    <3>5. SnapshotIsCurrent' /\ NoUpdateLost'
      BY <3>1, <1>t DEF StoreInv, SnapshotIsCurrent, NoUpdateLost, work
    <3> QED  BY <3>3, <3>4, <3>5 DEF StoreInv
  <2> QED  BY <2>1, <2>2
<1>3. ASSUME NEW p \in Proc, PublishLock(p) PROVE StoreInv'
  <2>1. /\ lock' \in Files \cup {NoFile} /\ lock'.by = lock.by
        /\ lock # NoFile => lock' # NoFile
    BY <1>3, <1>t, PublishedFacts DEF PublishLock
  <2>2. StoreTypeOK'
    BY <1>3, <1>t, <2>1 DEF PublishLock, Go, StoreTypeOK, Steps, Critical, work
  <2>3. HolderOwnsLock'
    BY <1>3, <1>t, <2>1 DEF PublishLock, Go, StoreInv, HolderOwnsLock, Critical
  <2>4. SnapshotIsCurrent' /\ NoUpdateLost'
    BY <1>3, <1>t DEF PublishLock, Go, StoreInv, SnapshotIsCurrent, NoUpdateLost, work
  <2> QED  BY <2>2, <2>3, <2>4 DEF StoreInv
<1>4. ASSUME NEW p \in Proc, PublishLockFails(p) PROVE StoreInv'
  <2>1. at[p] \in Critical
    BY <1>4 DEF PublishLockFails, Critical
  <2> QED  BY <1>4, <2>1, <1>f, Unlinks, Zenon DEF PublishLockFails, Go
<1>5. ASSUME NEW p \in Proc, Retry(p) \/ TimeOut(p) \/ Judge(p) PROVE StoreInv'
  <2>1. PICK there \in {"idle", "open", "wait"} \cup Reclaiming :
           at' = [at EXCEPT ![p] = there]
    BY <1>5 DEF Retry, TimeOut, Judge, Go, Reclaiming
  <2>2. UNCHANGED <<work, lock, reclaim, faults, stolen>>
    BY <1>5 DEF Retry, TimeOut, Judge
  <2> QED  BY <2>1, <2>2, <1>a, <1>t, StepsAside, Zenon
<1>6. ASSUME NEW p \in Proc, CreateReclaim(p) PROVE StoreInv'
  <2>1. PICK there \in {"wait"} \cup Reclaiming : at' = [at EXCEPT ![p] = there]
    BY <1>6 DEF CreateReclaim, Go, Reclaiming
  <2>2. reclaim' \in Files \cup {NoFile}
    BY <1>6, <1>t, FileFacts DEF CreateReclaim
  <2>3. UNCHANGED <<work, lock, faults, stolen>>
    BY <1>6 DEF CreateReclaim
  <2> QED  BY <2>1, <2>2, <2>3, <1>a, <1>t, StepsAside, Zenon
<1>7. ASSUME NEW p \in Proc, PublishReclaim(p) PROVE StoreInv'
  <2>1. at' = [at EXCEPT ![p] = "rejudge"] /\ "rejudge" \in Reclaiming
    BY <1>7 DEF PublishReclaim, Go, Reclaiming
  <2>2. reclaim' \in Files \cup {NoFile}
    BY <1>7, <1>t, PublishedFacts, Zenon DEF PublishReclaim
  <2> QED  BY <1>7, <2>1, <2>2, <1>a, <1>t, StepsAside, Zenon DEF PublishReclaim
<1>8. ASSUME NEW p \in Proc, PublishReclaimFails(p) PROVE StoreInv'
  <2>1. PICK there \in {"wait", "idle"} : at' = [at EXCEPT ![p] = there]
    BY <1>8, Zenon DEF PublishReclaimFails, Go
  <2>2. reclaim' \in Files \cup {NoFile} /\ faults' \in Nat
    BY <1>8, <1>f DEF PublishReclaimFails
  <2>3. UNCHANGED <<work, lock, stolen>>
    BY <1>8 DEF PublishReclaimFails
  <2> QED  BY <2>1, <2>2, <2>3, <1>a, StepsAside, Zenon
<1>9. ASSUME NEW p \in Proc, JudgeReclaim(p) \/ UnlinkReclaim(p) \/ Rejudge(p)
      PROVE  StoreInv'
  <2>1. PICK there \in {"wait"} \cup Reclaiming : at' = [at EXCEPT ![p] = there]
    BY <1>9 DEF JudgeReclaim, UnlinkReclaim, Rejudge, Go, Reclaiming
  <2>2. UNCHANGED <<work, lock, faults, stolen>> /\ reclaim' \in Files \cup {NoFile}
    BY <1>9, <1>t DEF JudgeReclaim, UnlinkReclaim, Rejudge
  <2> QED  BY <2>1, <2>2, <1>a, <1>t, StepsAside, Zenon
<1>10. ASSUME NEW p \in Proc, UnlinkLock(p) PROVE StoreInv'
  <2>1. StoreTypeOK'
    BY <1>10, <1>t DEF UnlinkLock, Go, StoreTypeOK, Steps, Reclaiming, work
  <2>2. ASSUME ~stolen', NEW q \in Proc, at'[q] \in Critical PROVE FALSE
    <3>1. q # p /\ at[q] \in Critical /\ ~stolen
      BY <1>10, <2>2, <1>t DEF UnlinkLock, Go, Critical
    <3>2. lock # NoFile /\ lock.by = q
      BY <3>1 DEF StoreInv, HolderOwnsLock
    <3>3. Alive(lock.by)
      BY <3>1, <3>2 DEF Alive, Critical
    <3> QED  BY <1>10, <2>2, <3>2, <3>3, Zenon DEF UnlinkLock
  <2>3. HolderOwnsLock' /\ SnapshotIsCurrent'
    BY <2>2 DEF HolderOwnsLock, SnapshotIsCurrent, Critical
  <2>4. NoUpdateLost'
    BY <1>10, Zenon DEF UnlinkLock, StoreInv, NoUpdateLost, work
  <2> QED  BY <2>1, <2>3, <2>4 DEF StoreInv
<1>11. ASSUME NEW p \in Proc, DropReclaim(p) PROVE StoreInv'
  <2>1. PICK there \in {"open", "wait"} : at' = [at EXCEPT ![p] = there]
    BY <1>11, Zenon DEF DropReclaim, Go
  <2> QED  BY <1>11, <2>1, <1>a, <1>t, StepsAside, Zenon DEF DropReclaim
<1>12. ASSUME NEW p \in Proc, ReadDocument(p) PROVE StoreInv'
  <2>1. StoreTypeOK'
    BY <1>12, <1>t DEF ReadDocument, Go, StoreTypeOK, Steps, Critical
  <2>2. HolderOwnsLock'
    BY <1>12, <1>t DEF ReadDocument, Go, StoreInv, HolderOwnsLock, Critical
  <2>3. SnapshotIsCurrent' /\ NoUpdateLost'
    BY <1>12, <1>t, SMTT(20) DEF ReadDocument, Go, StoreInv, SnapshotIsCurrent, NoUpdateLost
  <2> QED  BY <2>1, <2>2, <2>3 DEF StoreInv
<1>13. ASSUME NEW p \in Proc, Write(p) \/ Transact(p) \/ Delete(p) PROVE StoreInv'
  BY <1>13, DocumentFacts, Commits DEF Write, Transact, Delete
<1>14. ASSUME NEW p \in Proc, Leave(p) PROVE StoreInv'
  <2>1. at[p] = "update" /\ at' = [at EXCEPT ![p] = "release"]
        /\ UNCHANGED <<work, lock, reclaim, stolen>> /\ faults' \in Nat
    BY <1>14, <1>f, <1>t DEF Leave, Go
  <2>2. StoreTypeOK'
    BY <2>1, <1>t DEF StoreTypeOK, Steps, Critical, work
  <2>3. HolderOwnsLock'
    BY <2>1, <1>t DEF StoreInv, HolderOwnsLock, Critical
  <2>4. SnapshotIsCurrent' /\ NoUpdateLost'
    BY <2>1, <1>t DEF StoreInv, SnapshotIsCurrent, NoUpdateLost, work
  <2> QED  BY <2>2, <2>3, <2>4 DEF StoreInv
<1>15. ASSUME NEW p \in Proc, Release(p) PROVE StoreInv'
  <2>1. at[p] \in Critical
    BY <1>15 DEF Release, Critical
  <2> QED  BY <1>15, <2>1, <1>t, Unlinks, Zenon DEF Release, Go
<1>16. ASSUME NEW p \in Proc, Crash(p) PROVE StoreInv'
  <2>1. at' = [at EXCEPT ![p] = "dead"] /\ UNCHANGED <<work, lock, reclaim, stolen>>
        /\ faults' \in Nat
    BY <1>16, <1>f DEF Crash, Go
  <2> QED  BY <2>1, <1>a, <1>t, StepsAside, Zenon
<1>17. ASSUME Age \/ Stall PROVE StoreInv'
  <2>1. /\ lock' \in Files \cup {NoFile} /\ reclaim' \in Files \cup {NoFile}
        /\ lock # NoFile => lock' # NoFile /\ lock'.by = lock.by
    <3>1. CASE lock # NoFile /\ lock' = [lock EXCEPT !.old = TRUE] /\ reclaim' = reclaim
      <4>1. lock' \in Files /\ lock'.by = lock.by
        BY <3>1, <1>t, AgedFacts
      <4> QED  BY <3>1, <4>1, <1>t, FileFacts, Zenon
    <3>2. CASE reclaim # NoFile /\ reclaim' = [reclaim EXCEPT !.old = TRUE] /\ lock' = lock
      <4>1. reclaim' \in Files
        BY <3>2, <1>t, AgedFacts
      <4> QED  BY <3>2, <4>1, <1>t
    <3> QED  BY <1>17, <3>1, <3>2 DEF Age, Stall
  <2>2. UNCHANGED <<work, at, stolen>> /\ faults' \in Nat
    BY <1>17, <1>f, <1>t DEF Age, Stall
  <2>3. StoreTypeOK'
    BY <2>1, <2>2, <1>t DEF StoreTypeOK, work
  <2>4. HolderOwnsLock'
    BY <2>1, <2>2 DEF StoreInv, HolderOwnsLock
  <2>5. SnapshotIsCurrent' /\ NoUpdateLost'
    BY <2>2 DEF StoreInv, SnapshotIsCurrent, NoUpdateLost, work
  <2> QED  BY <2>3, <2>4, <2>5 DEF StoreInv
<1>18. CASE UNCHANGED storeVars
  BY <1>18 DEF StoreInv, StoreTypeOK, HolderOwnsLock, SnapshotIsCurrent,
               NoUpdateLost, storeVars
<1>19. ASSUME NEW p \in Proc, StoreStep(p) PROVE StoreInv'
  BY <1>19, <1>2, <1>3, <1>5, <1>6, <1>7, <1>9, <1>10, <1>11, <1>12, <1>13, <1>14,
     <1>15 DEF StoreStep
<1> QED
  BY <1>1, <1>4, <1>5, <1>8, <1>16, <1>17, <1>18, <1>19 DEF StoreNext

\* While no reclaimer has unlinked a live process's lock, the process between
\* creating the lock and unlinking it owns the file, computes from the current
\* document, and no commit is lost (withLock, persist).
THEOREM StoreInvariant == StoreSpec => []StoreInv
  BY InitStore, NextStore, PTL DEF StoreSpec

\* The unlinks that check no owner remove no lock but the holder's own
\* (conversation-store.ts:254).
THEOREM LockIsOwned == StoreSpec => []HolderOwnsLock
<1>1. StoreInv => HolderOwnsLock
  BY DEF StoreInv
<1> QED  BY <1>1, StoreInvariant, PTL

\* No update put in place by persist is lost to another process.
THEOREM UpdatesKept == StoreSpec => []NoUpdateLost
<1>1. StoreInv => NoUpdateLost
  BY DEF StoreInv
<1> QED  BY <1>1, StoreInvariant, PTL

\* Two processes inside withLock's operation at once need a stolen lock.
THEOREM ExclusiveUntilStolen == StoreSpec => [](~stolen => Exclusive)
<1>1. StoreInv => (~stolen => Exclusive)
  BY DEF StoreInv, HolderOwnsLock, Exclusive, Critical
<1> QED  BY <1>1, StoreInvariant, PTL
===========================================================================
