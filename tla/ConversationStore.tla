-------------------------- MODULE ConversationStore --------------------------
(***************************************************************************)
(* ConversationStore (sdk/bus/conversation-store.ts): the document the     *)
(* chat daemons and their effect journals share across processes, and the  *)
(* lock file under which every mutation runs.                              *)
(*                                                                         *)
(* A process takes the lock by creating <file>.lock exclusively and then   *)
(* publishing its identity in it.  One that finds the file there judges    *)
(* whether its owner is gone; if so it takes <file>.lock.reclaim, judges   *)
(* again and unlinks.  A process names one incarnation of a pid, so a dead *)
(* one never returns.  The document is one mapping: gen is its generation  *)
(* (0 when it is absent), n stands for its contents and counts the commits *)
(* that went into them.                                                    *)
(***************************************************************************)
EXTENDS Naturals

CONSTANTS Proc,        \* processes that open the store
          NoProc,
          Gone,        \* those of them that died before
          MaxOps,      \* mutations the processes begin
          MaxFaults    \* crashes, stalls of 30 s and failed writes

ASSUME StoreAssumption ==
  NoProc \notin Proc /\ Gone \subseteq Proc /\ MaxOps \in Nat /\ MaxFaults \in Nat

VARIABLES lock,     \* <file>.lock
          reclaim,  \* <file>.lock.reclaim
          doc,      \* the document on disk
          at,       \* what each process does next
          op,       \* the mutation it performs
          snap,     \* the document it read under the lock
          ops,      \* mutations begun
          faults,
          commits,  \* documents put in place
          stolen    \* a reclaimer unlinked the lock of a live process

storeVars == <<lock, reclaim, doc, at, op, snap, ops, faults, commits, stolen>>
work == <<doc, op, snap, ops, commits>>

Documents == [gen : Nat, n : Nat]
Absent == [gen |-> 0, n |-> 0]

\* A lock file: who created it, whether the record is written, and whether it
\* has stayed without one for UNPUBLISHED_LOCK_STALE_MS.
Files == [by : Proc, published : BOOLEAN, old : BOOLEAN]
NoFile == [by |-> NoProc, published |-> FALSE, old |-> FALSE]
FileOf(p) == [by |-> p, published |-> FALSE, old |-> FALSE]
Published(f, p) ==
  IF f.by = p THEN [f EXCEPT !.published = TRUE, !.old = FALSE] ELSE f

Critical == {"publish", "read", "update", "release"}
Reclaiming == {"judge", "reclaim", "publishReclaim", "judgeReclaim",
               "unlinkReclaim", "retake", "publishRetake", "rejudge", "unlink",
               "dropToOpen", "dropToWait"}
Steps == {"idle", "open", "wait", "dead"} \cup Critical \cup Reclaiming

Kinds == {"write", "delete", "transact", "dispatch"}
Ops == [kind : Kinds, expected : Documents]

Alive(p) == at[p] # "dead"

\* The lock file that a process left when it died, with or without its record.
Leftovers == {f \in Files : f.by \in Gone /\ ~f.old}

StoreInit ==
  /\ lock \in Leftovers \cup {NoFile} /\ reclaim = NoFile
  /\ doc = Absent
  /\ at = [p \in Proc |-> IF p \in Gone THEN "dead" ELSE "idle"]
  /\ op = [p \in Proc |-> [kind |-> "transact", expected |-> Absent]]
  /\ snap = [p \in Proc |-> Absent]
  /\ ops = 0 /\ faults = 0 /\ commits = 0
  /\ stolen = FALSE

Go(p, there) == at' = [at EXCEPT ![p] = there]

Fault == faults < MaxFaults /\ faults' = faults + 1

------------------------------------------------------------------------------
\* Mutant: a lock without a record never expires.
IsStaleRecord(f) ==
  \/ f = NoFile
  \/ f.published /\ ~Alive(f.by)

\* isStaleLock: a lock file that is missing counts as stale.
IsStaleLock(f) ==
  \/ f = NoFile
  \/ f.published /\ ~Alive(f.by)
  \/ f # NoFile /\ ~f.published /\ f.old

\* A caller of write or delete passes the generation it read without the lock;
\* withLock then waits for the lock.
Begin(p) ==
  /\ at[p] = "idle" /\ ops < MaxOps
  /\ \E k \in Kinds : op' = [op EXCEPT ![p] = [kind |-> k, expected |-> doc]]
  /\ ops' = ops + 1
  /\ Go(p, "open")
  /\ UNCHANGED <<lock, reclaim, doc, snap, faults, commits, stolen>>

\* acquireFileLock: open(lockFile, "wx")
OpenLock(p) ==
  /\ at[p] = "open"
  /\ \/ lock = NoFile /\ lock' = FileOf(p) /\ Go(p, "publish")
     \/ lock # NoFile /\ lock' = lock /\ Go(p, "judge")
  /\ UNCHANGED <<work, reclaim, faults, stolen>>

\* ... writeFile and sync.  A file unlinked meanwhile is written to no effect.
PublishLock(p) ==
  /\ at[p] = "publish"
  /\ lock' = Published(lock, p)
  /\ Go(p, "read")
  /\ UNCHANGED <<work, reclaim, faults, stolen>>

\* ... which fail: the lock file is unlinked and the error thrown.
PublishLockFails(p) ==
  /\ at[p] = "publish" /\ Fault
  /\ lock' = NoFile
  /\ Go(p, "idle")
  /\ UNCHANGED <<work, reclaim, stolen>>

\* The wait between two attempts, and the deadline.
Retry(p) ==
  /\ at[p] = "wait"
  /\ Go(p, "open")
  /\ UNCHANGED <<work, lock, reclaim, faults, stolen>>

\* Mutant: the lock file is unlinked whether or not it was acquired.
TimeOutUnlinking(p) ==
  /\ at[p] = "wait"
  /\ lock' = NoFile
  /\ Go(p, "idle")
  /\ UNCHANGED <<work, reclaim, faults, stolen>>

TimeOut(p) ==
  /\ at[p] = "wait"
  /\ Go(p, "idle")
  /\ UNCHANGED <<work, lock, reclaim, faults, stolen>>

------------------------------------------------------------------------------
\* reclaimStaleLock: the first look at the lock file.
Judge(p) ==
  /\ at[p] = "judge"
  /\ Go(p, IF IsStaleLock(lock) THEN "reclaim" ELSE "wait")
  /\ UNCHANGED <<work, lock, reclaim, faults, stolen>>

\* acquireReclaimLock: the first attempt, and the one after an unlink.
CreateReclaim(p) ==
  /\ at[p] \in {"reclaim", "retake"}
  /\ \/ /\ reclaim = NoFile
        /\ reclaim' = FileOf(p)
        /\ Go(p, IF at[p] = "reclaim" THEN "publishReclaim" ELSE "publishRetake")
     \/ /\ reclaim # NoFile
        /\ reclaim' = reclaim
        /\ Go(p, IF at[p] = "reclaim" THEN "judgeReclaim" ELSE "wait")
  /\ UNCHANGED <<work, lock, faults, stolen>>

PublishReclaim(p) ==
  /\ at[p] \in {"publishReclaim", "publishRetake"}
  /\ reclaim' = Published(reclaim, p)
  /\ Go(p, "rejudge")
  /\ UNCHANGED <<work, lock, faults, stolen>>

\* An error of the first attempt is swallowed, one of the second thrown.
PublishReclaimFails(p) ==
  /\ at[p] \in {"publishReclaim", "publishRetake"} /\ Fault
  /\ reclaim' = NoFile
  /\ Go(p, IF at[p] = "publishReclaim" THEN "wait" ELSE "idle")
  /\ UNCHANGED <<work, lock, stolen>>

JudgeReclaim(p) ==
  /\ at[p] = "judgeReclaim"
  /\ Go(p, IF IsStaleLock(reclaim) THEN "unlinkReclaim" ELSE "wait")
  /\ UNCHANGED <<work, lock, reclaim, faults, stolen>>

UnlinkReclaim(p) ==
  /\ at[p] = "unlinkReclaim"
  /\ reclaim' = NoFile
  /\ Go(p, "retake")
  /\ UNCHANGED <<work, lock, faults, stolen>>

\* The second look, under the reclaim lock.
Rejudge(p) ==
  /\ at[p] = "rejudge"
  /\ Go(p, IF IsStaleLock(lock) THEN "unlink" ELSE "dropToWait")
  /\ UNCHANGED <<work, lock, reclaim, faults, stolen>>

\* The unlink names the path: it removes the file that is there by now.
UnlinkLock(p) ==
  /\ at[p] = "unlink"
  /\ lock' = NoFile
  /\ stolen' = (stolen \/ (lock # NoFile /\ Alive(lock.by)))
  /\ Go(p, "dropToOpen")
  /\ UNCHANGED <<work, reclaim, faults>>

DropReclaim(p) ==
  /\ at[p] \in {"dropToOpen", "dropToWait"}
  /\ reclaim' = NoFile
  /\ Go(p, IF at[p] = "dropToOpen" THEN "open" ELSE "wait")
  /\ UNCHANGED <<work, lock, faults, stolen>>

------------------------------------------------------------------------------
\* readDocument, the first thing a mutation does under the lock.
ReadDocument(p) ==
  /\ at[p] = "read"
  /\ snap' = [snap EXCEPT ![p] = doc]
  /\ Go(p, "update")
  /\ UNCHANGED <<lock, reclaim, doc, op, ops, faults, commits, stolen>>

\* persist: a temporary file, renamed over the document.
Persist(p, d) ==
  /\ doc' = d
  /\ commits' = commits + 1
  /\ Go(p, "release")
  /\ UNCHANGED <<lock, reclaim, op, snap, ops, faults, stolen>>

\* Mutant: the new document is made from the one the caller read.
NextFromExpected(p) == [gen |-> snap[p].gen + 1, n |-> op[p].expected.n + 1]

NextDocument(p) == [gen |-> snap[p].gen + 1, n |-> snap[p].n + 1]

Expected(p) == snap[p].gen = op[p].expected.gen

Write(p) ==
  /\ at[p] = "update" /\ op[p].kind = "write"
  /\ Expected(p)
  /\ Persist(p, NextDocument(p))

Delete(p) ==
  /\ at[p] = "update" /\ op[p].kind = "delete"
  /\ Expected(p) /\ snap[p].gen # 0
  /\ Persist(p, [gen |-> 0, n |-> snap[p].n + 1])

\* transactWithSnapshot, whose update returned a new record
Transact(p) ==
  /\ at[p] = "update" /\ op[p].kind = "transact"
  /\ Persist(p, NextDocument(p))

\* Nothing is written: the generation moved on, the update returned nothing
\* new, a prepared dispatch reached the wire, or persist failed.
Leave(p) ==
  /\ at[p] = "update"
  /\ \/ op[p].kind \in {"transact", "dispatch"} /\ UNCHANGED faults
     \/ op[p].kind = "write" /\ ~Expected(p) /\ UNCHANGED faults
     \/ op[p].kind = "delete" /\ (~Expected(p) \/ snap[p].gen = 0) /\ UNCHANGED faults
     \/ op[p].kind # "dispatch" /\ Fault
  /\ Go(p, "release")
  /\ UNCHANGED <<work, lock, reclaim, stolen>>

\* withLock's finally: close, then unlink the path.
Release(p) ==
  /\ at[p] = "release"
  /\ lock' = NoFile
  /\ Go(p, "idle")
  /\ UNCHANGED <<work, reclaim, faults, stolen>>

------------------------------------------------------------------------------
Crash(p) ==
  /\ Alive(p) /\ Fault
  /\ Go(p, "dead")
  /\ UNCHANGED <<work, lock, reclaim, stolen>>

\* Thirty seconds pass over an unpublished lock file whose creator is dead ...
Age ==
  /\ \/ /\ lock # NoFile /\ ~lock.published /\ ~lock.old /\ ~Alive(lock.by)
        /\ lock' = [lock EXCEPT !.old = TRUE] /\ reclaim' = reclaim
     \/ /\ reclaim # NoFile /\ ~reclaim.published /\ ~reclaim.old
        /\ ~Alive(reclaim.by)
        /\ reclaim' = [reclaim EXCEPT !.old = TRUE] /\ lock' = lock
  /\ UNCHANGED <<work, at, faults, stolen>>

\* ... or stalls between creating and writing it.
Stall ==
  /\ Fault
  /\ \/ /\ lock # NoFile /\ ~lock.published /\ ~lock.old /\ Alive(lock.by)
        /\ lock' = [lock EXCEPT !.old = TRUE] /\ reclaim' = reclaim
     \/ /\ reclaim # NoFile /\ ~reclaim.published /\ ~reclaim.old
        /\ Alive(reclaim.by)
        /\ reclaim' = [reclaim EXCEPT !.old = TRUE] /\ lock' = lock
  /\ UNCHANGED <<work, at, stolen>>

\* What a process does without being asked to and without anything failing.
StoreStep(p) ==
  \/ OpenLock(p) \/ PublishLock(p) \/ Retry(p)
  \/ Judge(p) \/ CreateReclaim(p) \/ PublishReclaim(p) \/ JudgeReclaim(p)
  \/ UnlinkReclaim(p) \/ Rejudge(p) \/ UnlinkLock(p) \/ DropReclaim(p)
  \/ ReadDocument(p) \/ Write(p) \/ Delete(p) \/ Transact(p) \/ Leave(p)
  \/ Release(p)

StoreNext ==
  \/ \E p \in Proc :
       \/ Begin(p) \/ StoreStep(p) \/ TimeOut(p) \/ Crash(p)
       \/ PublishLockFails(p) \/ PublishReclaimFails(p)
  \/ Age \/ Stall

\* A live process goes on, and an abandoned file grows old.
StoreSpec == StoreInit /\ [][StoreNext]_storeVars /\ (\A p \in Proc : WF_storeVars(StoreStep(p))) /\ WF_storeVars(Age)

------------------------------------------------------------------------------
StoreTypeOK ==
  /\ lock \in Files \cup {NoFile} /\ reclaim \in Files \cup {NoFile}
  /\ doc \in Documents
  /\ at \in [Proc -> Steps] /\ op \in [Proc -> Ops] /\ snap \in [Proc -> Documents]
  /\ ops \in Nat /\ faults \in Nat /\ commits \in Nat
  /\ stolen \in BOOLEAN

\* A process between creating the lock file and unlinking it owns the file that
\* is there, so no two are, unless a reclaimer has unlinked a live process's
\* lock.  The unlinks of release and of a failed publication, which check no
\* owner (conversation-store.ts:254, :282), never take another's lock by
\* themselves.
HolderOwnsLock ==
  ~stolen => \A p \in Proc : at[p] \in Critical => lock # NoFile /\ lock.by = p

\* What a mutation computes from is the document its commit replaces, or that
\* is current while its dispatch goes out: readDocument under the lock, then
\* persist, is one atomic step to every other process.
SnapshotIsCurrent ==
  ~stolen => \A p \in Proc : at[p] = "update" => snap[p] = doc

\* Every commit is built on the one before it: no update that was put in place
\* is lost.
NoUpdateLost == ~stolen => doc.n = commits

StoreInv == StoreTypeOK /\ HolderOwnsLock /\ SnapshotIsCurrent /\ NoUpdateLost

\* No two processes are inside withLock's operation at once, as the comment on
\* the class has it: "Every mutation takes an exclusive lock file".
Exclusive ==
  \A p, q \in Proc :
     at[p] \in {"read", "update"} /\ at[q] \in {"read", "update"} => p = q

\* A process that asks for the lock gets it, gives up at its deadline, or dies:
\* neither the lock nor the reclaim lock of a dead process, published or not,
\* keeps the others waiting for ever (acquireFileLock's loop).
WaiterProceeds ==
  \A p \in Proc : at[p] = "open" ~> at[p] \in {"read", "idle", "dead"}

==============================================================================
