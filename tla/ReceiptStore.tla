---------------------------- MODULE ReceiptStore ----------------------------
(***************************************************************************)
(* How a receipt is persisted (storage.ts writeReceiptImmutable) and       *)
(* exported to the spool (receipt-spool.ts appendReceiptToSpool) by        *)
(* several processes that share one session directory and one spool.       *)
(*                                                                         *)
(* A receipt is created exclusively, then indexed, then spooled; a         *)
(* process may die, or a write may fail half way, at each of the three.    *)
(* The two jsonl files are sequences of what the appends left: a whole     *)
(* "line", a "bare" record whose newline is missing, or a "torn" record.   *)
(* Whatever is appended after a fragment without a newline is on the same  *)
(* line, and that line does not parse.                                     *)
(***************************************************************************)
EXTENDS Naturals, Sequences, FiniteSets

CONSTANTS Procs,        \* processes: owners and commands
          Receipts,     \* receipt ids
          Nobody,       \* no holder of the lock, no receipt in hand
          MaxFailures   \* bound: writes that are cut short or processes that die

ASSUME StoreAssumption ==
  /\ Nobody \notin Procs /\ Nobody \notin Receipts
  /\ MaxFailures \in Nat

VARIABLES files,      \* receipts/<family>/<id>.json: "absent", "partial" or "whole"
          index,      \* receipts.jsonl
          spool,      \* spool.jsonl
          lock,       \* who is inside withFileLock(spool.jsonl)
          proc,       \* per process: where it is, its receipt, its cursor, its cache
          returned,   \* the [receipt, cursor] writeReceiptImmutable returned for
          tears,      \* how many spool appends were cut short after a byte
          failures

storeVars == <<files, index, spool, lock, proc, returned, tears, failures>>

Steps == {"idle", "index", "spool", "read", "write", "cache", "down"}
Fragments == {"line", "bare", "torn"}

\* cursorCache holds the size of the file it was computed from; a spool that
\* is only appended to has a size of its own for each length.
NoCache == [size |-> 0, highest |-> 0]
Resting == [pc |-> "idle", job |-> Nobody, cursor |-> 0, cache |-> NoCache]

Init ==
  /\ files = [r \in Receipts |-> "absent"]
  /\ index = <<>> /\ spool = <<>>
  /\ lock = Nobody
  /\ proc = [p \in Procs |-> Resting]
  /\ returned = {}
  /\ tears = 0 /\ failures = 0

(***************************************************************************)
(* Reading a jsonl file: a line parses when a single record is on it.      *)
(***************************************************************************)
Parses(file, i) ==
  /\ i > 1 => file[i - 1].kind = "line"
  /\ \/ file[i].kind = "line"
     \/ file[i].kind = "bare" /\ i = Len(file)

Readable(file) == {i \in DOMAIN file : Parses(file, i)}

HighestIn(file) ==
  CHOOSE m \in {0} \cup {file[i].cursor : i \in Readable(file)} :
    \A i \in Readable(file) : file[i].cursor <= m

\* Mutant: a cache is used whatever the file's revision.
CachedAlways(c) == IF c.size > 0 THEN c.highest ELSE HighestIn(spool)

\* readHighestReceiptSpoolCursor: an absent file has no cursor, an unchanged
\* one is not read again, any other is scanned.
ReadHighest(c) ==
  IF spool = <<>> THEN 0
  ELSE IF c.size = Len(spool) THEN c.highest
  ELSE HighestIn(spool)

(***************************************************************************)
(* Writing.                                                                *)
(***************************************************************************)
\* Mutant: the newline that ends a record is left out.
AppendedBare(file, r, n, kind) == Append(file,
  [receipt |-> r, cursor |-> n, kind |-> IF kind = "line" THEN "bare" ELSE kind])

Appended(file, r, n, kind) == Append(file,
  [receipt |-> r, cursor |-> n, kind |-> kind])

\* Mutant: the file is opened with "w" instead of "wx".
CreatableAgain(r) == TRUE

\* flag "wx"; an existing id is a receipt_immutable_conflict.
Creatable(r) == files[r] = "absent"

\* Mutant: the index entry is forgotten.
CreateUnindexed(p, r) ==
  /\ proc[p].pc = "idle" /\ Creatable(r)
  /\ files' = [files EXCEPT ![r] = "whole"]
  /\ proc' = [proc EXCEPT ![p].pc = "spool", ![p].job = r]
  /\ UNCHANGED <<index, spool, lock, returned, tears, failures>>

Create(p, r) ==
  /\ proc[p].pc = "idle" /\ Creatable(r)
  /\ files' = [files EXCEPT ![r] = "whole"]
  /\ proc' = [proc EXCEPT ![p].pc = "index", ![p].job = r]
  /\ UNCHANGED <<index, spool, lock, returned, tears, failures>>

AppendIndex(p) ==
  /\ proc[p].pc = "index"
  /\ index' = Appended(index, proc[p].job, 0, "line")
  /\ proc' = [proc EXCEPT ![p].pc = "spool"]
  /\ UNCHANGED <<files, spool, lock, returned, tears, failures>>

\* appendReceiptToConfiguredSpool; no spool directory: nothing more to do.
NotConfigured(p) ==
  /\ proc[p].pc = "spool"
  /\ proc' = [proc EXCEPT ![p].pc = "idle", ![p].job = Nobody]
  /\ UNCHANGED <<files, index, spool, lock, returned, tears, failures>>

\* enqueueSpoolAppend and withFileLock: one append at a time, in a process
\* and between processes.
EnterLock(p) ==
  /\ proc[p].pc = "spool" /\ lock = Nobody
  /\ lock' = p
  /\ proc' = [proc EXCEPT ![p].pc = "read"]
  /\ UNCHANGED <<files, index, spool, returned, tears, failures>>

NextCursor(c) == ReadHighest(c) + 1

\* An absent file clears the cache; a scan renews it.
ReadCursor(p) ==
  /\ proc[p].pc = "read"
  /\ proc' = [proc EXCEPT ![p].pc = "write",
                          ![p].cursor = NextCursor(proc[p].cache),
                          ![p].cache = [size |-> Len(spool), highest |-> ReadHighest(@)]]
  /\ UNCHANGED <<files, index, spool, lock, returned, tears, failures>>

AppendSpool(p) ==
  /\ proc[p].pc = "write"
  /\ spool' = Appended(spool, proc[p].job, proc[p].cursor, "line")
  /\ proc' = [proc EXCEPT ![p].pc = "cache"]
  /\ UNCHANGED <<files, index, lock, returned, tears, failures>>

\* cacheHighestCursor, the end of the critical section, and the return.
CacheAndReturn(p) ==
  /\ proc[p].pc = "cache"
  /\ proc' = [proc EXCEPT ![p].pc = "idle", ![p].job = Nobody, ![p].cursor = 0,
                          ![p].cache = [size |-> Len(spool), highest |-> proc[p].cursor]]
  /\ lock' = Nobody
  /\ returned' = returned \cup {[receipt |-> proc[p].job, cursor |-> proc[p].cursor]}
  /\ UNCHANGED <<files, index, spool, tears, failures>>

(***************************************************************************)
(* Failures.  A write that throws leaves the process idle with its cache,  *)
(* a death leaves nothing of it; either frees the lock (a dead holder's    *)
(* lock is reclaimed).                                                     *)
(***************************************************************************)
Abandon(p) ==
  /\ failures < MaxFailures /\ failures' = failures + 1
  /\ \/ proc' = [proc EXCEPT ![p] = [Resting EXCEPT !.cache = proc[p].cache]]
     \/ proc' = [proc EXCEPT ![p] = [Resting EXCEPT !.pc = "down"]]
  /\ lock' = IF lock = p THEN Nobody ELSE lock
  /\ UNCHANGED returned

CreateCutShort(p, r) ==
  /\ proc[p].pc = "idle" /\ Creatable(r)
  /\ files' = [files EXCEPT ![r] = "partial"]
  /\ Abandon(p)
  /\ UNCHANGED <<index, spool, tears>>

IndexCutShort(p, kind) ==
  /\ proc[p].pc = "index"
  /\ index' = Appended(index, proc[p].job, 0, kind)
  /\ Abandon(p)
  /\ UNCHANGED <<files, spool, tears>>

SpoolCutShort(p, kind) ==
  /\ proc[p].pc = "write"
  /\ spool' = Appended(spool, proc[p].job, proc[p].cursor, kind)
  /\ tears' = tears + 1
  /\ Abandon(p)
  /\ UNCHANGED <<files, index>>

\* An error or a death between two writes.
Interrupted(p) ==
  /\ proc[p].pc \notin {"idle", "down"}
  /\ Abandon(p)
  /\ UNCHANGED <<files, index, spool, tears>>

Restart(p) ==
  /\ proc[p].pc = "down"
  /\ proc' = [proc EXCEPT ![p].pc = "idle"]
  /\ UNCHANGED <<files, index, spool, lock, returned, tears, failures>>

Next ==
  \E p \in Procs :
    \/ \E r \in Receipts : Create(p, r) \/ CreateCutShort(p, r)
    \/ AppendIndex(p) \/ NotConfigured(p)
    \/ EnterLock(p) \/ ReadCursor(p) \/ AppendSpool(p) \/ CacheAndReturn(p)
    \/ \E kind \in {"bare", "torn"} : IndexCutShort(p, kind) \/ SpoolCutShort(p, kind)
    \/ Interrupted(p) \/ Restart(p)

Spec == Init /\ [][Next]_storeVars

(***************************************************************************)
(* Properties.                                                             *)
(***************************************************************************)
Fragment == [receipt : Receipts, cursor : Nat, kind : Fragments]
ProcState == [pc : Steps, job : Receipts \cup {Nobody}, cursor : Nat,
              cache : [size : Nat, highest : Nat]]

\* The types of the state: the files, the two logs, where each process is and
\* what it holds; a cursor in the spool is at least 1.
StoreTypeOK ==
  /\ files \in [Receipts -> {"absent", "partial", "whole"}]
  /\ index \in Seq(Fragment) /\ spool \in Seq(Fragment)
  /\ \A i \in DOMAIN spool : spool[i].cursor > 0
  /\ lock \in Procs \cup {Nobody}
  /\ proc \in [Procs -> ProcState]
  /\ returned \subseteq [receipt : Receipts, cursor : Nat]
  /\ tears \in Nat /\ failures \in Nat

\* The cursors of the records a consumer can parse grow along the spool,
\* whatever processes wrote them, died or kept a cache of the highest cursor.
CursorsIncrease ==
  \A i, j \in Readable(spool) : i < j => spool[i].cursor < spool[j].cursor

\* What the spool exports is persisted: the receipt's file is complete and its
\* index entry was written before the record could be read.
SpoolFollowsIndex ==
  \A i \in Readable(spool) :
    /\ files[spool[i].receipt] = "whole"
    /\ \E j \in DOMAIN index : index[j].receipt = spool[i].receipt /\ index[j].kind = "line"

\* A receipt id is spooled at most once, by whichever process created it: the
\* exclusive create of its file keeps everybody else out.
SpooledOnce ==
  \A i, j \in DOMAIN spool : spool[i].receipt = spool[j].receipt => i = j

Exported(e) ==
  \E i \in Readable(spool) : spool[i].receipt = e.receipt /\ spool[i].cursor = e.cursor

\* A torn tail costs at most one append that had returned: the one glued to it.
LossIsOnePerTear ==
  Cardinality({e \in returned : ~Exported(e)}) <= tears

\* CHANGELOG.md:4831 "with restart-safe 12-digit cursors": no two appends are
\* given the same cursor.
CursorsRestartSafe ==
  \A a, b \in returned : a.cursor = b.cursor => a = b
=============================================================================
