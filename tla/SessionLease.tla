---------------------------- MODULE SessionLease ----------------------------
(***************************************************************************)
(* The session lease of the harness control plane                          *)
(* (harness-control-plane/session-lease.ts).  One file, lease.json, says   *)
(* which RuntimeOwner process may control a session; a second file, the    *)
(* owner socket record, says where that owner listens.                     *)
(*                                                                         *)
(* Every mutation of either file runs inside withLeaseMutationLock.  A     *)
(* critical section is two steps here: Enter* takes the lock and reads,    *)
(* Commit* writes from WHAT WAS READ and leaves.  Processes die, time      *)
(* passes and the other processes run between the two.                     *)
(*                                                                         *)
(* An Owner is one owner process: ownerId is a fresh UUID per RuntimeOwner *)
(* and the process hosts one.  All processes share one pid namespace.      *)
(***************************************************************************)
EXTENDS Integers

CONSTANTS Owner,        \* owner processes, named by their ownerId
          NoOwner,      \* "no lease file" / "no socket record"
          MaxAcquire    \* bound: how many acquisitions a behaviour has

ASSUME OwnerAssumption == NoOwner \notin Owner
ASSUME BoundAssumption == MaxAcquire \in Nat

VARIABLES
  lease,    \* lease.json; lease.owner = NoOwner when the file is missing
  record,   \* the owner socket record file
  alive,    \* the processes that have not died
  issued,   \* how many lease tokens were drawn; a token is its draw number
  ident,    \* per owner, the identity its last acquireLease returned
  holds,    \* per owner, acquired and not yet released
  section,  \* the critical section that is inside the mutation lock
  gcSeen    \* the lease identity the garbage collector's prune has read

leaseVars == <<lease, record, alive, issued, ident, holds, section, gcSeen>>

NoIdentity == [owner |-> NoOwner, epoch |-> 0, token |-> 0]

\* leaseEpoch is 0 in the missing lease: `existing?.leaseEpoch ?? 0`.
NoLease == [owner |-> NoOwner, epoch |-> 0, token |-> 0, fresh |-> FALSE]

\* OwnerSocketRecordIdentity: nonce is the hash of the lease token.
Identity(l) == [owner |-> l.owner, epoch |-> l.epoch, token |-> l.token]

Identities == [owner : Owner \cup {NoOwner}, epoch : Nat, token : Nat]

\* expiresAt is abstracted to `fresh`: expiresAt > now.
LeaseFiles ==
  [owner : Owner \cup {NoOwner}, epoch : Nat, token : Nat, fresh : BOOLEAN]

Ops == {"acquire", "heartbeat", "release", "publish", "clear", "reap"}
Statuses == {"alive", "eperm", "dead"}

\* The lock is free, or `by` is inside it for `op`, having read `seen` and
\* having probed the pid in it with result `pid`.
Free == [op |-> "free", by |-> NoOwner, seen |-> NoLease, pid |-> "dead"]
Sections == [op : Ops \cup {"free"}, by : Owner \cup {NoOwner},
             seen : LeaseFiles, pid : Statuses]

IsExpired(l) == ~l.fresh

\* process.kill(pid, 0).  A live process is never reported dead; the pid of a
\* dead one may since belong to somebody else's process.
PidStatus(o) ==
  IF o \in alive THEN {"alive", "eperm"} ELSE {"dead", "alive", "eperm"}

ClassifyLeaseStatus(l, pid) ==
  IF l.owner = NoOwner THEN "missing"
  ELSE IF pid = "dead" THEN "dead"
  ELSE IF pid = "eperm" THEN "epermAlive"
  ELSE IF IsExpired(l) THEN "expiredAlive" ELSE "live"

CanWriteEvents(l, o) == l.owner = o /\ ~IsExpired(l)

LeaseInit ==
  /\ lease = NoLease
  /\ record = NoIdentity
  /\ alive = Owner
  /\ issued = 0
  /\ ident = [o \in Owner |-> NoIdentity]
  /\ holds = [o \in Owner |-> FALSE]
  /\ section = Free
  /\ gcSeen = NoIdentity
-----------------------------------------------------------------------------
\* withLeaseMutationLock, entering: the lock is exclusive and every section
\* starts by reading lease.json and, where it classifies, probing the pid.
Enter(o, op) ==
  /\ section = Free
  /\ \E pid \in PidStatus(lease.owner) :
       section' = [op |-> op, by |-> o, seen |-> lease, pid |-> pid]
  /\ UNCHANGED <<lease, record, alive, issued, ident, holds, gcSeen>>

Running(o, op) == o \in alive /\ section.op = op /\ section.by = o

\* Mutant: what the header comment of session-lease.ts allows and acquireLease
\* does not, taking over a lease that has merely expired.
TakeableExpired(o, l, pid) ==
  \/ l.owner \in {NoOwner, o}
  \/ IsExpired(l)
  \/ ClassifyLeaseStatus(l, pid) = "dead"

\* acquireLease: only a missing lease, one's own, or a dead owner's.
Takeable(o, l, pid) ==
  l.owner \in {NoOwner, o} \/ ClassifyLeaseStatus(l, pid) = "dead"

\* The re-read before writing must find the lease that was classified.
SameClassified(l) == l.owner = lease.owner /\ l.epoch = lease.epoch

NextEpoch(o, l) == IF l.owner = o THEN l.epoch ELSE l.epoch + 1

EnterAcquire(o) == o \in alive /\ issued < MaxAcquire /\ Enter(o, "acquire")

CommitAcquire(o) ==
  /\ Running(o, "acquire")
  /\ Takeable(o, section.seen, section.pid)
  /\ section.seen.owner \in {NoOwner, o} \/ SameClassified(section.seen)
  /\ issued' = issued + 1
  /\ lease' = [owner |-> o, epoch |-> NextEpoch(o, section.seen),
               token |-> issued + 1, fresh |-> TRUE]
  /\ ident' = [ident EXCEPT ![o] = Identity(lease')]
  /\ holds' = [holds EXCEPT ![o] = TRUE]
  /\ section' = Free
  /\ UNCHANGED <<record, alive, gcSeen>>

\* heartbeat: the recorded owner rewrites the lease it read, with a new expiry.
EnterHeartbeat(o) == o \in alive /\ Enter(o, "heartbeat")

CommitHeartbeat(o) ==
  /\ Running(o, "heartbeat")
  /\ section.seen.owner = o
  /\ lease' = [section.seen EXCEPT !.fresh = TRUE]
  /\ section' = Free
  /\ UNCHANGED <<record, alive, issued, ident, holds, gcSeen>>

\* releaseLease: the holder removes the file; for a missing file there is
\* nothing to do, and another holder's makes it fail with not_lease_holder.
\* In all three cases the caller has no lease afterwards.
EnterRelease(o) == o \in alive /\ holds[o] /\ Enter(o, "release")

CommitRelease(o) ==
  /\ Running(o, "release")
  /\ lease' = IF section.seen.owner = o THEN NoLease ELSE lease
  /\ holds' = [holds EXCEPT ![o] = FALSE]
  /\ section' = Free
  /\ UNCHANGED <<record, alive, issued, ident, gcSeen>>

\* publishOwnerSocketRecord: only while this exact identity is the lease's.
EnterPublish(o) ==
  o \in alive /\ ident[o] # NoIdentity /\ Enter(o, "publish")

CommitPublish(o) ==
  /\ Running(o, "publish")
  /\ Identity(section.seen) = ident[o]
  /\ record' = ident[o]
  /\ section' = Free
  /\ UNCHANGED <<lease, alive, issued, ident, holds, gcSeen>>

\* clearOwnerSocketRecord: only a record that still names this identity.
\* #stopOnce calls it after the lease is released.
EnterClear(o) ==
  /\ o \in alive /\ ident[o] # NoIdentity /\ ~holds[o]
  /\ Enter(o, "clear")

\* Mutant: clearing without comparing the record's identity.
CommitClearAny(o) ==
  /\ Running(o, "clear")
  /\ record' = NoIdentity
  /\ section' = Free
  /\ UNCHANGED <<lease, alive, issued, ident, holds, gcSeen>>

CommitClear(o) ==
  /\ Running(o, "clear")
  /\ record = ident[o]
  /\ record' = NoIdentity
  /\ section' = Free
  /\ UNCHANGED <<lease, alive, issued, ident, holds, gcSeen>>

\* harnessLeasesGcAdapter.prune reads the lease outside the lock, and
\* reapDeadOwnerArtifacts removes it inside if it is still that owner's, at
\* that epoch, and that owner is still dead.
GcRead ==
  /\ \E pid \in PidStatus(lease.owner) :
       ClassifyLeaseStatus(lease, pid) = "dead"
  /\ gcSeen' = Identity(lease)
  /\ UNCHANGED <<lease, record, alive, issued, ident, holds, section>>

EnterReap == gcSeen # NoIdentity /\ Enter(NoOwner, "reap")

CommitReap ==
  /\ section.op = "reap"
  /\ section.seen.owner = gcSeen.owner
  /\ section.seen.epoch = gcSeen.epoch
  /\ ClassifyLeaseStatus(section.seen, section.pid) = "dead"
  /\ lease' = NoLease
  /\ section' = Free
  /\ gcSeen' = NoIdentity
  /\ UNCHANGED <<record, alive, issued, ident, holds>>

\* A section whose guard fails throws or returns: lease_held, no_lease,
\* not_lease_holder, a record that is not ours, a reap that lost its race (the
\* collector may also fail or die inside, and so leave without reaping).
\* The same step stands for a section whose process died inside the lock,
\* which the next withFileLock reclaims from the dead holder.
Refused ==
  \/ /\ section.op = "acquire"
     /\ \/ ~Takeable(section.by, section.seen, section.pid)
        \/ /\ section.seen.owner \notin {NoOwner, section.by}
           /\ ~SameClassified(section.seen)
  \/ section.op = "heartbeat" /\ section.seen.owner # section.by
  \/ section.op = "publish" /\ Identity(section.seen) # ident[section.by]
  \/ section.op = "clear" /\ record # ident[section.by]
  \/ section.op = "reap"

Leave ==
  /\ section # Free
  /\ Refused \/ section.by \notin alive
  /\ section' = Free
  /\ gcSeen' = IF section.op = "reap" THEN NoIdentity ELSE gcSeen
  /\ UNCHANGED <<lease, record, alive, issued, ident, holds>>

\* The environment: time passes expiresAt, and a process dies.
Expire ==
  /\ lease.owner # NoOwner /\ lease.fresh
  /\ lease' = [lease EXCEPT !.fresh = FALSE]
  /\ UNCHANGED <<record, alive, issued, ident, holds, section, gcSeen>>

Die(o) ==
  /\ o \in alive
  /\ alive' = alive \ {o}
  /\ UNCHANGED <<lease, record, issued, ident, holds, section, gcSeen>>

LeaseNext ==
  \/ \E o \in Owner :
       \/ EnterAcquire(o) \/ CommitAcquire(o)
       \/ EnterHeartbeat(o) \/ CommitHeartbeat(o)
       \/ EnterRelease(o) \/ CommitRelease(o)
       \/ EnterPublish(o) \/ CommitPublish(o)
       \/ EnterClear(o) \/ CommitClear(o)
       \/ Die(o)
  \/ GcRead \/ EnterReap \/ CommitReap
  \/ Leave \/ Expire

LeaseSpec == LeaseInit /\ [][LeaseNext]_leaseVars
-----------------------------------------------------------------------------
\* The types of the two files, the lock and the processes' own variables.
LeaseTypeOK ==
  /\ lease \in LeaseFiles
  /\ record \in Identities
  /\ alive \in SUBSET Owner
  /\ issued \in Nat
  /\ ident \in [Owner -> Identities]
  /\ holds \in [Owner -> BOOLEAN]
  /\ section \in Sections
  /\ gcSeen \in Identities

\* session-lease.ts:4, "Exactly one live RuntimeOwner holds the lease": a live
\* owner that acquired and did not release is the one, at the epoch and with
\* the token, that lease.json names -- through expiry, other owners' attempts
\* to take over, garbage collection and deaths inside the lock.
HolderIsOnDisk ==
  \A o \in alive : holds[o] => Identity(lease) = ident[o]

\* The consequence a reader wants: never two live holders.
OneLiveHolder ==
  \A p, q \in alive : holds[p] /\ holds[q] => p = q

\* Nobody removes or replaces the lease of a live owner: acquireLease of
\* another owner and reapDeadOwnerArtifacts need it dead, and only its own
\* releaseLease takes it off the disk.
LeaseLostOnlyByRelease ==
  [][\A o \in alive :
        lease.owner = o /\ lease'.owner # o => holds[o] /\ ~holds'[o]]_leaseVars

\* A takeover always raises leaseEpoch by one, and as long as the file exists
\* the epoch never goes back (session-lease.ts:543-544).
TakeoverRaisesEpoch ==
  [][lease.owner # NoOwner /\ lease'.owner # NoOwner =>
       lease'.epoch = lease.epoch +
                        (IF lease'.owner = lease.owner THEN 0 ELSE 1)]_leaseVars

\* The socket record a live holder published stays until that holder has
\* released its lease: a predecessor's late clearOwnerSocketRecord or publish
\* never hides it (session-lease.ts:398-447).
LiveRecordKept ==
  [][record.owner \in alive /\ holds[record.owner] /\ record = ident[record.owner]
       => record' = record \/ ident'[record.owner] # ident[record.owner]]_leaseVars

\* The lease is a single-holder token: to its users lease.json's owner field
\* behaves as the abstract specification's holder.
Token == INSTANCE SingleHolder WITH holder <- lease.owner, running <- alive

\* Every step of acquireLease, heartbeat, releaseLease and the garbage collector
\* is a step of the abstract token or leaves it alone.
ImplementsSingleHolder == Token!Spec

\* session-lease.ts:5, "A stale lease (owner dead OR expired) may be taken
\* over": some process other than the owner could acquire it.
StaleLeaseMayBeTakenOver ==
  lease.owner # NoOwner /\ (IsExpired(lease) \/ lease.owner \notin alive) =>
    \A o \in alive : \E pid \in PidStatus(lease.owner) : Takeable(o, lease, pid)
=============================================================================
