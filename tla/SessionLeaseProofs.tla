------------------------- MODULE SessionLeaseProofs -------------------------
(***************************************************************************)
(* Proofs about SessionLease, for any set of owners and any bound.         *)
(*                                                                         *)
(* HolderIsOnDisk alone is not inductive: a commit writes from what its    *)
(* section read, so the induction also needs that the read is still what   *)
(* is on disk (only the section inside the lock writes identities), that   *)
(* a pid probed dead stays dead, and whose identity an owner keeps.        *)
(***************************************************************************)
EXTENDS SessionLease, TLAPS

Locked == section.op # "free"

\* What the section inside the lock read still names the lease on disk.
SeenIsOnDisk == Locked => Identity(section.seen) = Identity(lease)

\* A probe that answered "dead" was about a process that is dead for good.
ProbeIsSound == Locked /\ section.pid = "dead" => section.seen.owner \notin alive

\* An owner only ever keeps identities of its own acquisitions.
IdentIsOwn ==
  \A o \in Owner : /\ ident[o].owner \in {o, NoOwner}
                   /\ holds[o] => ident[o].owner = o

\* The owner lease.json names has not released it.
NamedHolds == \A o \in Owner : lease.owner = o => holds[o]

\* clearOwnerSocketRecord runs after the release.
ClearAfterRelease == section.op = "clear" => ~holds[section.by]

\* Only the garbage collector's section is by no owner.
SectionBy == Locked /\ section.op # "reap" => section.by \in Owner

LeaseInv ==
  /\ LeaseTypeOK
  /\ HolderIsOnDisk
  /\ SeenIsOnDisk
  /\ ProbeIsSound
  /\ IdentIsOwn
  /\ NamedHolds
  /\ ClearAfterRelease
  /\ SectionBy

-----------------------------------------------------------------------------
\* The records the actions build have the types LeaseTypeOK asks for.
LEMMA RecordTypes ==
  /\ NoLease \in LeaseFiles
  /\ NoIdentity \in Identities
  /\ Free \in Sections
  /\ \A l \in LeaseFiles : Identity(l) \in Identities
BY DEF NoLease, LeaseFiles, NoIdentity, Identities, Free, Sections, Statuses,
       Identity

\* Two lease files with one identity differ at most in their expiry.
LEMMA IdentityFields ==
  ASSUME NEW k \in LeaseFiles, NEW l \in LeaseFiles, Identity(k) = Identity(l)
  PROVE  k.owner = l.owner /\ k.epoch = l.epoch /\ k.token = l.token
BY DEF Identity

\* classifyLeaseStatus answers "dead" exactly for a probe that did.
LEMMA ClassifiedDead ==
  ASSUME NEW l, NEW pid, ClassifyLeaseStatus(l, pid) = "dead"
  PROVE  l.owner # NoOwner /\ pid = "dead"
BY DEF ClassifyLeaseStatus

LEMMA InitEstablishesInv == LeaseInit => LeaseInv
BY OwnerAssumption, RecordTypes
   DEF LeaseInit, LeaseInv, LeaseTypeOK, HolderIsOnDisk, SeenIsOnDisk, Locked,
       ProbeIsSound, IdentIsOwn, NamedHolds, ClearAfterRelease, SectionBy,
       Free, NoIdentity, NoLease

\* Entering a section takes a fresh reading of the disk and writes nothing.
LEMMA EnterKeepsInv ==
  ASSUME NEW o \in Owner \cup {NoOwner}, NEW op \in Ops, LeaseInv,
         Enter(o, op),
         op # "reap" => o \in Owner,
         op = "clear" => ~holds[o]
  PROVE  LeaseInv'
<1>1. PICK pid \in PidStatus(lease.owner) :
        section' = [op |-> op, by |-> o, seen |-> lease, pid |-> pid]
  BY DEF Enter
<1>2. pid \in Statuses /\ (pid = "dead" => lease.owner \notin alive)
  BY <1>1 DEF PidStatus, Statuses
<1>3. LeaseTypeOK'
  BY <1>1, <1>2 DEF Enter, LeaseInv, LeaseTypeOK, Sections
<1>4. SeenIsOnDisk' /\ ProbeIsSound' /\ ClearAfterRelease' /\ SectionBy'
  BY <1>1, <1>2
     DEF Enter, LeaseInv, SeenIsOnDisk, ProbeIsSound, ClearAfterRelease,
         SectionBy, Locked, Identity
<1>5. HolderIsOnDisk' /\ IdentIsOwn' /\ NamedHolds'
  BY DEF Enter, LeaseInv, HolderIsOnDisk, IdentIsOwn, NamedHolds, Identity
<1>6. QED
  BY <1>3, <1>4, <1>5 DEF LeaseInv

\* Taking the lease needs it missing, one's own, or its owner dead; so no
\* other live owner loses it.
LEMMA AcquireKeepsInv ==
  ASSUME NEW o \in Owner, LeaseInv, CommitAcquire(o)
  PROVE  LeaseInv'
<1> USE DEF Running
<1>1. /\ section.seen \in LeaseFiles /\ lease \in LeaseFiles
      /\ section.seen.owner = lease.owner
      /\ section.seen.epoch = lease.epoch
  BY IdentityFields
     DEF CommitAcquire, LeaseInv, LeaseTypeOK, Sections, SeenIsOnDisk, Locked
<1>2. \A p \in alive : p # o => lease.owner # p
  BY <1>1, OwnerAssumption, ClassifiedDead
     DEF CommitAcquire, Takeable, LeaseInv, ProbeIsSound, Locked, LeaseTypeOK
<1>3. \A p \in alive : p # o => ~holds[p]
  BY <1>2 DEF LeaseInv, HolderIsOnDisk, IdentIsOwn, LeaseTypeOK, Identity
<1>4. /\ lease'.owner = o /\ lease' \in LeaseFiles
      /\ ident' = [ident EXCEPT ![o] = Identity(lease')]
      /\ Identity(lease') \in Identities
      /\ Identity(lease').owner = o
  <2>1. NextEpoch(o, section.seen) \in Nat /\ issued + 1 \in Nat
    BY <1>1 DEF NextEpoch, LeaseFiles, LeaseInv, LeaseTypeOK
  <2>2. QED
    BY <2>1 DEF CommitAcquire, LeaseFiles, Identity, Identities
<1>5. LeaseTypeOK'
  BY <1>4, RecordTypes DEF CommitAcquire, LeaseInv, LeaseTypeOK
<1>6. HolderIsOnDisk'
  BY <1>3, <1>4 DEF CommitAcquire, LeaseInv, LeaseTypeOK, HolderIsOnDisk
<1>7. IdentIsOwn' /\ NamedHolds'
  BY <1>4 DEF CommitAcquire, LeaseInv, LeaseTypeOK, IdentIsOwn, NamedHolds
<1>8. SeenIsOnDisk' /\ ProbeIsSound' /\ ClearAfterRelease' /\ SectionBy'
  BY DEF CommitAcquire, Free, SeenIsOnDisk, ProbeIsSound, ClearAfterRelease,
         SectionBy, Locked
<1>9. QED
  BY <1>5, <1>6, <1>7, <1>8 DEF LeaseInv

\* A renewal rewrites the lease it read, which is still the one on disk.
LEMMA HeartbeatKeepsInv ==
  ASSUME NEW o \in Owner, LeaseInv, CommitHeartbeat(o)
  PROVE  LeaseInv'
<1>1. /\ lease' \in LeaseFiles
      /\ Identity(lease') = Identity(lease)
      /\ lease'.owner = lease.owner
  <2>1. section.seen \in LeaseFiles /\ lease \in LeaseFiles
    BY DEF LeaseInv, LeaseTypeOK, Sections
  <2>2. lease' \in LeaseFiles /\ Identity(lease') = Identity(section.seen)
    BY <2>1, Zenon DEF CommitHeartbeat, LeaseFiles, Identity
  <2>3. Identity(section.seen) = Identity(lease)
    BY DEF CommitHeartbeat, Running, LeaseInv, SeenIsOnDisk, Locked
  <2>4. QED
    BY <2>1, <2>2, <2>3, IdentityFields
<1>2. LeaseTypeOK'
  BY <1>1, RecordTypes DEF CommitHeartbeat, LeaseInv, LeaseTypeOK
<1>3. HolderIsOnDisk' /\ IdentIsOwn' /\ NamedHolds'
  BY <1>1 DEF CommitHeartbeat, LeaseInv, HolderIsOnDisk, IdentIsOwn, NamedHolds
<1>4. SeenIsOnDisk' /\ ProbeIsSound' /\ ClearAfterRelease' /\ SectionBy'
  BY DEF CommitHeartbeat, Free, SeenIsOnDisk, ProbeIsSound, ClearAfterRelease,
         SectionBy, Locked
<1>5. QED
  BY <1>2, <1>3, <1>4 DEF LeaseInv

\* Releasing removes the releaser's own lease or nothing.
LEMMA ReleaseKeepsInv ==
  ASSUME NEW o \in Owner, LeaseInv, CommitRelease(o)
  PROVE  LeaseInv'
<1>1. section.seen.owner = lease.owner
  <2>1. section.seen \in LeaseFiles /\ lease \in LeaseFiles
    BY DEF LeaseInv, LeaseTypeOK, Sections
  <2>2. QED
    BY <2>1, IdentityFields
       DEF CommitRelease, Running, LeaseInv, SeenIsOnDisk, Locked
<1>2. LeaseTypeOK'
  BY RecordTypes DEF CommitRelease, LeaseInv, LeaseTypeOK
<1>3. HolderIsOnDisk'
  <2>1. SUFFICES ASSUME NEW p \in alive, p # o, holds[p]
                 PROVE  Identity(lease') = ident[p]
    BY DEF CommitRelease, LeaseInv, LeaseTypeOK, HolderIsOnDisk
  <2>2. Identity(lease) = ident[p] /\ ident[p].owner = p
    BY <2>1 DEF LeaseInv, LeaseTypeOK, HolderIsOnDisk, IdentIsOwn
  <2>3. lease.owner # o
    BY <2>1, <2>2 DEF Identity
  <2>4. QED
    BY <1>1, <2>2, <2>3 DEF CommitRelease
<1>4. IdentIsOwn' /\ NamedHolds'
  BY <1>1, OwnerAssumption
     DEF CommitRelease, LeaseInv, LeaseTypeOK, IdentIsOwn, NamedHolds, NoLease
<1>5. SeenIsOnDisk' /\ ProbeIsSound' /\ ClearAfterRelease' /\ SectionBy'
  BY DEF CommitRelease, Free, SeenIsOnDisk, ProbeIsSound, ClearAfterRelease,
         SectionBy, Locked
<1>6. QED
  BY <1>2, <1>3, <1>4, <1>5 DEF LeaseInv

\* A reap removes a lease only of an owner that is dead.
LEMMA ReapKeepsInv ==
  ASSUME LeaseInv, CommitReap
  PROVE  LeaseInv'
<1>1. section.seen.owner = lease.owner
  <2>1. section.seen \in LeaseFiles /\ lease \in LeaseFiles
    BY DEF LeaseInv, LeaseTypeOK, Sections
  <2>2. QED
    BY <2>1, IdentityFields DEF CommitReap, LeaseInv, SeenIsOnDisk, Locked
<1>2. lease.owner \notin alive
  BY <1>1, ClassifiedDead DEF CommitReap, LeaseInv, ProbeIsSound, Locked
<1>3. \A p \in alive : ~holds[p]
  BY <1>2 DEF LeaseInv, LeaseTypeOK, HolderIsOnDisk, IdentIsOwn, Identity
<1>4. LeaseTypeOK'
  BY RecordTypes DEF CommitReap, LeaseInv, LeaseTypeOK
<1>5. HolderIsOnDisk' /\ IdentIsOwn' /\ NamedHolds'
  BY <1>3, OwnerAssumption
     DEF CommitReap, LeaseInv, LeaseTypeOK, HolderIsOnDisk, IdentIsOwn,
         NamedHolds, NoLease
<1>6. SeenIsOnDisk' /\ ProbeIsSound' /\ ClearAfterRelease' /\ SectionBy'
  BY DEF CommitReap, Free, SeenIsOnDisk, ProbeIsSound, ClearAfterRelease,
         SectionBy, Locked
<1>7. QED
  BY <1>4, <1>5, <1>6 DEF LeaseInv

\* The steps that leave lease.json, the identities and the holders alone.
LEMMA RecordStepsKeepInv ==
  ASSUME LeaseInv,
         \/ \E o \in Owner : CommitPublish(o) \/ CommitClear(o)
         \/ GcRead \/ Leave
  PROVE  LeaseInv'
<1>1. /\ UNCHANGED <<lease, alive, issued, ident, holds>>
      /\ section' = section \/ section' = Free
      /\ record' \in Identities /\ gcSeen' \in Identities
  BY RecordTypes
     DEF CommitPublish, CommitClear, GcRead, Leave, LeaseInv, LeaseTypeOK
<1>2. LeaseTypeOK'
  BY <1>1, RecordTypes DEF LeaseInv, LeaseTypeOK
<1>3. HolderIsOnDisk' /\ IdentIsOwn' /\ NamedHolds'
  BY <1>1 DEF LeaseInv, HolderIsOnDisk, IdentIsOwn, NamedHolds
<1>4. SeenIsOnDisk' /\ ProbeIsSound' /\ ClearAfterRelease' /\ SectionBy'
  BY <1>1 DEF LeaseInv, Free, SeenIsOnDisk, ProbeIsSound, ClearAfterRelease,
              SectionBy, Locked
<1>5. QED
  BY <1>2, <1>3, <1>4 DEF LeaseInv

\* Time and death: expiry changes no identity, and the dead stay dead.
LEMMA EnvironmentKeepsInv ==
  ASSUME LeaseInv, Expire \/ \E o \in Owner : Die(o)
  PROVE  LeaseInv'
<1>1. /\ lease' \in LeaseFiles /\ Identity(lease') = Identity(lease)
      /\ lease'.owner = lease.owner
  BY Zenon DEF Expire, Die, LeaseInv, LeaseTypeOK, LeaseFiles, Identity
<1>2. /\ UNCHANGED <<record, issued, ident, holds, section, gcSeen>>
      /\ alive' \in SUBSET alive
  BY DEF Expire, Die
<1>3. LeaseTypeOK'
  BY <1>1, <1>2 DEF LeaseInv, LeaseTypeOK
<1>4. HolderIsOnDisk' /\ IdentIsOwn' /\ NamedHolds'
  BY <1>1, <1>2 DEF LeaseInv, HolderIsOnDisk, IdentIsOwn, NamedHolds
<1>5. SeenIsOnDisk' /\ ProbeIsSound' /\ ClearAfterRelease' /\ SectionBy'
  BY <1>1, <1>2 DEF LeaseInv, SeenIsOnDisk, ProbeIsSound, ClearAfterRelease,
                    SectionBy, Locked
<1>6. QED
  BY <1>3, <1>4, <1>5 DEF LeaseInv

LEMMA StepKeepsInv == LeaseInv /\ [LeaseNext]_leaseVars => LeaseInv'
<1> SUFFICES ASSUME LeaseInv, [LeaseNext]_leaseVars
             PROVE  LeaseInv'
  OBVIOUS
<1>1. CASE UNCHANGED leaseVars
  BY <1>1
     DEF leaseVars, LeaseInv, LeaseTypeOK, HolderIsOnDisk, SeenIsOnDisk,
         Locked, ProbeIsSound, IdentIsOwn, NamedHolds, ClearAfterRelease,
         SectionBy
<1>2. ASSUME NEW o \in Owner,
             \/ EnterAcquire(o) \/ EnterHeartbeat(o) \/ EnterRelease(o)
             \/ EnterPublish(o) \/ EnterClear(o)
      PROVE  LeaseInv'
  BY <1>2, EnterKeepsInv
     DEF EnterAcquire, EnterHeartbeat, EnterRelease, EnterPublish, EnterClear,
         Ops
<1>3. CASE EnterReap
  BY <1>3, EnterKeepsInv DEF EnterReap, Ops
<1>4. ASSUME NEW o \in Owner,
             CommitAcquire(o) \/ CommitHeartbeat(o) \/ CommitRelease(o)
      PROVE  LeaseInv'
  BY <1>4, AcquireKeepsInv, HeartbeatKeepsInv, ReleaseKeepsInv
<1>5. CASE CommitReap
  BY <1>5, ReapKeepsInv
<1>6. CASE \/ \E o \in Owner : CommitPublish(o) \/ CommitClear(o)
           \/ GcRead \/ Leave
  BY <1>6, RecordStepsKeepInv
<1>7. CASE Expire \/ \E o \in Owner : Die(o)
  BY <1>7, EnvironmentKeepsInv
<1>8. QED
  BY <1>1, <1>2, <1>3, <1>4, <1>5, <1>6, <1>7 DEF LeaseNext

\* LeaseInv is an invariant of the lease for every set of owners.
THEOREM LeaseInvariant == LeaseSpec => []LeaseInv
<1>1. QED
  BY InitEstablishesInv, StepKeepsInv, PTL DEF LeaseSpec

\* Both files, the lock and the owners' variables keep their types.
THEOREM LeaseTypes == LeaseSpec => []LeaseTypeOK
<1>1. LeaseInv => LeaseTypeOK
  BY DEF LeaseInv
<1>2. QED
  BY <1>1, LeaseInvariant, PTL

\* A live owner that acquired and did not release is the one lease.json
\* names, at its epoch and with its token (acquireLease, releaseLease,
\* reapDeadOwnerArtifacts, heartbeat).
THEOREM HolderAlwaysOnDisk == LeaseSpec => []HolderIsOnDisk
<1>1. LeaseInv => HolderIsOnDisk
  BY DEF LeaseInv
<1>2. QED
  BY <1>1, LeaseInvariant, PTL

\* The mutual exclusion session-lease.ts:4 claims: two live owners never both
\* hold the lease.
THEOREM AtMostOneLiveHolder == LeaseSpec => []OneLiveHolder
<1>1. LeaseInv => OneLiveHolder
  <2>1. SUFFICES ASSUME LeaseInv, NEW p \in alive, NEW q \in alive,
                        holds[p], holds[q]
                 PROVE  p = q
    BY DEF OneLiveHolder
  <2>2. ident[p] = ident[q] /\ ident[p].owner = p /\ ident[q].owner = q
    BY <2>1 DEF LeaseInv, LeaseTypeOK, HolderIsOnDisk, IdentIsOwn
  <2>3. QED
    BY <2>2
<1>2. QED
  BY <1>1, LeaseInvariant, PTL

\* A live owner loses its lease only by releasing it: a takeover and a reap
\* both need it dead.
THEOREM LeaseNeverStolen == LeaseSpec => LeaseLostOnlyByRelease
<1>1. ASSUME LeaseInv, LeaseInv', [LeaseNext]_leaseVars,
             NEW o \in alive, lease.owner = o, lease'.owner # o
      PROVE  holds[o] /\ ~holds'[o]
  <2>1. o \in Owner /\ holds[o]
    BY <1>1 DEF LeaseInv, LeaseTypeOK, NamedHolds
  <2>2. ASSUME holds'[o], alive' = alive
        PROVE  FALSE
    <3>1. Identity(lease') = ident'[o] /\ ident'[o].owner = o
      BY <1>1, <2>1, <2>2 DEF LeaseInv, HolderIsOnDisk, IdentIsOwn
    <3>2. QED
      BY <1>1, <3>1 DEF Identity
  <2>3. alive' = alive \/ lease' = lease
    BY <1>1
       DEF LeaseNext, leaseVars, EnterAcquire, EnterHeartbeat, EnterRelease,
           EnterPublish, EnterClear, EnterReap, Enter, CommitAcquire,
           CommitHeartbeat, CommitRelease, CommitPublish, CommitClear,
           CommitReap, GcRead, Leave, Expire, Die
  <2>4. QED
    BY <1>1, <2>1, <2>2, <2>3
<1>2. LeaseInv /\ LeaseInv' /\ [LeaseNext]_leaseVars =>
        [\A o \in alive :
           lease.owner = o /\ lease'.owner # o => holds[o] /\ ~holds'[o]]_leaseVars
  BY <1>1
<1>3. QED
  BY <1>2, LeaseInvariant, PTL DEF LeaseSpec, LeaseLostOnlyByRelease

\* Every takeover raises leaseEpoch by exactly one, and a renewal or a
\* re-acquisition by the same owner keeps it.
THEOREM EpochsGrow == LeaseSpec => TakeoverRaisesEpoch
<1> DEFINE Raises == lease.owner # NoOwner /\ lease'.owner # NoOwner =>
             lease'.epoch = lease.epoch +
                              (IF lease'.owner = lease.owner THEN 0 ELSE 1)
<1>1. ASSUME LeaseInv, LeaseNext PROVE Raises
  <2> USE <1>1
  <2>0. lease.epoch \in Nat /\ lease \in LeaseFiles /\ section.seen \in LeaseFiles
    BY DEF LeaseInv, LeaseTypeOK, LeaseFiles, Sections
  <2>1. CASE lease'.owner = lease.owner /\ lease'.epoch = lease.epoch
    BY <2>0, <2>1
  <2>2. ASSUME NEW o \in Owner, CommitAcquire(o) PROVE Raises
    <3>1. section.seen.owner = lease.owner /\ section.seen.epoch = lease.epoch
      BY <2>0, <2>2, IdentityFields
         DEF CommitAcquire, Running, LeaseInv, SeenIsOnDisk, Locked
    <3>2. lease'.owner = o /\ lease'.epoch = NextEpoch(o, section.seen)
      BY <2>2 DEF CommitAcquire
    <3>3. QED
      BY <2>0, <3>1, <3>2, SMTT(20) DEF NextEpoch
  <2>3. ASSUME NEW o \in Owner, CommitHeartbeat(o) PROVE Raises
    <3>1. section.seen.owner = lease.owner /\ section.seen.epoch = lease.epoch
      BY <2>0, <2>3, IdentityFields
         DEF CommitHeartbeat, Running, LeaseInv, SeenIsOnDisk, Locked
    <3>2. lease'.owner = section.seen.owner /\ lease'.epoch = section.seen.epoch
      BY <2>0, <2>3 DEF CommitHeartbeat, LeaseFiles
    <3>3. QED
      BY <2>0, <3>1, <3>2
  <2>4. ASSUME NEW o \in Owner, CommitRelease(o) PROVE Raises
    BY <2>0, <2>4 DEF CommitRelease, NoLease
  <2>5. CASE CommitReap
    BY <2>5 DEF CommitReap, NoLease
  <2>6. CASE Expire
    BY <2>0, <2>6 DEF Expire, LeaseFiles
  <2>7. QED
    BY <2>1, <2>2, <2>3, <2>4, <2>5, <2>6
       DEF LeaseNext, EnterAcquire, EnterHeartbeat, EnterRelease, EnterPublish,
           EnterClear, EnterReap, Enter, CommitPublish, CommitClear, GcRead,
           Leave, Die
<1>2. LeaseInv /\ [LeaseNext]_leaseVars => [Raises]_leaseVars
  BY <1>1
<1>3. QED
  BY <1>2, LeaseInvariant, PTL DEF LeaseSpec, TakeoverRaisesEpoch

\* The socket record of a live holder is never replaced or removed by anyone
\* (publishOwnerSocketRecord and clearOwnerSocketRecord compare identities).
THEOREM RecordNeverHidden == LeaseSpec => LiveRecordKept
<1> DEFINE Kept ==
      record.owner \in alive /\ holds[record.owner] /\ record = ident[record.owner]
        => record' = record \/ ident'[record.owner] # ident[record.owner]
<1>1. ASSUME LeaseInv, LeaseNext PROVE Kept
  <2> USE <1>1
  <2>1. CASE record' = record
    BY <2>1
  <2>2. ASSUME NEW o \in Owner, CommitPublish(o) PROVE Kept
    <3>1. SUFFICES ASSUME record.owner \in alive, holds[record.owner],
                          record = ident[record.owner]
                   PROVE  record' = record
      OBVIOUS
    <3>2. Identity(lease) = record
      BY <3>1 DEF LeaseInv, HolderIsOnDisk
    <3>3. QED
      BY <2>2, <3>2
         DEF CommitPublish, Running, LeaseInv, SeenIsOnDisk, Locked
  <2>3. ASSUME NEW o \in Owner, CommitClear(o) PROVE Kept
    <3>1. SUFFICES ASSUME record.owner \in alive, holds[record.owner] PROVE FALSE
      OBVIOUS
    <3>2. record = ident[o] /\ ~holds[o]
      BY <2>3 DEF CommitClear, Running, LeaseInv, ClearAfterRelease
    <3>3. record.owner = o
      BY <3>1, <3>2, OwnerAssumption DEF LeaseInv, LeaseTypeOK, IdentIsOwn
    <3>4. QED
      BY <3>1, <3>2, <3>3
  <2>4. QED
    BY <2>1, <2>2, <2>3
       DEF LeaseNext, EnterAcquire, EnterHeartbeat, EnterRelease, EnterPublish,
           EnterClear, EnterReap, Enter, CommitAcquire, CommitHeartbeat,
           CommitRelease, CommitReap, GcRead, Leave, Expire, Die
<1>2. LeaseInv /\ [LeaseNext]_leaseVars => [Kept]_leaseVars
  BY <1>1, SMTT(20)
<1>3. QED
  BY <1>2, LeaseInvariant, PTL DEF LeaseSpec, LiveRecordKept

\* The refinement: with lease.owner as the holder, every step of the lease is a
\* step of the single-holder token or leaves it unchanged.
LEMMA StepIsTokenStep ==
  LeaseInv /\ LeaseInv' /\ [LeaseNext]_leaseVars => [Token!Next]_(Token!holderVars)
<1> SUFFICES ASSUME LeaseInv, [LeaseNext]_leaseVars
             PROVE  Token!Next \/ UNCHANGED <<lease.owner, alive>>
  BY DEF Token!holderVars
<1> USE DEF Token!Next
<1>0. lease \in LeaseFiles /\ section.seen \in LeaseFiles
  BY DEF LeaseInv, LeaseTypeOK, Sections
<1>1. ASSUME NEW o \in Owner, CommitAcquire(o) PROVE Token!Next
  <2>1. section.seen.owner = lease.owner
    BY <1>0, <1>1, IdentityFields
       DEF CommitAcquire, Running, LeaseInv, SeenIsOnDisk, Locked
  <2>2. lease.owner \notin alive \ {o}
    BY <1>1, <2>1, OwnerAssumption, ClassifiedDead
       DEF CommitAcquire, Running, Takeable, LeaseInv, LeaseTypeOK,
           ProbeIsSound, Locked
  <2>3. Token!Take(o)
    BY <1>1, <2>2 DEF CommitAcquire, Running, Token!Take
  <2>4. QED
    BY <2>3
<1>2. ASSUME NEW o \in Owner, CommitRelease(o)
      PROVE  Token!Next \/ UNCHANGED <<lease.owner, alive>>
  <2>1. section.seen.owner = lease.owner
    BY <1>0, <1>2, IdentityFields
       DEF CommitRelease, Running, LeaseInv, SeenIsOnDisk, Locked
  <2>2. CASE lease.owner = o
    BY <1>2, <2>1, <2>2 DEF CommitRelease, Running, NoLease, Token!GiveBack
  <2>3. CASE lease.owner # o
    BY <1>2, <2>1, <2>3 DEF CommitRelease
  <2>4. QED
    BY <2>2, <2>3
<1>3. ASSUME CommitReap PROVE Token!Next
  <2>1. section.seen.owner = lease.owner
    BY <1>0, <1>3, IdentityFields
       DEF CommitReap, LeaseInv, SeenIsOnDisk, Locked
  <2>2. lease.owner \notin alive
    BY <1>3, <2>1, ClassifiedDead DEF CommitReap, LeaseInv, ProbeIsSound, Locked
  <2>3. Token!Recover
    BY <1>3, <2>2 DEF CommitReap, NoLease, Token!Recover
  <2>4. QED
    BY <2>3
<1>4. ASSUME NEW o \in Owner, CommitHeartbeat(o)
      PROVE  UNCHANGED <<lease.owner, alive>>
  <2>1. section.seen.owner = lease.owner
    BY <1>0, <1>4, IdentityFields
       DEF CommitHeartbeat, Running, LeaseInv, SeenIsOnDisk, Locked
  <2>2. QED
    BY <1>0, <1>4, <2>1 DEF CommitHeartbeat, LeaseFiles
<1>5. ASSUME NEW o \in Owner, Die(o) PROVE Token!Next
  BY <1>5 DEF Die, Token!Crash
<1>6. CASE Expire
  BY <1>0, <1>6 DEF Expire, LeaseFiles
<1>7. QED
  BY <1>1, <1>2, <1>3, <1>4, <1>5, <1>6
     DEF LeaseNext, leaseVars, EnterAcquire, EnterHeartbeat, EnterRelease,
         EnterPublish, EnterClear, EnterReap, Enter, CommitPublish, CommitClear,
         GcRead, Leave

\* The lease file implements the single-holder token: acquireLease takes it,
\* releaseLease gives it back, reapDeadOwnerArtifacts recovers it.
THEOREM LeaseIsSingleHolder == LeaseSpec => ImplementsSingleHolder
<1>1. LeaseInit => Token!Init
  BY DEF LeaseInit, NoLease, Token!Init
<1>2. QED
  BY <1>1, StepIsTokenStep, LeaseInvariant, PTL
     DEF LeaseSpec, ImplementsSingleHolder, Token!Spec
=============================================================================
