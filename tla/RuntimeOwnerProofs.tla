------------------------- MODULE RuntimeOwnerProofs -------------------------
(***************************************************************************)
(* Proofs about RuntimeOwner, for any set of owners and any bounds.        *)
(*                                                                         *)
(* Every step of the owners is a step of the lease or leaves it alone, so  *)
(* what SessionLeaseProofs shows carries over.  StagesOK relates the stage *)
(* of start and stop to what is still open; the lease is released only in  *)
(* a stage in which nothing is.                                            *)
(***************************************************************************)
EXTENDS RuntimeOwner, SessionLeaseProofs

\* Once stop() runs, start() is past listen() or has failed: nothing reopens
\* what a later stage of #stopOnce has verified closed.
StagesOK(r, h) ==
  /\ r.stop # "no" \/ r.server \/ r.retire # "no"
       => r.boot \in {"bound", "appending", "up", "failed"}
  /\ r.boot \in {"new", "acquiring", "publishing"} => r.renewals = 0 /\ ~r.timer
  /\ r.boot \in {"publishing", "binding", "unlinked"} => h
  /\ r.server => h
  /\ r.closed => ~r.server /\ r.stop # "no"
  /\ r.stop \notin {"no", "joining"} => ~r.busy
  /\ r.stop \in {"unbinding", "fencing", "fenced", "releasing", "clearing", "done"}
       => ~r.child
  /\ r.stop \in {"fencing", "fenced", "releasing", "clearing", "done"} => r.closed
  /\ r.stop \in {"fenced", "releasing", "clearing", "done"} => ~r.timer
  /\ r.stop \in {"releasing", "clearing", "done"} => r.renewals = 0

OwnerInv ==
  /\ LeaseInv
  /\ OwnerTypeOK
  /\ \A o \in Owner : StagesOK(own[o], holds[o])
-----------------------------------------------------------------------------
\* The composition: an owner touches the lease only by its protocol.
LEMMA StepIsLeaseStep == [Next]_vars => [LeaseNext]_leaseVars
<1> SUFFICES ASSUME [Next]_vars PROVE [LeaseNext]_leaseVars
  OBVIOUS
<1> USE DEF LeaseNext
<1>1. ASSUME NEW o \in Owner, StartStep(o) PROVE [LeaseNext]_leaseVars
  BY <1>1
     DEF StartStep, BeginAcquire, Acquired, AcquireRefused, BeginPublish,
         Published, Unlink, Bind, Announce, Append
<1>2. ASSUME NEW o \in Owner, StopStep(o) PROVE [LeaseNext]_leaseVars
  BY <1>2
     DEF StopStep, StopJoined, StopDrained, CloseTransport, CloseServer,
         FenceHeartbeat, BeginRelease, Released, BeginClear, Cleared
<1>3. ASSUME NEW o \in Owner,
             \/ RenewStart(o) \/ BeginRenew(o) \/ Renewed(o)
             \/ Request(o) \/ WorkEnds(o) \/ Frame(o) \/ PumpStep(o)
             \/ Retire(o) \/ Retired(o) \/ Signal(o)
             \/ StartFails(o) \/ CleanupFails(o) \/ Crash(o)
      PROVE  [LeaseNext]_leaseVars
  BY <1>3
     DEF RenewStart, BeginRenew, Renewed, Request, WorkEnds, Frame, PumpStep,
         Retire, Retired, Signal, StartFails, CleanupFails, Crash
<1>4. CASE GarbageCollect \/ Environment
  BY <1>4 DEF GarbageCollect, ReapSocket, Environment
<1>5. CASE UNCHANGED vars
  BY <1>5 DEF vars
<1>6. QED
  BY <1>1, <1>2, <1>3, <1>4, <1>5 DEF Next

\* The owners' composition implements the lease protocol.
THEOREM OwnersFollowLease == Spec => LeaseSpec
<1>1. Init => LeaseInit
  BY DEF Init
<1>2. QED
  BY <1>1, StepIsLeaseStep, PTL DEF Spec, LeaseSpec

-----------------------------------------------------------------------------
LEMMA InitEstablishesStages == Init => OwnerInv
<1> SUFFICES ASSUME Init PROVE OwnerInv
  OBVIOUS
<1>1. LeaseInv
  BY InitEstablishesInv DEF Init
<1>2. OwnerTypeOK
  BY OwnerBounds DEF Init, OwnerTypeOK, Fields, Fresh, Boots, Stops
<1>3. \A o \in Owner : StagesOK(own[o], holds[o])
  BY Zenon DEF Init, Fresh, StagesOK
<1>4. QED
  BY <1>1, <1>2, <1>3 DEF OwnerInv

\* The lease steps that change nobody's hold.
LEMMA HoldsKept ==
  ASSUME NEW o \in Owner,
         \/ UNCHANGED leaseVars \/ Leave
         \/ EnterAcquire(o) \/ EnterHeartbeat(o) \/ EnterRelease(o)
         \/ EnterPublish(o) \/ EnterClear(o)
         \/ CommitHeartbeat(o) \/ CommitPublish(o) \/ CommitClear(o)
  PROVE  holds' = holds
BY DEF leaseVars, Leave, EnterAcquire, EnterHeartbeat, EnterRelease, Enter,
       EnterPublish, EnterClear, CommitHeartbeat, CommitPublish, CommitClear

\* Changing one owner's record keeps the stages if the new record has them.
LEMMA UpdateKeepsStages ==
  ASSUME own \in [Owner -> Fields],
         \A p \in Owner : StagesOK(own[p], holds[p]),
         NEW o \in Owner, NEW r \in Fields, StagesOK(r, holds'[o]),
         own' = [own EXCEPT ![o] = r],
         \A p \in Owner \ {o} : holds'[p] = holds[p],
         sock' \in Owner \cup {NoOwner}
  PROVE  OwnerTypeOK' /\ \A p \in Owner : StagesOK(own'[p], holds'[p])
BY DEF OwnerTypeOK

\* #startOnce keeps the stages.
LEMMA StartKeepsStages ==
  ASSUME OwnerInv, NEW o \in Owner, StartStep(o) \/ StartFails(o)
  PROVE  OwnerTypeOK' /\ \A p \in Owner : StagesOK(own'[p], holds'[p])
<1> DEFINE Goal == OwnerTypeOK' /\ \A p \in Owner : StagesOK(own'[p], holds'[p])
<1>0. /\ own \in [Owner -> Fields] /\ sock \in Owner \cup {NoOwner}
      /\ \A p \in Owner : StagesOK(own[p], holds[p])
      /\ holds \in [Owner -> BOOLEAN]
  BY DEF OwnerInv, OwnerTypeOK, LeaseInv, LeaseTypeOK
<1>a. own[o] \in Fields /\ StagesOK(own[o], holds[o]) /\ holds[o] \in BOOLEAN
  BY <1>0
<1>1. ASSUME NEW r \in Fields, StagesOK(r, holds'[o]),
             own' = [own EXCEPT ![o] = r],
             \A p \in Owner \ {o} : holds'[p] = holds[p],
             sock' \in Owner \cup {NoOwner}
      PROVE  Goal
  BY <1>0, <1>1, UpdateKeepsStages, Zenon
<1>2. CASE BeginAcquire(o)
  <2> DEFINE r == [own[o] EXCEPT !.boot = "acquiring"]
  <2>1. r \in Fields
    BY <1>2, <1>a DEF BeginAcquire, Fields, Boots, Stops
  <2>2. holds' = holds
    BY <1>2, HoldsKept DEF BeginAcquire
  <2>3. StagesOK(r, holds'[o])
    BY <1>2, <1>0, <1>a, <2>2 DEF BeginAcquire, Fields, Boots, Stops, StagesOK
  <2>4. QED
    BY <1>0, <1>1, <1>2, <2>1, <2>2, <2>3, Zenon DEF BeginAcquire
<1>3. CASE Acquired(o)
  <2> DEFINE r == [own[o] EXCEPT !.boot = "publishing"]
  <2>1. r \in Fields
    BY <1>3, <1>a DEF Acquired, Fields, Boots, Stops
  <2>2. holds' = [holds EXCEPT ![o] = TRUE]
    BY <1>3 DEF Acquired, CommitAcquire, CommitRelease
  <2>3. StagesOK(r, holds'[o])
    BY <1>3, <1>0, <1>a, <2>2 DEF Acquired, Fields, Boots, Stops, StagesOK
  <2>4. QED
    BY <1>0, <1>1, <1>3, <2>1, <2>2, <2>3, Zenon DEF Acquired
<1>4. CASE AcquireRefused(o)
  <2> DEFINE r == [own[o] EXCEPT !.boot = "failed", !.stop = Stopping(o)]
  <2>1. r \in Fields
    BY <1>4, <1>a, Zenon DEF AcquireRefused, Fields, Boots, Stops, Rollback, Stopping
  <2>2. holds' = holds
    BY <1>4, HoldsKept DEF AcquireRefused
  <2>3. StagesOK(r, holds'[o])
    BY <1>4, <1>0, <1>a, <2>2 DEF AcquireRefused, Fields, Boots, Stops, StagesOK, Rollback, Stopping
  <2>4. QED
    BY <1>0, <1>1, <1>4, <2>1, <2>2, <2>3, Zenon DEF AcquireRefused, Rollback, Stopping
<1>5. CASE StartFails(o)
  <2> DEFINE r == [own[o] EXCEPT !.boot = "failed", !.stop = Stopping(o)]
  <2>1. r \in Fields
    BY <1>5, <1>a, Zenon DEF StartFails, Fields, Boots, Stops, Rollback, Stopping
  <2>2. holds' = holds
    BY <1>5, HoldsKept DEF StartFails
  <2>3. StagesOK(r, holds'[o])
    BY <1>5, <1>0, <1>a, <2>2 DEF StartFails, Fields, Boots, Stops, StagesOK, Rollback, Stopping
  <2>4. QED
    BY <1>0, <1>1, <1>5, <2>1, <2>2, <2>3, Zenon DEF StartFails, Rollback, Stopping
<1>6. CASE Published(o)
  <2> DEFINE r == [own[o] EXCEPT !.boot = "binding", !.timer = TRUE]
  <2>1. r \in Fields
    BY <1>6, <1>a, Zenon DEF Published, Fields, Boots, Stops
  <2>2. holds' = holds
    BY <1>6, HoldsKept DEF Published
  <2>3. StagesOK(r, holds'[o])
    BY <1>6, <1>0, <1>a, <2>2 DEF Published, Fields, Boots, Stops, StagesOK
  <2>4. QED
    BY <1>0, <1>1, <1>6, <2>1, <2>2, <2>3, Zenon DEF Published
<1>7. CASE Unlink(o)
  <2> DEFINE r == [own[o] EXCEPT !.boot = "unlinked"]
  <2>1. r \in Fields
    BY <1>7, <1>a DEF Unlink, Fields, Boots, Stops
  <2>2. holds' = holds
    BY <1>7, HoldsKept DEF Unlink
  <2>3. StagesOK(r, holds'[o])
    BY <1>7, <1>0, <1>a, <2>2 DEF Unlink, Fields, Boots, Stops, StagesOK
  <2>4. QED
    BY <1>0, <1>1, <1>7, <2>1, <2>2, <2>3, Zenon DEF Unlink
<1>8. CASE Bind(o)
  <2> DEFINE r == [own[o] EXCEPT !.boot = "bound", !.server = TRUE]
  <2>1. r \in Fields
    BY <1>8, <1>a, Zenon DEF Bind, Fields, Boots, Stops
  <2>2. holds' = holds
    BY <1>8, HoldsKept DEF Bind
  <2>3. StagesOK(r, holds'[o])
    BY <1>8, <1>0, <1>a, <2>2 DEF Bind, Fields, Boots, Stops, StagesOK
  <2>4. QED
    BY <1>0, <1>1, <1>8, <2>1, <2>2, <2>3, Zenon DEF Bind
<1>9. CASE Append(o)
  <2> DEFINE r == [own[o] EXCEPT !.boot = "up", !.subscribed = TRUE]
  <2>1. r \in Fields
    BY <1>9, <1>a, Zenon DEF Append, Fields, Boots, Stops
  <2>2. holds' = holds
    BY <1>9, HoldsKept DEF Append
  <2>3. StagesOK(r, holds'[o])
    BY <1>9, <1>0, <1>a, <2>2 DEF Append, Fields, Boots, Stops, StagesOK
  <2>4. QED
    BY <1>0, <1>1, <1>9, <2>1, <2>2, <2>3, Zenon DEF Append
<1>10. CASE BeginPublish(o)
  BY <1>0, <1>10, HoldsKept DEF BeginPublish, OwnerTypeOK
<1>11. CASE Announce(o)
  <2> DEFINE r == [own[o] EXCEPT !.boot = "appending"]
             q == [own[o] EXCEPT !.boot = "up", !.subscribed = TRUE]
  <2>1. r \in Fields /\ q \in Fields
    BY <1>a, Zenon DEF Fields, Boots
  <2>2. StagesOK(r, holds[o]) /\ StagesOK(q, holds[o])
    BY <1>a, <1>11 DEF Announce, Fields, Boots, StagesOK
  <2>3. holds' = holds /\ sock' = sock
    BY <1>11, HoldsKept DEF Announce
  <2>4. own' = [own EXCEPT ![o] = r] \/ own' = [own EXCEPT ![o] = q]
    BY <1>11, Zenon DEF Announce
  <2>5. QED
    BY <1>0, <1>1, <2>1, <2>2, <2>3, <2>4
<1>12. QED
  BY <1>2, <1>3, <1>4, <1>5, <1>6, <1>7, <1>8, <1>9, <1>10, <1>11 DEF StartStep

\* #stopOnce keeps the stages.
LEMMA StopKeepsStages ==
  ASSUME OwnerInv, NEW o \in Owner, StopStep(o) \/ CleanupFails(o)
  PROVE  OwnerTypeOK' /\ \A p \in Owner : StagesOK(own'[p], holds'[p])
<1> DEFINE Goal == OwnerTypeOK' /\ \A p \in Owner : StagesOK(own'[p], holds'[p])
<1>0. /\ own \in [Owner -> Fields] /\ sock \in Owner \cup {NoOwner}
      /\ \A p \in Owner : StagesOK(own[p], holds[p])
      /\ holds \in [Owner -> BOOLEAN]
  BY DEF OwnerInv, OwnerTypeOK, LeaseInv, LeaseTypeOK
<1>a. own[o] \in Fields /\ StagesOK(own[o], holds[o]) /\ holds[o] \in BOOLEAN
  BY <1>0
<1>1. ASSUME NEW r \in Fields, StagesOK(r, holds'[o]),
             own' = [own EXCEPT ![o] = r],
             \A p \in Owner \ {o} : holds'[p] = holds[p],
             sock' \in Owner \cup {NoOwner}
      PROVE  Goal
  BY <1>0, <1>1, UpdateKeepsStages, Zenon
<1>2. CASE StopJoined(o)
  <2> DEFINE r == [own[o] EXCEPT !.stop = DrainPump(o), !.subscribed = FALSE]
  <2>1. r \in Fields
    BY <1>2, <1>a, Zenon DEF StopJoined, Fields, Boots, Stops, DrainPump
  <2>2. holds' = holds
    BY <1>2, HoldsKept DEF StopJoined
  <2>3. StagesOK(r, holds'[o])
    BY <1>2, <1>0, <1>a, <2>2 DEF StopJoined, Fields, Boots, Stops, StagesOK, DrainPump
  <2>4. QED
    BY <1>0, <1>1, <1>2, <2>1, <2>2, <2>3, Zenon DEF StopJoined, DrainPump
<1>3. CASE StopDrained(o)
  <2> DEFINE r == [own[o] EXCEPT !.stop = IF own[o].child THEN "closing"
                                   ELSE IF own[o].closed THEN "fencing"
                                   ELSE "unbinding"]
  <2>1. r \in Fields
    BY <1>3, <1>a DEF StopDrained, Fields, Boots, Stops
  <2>2. holds' = holds
    BY <1>3, HoldsKept DEF StopDrained
  <2>3. StagesOK(r, holds'[o])
    BY <1>3, <1>0, <1>a, <2>2 DEF StopDrained, Fields, Boots, Stops, StagesOK
  <2>4. QED
    BY <1>0, <1>1, <1>3, <2>1, <2>2, <2>3, Zenon DEF StopDrained
<1>4. CASE CloseTransport(o)
  <2> DEFINE r == [own[o] EXCEPT !.stop = "unbinding", !.child = FALSE]
  <2>1. r \in Fields
    BY <1>4, <1>a, Zenon DEF CloseTransport, Fields, Boots, Stops
  <2>2. holds' = holds
    BY <1>4, HoldsKept DEF CloseTransport
  <2>3. StagesOK(r, holds'[o])
    BY <1>4, <1>0, <1>a, <2>2 DEF CloseTransport, Fields, Boots, Stops, StagesOK
  <2>4. QED
    BY <1>0, <1>1, <1>4, <2>1, <2>2, <2>3, Zenon DEF CloseTransport
<1>5. CASE CloseServer(o)
  <2> DEFINE r == [own[o] EXCEPT !.stop = "fencing", !.server = FALSE, !.closed = TRUE]
  <2>1. r \in Fields
    BY <1>5, <1>a, Zenon DEF CloseServer, Fields, Boots, Stops
  <2>2. holds' = holds
    BY <1>5, HoldsKept DEF CloseServer
  <2>3. StagesOK(r, holds'[o])
    BY <1>5, <1>0, <1>a, <2>2 DEF CloseServer, Fields, Boots, Stops, StagesOK
  <2>4. QED
    BY <1>0, <1>1, <1>5, <2>1, <2>2, <2>3, Zenon DEF CloseServer
<1>6. CASE Released(o)
  <2> DEFINE r == [own[o] EXCEPT !.stop = "clearing"]
  <2>1. r \in Fields
    BY <1>6, <1>a DEF Released, Fields, Boots, Stops
  <2>2. holds' = [holds EXCEPT ![o] = FALSE]
    BY <1>6 DEF Released, CommitAcquire, CommitRelease
  <2>3. StagesOK(r, holds'[o])
    BY <1>6, <1>0, <1>a, <2>2 DEF Released, Fields, Boots, Stops, StagesOK
  <2>4. QED
    BY <1>0, <1>1, <1>6, <2>1, <2>2, <2>3, Zenon DEF Released
<1>7. CASE Cleared(o)
  <2> DEFINE r == [own[o] EXCEPT !.stop = "done"]
  <2>1. r \in Fields
    BY <1>7, <1>a DEF Cleared, Fields, Boots, Stops
  <2>2. holds' = holds
    BY <1>7, HoldsKept DEF Cleared
  <2>3. StagesOK(r, holds'[o])
    BY <1>7, <1>0, <1>a, <2>2 DEF Cleared, Fields, Boots, Stops, StagesOK
  <2>4. QED
    BY <1>0, <1>1, <1>7, <2>1, <2>2, <2>3, Zenon DEF Cleared
<1>8. CASE CleanupFails(o)
  <2>1. own[o].failures + 1 \in 0..MaxFailures
    BY <1>8, <1>a, OwnerBounds DEF CleanupFails, Fields
  <2>2. PICK sv \in BOOLEAN :
          /\ own' = [own EXCEPT ![o].stop = "joining", ![o].failures = @ + 1,
                                ![o].server = sv]
          /\ sv => own[o].server
    BY <1>8, Zenon DEF CleanupFails
  <2> DEFINE r == [own[o] EXCEPT !.stop = "joining", !.failures = @ + 1, !.server = sv]
  <2>3. r \in Fields
    BY <1>a, <2>1, Zenon DEF Fields, Stops
  <2>4. StagesOK(r, holds[o])
    BY <1>8, <1>a, <2>2 DEF CleanupFails, Fields, StagesOK
  <2>5. holds' = holds /\ sock' = sock
    BY <1>8, HoldsKept DEF CleanupFails
  <2>6. QED
    BY <1>0, <1>1, <2>2, <2>3, <2>4, <2>5, Zenon
<1>9. CASE BeginRelease(o) \/ BeginClear(o)
  BY <1>0, <1>9, HoldsKept DEF BeginRelease, BeginClear, OwnerTypeOK
<1>10. CASE FenceHeartbeat(o)
  <2> DEFINE r == [own[o] EXCEPT !.stop = "fenced", !.timer = FALSE]
             st == IF holds[o] THEN "releasing" ELSE "clearing"
             q == [own[o] EXCEPT !.stop = st]
  <2>1. r \in Fields /\ q \in Fields
    BY <1>a, Zenon DEF Fields, Stops
  <2>2. holds' = holds /\ sock' = sock
    BY <1>10, HoldsKept DEF FenceHeartbeat
  <2>3. CASE own[o].stop = "fencing" /\ own' = [own EXCEPT ![o] = r]
    <3>1. StagesOK(r, holds[o])
      BY <1>a, <2>3 DEF Fields, StagesOK
    <3>2. QED
      BY <1>0, <1>1, <2>1, <2>2, <2>3, <3>1, Zenon
  <2>4. CASE /\ own[o].stop = "fenced" /\ own[o].renewals = 0
             /\ own' = [own EXCEPT ![o] = q]
    <3>1. StagesOK(q, holds[o])
      BY <1>a, <2>4 DEF Fields, StagesOK
    <3>2. QED
      BY <1>0, <1>1, <2>1, <2>2, <2>4, <3>1, Zenon
  <2>5. QED
    BY <1>10, <2>3, <2>4, Zenon DEF FenceHeartbeat
<1>11. QED
  BY <1>2, <1>3, <1>4, <1>5, <1>6, <1>7, <1>8, <1>9, <1>10 DEF StopStep

\* A live holder's renewal finds its own lease: it never stops the holder.
LEMMA HolderNotRefused ==
  ASSUME LeaseInv, NEW o \in Owner, Running(o, "heartbeat"), holds[o]
  PROVE  section.seen.owner = o
<1>1. Identity(lease) = ident[o] /\ ident[o].owner = o
  BY DEF LeaseInv, HolderIsOnDisk, IdentIsOwn, Running
<1>2. Identity(section.seen) = Identity(lease)
  BY DEF LeaseInv, SeenIsOnDisk, Locked, Running
<1>3. QED
  BY <1>1, <1>2 DEF Identity

\* Renewals, requests, frames and retirement keep the stages.
LEMMA ServiceKeepsStages ==
  ASSUME OwnerInv, NEW o \in Owner,
         \/ RenewStart(o) \/ BeginRenew(o) \/ Renewed(o)
         \/ Request(o) \/ WorkEnds(o) \/ Frame(o) \/ PumpStep(o)
         \/ Retire(o) \/ Retired(o) \/ Signal(o) \/ Crash(o)
  PROVE  OwnerTypeOK' /\ \A p \in Owner : StagesOK(own'[p], holds'[p])
<1> DEFINE Goal == OwnerTypeOK' /\ \A p \in Owner : StagesOK(own'[p], holds'[p])
<1>0. /\ own \in [Owner -> Fields] /\ sock \in Owner \cup {NoOwner}
      /\ \A p \in Owner : StagesOK(own[p], holds[p])
      /\ holds \in [Owner -> BOOLEAN]
  BY DEF OwnerInv, OwnerTypeOK, LeaseInv, LeaseTypeOK
<1>a. own[o] \in Fields /\ StagesOK(own[o], holds[o]) /\ holds[o] \in BOOLEAN
  BY <1>0
<1>1. ASSUME NEW r \in Fields, StagesOK(r, holds[o]),
             own' = [own EXCEPT ![o] = r], holds' = holds, sock' = sock
      PROVE  Goal
  BY <1>0, <1>1, UpdateKeepsStages, Zenon
<1>2. CASE RenewStart(o)
  <2> DEFINE r == [own[o] EXCEPT !.renewals = @ + 1]
  <2>1. r \in Fields /\ StagesOK(r, holds[o])
    BY <1>2, <1>a, OwnerBounds DEF RenewStart, Fields, StagesOK
  <2>2. QED
    BY <1>1, <1>2, <2>1, HoldsKept, Zenon DEF RenewStart
<1>3. CASE BeginRenew(o)
  BY <1>0, <1>3, HoldsKept DEF BeginRenew, OwnerTypeOK
<1>4. CASE Renewed(o)
  <2>1. holds' = holds /\ sock' = sock
    BY <1>4, HoldsKept DEF Renewed
  <2>2. own[o].renewals \in 1..MaxRenewals
    BY <1>4, <1>a, OwnerBounds DEF Renewed, Fields
  <2>3. ASSUME NEW st \in Stops,
               own' = [own EXCEPT ![o].renewals = @ - 1, ![o].stop = st],
               \/ st = own[o].stop
               \/ /\ own[o].stop = "no" /\ st = "joining"
                  /\ own[o].boot \in {"bound", "appending", "up", "failed"}
        PROVE  Goal
    <3> DEFINE r == [own[o] EXCEPT !.renewals = @ - 1, !.stop = st]
    <3>1. own[o].renewals - 1 \in 0..MaxRenewals
      BY <2>2, OwnerBounds
    <3>4. r \in Fields
      BY <1>a, <3>1, Zenon DEF Fields
    <3>2. StagesOK(r, holds[o])
      BY <1>a, <2>2, <2>3, OwnerBounds DEF Fields, StagesOK
    <3>3. QED
      BY <1>1, <2>1, <2>3, <3>2, <3>4, Zenon
  <2>4. CASE own' = [own EXCEPT ![o].renewals = @ - 1]
    <3>1. own' = [own EXCEPT ![o].renewals = @ - 1, ![o].stop = own[o].stop]
      BY <1>0, <2>4, Zenon DEF Fields
    <3>2. QED
      BY <1>a, <2>3, <3>1, Zenon DEF Fields
  <2>5. CASE /\ Running(o, "heartbeat") /\ Leave
             /\ own' = [own EXCEPT ![o].renewals = @ - 1,
                          ![o].stop = IF section.seen.owner = NoOwner
                                        THEN own[o].stop ELSE Stopping(o)]
    <3>1. section.seen.owner # o
      BY <2>5 DEF Leave, Refused, Running
    <3>2. ~holds[o]
      BY <2>5, <3>1, HolderNotRefused DEF OwnerInv
    <3>3. own[o].boot \in {"bound", "appending", "up", "failed"}
      BY <1>a, <2>2, <3>2 DEF StagesOK, Fields, Boots
    <3>4. QED
      BY <1>a, <2>3, <2>5, <3>3, Zenon DEF Stopping, Fields, Stops
  <2>6. QED
    BY <1>4, <2>4, <2>5 DEF Renewed
<1>5. CASE Request(o)
  <2> DEFINE r == [own[o] EXCEPT !.busy = TRUE]
  <2>1. r \in Fields /\ StagesOK(r, holds[o])
    BY <1>5, <1>a, Zenon DEF Request, Fields, StagesOK
  <2>2. QED
    BY <1>1, <1>5, <2>1, HoldsKept, Zenon DEF Request
<1>6. CASE WorkEnds(o)
  <2>1. PICK b \in BOOLEAN :
          own' = [own EXCEPT ![o].busy = FALSE, ![o].broken = b]
    BY <1>6, Zenon DEF WorkEnds
  <2> DEFINE r == [own[o] EXCEPT !.busy = FALSE, !.broken = b]
  <2>2. r \in Fields
    BY <1>a, Zenon DEF Fields
  <2>3. StagesOK(r, holds[o])
    BY <1>a DEF Fields, StagesOK
  <2>4. own' = [own EXCEPT ![o] = r]
    BY <1>0, <2>1, Zenon DEF OwnerTypeOK, Fields
  <2>5. QED
    BY <1>1, <1>6, <2>2, <2>3, <2>4, HoldsKept, Zenon DEF WorkEnds
<1>7. CASE Frame(o)
  <2> DEFINE r == [own[o] EXCEPT !.pumping = TRUE]
  <2>1. r \in Fields /\ StagesOK(r, holds[o])
    BY <1>a, Zenon DEF Fields, StagesOK
  <2>2. QED
    BY <1>1, <1>7, <2>1, HoldsKept, Zenon DEF Frame
<1>8. CASE PumpStep(o)
  <2> DEFINE r == [own[o] EXCEPT !.pumping = FALSE,
                     !.stop = IF @ = "draining" THEN "drained" ELSE @]
  <2>1. r \in Fields
    BY <1>a, Zenon DEF Fields, Stops
  <2>2. StagesOK(r, holds[o])
    BY <1>a DEF Fields, StagesOK
  <2>3. own' = [own EXCEPT ![o] = r]
    BY <1>0, <1>8, Zenon DEF PumpStep, OwnerTypeOK, Fields
  <2>4. QED
    BY <1>1, <1>8, <2>1, <2>2, <2>3, HoldsKept, Zenon DEF PumpStep
<1>9. CASE Retire(o) \/ Retired(o)
  <2>1. PICK rt \in {"joining", "done", "failed"}, st \in {own[o].stop, Stopping(o)} :
          /\ own' = [own EXCEPT ![o].retire = rt, ![o].stop = st]
          /\ UNCHANGED <<leaseVars, sock>>
          /\ own[o].server \/ own[o].retire # "no"
    BY <1>0, <1>9 DEF Retire, Reachable, Retired, Fields
  <2> DEFINE r == [own[o] EXCEPT !.retire = rt, !.stop = st]
  <2>2. r \in Fields
    BY <1>a, <2>1, Zenon DEF Fields, Stops, Stopping
  <2>4. StagesOK(r, holds[o])
    BY <1>a, <2>1 DEF Fields, Stops, Stopping, StagesOK
  <2>3. QED
    BY <1>1, <2>1, <2>2, <2>4, HoldsKept, Zenon
<1>10. CASE Signal(o)
  <2> DEFINE r == [own[o] EXCEPT !.stop = "joining"]
  <2>1. r \in Fields /\ StagesOK(r, holds[o])
    BY <1>a, <1>10 DEF Signal, Fields, Stops, StagesOK
  <2>2. QED
    BY <1>1, <1>10, <2>1, HoldsKept, Zenon DEF Signal
<1>11. CASE Crash(o)
  <2>1. Fresh \in Fields /\ StagesOK(Fresh, holds[o])
    BY OwnerBounds DEF Fresh, Fields, Boots, Stops, StagesOK
  <2>2. QED
    BY <1>1, <1>11, <2>1, Zenon DEF Crash, Die
<1>12. QED
  BY <1>2, <1>3, <1>4, <1>5, <1>6, <1>7, <1>8, <1>9, <1>10, <1>11

\* OwnerInv is inductive.
LEMMA OwnerStepKeepsInv == OwnerInv /\ [Next]_vars => OwnerInv'
<1> SUFFICES ASSUME OwnerInv, [Next]_vars PROVE OwnerInv'
  OBVIOUS
<1> DEFINE Goal == OwnerTypeOK' /\ \A p \in Owner : StagesOK(own'[p], holds'[p])
<1>0. /\ own \in [Owner -> Fields] /\ sock \in Owner \cup {NoOwner}
      /\ \A p \in Owner : StagesOK(own[p], holds[p])
  BY DEF OwnerInv, OwnerTypeOK
<1>1. LeaseInv'
  BY StepIsLeaseStep, StepKeepsInv DEF OwnerInv
<1>2. ASSUME NEW o \in Owner,
             \/ StartStep(o) \/ StopStep(o)
             \/ RenewStart(o) \/ BeginRenew(o) \/ Renewed(o)
             \/ Request(o) \/ WorkEnds(o) \/ Frame(o) \/ PumpStep(o)
             \/ Retire(o) \/ Retired(o) \/ Signal(o)
             \/ StartFails(o) \/ CleanupFails(o) \/ Crash(o)
      PROVE  Goal
  BY <1>2, StartKeepsStages, StopKeepsStages, ServiceKeepsStages
<1>3. ASSUME GarbageCollect \/ Environment PROVE Goal
  <2>1. own' = own /\ holds' = holds /\ sock' \in {sock, NoOwner}
    BY <1>3
       DEF GarbageCollect, Environment, GcRead, EnterReap, Enter, CommitReap,
           ReapSocket, leaseVars, Expire, Leave
  <2>2. QED
    BY <1>0, <2>1 DEF OwnerTypeOK
<1>4. ASSUME UNCHANGED vars PROVE Goal
  BY <1>0, <1>4 DEF vars, leaseVars, OwnerTypeOK
<1> HIDE DEF Goal
<1>5. Goal
  BY <1>2, <1>3, <1>4 DEF Next
<1> USE DEF Goal
<1>6. QED
  BY <1>1, <1>5 DEF OwnerInv

\* The stages of start and stop are as StagesOK says, for every set of owners.
THEOREM OwnerInvariant == Spec => []OwnerInv
<1>1. QED
  BY InitEstablishesStages, OwnerStepKeepsInv, PTL DEF Spec

\* The owners' records keep their types; in particular the count of renewals
\* under way never goes below zero (#heartbeatInFlight).
THEOREM OwnerTypes == Spec => []OwnerTypeOK
<1>1. OwnerInv => OwnerTypeOK
  BY DEF OwnerInv
<1>2. QED
  BY <1>1, OwnerInvariant, PTL

\* At most one live owner of a session listens for commands (#startOnce binds
\* after acquireLease, #stopOnce closes before releaseLease).
THEOREM AtMostOneListener == Spec => []OneListener
<1>1. OwnerInv => OneListener
  <2>1. SUFFICES ASSUME OwnerInv, NEW p \in alive, NEW q \in alive,
                        own[p].server, own[q].server
                 PROVE  p = q
    BY DEF OneListener
  <2>2. p \in Owner /\ q \in Owner
    BY <2>1 DEF OwnerInv, LeaseInv, LeaseTypeOK
  <2>3. holds[p] /\ holds[q]
    BY <2>1, <2>2 DEF OwnerInv, StagesOK
  <2>4. ident[p] = ident[q] /\ ident[p].owner = p /\ ident[q].owner = q
    BY <2>1, <2>2, <2>3 DEF OwnerInv, LeaseInv, HolderIsOnDisk, IdentIsOwn
  <2>5. QED
    BY <2>4
<1>2. QED
  BY <1>1, OwnerInvariant, PTL

\* When a live owner's lease goes, its child, endpoint, requests and renewals
\* are gone before it (#stopOnce).
THEOREM ReleaseIsLast == Spec => AuthorityClosedBeforeRelease
<1> DEFINE Closed == \A o \in alive : holds[o] /\ ~holds'[o] =>
             /\ ~own[o].child /\ ~own[o].server /\ ~own[o].busy
             /\ ~own[o].timer /\ own[o].renewals = 0
<1>1. ASSUME OwnerInv, Next PROVE Closed
  <2>1. SUFFICES ASSUME NEW o \in alive, holds[o], ~holds'[o]
                 PROVE  own[o].stop = "releasing"
    BY <1>1 DEF OwnerInv, LeaseInv, LeaseTypeOK, StagesOK
  <2>2. o \in Owner /\ holds \in [Owner -> BOOLEAN]
    BY <1>1, <2>1 DEF OwnerInv, LeaseInv, LeaseTypeOK
  <2>3. ~UNCHANGED holds
    BY <2>1
  <2>4. ASSUME NEW p \in Owner, StartStep(p) PROVE Acquired(p)
    BY <2>3, <2>4, HoldsKept
       DEF StartStep, BeginAcquire, AcquireRefused, BeginPublish, Published,
           Unlink, Bind, Announce, Append
  <2>5. ASSUME NEW p \in Owner, StopStep(p) PROVE Released(p)
    BY <2>3, <2>5, HoldsKept, SMTT(20)
       DEF StopStep, StopJoined, StopDrained, CloseTransport, CloseServer,
           FenceHeartbeat, BeginRelease, BeginClear, Cleared
  <2>6. ASSUME NEW p \in Owner,
               \/ RenewStart(p) \/ BeginRenew(p) \/ Renewed(p)
               \/ Request(p) \/ WorkEnds(p) \/ Frame(p) \/ PumpStep(p)
               \/ Retire(p) \/ Retired(p) \/ Signal(p)
               \/ StartFails(p) \/ CleanupFails(p) \/ Crash(p)
        PROVE  FALSE
    BY <2>3, <2>6, HoldsKept
       DEF RenewStart, BeginRenew, Renewed, Request, WorkEnds, Frame, PumpStep,
           Retire, Retired, Signal, StartFails, CleanupFails, Crash, Die
  <2>7. ~(GarbageCollect \/ Environment)
    BY <2>3
       DEF GarbageCollect, ReapSocket, GcRead, EnterReap, Enter, CommitReap,
           Environment, Expire, Leave, leaseVars
  <2>8. PICK p \in Owner : Acquired(p) \/ Released(p)
    BY <1>1, <2>4, <2>5, <2>6, <2>7 DEF Next
  <2>9. QED
    BY <2>1, <2>2, <2>8 DEF Acquired, Released, CommitAcquire, CommitRelease
<1>2. OwnerInv /\ [Next]_vars => [Closed]_vars
  BY <1>1
<1>3. QED
  BY <1>2, OwnerInvariant, PTL DEF Spec, AuthorityClosedBeforeRelease
=============================================================================
