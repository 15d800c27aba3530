---------------------------- MODULE RuntimeOwner ----------------------------
(***************************************************************************)
(* The life of RuntimeOwner processes (harness-control-plane/owner.ts with *)
(* control-endpoint.ts), composed with the lease they compete for: start,  *)
(* its rollback, heartbeats, requests, retirement, and the teardown that   *)
(* is retried until verified.  Every step that touches the lease is a step *)
(* of SessionLease; all owners of a session use one socket path.           *)
(*                                                                         *)
(* start() and stop() of one owner overlap: the endpoint accepts a retire  *)
(* as soon as listen() returns, while start is still announcing itself.    *)
(***************************************************************************)
EXTENDS SessionLease

CONSTANTS MaxRenewals,   \* bound: heartbeat renewals in flight per owner
          MaxFailures    \* bound: cleanup attempts that fail, per owner

ASSUME OwnerBounds == MaxRenewals \in Nat /\ MaxFailures \in Nat

VARIABLES own,    \* per owner, the fields of its RuntimeOwner object
          sock    \* whose server the socket file belongs to, or NoOwner

vars == <<leaseVars, own, sock>>

Boots == {"new", "acquiring", "publishing", "binding", "unlinked", "bound",
          "appending", "up", "failed"}
Stops == {"no", "joining", "draining", "drained", "closing", "unbinding",
          "fencing", "fenced", "releasing", "clearing", "done"}

\* boot, stop: where start() and #stopOnce are.  child: the transport is not
\* verified closed.  server: the endpoint listens; closed: #serverClosed.
\* timer: the heartbeat interval is armed and not fenced; renewals: the
\* size of #heartbeatInFlight.  busy: some retirement-sensitive or validation
\* request is active.  pumping: the frame pump is emitting.  retire:
\* #retirePromise.  broken: #validationStopFailure is set.
Fields ==
  [boot : Boots, stop : Stops, child : BOOLEAN, server : BOOLEAN,
   closed : BOOLEAN, timer : BOOLEAN, renewals : 0..MaxRenewals,
   busy : BOOLEAN, subscribed : BOOLEAN, pumping : BOOLEAN,
   retire : {"no", "joining", "done", "failed"}, broken : BOOLEAN,
   failures : 0..MaxFailures]

\* #runOwner creates the transport, child process included, before start().
Fresh ==
  [boot |-> "new", stop |-> "no", child |-> TRUE, server |-> FALSE,
   closed |-> FALSE, timer |-> FALSE, renewals |-> 0, busy |-> FALSE,
   subscribed |-> FALSE, pumping |-> FALSE, retire |-> "no", broken |-> FALSE,
   failures |-> 0]

Init ==
  /\ LeaseInit
  /\ own = [o \in Owner |-> Fresh]
  /\ sock = NoOwner

\* stop(): every caller shares the one #stopPromise.
Stopping(o) == IF own[o].stop = "no" THEN "joining" ELSE own[o].stop

\* start()'s catch: whatever step failed, roll back through stop().
Rollback(o) == [own EXCEPT ![o].boot = "failed", ![o].stop = Stopping(o)]
-----------------------------------------------------------------------------
(* #startOnce *)

BeginAcquire(o) ==
  /\ own[o].boot = "new" /\ own[o].stop = "no"
  /\ EnterAcquire(o)
  /\ own' = [own EXCEPT ![o].boot = "acquiring"]
  /\ UNCHANGED sock

Acquired(o) ==
  /\ own[o].boot = "acquiring"
  /\ CommitAcquire(o)
  /\ own' = [own EXCEPT ![o].boot = "publishing"]
  /\ UNCHANGED sock

AcquireRefused(o) ==
  /\ Running(o, "acquire") /\ Leave
  /\ own' = Rollback(o)
  /\ UNCHANGED sock

BeginPublish(o) ==
  /\ own[o].boot = "publishing"
  /\ EnterPublish(o)
  /\ UNCHANGED <<own, sock>>

\* publishOwnerSocketRecord swallows its errors, a lock timeout included;
\* afterwards the heartbeat interval is armed.
Published(o) ==
  /\ own[o].boot = "publishing" /\ o \in alive
  /\ \/ CommitPublish(o)
     \/ Running(o, "publish") /\ Leave
     \/ ~Running(o, "publish") /\ UNCHANGED leaseVars
  /\ own' = [own EXCEPT ![o].boot = "binding", ![o].timer = TRUE]
  /\ UNCHANGED sock

\* ControlServer.listen: remove the socket file, then bind.
Unlink(o) ==
  /\ own[o].boot = "binding" /\ o \in alive
  /\ sock' = NoOwner
  /\ own' = [own EXCEPT ![o].boot = "unlinked"]
  /\ UNCHANGED leaseVars

Bind(o) ==
  /\ own[o].boot = "unlinked" /\ o \in alive
  /\ sock = NoOwner
  /\ sock' = o
  /\ own' = [own EXCEPT ![o].boot = "bound", ![o].server = TRUE]
  /\ UNCHANGED leaseVars

\* Mutant: an emit that waits for the lease to be fresh instead of returning.
AnnounceWaits(o) ==
  /\ own[o].boot = "bound" /\ o \in alive
  /\ CanWriteEvents(lease, o)
  /\ own' = [own EXCEPT ![o].boot = "appending"]
  /\ UNCHANGED <<leaseVars, sock>>

\* #emit("owner_started"): the single-writer guard reads the lease ...
Announce(o) ==
  /\ own[o].boot = "bound" /\ o \in alive
  /\ own' = IF CanWriteEvents(lease, o)
              THEN [own EXCEPT ![o].boot = "appending"]
              ELSE [own EXCEPT ![o].boot = "up", ![o].subscribed = TRUE]
  /\ UNCHANGED <<leaseVars, sock>>

\* ... and the event is appended later; then start subscribes to frames.
Append(o) ==
  /\ own[o].boot = "appending" /\ o \in alive
  /\ own' = [own EXCEPT ![o].boot = "up", ![o].subscribed = TRUE]
  /\ UNCHANGED <<leaseVars, sock>>

\* readEvents, the lock, listen or the append throws.
StartFails(o) ==
  /\ own[o].boot \in {"new", "binding", "unlinked", "bound", "appending"}
  /\ o \in alive
  /\ own' = Rollback(o)
  /\ UNCHANGED <<leaseVars, sock>>
-----------------------------------------------------------------------------
(* Heartbeats, requests and frames *)

RenewStart(o) ==
  /\ own[o].timer /\ o \in alive
  /\ own[o].renewals < MaxRenewals
  /\ own' = [own EXCEPT ![o].renewals = @ + 1]
  /\ UNCHANGED <<leaseVars, sock>>

BeginRenew(o) ==
  /\ own[o].renewals > 0
  /\ EnterHeartbeat(o)
  /\ UNCHANGED <<own, sock>>

\* A renewal settles: it renewed, it was refused (not_lease_holder stops the
\* owner, no_lease does not), or it timed out on the lock.
Renewed(o) ==
  /\ own[o].renewals > 0 /\ o \in alive
  /\ \/ /\ CommitHeartbeat(o)
        /\ own' = [own EXCEPT ![o].renewals = @ - 1]
     \/ /\ Running(o, "heartbeat") /\ Leave
        /\ own' = [own EXCEPT ![o].renewals = @ - 1,
                     ![o].stop = IF section.seen.owner = NoOwner
                                   THEN own[o].stop ELSE Stopping(o)]
     \/ /\ Running(o, "heartbeat") => own[o].renewals > 1
        /\ own' = [own EXCEPT ![o].renewals = @ - 1]
        /\ UNCHANGED leaseVars
  /\ UNCHANGED sock

\* A client reaches the endpoint that the socket file leads to.
Reachable(o) == o \in alive /\ own[o].server /\ sock = o

Request(o) ==
  /\ Reachable(o)
  /\ own[o].stop = "no" /\ own[o].retire = "no"
  /\ own' = [own EXCEPT ![o].busy = TRUE]
  /\ UNCHANGED <<leaseVars, sock>>

\* The last active request ends.  Aborted validation that fails with anything
\* but an uncertain observation leaves #validationStopFailure behind.
WorkEnds(o) ==
  /\ o \in alive /\ own[o].busy
  /\ \E b \in BOOLEAN :
       own' = [own EXCEPT ![o].busy = FALSE, ![o].broken = @ \/ b]
  /\ UNCHANGED <<leaseVars, sock>>

Frame(o) ==
  /\ o \in alive /\ own[o].subscribed /\ own[o].child /\ ~own[o].pumping
  /\ own' = [own EXCEPT ![o].pumping = TRUE]
  /\ UNCHANGED <<leaseVars, sock>>

PumpStep(o) ==
  /\ o \in alive /\ own[o].pumping
  /\ own' = [own EXCEPT ![o].pumping = FALSE,
               ![o].stop = IF @ = "draining" THEN "drained" ELSE @]
  /\ UNCHANGED <<leaseVars, sock>>
-----------------------------------------------------------------------------
(* #retire and #stopOnce *)

Retire(o) ==
  /\ Reachable(o)
  /\ own[o].stop = "no" /\ own[o].retire = "no"
  /\ own' = [own EXCEPT ![o].retire = "joining"]
  /\ UNCHANGED <<leaseVars, sock>>

\* #retireOnce joins the active work and then commits; its promise is kept
\* whatever becomes of it, and only success goes on to stop().
Retired(o) ==
  /\ o \in alive /\ own[o].retire = "joining" /\ ~own[o].busy
  /\ \/ /\ ~own[o].broken
        /\ own' = [own EXCEPT ![o].retire = "done", ![o].stop = Stopping(o)]
     \/ own' = [own EXCEPT ![o].retire = "failed"]
  /\ UNCHANGED <<leaseVars, sock>>

\* SIGTERM and SIGINT reach stop() once start() has returned.
Signal(o) ==
  /\ o \in alive /\ own[o].boot = "up" /\ own[o].stop = "no"
  /\ own' = [own EXCEPT ![o].stop = "joining"]
  /\ UNCHANGED <<leaseVars, sock>>

\* `await this.#framePump` waits for the pump as it is at that moment.
DrainPump(o) == IF own[o].pumping THEN "draining" ELSE "drained"

\* Mutant: stop tears down without joining the active work.
StopJoinedEarly(o) ==
  /\ o \in alive /\ own[o].stop = "joining"
  /\ own[o].retire \in {"no", "done"} /\ ~own[o].broken
  /\ own' = [own EXCEPT ![o].stop = DrainPump(o), ![o].subscribed = FALSE]
  /\ UNCHANGED <<leaseVars, sock>>

\* Retirement, validation and requests are joined, frames unsubscribed.  A
\* rejected #retirePromise or a validation failure throws here every time.
StopJoined(o) ==
  /\ o \in alive /\ own[o].stop = "joining"
  /\ own[o].retire \in {"no", "done"} /\ ~own[o].broken /\ ~own[o].busy
  /\ own' = [own EXCEPT ![o].stop = DrainPump(o), ![o].subscribed = FALSE]
  /\ UNCHANGED <<leaseVars, sock>>

\* Stages verified by an earlier attempt are not repeated.
StopDrained(o) ==
  /\ o \in alive /\ own[o].stop = "drained"
  /\ own' = [own EXCEPT ![o].stop = IF own[o].child THEN "closing"
                                    ELSE IF own[o].closed THEN "fencing"
                                    ELSE "unbinding"]
  /\ UNCHANGED <<leaseVars, sock>>

\* Mutant: the endpoint is left open once the child is gone.
CloseTransportOnly(o) ==
  /\ o \in alive /\ own[o].stop = "closing"
  /\ own' = [own EXCEPT ![o].stop = "fencing", ![o].child = FALSE]
  /\ UNCHANGED <<leaseVars, sock>>

CloseTransport(o) ==
  /\ o \in alive /\ own[o].stop = "closing"
  /\ own' = [own EXCEPT ![o].stop = "unbinding", ![o].child = FALSE]
  /\ UNCHANGED <<leaseVars, sock>>

\* ControlServer.close removes the socket file, whether or not it ever bound.
CloseServer(o) ==
  /\ o \in alive /\ own[o].stop = "unbinding"
  /\ sock' = NoOwner
  /\ own' = [own EXCEPT ![o].stop = "fencing", ![o].server = FALSE,
                        ![o].closed = TRUE]
  /\ UNCHANGED leaseVars

\* Mutant: the renewals in flight are awaited, but new ones may still start.
FenceUnfenced(o) ==
  /\ o \in alive
  /\ \/ /\ own[o].stop = "fencing"
        /\ own' = [own EXCEPT ![o].stop = "fenced"]
     \/ /\ own[o].stop = "fenced" /\ own[o].renewals = 0
        /\ own' = [own EXCEPT ![o].stop =
                                IF holds[o] THEN "releasing" ELSE "clearing"]
  /\ UNCHANGED <<leaseVars, sock>>

\* #fenceHeartbeat: no new renewal, then every started one settles.
FenceHeartbeat(o) ==
  /\ o \in alive
  /\ \/ /\ own[o].stop = "fencing"
        /\ own' = [own EXCEPT ![o].stop = "fenced", ![o].timer = FALSE]
     \/ /\ own[o].stop = "fenced" /\ own[o].renewals = 0
        /\ own' = [own EXCEPT ![o].stop =
                                IF holds[o] THEN "releasing" ELSE "clearing"]
  /\ UNCHANGED <<leaseVars, sock>>

BeginRelease(o) ==
  /\ own[o].stop = "releasing"
  /\ EnterRelease(o)
  /\ UNCHANGED <<own, sock>>

Released(o) ==
  /\ own[o].stop = "releasing"
  /\ CommitRelease(o)
  /\ own' = [own EXCEPT ![o].stop = "clearing"]
  /\ UNCHANGED sock

BeginClear(o) ==
  /\ own[o].stop = "clearing"
  /\ EnterClear(o)
  /\ UNCHANGED <<own, sock>>

\* The record is cleared, or is not ours, or never was, or the lock timed out.
Cleared(o) ==
  /\ own[o].stop = "clearing" /\ o \in alive
  /\ \/ CommitClear(o)
     \/ Running(o, "clear") /\ Leave
     \/ ~Running(o, "clear") /\ UNCHANGED leaseVars
  /\ own' = [own EXCEPT ![o].stop = "done"]
  /\ UNCHANGED sock

\* The child's exit is not verified, the socket file cannot be removed, or the
\* release times out on the lock: #stopUntilVerified starts over.
CleanupFails(o) ==
  /\ o \in alive /\ own[o].stop \in {"closing", "unbinding", "releasing"}
  /\ ~Running(o, "release")
  /\ own[o].failures < MaxFailures
  /\ own' = [own EXCEPT ![o].stop = "joining", ![o].failures = @ + 1,
               ![o].server = @ /\ own[o].stop # "unbinding"]
  /\ UNCHANGED <<leaseVars, sock>>
-----------------------------------------------------------------------------
\* reapDeadOwnerArtifacts removes the socket file, then the lease, in one
\* critical section.
ReapSocket ==
  /\ section.op = "reap"
  /\ section.seen.owner = gcSeen.owner /\ section.seen.epoch = gcSeen.epoch
  /\ ClassifyLeaseStatus(section.seen, section.pid) = "dead"
  /\ sock' = NoOwner
  /\ UNCHANGED <<leaseVars, own>>

GarbageCollect ==
  \/ /\ GcRead \/ EnterReap \/ (CommitReap /\ sock = NoOwner)
     /\ UNCHANGED <<own, sock>>
  \/ ReapSocket

Environment ==
  /\ \/ Expire
     \/ Leave /\ (section.op = "reap" \/ section.by \notin alive)
  /\ UNCHANGED <<own, sock>>

\* A process dies, and its RuntimeOwner with it; its socket file stays.
Crash(o) ==
  /\ Die(o)
  /\ own' = [own EXCEPT ![o] = Fresh]
  /\ UNCHANGED sock

StartStep(o) ==
  \/ BeginAcquire(o) \/ Acquired(o) \/ AcquireRefused(o)
  \/ BeginPublish(o) \/ Published(o) \/ Unlink(o) \/ Bind(o)
  \/ Announce(o) \/ Append(o)

StopStep(o) ==
  \/ StopJoined(o) \/ StopDrained(o) \/ CloseTransport(o) \/ CloseServer(o)
  \/ FenceHeartbeat(o) \/ BeginRelease(o) \/ Released(o)
  \/ BeginClear(o) \/ Cleared(o)

Next ==
  \/ \E o \in Owner :
       \/ StartStep(o) \/ StopStep(o)
       \/ RenewStart(o) \/ BeginRenew(o) \/ Renewed(o)
       \/ Request(o) \/ WorkEnds(o) \/ Frame(o) \/ PumpStep(o)
       \/ Retire(o) \/ Retired(o) \/ Signal(o)
       \/ StartFails(o) \/ CleanupFails(o) \/ Crash(o)
  \/ GarbageCollect
  \/ Environment

Spec == Init /\ [][Next]_vars

\* What the event loop owes a process that lives: each started piece of work
\* ends (validation is aborted, submits have a deadline), each renewal and each
\* critical section settles, start and stop go on.  Nothing obliges clients,
\* signals, deaths or failures to happen.
Fairness ==
  /\ \A o \in Owner :
       /\ WF_vars(StartStep(o)) /\ WF_vars(StopStep(o))
       /\ WF_vars(Renewed(o)) /\ WF_vars(WorkEnds(o)) /\ WF_vars(PumpStep(o))
       /\ WF_vars(Retired(o))
  /\ WF_vars(Leave /\ UNCHANGED <<own, sock>>)

FairSpec == Spec /\ Fairness
-----------------------------------------------------------------------------
\* The types of the owners' fields and of the socket file.
OwnerTypeOK == own \in [Owner -> Fields] /\ sock \in Owner \cup {NoOwner}

\* At most one live owner of the session listens for commands: an owner binds
\* only after acquireLease and its endpoint is closed before releaseLease
\* (#startOnce, #stopOnce).
OneListener ==
  \A p, q \in alive : own[p].server /\ own[q].server => p = q

\* "Do not surrender the lease while it is unverified" (owner.ts:1131): when a
\* live owner's lease goes, its child is gone, its endpoint closed, its
\* requests and validations joined, and no renewal is running or can start,
\* through any number of failed cleanup attempts.
AuthorityClosedBeforeRelease ==
  [][\A o \in alive : holds[o] /\ ~holds'[o] =>
       /\ ~own[o].child /\ ~own[o].server /\ ~own[o].busy
       /\ ~own[o].timer /\ own[o].renewals = 0]_vars

\* Every stop() of an owner that stays alive finishes, after finitely many
\* failed attempts -- unless its retirement or an aborted validation failed,
\* which #stopOnce rethrows on every attempt.
StopCompletes ==
  \A o \in Owner :
    own[o].stop # "no" ~> \/ own[o].stop = "done" \/ o \notin alive
                          \/ own[o].broken \/ own[o].retire = "failed"

\* Every start() settles: the owner is up, or has begun to roll back.
StartSettles ==
  \A o \in Owner :
    own[o].boot = "acquiring" ~> own[o].boot \in {"up", "failed"} \/ o \notin alive

\* owner.ts:402, "Single-writer guard: only emit while we still hold a live
\* lease": nothing of an owner still writes events once it released the lease.
NoWriterAfterRelease ==
  \A o \in alive :
    own[o].stop \in {"clearing", "done"} =>
      own[o].boot # "appending" /\ ~own[o].pumping

\* owner.ts:1227, "Owner process alive [...] => endpoint reachable => routable":
\* the socket file leads to the owner that is up and was not asked to stop.
LiveOwnerReachable ==
  \A o \in alive : own[o].boot = "up" /\ own[o].stop = "no" => sock = o
=============================================================================
