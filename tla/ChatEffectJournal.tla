-------------------------- MODULE ChatEffectJournal --------------------------
(***************************************************************************)
(* ChatEffectJournal (sdk/bus/chat-effect-journal.ts): the durable record  *)
(* of one chat effect and the transactions on it.  A transaction runs      *)
(* under the store's lock, so each is one operator from the record to the  *)
(* record; a transaction that does not apply leaves it alone.              *)
(*                                                                         *)
(* Time is abstract: live says that leaseExpiresAt lies in the future.     *)
(* wire is no field of the record: it tells, for the properties, that the  *)
(* effect was put on the wire since it was enqueued.                       *)
(***************************************************************************)
EXTENDS Naturals

CONSTANTS Daemon,     \* publicationOwnerId of the daemons
          NoDaemon

ASSUME JournalAssumption == NoDaemon \notin Daemon

States == {"none", "pending", "leased", "dispatching", "accepted", "uncertain",
           "terminal"}
Receipts == {"none", "sent", "stale", "rejected", "accepted", "uncertain"}

Effect == [state : States, owner : Daemon \cup {NoDaemon}, epoch : Nat,
           live : BOOLEAN, receipt : Receipts, wire : BOOLEAN]

Absent == [state |-> "none", owner |-> NoDaemon, epoch |-> 0, live |-> FALSE,
           receipt |-> "none", wire |-> FALSE]

\* Mutant: a redelivered event starts over.
EnqueueAfresh(e) == [Absent EXCEPT !.state = "pending"]

\* enqueue: an effect that is there is returned as it is.
Enqueue(e) == IF e.state = "none" THEN [e EXCEPT !.state = "pending"] ELSE e

\* Mutant: a dispatch whose lease has run out is claimed again.
CanClaimDispatching(e) ==
  \/ e.state \in {"pending", "accepted"}
  \/ e.state \in {"leased", "dispatching"} /\ ~e.live

\* canClaim, for the kinds "sdk.inbound.*"
CanClaim(e) ==
  \/ e.state \in {"pending", "accepted"}
  \/ e.state = "leased" /\ ~e.live

Claim(e, d) ==
  IF CanClaim(e)
  THEN [e EXCEPT !.state = "leased", !.owner = d, !.epoch = @ + 1, !.live = TRUE]
  ELSE e

\* owner and epoch of the record are those of the lease
Holds(e, d, ep) == e.owner = d /\ e.epoch = ep

Leased(e, d, ep) == e.state \in {"leased", "dispatching"} /\ Holds(e, d, ep)

Renew(e, d, ep) == IF Leased(e, d, ep) THEN [e EXCEPT !.live = TRUE] ELSE e

CanMark(e, d, ep) == e.state = "leased" /\ Holds(e, d, ep)

MarkDispatching(e, d, ep) ==
  IF CanMark(e, d, ep) THEN [e EXCEPT !.state = "dispatching"] ELSE e

\* ownsDispatching, and the check of dispatchWithLeaseFence
OwnsDispatching(e, d, ep) ==
  e.state = "dispatching" /\ Holds(e, d, ep) /\ e.live

Settled(e, s, r) ==
  [e EXCEPT !.state = s, !.owner = NoDaemon, !.live = FALSE, !.receipt = r]

\* recoverDispatchingAsUncertain with onlyIfExpired
CanRecover(e) == e.state = "dispatching" /\ ~e.live

RecoverAsUncertain(e) ==
  IF CanRecover(e) THEN Settled(e, "uncertain", "uncertain") ELSE e

Record(e, d, ep, s, r) == IF Leased(e, d, ep) THEN Settled(e, s, r) ELSE e

\* terminalizeDecided: an uncertain effect is left alone, and one that is
\* leased or dispatching needs its lease.  ep is 0 for a call without a lease.
CanTerminalize(e, d, ep) ==
  /\ e.state \notin {"none", "uncertain", "terminal"}
  /\ e.state \in {"leased", "dispatching"} => Holds(e, d, ep)

TerminalizeDecided(e, d, ep, r) ==
  IF CanTerminalize(e, d, ep) THEN Settled(e, "terminal", r) ELSE e
=============================================================================
