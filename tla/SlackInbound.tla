---------------------------- MODULE SlackInbound ----------------------------
(***************************************************************************)
(* The inbound half of the Slack daemon (sdk/bus/slack-daemon.ts): one     *)
(* message a user writes in the thread of a session, from its Socket Mode  *)
(* envelope to the session.  Several daemon processes share the effect     *)
(* journal and the conversation store; in each, an envelope handler, the   *)
(* recovery drain and the retirement of the attachment run interleaved.    *)
(* Every await that reads or writes shared state ends a step.              *)
(***************************************************************************)
EXTENDS ChatEffectJournal

CONSTANTS Receivers,      \* the daemons Slack delivers envelopes to
          MaxEnvelopes,   \* deliveries of the event, redeliveries included
          MaxFaults       \* crashes, stalls, failed sends, detachments

ASSUME BoundAssumption ==
  Receivers \subseteq Daemon /\ MaxEnvelopes \in Nat /\ MaxFaults \in Nat

Role == {"handle", "drain", "retire"}

VARIABLES eff,        \* the journal's record of the effect
          map,        \* the conversation: active, its receipt, its seen ids
          up,         \* per daemon: "up", "stopping" or "down"
          att,        \* per daemon: the router has a current attachment
          job,        \* per daemon and role: the asynchronous call under way
          sent,       \* times the message was put on the wire
          acked,      \* the envelope was acknowledged with the effect accepted
          envelopes, faults

vars == <<eff, map, up, att, job, sent, acked, envelopes, faults>>

Places ==
  {"idle", "enqueue", "admit", "ack", "look", "claim", "enter", "mark",
   "recheck", "send", "sent", "fenced", "record", "finish", "accept", "release",
   "doubt", "finish uncertain", "term", "reclaim", "decide", "final", "drain",
   "recover", "orphan", "adopt", "adopted", "detached", "close", "draining",
   "linger"}

(* at: where the call is; ep: the epoch of its lease; tep: that of the      *)
(* lease terminalizeInboundEffect took, 0 for none; cap: the attachment it  *)
(* captured is still current; inflight: it is in #inflightInbound; snap:    *)
(* what it read last; then: where it goes on after terminalizeInboundEffect *)
(* or its fence; settle: what invalidate or terminalize of its work still   *)
(* has to do.                                                               *)
Job == [at : Places, ep : Nat, tep : Nat, cap : BOOLEAN, inflight : BOOLEAN,
        snap : {"none", "open", "closed", "receipt", "leased"},
        then : {"idle", "final", "linger", "stale", "accept", "doubt"},
        settle : {"no", "uncertain", "decide", "decide again", "done"}]

Idle == [at |-> "idle", ep |-> 0, tep |-> 0, cap |-> FALSE, inflight |-> FALSE,
         snap |-> "none", then |-> "idle", settle |-> "no"]

SlackTypeOK ==
  /\ eff \in Effect
  /\ map \in [open : BOOLEAN, receipt : BOOLEAN, seen : BOOLEAN]
  /\ up \in [Daemon -> {"up", "stopping", "down"}]
  /\ att \in [Daemon -> BOOLEAN]
  /\ job \in [Daemon -> [Role -> Job]]
  /\ acked \in BOOLEAN
  /\ sent \in Nat /\ envelopes \in 0..MaxEnvelopes /\ faults \in 0..MaxFaults

Init ==
  /\ eff = Absent
  /\ map = [open |-> TRUE, receipt |-> FALSE, seen |-> FALSE]
  /\ up = [d \in Daemon |-> "up"]
  /\ att = [d \in Daemon |-> TRUE]
  /\ job = [d \in Daemon |-> [r \in Role |-> Idle]]
  /\ sent = 0 /\ acked = FALSE /\ envelopes = 0 /\ faults = 0

-----------------------------------------------------------------------------
(* What a call can see *)

\* the calls registered in #workInvalidators
Working(d, r) ==
  job[d][r].at \in {"enter", "mark", "recheck", "send", "sent", "fenced"}

Settling(d, r) == job[d][r].settle \notin {"no", "done"}

InflightInbound(d) == \E r \in Role : job[d][r].inflight

\* #retiredProviderWorkScopes and, within it, #retiringAttachmentGenerations
RetiredScope(d) == job[d]["retire"].at \notin {"idle", "detached"}

\* inboundEffectCurrent
EffectCurrent(d) ==
  ~RetiredScope(d) /\ att[d] /\ map.open /\ map.receipt /\ eff.state # "none"

\* inboundEffectAdmitted
Admitted(d, r) == job[d][r].cap /\ ~RetiredScope(d)

Mapping == IF map.open THEN "open" ELSE "closed"

Set(d, r, j) == job' = [job EXCEPT ![d][r] = j]

Go(d, r, place) == Set(d, r, [job[d][r] EXCEPT !.at = place])

\* what a call that is done with its lease leaves: the work still to settle
Residue(j) == IF j.settle \in {"no", "done"} THEN Idle
              ELSE [Idle EXCEPT !.ep = j.ep, !.settle = j.settle]

\* the end of the call, or of retireAttachment
End(d, r) ==
  Set(d, r, [Residue(job[d][r]) EXCEPT !.at = IF r = "retire" THEN "linger" ELSE "idle"])

\* terminalizeInboundEffect, then place if the effect is terminal
Terminate(d, r, place) ==
  Set(d, r, [Residue(job[d][r]) EXCEPT !.at = "term", !.then = place,
                                       !.inflight = job[d][r].inflight])

\* An error inside withEffectLease: under a retired scope the work is
\* terminalized first and the error becomes a stale one.
Throw(d, r, kind) ==
  IF RetiredScope(d)
  THEN Set(d, r, [job[d][r] EXCEPT !.at = "fenced", !.then = "stale"])
  ELSE IF kind = "stale" THEN Terminate(d, r, "final")
  ELSE Go(d, r, kind)

\* ensureLive, then place if the effect is still good; kind is what an error
\* of ensureLive leads to
EnsureLive(d, r, place, kind, good) ==
  \/ /\ RetiredScope(d) \/ job[d][r].settle # "no"
     /\ Set(d, r, [job[d][r] EXCEPT !.at = "fenced",
                                    !.then = IF RetiredScope(d) THEN "stale" ELSE kind])
     /\ UNCHANGED eff
  \/ /\ ~RetiredScope(d) /\ job[d][r].settle = "no"
     /\ eff' = Renew(eff, d, job[d][r].ep)
     /\ IF ~Leased(eff, d, job[d][r].ep) THEN Go(d, r, kind)
        ELSE IF good THEN Go(d, r, place)
        ELSE Terminate(d, r, "final")

At(d, r, place) == up[d] # "down" /\ job[d][r].at = place

-----------------------------------------------------------------------------
(* handleEnvelope and claimInbound *)

\* Mutant: the envelope is acknowledged before anything is durable.
HandleEnvelopeAcked(d) ==
  /\ d \in Receivers /\ up[d] = "up" /\ At(d, "handle", "idle") /\ ~Settling(d, "handle")
  /\ envelopes < MaxEnvelopes
  /\ map.open /\ att[d]
  /\ Set(d, "handle", [Idle EXCEPT !.at = "enqueue", !.cap = TRUE])
  /\ envelopes' = envelopes + 1 /\ acked' = TRUE
  /\ UNCHANGED <<eff, map, up, att, sent, faults>>

\* The conversation accepts inbound messages and the attachment resolves.
HandleEnvelope(d) ==
  /\ d \in Receivers /\ up[d] = "up" /\ At(d, "handle", "idle") /\ ~Settling(d, "handle")
  /\ envelopes < MaxEnvelopes
  /\ map.open /\ att[d]
  /\ Set(d, "handle", [Idle EXCEPT !.at = "enqueue", !.cap = TRUE])
  /\ envelopes' = envelopes + 1
  /\ UNCHANGED <<eff, map, up, att, sent, acked, faults>>

EnqueueEffect(d) ==
  /\ At(d, "handle", "enqueue")
  /\ eff' = Enqueue(eff)
  /\ Go(d, "handle", "admit")
  /\ UNCHANGED <<map, up, att, sent, acked, envelopes, faults>>

\* A receipt that is there is used; an event that was seen gets none.
Admit(d) ==
  /\ At(d, "handle", "admit")
  /\ IF map.open /\ (map.receipt \/ ~map.seen)
     THEN map' = [map EXCEPT !.receipt = TRUE] /\ Go(d, "handle", "ack")
     ELSE UNCHANGED map /\ Terminate(d, "handle", "idle")
  /\ UNCHANGED <<eff, up, att, sent, acked, envelopes, faults>>

Ack(d) ==
  /\ At(d, "handle", "ack")
  /\ acked' = TRUE
  /\ IF InflightInbound(d)
     THEN End(d, "handle")
     ELSE Set(d, "handle", [job[d]["handle"] EXCEPT !.at = "look", !.inflight = TRUE])
  /\ UNCHANGED <<eff, map, up, att, sent, envelopes, faults>>

-----------------------------------------------------------------------------
(* dispatchInbound and dispatchEffect *)

Look(d, r) ==
  /\ At(d, r, "look")
  /\ IF eff.state = "terminal" THEN Go(d, r, "final")
     ELSE IF eff.state = "uncertain" THEN End(d, r)
     ELSE IF eff.state = "none" \/ ~map.open THEN Terminate(d, r, "final")
     ELSE Go(d, r, "claim")
  /\ UNCHANGED <<eff, map, up, att, sent, acked, envelopes, faults>>

ClaimEffect(d, r) ==
  /\ At(d, r, "claim")
  /\ eff' = Claim(eff, d)
  /\ IF CanClaim(eff)
     THEN Set(d, r, [job[d][r] EXCEPT !.at = "enter", !.ep = eff.epoch + 1])
     ELSE End(d, r)
  /\ UNCHANGED <<map, up, att, sent, acked, envelopes, faults>>

\* ensureLive, and the checks before markDispatching
Enter(d, r) ==
  /\ At(d, r, "enter")
  /\ EnsureLive(d, r, "mark", "accept", EffectCurrent(d) /\ Admitted(d, r))
  /\ UNCHANGED <<map, up, att, sent, acked, envelopes, faults>>

Mark(d, r) ==
  /\ At(d, r, "mark")
  /\ eff' = MarkDispatching(eff, d, job[d][r].ep)
  /\ IF CanMark(eff, d, job[d][r].ep) THEN Go(d, r, "recheck") ELSE Throw(d, r, "accept")
  /\ UNCHANGED <<map, up, att, sent, acked, envelopes, faults>>

Recheck(d, r) ==
  /\ At(d, r, "recheck")
  /\ IF EffectCurrent(d) /\ Admitted(d, r) /\ OwnsDispatching(eff, d, job[d][r].ep)
     THEN Go(d, r, "send")
     ELSE Throw(d, r, "stale")
  /\ UNCHANGED <<eff, map, up, att, sent, acked, envelopes, faults>>

\* durableDispatchBoundary: under the locks of the conversation and of the
\* journal, and in the step that writes the frame, all is checked once more.
Boundary(d, r) ==
  /\ map.open /\ map.receipt
  /\ OwnsDispatching(eff, d, job[d][r].ep)
  /\ Admitted(d, r)

SendFrame(d, r) ==
  /\ At(d, r, "send")
  /\ IF Boundary(d, r)
     THEN /\ sent' = sent + 1
          /\ eff' = [eff EXCEPT !.wire = TRUE]
          /\ Go(d, r, "sent")
     ELSE UNCHANGED <<sent, eff>> /\ Throw(d, r, "stale")
  /\ UNCHANGED <<map, up, att, acked, envelopes, faults>>

\* A failure the router vouches for: nothing was written.
PreSendFailure(d, r) ==
  /\ At(d, r, "send")
  /\ faults < MaxFaults /\ faults' = faults + 1
  /\ Throw(d, r, "accept")
  /\ UNCHANGED <<eff, map, up, att, sent, acked, envelopes>>

LoseResponse(d, r) ==
  /\ At(d, r, "sent")
  /\ faults < MaxFaults /\ faults' = faults + 1
  /\ Throw(d, r, "doubt")
  /\ UNCHANGED <<eff, map, up, att, sent, acked, envelopes>>

\* the response, the last ensureLive and the check that follows it
Respond(d, r) ==
  /\ At(d, r, "sent")
  /\ EnsureLive(d, r, "record", "doubt", EffectCurrent(d))
  /\ UNCHANGED <<map, up, att, sent, acked, envelopes, faults>>

\* record: the outcome, then what is done to the conversation; a lease that
\* was lost ends the call.
RecordOutcome(d, r, place, state, receipt, next) ==
  /\ At(d, r, place)
  /\ eff' = Record(eff, d, job[d][r].ep, state, receipt)
  /\ IF Leased(eff, d, job[d][r].ep) THEN Go(d, r, next) ELSE End(d, r)
  /\ UNCHANGED <<map, up, att, sent, acked, envelopes, faults>>

RecordSent(d, r) == RecordOutcome(d, r, "record", "terminal", "sent", "finish")

RecordAccepted(d, r) == RecordOutcome(d, r, "accept", "accepted", "accepted", "release")

RecordUncertain(d, r) ==
  RecordOutcome(d, r, "doubt", "uncertain", "uncertain", "finish uncertain")

\* finishDispatch, releaseDispatch and finalizeTerminalInboundDispatch; only
\* the last one still works on a closed conversation.
Complete(d, r, place, active, seen, terminal) ==
  /\ At(d, r, place)
  /\ IF map.receipt /\ (active => map.open)
     THEN map' = [map EXCEPT !.receipt = ~terminal, !.seen = @ \/ seen]
     ELSE UNCHANGED map
  /\ End(d, r)
  /\ UNCHANGED <<eff, up, att, sent, acked, envelopes, faults>>

FinishDispatch(d, r) == Complete(d, r, "finish", TRUE, TRUE, TRUE)

FinishUncertain(d, r) == Complete(d, r, "finish uncertain", TRUE, TRUE, FALSE)

ReleaseDispatch(d, r) == Complete(d, r, "release", TRUE, FALSE, TRUE)

FinalizeTerminal(d, r) == Complete(d, r, "final", FALSE, TRUE, TRUE)

-----------------------------------------------------------------------------
(* terminalizeInboundEffect *)

\* it returned true
Terminated(d, r) == IF job[d][r].then = "final" THEN Go(d, r, "final") ELSE End(d, r)

TermRead(d, r) ==
  /\ At(d, r, "term")
  /\ IF eff.state \in {"none", "terminal"} THEN Terminated(d, r)
     ELSE IF eff.state = "uncertain" \/ (eff.state = "leased" /\ eff.live) THEN End(d, r)
     ELSE IF eff.state = "leased" THEN Go(d, r, "reclaim")
     ELSE Set(d, r, [job[d][r] EXCEPT !.at = "decide", !.tep = 0])
  /\ UNCHANGED <<eff, map, up, att, sent, acked, envelopes, faults>>

TermReclaim(d, r) ==
  /\ At(d, r, "reclaim")
  /\ eff' = Claim(eff, d)
  /\ IF CanClaim(eff)
     THEN Set(d, r, [job[d][r] EXCEPT !.at = "decide", !.tep = eff.epoch + 1])
     ELSE IF eff.state = "terminal" THEN Terminated(d, r)
     ELSE End(d, r)
  /\ UNCHANGED <<map, up, att, sent, acked, envelopes, faults>>

TermDecide(d, r) ==
  /\ At(d, r, "decide")
  /\ eff' = TerminalizeDecided(eff, d, job[d][r].tep, "stale")
  /\ IF eff'.state = "terminal" THEN Terminated(d, r) ELSE End(d, r)
  /\ UNCHANGED <<map, up, att, sent, acked, envelopes, faults>>

-----------------------------------------------------------------------------
(* invalidate and terminalize of a work, which run beside its call *)

\* Mutant: the ambiguity of a dispatching effect is not preserved.
TerminalizeWorkBluntly(d, r) ==
  /\ up[d] # "down" /\ Working(d, r) /\ job[d][r].settle = "no"
  /\ job[d][r].at = "fenced" \/ RetiredScope(d)
  /\ Set(d, r, [job[d][r] EXCEPT !.settle = "decide"])
  /\ UNCHANGED <<eff, map, up, att, sent, acked, envelopes, faults>>

\* terminalize: at the deadline of a retirement, by the renewal timer under a
\* retired scope, or called by the work itself
TerminalizeWork(d, r) ==
  /\ up[d] # "down" /\ Working(d, r) /\ job[d][r].settle = "no"
  /\ job[d][r].at = "fenced" \/ RetiredScope(d)
  /\ Set(d, r, [job[d][r] EXCEPT !.settle =
                IF eff.state = "dispatching" THEN "uncertain" ELSE "decide"])
  /\ UNCHANGED <<eff, map, up, att, sent, acked, envelopes, faults>>

SettleWork(d, r) ==
  /\ up[d] # "down" /\ Settling(d, r)
  /\ eff' = IF job[d][r].settle = "uncertain"
              THEN Record(eff, d, job[d][r].ep, "uncertain", "uncertain")
            ELSE IF job[d][r].settle = "decide"
              THEN TerminalizeDecided(eff, d, job[d][r].ep, "stale")
            ELSE TerminalizeDecided(eff, d, 0, "stale")
  /\ Set(d, r, [job[d][r] EXCEPT !.settle =
                  IF job[d][r].settle = "decide" /\ eff'.state # "terminal"
                  THEN "decide again" ELSE "done"])
  /\ UNCHANGED <<map, up, att, sent, acked, envelopes, faults>>

\* the call goes on once its work is settled
LeaveFence(d, r) ==
  /\ At(d, r, "fenced") /\ job[d][r].settle = "done"
  /\ IF job[d][r].then = "stale" THEN Terminate(d, r, "final")
     ELSE Go(d, r, IF job[d][r].then = "accept" THEN "accept" ELSE "doubt")
  /\ UNCHANGED <<eff, map, up, att, sent, acked, envelopes, faults>>

-----------------------------------------------------------------------------
(* drainPendingDispatches, started by start() and by the recovery timer *)

Open == {"pending", "leased", "dispatching", "accepted"}

\* Mutant: no recovery is scheduled for a lease that has run out.
DueNow ==
  \/ eff.state \in {"pending", "accepted"}
  \/ eff.state = "terminal" /\ map.receipt

\* scheduleLeaseRecovery: at once, or when the lease has run out.  A terminal
\* effect is reconciled with its receipt whenever a drain runs.
Due ==
  \/ eff.state \in {"pending", "accepted"}
  \/ eff.state \in {"leased", "dispatching"} /\ ~eff.live
  \/ eff.state = "terminal" /\ map.receipt

DrainBegin(d) ==
  /\ up[d] = "up" /\ At(d, "drain", "idle") /\ ~Settling(d, "drain")
  /\ Due
  /\ Set(d, "drain", [Idle EXCEPT !.at = IF map.receipt THEN "drain" ELSE "orphan",
                                  !.snap = Mapping])
  /\ UNCHANGED <<eff, map, up, att, sent, acked, envelopes, faults>>

\* The effect of a receipt the conversation had when it was loaded.  What it
\* could not terminalize is left to the next drain.
DrainReceipt(d) ==
  /\ At(d, "drain", "drain")
  /\ IF eff.state = "dispatching"
       THEN Go(d, "drain", IF InflightInbound(d) \/ eff.live THEN "orphan" ELSE "recover")
     ELSE IF eff.state = "terminal" THEN Go(d, "drain", "final")
     ELSE IF eff.state = "uncertain" THEN End(d, "drain")
     ELSE IF eff.state = "none" \/ job[d]["drain"].snap = "closed" \/ ~att[d]
       THEN Terminate(d, "drain", "final")
     ELSE IF eff.state = "leased" /\ eff.live THEN Go(d, "drain", "orphan")
     ELSE IF InflightInbound(d) THEN End(d, "drain")
     ELSE Set(d, "drain", [job[d]["drain"] EXCEPT !.at = "look", !.cap = TRUE,
                                               !.inflight = TRUE])
  /\ UNCHANGED <<eff, map, up, att, sent, acked, envelopes, faults>>

\* An effect that is no longer expired comes back undefined, and is taken for
\* one whose conversation cannot dispatch it.
DrainRecover(d) ==
  /\ At(d, "drain", "recover")
  /\ eff' = RecoverAsUncertain(eff)
  /\ IF CanRecover(eff) THEN End(d, "drain") ELSE Terminate(d, "drain", "final")
  /\ UNCHANGED <<map, up, att, sent, acked, envelopes, faults>>

\* the second loop, over the effects without a dispatchable receipt
DrainOrphan(d) ==
  /\ At(d, "drain", "orphan")
  /\ eff' = RecoverAsUncertain(eff)
  /\ IF eff.state \in {"pending", "leased", "accepted"}
     THEN Set(d, "drain", [job[d]["drain"] EXCEPT !.at = "adopt",
                 !.snap = IF eff.state = "leased" /\ eff.live THEN "leased" ELSE "none"])
     ELSE End(d, "drain")
  /\ UNCHANGED <<map, up, att, sent, acked, envelopes, faults>>

AdoptOrphan(d) ==
  /\ At(d, "drain", "adopt")
  /\ IF map.open /\ (map.receipt \/ ~map.seen)
     THEN map' = [map EXCEPT !.receipt = TRUE] /\ Go(d, "drain", "adopted")
     ELSE UNCHANGED map /\ Terminate(d, "drain", "idle")
  /\ UNCHANGED <<eff, up, att, sent, acked, envelopes, faults>>

Adopted(d) ==
  /\ At(d, "drain", "adopted")
  /\ IF ~EffectCurrent(d) THEN Terminate(d, "drain", "final")
     ELSE IF job[d]["drain"].snap = "leased" THEN End(d, "drain")
     ELSE Set(d, "drain", [job[d]["drain"] EXCEPT !.at = "look", !.cap = TRUE])
  /\ UNCHANGED <<eff, map, up, att, sent, acked, envelopes, faults>>

-----------------------------------------------------------------------------
(* retireAttachment *)

\* The router drops the session; every capability it gave out is now stale.
Detach(d) ==
  /\ up[d] = "up" /\ att[d] /\ At(d, "retire", "idle")
  /\ faults < MaxFaults /\ faults' = faults + 1
  /\ att' = [att EXCEPT ![d] = FALSE]
  /\ job' = [job EXCEPT ![d] = [r \in Role |->
                IF r = "retire" THEN [Idle EXCEPT !.at = "detached"]
                ELSE [job[d][r] EXCEPT !.cap = FALSE]]]
  /\ UNCHANGED <<eff, map, up, sent, acked, envelopes>>

\* The router attaches the same endpoint again.
Attach(d) ==
  /\ up[d] = "up" /\ ~att[d]
  /\ faults < MaxFaults /\ faults' = faults + 1
  /\ att' = [att EXCEPT ![d] = TRUE]
  /\ UNCHANGED <<eff, map, up, job, sent, acked, envelopes>>

RetireFence(d) ==
  /\ At(d, "retire", "detached")
  /\ Go(d, "retire", "close")
  /\ UNCHANGED <<eff, map, up, att, sent, acked, envelopes, faults>>

RetireClose(d) ==
  /\ At(d, "retire", "close")
  /\ map' = [map EXCEPT !.open = FALSE, !.receipt = FALSE]
  /\ Set(d, "retire", [job[d]["retire"] EXCEPT !.at = "draining",
                 !.snap = IF map.receipt THEN "receipt" ELSE "none"])
  /\ UNCHANGED <<eff, up, att, sent, acked, envelopes, faults>>

\* No work is left, or the deadline passed and each was told to terminalize.
RetireDrained(d) ==
  /\ At(d, "retire", "draining")
  /\ \A r \in Role : Working(d, r) => job[d][r].settle # "no"
  /\ IF job[d]["retire"].snap = "receipt"
     THEN Terminate(d, "retire", "linger")
     ELSE End(d, "retire")
  /\ UNCHANGED <<eff, map, up, att, sent, acked, envelopes, faults>>

\* tryReleaseRetiredProviderWorkScope
RetireRelease(d) ==
  /\ At(d, "retire", "linger")
  /\ \A r \in Role : ~Working(d, r) /\ ~Settling(d, r)
  /\ Go(d, "retire", "idle")
  /\ UNCHANGED <<eff, map, up, att, sent, acked, envelopes, faults>>

-----------------------------------------------------------------------------
(* time and processes *)

\* the call that took the lease is still at it
Held == \E d \in Daemon, r \in Role :
          /\ up[d] # "down"
          /\ \/ /\ Working(d, r) \/ job[d][r].at \in {"record", "accept", "doubt"}
                /\ Leased(eff, d, job[d][r].ep)
             \/ job[d][r].at = "decide" /\ Leased(eff, d, job[d][r].tep)

\* A lease runs out: nobody holds it any more, or its holder is stalled.
Expire ==
  /\ eff.live
  /\ IF Held THEN faults < MaxFaults /\ faults' = faults + 1 ELSE UNCHANGED faults
  /\ eff' = [eff EXCEPT !.live = FALSE]
  /\ UNCHANGED <<map, up, att, job, sent, acked, envelopes>>

\* the renewal timer of withRenewal
RenewTick(d, r) ==
  /\ up[d] # "down" /\ Working(d, r)
  /\ ~RetiredScope(d) /\ job[d][r].settle = "no"
  /\ ~eff.live /\ Leased(eff, d, job[d][r].ep)
  /\ eff' = Renew(eff, d, job[d][r].ep)
  /\ UNCHANGED <<map, up, att, job, sent, acked, envelopes, faults>>

\* stop() reached its deadline: every work is invalidated.
StopDeadline(d) ==
  /\ up[d] = "up"
  /\ faults < MaxFaults /\ faults' = faults + 1
  /\ up' = [up EXCEPT ![d] = "stopping"]
  /\ job' = [job EXCEPT ![d] = [r \in Role |->
                IF Working(d, r) /\ job[d][r].settle = "no"
                THEN [job[d][r] EXCEPT !.settle = "uncertain"] ELSE job[d][r]]]
  /\ UNCHANGED <<eff, map, att, sent, acked, envelopes>>

Down(d) ==
  /\ up' = [up EXCEPT ![d] = "down"]
  /\ job' = [job EXCEPT ![d] = [r \in Role |-> Idle]]
  /\ UNCHANGED <<eff, map, att, sent, acked, envelopes>>

Crash(d) == up[d] = "up" /\ faults < MaxFaults /\ faults' = faults + 1 /\ Down(d)

Exit(d) == up[d] = "stopping" /\ UNCHANGED faults /\ Down(d)

Start(d) ==
  /\ up[d] = "down"
  /\ up' = [up EXCEPT ![d] = "up"]
  /\ \E a \in BOOLEAN : att' = [att EXCEPT ![d] = a]
  /\ UNCHANGED <<eff, map, job, sent, acked, envelopes, faults>>

-----------------------------------------------------------------------------
DispatchStep(d, r) ==
  \/ Look(d, r) \/ ClaimEffect(d, r) \/ Enter(d, r) \/ Mark(d, r) \/ Recheck(d, r)
  \/ SendFrame(d, r) \/ Respond(d, r)
  \/ RecordSent(d, r) \/ RecordAccepted(d, r) \/ RecordUncertain(d, r)
  \/ FinishDispatch(d, r) \/ FinishUncertain(d, r) \/ ReleaseDispatch(d, r)
  \/ FinalizeTerminal(d, r) \/ TermRead(d, r) \/ TermReclaim(d, r) \/ TermDecide(d, r)
  \/ TerminalizeWork(d, r) \/ SettleWork(d, r) \/ LeaveFence(d, r)

HandlerStep(d) == EnqueueEffect(d) \/ Admit(d) \/ Ack(d)

DrainStep(d) ==
  \/ DrainBegin(d) \/ DrainReceipt(d) \/ DrainRecover(d) \/ DrainOrphan(d)
  \/ AdoptOrphan(d) \/ Adopted(d)

RetireStep(d) ==
  RetireFence(d) \/ RetireClose(d) \/ RetireDrained(d) \/ RetireRelease(d)

\* a step of one of the asynchronous calls
Run(d, r) ==
  \/ DispatchStep(d, r)
  \/ r = "handle" /\ HandlerStep(d)
  \/ r = "drain" /\ DrainStep(d)
  \/ r = "retire" /\ RetireStep(d)

Fault ==
  \/ \E d \in Daemon, r \in Role : PreSendFailure(d, r) \/ LoseResponse(d, r)
  \/ \E d \in Daemon : Detach(d) \/ Attach(d) \/ StopDeadline(d) \/ Crash(d)

Next ==
  \/ \E d \in Daemon, r \in Role : Run(d, r) \/ RenewTick(d, r)
  \/ \E d \in Daemon : HandleEnvelope(d) \/ Exit(d) \/ Start(d)
  \/ Expire \/ Fault

\* Promises are resumed and the recovery timer fires, a supervisor restarts
\* the daemons, and time passes.
Fairness ==
  /\ \A d \in Daemon, r \in Role : WF_vars(Run(d, r))
  /\ \A d \in Daemon : WF_vars(Exit(d) \/ Start(d))
  /\ WF_vars(Expire /\ ~Held)

Spec == Init /\ [][Next]_vars /\ Fairness

-----------------------------------------------------------------------------
(* Properties *)

\* The message goes to the session at most once, whatever crashes, stalls and
\* lost responses lie between its deliveries, and whichever of the daemons,
\* handlers and drains race for it.
SentAtMostOnce == sent <= 1

\* What reached the wire is never recorded as refused, nor handed out again:
\* no drift of the attachment or the conversation turns an unknown remote
\* outcome into a definite stale refusal (slack-daemon.ts:2206).
SentNeverRefused ==
  eff.wire => \/ eff.state \in {"dispatching", "uncertain"}
              \/ eff.state = "terminal" /\ eff.receipt = "sent"

\* A message is recorded as sent only if it was: no race makes a daemon record
\* a success it did not have.
RecordedSentWasSent == eff.receipt = "sent" => eff.wire

\* "Accepted inbound effects are durably claimed before their Socket Mode ACK":
\* once acknowledged, Slack will not deliver the event again, and no crash
\* loses it.
AckedIsDurable == acked => eff.state # "none"

\* An effect whose outcome is uncertain is final: neither a recovery, nor a
\* retirement, nor a second delivery moves it.
UncertainIsFinal == [][eff.state = "uncertain" => eff' = eff]_vars

\* No effect is stuck: whatever happened, it is settled, as terminal or as
\* uncertain, in the end.
EffectSettles == []<>(eff.state \notin Open)

-----------------------------------------------------------------------------
(* Why it holds *)

\* A call that has not put the message on the wire, and would call it back.
BeforeWire(j) ==
  \/ j.at \in {"enter", "mark", "recheck", "send", "accept"}
  \/ j.at = "fenced" /\ j.then = "accept"
  \/ j.settle = "decide"

\* What holds of every call, e being the record: its leases are not from the
\* future; past the wire, the record was on it; before the wire, as long as the
\* call holds the lease, it was not; a terminalization is pending only under a
\* retired scope, which keeps the frame from being sent; and a lease taken to
\* terminalize never dispatches.
CallInv(d, j, e) ==
  /\ j.ep <= e.epoch /\ j.tep <= e.epoch
  /\ j.at \in {"sent", "record"} => e.wire
  /\ BeforeWire(j) /\ Leased(e, d, j.ep) => ~e.wire
  /\ j.at = "decide" /\ Leased(e, d, j.tep) => e.state = "leased"

FenceInv(j, retired) ==
  \/ j.settle \in {"decide", "decide again"}
  \/ j.at = "fenced" /\ j.settle = "no"
  => retired

\* Two calls of a daemon never hold the same lease.
LeasesDistinct ==
  \A d \in Daemon : \A r, s \in Role :
    /\ job[d][r].ep # 0 => job[d][r].ep # job[d][s].tep
    /\ r # s /\ job[d][r].ep # 0 => job[d][r].ep # job[d][s].ep
    /\ r # s /\ job[d][r].tep # 0 => job[d][r].tep # job[d][s].tep

\* Every message put on the wire is accounted for in the journal.
OnceInv ==
  /\ SlackTypeOK
  /\ sent = IF eff.wire THEN 1 ELSE 0
  /\ SentNeverRefused
  /\ RecordedSentWasSent
  /\ eff.state \in {"leased", "dispatching"} => eff.epoch # 0
  /\ \A d \in Daemon : \A r \in Role :
       CallInv(d, job[d][r], eff) /\ FenceInv(job[d][r], RetiredScope(d))
  /\ LeasesDistinct

-----------------------------------------------------------------------------
\* What becomes of the message, as InboundOnce tells it.
Fate ==
  IF eff.state = "uncertain" THEN "unknown"
  ELSE IF eff.wire THEN IF eff.state = "terminal" THEN "delivered" ELSE "sent"
  ELSE IF eff.state = "terminal" THEN "refused" ELSE "open"

Once == INSTANCE InboundOnce WITH fate <- Fate

\* The daemons together implement InboundOnce.
ImplementsOnce == Once!Spec
=============================================================================
