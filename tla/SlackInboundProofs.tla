-------------------------- MODULE SlackInboundProofs --------------------------
(***************************************************************************)
(* OnceInv is inductive, for any number of daemons, deliveries and faults. *)
(* Most steps are gentle to the journal's record: they do not move its     *)
(* lease and do not touch the wire.  Lemma GentleStep deals with these;    *)
(* claiming, marking and sending are proved on their own.                  *)
(***************************************************************************)
EXTENDS SlackInbound, TLAPS

\* f is e after a transaction that takes no lease, moves no state into a lease
\* and writes no frame.
Gentle(e, f) ==
  /\ f \in Effect
  /\ f.epoch = e.epoch /\ f.wire = e.wire
  /\ f.state \in {"leased", "dispatching"} => f.state = e.state /\ f.owner = e.owner
  /\ f.receipt = "sent" => f.wire
  /\ f.wire => \/ f.state \in {"dispatching", "uncertain"}
               \/ f.state = "terminal" /\ f.receipt = "sent"

\* the variables the invariant only types
RestTypeOK ==
  /\ map \in [open : BOOLEAN, receipt : BOOLEAN, seen : BOOLEAN]
  /\ up \in [Daemon -> {"up", "stopping", "down"}]
  /\ att \in [Daemon -> BOOLEAN]
  /\ acked \in BOOLEAN
  /\ envelopes \in 0..MaxEnvelopes /\ faults \in 0..MaxFaults

-----------------------------------------------------------------------------
(* The operations on the record *)

\* Leaving the record alone is gentle.
LEMMA GentleSame ==
  ASSUME OnceInv PROVE Gentle(eff, eff)
BY DEF OnceInv, SlackTypeOK, Gentle, SentNeverRefused, RecordedSentWasSent

\* enqueue is gentle.
LEMMA GentleEnqueue ==
  ASSUME OnceInv PROVE Gentle(eff, Enqueue(eff))
BY DEF OnceInv, SlackTypeOK, Gentle, SentNeverRefused, RecordedSentWasSent, Enqueue,
       Effect, States, Receipts

\* renew, and the passing of time, are gentle.
LEMMA GentleLive ==
  ASSUME OnceInv, NEW b \in BOOLEAN PROVE Gentle(eff, [eff EXCEPT !.live = b])
BY SMTT(20) DEF OnceInv, SlackTypeOK, Gentle, SentNeverRefused, RecordedSentWasSent,
       Effect, States, Receipts

\* Settling the record is gentle, if it is not called sent without having been
\* on the wire, and is called nothing but sent or uncertain once it was.
LEMMA GentleSettled ==
  ASSUME OnceInv, NEW s \in {"accepted", "uncertain", "terminal"},
         NEW r \in Receipts, r = "sent" => eff.wire,
         eff.wire => s = "uncertain" \/ (s = "terminal" /\ r = "sent")
  PROVE  Gentle(eff, Settled(eff, s, r))
<1> eff \in Effect
  BY DEF OnceInv, SlackTypeOK
<1>1. Settled(eff, s, r) \in Effect
  BY Zenon DEF Settled, Effect, States
<1>2. /\ Settled(eff, s, r).state = s /\ Settled(eff, s, r).receipt = r
      /\ Settled(eff, s, r).epoch = eff.epoch /\ Settled(eff, s, r).wire = eff.wire
  BY DEF Settled, Effect
<1> QED
  BY <1>1, <1>2 DEF Gentle

\* A record that may be claimed was not on the wire, nor has one that may be
\* terminalized without a lease.
LEMMA OpenNotOnWire ==
  ASSUME OnceInv, eff.state \in {"none", "pending", "accepted", "leased"}
  PROVE  ~eff.wire
BY DEF OnceInv, SentNeverRefused

\* terminalizeDecided is gentle with a lease that never dispatched, and without.
LEMMA GentleTerminalize ==
  ASSUME OnceInv, NEW d \in Daemon, NEW ep \in Nat, NEW r \in Receipts, r # "sent",
         Leased(eff, d, ep) => ~eff.wire
  PROVE  Gentle(eff, TerminalizeDecided(eff, d, ep, r))
<1>1. CASE CanTerminalize(eff, d, ep)
  <2>1. ~eff.wire
    <3>1. CASE eff.state \in {"leased", "dispatching"}
      BY <1>1, <3>1 DEF CanTerminalize, Leased
    <3>2. CASE eff.state \notin {"leased", "dispatching"}
      BY <1>1, <3>2, OpenNotOnWire DEF CanTerminalize, OnceInv, SlackTypeOK, Effect, States
    <3> QED BY <3>1, <3>2
  <2> QED
    BY <1>1, <2>1, GentleSettled DEF TerminalizeDecided
<1>2. CASE ~CanTerminalize(eff, d, ep)
  BY <1>2, GentleSame DEF TerminalizeDecided
<1> QED BY <1>1, <1>2

\* Recovering an expired dispatch as uncertain is gentle.
LEMMA GentleRecover ==
  ASSUME OnceInv PROVE Gentle(eff, RecoverAsUncertain(eff))
BY GentleSettled, GentleSame DEF RecoverAsUncertain, Receipts

\* Renewing a lease is gentle.
LEMMA GentleRenew ==
  ASSUME OnceInv, NEW d \in Daemon, NEW ep \in Nat
  PROVE  Gentle(eff, Renew(eff, d, ep))
BY GentleLive, GentleSame, Zenon DEF Renew

-----------------------------------------------------------------------------
(* The calls *)

\* What Set does.
LEMMA JobSet ==
  ASSUME job \in [Daemon -> [Role -> Job]], NEW d \in Daemon, NEW r \in Role,
         NEW j \in Job, Set(d, r, j)
  PROVE  /\ job' \in [Daemon -> [Role -> Job]]
         /\ job'[d][r] = j
         /\ \A c \in Daemon : \A s \in Role : c # d \/ s # r => job'[c][s] = job[c][s]
<1>1. [job[d] EXCEPT ![r] = j] \in [Role -> Job]
  OBVIOUS
<1>2. job' = [job EXCEPT ![d] = [job[d] EXCEPT ![r] = j]]
  BY DEF Set
<1> QED
  BY <1>1, <1>2

\* A step that is gentle to the record disturbs no other call.
LEMMA GentleCalls ==
  ASSUME OnceInv, NEW f, Gentle(eff, f), NEW d \in Daemon, NEW r \in Role
  PROVE  CallInv(d, job[d][r], f)
<1>1. CallInv(d, job[d][r], eff) /\ eff \in Effect /\ job[d][r] \in Job
  BY DEF OnceInv, SlackTypeOK
<1>2. \A ep : Leased(f, d, ep) => Leased(eff, d, ep) /\ f.state = eff.state
  BY DEF Gentle, Leased, Holds
<1> QED
  BY <1>1, <1>2 DEF CallInv, Gentle

\* RetiredScope looks only at the retirement.
LEMMA ScopeKept ==
  ASSUME job \in [Daemon -> [Role -> Job]], NEW d \in Daemon, NEW r \in Role,
         NEW j \in Job, Set(d, r, j), NEW c \in Daemon, RetiredScope(c),
         r = "retire" /\ c = d => j.at \notin {"idle", "detached"}
  PROVE  RetiredScope(c)'
<1>1. CASE c = d /\ r = "retire"
  BY <1>1, JobSet DEF RetiredScope
<1>2. CASE ~(c = d /\ r = "retire")
  BY <1>2, JobSet DEF RetiredScope, Role
<1> QED BY <1>1, <1>2

\* The calls keep their leases apart when one of them keeps or drops its own.
LEMMA DistinctKept ==
  ASSUME OnceInv, NEW d \in Daemon, NEW r \in Role, NEW j \in Job, Set(d, r, j),
         j.ep \in {0, job[d][r].ep}, j.tep \in {0, job[d][r].tep}
  PROVE  LeasesDistinct'
<1>1. /\ job \in [Daemon -> [Role -> Job]] /\ LeasesDistinct
  BY DEF OnceInv, SlackTypeOK
<1>2. \A c \in Daemon : \A s \in Role :
        /\ job'[c][s].ep \in {0, job[c][s].ep} /\ job'[c][s].tep \in {0, job[c][s].tep}
        /\ c # d \/ s # r => job'[c][s] = job[c][s]
  BY <1>1, JobSet
<1>3. ASSUME NEW c \in Daemon, NEW s \in Role, NEW t \in Role
      PROVE  /\ job'[c][s].ep # 0 => job'[c][s].ep # job'[c][t].tep
             /\ s # t /\ job'[c][s].ep # 0 => job'[c][s].ep # job'[c][t].ep
             /\ s # t /\ job'[c][s].tep # 0 => job'[c][s].tep # job'[c][t].tep
  BY <1>1, <1>2, <1>3 DEF LeasesDistinct
<1> QED
  BY <1>3 DEF LeasesDistinct

\* The invariant after a step of one call.
LEMMA CallStep ==
  ASSUME OnceInv, RestTypeOK', eff' \in Effect, sent' = IF eff'.wire THEN 1 ELSE 0,
         SentNeverRefused', RecordedSentWasSent',
         eff'.state \in {"leased", "dispatching"} => eff'.epoch # 0,
         NEW d \in Daemon, NEW r \in Role, NEW j \in Job, Set(d, r, j),
         CallInv(d, j, eff'),
         \A c \in Daemon : \A s \in Role :
           c # d \/ s # r => CallInv(c, job[c][s], eff'),
         FenceInv(j, RetiredScope(d)),
         r = "retire" /\ RetiredScope(d) => j.at \notin {"idle", "detached"},
         LeasesDistinct'
  PROVE  OnceInv'
<1>1. job \in [Daemon -> [Role -> Job]]
  BY DEF OnceInv, SlackTypeOK
<1>2. SlackTypeOK'
  BY <1>1, JobSet DEF SlackTypeOK, RestTypeOK
<1>3. ASSUME NEW c \in Daemon, NEW s \in Role
      PROVE  CallInv(c, job'[c][s], eff')
  <2>1. CASE c = d /\ s = r
    BY <2>1, <1>1, JobSet
  <2>2. CASE c # d \/ s # r
    <3>1. job'[c][s] = job[c][s]
      BY <2>2, <1>1, JobSet
    <3> QED
      BY <2>2, <3>1
  <2> QED BY <2>1, <2>2
<1>4. ASSUME NEW c \in Daemon, NEW s \in Role
      PROVE  FenceInv(job'[c][s], RetiredScope(c)')
  <2>1. FenceInv(job'[c][s], RetiredScope(c))
    <3>1. CASE c = d /\ s = r
      BY <3>1, <1>1, JobSet
    <3>2. CASE c # d \/ s # r
      BY <3>2, <1>1, JobSet DEF OnceInv
    <3> QED BY <3>1, <3>2
  <2>2. RetiredScope(c) => RetiredScope(c)'
    BY <1>1, ScopeKept
  <2> QED
    BY <2>1, <2>2, Zenon DEF FenceInv
<1> QED
  BY <1>2, <1>3, <1>4 DEF OnceInv

\* The same, for a step that is gentle to the record.
LEMMA GentleStep ==
  ASSUME OnceInv, Gentle(eff, eff'), sent' = sent, RestTypeOK',
         NEW d \in Daemon, NEW r \in Role, NEW j \in Job, Set(d, r, j),
         j.ep \in {0, job[d][r].ep}, j.tep \in {0, job[d][r].tep},
         CallInv(d, j, eff'),
         FenceInv(j, RetiredScope(d)),
         r = "retire" /\ RetiredScope(d) => j.at \notin {"idle", "detached"}
  PROVE  OnceInv'
<1>1. eff' \in Effect /\ (sent' = IF eff'.wire THEN 1 ELSE 0)
  BY DEF OnceInv, Gentle
<1>2. SentNeverRefused' /\ RecordedSentWasSent'
  BY DEF Gentle, SentNeverRefused, RecordedSentWasSent
<1>3. eff'.state \in {"leased", "dispatching"} => eff'.epoch # 0
  BY DEF OnceInv, Gentle
<1>4. \A c \in Daemon : \A s \in Role : CallInv(c, job[c][s], eff')
  BY GentleCalls
<1>5. LeasesDistinct'
  BY DistinctKept
<1> QED
  BY <1>1, <1>2, <1>3, <1>4, <1>5, CallStep

\* What is known of one call.
LEMMA CallFacts ==
  ASSUME OnceInv, NEW d \in Daemon, NEW r \in Role
  PROVE  /\ job[d][r] \in Job
         /\ CallInv(d, job[d][r], eff)
         /\ FenceInv(job[d][r], RetiredScope(d))
BY DEF OnceInv, SlackTypeOK

\* A call may move to a place of no consequence for the wire.
PlainPlaces ==
  {"enqueue", "admit", "ack", "look", "claim", "finish", "release", "doubt",
   "finish uncertain", "term", "reclaim", "final", "drain", "recover", "orphan",
   "adopt", "adopted", "close", "draining", "linger"}

\* The places, as the lemmas below need them.
LEMMA PlaceFacts ==
  /\ PlainPlaces \subseteq Places
  /\ {"idle", "enter", "mark", "recheck", "send", "sent", "fenced", "record", "accept",
      "decide", "detached"} \subseteq Places
  /\ "idle" \in Places /\ "enter" \in Places /\ "recheck" \in Places /\ "sent" \in Places
  /\ "fenced" \in Places /\ "record" \in Places /\ "decide" \in Places
  /\ "detached" \in Places /\ "enqueue" \in Places /\ "look" \in Places
  /\ "adopt" \in Places /\ "draining" \in Places /\ "drain" \in Places
  /\ "orphan" \in Places /\ "term" \in Places /\ "linger" \in Places
BY DEF PlainPlaces, Places

\* Every change of a call that keeps or drops its leases, what is left to
\* settle of its work with them, and goes to a place of no consequence.
LEMMA GentlePlain ==
  ASSUME OnceInv, Gentle(eff, eff'), sent' = sent, RestTypeOK',
         NEW d \in Daemon, NEW r \in Role, NEW j \in Job, Set(d, r, j),
         j.at \in PlainPlaces \/ (j.at = "idle" /\ r # "retire"),
         j.ep \in {0, job[d][r].ep}, j.tep \in {0, job[d][r].tep},
         \/ j.settle \in {"no", "done", "uncertain"}
         \/ j.settle = job[d][r].settle /\ j.ep = job[d][r].ep
  PROVE  OnceInv'
<1>1. /\ job[d][r] \in Job /\ CallInv(d, job[d][r], eff')
      /\ FenceInv(job[d][r], RetiredScope(d))
  BY CallFacts, GentleCalls
<1>2. CallInv(d, j, eff')
  <2>1. j.ep <= eff'.epoch /\ j.tep <= eff'.epoch
    BY <1>1 DEF CallInv, Gentle, Effect
  <2>2. j.at \notin {"sent", "record", "decide"}
    BY Zenon DEF PlainPlaces
  <2>3. BeforeWire(j) => BeforeWire(job[d][r]) /\ j.ep = job[d][r].ep
    BY Zenon DEF BeforeWire, PlainPlaces
  <2> QED
    BY <1>1, <2>1, <2>2, <2>3 DEF CallInv
<1>3. FenceInv(j, RetiredScope(d))
  BY <1>1, Zenon DEF FenceInv, PlainPlaces
<1> QED
  BY <1>2, <1>3, GentleStep, Zenon DEF PlainPlaces

\* No call at all.
LEMMA IdleFacts ==
  /\ Idle \in Job
  /\ Idle.at = "idle" /\ Idle.ep = 0 /\ Idle.tep = 0 /\ Idle.settle = "no"
<1>1. Idle \in Job
  BY PlaceFacts DEF Idle, Job
<1> QED
  BY <1>1 DEF Idle

\* What a call that is done leaves.
LEMMA ResidueFacts ==
  ASSUME NEW j \in Job
  PROVE  /\ Residue(j) \in Job /\ Residue(j).tep = 0
         /\ \/ Residue(j).ep = 0 /\ Residue(j).settle = "no"
            \/ Residue(j).ep = j.ep /\ Residue(j).settle = j.settle
<1> DEFINE k == [Idle EXCEPT !.ep = j.ep, !.settle = j.settle]
<1>1. /\ j.ep \in Nat
      /\ j.settle \in {"no", "uncertain", "decide", "decide again", "done"}
  BY Zenon DEF Job
<1>2. k \in Job
  BY <1>1, IdleFacts, Zenon DEF Job
<1>3. k.tep = 0 /\ k.ep = j.ep /\ k.settle = j.settle
  BY <1>1, IdleFacts, Zenon DEF Job
<1>4. Residue(j) = IF j.settle \in {"no", "done"} THEN Idle ELSE k
  BY DEF Residue
<1> HIDE DEF k
<1> QED
  BY <1>2, <1>3, <1>4, IdleFacts

\* The end of a call.
LEMMA GentleEnd ==
  ASSUME OnceInv, Gentle(eff, eff'), sent' = sent, RestTypeOK',
         NEW d \in Daemon, NEW r \in Role, End(d, r)
  PROVE  OnceInv'
<1> DEFINE j == [Residue(job[d][r]) EXCEPT !.at = IF r = "retire" THEN "linger" ELSE "idle"]
<1>1. job[d][r] \in Job
  BY CallFacts
<1>2. /\ Residue(job[d][r]) \in Job /\ Residue(job[d][r]).tep = 0
      /\ \/ Residue(job[d][r]).ep = 0 /\ Residue(job[d][r]).settle = "no"
         \/ /\ Residue(job[d][r]).ep = job[d][r].ep
            /\ Residue(job[d][r]).settle = job[d][r].settle
  BY <1>1, ResidueFacts
<1>3. /\ j \in Job /\ j.at = IF r = "retire" THEN "linger" ELSE "idle"
      /\ j.ep = Residue(job[d][r]).ep /\ j.tep = 0 /\ j.settle = Residue(job[d][r]).settle
  BY <1>2, PlaceFacts, Zenon DEF Job
<1>4. Set(d, r, j)
  BY DEF End
<1> HIDE DEF j
<1> QED
  BY <1>2, <1>3, <1>4, GentlePlain, Zenon DEF PlainPlaces

\* The start of terminalizeInboundEffect.
LEMMA GentleTerminate ==
  ASSUME OnceInv, Gentle(eff, eff'), sent' = sent, RestTypeOK',
         NEW d \in Daemon, NEW r \in Role, NEW p \in {"idle", "final", "linger"},
         Terminate(d, r, p)
  PROVE  OnceInv'
<1> DEFINE k == Residue(job[d][r])
           b == job[d][r].inflight
           j == [k EXCEPT !.at = "term", !.then = p, !.inflight = b]
<1>1. job[d][r] \in Job
  BY CallFacts
<1>2. /\ k \in Job /\ k.tep = 0
      /\ \/ k.ep = 0 /\ k.settle = "no"
         \/ k.ep = job[d][r].ep /\ k.settle = job[d][r].settle
  BY <1>1, ResidueFacts
<1>3. b \in BOOLEAN
  BY <1>1, Zenon DEF Job
<1>4. Set(d, r, j)
  BY DEF Terminate
<1> HIDE DEF k, b
<1>5. j \in Job
  BY <1>2, <1>3, PlaceFacts, Zenon DEF Job
<1>6. j.at = "term" /\ j.ep = k.ep /\ j.tep = k.tep /\ j.settle = k.settle
  BY <1>2, <1>3, Zenon DEF Job
<1> HIDE DEF j
<1> QED
  BY <1>2, <1>4, <1>5, <1>6, GentlePlain, Zenon DEF PlainPlaces

\* A call that goes on.
LEMMA GentleGo ==
  ASSUME OnceInv, Gentle(eff, eff'), sent' = sent, RestTypeOK',
         NEW d \in Daemon, NEW r \in Role, NEW p \in PlainPlaces, Go(d, r, p)
  PROVE  OnceInv'
<1> DEFINE j == [job[d][r] EXCEPT !.at = p]
<1>1. job[d][r] \in Job
  BY CallFacts
<1>2. /\ j \in Job /\ j.at = p /\ j.ep = job[d][r].ep /\ j.tep = job[d][r].tep
      /\ j.settle = job[d][r].settle
  BY <1>1, PlaceFacts, Zenon DEF Job
<1>3. Set(d, r, j)
  BY DEF Go
<1> HIDE DEF j
<1> QED
  BY <1>2, <1>3, GentlePlain

\* Before the wire, a call may move on, to the next check or to its fence.
LEMMA GentleBefore ==
  ASSUME OnceInv, Gentle(eff, eff'), sent' = sent, RestTypeOK',
         NEW d \in Daemon, NEW r \in Role, BeforeWire(job[d][r]) \/ ~eff.wire,
         NEW p \in {"enter", "mark", "recheck", "send", "accept"}, Go(d, r, p)
  PROVE  OnceInv'
<1> DEFINE j == [job[d][r] EXCEPT !.at = p]
<1>1. /\ job[d][r] \in Job /\ CallInv(d, job[d][r], eff')
      /\ FenceInv(job[d][r], RetiredScope(d))
  BY CallFacts, GentleCalls
<1>2. /\ j \in Job /\ j.at = p /\ j.ep = job[d][r].ep /\ j.tep = job[d][r].tep
      /\ j.settle = job[d][r].settle
  BY <1>1, PlaceFacts, Zenon DEF Job
<1>3. Set(d, r, j)
  BY DEF Go
<1> HIDE DEF j
<1>4. CallInv(d, j, eff')
  BY <1>1, <1>2 DEF CallInv, Gentle
<1>5. FenceInv(j, RetiredScope(d))
  BY <1>1, <1>2, Zenon DEF FenceInv
<1> QED
  BY <1>2, <1>3, <1>4, <1>5, GentleStep

\* A call reaches its fence; it goes back to accepted only from before the
\* wire.
LEMMA GentleFence ==
  ASSUME OnceInv, Gentle(eff, eff'), sent' = sent, RestTypeOK',
         NEW d \in Daemon, NEW r \in Role, NEW t \in {"stale", "accept", "doubt"},
         t = "accept" => BeforeWire(job[d][r]),
         RetiredScope(d) \/ job[d][r].settle # "no",
         Set(d, r, [job[d][r] EXCEPT !.at = "fenced", !.then = t])
  PROVE  OnceInv'
<1> DEFINE j == [job[d][r] EXCEPT !.at = "fenced", !.then = t]
<1>1. /\ job[d][r] \in Job /\ CallInv(d, job[d][r], eff')
      /\ FenceInv(job[d][r], RetiredScope(d))
  BY CallFacts, GentleCalls
<1>2. /\ j \in Job /\ j.at = "fenced" /\ j.then = t /\ j.ep = job[d][r].ep
      /\ j.tep = job[d][r].tep /\ j.settle = job[d][r].settle
  BY <1>1, PlaceFacts, Zenon DEF Job
<1>3. Set(d, r, j)
  OBVIOUS
<1> HIDE DEF j
<1>4. BeforeWire(j) => BeforeWire(job[d][r])
  BY <1>2 DEF BeforeWire
<1>5. CallInv(d, j, eff')
  BY <1>1, <1>2, <1>4 DEF CallInv
<1>6. FenceInv(j, RetiredScope(d))
  BY <1>1, <1>2, Zenon DEF FenceInv
<1> QED
  BY <1>2, <1>3, <1>5, <1>6, GentleStep

\* An error inside withEffectLease.
LEMMA GentleThrow ==
  ASSUME OnceInv, Gentle(eff, eff'), sent' = sent, RestTypeOK',
         NEW d \in Daemon, NEW r \in Role, NEW k \in {"stale", "accept", "doubt"},
         k = "accept" => BeforeWire(job[d][r]), Throw(d, r, k)
  PROVE  OnceInv'
<1>1. CASE RetiredScope(d)
  BY <1>1, GentleFence, Zenon DEF Throw
<1>2. CASE ~RetiredScope(d) /\ k = "stale"
  BY <1>2, GentleTerminate DEF Throw
<1>3. CASE ~RetiredScope(d) /\ k = "accept"
  BY <1>3, GentleBefore DEF Throw
<1>4. CASE ~RetiredScope(d) /\ k = "doubt"
  BY <1>4, GentleGo, Zenon DEF Throw, PlainPlaces
<1> QED BY <1>1, <1>2, <1>3, <1>4, SMTT(20)

-----------------------------------------------------------------------------
(* The steps that are not gentle to the record *)

\* The record after a claim: its epoch is new, so no call holds it yet.
LEMMA ClaimFacts ==
  ASSUME OnceInv, NEW d \in Daemon, CanClaim(eff)
  PROVE  /\ Claim(eff, d) \in Effect
         /\ Claim(eff, d).state = "leased" /\ Claim(eff, d).epoch = eff.epoch + 1
         /\ Claim(eff, d).receipt = eff.receipt
         /\ ~Claim(eff, d).wire /\ ~eff.wire
         /\ \A c \in Daemon : \A s \in Role : CallInv(c, job[c][s], Claim(eff, d))
<1>1. eff \in Effect /\ eff.epoch \in Nat
  BY DEF OnceInv, SlackTypeOK, Effect
<1>2. ~eff.wire
  BY OpenNotOnWire DEF CanClaim
<1>3. Claim(eff, d) = [eff EXCEPT !.state = "leased", !.owner = d, !.epoch = eff.epoch + 1,
                                  !.live = TRUE]
  BY <1>1 DEF Claim
<1>4. Claim(eff, d) \in Effect
  <2> DEFINE n == eff.epoch + 1
  <2>1. n \in Nat /\ Claim(eff, d) = [eff EXCEPT !.state = "leased", !.owner = d, !.epoch = n,
                                               !.live = TRUE]
    BY <1>1, <1>3
  <2> HIDE DEF n
  <2> QED
    BY <1>1, <2>1, Zenon DEF Effect, States
<1>5. /\ Claim(eff, d).state = "leased" /\ Claim(eff, d).epoch = eff.epoch + 1
      /\ Claim(eff, d).receipt = eff.receipt /\ Claim(eff, d).wire = eff.wire
  BY <1>1, <1>3 DEF Effect
<1>6. ASSUME NEW c \in Daemon, NEW s \in Role
      PROVE  CallInv(c, job[c][s], Claim(eff, d))
  <2>1. /\ job[c][s] \in Job /\ CallInv(c, job[c][s], eff)
    BY CallFacts
  <2>2. job[c][s].ep \in Nat /\ job[c][s].tep \in Nat
    BY <2>1, Zenon DEF Job
  <2>3. job[c][s].ep < eff.epoch + 1 /\ job[c][s].tep < eff.epoch + 1
    BY <2>1, <2>2, <1>1 DEF CallInv
  <2>4. /\ ~Leased(Claim(eff, d), c, job[c][s].ep)
        /\ ~Leased(Claim(eff, d), c, job[c][s].tep)
    BY <2>2, <2>3, <1>1, <1>5 DEF Leased, Holds
  <2>5. job[c][s].ep <= Claim(eff, d).epoch /\ job[c][s].tep <= Claim(eff, d).epoch
    BY <2>2, <2>3, <1>1, <1>5
  <2> QED
    BY <2>1, <2>4, <2>5, <1>5 DEF CallInv
<1> QED
  BY <1>2, <1>4, <1>5, <1>6

\* A call takes a lease: its epoch is larger than all those of the others.
LEMMA DistinctNew ==
  ASSUME OnceInv, NEW d \in Daemon, NEW r \in Role, NEW j \in Job, Set(d, r, j),
         \/ j.ep = eff.epoch + 1 /\ j.tep = job[d][r].tep
         \/ j.tep = eff.epoch + 1 /\ j.ep = job[d][r].ep
  PROVE  LeasesDistinct'
<1>1. /\ job \in [Daemon -> [Role -> Job]] /\ LeasesDistinct /\ eff.epoch \in Nat
  BY DEF OnceInv, SlackTypeOK, Effect
<1>2. \A c \in Daemon : \A s \in Role :
        /\ job[c][s].ep \in Nat /\ job[c][s].tep \in Nat
        /\ job[c][s].ep < eff.epoch + 1 /\ job[c][s].tep < eff.epoch + 1
  <2> SUFFICES ASSUME NEW c \in Daemon, NEW s \in Role
               PROVE  /\ job[c][s].ep \in Nat /\ job[c][s].tep \in Nat
                      /\ job[c][s].ep < eff.epoch + 1 /\ job[c][s].tep < eff.epoch + 1
    OBVIOUS
  <2>1. job[c][s] \in Job /\ CallInv(c, job[c][s], eff)
    BY CallFacts
  <2>2. job[c][s].ep \in Nat /\ job[c][s].tep \in Nat
    BY <2>1, Zenon DEF Job
  <2> QED
    BY <1>1, <2>1, <2>2 DEF CallInv
<1>3. \A c \in Daemon : \A s \in Role :
        IF c = d /\ s = r THEN job'[c][s] = j ELSE job'[c][s] = job[c][s]
  BY <1>1, JobSet
<1>4. ASSUME NEW c \in Daemon, NEW s \in Role, NEW t \in Role
      PROVE  /\ job'[c][s].ep # 0 => job'[c][s].ep # job'[c][t].tep
             /\ s # t /\ job'[c][s].ep # 0 => job'[c][s].ep # job'[c][t].ep
             /\ s # t /\ job'[c][s].tep # 0 => job'[c][s].tep # job'[c][t].tep
  <2>1. /\ job[c][s].ep # 0 => job[c][s].ep # job[c][t].tep
        /\ s # t /\ job[c][s].ep # 0 => job[c][s].ep # job[c][t].ep
        /\ s # t /\ job[c][s].tep # 0 => job[c][s].tep # job[c][t].tep
    BY <1>1 DEF LeasesDistinct
  <2>2. CASE c # d \/ (s # r /\ t # r)
    BY <1>3, <2>1, <2>2
  <2>3. CASE c = d /\ (s = r \/ t = r)
    <3>1. IF s = r THEN job'[c][s] = j ELSE job'[c][s] = job[c][s]
      BY <1>3, <2>3
    <3>2. IF t = r THEN job'[c][t] = j ELSE job'[c][t] = job[c][t]
      BY <1>3, <2>3
    <3>3. /\ job[c][s].ep # eff.epoch + 1 /\ job[c][s].tep # eff.epoch + 1
          /\ job[c][t].ep # eff.epoch + 1 /\ job[c][t].tep # eff.epoch + 1
      BY <1>2
    <3> QED
      BY <2>1, <2>3, <3>1, <3>2, <3>3
  <2> QED BY <2>2, <2>3
<1> QED
  BY <1>4 DEF LeasesDistinct

\* claim in dispatchEffect
LEMMA ClaimEffectInv ==
  ASSUME OnceInv, NEW d \in Daemon, NEW r \in Role, ClaimEffect(d, r)
  PROVE  OnceInv'
<1>1. RestTypeOK'
  BY DEF OnceInv, SlackTypeOK, RestTypeOK, ClaimEffect
<1>2. CASE ~CanClaim(eff)
  BY <1>1, <1>2, GentleSame, GentleEnd DEF ClaimEffect, Claim
<1>3. CASE CanClaim(eff)
  <2> DEFINE n == eff.epoch + 1
             j == [job[d][r] EXCEPT !.at = "enter", !.ep = n]
  <2>1. /\ job[d][r] \in Job /\ FenceInv(job[d][r], RetiredScope(d)) /\ eff.epoch \in Nat
        /\ CallInv(d, job[d][r], eff')
    BY <1>3, CallFacts, ClaimFacts DEF OnceInv, SlackTypeOK, Effect, ClaimEffect
  <2>2. Set(d, r, j) /\ eff' = Claim(eff, d) /\ sent' = sent /\ n \in Nat
    BY <1>3, <2>1 DEF ClaimEffect
  <2> HIDE DEF n
  <2>3. j \in Job
    BY <2>1, <2>2, PlaceFacts, Zenon DEF Job
  <2>4. /\ j.at = "enter" /\ j.ep = n /\ j.tep = job[d][r].tep
        /\ j.settle = job[d][r].settle
    BY <2>1, <2>2, Zenon DEF Job
  <2> USE DEF n
  <2> HIDE DEF j
  <2>5. /\ eff' \in Effect /\ (sent' = IF eff'.wire THEN 1 ELSE 0)
        /\ SentNeverRefused' /\ RecordedSentWasSent' /\ eff'.epoch # 0
    BY <2>1, <2>2, <1>3, ClaimFacts DEF OnceInv, SentNeverRefused, RecordedSentWasSent
  <2>6. CallInv(d, j, eff')
    <3>1. j.ep <= eff'.epoch /\ j.tep <= eff'.epoch
      <4>1. job[d][r].tep <= eff'.epoch
        BY <2>1 DEF CallInv
      <4>2. eff'.epoch = n /\ n <= n
        BY <1>3, <2>2, ClaimFacts
      <4> HIDE DEF n
      <4> QED
        BY <2>4, <4>1, <4>2
    <3>2. ~eff'.wire /\ eff'.state = "leased"
      BY <1>3, <2>2, ClaimFacts
    <3> QED
      BY <2>4, <3>1, <3>2 DEF CallInv
  <2>7. FenceInv(j, RetiredScope(d))
    BY <2>1, <2>4, Zenon DEF FenceInv
  <2>8. LeasesDistinct'
    BY <2>3, <2>4, <2>2, DistinctNew
  <2> QED
    BY <1>1, <1>3, <2>3, <2>4, <2>2, <2>5, <2>6, <2>7, <2>8, ClaimFacts, CallStep
<1> QED BY <1>2, <1>3

\* claim in terminalizeInboundEffect
LEMMA TermReclaimInv ==
  ASSUME OnceInv, NEW d \in Daemon, NEW r \in Role, TermReclaim(d, r)
  PROVE  OnceInv'
<1>1. RestTypeOK'
  BY DEF OnceInv, SlackTypeOK, RestTypeOK, TermReclaim
<1>2. CASE ~CanClaim(eff)
  <2>1. Gentle(eff, eff') /\ sent' = sent /\ (Terminated(d, r) \/ End(d, r))
    BY <1>2, GentleSame DEF TermReclaim, Claim
  <2> QED
    BY <1>1, <2>1, GentleEnd, GentleGo, Zenon DEF Terminated, PlainPlaces
<1>3. CASE CanClaim(eff)
  <2> DEFINE n == eff.epoch + 1
             j == [job[d][r] EXCEPT !.at = "decide", !.tep = n]
  <2>1. /\ job[d][r] \in Job /\ FenceInv(job[d][r], RetiredScope(d)) /\ eff.epoch \in Nat
        /\ CallInv(d, job[d][r], eff')
    BY <1>3, CallFacts, ClaimFacts DEF OnceInv, SlackTypeOK, Effect, TermReclaim
  <2>2. Set(d, r, j) /\ eff' = Claim(eff, d) /\ sent' = sent /\ n \in Nat
    BY <1>3, <2>1 DEF TermReclaim
  <2> HIDE DEF n
  <2>3. j \in Job
    BY <2>1, <2>2, PlaceFacts, Zenon DEF Job
  <2>4. /\ j.at = "decide" /\ j.tep = n /\ j.ep = job[d][r].ep
        /\ j.settle = job[d][r].settle
    BY <2>1, <2>2, Zenon DEF Job
  <2> USE DEF n
  <2> HIDE DEF j
  <2>5. /\ eff' \in Effect /\ (sent' = IF eff'.wire THEN 1 ELSE 0)
        /\ SentNeverRefused' /\ RecordedSentWasSent' /\ eff'.epoch # 0
    BY <2>1, <2>2, <1>3, ClaimFacts DEF OnceInv, SentNeverRefused, RecordedSentWasSent
  <2>6. CallInv(d, j, eff')
    <3>1. j.ep <= eff'.epoch /\ j.tep <= eff'.epoch
      <4>1. job[d][r].ep <= eff'.epoch
        BY <2>1 DEF CallInv
      <4>2. eff'.epoch = n /\ n <= n
        BY <1>3, <2>2, ClaimFacts
      <4> HIDE DEF n
      <4> QED
        BY <2>4, <4>1, <4>2
    <3>2. ~eff'.wire /\ eff'.state = "leased"
      BY <1>3, <2>2, ClaimFacts
    <3> QED
      BY <2>4, <3>1, <3>2 DEF CallInv
  <2>7. FenceInv(j, RetiredScope(d))
    BY <2>1, <2>4, Zenon DEF FenceInv
  <2>8. LeasesDistinct'
    BY <2>3, <2>4, <2>2, DistinctNew
  <2> QED
    BY <1>1, <1>3, <2>3, <2>4, <2>2, <2>5, <2>6, <2>7, <2>8, ClaimFacts, CallStep
<1> QED BY <1>2, <1>3

\* No other call holds the lease this one holds.
LEMMA OnlyHolder ==
  ASSUME OnceInv, NEW d \in Daemon, NEW r \in Role, Leased(eff, d, job[d][r].ep),
         NEW c \in Daemon, NEW s \in Role
  PROVE  /\ ~Leased(eff, c, job[c][s].tep)
         /\ c # d \/ s # r => ~Leased(eff, c, job[c][s].ep)
<1>1. job[d][r].ep # 0 /\ LeasesDistinct
  BY DEF OnceInv, Leased, Holds
<1> QED
  BY <1>1 DEF Leased, Holds, LeasesDistinct

\* markDispatching
LEMMA MarkInv ==
  ASSUME OnceInv, NEW d \in Daemon, NEW r \in Role, Mark(d, r)
  PROVE  OnceInv'
<1>1. RestTypeOK' /\ sent' = sent /\ BeforeWire(job[d][r])
  BY DEF OnceInv, SlackTypeOK, RestTypeOK, Mark, At, BeforeWire
<1>2. CASE ~CanMark(eff, d, job[d][r].ep)
  BY <1>1, <1>2, GentleSame, GentleThrow DEF Mark, MarkDispatching
<1>3. CASE CanMark(eff, d, job[d][r].ep)
  <2> DEFINE j == [job[d][r] EXCEPT !.at = "recheck"]
  <2>1. job[d][r] \in Job /\ FenceInv(job[d][r], RetiredScope(d)) /\ eff \in Effect
    BY CallFacts DEF OnceInv, SlackTypeOK
  <2>2. eff' = [eff EXCEPT !.state = "dispatching"] /\ Set(d, r, j)
    BY <1>3 DEF Mark, MarkDispatching, Go
  <2>3. ~eff.wire /\ eff.state = "leased" /\ Leased(eff, d, job[d][r].ep)
    BY <1>3, OpenNotOnWire DEF CanMark, Leased
  <2>4. eff' \in Effect
    BY <2>1, <2>2 DEF Effect, States
  <2>5. /\ eff'.state = "dispatching" /\ eff'.owner = eff.owner /\ eff'.epoch = eff.epoch
        /\ eff'.receipt = eff.receipt /\ eff'.wire = eff.wire
    BY <2>1, <2>2 DEF Effect
  <2>6. /\ (sent' = IF eff'.wire THEN 1 ELSE 0) /\ SentNeverRefused' /\ RecordedSentWasSent'
        /\ eff'.epoch # 0
    BY <1>1, <2>3, <2>5 DEF OnceInv, SentNeverRefused, RecordedSentWasSent
  <2>7. ASSUME NEW c \in Daemon, NEW s \in Role
        PROVE  CallInv(c, job[c][s], eff')
    <3>1. CallInv(c, job[c][s], eff)
      BY CallFacts
    <3>2. ~Leased(eff', c, job[c][s].tep)
      BY <2>3, <2>5, OnlyHolder DEF Leased, Holds
    <3> QED
      BY <2>3, <2>5, <3>1, <3>2 DEF CallInv
  <2>8. /\ j \in Job /\ j.at = "recheck" /\ j.ep = job[d][r].ep /\ j.tep = job[d][r].tep
        /\ j.settle = job[d][r].settle
    BY <2>1, PlaceFacts, Zenon DEF Job
  <2> HIDE DEF j
  <2>9. CallInv(d, j, eff') /\ FenceInv(j, RetiredScope(d)) /\ LeasesDistinct'
    BY <2>1, <2>2, <2>3, <2>5, <2>7, <2>8, DistinctKept, Zenon DEF CallInv, FenceInv
  <2> QED
    BY <1>1, <2>2, <2>4, <2>6, <2>7, <2>8, <2>9, CallStep
<1> QED BY <1>2, <1>3

\* The frame is written.
LEMMA SendFrameInv ==
  ASSUME OnceInv, NEW d \in Daemon, NEW r \in Role, SendFrame(d, r)
  PROVE  OnceInv'
<1>1. RestTypeOK' /\ BeforeWire(job[d][r])
  BY DEF OnceInv, SlackTypeOK, RestTypeOK, SendFrame, At, BeforeWire
<1>2. CASE ~Boundary(d, r)
  BY <1>1, <1>2, GentleSame, GentleThrow DEF SendFrame
<1>3. CASE Boundary(d, r)
  <2> DEFINE j == [job[d][r] EXCEPT !.at = "sent"]
  <2>1. /\ job[d][r] \in Job /\ CallInv(d, job[d][r], eff)
        /\ FenceInv(job[d][r], RetiredScope(d)) /\ eff \in Effect
    BY CallFacts DEF OnceInv, SlackTypeOK
  <2>2. eff' = [eff EXCEPT !.wire = TRUE] /\ Set(d, r, j) /\ sent' = sent + 1
    BY <1>3 DEF SendFrame, Go
  <2>3. /\ eff.state = "dispatching" /\ Leased(eff, d, job[d][r].ep) /\ ~RetiredScope(d)
    BY <1>3 DEF Boundary, OwnsDispatching, Leased, Admitted
  <2>4. ~eff.wire
    BY <1>1, <2>1, <2>3 DEF CallInv
  <2>5. eff' \in Effect
    BY <2>1, <2>2, Zenon DEF Effect
  <2>6. /\ eff'.state = eff.state /\ eff'.owner = eff.owner /\ eff'.epoch = eff.epoch
        /\ eff'.receipt = eff.receipt /\ eff'.wire
    BY <2>1, <2>2 DEF Effect
  <2>7. /\ (sent' = IF eff'.wire THEN 1 ELSE 0) /\ SentNeverRefused' /\ RecordedSentWasSent'
        /\ eff'.epoch # 0
    BY <2>2, <2>3, <2>4, <2>6 DEF OnceInv, SentNeverRefused, RecordedSentWasSent
  <2>8. ASSUME NEW c \in Daemon, NEW s \in Role, c # d \/ s # r
        PROVE  CallInv(c, job[c][s], eff')
    <3>1. CallInv(c, job[c][s], eff)
      BY CallFacts
    <3>2. ~Leased(eff', c, job[c][s].ep) /\ ~Leased(eff', c, job[c][s].tep)
      <4>1. ~Leased(eff, c, job[c][s].ep) /\ ~Leased(eff, c, job[c][s].tep)
        BY <2>3, <2>8, OnlyHolder
      <4> QED
        BY <2>6, <4>1 DEF Leased, Holds
    <3> QED
      BY <2>6, <3>1, <3>2 DEF CallInv
  <2>9. /\ j \in Job /\ j.at = "sent" /\ j.ep = job[d][r].ep /\ j.tep = job[d][r].tep
        /\ j.settle = job[d][r].settle
    BY <2>1, PlaceFacts, Zenon DEF Job
  <2> HIDE DEF j
  <2>10. ~BeforeWire(j)
    BY <2>1, <2>3, <2>9, Zenon DEF BeforeWire, FenceInv
  <2>11. CallInv(d, j, eff') /\ FenceInv(j, RetiredScope(d)) /\ LeasesDistinct'
    BY <2>1, <2>2, <2>6, <2>9, <2>10, DistinctKept, Zenon DEF CallInv, FenceInv
  <2> QED
    BY <1>1, <2>2, <2>3, <2>5, <2>7, <2>8, <2>9, <2>11, CallStep, Zenon
<1> QED BY <1>2, <1>3

-----------------------------------------------------------------------------
(* The other steps of a dispatch *)

\* dispatchInbound reads the effect.
LEMMA LookInv ==
  ASSUME OnceInv, NEW d \in Daemon, NEW r \in Role, Look(d, r)
  PROVE  OnceInv'
<1>1. RestTypeOK' /\ Gentle(eff, eff') /\ sent' = sent
  BY GentleSame DEF OnceInv, SlackTypeOK, RestTypeOK, Look
<1>2. \/ Go(d, r, "final") \/ End(d, r) \/ Terminate(d, r, "final") \/ Go(d, r, "claim")
  BY DEF Look
<1> QED
  BY <1>1, <1>2, GentleGo, GentleEnd, GentleTerminate, Zenon DEF PlainPlaces

\* ensureLive and the checks before markDispatching
LEMMA EnterInv ==
  ASSUME OnceInv, NEW d \in Daemon, NEW r \in Role, Enter(d, r)
  PROVE  OnceInv'
<1>1. RestTypeOK' /\ sent' = sent /\ BeforeWire(job[d][r]) /\ job[d][r].ep \in Nat
  BY CallFacts, Zenon DEF OnceInv, SlackTypeOK, RestTypeOK, Enter, At, BeforeWire, Job
<1>2. CASE RetiredScope(d) \/ job[d][r].settle # "no"
  BY <1>1, <1>2, GentleSame, GentleFence, Zenon DEF Enter, EnsureLive
<1>3. CASE ~RetiredScope(d) /\ job[d][r].settle = "no"
  <2>1. Gentle(eff, eff')
    BY <1>1, <1>3, GentleRenew DEF Enter, EnsureLive
  <2>2. Go(d, r, "accept") \/ Go(d, r, "mark") \/ Terminate(d, r, "final")
    BY <1>3 DEF Enter, EnsureLive
  <2> QED
    BY <1>1, <2>1, <2>2, GentleBefore, GentleTerminate
<1> QED BY <1>2, <1>3

\* The checks after markDispatching, and the failures of the send.
LEMMA RecheckInv ==
  ASSUME OnceInv, NEW d \in Daemon, NEW r \in Role,
         Recheck(d, r) \/ PreSendFailure(d, r) \/ LoseResponse(d, r)
  PROVE  OnceInv'
<1>1. MaxFaults \in Nat
  BY BoundAssumption
<1>2. RestTypeOK' /\ Gentle(eff, eff') /\ sent' = sent
  BY <1>1, GentleSame
     DEF OnceInv, SlackTypeOK, RestTypeOK, Recheck, PreSendFailure, LoseResponse
<1>3. CASE Recheck(d, r)
  <2>1. BeforeWire(job[d][r]) /\ (Go(d, r, "send") \/ Throw(d, r, "stale"))
    BY <1>3 DEF Recheck, At, BeforeWire
  <2> QED
    BY <1>2, <2>1, GentleBefore, GentleThrow
<1>4. CASE PreSendFailure(d, r)
  <2>1. BeforeWire(job[d][r]) /\ Throw(d, r, "accept")
    BY <1>4 DEF PreSendFailure, At, BeforeWire
  <2> QED
    BY <1>2, <2>1, GentleThrow
<1>5. CASE LoseResponse(d, r)
  BY <1>2, <1>5, GentleThrow DEF LoseResponse
<1> QED BY <1>3, <1>4, <1>5

\* The response arrives: only what was on the wire is recorded as sent.
LEMMA RespondInv ==
  ASSUME OnceInv, NEW d \in Daemon, NEW r \in Role, Respond(d, r)
  PROVE  OnceInv'
<1>1. /\ RestTypeOK' /\ sent' = sent /\ job[d][r] \in Job /\ CallInv(d, job[d][r], eff)
      /\ FenceInv(job[d][r], RetiredScope(d)) /\ job[d][r].at = "sent"
  BY CallFacts, SMTT(20) DEF OnceInv, SlackTypeOK, RestTypeOK, Respond, At
<1>2. CASE RetiredScope(d) \/ job[d][r].settle # "no"
  BY <1>1, <1>2, GentleSame, GentleFence, Zenon DEF Respond, EnsureLive
<1>3. CASE ~RetiredScope(d) /\ job[d][r].settle = "no"
  <2>1. job[d][r].ep \in Nat
    BY <1>1, Zenon DEF Job
  <2>2. Gentle(eff, eff')
    BY <1>3, <2>1, GentleRenew DEF Respond, EnsureLive
  <2>3. Go(d, r, "doubt") \/ Go(d, r, "record") \/ Terminate(d, r, "final")
    BY <1>3 DEF Respond, EnsureLive
  <2>4. ASSUME Go(d, r, "record") PROVE OnceInv'
    <3> DEFINE j == [job[d][r] EXCEPT !.at = "record"]
    <3>1. /\ j \in Job /\ j.at = "record" /\ j.ep = job[d][r].ep /\ j.tep = job[d][r].tep
          /\ j.settle = job[d][r].settle
      BY <1>1, PlaceFacts, Zenon DEF Job
    <3>2. Set(d, r, j)
      BY <2>4 DEF Go
    <3> HIDE DEF j
    <3>3. CallInv(d, job[d][r], eff')
      BY <2>2, GentleCalls
    <3>4. CallInv(d, j, eff') /\ FenceInv(j, RetiredScope(d))
      BY <1>1, <1>3, <3>1, <3>3 DEF CallInv, FenceInv, BeforeWire
    <3> QED
      BY <1>1, <2>2, <3>1, <3>2, <3>4, GentleStep
  <2> QED
    BY <1>1, <2>2, <2>3, <2>4, GentleGo, GentleTerminate, Zenon DEF PlainPlaces
<1> QED BY <1>2, <1>3

\* The outcome is recorded.
LEMMA RecordInv ==
  ASSUME OnceInv, NEW d \in Daemon, NEW r \in Role,
         RecordSent(d, r) \/ RecordAccepted(d, r) \/ RecordUncertain(d, r)
  PROVE  OnceInv'
<1>1. RestTypeOK' /\ sent' = sent
  BY Zenon DEF OnceInv, SlackTypeOK, RestTypeOK, RecordSent, RecordAccepted, RecordUncertain,
         RecordOutcome
<1>2. \/ Go(d, r, "finish") \/ Go(d, r, "release") \/ Go(d, r, "finish uncertain")
      \/ End(d, r)
  BY Zenon DEF RecordSent, RecordAccepted, RecordUncertain, RecordOutcome
<1>3. CallInv(d, job[d][r], eff)
  BY CallFacts
<1>4. Gentle(eff, eff')
  <2>1. CASE RecordSent(d, r)
    <3>1. eff.wire
      BY <1>3, <2>1 DEF RecordSent, RecordOutcome, At, CallInv
    <3> QED
      BY <2>1, <3>1, GentleSettled, GentleSame
         DEF RecordSent, RecordOutcome, Record, Receipts
  <2>2. CASE RecordAccepted(d, r)
    <3>1. Leased(eff, d, job[d][r].ep) => ~eff.wire
      BY <1>3, <2>2 DEF RecordAccepted, RecordOutcome, At, CallInv, BeforeWire
    <3> QED
      BY <2>2, <3>1, GentleSettled, GentleSame
         DEF RecordAccepted, RecordOutcome, Record, Receipts
  <2>3. CASE RecordUncertain(d, r)
    BY <2>3, GentleSettled, GentleSame, Zenon DEF RecordUncertain, RecordOutcome, Record, Receipts
  <2> QED BY <2>1, <2>2, <2>3
<1> QED
  BY <1>1, <1>2, <1>4, GentleGo, GentleEnd, Zenon DEF PlainPlaces

\* The conversation's receipt is closed.
LEMMA CompleteInv ==
  ASSUME OnceInv, NEW d \in Daemon, NEW r \in Role,
         \/ FinishDispatch(d, r) \/ FinishUncertain(d, r) \/ ReleaseDispatch(d, r)
         \/ FinalizeTerminal(d, r)
  PROVE  OnceInv'
<1>1. map \in [open : BOOLEAN, receipt : BOOLEAN, seen : BOOLEAN]
  BY DEF OnceInv, SlackTypeOK
<1>2. map' \in [open : BOOLEAN, receipt : BOOLEAN, seen : BOOLEAN]
  BY <1>1, Zenon DEF FinishDispatch, FinishUncertain, ReleaseDispatch, FinalizeTerminal, Complete
<1>3. RestTypeOK' /\ Gentle(eff, eff') /\ sent' = sent /\ End(d, r)
  BY <1>2, GentleSame, Zenon
     DEF OnceInv, SlackTypeOK, RestTypeOK, FinishDispatch, FinishUncertain,
         ReleaseDispatch, FinalizeTerminal, Complete
<1> QED
  BY <1>3, GentleEnd

-----------------------------------------------------------------------------
(* Terminalizing *)

\* A call without a lease holds none.
LEMMA NoLeaseZero ==
  ASSUME OnceInv, NEW d \in Daemon PROVE ~Leased(eff, d, 0)
BY DEF OnceInv, Leased, Holds

\* terminalizeInboundEffect returned true.
LEMMA TerminatedInv ==
  ASSUME OnceInv, Gentle(eff, eff'), sent' = sent, RestTypeOK',
         NEW d \in Daemon, NEW r \in Role, Terminated(d, r)
  PROVE  OnceInv'
BY GentleGo, GentleEnd, Zenon DEF Terminated, PlainPlaces

\* terminalizeInboundEffect reads the effect.
LEMMA TermReadInv ==
  ASSUME OnceInv, NEW d \in Daemon, NEW r \in Role, TermRead(d, r)
  PROVE  OnceInv'
<1> DEFINE j == [job[d][r] EXCEPT !.at = "decide", !.tep = 0]
<1>1. RestTypeOK' /\ Gentle(eff, eff') /\ sent' = sent /\ eff' = eff
  BY GentleSame DEF OnceInv, SlackTypeOK, RestTypeOK, TermRead
<1>2. Terminated(d, r) \/ End(d, r) \/ Go(d, r, "reclaim") \/ Set(d, r, j)
  BY DEF TermRead
<1>3. /\ job[d][r] \in Job /\ CallInv(d, job[d][r], eff)
      /\ FenceInv(job[d][r], RetiredScope(d)) /\ eff.epoch \in Nat
  BY CallFacts DEF OnceInv, SlackTypeOK, Effect
<1>4. /\ j \in Job /\ j.at = "decide" /\ j.ep = job[d][r].ep /\ j.tep = 0
      /\ j.settle = job[d][r].settle
  BY <1>3, PlaceFacts, Zenon DEF Job
<1> HIDE DEF j
<1>5. ~Leased(eff, d, j.tep)
  BY <1>4, NoLeaseZero DEF Leased, Holds
<1>6. BeforeWire(j) => BeforeWire(job[d][r])
  BY <1>4 DEF BeforeWire
<1>7. j.ep <= eff.epoch /\ j.tep <= eff.epoch
  <2>1. job[d][r].ep <= eff.epoch
    BY <1>3 DEF CallInv
  <2>2. 0 <= eff.epoch
    BY <1>3
  <2> QED
    BY <1>4, <2>1, <2>2
<1>8. CallInv(d, j, eff)
  BY <1>3, <1>4, <1>5, <1>6, <1>7 DEF CallInv
<1>9. FenceInv(j, RetiredScope(d))
  BY <1>3, <1>4, Zenon DEF FenceInv
<1> QED
  BY <1>1, <1>2, <1>4, <1>8, <1>9, TerminatedInv, GentleEnd, GentleGo, GentleStep, Zenon DEF PlainPlaces

\* terminalizeInboundEffect terminalizes it.
LEMMA TermDecideInv ==
  ASSUME OnceInv, NEW d \in Daemon, NEW r \in Role, TermDecide(d, r)
  PROVE  OnceInv'
<1>1. RestTypeOK' /\ sent' = sent
  BY SMTT(20) DEF OnceInv, SlackTypeOK, RestTypeOK, TermDecide
<1>2. /\ job[d][r].tep \in Nat
      /\ Leased(eff, d, job[d][r].tep) => ~eff.wire
  BY CallFacts, OpenNotOnWire, Zenon DEF TermDecide, At, CallInv, Job
<1>3. Gentle(eff, eff')
  BY <1>2, GentleTerminalize, SMTT(20) DEF TermDecide, Receipts
<1> QED
  BY <1>1, <1>3, TerminatedInv, GentleEnd DEF TermDecide

\* A work is told to terminalize: only under a retired scope, and not if it
\* may be on the wire.
LEMMA TerminalizeWorkInv ==
  ASSUME OnceInv, NEW d \in Daemon, NEW r \in Role, TerminalizeWork(d, r)
  PROVE  OnceInv'
<1> DEFINE v == IF eff.state = "dispatching" THEN "uncertain" ELSE "decide"
           j == [job[d][r] EXCEPT !.settle = v]
<1>1. RestTypeOK' /\ Gentle(eff, eff') /\ sent' = sent /\ eff' = eff /\ Set(d, r, j)
  BY GentleSame DEF OnceInv, SlackTypeOK, RestTypeOK, TerminalizeWork
<1>2. /\ job[d][r] \in Job /\ CallInv(d, job[d][r], eff)
      /\ FenceInv(job[d][r], RetiredScope(d))
  BY CallFacts
<1>3. v \in {"uncertain", "decide"} /\ (v = "decide" => eff.state # "dispatching")
  OBVIOUS
<1> HIDE DEF v
<1>4. /\ j \in Job /\ j.at = job[d][r].at /\ j.then = job[d][r].then
      /\ j.ep = job[d][r].ep /\ j.tep = job[d][r].tep /\ j.settle = v
  BY <1>2, <1>3, Zenon DEF Job
<1> HIDE DEF j
<1>5. RetiredScope(d)
  BY <1>2 DEF TerminalizeWork, FenceInv
<1>6. Leased(eff, d, job[d][r].ep) /\ v = "decide" => ~eff.wire
  BY <1>3, OpenNotOnWire DEF Leased
<1>7. BeforeWire(j) => BeforeWire(job[d][r]) \/ v = "decide"
  BY <1>4, SMTT(20) DEF BeforeWire
<1>8. CallInv(d, j, eff)
  BY <1>2, <1>4, <1>6, <1>7 DEF CallInv
<1>9. FenceInv(j, RetiredScope(d)) /\ j.at \notin {"idle", "detached"}
  BY <1>4, <1>5 DEF FenceInv, TerminalizeWork, Working
<1> QED
  BY <1>1, <1>4, <1>8, <1>9, GentleStep

\* The work is settled in the journal.
LEMMA SettleWorkInv ==
  ASSUME OnceInv, NEW d \in Daemon, NEW r \in Role, SettleWork(d, r)
  PROVE  OnceInv'
<1> DEFINE w == job[d][r].settle
           v == IF w = "decide" /\ eff'.state # "terminal" THEN "decide again" ELSE "done"
           j == [job[d][r] EXCEPT !.settle = v]
<1>1. RestTypeOK' /\ sent' = sent /\ Set(d, r, j)
  BY Zenon DEF OnceInv, SlackTypeOK, RestTypeOK, SettleWork
<1>2. /\ job[d][r] \in Job /\ CallInv(d, job[d][r], eff)
      /\ FenceInv(job[d][r], RetiredScope(d))
  BY CallFacts
<1>3. job[d][r].ep \in Nat
  BY <1>2, Zenon DEF Job
<1>4. Gentle(eff, eff')
  <2>1. CASE w = "uncertain"
    BY <2>1, GentleSettled, GentleSame DEF SettleWork, Record, Receipts
  <2>2. CASE w = "decide"
    <3>1. Leased(eff, d, job[d][r].ep) => ~eff.wire
      BY <1>2, <2>2 DEF CallInv, BeforeWire
    <3> QED
      BY <1>3, <2>2, <3>1, GentleTerminalize, Zenon DEF SettleWork, Receipts
  <2>3. CASE w \notin {"uncertain", "decide"}
    BY <2>3, NoLeaseZero, GentleTerminalize, Zenon DEF SettleWork, Receipts
  <2> QED BY <2>1, <2>2, <2>3
<1>5. v \in {"decide again", "done"} /\ (v = "decide again" => w = "decide")
  OBVIOUS
<1> HIDE DEF v
<1>6. /\ j \in Job /\ j.at = job[d][r].at /\ j.then = job[d][r].then
      /\ j.ep = job[d][r].ep /\ j.tep = job[d][r].tep /\ j.settle = v
  BY <1>2, <1>5, Zenon DEF Job
<1> HIDE DEF j
<1>7. BeforeWire(j) => BeforeWire(job[d][r])
  BY <1>5, <1>6, Zenon DEF BeforeWire
<1>8. CallInv(d, j, eff')
  BY <1>4, <1>6, <1>7, GentleCalls DEF CallInv
<1>9. FenceInv(j, RetiredScope(d))
  BY <1>2, <1>5, <1>6, Zenon DEF FenceInv
<1>10. r = "retire" /\ RetiredScope(d) => j.at \notin {"idle", "detached"}
  BY <1>6 DEF RetiredScope
<1> QED
  BY <1>1, <1>4, <1>6, <1>8, <1>9, <1>10, GentleStep

\* A call goes on once its work is settled.
LEMMA LeaveFenceInv ==
  ASSUME OnceInv, NEW d \in Daemon, NEW r \in Role, LeaveFence(d, r)
  PROVE  OnceInv'
<1>1. RestTypeOK' /\ Gentle(eff, eff') /\ sent' = sent
  BY GentleSame DEF OnceInv, SlackTypeOK, RestTypeOK, LeaveFence
<1>2. \/ Terminate(d, r, "final") \/ Go(d, r, "doubt")
      \/ Go(d, r, "accept") /\ BeforeWire(job[d][r])
  BY DEF LeaveFence, At, BeforeWire
<1> QED
  BY <1>1, <1>2, GentleTerminate, GentleGo, GentleBefore, Zenon DEF PlainPlaces

\* A step of dispatchEffect, of terminalizeInboundEffect or of a work.
LEMMA DispatchStepInv ==
  ASSUME OnceInv, NEW d \in Daemon, NEW r \in Role, DispatchStep(d, r)
  PROVE  OnceInv'
BY LookInv, ClaimEffectInv, EnterInv, MarkInv, RecheckInv, SendFrameInv, RespondInv, RecordInv,
   CompleteInv, TermReadInv, TermReclaimInv, TermDecideInv, TerminalizeWorkInv,
   SettleWorkInv, LeaveFenceInv, SMTT(20) DEF DispatchStep

-----------------------------------------------------------------------------
(* The handler, the drain and the retirement *)

\* handleEnvelope takes an envelope.
LEMMA HandleEnvelopeInv ==
  ASSUME OnceInv, NEW d \in Daemon, HandleEnvelope(d)
  PROVE  OnceInv'
<1> DEFINE j == [Idle EXCEPT !.at = "enqueue", !.cap = TRUE]
<1>1. RestTypeOK' /\ Gentle(eff, eff') /\ sent' = sent /\ Set(d, "handle", j)
  BY GentleSame, BoundAssumption DEF OnceInv, SlackTypeOK, RestTypeOK, HandleEnvelope
<1>2. j \in Job
  BY IdleFacts, PlaceFacts, Zenon DEF Job
<1>3. j.at = "enqueue" /\ j.ep = 0 /\ j.tep = 0 /\ j.settle = "no"
  BY IdleFacts, Zenon DEF Job
<1> HIDE DEF j
<1> QED
  BY <1>1, <1>2, <1>3, GentlePlain, Zenon DEF PlainPlaces, Role

\* claimInbound
LEMMA HandlerStepInv ==
  ASSUME OnceInv, NEW d \in Daemon, HandlerStep(d)
  PROVE  OnceInv'
<1>1. map \in [open : BOOLEAN, receipt : BOOLEAN, seen : BOOLEAN]
  BY DEF OnceInv, SlackTypeOK
<1>2. map' \in [open : BOOLEAN, receipt : BOOLEAN, seen : BOOLEAN]
  <2>1. map' = map \/ map' = [map EXCEPT !.receipt = TRUE]
    BY DEF HandlerStep, EnqueueEffect, Admit, Ack
  <2> QED
    BY <1>1, <2>1, Zenon
<1>3. RestTypeOK' /\ sent' = sent
  BY <1>2, Zenon DEF OnceInv, SlackTypeOK, RestTypeOK, HandlerStep, EnqueueEffect, Admit, Ack
<1>4. CASE EnqueueEffect(d)
  BY <1>3, <1>4, GentleEnqueue, GentleGo, Zenon DEF EnqueueEffect, PlainPlaces, Role
<1>5. CASE Admit(d)
  <2>1. Gentle(eff, eff') /\ (Go(d, "handle", "ack") \/ Terminate(d, "handle", "idle"))
    BY <1>5, GentleSame DEF Admit
  <2> QED
    BY <1>3, <2>1, GentleGo, GentleTerminate, Zenon DEF PlainPlaces, Role
<1>6. CASE Ack(d)
  <2> DEFINE j == [job[d]["handle"] EXCEPT !.at = "look", !.inflight = TRUE]
  <2>1. Gentle(eff, eff') /\ (End(d, "handle") \/ Set(d, "handle", j))
    BY <1>6, GentleSame DEF Ack
  <2>2. job[d]["handle"] \in Job
    BY CallFacts DEF Role
  <2>3. j \in Job
    BY <2>2, PlaceFacts, Zenon DEF Job
  <2>4. /\ j.at = "look" /\ j.ep = job[d]["handle"].ep /\ j.tep = job[d]["handle"].tep
        /\ j.settle = job[d]["handle"].settle
    BY <2>2, Zenon DEF Job
  <2> HIDE DEF j
  <2> QED
    BY <1>3, <2>1, <2>3, <2>4, GentleEnd, GentlePlain, Zenon DEF PlainPlaces, Role
<1> QED
  BY <1>4, <1>5, <1>6 DEF HandlerStep

\* drainPendingDispatches
LEMMA DrainStepInv ==
  ASSUME OnceInv, NEW d \in Daemon, DrainStep(d)
  PROVE  OnceInv'
<1>1. map \in [open : BOOLEAN, receipt : BOOLEAN, seen : BOOLEAN]
  BY DEF OnceInv, SlackTypeOK
<1>2. map' \in [open : BOOLEAN, receipt : BOOLEAN, seen : BOOLEAN]
  <2>1. map' = map \/ map' = [map EXCEPT !.receipt = TRUE]
    BY DEF DrainStep, DrainBegin, DrainReceipt, DrainRecover, DrainOrphan, AdoptOrphan, Adopted
  <2> QED
    BY <1>1, <2>1, Zenon
<1>3. RestTypeOK' /\ sent' = sent
  BY <1>2 DEF OnceInv, SlackTypeOK, RestTypeOK, DrainStep, DrainBegin, DrainReceipt,
              DrainRecover, DrainOrphan, AdoptOrphan, Adopted
<1>4. "drain" \in Role /\ job[d]["drain"] \in Job
  BY CallFacts DEF Role
<1>5. CASE DrainBegin(d)
  <2> DEFINE p == IF map.receipt THEN "drain" ELSE "orphan"
             n == Mapping
             j == [Idle EXCEPT !.at = p, !.snap = n]
  <2>1. Gentle(eff, eff') /\ Set(d, "drain", j)
    BY <1>5, GentleSame DEF DrainBegin
  <2>2. p \in {"drain", "orphan"} /\ n \in {"open", "closed"}
    BY DEF Mapping
  <2> HIDE DEF p, n
  <2>3. j \in Job
    BY <2>2, IdleFacts, PlaceFacts, Zenon DEF Job
  <2>4. j.at = p /\ j.ep = 0 /\ j.tep = 0 /\ j.settle = "no"
    BY IdleFacts, Zenon DEF Job
  <2> HIDE DEF j
  <2> QED
    BY <1>3, <1>4, <2>1, <2>2, <2>3, <2>4, GentlePlain, Zenon DEF PlainPlaces
<1>6. CASE DrainReceipt(d)
  <2> DEFINE j == [job[d]["drain"] EXCEPT !.at = "look", !.cap = TRUE, !.inflight = TRUE]
  <2>1. Gentle(eff, eff')
    BY <1>6, GentleSame DEF DrainReceipt
  <2>2. \/ Go(d, "drain", "orphan") \/ Go(d, "drain", "recover") \/ Go(d, "drain", "final")
        \/ End(d, "drain") \/ Terminate(d, "drain", "final") \/ Set(d, "drain", j)
    BY <1>6 DEF DrainReceipt
  <2>3. j \in Job
    BY <1>4, PlaceFacts, Zenon DEF Job
  <2>4. /\ j.at = "look" /\ j.ep = job[d]["drain"].ep /\ j.tep = job[d]["drain"].tep
        /\ j.settle = job[d]["drain"].settle
    BY <1>4, Zenon DEF Job
  <2> HIDE DEF j
  <2>5. CASE Set(d, "drain", j)
    BY <1>3, <1>4, <2>1, <2>3, <2>4, <2>5, GentlePlain, Zenon DEF PlainPlaces
  <2> QED
    BY <1>3, <1>4, <2>1, <2>2, <2>5, GentleGo, GentleEnd, GentleTerminate, Zenon DEF PlainPlaces
<1>7. CASE DrainRecover(d)
  BY <1>3, <1>4, <1>7, GentleRecover, GentleEnd, GentleTerminate, SMTT(20) DEF DrainRecover
<1>8. CASE DrainOrphan(d)
  <2> DEFINE n == IF eff.state = "leased" /\ eff.live THEN "leased" ELSE "none"
             j == [job[d]["drain"] EXCEPT !.at = "adopt", !.snap = n]
  <2>1. Gentle(eff, eff') /\ (End(d, "drain") \/ Set(d, "drain", j))
    BY <1>8, GentleRecover DEF DrainOrphan
  <2>2. n \in {"leased", "none"}
    OBVIOUS
  <2> HIDE DEF n
  <2>3. j \in Job
    <3>1. /\ "adopt" \in Places
          /\ n \in {"none", "open", "closed", "receipt", "leased"}
      BY <2>2 DEF Places
    <3> QED
      BY <1>4, <3>1, Zenon DEF Job
  <2>4. /\ j.at = "adopt" /\ j.ep = job[d]["drain"].ep /\ j.tep = job[d]["drain"].tep
        /\ j.settle = job[d]["drain"].settle
    BY <1>4, Zenon DEF Job
  <2> HIDE DEF j
  <2> QED
    BY <1>3, <1>4, <2>1, <2>3, <2>4, GentleEnd, GentlePlain, Zenon DEF PlainPlaces
<1>9. CASE AdoptOrphan(d)
  <2>1. Gentle(eff, eff') /\ (Go(d, "drain", "adopted") \/ Terminate(d, "drain", "idle"))
    BY <1>9, GentleSame DEF AdoptOrphan
  <2> QED
    BY <1>3, <1>4, <2>1, GentleGo, GentleTerminate, Zenon DEF PlainPlaces
<1>10. CASE Adopted(d)
  <2> DEFINE j == [job[d]["drain"] EXCEPT !.at = "look", !.cap = TRUE]
  <2>1. /\ Gentle(eff, eff')
        /\ Terminate(d, "drain", "final") \/ End(d, "drain") \/ Set(d, "drain", j)
    BY <1>10, GentleSame DEF Adopted
  <2>2. j \in Job
    BY <1>4, PlaceFacts, Zenon DEF Job
  <2>3. /\ j.at = "look" /\ j.ep = job[d]["drain"].ep /\ j.tep = job[d]["drain"].tep
        /\ j.settle = job[d]["drain"].settle
    BY <1>4, Zenon DEF Job
  <2> HIDE DEF j
  <2> QED
    BY <1>3, <1>4, <2>1, <2>2, <2>3, GentleTerminate, GentleEnd, GentlePlain, Zenon DEF PlainPlaces
<1> QED
  BY <1>5, <1>6, <1>7, <1>8, <1>9, <1>10 DEF DrainStep

-----------------------------------------------------------------------------
(* Steps of a whole daemon *)

\* The invariant after a step that changes calls of one daemon, none of which
\* takes a lease, and leaves the record alone.
LEMMA DaemonStep ==
  ASSUME OnceInv, eff' = eff, sent' = sent, RestTypeOK',
         NEW d \in Daemon, NEW g \in [Role -> Job], job' = [job EXCEPT ![d] = g],
         \A r \in Role :
           /\ g[r].ep \in {0, job[d][r].ep} /\ g[r].tep \in {0, job[d][r].tep}
           /\ CallInv(d, g[r], eff)
           /\ FenceInv(g[r], g["retire"].at \notin {"idle", "detached"})
  PROVE  OnceInv'
<1>1. job \in [Daemon -> [Role -> Job]] /\ LeasesDistinct
  BY DEF OnceInv, SlackTypeOK
<1>2. SlackTypeOK'
  BY <1>1 DEF SlackTypeOK, RestTypeOK, OnceInv
<1>3. job'[d] = g /\ \A c \in Daemon : c # d => job'[c] = job[c]
  BY <1>1
<1>4. ASSUME NEW c \in Daemon, NEW s \in Role
      PROVE  CallInv(c, job'[c][s], eff') /\ FenceInv(job'[c][s], RetiredScope(c)')
  <2>1. CASE c = d
    BY <1>3, <2>1 DEF RetiredScope
  <2>2. CASE c # d
    BY <1>3, <2>2, SMTT(20) DEF RetiredScope, OnceInv
  <2> QED BY <2>1, <2>2
<1>5. ASSUME NEW c \in Daemon, NEW s \in Role, NEW t \in Role
      PROVE  /\ job'[c][s].ep # 0 => job'[c][s].ep # job'[c][t].tep
             /\ s # t /\ job'[c][s].ep # 0 => job'[c][s].ep # job'[c][t].ep
             /\ s # t /\ job'[c][s].tep # 0 => job'[c][s].tep # job'[c][t].tep
  <2>1. /\ job[c][s].ep # 0 => job[c][s].ep # job[c][t].tep
        /\ s # t /\ job[c][s].ep # 0 => job[c][s].ep # job[c][t].ep
        /\ s # t /\ job[c][s].tep # 0 => job[c][s].tep # job[c][t].tep
    BY <1>1 DEF LeasesDistinct
  <2>2. /\ job'[c][s].ep \in {0, job[c][s].ep} /\ job'[c][s].tep \in {0, job[c][s].tep}
        /\ job'[c][t].ep \in {0, job[c][t].ep} /\ job'[c][t].tep \in {0, job[c][t].tep}
    BY <1>3, SMTT(20)
  <2> QED
    BY <2>1, <2>2
<1>6. LeasesDistinct'
  BY <1>5 DEF LeasesDistinct
<1>7. (SentNeverRefused /\ RecordedSentWasSent)'
  BY DEF OnceInv, SentNeverRefused, RecordedSentWasSent
<1> QED
  BY <1>2, <1>4, <1>6, <1>7 DEF OnceInv

\* The invariant after a step that changes no call.
LEMMA QuietStep ==
  ASSUME OnceInv, Gentle(eff, eff'), sent' = sent, RestTypeOK', job' = job
  PROVE  OnceInv'
<1>1. SlackTypeOK' /\ (sent' = IF eff'.wire THEN 1 ELSE 0)
  BY DEF SlackTypeOK, RestTypeOK, OnceInv, Gentle
<1>2. SentNeverRefused' /\ RecordedSentWasSent'
  BY DEF Gentle, SentNeverRefused, RecordedSentWasSent
<1>3. eff'.state \in {"leased", "dispatching"} => eff'.epoch # 0
  BY DEF OnceInv, Gentle
<1>4. ASSUME NEW c \in Daemon, NEW s \in Role
      PROVE  CallInv(c, job'[c][s], eff') /\ FenceInv(job'[c][s], RetiredScope(c)')
  BY GentleCalls, SMTT(20) DEF RetiredScope, OnceInv
<1>5. LeasesDistinct'
  BY DEF OnceInv, LeasesDistinct
<1> QED
  BY <1>1, <1>2, <1>3, <1>4, <1>5 DEF OnceInv

\* A call that is not there satisfies everything.
LEMMA IdleCall ==
  ASSUME OnceInv, NEW d \in Daemon, NEW j \in Job, j.at \in {"idle", "detached"},
         j.ep = 0, j.tep = 0, j.settle = "no", NEW b
  PROVE  CallInv(d, j, eff) /\ FenceInv(j, b)
<1>1. eff.epoch \in Nat
  BY DEF OnceInv, SlackTypeOK, Effect
<1> QED
  BY <1>1 DEF CallInv, FenceInv, BeforeWire

\* tryReleaseRetiredProviderWorkScope: no work is left that relied on it.
LEMMA RetireReleaseInv ==
  ASSUME OnceInv, NEW d \in Daemon, RetireRelease(d)
  PROVE  OnceInv'
<1> DEFINE j == [job[d]["retire"] EXCEPT !.at = "idle"]
           g == [job[d] EXCEPT !["retire"] = j]
<1>1. RestTypeOK' /\ eff' = eff /\ sent' = sent
  BY DEF OnceInv, SlackTypeOK, RestTypeOK, RetireRelease
<1>2. job \in [Daemon -> [Role -> Job]] /\ "retire" \in Role
  BY DEF OnceInv, SlackTypeOK, Role
<1>3. job' = [job EXCEPT ![d] = g]
  BY <1>2 DEF RetireRelease, Go, Set
<1>4. job[d]["retire"] \in Job /\ CallInv(d, job[d]["retire"], eff)
  BY <1>2, CallFacts
<1>5. /\ j \in Job /\ j.at = "idle" /\ j.ep = job[d]["retire"].ep
      /\ j.tep = job[d]["retire"].tep /\ j.settle = job[d]["retire"].settle
  BY <1>4, PlaceFacts, Zenon DEF Job
<1> HIDE DEF j
<1>6. /\ g \in [Role -> Job] /\ g["retire"] = j
      /\ \A r \in Role : r # "retire" => g[r] = job[d][r]
  BY <1>2, <1>5
<1>7. \A r \in Role : FenceInv(job[d][r], FALSE)
  BY Zenon DEF RetireRelease, Working, Settling, FenceInv
<1>8. FenceInv(j, FALSE) /\ CallInv(d, j, eff)
  BY <1>2, <1>4, <1>5, <1>7, Zenon DEF FenceInv, CallInv, BeforeWire
<1> HIDE DEF g
<1>9. ASSUME NEW r \in Role
      PROVE  /\ g[r].ep \in {0, job[d][r].ep} /\ g[r].tep \in {0, job[d][r].tep}
             /\ CallInv(d, g[r], eff)
             /\ FenceInv(g[r], g["retire"].at \notin {"idle", "detached"})
  <2>1. CASE r = "retire"
    BY <1>5, <1>6, <1>8, <2>1, Zenon DEF FenceInv
  <2>2. CASE r # "retire"
    BY <1>6, <1>7, <2>2, CallFacts, Zenon DEF FenceInv
  <2> QED BY <2>1, <2>2, SMTT(20)
<1> QED
  BY <1>1, <1>3, <1>6, <1>9, DaemonStep, Zenon

\* retireAttachment
LEMMA RetireStepInv ==
  ASSUME OnceInv, NEW d \in Daemon, RetireStep(d)
  PROVE  OnceInv'
<1>1. "retire" \in Role /\ job[d]["retire"] \in Job
  BY CallFacts DEF Role
<1>2. CASE RetireFence(d) \/ RetireDrained(d)
  <2>1. /\ RestTypeOK' /\ Gentle(eff, eff') /\ sent' = sent
        /\ Go(d, "retire", "close") \/ Terminate(d, "retire", "linger") \/ End(d, "retire")
    BY <1>2, GentleSame, SMTT(20) DEF OnceInv, SlackTypeOK, RestTypeOK, RetireFence, RetireDrained
  <2> QED
    BY <1>1, <2>1, GentleGo, GentleTerminate, GentleEnd, Zenon DEF PlainPlaces
<1>3. CASE RetireClose(d)
  <2> DEFINE n == IF map.receipt THEN "receipt" ELSE "none"
             j == [job[d]["retire"] EXCEPT !.at = "draining", !.snap = n]
  <2>1. map' \in [open : BOOLEAN, receipt : BOOLEAN, seen : BOOLEAN]
    BY <1>3, Zenon DEF OnceInv, SlackTypeOK, RetireClose
  <2>2. RestTypeOK' /\ Gentle(eff, eff') /\ sent' = sent /\ Set(d, "retire", j)
    BY <1>3, <2>1, GentleSame DEF OnceInv, SlackTypeOK, RestTypeOK, RetireClose
  <2>3. n \in {"receipt", "none"}
    OBVIOUS
  <2> HIDE DEF n
  <2>4. j \in Job
    <3>1. /\ "draining" \in Places
          /\ n \in {"none", "open", "closed", "receipt", "leased"}
      BY <2>3 DEF Places
    <3> QED
      BY <1>1, <3>1, Zenon DEF Job
  <2>5. /\ j.at = "draining" /\ j.ep = job[d]["retire"].ep /\ j.tep = job[d]["retire"].tep
        /\ j.settle = job[d]["retire"].settle
    BY <1>1, Zenon DEF Job
  <2> HIDE DEF j
  <2> QED
    BY <1>1, <2>2, <2>4, <2>5, GentlePlain, Zenon DEF PlainPlaces
<1>4. CASE RetireRelease(d)
  BY <1>4, RetireReleaseInv, SMTT(20)
<1> QED
  BY <1>2, <1>3, <1>4 DEF RetireStep

-----------------------------------------------------------------------------
(* Time and processes *)

\* The router detaches the session.
LEMMA DetachInv ==
  ASSUME OnceInv, NEW d \in Daemon, Detach(d)
  PROVE  OnceInv'
<1> DEFINE i == [Idle EXCEPT !.at = "detached"]
           g == [r \in Role |-> IF r = "retire" THEN i ELSE [job[d][r] EXCEPT !.cap = FALSE]]
<1>1. RestTypeOK' /\ eff' = eff /\ sent' = sent /\ job' = [job EXCEPT ![d] = g]
  BY BoundAssumption DEF OnceInv, SlackTypeOK, RestTypeOK, Detach
<1>2. i \in Job /\ i.at = "detached" /\ i.ep = 0 /\ i.tep = 0 /\ i.settle = "no"
  BY IdleFacts, PlaceFacts, Zenon DEF Job
<1> HIDE DEF i
<1>3. ASSUME NEW r \in Role, r # "retire"
      PROVE  /\ g[r] \in Job /\ g[r].at = job[d][r].at /\ g[r].then = job[d][r].then
             /\ g[r].ep = job[d][r].ep /\ g[r].tep = job[d][r].tep
             /\ g[r].settle = job[d][r].settle
  <2>1. job[d][r] \in Job /\ g[r] = [job[d][r] EXCEPT !.cap = FALSE]
    BY <1>3, CallFacts
  <2> HIDE DEF g
  <2> QED
    BY <2>1, Zenon DEF Job
<1>4. g["retire"] = i /\ "retire" \in Role
  BY DEF Role
<1>5. g \in [Role -> Job]
  BY <1>2, <1>3, <1>4
<1> HIDE DEF g
<1>6. ~RetiredScope(d)
  BY DEF Detach, At, RetiredScope
<1>7. ASSUME NEW r \in Role
      PROVE  /\ g[r].ep \in {0, job[d][r].ep} /\ g[r].tep \in {0, job[d][r].tep}
             /\ CallInv(d, g[r], eff)
             /\ FenceInv(g[r], g["retire"].at \notin {"idle", "detached"})
  <2>1. CASE r = "retire"
    BY <1>2, <1>4, <2>1, IdleCall
  <2>2. CASE r # "retire"
    <3>1. CallInv(d, job[d][r], eff) /\ FenceInv(job[d][r], RetiredScope(d))
      BY CallFacts
    <3>2. BeforeWire(g[r]) => BeforeWire(job[d][r])
      BY <1>3, <2>2, SMTT(20) DEF BeforeWire
    <3>3. CallInv(d, g[r], eff)
      BY <1>3, <2>2, <3>1, <3>2, Zenon DEF CallInv
    <3> QED
      BY <1>3, <1>6, <2>2, <3>1, <3>3, Zenon DEF FenceInv
  <2> QED BY <2>1, <2>2
<1> QED
  BY <1>1, <1>5, <1>7, DaemonStep, Zenon

\* stop() invalidates every work.
LEMMA StopDeadlineInv ==
  ASSUME OnceInv, NEW d \in Daemon, StopDeadline(d)
  PROVE  OnceInv'
<1> DEFINE g == [r \in Role |->
                   IF Working(d, r) /\ job[d][r].settle = "no"
                   THEN [job[d][r] EXCEPT !.settle = "uncertain"] ELSE job[d][r]]
<1>1. RestTypeOK' /\ eff' = eff /\ sent' = sent /\ job' = [job EXCEPT ![d] = g]
  BY BoundAssumption DEF OnceInv, SlackTypeOK, RestTypeOK, StopDeadline
<1>2. ASSUME NEW r \in Role
      PROVE  /\ g[r] \in Job /\ g[r].at = job[d][r].at /\ g[r].then = job[d][r].then
             /\ g[r].ep = job[d][r].ep /\ g[r].tep = job[d][r].tep
             /\ g[r].settle \in {"uncertain", job[d][r].settle}
  <2>1. /\ job[d][r] \in Job
        /\ g[r] = job[d][r] \/ g[r] = [job[d][r] EXCEPT !.settle = "uncertain"]
    BY CallFacts
  <2> HIDE DEF g
  <2> QED
    BY <2>1, Zenon DEF Job
<1>3. g \in [Role -> Job]
  BY <1>2
<1> HIDE DEF g
<1>4. "retire" \in Role
  BY SMTT(20) DEF Role
<1>5. ASSUME NEW r \in Role
      PROVE  /\ g[r].ep \in {0, job[d][r].ep} /\ g[r].tep \in {0, job[d][r].tep}
             /\ CallInv(d, g[r], eff)
             /\ FenceInv(g[r], g["retire"].at \notin {"idle", "detached"})
  <2>1. CallInv(d, job[d][r], eff) /\ FenceInv(job[d][r], RetiredScope(d))
    BY CallFacts
  <2>2. BeforeWire(g[r]) => BeforeWire(job[d][r])
    BY <1>2, SMTT(20) DEF BeforeWire
  <2>3. CallInv(d, g[r], eff)
    BY <1>2, <2>1, <2>2 DEF CallInv
  <2>4. RetiredScope(d) => g["retire"].at \notin {"idle", "detached"}
    BY <1>2, <1>4 DEF RetiredScope
  <2> QED
    BY <1>2, <2>1, <2>3, <2>4, Zenon DEF FenceInv
<1> QED
  BY <1>1, <1>3, <1>5, DaemonStep, Zenon

\* A daemon stops or crashes.
LEMMA DownInv ==
  ASSUME OnceInv, NEW d \in Daemon, Crash(d) \/ Exit(d)
  PROVE  OnceInv'
<1> DEFINE g == [r \in Role |-> Idle]
<1>1. RestTypeOK' /\ eff' = eff /\ sent' = sent /\ job' = [job EXCEPT ![d] = g]
  BY BoundAssumption DEF OnceInv, SlackTypeOK, RestTypeOK, Crash, Exit, Down
<1>2. g \in [Role -> Job] /\ \A r \in Role : g[r] = Idle
  BY IdleFacts
<1> HIDE DEF g
<1>3. \A r \in Role : CallInv(d, g[r], eff)
                    /\ FenceInv(g[r], g["retire"].at \notin {"idle", "detached"})
  BY <1>2, IdleFacts, IdleCall
<1> QED
  BY <1>1, <1>2, <1>3, IdleFacts, DaemonStep, Zenon

\* Leases are renewed and run out; the session is attached, a daemon starts.
LEMMA QuietInv ==
  ASSUME OnceInv,
         \/ Expire
         \/ \E d \in Daemon : Attach(d) \/ Start(d) \/ \E r \in Role : RenewTick(d, r)
  PROVE  OnceInv'
<1>1. RestTypeOK' /\ sent' = sent /\ job' = job
  <2>1. /\ MaxFaults \in Nat /\ RestTypeOK
    BY BoundAssumption DEF OnceInv, SlackTypeOK, RestTypeOK
  <2>2. CASE Expire
    BY <2>1, <2>2 DEF RestTypeOK, Expire
  <2>3. ASSUME NEW d \in Daemon, Attach(d) PROVE RestTypeOK' /\ sent' = sent /\ job' = job
    BY <2>1, <2>3 DEF RestTypeOK, Attach
  <2>4. ASSUME NEW d \in Daemon, Start(d) PROVE RestTypeOK' /\ sent' = sent /\ job' = job
    BY <2>1, <2>4, SMTT(20) DEF RestTypeOK, Start
  <2>5. ASSUME NEW d \in Daemon, NEW r \in Role, RenewTick(d, r)
        PROVE  RestTypeOK' /\ sent' = sent /\ job' = job
    BY <2>1, <2>5 DEF RestTypeOK, RenewTick
  <2> QED
    BY <2>2, <2>3, <2>4, <2>5
<1>2. Gentle(eff, eff')
  <2>1. CASE Expire
    BY <2>1, GentleLive, Zenon DEF Expire
  <2>2. ASSUME NEW d \in Daemon, NEW r \in Role, RenewTick(d, r) PROVE Gentle(eff, eff')
    <3>1. job[d][r].ep \in Nat
      BY CallFacts, Zenon DEF Job
    <3> QED
      BY <2>2, <3>1, GentleRenew, Zenon DEF RenewTick
  <2>3. ASSUME NEW d \in Daemon, Attach(d) \/ Start(d) PROVE Gentle(eff, eff')
    BY <2>3, GentleSame DEF Attach, Start
  <2> QED
    BY <2>1, <2>2, <2>3
<1> QED
  BY <1>1, <1>2, QuietStep

-----------------------------------------------------------------------------
(* The invariant *)

\* The initial state.
LEMMA InitOnceInv == Init => OnceInv
<1> SUFFICES ASSUME Init PROVE OnceInv
  OBVIOUS
<1>1. SlackTypeOK
  <2>1. eff \in Effect
    BY DEF Init, Absent, Effect, States, Receipts
  <2>2. job \in [Daemon -> [Role -> Job]]
    BY IdleFacts DEF Init
  <2>3. map \in [open : BOOLEAN, receipt : BOOLEAN, seen : BOOLEAN]
    BY DEF Init
  <2>4. /\ up \in [Daemon -> {"up", "stopping", "down"}] /\ att \in [Daemon -> BOOLEAN]
        /\ acked \in BOOLEAN
    BY Zenon DEF Init
  <2>5. sent \in Nat /\ envelopes \in 0..MaxEnvelopes /\ faults \in 0..MaxFaults
    BY BoundAssumption DEF Init
  <2> QED
    BY <2>1, <2>2, <2>3, <2>4, <2>5 DEF SlackTypeOK
<1>2. /\ eff.state = "none" /\ eff.receipt = "none" /\ ~eff.wire /\ eff.epoch = 0
  BY DEF Init, Absent
<1>3. \A d \in Daemon : \A r \in Role : job[d][r] = Idle
  BY DEF Init
<1>4. ASSUME NEW d \in Daemon, NEW r \in Role
      PROVE  CallInv(d, job[d][r], eff) /\ FenceInv(job[d][r], RetiredScope(d))
  <2>1. /\ job[d][r].at = "idle" /\ job[d][r].ep = 0 /\ job[d][r].tep = 0
        /\ job[d][r].settle = "no"
    BY <1>3, IdleFacts
  <2>2. ~Leased(eff, d, job[d][r].tep) /\ job[d][r].ep <= eff.epoch /\ job[d][r].tep <= eff.epoch
    BY <1>2, <2>1 DEF Leased
  <2>3. CallInv(d, job[d][r], eff)
    BY <1>2, <2>1, <2>2 DEF CallInv
  <2> QED
    BY <2>1, <2>3 DEF FenceInv
<1>5. LeasesDistinct
  BY <1>3, IdleFacts DEF LeasesDistinct
<1> QED
  BY <1>1, <1>2, <1>4, <1>5 DEF Init, OnceInv, SentNeverRefused, RecordedSentWasSent

\* Every step keeps the invariant.
LEMMA NextOnceInv == OnceInv /\ [Next]_vars => OnceInv'
<1> SUFFICES ASSUME OnceInv, [Next]_vars PROVE OnceInv'
  OBVIOUS
<1>1. CASE UNCHANGED vars
  <2>1. RestTypeOK' /\ Gentle(eff, eff') /\ sent' = sent /\ job' = job
    BY <1>1, GentleSame DEF vars, OnceInv, SlackTypeOK, RestTypeOK
  <2> QED
    BY <2>1, QuietStep
<1>2. ASSUME NEW d \in Daemon, NEW r \in Role, Run(d, r) PROVE OnceInv'
  BY <1>2, DispatchStepInv, HandlerStepInv, DrainStepInv, RetireStepInv DEF Run
<1>3. ASSUME NEW d \in Daemon, NEW r \in Role, RenewTick(d, r) PROVE OnceInv'
  BY <1>3, QuietInv
<1>4. ASSUME NEW d \in Daemon, HandleEnvelope(d) \/ Exit(d) \/ Start(d) PROVE OnceInv'
  BY <1>4, HandleEnvelopeInv, DownInv, QuietInv
<1>5. CASE Expire
  BY <1>5, QuietInv
<1>6. CASE Fault
  BY <1>6, RecheckInv, DetachInv, QuietInv, StopDeadlineInv, DownInv DEF Fault
<1> QED
  BY <1>1, <1>2, <1>3, <1>4, <1>5, <1>6 DEF Next

\* Every message put on the wire is accounted for in the journal, for any
\* number of daemons, deliveries and faults.
THEOREM OnceInvariant == Spec => []OnceInv
BY InitOnceInv, NextOnceInv, PTL DEF Spec

\* The message goes to the session at most once.
THEOREM AtMostOnce == Spec => []SentAtMostOnce
<1>1. OnceInv => SentAtMostOnce
  BY DEF OnceInv, SentAtMostOnce
<1> QED
  BY <1>1, OnceInvariant, PTL

\* What reached the wire is never recorded as refused.
THEOREM NeverRefused == Spec => []SentNeverRefused
<1>1. OnceInv => SentNeverRefused
  BY DEF OnceInv
<1> QED
  BY <1>1, OnceInvariant, PTL

\* Nothing is recorded as sent that was not.
THEOREM RecordIsTrue == Spec => []RecordedSentWasSent
<1>1. OnceInv => RecordedSentWasSent
  BY DEF OnceInv
<1> QED
  BY <1>1, OnceInvariant, PTL

-----------------------------------------------------------------------------
(* The record, step by step *)

\* Only a lease is live.
LiveInv == eff.live => eff.state \in {"leased", "dispatching"}

\* Fate, as a function of the record.
FateOf(e) ==
  IF e.state = "uncertain" THEN "unknown"
  ELSE IF e.wire THEN IF e.state = "terminal" THEN "delivered" ELSE "sent"
  ELSE IF e.state = "terminal" THEN "refused" ELSE "open"

FateMoves(a, b) ==
  \/ a = b
  \/ a = "open" /\ b \in {"sent", "refused"}
  \/ a = "sent" /\ b = "delivered"
  \/ a \in {"open", "sent"} /\ b = "unknown"

\* What every step may do to the record.
Moves(e, f) ==
  /\ e.state = "uncertain" => f = e
  /\ e.state # "none" => f.state # "none"
  /\ f.live => f.state \in {"leased", "dispatching"}
  /\ FateMoves(FateOf(e), FateOf(f))

\* It may leave it alone.
LEMMA MovesSame ==
  ASSUME LiveInv PROVE Moves(eff, eff)
BY DEF LiveInv, Moves, FateMoves

\* It may enqueue it.
LEMMA MovesEnqueue ==
  ASSUME OnceInv, LiveInv PROVE Moves(eff, Enqueue(eff))
<1>1. eff \in Effect
  BY DEF OnceInv, SlackTypeOK
<1>2. CASE eff.state = "none"
  <2> DEFINE f == [eff EXCEPT !.state = "pending"]
  <2>1. f.state = "pending" /\ f.live = eff.live /\ f.wire = eff.wire
    BY <1>1 DEF Effect
  <2>2. ~eff.live
    BY <1>2 DEF LiveInv
  <2>3. Enqueue(eff) = f
    BY <1>2 DEF Enqueue
  <2> HIDE DEF f
  <2> QED
    BY <1>2, <2>1, <2>2, <2>3 DEF Moves, FateMoves, FateOf
<1>3. CASE eff.state # "none"
  BY <1>3, MovesSame DEF Enqueue
<1> QED BY <1>2, <1>3

\* It may claim it.
LEMMA MovesClaim ==
  ASSUME OnceInv, LiveInv, NEW d \in Daemon PROVE Moves(eff, Claim(eff, d))
<1>1. CASE CanClaim(eff)
  BY <1>1, ClaimFacts DEF Moves, FateMoves, FateOf, CanClaim
<1>2. CASE ~CanClaim(eff)
  BY <1>2, MovesSame DEF Claim
<1> QED BY <1>1, <1>2, SMTT(20)

\* It may renew its lease, or let it run out.
LEMMA MovesLive ==
  ASSUME OnceInv, LiveInv, NEW b \in BOOLEAN, eff.state \in {"leased", "dispatching"}
  PROVE  Moves(eff, [eff EXCEPT !.live = b])
<1> DEFINE f == [eff EXCEPT !.live = b]
<1>1. eff \in Effect
  BY DEF OnceInv, SlackTypeOK
<1>2. f.state = eff.state /\ f.wire = eff.wire
  BY <1>1 DEF Effect
<1> HIDE DEF f
<1>3. Moves(eff, f)
  BY <1>2 DEF Moves, FateMoves, FateOf
<1> QED
  BY <1>3 DEF f

\* Renewing does that.
LEMMA MovesRenew ==
  ASSUME OnceInv, LiveInv, NEW d \in Daemon, NEW ep \in Nat
  PROVE  Moves(eff, Renew(eff, d, ep))
BY MovesLive, MovesSame, Zenon DEF Renew, Leased

\* It may mark it dispatching.
LEMMA MovesMark ==
  ASSUME OnceInv, LiveInv, NEW d \in Daemon, NEW ep \in Nat
  PROVE  Moves(eff, MarkDispatching(eff, d, ep))
<1> DEFINE f == [eff EXCEPT !.state = "dispatching"]
<1>1. eff \in Effect
  BY DEF OnceInv, SlackTypeOK
<1>2. f.state = "dispatching" /\ f.wire = eff.wire
  BY <1>1 DEF Effect
<1> HIDE DEF f
<1>3. eff.state = "leased" => Moves(eff, f)
  BY <1>2 DEF Moves, FateMoves, FateOf
<1> QED
  BY <1>3, MovesSame DEF MarkDispatching, CanMark, f

\* It may put it on the wire.
LEMMA MovesWire ==
  ASSUME OnceInv, LiveInv, eff.state = "dispatching"
  PROVE  Moves(eff, [eff EXCEPT !.wire = TRUE])
<1> DEFINE f == [eff EXCEPT !.wire = TRUE]
<1>1. eff \in Effect
  BY DEF OnceInv, SlackTypeOK
<1>2. f.state = "dispatching" /\ f.wire
  BY <1>1 DEF Effect
<1> HIDE DEF f
<1>3. Moves(eff, f)
  BY <1>2, SMTT(20) DEF Moves, FateMoves, FateOf
<1> QED
  BY <1>3 DEF f

\* It may settle it, if it was open: back to accepted only if it was not on
\* the wire.
LEMMA MovesSettled ==
  ASSUME OnceInv, LiveInv, NEW s \in {"accepted", "uncertain", "terminal"},
         NEW r \in Receipts, eff.state \notin {"uncertain", "terminal"},
         s = "accepted" => ~eff.wire
  PROVE  Moves(eff, Settled(eff, s, r))
<1>1. eff \in Effect
  BY DEF OnceInv, SlackTypeOK
<1>2. /\ Settled(eff, s, r).state = s /\ ~Settled(eff, s, r).live
      /\ Settled(eff, s, r).wire = eff.wire
  BY <1>1 DEF Settled, Effect
<1> QED
  BY <1>2 DEF Moves, FateMoves, FateOf

\* Recording an outcome does that,
LEMMA MovesRecord ==
  ASSUME OnceInv, LiveInv, NEW d \in Daemon, NEW ep,
         NEW s \in {"accepted", "uncertain", "terminal"}, NEW r \in Receipts,
         Leased(eff, d, ep) /\ s = "accepted" => ~eff.wire
  PROVE  Moves(eff, Record(eff, d, ep, s, r))
<1>1. CASE Leased(eff, d, ep)
  BY <1>1, MovesSettled DEF Record, Leased
<1>2. CASE ~Leased(eff, d, ep)
  BY <1>2, MovesSame DEF Record
<1> QED BY <1>1, <1>2

\* and so do terminalizing it
LEMMA MovesTerminalize ==
  ASSUME OnceInv, LiveInv, NEW d \in Daemon, NEW ep, NEW r \in Receipts
  PROVE  Moves(eff, TerminalizeDecided(eff, d, ep, r))
<1>1. CASE CanTerminalize(eff, d, ep)
  BY <1>1, MovesSettled DEF TerminalizeDecided, CanTerminalize
<1>2. CASE ~CanTerminalize(eff, d, ep)
  BY <1>2, MovesSame DEF TerminalizeDecided
<1> QED BY <1>1, <1>2

\* and recovering it.
LEMMA MovesRecover ==
  ASSUME OnceInv, LiveInv PROVE Moves(eff, RecoverAsUncertain(eff))
BY MovesSettled, MovesSame DEF RecoverAsUncertain, CanRecover, Receipts

\* The steps of a dispatch move the record so.
LEMMA DispatchMoves ==
  ASSUME OnceInv, LiveInv, NEW d \in Daemon, NEW r \in Role, DispatchStep(d, r)
  PROVE  Moves(eff, eff')
<1>1. CallInv(d, job[d][r], eff) /\ job[d][r].ep \in Nat
  BY CallFacts, Zenon DEF Job
<1>2. CASE \/ Look(d, r) \/ Recheck(d, r) \/ FinishDispatch(d, r) \/ FinishUncertain(d, r)
           \/ ReleaseDispatch(d, r) \/ FinalizeTerminal(d, r) \/ TermRead(d, r)
           \/ TerminalizeWork(d, r) \/ LeaveFence(d, r)
  <2>1. eff' = eff
    BY <1>2, Zenon DEF Look, Recheck, FinishDispatch, FinishUncertain, ReleaseDispatch,
                FinalizeTerminal, Complete, TermRead, TerminalizeWork, LeaveFence
  <2> QED
    BY <2>1, MovesSame
<1>3. CASE ClaimEffect(d, r) \/ TermReclaim(d, r)
  BY <1>3, MovesClaim DEF ClaimEffect, TermReclaim
<1>4. CASE Enter(d, r) \/ Respond(d, r)
  <2>1. eff' = eff \/ eff' = Renew(eff, d, job[d][r].ep)
    BY <1>4, SMTT(20) DEF Enter, Respond, EnsureLive
  <2> QED
    BY <1>1, <2>1, MovesSame, MovesRenew
<1>5. CASE Mark(d, r)
  BY <1>1, <1>5, MovesMark DEF Mark
<1>6. CASE SendFrame(d, r)
  <2>1. eff' = eff \/ (eff.state = "dispatching" /\ eff' = [eff EXCEPT !.wire = TRUE])
    BY <1>6 DEF SendFrame, Boundary, OwnsDispatching
  <2> QED
    BY <2>1, MovesSame, MovesWire, Zenon
<1>7. CASE RecordSent(d, r) \/ RecordUncertain(d, r)
  <2>1. \/ eff' = Record(eff, d, job[d][r].ep, "terminal", "sent")
        \/ eff' = Record(eff, d, job[d][r].ep, "uncertain", "uncertain")
    BY <1>7, Zenon DEF RecordSent, RecordUncertain, RecordOutcome
  <2> QED
    BY <2>1, MovesRecord DEF Receipts
<1>8. CASE RecordAccepted(d, r)
  <2>1. eff' = Record(eff, d, job[d][r].ep, "accepted", "accepted")
    BY <1>8 DEF RecordAccepted, RecordOutcome
  <2>2. Leased(eff, d, job[d][r].ep) => ~eff.wire
    BY <1>1, <1>8 DEF RecordAccepted, RecordOutcome, At, CallInv, BeforeWire
  <2> QED
    BY <2>1, <2>2, MovesRecord DEF Receipts
<1>9. CASE TermDecide(d, r)
  BY <1>9, MovesTerminalize, SMTT(20) DEF TermDecide, Receipts
<1>10. CASE SettleWork(d, r)
  <2>1. \/ eff' = Record(eff, d, job[d][r].ep, "uncertain", "uncertain")
        \/ eff' = TerminalizeDecided(eff, d, job[d][r].ep, "stale")
        \/ eff' = TerminalizeDecided(eff, d, 0, "stale")
    BY <1>10, Zenon DEF SettleWork
  <2> QED
    BY <2>1, MovesRecord, MovesTerminalize DEF Receipts
<1> QED
  BY <1>2, <1>3, <1>4, <1>5, <1>6, <1>7, <1>8, <1>9, <1>10, SMTT(20) DEF DispatchStep

\* So does every step.
LEMMA NextMoves ==
  ASSUME OnceInv, LiveInv, [Next]_vars
  PROVE  Moves(eff, eff')
<1>1. CASE UNCHANGED eff
  BY <1>1, MovesSame
<1>2. ASSUME NEW d \in Daemon, NEW r \in Role, DispatchStep(d, r) PROVE Moves(eff, eff')
  BY <1>2, DispatchMoves
<1>3. ASSUME NEW d \in Daemon, HandlerStep(d) \/ DrainStep(d) \/ RetireStep(d)
      PROVE  Moves(eff, eff')
  <2>1. eff' = eff \/ eff' = Enqueue(eff) \/ eff' = RecoverAsUncertain(eff)
    BY <1>3, SMTT(20) DEF HandlerStep, EnqueueEffect, Admit, Ack, DrainStep, DrainBegin, DrainReceipt,
                DrainRecover, DrainOrphan, AdoptOrphan, Adopted, RetireStep, RetireFence,
                RetireClose, RetireDrained, RetireRelease
  <2> QED
    BY <2>1, MovesSame, MovesEnqueue, MovesRecover
<1>4. ASSUME NEW d \in Daemon, NEW r \in Role, RenewTick(d, r) PROVE Moves(eff, eff')
  <2>1. job[d][r].ep \in Nat
    BY CallFacts, Zenon DEF Job
  <2> QED
    BY <1>4, <2>1, MovesRenew DEF RenewTick
<1>5. CASE Expire
  BY <1>5, MovesLive, Zenon DEF Expire, LiveInv
<1>6. ASSUME NEW d \in Daemon, HandleEnvelope(d) \/ Exit(d) \/ Start(d) PROVE eff' = eff
  BY <1>6 DEF HandleEnvelope, Exit, Down, Start
<1>7. CASE Fault
  BY <1>1, <1>7 DEF Fault, PreSendFailure, LoseResponse, Detach, Attach, StopDeadline, Crash, Down
<1> QED
  BY <1>1, <1>2, <1>3, <1>4, <1>5, <1>6, <1>7 DEF Next, Run, vars

\* Only a lease is live, at every moment.
LEMMA LiveInvariant == Spec => []LiveInv
<1>1. Init => LiveInv
  BY DEF Init, Absent, LiveInv
<1>2. OnceInv /\ LiveInv /\ [Next]_vars => LiveInv'
  BY NextMoves DEF Moves, LiveInv
<1> QED
  BY <1>1, <1>2, OnceInvariant, PTL DEF Spec

\* No step changes the record of an effect whose outcome is uncertain.
THEOREM UncertainStaysUncertain == Spec => UncertainIsFinal
<1>1. OnceInv /\ LiveInv /\ [Next]_vars => [eff.state = "uncertain" => eff' = eff]_vars
  BY NextMoves DEF Moves
<1> QED
  BY <1>1, OnceInvariant, LiveInvariant, PTL DEF Spec, UncertainIsFinal

\* Any number of daemons, over any number of deliveries and faults, implement
\* InboundOnce.
THEOREM Refinement == Spec => ImplementsOnce
<1>1. Init => Once!Init
  <2>1. Init => eff.state = "none" /\ ~eff.wire
    BY DEF Init, Absent
  <2>2. Init => Fate = "open"
    BY <2>1 DEF Fate
  <2> QED
    BY <2>2 DEF Once!Init
<1>2. OnceInv /\ LiveInv /\ [Next]_vars => [Once!Next]_Fate
  <2> SUFFICES ASSUME OnceInv, LiveInv, [Next]_vars PROVE [Once!Next]_Fate
    OBVIOUS
  <2>1. FateMoves(FateOf(eff), FateOf(eff'))
    BY NextMoves DEF Moves
  <2>2. Fate = FateOf(eff) /\ Fate' = FateOf(eff')
    BY DEF Fate, FateOf
  <2>3. FateMoves(Fate, Fate')
    BY <2>1, <2>2
  <2> QED
    BY <2>3 DEF FateMoves, Once!Next, Once!Send, Once!Deliver, Once!Doubt, Once!Refuse
<1> QED
  BY <1>1, <1>2, OnceInvariant, LiveInvariant, PTL DEF Spec, ImplementsOnce, Once!Spec

-----------------------------------------------------------------------------
(* The acknowledgement *)

\* The places of a handler whose effect is enqueued and not yet acknowledged.
Acking == {"admit", "ack"}

\* A step of call r of daemon d that does not bring it there.
Aside(d, r) == \E j : Set(d, r, j) /\ (j.at = job[d][r].at \/ j.at \notin Acking)

\* Going on elsewhere, ending, and terminalizing are such steps,
LEMMA AsideMoves ==
  ASSUME OnceInv, NEW d \in Daemon, NEW r \in Role, NEW p,
         \/ Go(d, r, p) /\ p \notin Acking
         \/ End(d, r)
         \/ Terminate(d, r, p)
         \/ Terminated(d, r)
  PROVE  Aside(d, r)
<1>1. job[d][r] \in Job /\ Residue(job[d][r]) \in Job
  BY CallFacts, ResidueFacts, Zenon
<1> DEFINE k == Residue(job[d][r])
<1>2. CASE Go(d, r, p) /\ p \notin Acking
  <2>1. [job[d][r] EXCEPT !.at = p].at = p
    BY <1>1, Zenon DEF Job
  <2> QED BY <1>2, <2>1, Zenon DEF Go, Aside
<1>3. CASE End(d, r)
  <2> DEFINE a == IF r = "retire" THEN "linger" ELSE "idle"
  <2>1. [k EXCEPT !.at = a].at = a /\ a \notin Acking
    BY <1>1, Zenon DEF Job, Acking
  <2> QED BY <1>3, <2>1, Zenon DEF End, Aside
<1>4. CASE Terminate(d, r, p)
  <2> DEFINE b == job[d][r].inflight
  <2>1. [k EXCEPT !.at = "term", !.then = p, !.inflight = b].at = "term"
    BY <1>1, Zenon DEF Job
  <2> QED BY <1>4, <2>1, Zenon DEF Terminate, Aside, Acking
<1>5. CASE Terminated(d, r)
  <2>1. CASE Go(d, r, "final")
    <3>1. [job[d][r] EXCEPT !.at = "final"].at = "final"
      BY <1>1, Zenon DEF Job
    <3> QED BY <2>1, <3>1, Zenon DEF Go, Aside, Acking
  <2> QED BY <1>3, <1>5, <2>1 DEF Terminated
<1> QED BY <1>2, <1>3, <1>4, <1>5, SMTT(20)

\* and so is an error inside the lease.
LEMMA AsideThrow ==
  ASSUME OnceInv, NEW d \in Daemon, NEW r \in Role, NEW p, NEW kind \in {"accept", "doubt", "stale"},
         \/ Throw(d, r, kind)
         \/ Set(d, r, [job[d][r] EXCEPT !.at = "fenced", !.then = p])
  PROVE  Aside(d, r)
<1>1. job[d][r] \in Job
  BY CallFacts
<1>2. ASSUME NEW q PROVE [job[d][r] EXCEPT !.at = "fenced", !.then = q].at = "fenced"
  BY <1>1, Zenon DEF Job
<1>3. ASSUME NEW q, Set(d, r, [job[d][r] EXCEPT !.at = "fenced", !.then = q]) PROVE Aside(d, r)
  BY <1>2, <1>3, Zenon DEF Aside, Acking
<1>4. CASE Throw(d, r, kind)
  BY <1>3, <1>4, AsideMoves, Zenon DEF Throw, Acking
<1> QED BY <1>3, <1>4, Zenon

\* No step of a dispatch brings a call there.
LEMMA DispatchAside ==
  ASSUME OnceInv, NEW d \in Daemon, NEW r \in Role, DispatchStep(d, r)
  PROVE  Aside(d, r)
<1>1. job[d][r] \in Job
  BY CallFacts
<1>2. CASE \/ FinishDispatch(d, r) \/ FinishUncertain(d, r) \/ ReleaseDispatch(d, r)
           \/ FinalizeTerminal(d, r)
  <2>1. End(d, r)
    BY <1>2, Zenon DEF FinishDispatch, FinishUncertain, ReleaseDispatch, FinalizeTerminal, Complete
  <2> QED BY <2>1, AsideMoves
<1>3. CASE Look(d, r)
  BY <1>3, AsideMoves DEF Look, Acking
<1>4. CASE ClaimEffect(d, r)
  <2> DEFINE n == eff.epoch + 1
  <2>1. [job[d][r] EXCEPT !.at = "enter", !.ep = n].at = "enter"
    BY <1>1, Zenon DEF Job
  <2>2. End(d, r) \/ Set(d, r, [job[d][r] EXCEPT !.at = "enter", !.ep = n])
    BY <1>4 DEF ClaimEffect
  <2> QED BY <2>1, <2>2, AsideMoves, Zenon DEF Aside, Acking
<1>5. CASE Enter(d, r) \/ Respond(d, r)
  <2>1. \/ \E q : Set(d, r, [job[d][r] EXCEPT !.at = "fenced", !.then = q])
        \/ \E q \in {"mark", "accept", "record", "doubt"} : Go(d, r, q)
        \/ Terminate(d, r, "final")
    BY <1>5, Zenon DEF Enter, Respond, EnsureLive
  <2> QED BY <2>1, AsideMoves, AsideThrow, Zenon DEF Acking
<1>6. CASE Mark(d, r) \/ Recheck(d, r) \/ SendFrame(d, r)
  <2>1. \/ Throw(d, r, "accept") \/ Throw(d, r, "stale")
        \/ \E q \in {"recheck", "send", "sent"} : Go(d, r, q)
    BY <1>6 DEF Mark, Recheck, SendFrame
  <2> QED BY <2>1, AsideMoves, AsideThrow, Zenon DEF Acking
<1>7. CASE RecordSent(d, r) \/ RecordAccepted(d, r) \/ RecordUncertain(d, r)
  <2>1. End(d, r) \/ \E q \in {"finish", "release", "finish uncertain"} : Go(d, r, q)
    BY <1>7, Zenon DEF RecordSent, RecordAccepted, RecordUncertain, RecordOutcome
  <2> QED BY <2>1, AsideMoves, Zenon DEF Acking
<1>8. CASE TermRead(d, r) \/ TermReclaim(d, r) \/ TermDecide(d, r)
  <2> DEFINE n == eff.epoch + 1
  <2>1. ASSUME NEW q PROVE [job[d][r] EXCEPT !.at = "decide", !.tep = q].at = "decide"
    BY <1>1, Zenon DEF Job
  <2>2. \/ End(d, r) \/ Terminated(d, r) \/ Go(d, r, "reclaim")
        \/ \E q : Set(d, r, [job[d][r] EXCEPT !.at = "decide", !.tep = q])
    BY <1>8, Zenon DEF TermRead, TermReclaim, TermDecide
  <2>3. CASE \E q : Set(d, r, [job[d][r] EXCEPT !.at = "decide", !.tep = q])
    BY <2>1, <2>3, Zenon DEF Aside, Acking
  <2>4. CASE Go(d, r, "reclaim")
    <3>1. "reclaim" \notin Acking
      BY DEF Acking
    <3> QED BY <2>4, <3>1, AsideMoves
  <2>5. CASE End(d, r) \/ Terminated(d, r)
    BY <2>5, AsideMoves
  <2> QED BY <2>2, <2>3, <2>4, <2>5, Zenon
<1>9. CASE TerminalizeWork(d, r) \/ SettleWork(d, r)
  <2>1. \E q : Set(d, r, [job[d][r] EXCEPT !.settle = q])
    BY <1>9, Zenon DEF TerminalizeWork, SettleWork
  <2>2. ASSUME NEW q PROVE [job[d][r] EXCEPT !.settle = q].at = job[d][r].at
    BY <1>1, Zenon DEF Job
  <2> QED BY <2>1, <2>2, Zenon DEF Aside
<1>10. CASE LeaveFence(d, r)
  <2>1. Terminate(d, r, "final") \/ \E q \in {"accept", "doubt"} : Go(d, r, q)
    BY <1>10 DEF LeaveFence
  <2> QED BY <2>1, AsideMoves DEF Acking
<1> QED
  BY <1>2, <1>3, <1>4, <1>5, <1>6, <1>7, <1>8, <1>9, <1>10 DEF DispatchStep

\* The inductive invariant: what is acknowledged, or about to be, is durable.
AckInv ==
  /\ AckedIsDurable
  /\ \A d \in Daemon : job[d]["handle"].at \in Acking => eff.state # "none"

\* A step that brings no handler there keeps it.
LEMMA AsideKeepsAck ==
  ASSUME OnceInv, LiveInv, AckInv, [Next]_vars, acked' = acked,
         NEW d \in Daemon, NEW r \in Role, Aside(d, r)
  PROVE  AckInv'
<1>1. eff.state # "none" => eff'.state # "none"
  BY NextMoves DEF Moves
<1>2. PICK j : Set(d, r, j) /\ (j.at = job[d][r].at \/ j.at \notin Acking)
  BY DEF Aside
<1>3. job \in [Daemon -> [Role -> Job]] /\ "handle" \in Role
  BY DEF OnceInv, SlackTypeOK, Role
<1>4. ASSUME NEW c \in Daemon PROVE job'[c]["handle"] \in {j, job[c]["handle"]}
  BY <1>2, <1>3 DEF Set
<1>5. ASSUME NEW c \in Daemon, job'[c]["handle"] # job[c]["handle"] PROVE c = d /\ r = "handle"
  BY <1>2, <1>3, <1>5 DEF Set
<1>6. ASSUME NEW c \in Daemon, job'[c]["handle"].at \in Acking
      PROVE  job[c]["handle"].at \in Acking
  BY <1>2, <1>4, <1>5, <1>6
<1> QED
  BY <1>1, <1>6 DEF AckInv, AckedIsDurable

\* Nothing is acknowledged initially, and no handler is under way.
LEMMA InitAck == Init => AckInv
<1> SUFFICES ASSUME Init PROVE AckInv
  OBVIOUS
<1>1. job = [d \in Daemon |-> [r \in Role |-> Idle]] /\ "handle" \in Role
  BY DEF Init, Role
<1>2. \A d \in Daemon : job[d]["handle"] = Idle
  BY <1>1, Zenon
<1>3. Idle.at \notin Acking
  BY IdleFacts DEF Acking
<1>4. ~acked
  BY DEF Init
<1> QED
  BY <1>2, <1>3, <1>4 DEF AckInv, AckedIsDurable

\* Every step keeps it: only enqueueEffect brings a handler to the admission.
LEMMA NextAck ==
  ASSUME OnceInv, LiveInv, AckInv, [Next]_vars
  PROVE  AckInv'
<1>1. eff.state # "none" => eff'.state # "none"
  BY NextMoves DEF Moves
<1>2. /\ job \in [Daemon -> [Role -> Job]] /\ eff \in Effect
      /\ "handle" \in Role /\ "drain" \in Role /\ "retire" \in Role
  BY DEF OnceInv, SlackTypeOK, Role
<1>3. CASE acked' = acked /\ job' = job
  BY <1>1, <1>3 DEF AckInv, AckedIsDurable
<1>4. ASSUME NEW d \in Daemon, NEW r \in Role, DispatchStep(d, r) PROVE AckInv'
  <2>1. acked' = acked
    BY <1>4, Zenon DEF DispatchStep, Look, ClaimEffect, Enter, Mark, Recheck, SendFrame, Respond,
                RecordSent, RecordAccepted, RecordUncertain, RecordOutcome, FinishDispatch,
                FinishUncertain, ReleaseDispatch, FinalizeTerminal, Complete, TermRead,
                TermReclaim, TermDecide, TerminalizeWork, SettleWork, LeaveFence
  <2> QED BY <1>4, <2>1, DispatchAside, AsideKeepsAck, SMTT(20)
<1>5. ASSUME NEW d \in Daemon, EnqueueEffect(d) PROVE AckInv'
  <2>1. eff'.state # "none"
    <3>1. [eff EXCEPT !.state = "pending"].state = "pending"
      BY <1>2 DEF Effect
    <3> QED BY <1>5, <3>1 DEF EnqueueEffect, Enqueue
  <2> QED BY <2>1 DEF AckInv, AckedIsDurable
<1>6. ASSUME NEW d \in Daemon, Admit(d) \/ Ack(d) PROVE AckInv'
  <2>1. job[d]["handle"].at \in Acking
    BY <1>6 DEF Admit, Ack, At, Acking
  <2>2. eff'.state # "none"
    BY <1>1, <2>1 DEF AckInv
  <2> QED BY <2>2 DEF AckInv, AckedIsDurable
<1>7. ASSUME NEW d \in Daemon, DrainStep(d) PROVE AckInv'
  <2>1. acked' = acked
    BY <1>7, SMTT(20) DEF DrainStep, DrainBegin, DrainReceipt, DrainRecover, DrainOrphan, AdoptOrphan, Adopted
  <2>2. \A c \in Daemon : job'[c]["handle"] = job[c]["handle"]
    BY <1>2, <1>7 DEF DrainStep, DrainBegin, DrainReceipt, DrainRecover, DrainOrphan, AdoptOrphan,
                      Adopted, Set, Go, End, Terminate
  <2> QED BY <1>1, <2>1, <2>2 DEF AckInv, AckedIsDurable
<1>8. ASSUME NEW d \in Daemon, RetireStep(d) PROVE AckInv'
  <2>1. acked' = acked
    BY <1>8 DEF RetireStep, RetireFence, RetireClose, RetireDrained, RetireRelease
  <2>2. \A c \in Daemon : job'[c]["handle"] = job[c]["handle"]
    BY <1>2, <1>8 DEF RetireStep, RetireFence, RetireClose, RetireDrained, RetireRelease, Set, Go,
                      End, Terminate
  <2> QED BY <1>1, <2>1, <2>2 DEF AckInv, AckedIsDurable
<1>9. ASSUME NEW d \in Daemon, HandleEnvelope(d) PROVE AckInv'
  <2>1. acked' = acked /\ Set(d, "handle", [Idle EXCEPT !.at = "enqueue", !.cap = TRUE])
    BY <1>9 DEF HandleEnvelope
  <2>2. [Idle EXCEPT !.at = "enqueue", !.cap = TRUE].at = "enqueue"
    BY DEF Idle
  <2>3. Aside(d, "handle")
    BY <2>1, <2>2, Zenon DEF Aside, Acking
  <2> QED BY <1>2, <2>1, <2>3, AsideKeepsAck
<1>10. ASSUME NEW d \in Daemon, Exit(d) \/ Start(d) \/ Crash(d) PROVE AckInv'
  <2>1. acked' = acked
    BY <1>10 DEF Exit, Start, Crash, Down
  <2>2. \A c \in Daemon : job'[c]["handle"] = job[c]["handle"] \/ job'[c]["handle"] = Idle
    BY <1>2, <1>10 DEF Exit, Start, Crash, Down
  <2>3. Idle.at \notin Acking
    BY IdleFacts DEF Acking
  <2> QED BY <1>1, <2>1, <2>2, <2>3 DEF AckInv, AckedIsDurable
<1>11. ASSUME NEW d \in Daemon, Detach(d) \/ Attach(d) \/ StopDeadline(d) PROVE AckInv'
  <2>1. acked' = acked
    BY <1>11 DEF Detach, Attach, StopDeadline
  <2> DEFINE h == job[d]["handle"]
  <2>2. h \in Job
    BY <1>2
  <2>3. [h EXCEPT !.cap = FALSE].at = h.at /\ [h EXCEPT !.settle = "uncertain"].at = h.at
    BY <2>2, Zenon DEF Job
  <2>4. job'[d]["handle"] \in {h, [h EXCEPT !.cap = FALSE], [h EXCEPT !.settle = "uncertain"]}
    <3>1. CASE Attach(d)
      BY <3>1 DEF Attach
    <3>2. CASE Detach(d)
      <4>1. job'[d] = [r \in Role |-> IF r = "retire" THEN [Idle EXCEPT !.at = "detached"]
                                      ELSE [job[d][r] EXCEPT !.cap = FALSE]]
        BY <1>2, <3>2 DEF Detach
      <4> QED BY <1>2, <4>1
    <3>3. CASE StopDeadline(d)
      <4>1. job'[d] = [r \in Role |-> IF Working(d, r) /\ job[d][r].settle = "no"
                                      THEN [job[d][r] EXCEPT !.settle = "uncertain"]
                                      ELSE job[d][r]]
        BY <1>2, <3>3 DEF StopDeadline
      <4> QED BY <1>2, <4>1
    <3> QED BY <1>11, <3>1, <3>2, <3>3
  <2>5. \A c \in Daemon \ {d} : job'[c] = job[c]
    BY <1>2, <1>11 DEF Detach, Attach, StopDeadline
  <2>6. \A c \in Daemon : job'[c]["handle"].at = job[c]["handle"].at
    BY <2>3, <2>4, <2>5, Zenon
  <2> QED BY <1>1, <2>1, <2>6 DEF AckInv, AckedIsDurable
<1>12. ASSUME NEW d \in Daemon, NEW r \in Role, PreSendFailure(d, r) \/ LoseResponse(d, r)
       PROVE  AckInv'
  <2>1. acked' = acked /\ (Throw(d, r, "accept") \/ Throw(d, r, "doubt"))
    BY <1>12, SMTT(20) DEF PreSendFailure, LoseResponse
  <2> QED BY <2>1, AsideThrow, AsideKeepsAck, Zenon
<1>13. ASSUME NEW d \in Daemon, NEW r \in Role, RenewTick(d, r) PROVE AckInv'
  BY <1>3, <1>13, Zenon DEF RenewTick
<1>14. CASE Expire
  BY <1>3, <1>14 DEF Expire
<1>15. CASE UNCHANGED vars
  BY <1>3, <1>15 DEF vars
<1> QED
  BY <1>4, <1>5, <1>6, <1>7, <1>8, <1>9, <1>10, <1>11, <1>12, <1>13, <1>14, <1>15, SMTT(20)
     DEF Next, Run, HandlerStep, Fault

\* An envelope is acknowledged only with its effect in the journal, which no
\* crash, retirement or recovery takes out again: for any number of daemons,
\* deliveries and faults.
THEOREM AckedStaysDurable == Spec => []AckedIsDurable
<1>1. OnceInv /\ LiveInv /\ AckInv /\ [Next]_vars => AckInv'
  BY NextAck
<1>2. AckInv => AckedIsDurable
  BY DEF AckInv
<1> QED
  BY <1>1, <1>2, InitAck, OnceInvariant, LiveInvariant, PTL DEF Spec
=============================================================================
