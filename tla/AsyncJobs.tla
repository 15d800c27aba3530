----------------------------- MODULE AsyncJobs -----------------------------
(***************************************************************************)
(* Background jobs of one session and the way their results reach the      *)
(* agent (async/job-manager.ts, tools/bash.ts, tools/job.ts, the           *)
(* "async-result" kind of session/yield-queue.ts).                         *)
(*                                                                         *)
(* A finished job's result is queued as a delivery.  The delivery loop     *)
(* hands it to onJobComplete, which formats it (an await that can fail and *)
(* is retried) and leaves an entry in the session's yield queue; the entry *)
(* is injected into the conversation when the turn yields or the session   *)
(* is idle.  The same result can also be returned by a foreground bash     *)
(* call or by a `job` poll, which then acknowledge the delivery: it is     *)
(* suppressed wherever it is.  Ids (bg_1, bg_2, ...) are recycled, so      *)
(* acknowledgements by id and deliveries by generation have to agree.      *)
(*                                                                         *)
(* Generations are numbered in the order the jobs are registered and an id *)
(* is its number.  Everything the manager does between two awaits is one   *)
(* step.                                                                   *)
(***************************************************************************)
EXTENDS Naturals, FiniteSets

CONSTANTS
    Poller,        \* `job` tool calls that can be waiting at the same time
    MaxJobs,       \* generations that are ever registered (bound)
    MaxAttempts    \* DELIVERY_MAX_ATTEMPTS

ASSUME JobsAssumption ==
    /\ MaxJobs \in Nat
    /\ MaxAttempts \in Nat \ {0}

VARIABLES
    status,     \* job.status; "done" is completed or failed
    id,         \* job.id, 0 before the job is registered
    wait,       \* the foreground bash call that waits for the job
    kept,       \* #jobs
    settled,    \* the run function has returned (job.promise is resolved)
    external,   \* #externallySettled: settled by failNow
    queue,      \* #deliveries
    inflight,   \* #inFlightDeliveries
    attempt,    \* delivery.attempt
    acked,      \* #suppressedDeliveries and #suppressedDeliveryJobIds
    claims,     \* #receiptClaims
    dead,       \* #deadLetteredDeliveries and #evictedDeadLetters
    entries,    \* the yield queue's "async-result" entries
    watch,      \* the jobs a poll waits for (#watchedJobs counts their ids)
    told,       \* results returned by a tool call (history)
    injected    \* results injected into the conversation (history)

jobVars == <<status, id, wait, kept, settled, external>>
deliveryVars == <<queue, inflight, attempt, acked, claims, dead>>
agentVars == <<entries, told, injected>>
vars == <<jobVars, deliveryVars, watch, agentVars>>

Gen == 1..MaxJobs

Init ==
    /\ status = [g \in Gen |-> "none"]
    /\ id = [g \in Gen |-> 0]
    /\ wait = [g \in Gen |-> "none"]
    /\ kept = {} /\ settled = {} /\ external = {}
    /\ queue = {} /\ inflight = {}
    /\ attempt = [g \in Gen |-> 0]
    /\ acked = {} /\ claims = {} /\ dead = {}
    /\ entries = {}
    /\ watch = [w \in Poller |-> {}]
    /\ told = {} /\ injected = {}

----------------------------------------------------------------------------
(* Identity and suppression *)

IdsOf(S) == {id[g] : g \in S}

Terminal(g) == status[g] \in {"done", "cancelled"}

Current(i) == {h \in kept : id[h] = i}

\* A delivery is acknowledged by its generation or by any suppressed generation of its id.
AcknowledgedBy(S, g) == g \in S \/ id[g] \in IdsOf(S)

IsDeliveryAcknowledged(g) == AcknowledgedBy(acked, g)

IsWatchedBy(P, g) == \E w \in P : id[g] \in IdsOf(watch[w])

IsDeliverySuppressed(g) == IsDeliveryAcknowledged(g) \/ IsWatchedBy(Poller, g)

Superseded(g) == \E h \in Current(id[g]) : h # g

\* #runDeliveryLoop may take g next, when the calls in P are the ones that watch.
Deliverable(g, P) ==
    /\ inflight = {}
    /\ g \in queue /\ ~IsDeliveryAcknowledged(g) /\ ~IsWatchedBy(P, g)

\* #deliverDelivery calls onJobComplete unless another generation now has the id.
Started(S) == {g \in S : ~Superseded(g)}

\* Generations that keep their id from being recycled.
Holders == kept \cup queue \cup inflight \cup claims \cup acked \cup dead

\* Mutant: an id is free as soon as its job record is gone.
ResolvesToUnkept(i) ==
    /\ i \notin IdsOf(kept)
    /\ \A j \in 1..(i - 1) : j \in IdsOf(kept)

\* #resolveJobId returns the first id that no generation holds.
ResolvesTo(i) ==
    /\ i \notin IdsOf(Holders)
    /\ \A j \in 1..(i - 1) : j \in IdsOf(Holders)

\* Mutant: only queued deliveries are acknowledged, not the one being formatted.
AcknowledgeQueued(I, pending) ==
    LET hit == {g \in pending : id[g] \in I}
    IN  /\ acked' = acked \cup hit
        /\ claims' = {g \in claims : id[g] \notin I}
        /\ queue' = pending \ hit

\* acknowledgeDeliveries: suppress every generation known under the ids, forget their
\* claims and drop their queued deliveries (pending: the queue at the call).
AcknowledgeDeliveries(I, pending) ==
    LET hit == {g \in kept \cup queue \cup inflight \cup claims : id[g] \in I}
    IN  /\ acked' = acked \cup hit
        /\ claims' = {g \in claims : id[g] \notin I}
        /\ queue' = {g \in pending : ~AcknowledgedBy(acked \cup hit, g)}

----------------------------------------------------------------------------
(* The job's life *)

\* register: the next generation takes the first free id; a bash job may be awaited.
Register(g, w) ==
    /\ status[g] = "none" /\ \A h \in 1..(g - 1) : status[h] # "none"
    /\ status' = [status EXCEPT ![g] = "running"]
    /\ \E i \in 1..MaxJobs : ResolvesTo(i) /\ id' = [id EXCEPT ![g] = i]
    /\ wait' = [wait EXCEPT ![g] = w]
    /\ kept' = kept \cup {g}
    /\ UNCHANGED <<settled, external, deliveryVars, watch, agentVars>>

\* #enqueueDelivery, unless the result was acknowledged before it was published.
EnqueueDelivery(g) ==
    queue' = IF IsDeliveryAcknowledged(g) THEN queue ELSE queue \cup {g}

\* Mutant: the run publishes its result although the job was cancelled meanwhile.
SettleAnyway(g) ==
    /\ status[g] # "none" /\ wait[g] \notin {"waiting", "aborted"} /\ g \notin settled
    /\ settled' = settled \cup {g}
    /\ status' = [status EXCEPT ![g] = IF @ = "running" THEN "done" ELSE @]
    /\ IF g \in external THEN UNCHANGED queue ELSE EnqueueDelivery(g)
    /\ UNCHANGED <<id, wait, kept, external, inflight, attempt, acked, claims, dead, watch, agentVars>>

\* The run function returns or throws: publish and enqueue, unless failNow did it
\* before or the job was cancelled.
Settle(g) ==
    /\ status[g] # "none" /\ wait[g] \notin {"waiting", "aborted"} /\ g \notin settled
    /\ settled' = settled \cup {g}
    /\ IF g \in external \/ status[g] = "cancelled"
       THEN UNCHANGED <<status, queue>>
       ELSE /\ status' = [status EXCEPT ![g] = "done"]
            /\ EnqueueDelivery(g)
    /\ UNCHANGED <<id, wait, kept, external, inflight, attempt, acked, claims, dead, watch, agentVars>>

\* failNow, from the owner cleanup of a bash job whose command has not finished.
FailNow(g) ==
    /\ status[g] = "running" /\ g \notin external
    /\ wait[g] \in {"none", "waiting"}
    /\ external' = external \cup {g}
    /\ status' = [status EXCEPT ![g] = "done"]
    /\ EnqueueDelivery(g)
    /\ UNCHANGED <<id, wait, kept, settled, inflight, attempt, acked, claims, dead, watch, agentVars>>

\* A call is still waiting for the job's end.
IsAwaited(g) ==
    \/ wait[g] \in {"waiting", "aborted", "ready"}
    \/ \E w \in Poller : g \in watch[w]

\* The retention timer (5 minutes) of a terminal job, started when its run returned or
\* failNow settled it.  Calls that wait for the job end before: a poll waits at most as
\* long, from before the job's end, and the command of a job torn down is killed.
Evict(g) ==
    /\ g \in kept /\ ~IsAwaited(g)
    /\ status[g] = "done" \/ (status[g] = "cancelled" /\ g \in settled)
    /\ kept' = kept \ {g}
    /\ UNCHANGED <<status, id, wait, settled, external, deliveryVars, watch, agentVars>>

\* getJobsSnapshot forgets acknowledgements that no retained state refers to.
PruneSuppressedDeliveries ==
    /\ acked' = acked \cap (kept \cup queue \cup inflight \cup claims \cup dead)
    /\ acked' # acked
    /\ UNCHANGED <<jobVars, queue, inflight, attempt, claims, dead, watch, agentVars>>

----------------------------------------------------------------------------
(* The foreground bash call *)

\* The command ends: the completion the caller waits for is resolved, before the run returns.
Complete(g) ==
    /\ wait[g] \in {"waiting", "aborted"}
    /\ wait' = [wait EXCEPT ![g] = "ready"]
    /\ UNCHANGED <<status, id, kept, settled, external, deliveryVars, watch, agentVars>>

\* The waiting call resumes, returns the result (or the abort) and acknowledges it.
ForegroundReturns(g) ==
    /\ wait[g] = "ready"
    /\ wait' = [wait EXCEPT ![g] = "returned"]
    /\ told' = told \cup {g}
    /\ AcknowledgeDeliveries({id[g]}, queue)
    /\ UNCHANGED <<status, id, kept, settled, external, inflight, attempt, dead, watch, entries, injected>>

\* A fold or the auto-background threshold wins the race: the call returns without the result.
Background(g) ==
    /\ wait[g] = "waiting"
    /\ wait' = [wait EXCEPT ![g] = "none"]
    /\ UNCHANGED <<status, id, kept, settled, external, deliveryVars, watch, agentVars>>

\* The call is aborted: a running job is cancelled and the call goes on waiting for its end.
Abort(g) ==
    /\ wait[g] = "waiting"
    /\ wait' = [wait EXCEPT ![g] = "aborted"]
    /\ status' = [status EXCEPT ![g] = IF @ = "running" THEN "cancelled" ELSE @]
    /\ UNCHANGED <<id, kept, settled, external, deliveryVars, watch, agentVars>>

----------------------------------------------------------------------------
(* The job tool *)

\* #buildResult: the result shows, for every tracked job, the record now kept under its
\* id (or the tracked job itself), and acknowledges the ids of the terminal ones.
BuildResult(S, pending) ==
    LET shown == UNION {IF Current(id[g]) = {} THEN {g} ELSE Current(id[g]) : g \in S}
        terminal == {g \in shown : Terminal(g)}
    IN  /\ told' = told \cup terminal
        /\ AcknowledgeDeliveries(IdsOf(terminal), pending)

\* A poll of jobs that have all finished answers at once.
PollFinished(g) ==
    /\ g \in kept /\ Terminal(g)
    /\ BuildResult({g}, queue)
    /\ UNCHANGED <<jobVars, inflight, attempt, dead, watch, entries, injected>>

\* A poll that finds running jobs watches them and waits.
StartPoll(w, S) ==
    /\ watch[w] = {}
    /\ watch' = [watch EXCEPT ![w] = S]
    /\ UNCHANGED <<jobVars, deliveryVars, agentVars>>

\* A watched job's promise, the wait duration, a fold or an abort ends the wait.  The
\* jobs are no longer watched, which may start the delivery loop on one of the queued
\* deliveries (next) before the result is built.
Poll(w, next) ==
    /\ watch[w] # {}
    /\ inflight' = inflight \cup Started(next)
    /\ BuildResult(watch[w], queue \ next)
    /\ watch' = [watch EXCEPT ![w] = {}]
    /\ UNCHANGED <<jobVars, attempt, dead, entries, injected>>

\* A `job` cancel without a poll: cancel a running job and build the result.
CancelJob(g) ==
    /\ g \in kept /\ status[g] = "running"
    /\ status' = [status EXCEPT ![g] = "cancelled"]
    /\ told' = told \cup {g}
    /\ AcknowledgeDeliveries({id[g]}, queue)
    /\ UNCHANGED <<id, wait, kept, settled, external, inflight, attempt, dead, watch, entries, injected>>

----------------------------------------------------------------------------
(* Delivery *)

\* One turn of the delivery loop: take a delivery that is not suppressed and start
\* onJobComplete, which runs up to its await.
Deliver(g) ==
    /\ Deliverable(g, Poller)
    /\ queue' = queue \ {g}
    /\ inflight' = Started({g})
    /\ UNCHANGED <<jobVars, attempt, acked, claims, dead, watch, agentVars>>

\* onJobComplete resumes after formatting: a yield queue entry, and a claim on the generation.
Formatted(g) ==
    /\ g \in inflight
    /\ inflight' = inflight \ {g}
    /\ entries' = entries \cup {g}
    /\ claims' = claims \cup {g}
    /\ UNCHANGED <<jobVars, queue, attempt, acked, dead, watch, told, injected>>

\* Mutant: a failed delivery whose job was evicted is not retried.
FormatFailsEvicted(g) ==
    /\ g \in inflight
    /\ inflight' = inflight \ {g}
    /\ attempt' = [attempt EXCEPT ![g] = @ + 1]
    /\ dead' = IF attempt'[g] >= MaxAttempts THEN dead \cup {g} ELSE dead
    /\ queue' = IF attempt'[g] < MaxAttempts /\ g \in kept /\ ~IsDeliveryAcknowledged(g)
                THEN queue \cup {g} ELSE queue
    /\ UNCHANGED <<jobVars, acked, claims, watch, agentVars>>

\* onJobComplete throws: a dead letter at the last attempt, a retry before it, unless
\* the delivery was acknowledged or superseded meanwhile.
FormatFails(g) ==
    /\ g \in inflight
    /\ inflight' = inflight \ {g}
    /\ attempt' = [attempt EXCEPT ![g] = @ + 1]
    /\ dead' = IF attempt'[g] >= MaxAttempts THEN dead \cup {g} ELSE dead
    /\ queue' = IF attempt'[g] < MaxAttempts /\ ~Superseded(g) /\ ~IsDeliveryAcknowledged(g)
                THEN queue \cup {g} ELSE queue
    /\ UNCHANGED <<jobVars, acked, claims, watch, agentVars>>

\* The turn yields or the session is idle: stale entries are dropped, the others are
\* injected in one batch, and all their claims are released.
Flush ==
    /\ entries # {}
    /\ injected' = injected \cup {g \in entries : ~IsDeliverySuppressed(g)}
    /\ claims' = claims \ entries
    /\ entries' = {}
    /\ UNCHANGED <<jobVars, queue, inflight, attempt, acked, dead, watch, told>>

----------------------------------------------------------------------------

Step(g) ==
    \/ \E w \in {"none", "waiting"} : Register(g, w)
    \/ Settle(g) \/ FailNow(g) \/ Evict(g)
    \/ Complete(g) \/ ForegroundReturns(g) \/ Background(g) \/ Abort(g)
    \/ PollFinished(g) \/ CancelJob(g)
    \/ Deliver(g) \/ Formatted(g) \/ FormatFails(g)

PollStep(w) ==
    \/ \E S \in SUBSET {g \in kept : status[g] = "running"} : S # {} /\ StartPoll(w, S)
    \/ Poll(w, {})
    \/ \E g \in queue : Deliverable(g, Poller \ {w}) /\ Poll(w, {g})

Next ==
    \/ \E g \in Gen : Step(g)
    \/ \E w \in Poller : PollStep(w)
    \/ PruneSuppressedDeliveries
    \/ Flush

\* Promises that are resolved are resumed, a poll's wait is bounded by its timer, the
\* delivery loop runs while there is something to deliver, and turns yield.
Fairness ==
    /\ \A g \in Gen : WF_vars(ForegroundReturns(g)) /\ WF_vars(Deliver(g)) /\ WF_vars(Formatted(g) \/ FormatFails(g))
    /\ \A w \in Poller : WF_vars(Poll(w, {}))
    /\ WF_vars(Flush)

Spec == Init /\ [][Next]_vars /\ Fairness

----------------------------------------------------------------------------
(* Properties *)

\* The values the variables take; at most one delivery is in flight.
JobsTypeOK ==
    /\ status \in [Gen -> {"none", "running", "done", "cancelled"}]
    /\ id \in [Gen -> 0..MaxJobs]
    /\ wait \in [Gen -> {"none", "waiting", "aborted", "ready", "returned"}]
    /\ kept \subseteq Gen /\ settled \subseteq Gen /\ external \subseteq Gen
    /\ queue \subseteq Gen /\ inflight \subseteq Gen /\ attempt \in [Gen -> Nat]
    /\ acked \subseteq Gen /\ claims \subseteq Gen /\ dead \subseteq Gen /\ entries \subseteq Gen
    /\ watch \in [Poller -> SUBSET Gen]
    /\ told \subseteq Gen /\ injected \subseteq Gen

\* Two generations that the manager still knows (as a record, a delivery, a claim, an
\* acknowledgement or a dead letter) never share an id.  So recycling an id neither
\* discards a predecessor's pending delivery (job-manager.ts:4132) nor lets the
\* acknowledgement of a predecessor suppress a new job's result (job-manager.ts:3856).
OneGenerationPerId ==
    \A g, h \in Holders : id[g] = id[h] => g = h

\* A cancelled job's result is never delivered, wherever the cancellation met the run
\* (job-manager.ts:1256): neither queued, nor in the yield queue, nor injected.
CancelledIsQuiet ==
    \A g \in Gen : status[g] = "cancelled" => g \notin queue \cup inflight \cup entries \cup injected

\* A result that a foreground call or a poll has returned is not injected again while
\* its job record is retained: the acknowledgement reaches the delivery in the queue, in
\* flight and in the yield queue (job-manager.ts:3269, sdk/session.ts:5877).
ToldIsNotInjected ==
    [][\A g \in Gen : g \in injected' \ injected => g \notin told \/ g \notin kept]_vars

\* The inductive invariant: types; one generation per id; a running job has a record, and
\* only a job that ended a delivery; an acknowledgement lasts as long as the record of a
\* job whose result was returned.
JobInv ==
    /\ JobsTypeOK
    /\ OneGenerationPerId
    /\ \A g \in queue \cup inflight \cup entries \cup injected : status[g] = "done"
    /\ \A g \in Gen : status[g] = "running" => g \in kept
    /\ \A g \in Gen : status[g] = "done" => g \in settled \cup external
    /\ \A g \in Gen : wait[g] # "none" => status[g] # "none"
    /\ \A g \in told : status[g] # "none" /\ (g \in kept => g \in acked)

\* A result that was returned by a tool call is never injected again.
NeverRepeated ==
    [][\A g \in Gen : g \in injected' \ injected => g \notin told]_vars

\* The result of every job that ends is returned, injected or recorded as a dead letter,
\* whatever watches, acknowledgements, retries and evictions it meets.
EveryResultSurfaces ==
    \A g \in Gen : status[g] = "done" ~> g \in told \cup injected \cup dead

=============================================================================
