---------------------------- MODULE SessionState ----------------------------
(***************************************************************************)
(* state.json, the session's lifecycle and blockers, and everything that   *)
(* writes it: the handlers of the RuntimeOwner (owner.ts), its frame pump, *)
(* its retirement, and the CLI processes (commands/harness.ts), which are  *)
(* routed to the owner and write the file themselves when the owner cannot *)
(* be reached or does not answer in time.                                  *)
(*                                                                         *)
(* Reads and writes of the file are atomic; every await between them is a  *)
(* step boundary.  Some writers hold the lifecycle mutex (a promise chain  *)
(* in the owner process), submit, recover, the pump and the CLI do not.    *)
(***************************************************************************)
EXTENDS Recovery, Sequences

CONSTANTS Client,     \* CLI processes, each with one handler in the owner
          Called,     \* the verbs they call
          MaxCalls,   \* bound: verbs called
          MaxFrames,  \* bound: semantic frames the agent sends
          MaxOwners   \* bound: owner processes started

ASSUME StateBounds ==
  /\ "retire" \notin Client
  /\ Called \subseteq {"validate", "operate", "finalize", "submit", "observe", "recover",
                       "retire", "classify"}
  /\ MaxCalls \in Nat /\ MaxFrames \in Nat /\ MaxOwners \in Nat

VARIABLES rec,      \* state.json: [life, blk]
          by,       \* who wrote it last: under the mutex ("locked") or not
          log,      \* the kinds of event in events.jsonl
          owner,    \* the owner process
          owners,   \* how many were started
          starter,  \* where `start --detach` is
          task,     \* per client, the handler in the owner
          chain,    \* #lifecycleMutation, a queue; its head runs
          retire,   \* where #retireOnce is
          retiree,  \* the state it has read
          pump,     \* the frame pump: [queue, at, snap]
          frames,   \* frames sent so far
          cli,      \* per client, the CLI process
          calls     \* verbs called so far

ownerVars == <<owner, owners, starter>>
vars == <<rec, by, log, ownerVars, task, chain, retire, retiree, pump, frames, cli, calls>>

Lives == {"started", "submitted", "observing", "validating", "finalizing",
          "completed", "blocked", "retired"}
SubmitReady == {"started", "observing"}
Terminal == {"completed", "retired"}

\* detached-owner-not-live, owner-vanished:*, owner-died-before-first-prompt,
\* and all the others, which no liveness code removes.
Blockers == {"not-live", "vanished", "startup", "other"}
Liveness == {"not-live", "vanished"}
State == [life : Lives, blk : SUBSET Blockers]

Work == {"validate", "operate", "finalize"}
Routed == Work \cup {"submit", "observe", "recover", "retire"}
Verbs == Routed \cup {"classify"}

Kinds == {"owner_started", "prompt_accepted", "activity", "completed"}

Fresh == [life |-> "started", blk |-> {}]
Off == [verb |-> "observe", at |-> "off", snap |-> Fresh, want |-> "started",
        again |-> FALSE, cut |-> FALSE, barrier |-> 0]
IdleCli == [verb |-> "observe", at |-> "idle", snap |-> Fresh, spawn |-> FALSE]
IdlePump == [queue |-> <<>>, at |-> "idle", snap |-> Fresh]

Up == owner \in {"up", "stopping"}

Init ==
  /\ rec = Fresh /\ by = "unlocked" /\ log = {}
  /\ owner = "none" /\ owners = 0 /\ starter = "spawn"
  /\ task = [c \in Client |-> Off] /\ chain = <<>>
  /\ retire = "no" /\ retiree = Fresh
  /\ pump = IdlePump /\ frames = 0
  /\ cli = [c \in Client |-> IdleCli]
  /\ calls = 0

WriteLocked(s) == rec' = s /\ by' = "locked"
WriteUnlocked(s) == rec' = s /\ by' = "unlocked"
-----------------------------------------------------------------------------
(* Starting an owner: `start --detach`, and recover of the CLI.            *)

SpawnOwner ==
  /\ ~Up /\ owners < MaxOwners
  /\ owner' = "up" /\ owners' = owners + 1
  /\ log' = log \cup {"owner_started"}

\* #spawnDetachedOwner of start; without --detach no owner is spawned.
StartSpawn ==
  /\ starter = "spawn"
  /\ \/ SpawnOwner /\ starter' = "live"
     \/ starter' \in {"failed", "done"} /\ UNCHANGED <<owner, owners, log>>
  /\ UNCHANGED <<rec, by, task, chain, retire, retiree, pump, frames, cli, calls>>

\* start writes the state it built before the spawn, or blocks it.
StartWrite ==
  /\ starter \in {"live", "failed"}
  /\ \/ starter = "live" /\ WriteUnlocked(Fresh)
     \/ starter = "failed"
        /\ \E b \in {{"not-live"}, {"other"}, {"not-live", "other"}} :
             WriteUnlocked([life |-> "blocked", blk |-> b])
  /\ starter' = "done"
  /\ UNCHANGED <<log, owner, owners, task, chain, retire, retiree, pump, frames, cli, calls>>
-----------------------------------------------------------------------------
(* The handlers of the owner.                                              *)

\* The CLI process of c goes on to a, or is done.
CliAt(c, a) == IF a = "idle" THEN IdleCli ELSE [cli[c] EXCEPT !.at = a]

Answered(c) ==
  IF cli[c].at = "wait" THEN [cli EXCEPT ![c] = IdleCli] ELSE cli

\* A handler returns; its client, if it is still there, has its answer.
Return(c) == task' = [task EXCEPT ![c] = Off] /\ cli' = Answered(c)

Goto(c, a, s) == task' = [task EXCEPT ![c].at = a, ![c].snap = s] /\ UNCHANGED cli

FirstInChain(c) == chain # <<>> /\ Head(chain) = c

NeedsFix(s) == "not-live" \in s.blk

\* Mutant: the blocker goes and the lifecycle stays.
ReconcileBlockersOnly(s) == [s EXCEPT !.blk = @ \ {"not-live"}]

ReconcileLiveOwnerState(s) ==
  LET b == s.blk \ {"not-live"} IN
  [life |-> IF NeedsFix(s) /\ s.life = "blocked" /\ b = {} THEN "observing" ELSE s.life,
   blk |-> b]

\* #loadState; a state with a startup blocker is fixed under the mutex.
\* #observe first awaits the pump as it was when the request came.
LoadState(c) ==
  /\ task[c].at = "load" /\ frames - Len(pump.queue) >= task[c].barrier
  /\ IF NeedsFix(rec)
     THEN Goto(c, "fix", rec) /\ chain' = Append(chain, c)
     ELSE Goto(c, "run", rec) /\ UNCHANGED chain
  /\ UNCHANGED <<rec, by, log, ownerVars, retire, retiree, pump, frames, calls>>

FixRead(c) ==
  /\ task[c].at = "fix" /\ FirstInChain(c)
  /\ IF NeedsFix(rec)
     THEN Goto(c, "fixing", ReconcileLiveOwnerState(rec)) /\ UNCHANGED chain
     ELSE Goto(c, "run", rec) /\ chain' = Tail(chain)
  /\ UNCHANGED <<rec, by, log, ownerVars, retire, retiree, pump, frames, calls>>

FixWrite(c) ==
  /\ task[c].at = "fixing"
  /\ WriteLocked(task[c].snap) /\ chain' = Tail(chain)
  /\ Goto(c, "run", task[c].snap)
  /\ UNCHANGED <<log, ownerVars, retire, retiree, pump, frames, calls>>

\* #observe writes nothing itself.
Observe(c) ==
  /\ task[c].at = "run" /\ task[c].verb = "observe"
  /\ Return(c)
  /\ UNCHANGED <<rec, by, log, ownerVars, chain, retire, retiree, pump, frames, calls>>

\* #submit: the lifecycle gate, then singleFlightAccept.
Submit(c) ==
  /\ task[c].at = "run" /\ task[c].verb = "submit"
  /\ IF task[c].snap.life \in SubmitReady THEN Goto(c, "accept", task[c].snap) ELSE Return(c)
  /\ UNCHANGED <<rec, by, log, ownerVars, chain, retire, retiree, pump, frames, calls>>

Accept(c) ==
  /\ task[c].at = "accept"
  /\ \/ Goto(c, "write", [task[c].snap EXCEPT !.life = "observing"])
     \/ Return(c)
  /\ UNCHANGED <<rec, by, log, ownerVars, chain, retire, retiree, pump, frames, calls>>

DefaultBudget ==
  [reinjectPrompt |-> 2, zeroDeltaVanish |-> 1, dirtyVanishPreserve |-> 1, validationRepair |-> 2]

Observed(live, risk, delta) ==
  [ownerLive |-> live, risk |-> risk, gitDelta |-> delta, failed |-> FALSE, done |-> FALSE]

\* gitDeltaFor and #observeGit never report zero-delta.
GitDeltas == {"clean", "dirty", "unknown"}

Recovered(s) ==
  LET b == s.blk \ {"vanished"} IN
  [life |-> IF b = {} THEN "observing" ELSE s.life, blk |-> b]

\* #recover: after a vanish the owner classifies as if it were gone.
Recover(c) ==
  /\ task[c].at = "run" /\ task[c].verb = "recover"
  /\ \E d \in GitDeltas, r \in {"normal", "deleted-worktree"} :
       LET s == task[c].snap
           o == Observed("vanished" \notin s.blk, r, d) IN
       IF RequiresVanishBeforeAction(ClassifyRecovery(o, DefaultBudget))
       THEN Goto(c, "write", Recovered(s)) ELSE Return(c)
  /\ UNCHANGED <<rec, by, log, ownerVars, chain, retire, retiree, pump, frames, calls>>

\* The write of #submit and of #recover: the state read at the start, no mutex.
Write(c) ==
  /\ task[c].at = "write"
  /\ WriteUnlocked(task[c].snap)
  /\ IF task[c].verb = "submit" THEN Goto(c, "tell", task[c].snap) ELSE Return(c)
  /\ UNCHANGED <<log, ownerVars, chain, retire, retiree, pump, frames, calls>>

\* prompt_accepted; #emit drops the event when the lease has expired.
Tell(c) ==
  /\ task[c].at = "tell"
  /\ log' \in {log, log \cup {"prompt_accepted"}}
  /\ Return(c)
  /\ UNCHANGED <<rec, by, ownerVars, chain, retire, retiree, pump, frames, calls>>

\* What #validate, #operateOwned and #finalizeOwned ask to be persisted.
Wanted(v) ==
  IF v = "validate" THEN {"validating", "blocked"}
  ELSE IF v = "finalize" THEN {"completed", "blocked"}
  ELSE {"submitted", "observing", "completed", "blocked"}

\* blockers === undefined keeps the ones there are.
BlockersFor(v, l, old) ==
  IF l = "blocked" THEN {"other"} ELSE IF v = "operate" THEN {} ELSE old

\* The long part: validation commands, the operate loop, finalize.  It ends
\* early, with nothing to persist, when the signal is aborted or it throws.
DoWork(c) ==
  /\ task[c].at = "run" /\ task[c].verb \in Work
  /\ \/ Return(c) /\ UNCHANGED chain
     \/ /\ ~task[c].cut
        /\ \E l \in Wanted(task[c].verb) :
             task' = [task EXCEPT ![c].at = "keep", ![c].want = l,
                                  ![c].again = (task[c].verb = "operate")]
        /\ chain' = Append(chain, c) /\ UNCHANGED cli
  /\ UNCHANGED <<rec, by, log, ownerVars, retire, retiree, pump, frames, calls>>

\* Mutant: the state read before the work is the one that is written back.
PersistReadStale(c) ==
  /\ task[c].at = "keep" /\ FirstInChain(c)
  /\ IF task[c].cut \/ task[c].snap.life \in Terminal
     THEN Return(c) /\ chain' = Tail(chain)
     ELSE /\ Goto(c, "keeping", [life |-> task[c].want,
                                 blk |-> BlockersFor(task[c].verb, task[c].want, task[c].snap.blk)])
          /\ UNCHANGED chain
  /\ UNCHANGED <<rec, by, log, ownerVars, retire, retiree, pump, frames, calls>>

\* Mutant: the early return does not unlock.
PersistReadKeepsLock(c) ==
  /\ task[c].at = "keep" /\ FirstInChain(c)
  /\ IF task[c].cut \/ rec.life \in Terminal THEN Return(c)
     ELSE Goto(c, "keeping", [life |-> task[c].want,
                              blk |-> BlockersFor(task[c].verb, task[c].want, rec.blk)])
  /\ UNCHANGED <<rec, by, log, ownerVars, chain, retire, retiree, pump, frames, calls>>

\* #persistValidationLifecycle: reread under the mutex, leave a terminal state.
PersistRead(c) ==
  /\ task[c].at = "keep" /\ FirstInChain(c)
  /\ IF task[c].cut \/ rec.life \in Terminal
     THEN Return(c) /\ chain' = Tail(chain)
     ELSE /\ Goto(c, "keeping", [life |-> task[c].want,
                                 blk |-> BlockersFor(task[c].verb, task[c].want, rec.blk)])
          /\ UNCHANGED chain
  /\ UNCHANGED <<rec, by, log, ownerVars, retire, retiree, pump, frames, calls>>

\* operate persists its end twice: for the closing event and for the result.
PersistWrite(c) ==
  /\ task[c].at = "keeping"
  /\ WriteLocked(task[c].snap)
  /\ IF task[c].again
     THEN /\ task' = [task EXCEPT ![c].at = "keep", ![c].again = FALSE]
          /\ chain' = Append(Tail(chain), c) /\ UNCHANGED cli
     ELSE Return(c) /\ chain' = Tail(chain)
  /\ UNCHANGED <<log, ownerVars, retire, retiree, pump, frames, calls>>

Handler(c) ==
  \/ LoadState(c) \/ FixRead(c) \/ FixWrite(c) \/ Observe(c) \/ Submit(c) \/ Accept(c)
  \/ Recover(c) \/ Write(c) \/ Tell(c) \/ DoWork(c) \/ PersistRead(c) \/ PersistWrite(c)
-----------------------------------------------------------------------------
(* Retirement, the frame pump, the end of the owner.                       *)

\* Mutant: recording retirement does not wait for submit and recover.
RetireJoinsWorkOnly ==
  /\ retire = "join" /\ Up
  /\ \A c \in Client : task[c].at = "off" \/ task[c].verb \notin Work
  /\ retire' = "queue" /\ chain' = Append(chain, "retire")
  /\ UNCHANGED <<rec, by, log, ownerVars, task, retiree, pump, frames, cli, calls>>

\* #retireOnce joins every handler, new ones being refused, and then queues.
RetireJoin ==
  /\ retire = "join" /\ Up
  /\ \A c \in Client : task[c].at = "off"
  /\ retire' = "queue" /\ chain' = Append(chain, "retire")
  /\ UNCHANGED <<rec, by, log, ownerVars, task, retiree, pump, frames, cli, calls>>

RetireRead ==
  /\ retire = "queue" /\ FirstInChain("retire")
  /\ retiree' = [rec EXCEPT !.life = "retired"] /\ retire' = "held"
  /\ UNCHANGED <<rec, by, log, ownerVars, task, chain, pump, frames, cli, calls>>

RetireWrite ==
  /\ retire = "held"
  /\ WriteLocked(retiree) /\ chain' = Tail(chain)
  /\ retire' = "done"
  /\ cli' = [c \in Client |->
               IF cli[c].at = "wait" /\ cli[c].verb = "retire" THEN IdleCli ELSE cli[c]]
  /\ retiree' = Fresh
  /\ UNCHANGED <<log, ownerVars, task, pump, frames, calls>>

\* A semantic frame of the agent is queued by #handleFrame.
Frame ==
  /\ owner = "up" /\ frames < MaxFrames
  /\ \E k \in {"activity", "completed"} : pump' = [pump EXCEPT !.queue = Append(@, k)]
  /\ frames' = frames + 1
  /\ UNCHANGED <<rec, by, log, ownerVars, task, chain, retire, retiree, cli, calls>>

\* #emitMapped reads the state for a completion frame.
PumpRead ==
  /\ pump.at = "idle" /\ pump.queue # <<>>
  /\ pump' = IF Head(pump.queue) = "completed" /\ rec.life \notin Terminal \cup {"finalizing"}
             THEN [pump EXCEPT !.at = "write", !.snap = [rec EXCEPT !.life = "finalizing"]]
             ELSE [pump EXCEPT !.at = "tell"]
  /\ UNCHANGED <<rec, by, log, ownerVars, task, chain, retire, retiree, frames, cli, calls>>

PumpWrite ==
  /\ pump.at = "write"
  /\ WriteUnlocked(pump.snap)
  /\ pump' = [pump EXCEPT !.at = "tell"]
  /\ UNCHANGED <<log, ownerVars, task, chain, retire, retiree, frames, cli, calls>>

PumpTell ==
  /\ pump.at = "tell"
  /\ log' \in {log, log \cup {Head(pump.queue)}}
  /\ pump' = [pump EXCEPT !.at = "idle", !.queue = Tail(@), !.snap = Fresh]
  /\ UNCHANGED <<rec, by, ownerVars, task, chain, retire, retiree, frames, cli, calls>>

CutWork ==
  [c \in Client |->
     IF task[c].at # "off" /\ task[c].verb \in Work THEN [task[c] EXCEPT !.cut = TRUE] ELSE task[c]]

\* stop(), on a signal or once retired.
StopOwner ==
  /\ owner = "up"
  /\ owner' = "stopping"
  /\ task' = CutWork
  /\ UNCHANGED <<rec, by, log, owners, starter, chain, retire, retiree, pump, frames, cli, calls>>

\* stop() has joined retirement, the handlers and the pump (see RuntimeOwner).
OwnerExits ==
  /\ owner = "stopping" /\ retire \in {"no", "done"}
  /\ \A c \in Client : task[c].at = "off"
  /\ pump.queue = <<>>
  /\ owner' = "exited" /\ retire' = "no"
  /\ UNCHANGED <<rec, by, log, owners, starter, task, chain, retiree, pump, frames, cli, calls>>

\* The process dies; a call that waits for it sees the connection reset.
OwnerDies ==
  /\ Up
  /\ owner' = "dead" /\ retire' = "no" /\ chain' = <<>> /\ pump' = IdlePump
  /\ task' = [c \in Client |-> Off]
  /\ cli' = [c \in Client |->
               IF cli[c].at # "wait" THEN cli[c]
               ELSE CliAt(c, IF cli[c].verb \in Work THEN "idle" ELSE "load")]
  /\ retiree' = Fresh
  /\ UNCHANGED <<rec, by, log, owners, starter, frames, calls>>
-----------------------------------------------------------------------------
(* The CLI.                                                                *)

\* A verb is called.  submit reads the state first and is routed only if it
\* could be accepted; classify is never routed.
Call(c, v) ==
  /\ cli[c].at = "idle" /\ calls < MaxCalls
  /\ v \in Routed => task[c].at = "off"
  /\ calls' = calls + 1
  /\ cli' = [cli EXCEPT ![c] =
       IF v = "classify" THEN [IdleCli EXCEPT !.verb = v, !.at = "load"]
       ELSE IF v = "submit" /\ rec.life \notin SubmitReady
       THEN [IdleCli EXCEPT !.verb = v, !.at = "look", !.snap = rec]
       ELSE [IdleCli EXCEPT !.verb = v, !.at = "route"]]
  /\ UNCHANGED <<rec, by, log, ownerVars, task, chain, retire, retiree, pump, frames>>

\* No owner answers: the verbs of the owner report it, the others go on alone.
FallBack(c) == [cli EXCEPT ![c] = CliAt(c, IF cli[c].verb \in Work THEN "idle" ELSE "load")]

\* Mutant: a lease that was released is still routed to.
UnreachableUnlessExited(c) ==
  /\ cli[c].at = "route" /\ owner \notin {"up", "exited"}
  /\ cli' = FallBack(c)
  /\ UNCHANGED <<rec, by, log, ownerVars, task, chain, retire, retiree, pump, frames, calls>>

Unreachable(c) ==
  /\ cli[c].at = "route" /\ owner # "up"
  /\ cli' = FallBack(c)
  /\ UNCHANGED <<rec, by, log, ownerVars, task, chain, retire, retiree, pump, frames, calls>>

\* #handle: verbs are refused while the owner stops or retires.
Refused(c) ==
  /\ cli[c].at = "route" /\ Up
  /\ owner = "stopping" \/ retire # "no"
  /\ cli[c].verb = "retire" => retire = "no"
  /\ cli' = [cli EXCEPT ![c] = IdleCli]
  /\ UNCHANGED <<rec, by, log, ownerVars, task, chain, retire, retiree, pump, frames, calls>>

Deliver(c) ==
  /\ cli[c].at = "route" /\ owner = "up" /\ retire = "no" /\ cli[c].verb # "retire"
  /\ task' = [task EXCEPT ![c] =
       [Off EXCEPT !.verb = cli[c].verb, !.at = "load",
                   !.barrier = IF cli[c].verb = "observe" THEN frames ELSE 0]]
  /\ cli' = [cli EXCEPT ![c].at = "wait"]
  /\ UNCHANGED <<rec, by, log, ownerVars, chain, retire, retiree, pump, frames, calls>>

\* #retire: one retirement, whoever asks; it aborts the work under way.
DeliverRetire(c) ==
  /\ cli[c].at = "route" /\ cli[c].verb = "retire" /\ Up
  /\ IF retire # "no" THEN UNCHANGED <<retire, task>>
     ELSE owner = "up" /\ retire' = "join" /\ task' = CutWork
  /\ cli' = [cli EXCEPT ![c] = CliAt(c, IF retire = "done" THEN "idle" ELSE "wait")]
  /\ UNCHANGED <<rec, by, log, ownerVars, chain, retiree, pump, frames, calls>>

\* callEndpoint gives up after five seconds.  The disconnect aborts the
\* request's signal, which only validate, operate and finalize look at.
TimeOut(c) ==
  /\ cli[c].at = "wait"
  /\ cli' = FallBack(c)
  /\ task' = IF task[c].at # "off" /\ task[c].verb \in Work
             THEN [task EXCEPT ![c].cut = TRUE] ELSE task
  /\ UNCHANGED <<rec, by, log, ownerVars, chain, retire, retiree, pump, frames, calls>>

Load(c) ==
  /\ cli[c].at = "load"
  /\ cli' = [cli EXCEPT ![c].at = "look", ![c].snap = rec]
  /\ UNCHANGED <<rec, by, log, ownerVars, task, chain, retire, retiree, pump, frames, calls>>

\* buildOwnerExitEvidence: the lease is missing or dead, an owner announced
\* itself and no prompt was accepted.
StartupBlocker ==
  ~Up /\ "owner_started" \in log /\ log \cap {"prompt_accepted", "completed"} = {}

\* reconcileOwnerLifecycle; its up to three writes build on one another and
\* are one here.
Reconcile(s, live, d, startup) ==
  LET done == "completed" \in log
      s1 == IF done /\ ~live /\ d = "clean" /\ s.life \notin Terminal
            THEN [life |-> "completed", blk |-> s.blk \ Liveness] ELSE s
      s2 == IF ~live /\ s1.life = "observing" /\ ~done
               /\ log \cap {"prompt_accepted", "activity"} # {}
            THEN [life |-> "blocked", blk |-> s1.blk \cup {"vanished"}] ELSE s1
  IN IF startup /\ s2.life \notin Terminal
     THEN [life |-> "blocked", blk |-> s2.blk \cup {"startup"}] ELSE s2

\* #submit returns before it reconciles when the lifecycle alone forbids it.
SubmitGated(s) ==
  s.life \notin SubmitReady /\ s.blk \cap (Liveness \cup {"startup"}) = {}

\* #recoverWithoutOwner: spawn for a session that never had an owner, or when
\* the classification wants one and the lease names an endpoint.
WantsSpawn(s, r, d) ==
  LET endpoint == owner \in {"up", "stopping", "dead"} IN
  \/ s.life = "started" /\ ~endpoint /\ log = {} /\ r # "deleted-worktree"
  \/ endpoint /\ OwnerRequired(ClassifyRecovery(Observed(FALSE, r, d), DefaultBudget))

\* The result of the look at log, git and lease: what to write, if anything.
\* Only classify asks whether the owner is live.
Outcome(v, s, d) ==
  IF v = "retire" THEN IF d = "clean" THEN [s EXCEPT !.life = "retired"] ELSE s
  ELSE IF v = "submit" /\ SubmitGated(s) THEN s
  ELSE Reconcile(s, v = "classify" /\ Up, d, v \in {"observe", "submit"} /\ StartupBlocker)

Look(c) ==
  /\ cli[c].at = "look"
  /\ \E d \in GitDeltas, r \in {"normal", "deleted-worktree"} :
       LET s == Outcome(cli[c].verb, cli[c].snap, d)
           spawn == cli[c].verb = "recover" /\ WantsSpawn(s, r, d) IN
       cli' = [cli EXCEPT ![c] =
         IF s # cli[c].snap \/ (cli[c].verb = "retire" /\ d = "clean")
         THEN [@ EXCEPT !.at = "write", !.snap = s, !.spawn = spawn]
         ELSE CliAt(c, IF spawn THEN "spawn" ELSE "idle")]
  /\ UNCHANGED <<rec, by, log, ownerVars, task, chain, retire, retiree, pump, frames, calls>>

WriteBack(c) ==
  /\ cli[c].at = "write"
  /\ WriteUnlocked(cli[c].snap)
  /\ cli' = [cli EXCEPT ![c] = CliAt(c, IF cli[c].spawn THEN "spawn" ELSE "idle")]
  /\ UNCHANGED <<log, ownerVars, task, chain, retire, retiree, pump, frames, calls>>

\* #spawnDetachedOwner of recover; an owner that is there already will do.
Spawn(c) ==
  /\ cli[c].at = "spawn"
  /\ \/ SpawnOwner /\ cli' = [cli EXCEPT ![c].at = "restore"]
     \/ /\ cli' = [cli EXCEPT ![c] = CliAt(c, IF Up THEN "restore" ELSE "idle")]
        /\ UNCHANGED <<owner, owners, log>>
  /\ UNCHANGED <<rec, by, starter, task, chain, retire, retiree, pump, frames, calls>>

\* updateStateWithRestoredOwner and the write, if the owner still resolves.
Restore(c) ==
  /\ cli[c].at = "restore"
  /\ IF Up THEN WriteUnlocked([life |-> "observing", blk |-> cli[c].snap.blk \ Liveness])
     ELSE UNCHANGED <<rec, by>>
  /\ cli' = [cli EXCEPT ![c] = IdleCli]
  /\ UNCHANGED <<log, ownerVars, task, chain, retire, retiree, pump, frames, calls>>

Cli(c) ==
  \/ Unreachable(c) \/ Refused(c) \/ Deliver(c) \/ DeliverRetire(c) \/ TimeOut(c)
  \/ Load(c) \/ Look(c) \/ WriteBack(c) \/ Spawn(c) \/ Restore(c)

Retirement == RetireJoin \/ RetireRead \/ RetireWrite
Pump == PumpRead \/ PumpWrite \/ PumpTell

Next ==
  \/ StartSpawn \/ StartWrite
  \/ \E c \in Client : Handler(c) \/ Cli(c) \/ \E v \in Called : Call(c, v)
  \/ Retirement \/ Frame \/ Pump \/ StopOwner \/ OwnerExits \/ OwnerDies

Spec == Init /\ [][Next]_vars

\* Handlers, pump and retirement run on (acceptance and validation have their
\* timeouts), and a CLI process does what it does next.
Fairness ==
  /\ \A c \in Client : WF_vars(Handler(c)) /\ WF_vars(Cli(c))
  /\ WF_vars(Retirement) /\ WF_vars(Pump)

FairSpec == Spec /\ Fairness
-----------------------------------------------------------------------------
\* A blocked session names what blocks it, whoever wrote last and however stale
\* the state it wrote was.  Without a blocker neither a live owner's
\* #loadState nor recover would ever unblock it.
BlockedHasReason == rec.life = "blocked" => rec.blk # {}

\* owner.ts:1017-1018, retirement joins "every request that could still commit
\* state": once it is recorded only the frame pump, a CLI process on its own
\* or start can overwrite it, no handler of the owner.
RetirementJoinsHandlers ==
  [][retire = "done" /\ rec' # rec => pump' # pump \/ cli' # cli \/ starter' # starter]_vars

\* owner.ts:859-860, "an older operation snapshot cannot resurrect terminal
\* state": what was completed or retired under the mutex is not undone by
\* another writer under the mutex.
LockedWritersKeepTerminal ==
  [][by = "locked" /\ rec.life \in Terminal /\ rec'.life # rec.life
     => by' = "unlocked" \/ rec'.life = "retired"]_vars

\* A retirement that was asked for is recorded unless the owner dies: joining
\* the handlers and queueing for the mutex cannot wait for one another.
RetireFinishes == retire = "join" ~> retire \in {"done", "no"}

\* Every CLI verb returns to its caller, whatever happens to the owner.
CallsReturn == \A c \in Client : cli[c].at # "idle" ~> cli[c].at = "idle"

\* owner.ts:1017-1018 again, taken at its word for the owner as a whole: after
\* "recording retirement" nothing in the owner commits state.
OwnerWritesEndWithRetire ==
  [][retire = "done" /\ rec' # rec => cli' # cli \/ starter' # starter]_vars

\* owner.ts:859-860 again, for the handlers that write without the mutex too:
\* none of them brings a completed session back to life.
HandlersKeepCompleted ==
  [][by = "locked" /\ rec.life = "completed" /\ rec'.life \notin Terminal => task' = task]_vars

\* commands/harness.ts:384-385, "a failed endpoint call is a transient
\* observation gap": an owner that is alive is not recorded as vanished.
VanishedMeansGone ==
  [][ "vanished" \in rec'.blk \ rec.blk => owner # "up" ]_vars
=============================================================================
