--------------------------- MODULE RecoveryProofs ---------------------------
(***************************************************************************)
(* What TLAPS proves of the two modules that act on a classification of    *)
(* Recovery: state.json with all its writers, for any number of clients,   *)
(* calls, frames and owners, and the operate loop, for every window,       *)
(* budget, set of observations and set of worktrees.                       *)
(*                                                                         *)
(* SessionInv says what each writer of state.json may have in its hands,   *)
(* that none of the owner's runs once retirement has joined them, and that *)
(* who is between read and write under the mutex is first in its queue.    *)
(* OperateInv adds to the types that what was spent and what is left stay  *)
(* within the budget, and that the receipt in hand is valid for its round. *)
(***************************************************************************)
EXTENDS SessionState, OperateLoop, TLAPS

(***************************************************************************)
(* state.json and its writers.                                             *)
(***************************************************************************)
\* A state that names what blocks it.
Reasoned == {s \in State : s.life = "blocked" => s.blk # {}}

TaskPlaces == {"off", "load", "fix", "fixing", "run", "accept", "write", "tell", "keep", "keeping"}
CliPlaces == {"idle", "route", "wait", "load", "look", "write", "spawn", "restore"}
FrameKinds == {"activity", "completed"}

TaskState == [verb : Verbs, at : TaskPlaces, snap : Reasoned, want : Lives, again : BOOLEAN,
              cut : BOOLEAN, barrier : Nat]
CliState == [verb : Verbs, at : CliPlaces, snap : Reasoned, spawn : BOOLEAN]
PumpState == [queue : Seq(FrameKinds), at : {"idle", "write", "tell"}, snap : Reasoned]

\* The types, and that no writer has a state in hand that is blocked for no
\* reason: neither the handlers, the pump and the retirement nor the CLI.
HandsInv ==
  /\ rec \in Reasoned /\ retiree \in Reasoned
  /\ task \in [Client -> TaskState]
  /\ cli \in [Client -> CliState]
  /\ pump \in PumpState /\ (pump.at # "idle" => pump.queue # <<>>)
  /\ chain \in Seq(Client \cup {"retire"})
  /\ frames \in Nat

\* Once retirement has joined the handlers none of them runs, and what it
\* means to write is a retired state.
JoinInv ==
  /\ retire \in {"no", "join", "queue", "held", "done"}
  /\ retire \in {"queue", "held", "done"} => \A c \in Client : task[c].at = "off"
  /\ retire = "held" => retiree.life = "retired"

\* Who is between the read and the write of the mutex is first in its queue,
\* and what it has read still holds unless somebody wrote without the mutex.
MutexInv ==
  /\ \A c \in Client : task[c].at \in {"fixing", "keeping"} => FirstInChain(c)
  /\ retire = "held" => FirstInChain("retire")
  /\ by \in {"locked", "unlocked"}
  /\ \A c \in Client : by = "locked" =>
       /\ task[c].at = "fixing" => task[c].snap = ReconcileLiveOwnerState(rec)
       /\ task[c].at = "keeping" => rec.life \notin Terminal

SessionInv == HandsInv /\ JoinInv /\ MutexInv

(***************************************************************************)
(* States that name what blocks them stay such states.                     *)
(***************************************************************************)
\* The building blocks of the states that are written.
LEMMA StatesReasoned ==
  /\ Fresh \in Reasoned
  /\ \A s \in Reasoned : s \in [life : Lives, blk : SUBSET Blockers]
  /\ \A l \in Lives \ {"blocked"}, b \in SUBSET Blockers : [life |-> l, blk |-> b] \in Reasoned
  /\ \A l \in Lives, b \in (SUBSET Blockers) \ {{}} : [life |-> l, blk |-> b] \in Reasoned
  BY DEF Fresh, Reasoned, State, Lives

\* A state read and given another lifecycle.
LEMMA LifeChanged ==
  ASSUME NEW s \in Reasoned, NEW l \in Lives \ {"blocked"}
  PROVE  [s EXCEPT !.life = l] \in Reasoned
<1>1. [s EXCEPT !.life = l] = [life |-> l, blk |-> s.blk] /\ s.blk \in SUBSET Blockers
  BY StatesReasoned
<1> QED BY <1>1, StatesReasoned

\* What #loadState makes of a state with a startup blocker.
LEMMA ReconcileLive ==
  ASSUME NEW s \in Reasoned
  PROVE  /\ ReconcileLiveOwnerState(s) \in Reasoned
         /\ s.life \in Terminal => ReconcileLiveOwnerState(s).life = s.life
<1> DEFINE b == s.blk \ {"not-live"}
           l == IF NeedsFix(s) /\ s.life = "blocked" /\ b = {} THEN "observing" ELSE s.life
<1>1. s.life \in Lives /\ s.blk \in SUBSET Blockers /\ (s.life = "blocked" => s.blk # {})
  BY DEF Reasoned, State
<1>2. ReconcileLiveOwnerState(s) = [life |-> l, blk |-> b]
  BY DEF ReconcileLiveOwnerState
<1>3. l \in Lives /\ b \in SUBSET Blockers /\ (l = "blocked" => b # {})
  BY <1>1 DEF NeedsFix, Lives
<1>4. s.life \in Terminal => l = s.life
  BY DEF Terminal
<1> HIDE DEF l, b
<1> QED BY <1>2, <1>3, <1>4 DEF Reasoned, State

\* What #recover makes of the state.
LEMMA RecoveredReasoned ==
  ASSUME NEW s \in Reasoned
  PROVE  Recovered(s) \in Reasoned
<1> DEFINE b == s.blk \ {"vanished"}
           l == IF b = {} THEN "observing" ELSE s.life
<1>1. s.life \in Lives /\ s.blk \in SUBSET Blockers
  BY DEF Reasoned, State
<1>2. Recovered(s) = [life |-> l, blk |-> b]
  BY DEF Recovered
<1>3. l \in Lives /\ b \in SUBSET Blockers /\ (l = "blocked" => b # {})
  BY <1>1 DEF Lives
<1> HIDE DEF l, b
<1> QED BY <1>2, <1>3 DEF Reasoned, State

\* What reconcileOwnerLifecycle makes of the state.
LEMMA ReconcileReasoned ==
  ASSUME NEW s \in Reasoned, NEW live \in BOOLEAN, NEW d \in GitDeltas, NEW startup \in BOOLEAN
  PROVE  Reconcile(s, live, d, startup) \in Reasoned
<1> DEFINE done == "completed" \in log
           s1 == IF done /\ ~live /\ d = "clean" /\ s.life \notin Terminal
                 THEN [life |-> "completed", blk |-> s.blk \ Liveness] ELSE s
           s2 == IF ~live /\ s1.life = "observing" /\ ~done
                    /\ log \cap {"prompt_accepted", "activity"} # {}
                 THEN [life |-> "blocked", blk |-> s1.blk \cup {"vanished"}] ELSE s1
           s3 == IF startup /\ s2.life \notin Terminal
                 THEN [life |-> "blocked", blk |-> s2.blk \cup {"startup"}] ELSE s2
<1>1. s1 \in Reasoned
  BY DEF Reasoned, State, Lives
<1> HIDE DEF s1
<1>2. s2 \in Reasoned
  BY <1>1 DEF Reasoned, State, Lives, Blockers
<1> HIDE DEF s2
<1>3. s3 \in Reasoned
  BY <1>2 DEF Reasoned, State, Lives, Blockers
<1> QED BY <1>3 DEF Reconcile, s1, s2

\* What a CLI process finds to be written.
LEMMA OutcomeReasoned ==
  ASSUME NEW s \in Reasoned, NEW d \in GitDeltas, NEW v \in Verbs
  PROVE  Outcome(v, s, d) \in Reasoned
<1>1. [s EXCEPT !.life = "retired"] \in Reasoned
  BY LifeChanged DEF Lives
<1>2. (v = "classify" /\ Up) \in BOOLEAN /\ (v \in {"observe", "submit"} /\ StartupBlocker) \in BOOLEAN
  OBVIOUS
<1> QED BY <1>1, <1>2, ReconcileReasoned, Zenon DEF Outcome

(***************************************************************************)
(* What the steps of a handler change.                                     *)
(***************************************************************************)
\* A handler goes on.
LEMMA GotoFacts ==
  ASSUME HandsInv, NEW c \in Client, NEW a \in TaskPlaces, NEW s \in Reasoned, Goto(c, a, s)
  PROVE  /\ task' \in [Client -> TaskState] /\ cli' = cli
         /\ task'[c].at = a /\ task'[c].snap = s /\ task'[c].verb = task[c].verb
         /\ \A d \in Client \ {c} : task'[d] = task[d]
<1> DEFINE k == [task[c] EXCEPT !.at = a, !.snap = s]
<1>1. task \in [Client -> TaskState] /\ task[c] \in TaskState
  BY DEF HandsInv
<1>2. k \in TaskState /\ k.at = a /\ k.snap = s /\ k.verb = task[c].verb
  BY <1>1, Zenon DEF TaskState
<1>3. task' = [task EXCEPT ![c] = k] /\ cli' = cli
  BY <1>1, Zenon DEF Goto
<1> HIDE DEF k
<1> QED BY <1>1, <1>2, <1>3

\* The records a handler, a CLI process and the pump start from.
LEMMA Resting ==
  /\ Off \in TaskState /\ Off.at = "off"
  /\ IdleCli \in CliState /\ IdleCli.at = "idle"
  /\ IdlePump \in PumpState /\ IdlePump.at = "idle"
<1>1. Fresh \in Reasoned
  BY StatesReasoned
<1>2. Off \in TaskState /\ Off.at = "off"
  BY <1>1 DEF Off, TaskState, TaskPlaces, Verbs, Routed, Work, Lives
<1>3. IdleCli \in CliState /\ IdleCli.at = "idle"
  BY <1>1 DEF IdleCli, CliState, CliPlaces, Verbs, Routed, Work
<1>4. IdlePump \in PumpState /\ IdlePump.at = "idle"
  BY <1>1 DEF IdlePump, PumpState, FrameKinds
<1> QED BY <1>2, <1>3, <1>4

\* Where a CLI process goes next.
LEMMA CliAtFacts ==
  ASSUME HandsInv, NEW c \in Client, NEW a \in CliPlaces
  PROVE  CliAt(c, a) \in CliState /\ CliAt(c, a).at = a
<1>1. cli[c] \in CliState
  BY DEF HandsInv
<1>2. [cli[c] EXCEPT !.at = a] \in CliState /\ [cli[c] EXCEPT !.at = a].at = a
  BY <1>1 DEF CliState
<1> QED BY <1>2, Resting DEF CliAt

\* A handler returns.
LEMMA ReturnFacts ==
  ASSUME HandsInv, NEW c \in Client, Return(c)
  PROVE  /\ task' \in [Client -> TaskState] /\ cli' \in [Client -> CliState]
         /\ task'[c] = Off /\ task'[c].at = "off"
         /\ \A d \in Client \ {c} : task'[d] = task[d]
  BY Resting DEF HandsInv, Return, Answered

\* A handler queues to persist what it came to.
LEMMA KeepFacts ==
  ASSUME HandsInv, NEW c \in Client, NEW l \in Lives, NEW a \in BOOLEAN,
         \/ task' = [task EXCEPT ![c].at = "keep", ![c].want = l, ![c].again = a]
         \/ task' = [task EXCEPT ![c].at = "keep", ![c].again = a]
  PROVE  /\ task' \in [Client -> TaskState] /\ task'[c].at = "keep"
         /\ \A d \in Client \ {c} : task'[d] = task[d]
<1> DEFINE j == [task[c] EXCEPT !.at = "keep", !.want = l, !.again = a]
           k == [task[c] EXCEPT !.at = "keep", !.again = a]
<1>1. task \in [Client -> TaskState] /\ task[c] \in TaskState
  BY DEF HandsInv
<1>2. j \in TaskState /\ j.at = "keep"
  BY <1>1, Zenon DEF TaskState, TaskPlaces
<1>3. k \in TaskState /\ k.at = "keep"
  BY <1>1, Zenon DEF TaskState, TaskPlaces
<1>4. task' = [task EXCEPT ![c] = j] \/ task' = [task EXCEPT ![c] = k]
  BY <1>1, Zenon
<1> HIDE DEF j, k
<1> QED BY <1>1, <1>2, <1>3, <1>4

\* Aborting the work under way moves no handler.
LEMMA CutFacts ==
  ASSUME HandsInv
  PROVE  /\ CutWork \in [Client -> TaskState]
         /\ \A d \in Client : CutWork[d].at = task[d].at /\ CutWork[d].snap = task[d].snap
<1>1. \A d \in Client : task[d] \in TaskState
  BY DEF HandsInv
<1>2. \A k \in TaskState : /\ [k EXCEPT !.cut = TRUE] \in TaskState
                           /\ [k EXCEPT !.cut = TRUE].at = k.at /\ [k EXCEPT !.cut = TRUE].snap = k.snap
  BY Zenon DEF TaskState
<1> QED BY <1>1, <1>2, Zenon DEF CutWork

\* The queue of the mutex: appending keeps its head, and it stays a queue.
LEMMA ChainFacts ==
  ASSUME NEW q \in Seq(Client \cup {"retire"}), NEW x \in Client \cup {"retire"}
  PROVE  /\ Append(q, x) \in Seq(Client \cup {"retire"}) /\ Append(q, x) # <<>>
         /\ q # <<>> => Head(Append(q, x)) = Head(q)
         /\ q # <<>> => Tail(q) \in Seq(Client \cup {"retire"})
  OBVIOUS

\* Every step of a handler leaves only states in hand that name their blocker.
LEMMA HandlerHands ==
  ASSUME HandsInv, MutexInv, NEW c \in Client, Handler(c)
  PROVE  HandsInv'
<1>1. /\ rec \in Reasoned /\ retiree \in Reasoned /\ task \in [Client -> TaskState]
      /\ cli \in [Client -> CliState] /\ chain \in Seq(Client \cup {"retire"})
      /\ task[c] \in TaskState /\ task[c].snap \in Reasoned
  BY DEF HandsInv, TaskState
<1>2. UNCHANGED <<retiree, pump, frames>>
  BY Zenon DEF Handler, LoadState, FixRead, FixWrite, Observe, Submit, Accept, Recover, Write, Tell,
         DoWork, PersistRead, PersistWrite
<1>3. SUFFICES /\ rec' \in Reasoned /\ task' \in [Client -> TaskState]
               /\ cli' \in [Client -> CliState] /\ chain' \in Seq(Client \cup {"retire"})
  BY <1>2 DEF HandsInv
<1>4. \A a \in TaskPlaces, s \in Reasoned :
        Goto(c, a, s) => task' \in [Client -> TaskState] /\ cli' \in [Client -> CliState]
  BY <1>1, GotoFacts
<1>5. Return(c) => task' \in [Client -> TaskState] /\ cli' \in [Client -> CliState]
  BY ReturnFacts
<1>6. chain # <<>> => Tail(chain) \in Seq(Client \cup {"retire"})
  BY <1>1, ChainFacts
<1>7. Append(chain, c) \in Seq(Client \cup {"retire"})
  BY <1>1, ChainFacts
<1>8. CASE LoadState(c)
  BY <1>1, <1>4, <1>7, <1>8, Zenon DEF LoadState, TaskPlaces
<1>9. CASE FixRead(c)
  <2>1. ReconcileLiveOwnerState(rec) \in Reasoned
    BY <1>1, ReconcileLive
  <2>2. chain # <<>> /\ UNCHANGED rec /\ (chain' = chain \/ chain' = Tail(chain))
    BY <1>9 DEF FixRead, FirstInChain
  <2>3. Goto(c, "fixing", ReconcileLiveOwnerState(rec)) \/ Goto(c, "run", rec)
    BY <1>9, Zenon DEF FixRead
  <2> QED BY <1>1, <1>4, <1>6, <2>1, <2>2, <2>3, Zenon DEF TaskPlaces
<1>10. CASE FixWrite(c)
  <2>1. chain # <<>>
    BY <1>10 DEF FixWrite, MutexInv, FirstInChain
  <2> QED BY <1>1, <1>4, <1>6, <1>10, <2>1 DEF FixWrite, TaskPlaces, WriteLocked
<1>11. CASE Observe(c)
  BY <1>1, <1>5, <1>11 DEF Observe
<1>12. CASE Submit(c)
  BY <1>1, <1>4, <1>5, <1>12 DEF Submit, TaskPlaces
<1>13. CASE Accept(c)
  <2>1. [task[c].snap EXCEPT !.life = "observing"] \in Reasoned
    BY <1>1, LifeChanged, Zenon DEF Lives
  <2> QED BY <1>1, <1>4, <1>5, <1>13, <2>1 DEF Accept, TaskPlaces
<1>14. CASE Recover(c)
  <2>1. Recovered(task[c].snap) \in Reasoned
    BY <1>1, RecoveredReasoned
  <2>2. Goto(c, "write", Recovered(task[c].snap)) \/ Return(c)
    BY <1>14, Zenon DEF Recover
  <2> QED BY <1>1, <1>4, <1>5, <1>14, <2>1, <2>2 DEF Recover, TaskPlaces
<1>15. CASE Write(c)
  BY <1>1, <1>4, <1>5, <1>15 DEF Write, TaskPlaces, WriteUnlocked
<1>16. CASE Tell(c)
  BY <1>1, <1>5, <1>16 DEF Tell
<1>17. CASE DoWork(c)
  <2>1. \A v : Wanted(v) \subseteq Lives
    BY DEF Wanted, Lives
  <2>2. (task[c].verb = "operate") \in BOOLEAN
    OBVIOUS
  <2>3. CASE Return(c) /\ UNCHANGED chain
    BY <1>1, <1>5, <1>17, <2>3 DEF DoWork
  <2>4. CASE ~(Return(c) /\ UNCHANGED chain)
    <3>1. PICK l \in Wanted(task[c].verb) :
            task' = [task EXCEPT ![c].at = "keep", ![c].want = l, ![c].again = (task[c].verb = "operate")]
      BY <1>17, <2>4, ZenonT(30) DEF DoWork
    <3>2. task' \in [Client -> TaskState]
      BY <2>1, <2>2, <3>1, KeepFacts, Zenon
    <3> QED BY <1>1, <1>7, <1>17, <2>4, <3>2, Zenon DEF DoWork
  <2> QED BY <2>3, <2>4
<1>18. CASE PersistRead(c)
  <2> DEFINE s == [life |-> task[c].want, blk |-> BlockersFor(task[c].verb, task[c].want, rec.blk)]
  <2>1. s \in Reasoned
    <3>1. task[c].want \in Lives /\ rec.blk \in SUBSET Blockers
      BY <1>1 DEF TaskState, Reasoned, State
    <3> QED BY <3>1 DEF Reasoned, State, BlockersFor, Blockers
  <2> HIDE DEF s
  <2>2. Goto(c, "keeping", s) \/ Return(c)
    BY <1>18, Zenon DEF PersistRead, s
  <2>3. UNCHANGED rec /\ (chain' = chain \/ (chain # <<>> /\ chain' = Tail(chain)))
    BY <1>18 DEF PersistRead, FirstInChain
  <2> QED BY <1>1, <1>4, <1>5, <1>6, <2>1, <2>2, <2>3 DEF TaskPlaces
<1>19. CASE PersistWrite(c)
  <2>1. chain # <<>>
    BY <1>19 DEF PersistWrite, MutexInv, FirstInChain
  <2>2. Append(Tail(chain), c) \in Seq(Client \cup {"retire"})
    BY <1>6, <2>1, ChainFacts
  <2>3. task' = [task EXCEPT ![c].at = "keep", ![c].again = FALSE] => task' \in [Client -> TaskState]
    BY KeepFacts, StatesReasoned, Zenon DEF Lives
  <2> QED BY <1>1, <1>5, <1>6, <1>19, <2>1, <2>2, <2>3, Zenon DEF PersistWrite, WriteLocked
<1> QED
  BY <1>8, <1>9, <1>10, <1>11, <1>12, <1>13, <1>14, <1>15, <1>16, <1>17, <1>18, <1>19 DEF Handler

\* So does every step of a CLI process.
LEMMA CliHands ==
  ASSUME HandsInv, NEW c \in Client, Cli(c)
  PROVE  HandsInv'
<1>1. /\ rec \in Reasoned /\ task \in [Client -> TaskState] /\ cli \in [Client -> CliState]
      /\ cli[c] \in CliState /\ cli[c].snap \in Reasoned /\ cli[c].verb \in Verbs
      /\ frames \in Nat
  BY DEF HandsInv, CliState
<1>2. UNCHANGED <<retiree, pump, frames, chain>>
  BY Zenon DEF Cli, Unreachable, Refused, Deliver, DeliverRetire, TimeOut, Load, Look, WriteBack,
         Spawn, Restore
<1>3. SUFFICES rec' \in Reasoned /\ task' \in [Client -> TaskState] /\ cli' \in [Client -> CliState]
  BY <1>2 DEF HandsInv
<1>4. \A k \in CliState : [cli EXCEPT ![c] = k] \in [Client -> CliState]
  BY <1>1
<1>5. \A a \in CliPlaces : CliAt(c, a) \in CliState /\ [cli[c] EXCEPT !.at = a] \in CliState
  BY <1>1, CliAtFacts DEF CliState
<1>6. IdleCli \in CliState
  BY Resting
<1>7. FallBack(c) \in [Client -> CliState]
  BY <1>4, <1>5 DEF FallBack, CliPlaces
<1>8. CASE Unreachable(c)
  BY <1>1, <1>7, <1>8 DEF Unreachable
<1>9. CASE Refused(c)
  BY <1>1, <1>4, <1>6, <1>9 DEF Refused
<1>10. CASE Deliver(c)
  <2> DEFINE k == [Off EXCEPT !.verb = cli[c].verb, !.at = "load",
                              !.barrier = IF cli[c].verb = "observe" THEN frames ELSE 0]
  <2>1. k \in TaskState
    BY <1>1, Resting, Zenon DEF TaskState, TaskPlaces
  <2> HIDE DEF k
  <2>2. task' = [task EXCEPT ![c] = k] /\ UNCHANGED rec
    BY <1>10, Zenon DEF Deliver, k
  <2>3. cli' = [cli EXCEPT ![c] = [cli[c] EXCEPT !.at = "wait"]]
    BY <1>1, <1>10, Zenon DEF Deliver
  <2> QED BY <1>1, <1>4, <1>5, <2>1, <2>2, <2>3 DEF CliPlaces
<1>11. CASE DeliverRetire(c)
  BY <1>1, <1>4, <1>5, <1>11, CutFacts DEF DeliverRetire, CliPlaces
<1>12. CASE TimeOut(c)
  <2> DEFINE k == [task[c] EXCEPT !.cut = TRUE]
  <2>1. k \in TaskState
    BY <1>1, Zenon DEF TaskState
  <2> HIDE DEF k
  <2>2. task' = [task EXCEPT ![c] = k] \/ task' = task
    BY <1>1, <1>12, Zenon DEF TimeOut, k
  <2> QED BY <1>1, <1>7, <1>12, <2>1, <2>2, Zenon DEF TimeOut
<1>13. CASE Load(c)
  <2>1. [cli[c] EXCEPT !.at = "look", !.snap = rec] \in CliState
    BY <1>1, Zenon DEF CliState, CliPlaces
  <2>2. cli' = [cli EXCEPT ![c] = [cli[c] EXCEPT !.at = "look", !.snap = rec]]
    BY <1>1, <1>13, Zenon DEF Load
  <2> QED BY <1>1, <1>4, <1>13, <2>1, <2>2, Zenon DEF Load
<1>14. CASE Look(c)
  <2>1. PICK d \in GitDeltas, r \in {"normal", "deleted-worktree"} :
         LET s == Outcome(cli[c].verb, cli[c].snap, d)
             spawn == cli[c].verb = "recover" /\ WantsSpawn(s, r, d) IN
         cli' = [cli EXCEPT ![c] =
           IF s # cli[c].snap \/ (cli[c].verb = "retire" /\ d = "clean")
           THEN [@ EXCEPT !.at = "write", !.snap = s, !.spawn = spawn]
           ELSE CliAt(c, IF spawn THEN "spawn" ELSE "idle")]
    BY <1>14, Zenon DEF Look
  <2> DEFINE s == Outcome(cli[c].verb, cli[c].snap, d)
             spawn == cli[c].verb = "recover" /\ WantsSpawn(s, r, d)
             j == [cli[c] EXCEPT !.at = "write", !.snap = s, !.spawn = spawn]
             k == CliAt(c, IF spawn THEN "spawn" ELSE "idle")
  <2>2. s \in Reasoned /\ spawn \in BOOLEAN
    BY <1>1, OutcomeReasoned
  <2> HIDE DEF s
  <2>3. k \in CliState
    BY <1>5 DEF CliPlaces
  <2> HIDE DEF spawn
  <2>4. j \in CliState
    BY <1>1, <2>2, Zenon DEF CliState, CliPlaces
  <2>5. cli' = [cli EXCEPT ![c] = j] \/ cli' = [cli EXCEPT ![c] = k]
    BY <1>1, <2>1, Zenon DEF s, spawn
  <2> HIDE DEF j, k
  <2> QED BY <1>1, <1>4, <1>14, <2>3, <2>4, <2>5 DEF Look
<1>15. CASE WriteBack(c)
  BY <1>1, <1>4, <1>5, <1>15 DEF WriteBack, CliPlaces, WriteUnlocked
<1>16. CASE Spawn(c)
  <2>1. \/ cli' = [cli EXCEPT ![c] = [cli[c] EXCEPT !.at = "restore"]]
        \/ cli' = [cli EXCEPT ![c] = CliAt(c, IF Up THEN "restore" ELSE "idle")]
    BY <1>1, <1>16, Zenon DEF Spawn
  <2> QED BY <1>1, <1>4, <1>5, <1>16, <2>1 DEF Spawn, CliPlaces
<1>17. CASE Restore(c)
  <2>1. [life |-> "observing", blk |-> cli[c].snap.blk \ Liveness] \in Reasoned
    BY <1>1 DEF Reasoned, State, Lives
  <2> QED BY <1>1, <1>4, <1>6, <1>17, <2>1, Zenon DEF Restore, WriteUnlocked
<1> QED
  BY <1>8, <1>9, <1>10, <1>11, <1>12, <1>13, <1>14, <1>15, <1>16, <1>17 DEF Cli

\* And so does a call.
LEMMA CallHands ==
  ASSUME HandsInv, NEW c \in Client, NEW v \in Called, Call(c, v)
  PROVE  HandsInv'
<1>1. rec \in Reasoned /\ cli \in [Client -> CliState] /\ v \in Verbs
  BY StateBounds DEF HandsInv, Verbs, Routed, Work
<1> DEFINE i == [IdleCli EXCEPT !.verb = v, !.at = "load"]
           j == [IdleCli EXCEPT !.verb = v, !.at = "look", !.snap = rec]
           k == [IdleCli EXCEPT !.verb = v, !.at = "route"]
<1>2. i \in CliState /\ j \in CliState /\ k \in CliState
  BY <1>1, Resting, Zenon DEF CliState, CliPlaces
<1>3. \E n \in {i, j, k} : cli' = [cli EXCEPT ![c] = n]
  BY Zenon DEF Call
<1> HIDE DEF i, j, k
<1>4. cli' \in [Client -> CliState]
  BY <1>1, <1>2, <1>3
<1>5. UNCHANGED <<rec, retiree, task, pump, chain, frames>>
  BY DEF Call
<1> QED BY <1>4, <1>5, Zenon DEF HandsInv

\* And start, the pump, retirement and the end of the owner.
LEMMA RestHands ==
  ASSUME HandsInv, MutexInv,
         \/ StartSpawn \/ StartWrite \/ Retirement \/ Frame \/ Pump
         \/ StopOwner \/ OwnerExits \/ OwnerDies
  PROVE  HandsInv'
<1>1. /\ rec \in Reasoned /\ retiree \in Reasoned /\ task \in [Client -> TaskState]
      /\ cli \in [Client -> CliState] /\ chain \in Seq(Client \cup {"retire"})
      /\ pump \in PumpState /\ pump.snap \in Reasoned /\ frames \in Nat
      /\ pump.queue \in Seq(FrameKinds) /\ (pump.at # "idle" => pump.queue # <<>>)
  BY DEF HandsInv, PumpState
<1>2. CASE StartSpawn
  BY <1>2, Zenon DEF StartSpawn, HandsInv
<1>3. CASE StartWrite
  <2>1. \A b \in {{"not-live"}, {"other"}, {"not-live", "other"}} : [life |-> "blocked", blk |-> b] \in Reasoned
    BY DEF Reasoned, State, Lives, Blockers
  <2>2. rec' \in Reasoned
    BY <1>3, <2>1, StatesReasoned, Zenon DEF StartWrite, WriteUnlocked
  <2> QED BY <1>3, <2>2, Zenon DEF StartWrite, HandsInv
<1>4. CASE RetireJoin
  <2>1. chain' \in Seq(Client \cup {"retire"})
    BY <1>1, <1>4, ChainFacts DEF RetireJoin
  <2> QED BY <1>4, <2>1, Zenon DEF RetireJoin, HandsInv
<1>5. CASE RetireRead
  <2>1. retiree' \in Reasoned
    BY <1>1, <1>5, LifeChanged, Zenon DEF RetireRead, Lives
  <2> QED BY <1>5, <2>1, Zenon DEF RetireRead, HandsInv
<1>6. CASE RetireWrite
  <2>1. cli' \in [Client -> CliState]
    BY <1>1, <1>6, Resting DEF RetireWrite
  <2>2. chain' \in Seq(Client \cup {"retire"})
    BY <1>1, <1>6, ChainFacts DEF RetireWrite, MutexInv, FirstInChain
  <2> QED BY <1>1, <1>6, <2>1, <2>2, StatesReasoned, Zenon DEF RetireWrite, HandsInv, WriteLocked
<1>7. CASE Frame
  <2>1. PICK k \in FrameKinds : pump' = [pump EXCEPT !.queue = Append(pump.queue, k)]
    BY <1>7, Zenon DEF Frame, FrameKinds
  <2>2. Append(pump.queue, k) \in Seq(FrameKinds) /\ Append(pump.queue, k) # <<>>
    BY <1>1, <2>1
  <2>3. pump' \in PumpState /\ pump'.queue = Append(pump.queue, k)
    BY <1>1, <2>1, <2>2, Zenon DEF PumpState
  <2>4. frames' \in Nat
    BY <1>1, <1>7 DEF Frame
  <2> QED BY <1>7, <2>2, <2>3, <2>4, Zenon DEF Frame, HandsInv
<1>8. CASE PumpRead
  <2> DEFINE s == [rec EXCEPT !.life = "finalizing"]
  <2>1. s \in Reasoned
    BY <1>1, LifeChanged, Zenon DEF Lives
  <2> HIDE DEF s
  <2>2. pump' = [pump EXCEPT !.at = "write", !.snap = s] \/ pump' = [pump EXCEPT !.at = "tell"]
    BY <1>8, Zenon DEF PumpRead, s
  <2>3. pump' \in PumpState /\ pump'.queue = pump.queue
    BY <1>1, <2>1, <2>2, Zenon DEF PumpState
  <2>4. pump.queue # <<>>
    BY <1>8 DEF PumpRead
  <2> QED BY <1>8, <2>3, <2>4, Zenon DEF PumpRead, HandsInv
<1>9. CASE PumpWrite
  <2>1. pump' \in PumpState /\ pump'.queue = pump.queue
    BY <1>1, <1>9, Zenon DEF PumpState, PumpWrite
  <2>2. pump.queue # <<>>
    BY <1>1, <1>9 DEF PumpWrite
  <2> QED BY <1>1, <1>9, <2>1, <2>2, Zenon DEF PumpWrite, HandsInv, WriteUnlocked
<1>10. CASE PumpTell
  <2>1. Tail(pump.queue) \in Seq(FrameKinds)
    BY <1>1, <1>10 DEF PumpTell
  <2>2. pump' = [pump EXCEPT !.at = "idle", !.queue = Tail(pump.queue), !.snap = Fresh]
    BY <1>10, Zenon DEF PumpTell
  <2>3. pump' \in PumpState /\ pump'.at = "idle"
    BY <1>1, <2>1, <2>2, StatesReasoned, Zenon DEF PumpState
  <2> QED BY <1>10, <2>3, Zenon DEF PumpTell, HandsInv
<1>11. CASE StopOwner
  BY <1>11, CutFacts, Zenon DEF StopOwner, HandsInv
<1>12. CASE OwnerExits
  BY <1>12, Zenon DEF OwnerExits, HandsInv
<1>13. CASE OwnerDies
  <2>1. \A c \in Client : CliAt(c, IF cli[c].verb \in Work THEN "idle" ELSE "load") \in CliState
    BY CliAtFacts, SMTT(20) DEF CliPlaces
  <2>2. cli' \in [Client -> CliState]
    BY <1>1, <1>13, <2>1 DEF OwnerDies
  <2>3. task' \in [Client -> TaskState]
    BY <1>13, Resting DEF OwnerDies
  <2>4. chain' \in Seq(Client \cup {"retire"})
    BY <1>13 DEF OwnerDies
  <2> QED BY <1>13, <2>2, <2>3, <2>4, Resting, StatesReasoned, Zenon DEF OwnerDies, HandsInv
<1> QED
  BY <1>2, <1>3, <1>4, <1>5, <1>6, <1>7, <1>8, <1>9, <1>10, <1>11, <1>12, <1>13 DEF Retirement, Pump

(***************************************************************************)
(* The mutex.                                                              *)
(***************************************************************************)
Holding == {"fixing", "keeping"}

\* A step that neither takes nor releases the mutex, and writes the state at
\* most without it.
LEMMA MutexQuiet ==
  ASSUME HandsInv, MutexInv,
         chain' = chain \/ \E x \in Client \cup {"retire"} : chain' = Append(chain, x),
         \A d \in Client : task'[d].at \in Holding
                             => task'[d].at = task[d].at /\ task'[d].snap = task[d].snap,
         retire' = "held" => retire = "held",
         by' = "unlocked" \/ (rec' = rec /\ by' = by)
  PROVE  MutexInv'
<1>1. chain # <<>> => chain' # <<>> /\ Head(chain') = Head(chain)
  BY ChainFacts DEF HandsInv
<1>2. \A d \in Client : task'[d].at \in Holding => FirstInChain(d)'
  BY <1>1 DEF MutexInv, FirstInChain, Holding
<1>3. retire' = "held" => FirstInChain("retire")'
  BY <1>1 DEF MutexInv, FirstInChain
<1>4. by' \in {"locked", "unlocked"}
  BY DEF MutexInv
<1>5. ASSUME NEW d \in Client, by' = "locked"
      PROVE  /\ task'[d].at = "fixing" => task'[d].snap = ReconcileLiveOwnerState(rec')
             /\ task'[d].at = "keeping" => rec'.life \notin Terminal
  <2>1. rec' = rec /\ by = "locked"
    BY <1>5
  <2> QED BY <1>5, <2>1, Zenon DEF MutexInv, Holding
<1> QED BY <1>2, <1>3, <1>4, <1>5, Zenon DEF MutexInv, Holding, ReconcileLiveOwnerState, NeedsFix

\* Only one holds the mutex.
LEMMA OneHolder ==
  ASSUME MutexInv, NEW c \in Client, FirstInChain(c)
  PROVE  retire # "held" /\ \A d \in Client \ {c} : task[d].at \notin Holding
  BY StateBounds DEF MutexInv, FirstInChain, Holding

\* The first in the queue is not, or no longer, between read and write: nobody is.
LEMMA MutexReleased ==
  ASSUME MutexInv, NEW c \in Client, FirstInChain(c), UNCHANGED retire,
         task'[c].at \notin Holding, \A d \in Client \ {c} : task'[d] = task[d],
         by' \in {"locked", "unlocked"}
  PROVE  MutexInv'
<1>1. retire' # "held" /\ \A d \in Client : task'[d].at \notin Holding
  BY OneHolder
<1> QED BY <1>1, Zenon DEF MutexInv, Holding

\* The first in the queue has read the state and means to write.
LEMMA MutexTaken ==
  ASSUME MutexInv, NEW c \in Client, FirstInChain(c), UNCHANGED <<retire, chain, rec, by>>,
         \A d \in Client \ {c} : task'[d] = task[d],
         \/ task'[c].at = "fixing" /\ task'[c].snap = ReconcileLiveOwnerState(rec)
         \/ task'[c].at = "keeping" /\ rec.life \notin Terminal
  PROVE  MutexInv'
<1>1. retire' # "held" /\ \A d \in Client \ {c} : task'[d].at \notin Holding
  BY OneHolder
<1>2. FirstInChain(c)' /\ by' \in {"locked", "unlocked"}
  BY DEF FirstInChain, MutexInv
<1>3. ReconcileLiveOwnerState(rec) = ReconcileLiveOwnerState(rec)'
  BY DEF ReconcileLiveOwnerState, NeedsFix
<1> QED BY <1>1, <1>2, <1>3, Zenon DEF MutexInv, Holding

\* A handler takes the mutex and writes what it has read under it.
LEMMA HandlerMutex ==
  ASSUME HandsInv, MutexInv, NEW c \in Client, Handler(c)
  PROVE  MutexInv' /\ UNCHANGED <<retire, retiree>> /\ task[c].at # "off"
<1>1. UNCHANGED <<retire, retiree>> /\ task[c].at # "off"
  BY Zenon DEF Handler, LoadState, FixRead, FixWrite, Observe, Submit, Accept, Recover, Write, Tell,
         DoWork, PersistRead, PersistWrite
<1>2. /\ rec \in Reasoned /\ task[c].snap \in Reasoned /\ by \in {"locked", "unlocked"}
      /\ ReconcileLiveOwnerState(rec) \in Reasoned
  BY ReconcileLive DEF HandsInv, MutexInv, TaskState
<1>3. \A a \in TaskPlaces, s \in Reasoned :
        Goto(c, a, s) => /\ task'[c].at = a /\ task'[c].snap = s
                         /\ \A d \in Client \ {c} : task'[d] = task[d]
  BY GotoFacts
<1>4. Return(c) => task'[c].at = "off" /\ \A d \in Client \ {c} : task'[d] = task[d]
  BY ReturnFacts
<1>5. ASSUME task'[c].at \notin Holding, \A d \in Client \ {c} : task'[d] = task[d],
             chain' = chain \/ chain' = Append(chain, c),
             by' = "unlocked" \/ (rec' = rec /\ by' = by)
      PROVE  MutexInv'
  BY <1>1, <1>5, MutexQuiet, Zenon
<1>6. CASE LoadState(c)
  <2>1. Goto(c, "fix", rec) \/ Goto(c, "run", rec)
    BY <1>6, Zenon DEF LoadState
  <2>2. task'[c].at \notin Holding /\ \A d \in Client \ {c} : task'[d] = task[d]
    BY <1>2, <1>3, <2>1 DEF TaskPlaces, Holding
  <2> QED BY <1>5, <1>6, <2>2, Zenon DEF LoadState
<1>7. CASE FixRead(c)
  <2>1. FirstInChain(c) /\ UNCHANGED <<rec, by>>
    BY <1>7 DEF FixRead
  <2>2. CASE Goto(c, "fixing", ReconcileLiveOwnerState(rec)) /\ UNCHANGED chain
    BY <1>1, <1>2, <1>3, <2>1, <2>2, MutexTaken, Zenon DEF TaskPlaces
  <2>3. CASE Goto(c, "run", rec)
    <3>1. task'[c].at \notin Holding /\ \A d \in Client \ {c} : task'[d] = task[d]
      BY <1>2, <1>3, <2>3 DEF TaskPlaces, Holding
    <3> QED BY <1>1, <1>2, <2>1, <3>1, MutexReleased
  <2> QED BY <1>7, <2>2, <2>3, Zenon DEF FixRead
<1>8. CASE FixWrite(c)
  <2>1. FirstInChain(c) /\ by' = "locked" /\ Goto(c, "run", task[c].snap)
    BY <1>8, Zenon DEF FixWrite, MutexInv, WriteLocked
  <2>2. task'[c].at \notin Holding /\ \A d \in Client \ {c} : task'[d] = task[d]
    BY <1>2, <1>3, <2>1 DEF TaskPlaces, Holding
  <2> QED BY <1>1, <2>1, <2>2, MutexReleased
<1>9. CASE Observe(c) \/ Tell(c)
  <2>1. task'[c].at \notin Holding /\ \A d \in Client \ {c} : task'[d] = task[d]
    BY <1>4, <1>9 DEF Observe, Tell, Holding
  <2> QED BY <1>5, <1>9, <2>1, Zenon DEF Observe, Tell
<1>10. CASE Submit(c)
  <2>1. Goto(c, "accept", task[c].snap) \/ Return(c)
    BY <1>10, Zenon DEF Submit
  <2>2. task'[c].at \notin Holding /\ \A d \in Client \ {c} : task'[d] = task[d]
    BY <1>2, <1>3, <1>4, <2>1 DEF TaskPlaces, Holding
  <2> QED BY <1>5, <1>10, <2>2, Zenon DEF Submit
<1>11. CASE Accept(c)
  <2>1. [task[c].snap EXCEPT !.life = "observing"] \in Reasoned
    BY <1>2, LifeChanged, Zenon DEF Lives
  <2>2. Goto(c, "write", [task[c].snap EXCEPT !.life = "observing"]) \/ Return(c)
    BY <1>11, Zenon DEF Accept
  <2>3. task'[c].at \notin Holding /\ \A d \in Client \ {c} : task'[d] = task[d]
    BY <1>3, <1>4, <2>1, <2>2 DEF TaskPlaces, Holding
  <2> QED BY <1>5, <1>11, <2>3, Zenon DEF Accept
<1>12. CASE Recover(c)
  <2>1. Recovered(task[c].snap) \in Reasoned
    BY <1>2, RecoveredReasoned
  <2>2. Goto(c, "write", Recovered(task[c].snap)) \/ Return(c)
    BY <1>12, Zenon DEF Recover
  <2>3. task'[c].at \notin Holding /\ \A d \in Client \ {c} : task'[d] = task[d]
    BY <1>3, <1>4, <2>1, <2>2 DEF TaskPlaces, Holding
  <2> QED BY <1>5, <1>12, <2>3, Zenon DEF Recover
<1>13. CASE Write(c)
  <2>1. Goto(c, "tell", task[c].snap) \/ Return(c)
    BY <1>13, Zenon DEF Write
  <2>2. task'[c].at \notin Holding /\ \A d \in Client \ {c} : task'[d] = task[d]
    BY <1>2, <1>3, <1>4, <2>1 DEF TaskPlaces, Holding
  <2> QED BY <1>5, <1>13, <2>2, Zenon DEF Write, WriteUnlocked
<1>14. CASE DoWork(c)
  <2>1. \A v : Wanted(v) \subseteq Lives
    BY DEF Wanted, Lives
  <2>2. (task[c].verb = "operate") \in BOOLEAN
    OBVIOUS
  <2>3. \/ Return(c)
        \/ \E l \in Wanted(task[c].verb) :
             task' = [task EXCEPT ![c].at = "keep", ![c].want = l, ![c].again = (task[c].verb = "operate")]
    BY <1>14, ZenonT(30) DEF DoWork
  <2>4. task'[c].at \in {"off", "keep"} /\ \A d \in Client \ {c} : task'[d] = task[d]
    <3>1. CASE Return(c)
      BY <1>4, <3>1
    <3>2. CASE ~Return(c)
      <4>1. PICK l \in Wanted(task[c].verb) :
              task' = [task EXCEPT ![c].at = "keep", ![c].want = l, ![c].again = (task[c].verb = "operate")]
        BY <2>3, <3>2, Zenon
      <4>2. task'[c].at = "keep" /\ \A d \in Client \ {c} : task'[d] = task[d]
        BY <2>1, <2>2, <4>1, KeepFacts, Zenon
      <4> QED BY <4>2
    <3> QED BY <3>1, <3>2
  <2>5. task'[c].at \notin Holding
    BY <2>4 DEF Holding
  <2> QED BY <1>5, <1>14, <2>4, <2>5, Zenon DEF DoWork
<1>15. CASE PersistRead(c)
  <2> DEFINE s == [life |-> task[c].want, blk |-> BlockersFor(task[c].verb, task[c].want, rec.blk)]
  <2>1. s \in Reasoned
    <3>1. task[c].want \in Lives /\ rec.blk \in SUBSET Blockers
      BY <1>2, Zenon DEF HandsInv, TaskState, Reasoned, State
    <3> QED BY <3>1 DEF Reasoned, State, BlockersFor, Blockers
  <2> HIDE DEF s
  <2>2. FirstInChain(c) /\ UNCHANGED <<rec, by>>
    BY <1>15 DEF PersistRead
  <2>3. (Goto(c, "keeping", s) /\ UNCHANGED chain /\ rec.life \notin Terminal) \/ Return(c)
    BY <1>15, Zenon DEF PersistRead, s
  <2>4. CASE Goto(c, "keeping", s) /\ UNCHANGED chain /\ rec.life \notin Terminal
    BY <1>1, <1>3, <2>1, <2>2, <2>4, MutexTaken, Zenon DEF TaskPlaces
  <2>5. CASE Return(c)
    <3>1. task'[c].at \notin Holding /\ \A d \in Client \ {c} : task'[d] = task[d]
      BY <1>4, <2>5 DEF Holding
    <3> QED BY <1>1, <1>2, <2>2, <3>1, MutexReleased
  <2> QED BY <2>3, <2>4, <2>5
<1>16. CASE PersistWrite(c)
  <2>1. FirstInChain(c) /\ by' = "locked"
    BY <1>16, Zenon DEF PersistWrite, MutexInv, WriteLocked
  <2>2. Return(c) \/ task' = [task EXCEPT ![c].at = "keep", ![c].again = FALSE]
    BY <1>16, Zenon DEF PersistWrite
  <2>3. task'[c].at \in {"off", "keep"} /\ \A d \in Client \ {c} : task'[d] = task[d]
    BY <1>4, <2>2, KeepFacts, Zenon DEF Lives
  <2>4. task'[c].at \notin Holding
    BY <2>3 DEF Holding
  <2> QED BY <1>1, <2>1, <2>3, <2>4, MutexReleased
<1> QED
  BY <1>1, <1>6, <1>7, <1>8, <1>9, <1>10, <1>11, <1>12, <1>13, <1>14, <1>15, <1>16, Zenon DEF Handler

\* A CLI process takes part in the mutex only through its handler.
LEMMA CliMutex ==
  ASSUME HandsInv, JoinInv, MutexInv, NEW c \in Client, Cli(c) \/ \E v \in Called : Call(c, v)
  PROVE  MutexInv' /\ JoinInv'
<1>1. task \in [Client -> TaskState] /\ UNCHANGED <<chain, retiree>> /\ (by' = "unlocked" \/ (rec' = rec /\ by' = by))
  BY Zenon DEF HandsInv, Cli, Call, Unreachable, Refused, Deliver, DeliverRetire, TimeOut, Load, Look,
               WriteBack, Spawn, Restore, WriteUnlocked
<1>2. ASSUME \A d \in Client : task'[d].at = task[d].at /\ task'[d].snap = task[d].snap,
             retire' = retire \/ retire' = "join"
      PROVE  MutexInv' /\ JoinInv'
  <2>1. MutexInv'
    BY <1>1, <1>2, MutexQuiet
  <2>2. JoinInv'
    BY <1>1, <1>2 DEF JoinInv
  <2> QED BY <2>1, <2>2
<1>3. CASE \/ Unreachable(c) \/ Refused(c) \/ Load(c) \/ Look(c) \/ WriteBack(c) \/ Spawn(c) \/ Restore(c)
           \/ \E v \in Called : Call(c, v)
  <2>1. UNCHANGED <<task, retire>>
    BY <1>3, Zenon DEF Call, Unreachable, Refused, Load, Look, WriteBack, Spawn, Restore
  <2> QED BY <1>2, <2>1
<1>4. CASE Deliver(c)
  <2> DEFINE k == [Off EXCEPT !.verb = cli[c].verb, !.at = "load",
                              !.barrier = IF cli[c].verb = "observe" THEN frames ELSE 0]
  <2>1. k.at = "load"
    BY Zenon DEF Off
  <2> HIDE DEF k
  <2>2. task' = [task EXCEPT ![c] = k] /\ retire = "no" /\ UNCHANGED retire
    BY <1>4, Zenon DEF Deliver, k
  <2>3. task'[c].at = "load" /\ \A d \in Client \ {c} : task'[d] = task[d]
    BY <1>1, <2>1, <2>2
  <2>4. MutexInv'
    <3>1. \A d \in Client : task'[d].at \in Holding => task'[d].at = task[d].at /\ task'[d].snap = task[d].snap
      BY <2>3 DEF Holding
    <3> QED BY <1>1, <2>2, <3>1, MutexQuiet
  <2>5. JoinInv'
    BY <2>2 DEF JoinInv
  <2> QED BY <2>4, <2>5
<1>5. CASE DeliverRetire(c)
  <2>1. (task' = task /\ retire' = retire) \/ (task' = CutWork /\ retire' = "join")
    BY <1>5, Zenon DEF DeliverRetire
  <2> QED BY <1>2, <2>1, CutFacts
<1>6. CASE TimeOut(c)
  <2> DEFINE k == [task[c] EXCEPT !.cut = TRUE]
  <2>1. k.at = task[c].at /\ k.snap = task[c].snap
    BY <1>1, Zenon DEF TaskState
  <2> HIDE DEF k
  <2>2. (task' = [task EXCEPT ![c] = k] \/ task' = task) /\ UNCHANGED retire
    BY <1>1, <1>6, Zenon DEF TimeOut, k
  <2>3. \A d \in Client : task'[d].at = task[d].at /\ task'[d].snap = task[d].snap
    BY <1>1, <2>1, <2>2
  <2> QED BY <1>2, <2>2, <2>3
<1> QED BY <1>3, <1>4, <1>5, <1>6, Zenon DEF Cli

\* Retirement takes the mutex once no handler runs.
LEMMA RestMutex ==
  ASSUME HandsInv, JoinInv, MutexInv,
         \/ StartSpawn \/ StartWrite \/ Retirement \/ Frame \/ Pump
         \/ StopOwner \/ OwnerExits \/ OwnerDies
  PROVE  MutexInv' /\ JoinInv'
<1>1. CASE \/ StartSpawn \/ StartWrite \/ RetireJoin \/ Frame \/ Pump \/ StopOwner \/ OwnerExits
  <2>1. \A d \in Client : task'[d].at = task[d].at /\ task'[d].snap = task[d].snap
    <3>1. task' = task \/ task' = CutWork
      BY <1>1, Zenon DEF StartSpawn, StartWrite, RetireJoin, Frame, Pump, PumpRead, PumpWrite, PumpTell,
                 StopOwner, OwnerExits
    <3> QED BY <3>1, CutFacts
  <2>2. /\ chain' = chain \/ chain' = Append(chain, "retire")
        /\ by' = "unlocked" \/ (rec' = rec /\ by' = by)
        /\ \/ retire' = retire \/ retire' = "no"
           \/ retire' = "queue" /\ \A d \in Client : task[d].at = "off"
        /\ UNCHANGED retiree
    BY <1>1, Zenon DEF StartSpawn, StartWrite, RetireJoin, Frame, Pump, PumpRead, PumpWrite, PumpTell,
               StopOwner, OwnerExits, WriteUnlocked
  <2>3. MutexInv'
    BY <2>1, <2>2, MutexQuiet
  <2>4. JoinInv'
    BY <2>1, <2>2 DEF JoinInv
  <2> QED BY <2>3, <2>4
<1>2. CASE RetireRead
  <2>1. /\ UNCHANGED <<task, rec, by, chain>> /\ retire = "queue" /\ retire' = "held"
        /\ FirstInChain("retire")
    BY <1>2 DEF RetireRead
  <2>2. \A d \in Client : task'[d].at = "off"
    BY <2>1 DEF JoinInv
  <2>3. FirstInChain("retire")' /\ by' \in {"locked", "unlocked"}
    BY <2>1 DEF FirstInChain, MutexInv
  <2>4. MutexInv'
    BY <2>2, <2>3, Zenon DEF MutexInv
  <2>5. retiree'.life = "retired"
    BY <1>2 DEF RetireRead, HandsInv, Reasoned, State
  <2>6. JoinInv'
    BY <2>1, <2>2, <2>5 DEF JoinInv
  <2> QED BY <2>4, <2>6
<1>3. CASE RetireWrite
  <2>1. UNCHANGED task /\ retire = "held" /\ retire' = "done" /\ by' = "locked"
    BY <1>3 DEF RetireWrite, WriteLocked
  <2>2. \A d \in Client : task'[d].at = "off"
    BY <2>1 DEF JoinInv
  <2>3. MutexInv'
    BY <2>1, <2>2, Zenon DEF MutexInv
  <2>4. JoinInv'
    BY <2>1, <2>2 DEF JoinInv
  <2> QED BY <2>3, <2>4
<1>4. CASE OwnerDies
  <2>1. retire' = "no" /\ UNCHANGED <<rec, by>> /\ \A d \in Client : task'[d].at = "off"
    BY <1>4, Resting DEF OwnerDies
  <2>2. MutexInv'
    BY <2>1, Zenon DEF MutexInv
  <2>3. JoinInv'
    BY <2>1 DEF JoinInv
  <2> QED BY <2>2, <2>3
<1> QED BY <1>1, <1>2, <1>3, <1>4 DEF Retirement

(***************************************************************************)
(* The invariant, and what follows from it.                                *)
(***************************************************************************)
\* A session starts with nobody at work.
LEMMA InitSession ==
  ASSUME Init
  PROVE  SessionInv
<1>1. HandsInv
  <2>1. task \in [Client -> TaskState] /\ cli \in [Client -> CliState]
    BY Resting DEF Init
  <2>2. chain \in Seq(Client \cup {"retire"}) /\ frames \in Nat
    BY DEF Init
  <2> QED BY <2>1, <2>2, Resting, StatesReasoned, Zenon DEF Init, HandsInv
<1>2. \A c \in Client : task[c].at = "off"
  BY Resting DEF Init
<1>3. JoinInv
  BY <1>2 DEF Init, JoinInv
<1>4. MutexInv
  BY <1>2 DEF Init, MutexInv
<1> QED BY <1>1, <1>3, <1>4 DEF SessionInv

\* Every step keeps the invariant.
LEMMA NextSession ==
  ASSUME SessionInv, [Next]_vars
  PROVE  SessionInv'
<1>1. HandsInv /\ JoinInv /\ MutexInv
  BY DEF SessionInv
<1>2. CASE UNCHANGED vars
  <2>1. UNCHANGED <<rec, by, task, chain, retire, retiree, pump, frames, cli>>
    BY <1>2 DEF vars
  <2>2. HandsInv'
    BY <1>1, <2>1, Zenon DEF HandsInv
  <2>3. JoinInv'
    BY <1>1, <2>1 DEF JoinInv
  <2>4. MutexInv'
    BY <1>1, <2>1, MutexQuiet
  <2> QED BY <2>2, <2>3, <2>4 DEF SessionInv
<1>3. ASSUME NEW c \in Client, Handler(c)
      PROVE  SessionInv'
  <2>1. MutexInv' /\ UNCHANGED <<retire, retiree>> /\ task[c].at # "off"
    BY <1>1, <1>3, HandlerMutex
  <2>2. JoinInv'
    BY <1>1, <2>1 DEF JoinInv
  <2> QED BY <1>1, <1>3, <2>1, <2>2, HandlerHands DEF SessionInv
<1>4. ASSUME NEW c \in Client, Cli(c)
      PROVE  SessionInv'
  BY <1>1, <1>4, CliHands, CliMutex, Zenon DEF SessionInv
<1>5. ASSUME NEW c \in Client, NEW v \in Called, Call(c, v)
      PROVE  SessionInv'
  BY <1>1, <1>5, CallHands, CliMutex, Zenon DEF SessionInv
<1>6. CASE \/ StartSpawn \/ StartWrite \/ Retirement \/ Frame \/ Pump
           \/ StopOwner \/ OwnerExits \/ OwnerDies
  BY <1>1, <1>6, RestHands, RestMutex, Zenon DEF SessionInv
<1> QED BY <1>2, <1>3, <1>4, <1>5, <1>6, Zenon DEF Next

\* No writer of state.json ever has a state in hand that is blocked for no
\* reason; nobody runs in the owner once retirement has joined the handlers;
\* and the mutex is held by the first in its queue, whose read is fresh unless
\* somebody wrote without the mutex.
THEOREM SessionInvariant == Spec => []SessionInv
  BY InitSession, NextSession, PTL DEF Spec

\* A blocked session names what blocks it, however stale the state that a
\* handler, the pump or a CLI process writes (writeSessionState, everywhere).
THEOREM BlockedIsReasoned == Spec => []BlockedHasReason
<1>1. SessionInv => BlockedHasReason
  BY DEF SessionInv, HandsInv, Reasoned, BlockedHasReason
<1> QED BY <1>1, SessionInvariant, PTL

\* Who writes state.json.
LEMMA Writers ==
  ASSUME [Next]_vars
  PROVE  \/ UNCHANGED <<rec, by>> \/ StartWrite \/ PumpWrite \/ RetireWrite
         \/ \E c \in Client : FixWrite(c) \/ Write(c) \/ PersistWrite(c) \/ WriteBack(c) \/ Restore(c)
<1>1. CASE UNCHANGED vars
  BY <1>1 DEF vars
<1>2. ASSUME NEW c \in Client, Handler(c)
      PROVE  UNCHANGED <<rec, by>> \/ FixWrite(c) \/ Write(c) \/ PersistWrite(c)
  BY <1>2, Zenon DEF Handler, LoadState, FixRead, Observe, Submit, Accept, Recover, Tell, DoWork, PersistRead
<1>3. ASSUME NEW c \in Client, Cli(c) \/ \E v \in Called : Call(c, v)
      PROVE  UNCHANGED <<rec, by>> \/ WriteBack(c) \/ Restore(c)
  BY <1>3, Zenon DEF Cli, Call, Unreachable, Refused, Deliver, DeliverRetire, TimeOut, Load, Look, Spawn
<1>4. ASSUME \/ StartSpawn \/ StartWrite \/ Retirement \/ Frame \/ Pump
             \/ StopOwner \/ OwnerExits \/ OwnerDies
      PROVE  UNCHANGED <<rec, by>> \/ StartWrite \/ PumpWrite \/ RetireWrite
  BY <1>4, Zenon DEF StartSpawn, Retirement, RetireJoin, RetireRead, Frame, Pump, PumpRead, PumpTell,
             StopOwner, OwnerExits, OwnerDies
<1> QED BY <1>1, <1>2, <1>3, <1>4, Zenon DEF Next

\* Once #retireOnce has recorded the retirement, no handler of the owner writes
\* state.json again: it has joined them all, and new ones are refused.
THEOREM RetirementIsJoined == Spec => RetirementJoinsHandlers
<1>1. ASSUME SessionInv, [Next]_vars, retire = "done", rec' # rec
      PROVE  pump' # pump \/ cli' # cli \/ starter' # starter
  <2>1. HandsInv /\ \A c \in Client : task[c].at = "off"
    BY <1>1 DEF SessionInv, JoinInv
  <2>2. CASE StartWrite
    BY <2>2 DEF StartWrite
  <2>3. CASE PumpWrite
    <3>1. pump'.at = "tell"
      BY <2>1, <2>3, Zenon DEF PumpWrite, HandsInv, PumpState
    <3> QED BY <2>3, <3>1, Zenon DEF PumpWrite
  <2>4. ~RetireWrite
    BY <1>1 DEF RetireWrite
  <2>5. ASSUME NEW c \in Client PROVE ~(FixWrite(c) \/ Write(c) \/ PersistWrite(c))
    BY <2>1 DEF FixWrite, Write, PersistWrite
  <2>6. ASSUME NEW c \in Client, WriteBack(c) PROVE cli' # cli
    <3>1. CliAt(c, IF cli[c].spawn THEN "spawn" ELSE "idle").at \in {"spawn", "idle"}
      BY <2>1, CliAtFacts DEF CliPlaces
    <3>2. cli'[c].at \in {"spawn", "idle"}
      BY <2>1, <2>6, <3>1 DEF WriteBack, HandsInv
    <3> QED BY <2>6, <3>2 DEF WriteBack
  <2>7. ASSUME NEW c \in Client, Restore(c) PROVE cli' # cli
    <3>1. cli'[c].at = "idle"
      BY <2>1, <2>7, Resting DEF Restore, HandsInv
    <3> QED BY <2>7, <3>1 DEF Restore
  <2> QED BY <1>1, <2>2, <2>3, <2>4, <2>5, <2>6, <2>7, Writers, Zenon
<1>2. SessionInv /\ [Next]_vars
        => [retire = "done" /\ rec' # rec => pump' # pump \/ cli' # cli \/ starter' # starter]_vars
  BY <1>1, Zenon
<1> QED BY <1>2, SessionInvariant, PTL DEF Spec, RetirementJoinsHandlers

\* What was completed or retired under the mutex no other writer under the
\* mutex undoes: each rereads the state after it has taken the mutex.
THEOREM LockedKeepTerminal == Spec => LockedWritersKeepTerminal
<1>1. ASSUME SessionInv, [Next]_vars, by = "locked", rec.life \in Terminal, rec'.life # rec.life
      PROVE  by' = "unlocked" \/ rec'.life = "retired"
  <2>1. CASE StartWrite \/ PumpWrite
    BY <2>1, Zenon DEF StartWrite, PumpWrite, WriteUnlocked
  <2>2. CASE RetireWrite
    BY <1>1, <2>2 DEF RetireWrite, WriteLocked, SessionInv, JoinInv
  <2>3. ASSUME NEW c \in Client, Write(c) \/ WriteBack(c) PROVE by' = "unlocked"
    BY <2>3, Zenon DEF Write, WriteBack, WriteUnlocked
  <2>4. ASSUME NEW c \in Client, Restore(c) PROVE by' = "unlocked"
    BY <1>1, <2>4 DEF Restore, WriteUnlocked
  <2>5. ASSUME NEW c \in Client PROVE ~FixWrite(c)
    <3>1. ASSUME FixWrite(c) PROVE FALSE
      <4>1. task[c].at = "fixing" /\ rec' = task[c].snap
        BY <3>1, SMTT(20) DEF FixWrite, WriteLocked
      <4>2. task[c].snap = ReconcileLiveOwnerState(rec) /\ rec \in Reasoned
        BY <1>1, <4>1 DEF SessionInv, MutexInv, HandsInv
      <4> QED BY <1>1, <4>1, <4>2, ReconcileLive
    <3> QED BY <3>1
  <2>6. ASSUME NEW c \in Client PROVE ~PersistWrite(c)
    BY <1>1 DEF PersistWrite, SessionInv, MutexInv
  <2> QED BY <1>1, <2>1, <2>2, <2>3, <2>4, <2>5, <2>6, Writers, Zenon
<1>2. SessionInv /\ [Next]_vars
        => [by = "locked" /\ rec.life \in Terminal /\ rec'.life # rec.life
            => by' = "unlocked" \/ rec'.life = "retired"]_vars
  BY <1>1, Zenon
<1> QED BY <1>2, SessionInvariant, PTL DEF Spec, LockedWritersKeepTerminal

(***************************************************************************)
(* The operate loop.                                                       *)
(***************************************************************************)
\* What was spent and what is left never exceed the budget the loop began with.
BudgetKept ==
  /\ \A d \in Deltas :
       spent["reinject-prompt"][d] + budget.reinjectPrompt <= InitialBudget.reinjectPrompt
  /\ spent["restart-preserve-delta"]["dirty"] + budget.dirtyVanishPreserve
       <= InitialBudget.dirtyVanishPreserve
  /\ spent["restart-clean"]["zero-delta"] + budget.zeroDeltaVanish
       <= InitialBudget.zeroDeltaVanish

\* The receipt in hand is valid for this round, and the way to "completed" is
\* entered only on an observed signal.
StageOK ==
  /\ at = "ready" => VanishValid(obs.gitDelta, tree)
  /\ lifecycle = "finalizing" => at = "end" /\ obs.done /\ obs.ownerLive
  /\ lifecycle = "completed" => at = "done" /\ obs.done /\ obs.ownerLive

\* The inductive invariant.
OperateInv == OperateTypeOK /\ BudgetKept /\ NoCleanRestartOverWork /\ StageOK

\* What a classification says about the observation and the budget it was made
\* from (classifyRecovery): a restart means that the owner is gone and that
\* its delta is known, and a retry is offered only while its budget lasts.
LEMMA ClassMeaning ==
  ASSUME NEW o \in Observations, NEW b \in Budgets
  PROVE  /\ ClassifyRecovery(o, b) \in Classifications
         /\ ClassifyRecovery(o, b) = "continue" => o.ownerLive
         /\ ClassifyRecovery(o, b) = "reinject-prompt" => b.reinjectPrompt > 0
         /\ ClassifyRecovery(o, b) = "restart-preserve-delta" =>
              ~o.ownerLive /\ o.gitDelta = "dirty" /\ b.dirtyVanishPreserve > 0
         /\ ClassifyRecovery(o, b) = "restart-clean" =>
              /\ ~o.ownerLive /\ o.gitDelta \in {"clean", "zero-delta"}
              /\ o.gitDelta = "zero-delta" => b.zeroDeltaVanish > 0
BY DEF ClassifyRecovery, Vanished, Classifications, Observations, Budgets, Deltas

\* Before the first prompt nothing is spent.
LEMMA InitOperate == OperateInit => OperateInv
<1> SUFFICES ASSUME OperateInit PROVE OperateInv
  OBVIOUS
<1>1. OperateTypeOK
  <2>1. obs \in Observable /\ tree \in Trees
    BY OperateConstants DEF OperateInit
  <2>2. spent \in [Classifications -> [Deltas -> Nat]]
    BY DEF OperateInit
  <2>3. accepted \in BOOLEAN
    BY Zenon DEF OperateInit
  <2>4. budget \in Budgets /\ iterations \in 0 .. MaxIterations
    BY OperateConstants DEF OperateInit
  <2> QED
    BY <2>1, <2>2, <2>3, <2>4 DEF OperateInit, OperateTypeOK, Lifecycles
<1>2. BudgetKept
  BY OperateConstants DEF OperateInit, BudgetKept, Budgets, Classifications, Deltas
<1>3. NoCleanRestartOverWork
  BY DEF OperateInit, NoCleanRestartOverWork, Classifications, Deltas
<1>4. StageOK
  BY SMTT(20) DEF OperateInit, StageOK
<1> QED
  BY <1>1, <1>2, <1>3, <1>4 DEF OperateInv

\* Paying takes at most one from one field (Math.max(0, n - 1) in operate.ts).
LEMMA PaysOne ==
  ASSUME budget \in Budgets, NEW class \in Classifications
  PROVE  /\ Pays(class) \in Budgets
         /\ Pays(class).reinjectPrompt <= budget.reinjectPrompt
         /\ Pays(class).zeroDeltaVanish <= budget.zeroDeltaVanish
         /\ Pays(class).dirtyVanishPreserve <= budget.dirtyVanishPreserve
         /\ class = "reinject-prompt" /\ budget.reinjectPrompt > 0 =>
              Pays(class).reinjectPrompt = budget.reinjectPrompt - 1
         /\ class = "restart-clean" /\ budget.zeroDeltaVanish > 0 =>
              Pays(class).zeroDeltaVanish = budget.zeroDeltaVanish - 1
         /\ class = "restart-preserve-delta" /\ budget.dirtyVanishPreserve > 0 =>
              Pays(class).dirtyVanishPreserve = budget.dirtyVanishPreserve - 1
BY DEF Pays, Spend, Budgets

\* Reinjecting or restarting, with its payment, keeps the invariant.
LEMMA ResubmitOK ==
  ASSUME OperateInv, Resubmit
  PROVE  OperateInv'
<1> DEFINE c == Class
           d == obs.gitDelta
<1>1. obs \in Observations /\ budget \in Budgets /\ d \in Deltas
  BY OperateConstants DEF OperateInv, OperateTypeOK, Observations
<1>2. /\ c \in {"reinject-prompt", "restart-clean", "restart-preserve-delta"}
      /\ c \in Classifications
      /\ budget' = Pays(c)
  BY DEF Resubmit, Classifications
<1>3. /\ c = "reinject-prompt" => budget.reinjectPrompt > 0
      /\ c = "restart-preserve-delta" => d = "dirty" /\ budget.dirtyVanishPreserve > 0
      /\ c = "restart-clean" => /\ d \in {"clean", "zero-delta"}
                                /\ d = "zero-delta" => budget.zeroDeltaVanish > 0
  BY <1>1, ClassMeaning DEF Class
<1>4. /\ budget' \in Budgets
      /\ budget'.reinjectPrompt <= budget.reinjectPrompt
      /\ budget'.zeroDeltaVanish <= budget.zeroDeltaVanish
      /\ budget'.dirtyVanishPreserve <= budget.dirtyVanishPreserve
      /\ c = "reinject-prompt" => budget'.reinjectPrompt = budget.reinjectPrompt - 1
      /\ c = "restart-clean" /\ d = "zero-delta" =>
           budget'.zeroDeltaVanish = budget.zeroDeltaVanish - 1
      /\ c = "restart-preserve-delta" =>
           budget'.dirtyVanishPreserve = budget.dirtyVanishPreserve - 1
  BY <1>1, <1>2, <1>3, PaysOne
<1>5. /\ spent \in [Classifications -> [Deltas -> Nat]]
      /\ spent' = [spent EXCEPT ![c][d] = @ + 1]
  BY DEF Resubmit, OperateInv, OperateTypeOK
<1>6. /\ spent' \in [Classifications -> [Deltas -> Nat]]
      /\ \A k \in Classifications, e \in Deltas :
           spent'[k][e] = IF k = c /\ e = d THEN spent[k][e] + 1 ELSE spent[k][e]
  BY <1>1, <1>2, <1>5
<1> HIDE DEF c, d
<1>7. OperateTypeOK'
  BY <1>4, <1>6 DEF Resubmit, OperateInv, OperateTypeOK
<1>8. BudgetKept'
  <2>1. /\ \A e \in Deltas : spent["reinject-prompt"][e] \in Nat
        /\ spent["restart-preserve-delta"]["dirty"] \in Nat
        /\ spent["restart-clean"]["zero-delta"] \in Nat
    BY <1>5 DEF Classifications, Deltas
  <2>2. ASSUME NEW b \in Budgets
        PROVE  /\ b.reinjectPrompt \in Nat /\ b.zeroDeltaVanish \in Nat
               /\ b.dirtyVanishPreserve \in Nat
    BY DEF Budgets
  <2>3. InitialBudget \in Budgets /\ BudgetKept
    BY OperateConstants, SMTT(20) DEF OperateInv
  <2>4. ASSUME NEW e \in Deltas
        PROVE  spent'["reinject-prompt"][e] + budget'.reinjectPrompt
                 <= InitialBudget.reinjectPrompt
    <3>1. spent["reinject-prompt"][e] + budget.reinjectPrompt <= InitialBudget.reinjectPrompt
      BY <2>3, SMTT(20) DEF BudgetKept
    <3>2. spent'["reinject-prompt"][e] \in
            {spent["reinject-prompt"][e], spent["reinject-prompt"][e] + 1}
          /\ (c # "reinject-prompt" => spent'["reinject-prompt"][e] = spent["reinject-prompt"][e])
      BY <1>6 DEF Classifications
    <3> QED
      BY <1>1, <1>4, <2>1, <2>2, <2>3, <3>1, <3>2
  <2>5. spent'["restart-preserve-delta"]["dirty"] + budget'.dirtyVanishPreserve
          <= InitialBudget.dirtyVanishPreserve
    <3>1. spent["restart-preserve-delta"]["dirty"] + budget.dirtyVanishPreserve
            <= InitialBudget.dirtyVanishPreserve
      BY <2>3 DEF BudgetKept
    <3>2. spent'["restart-preserve-delta"]["dirty"] =
            IF c = "restart-preserve-delta" THEN spent["restart-preserve-delta"]["dirty"] + 1
            ELSE spent["restart-preserve-delta"]["dirty"]
      BY <1>3, <1>6 DEF Classifications, Deltas
    <3> QED
      BY <1>1, <1>4, <2>1, <2>2, <2>3, <3>1, <3>2
  <2>6. spent'["restart-clean"]["zero-delta"] + budget'.zeroDeltaVanish
          <= InitialBudget.zeroDeltaVanish
    <3>1. spent["restart-clean"]["zero-delta"] + budget.zeroDeltaVanish
            <= InitialBudget.zeroDeltaVanish
      BY <2>3, SMTT(20) DEF BudgetKept
    <3>2. spent'["restart-clean"]["zero-delta"] =
            IF c = "restart-clean" /\ d = "zero-delta"
            THEN spent["restart-clean"]["zero-delta"] + 1
            ELSE spent["restart-clean"]["zero-delta"]
      BY <1>6 DEF Classifications, Deltas
    <3> QED
      BY <1>1, <1>4, <2>1, <2>2, <2>3, <3>1, <3>2
  <2> QED
    BY <2>4, <2>5, <2>6 DEF BudgetKept
<1>9. NoCleanRestartOverWork'
  BY <1>3, <1>6 DEF OperateInv, NoCleanRestartOverWork, Classifications, Deltas
<1>10. StageOK'
  BY DEF Resubmit, Ready, OperateInv, StageOK
<1> QED
  BY <1>7, <1>8, <1>9, <1>10 DEF OperateInv

\* Every step of the loop keeps the invariant.
LEMMA NextOperate == OperateInv /\ [OperateNext]_operateVars => OperateInv'
<1> SUFFICES ASSUME OperateInv, [OperateNext]_operateVars PROVE OperateInv'
  OBVIOUS
<1> USE DEF OperateInv
<1>0. obs \in Observations /\ budget \in Budgets
  BY OperateConstants DEF OperateTypeOK
<1>1. CASE SubmitGoal
  <2>1. OperateTypeOK'
    BY <1>1, SMTT(20) DEF SubmitGoal, OperateTypeOK, ByAcceptance, Lifecycles
  <2>2. BudgetKept' /\ NoCleanRestartOverWork' /\ StageOK'
    BY <1>1 DEF SubmitGoal, BudgetKept, NoCleanRestartOverWork, StageOK, ByAcceptance
  <2> QED
    BY <2>1, <2>2
<1>2. CASE ObserveRound
  <2>1. OperateTypeOK'
    BY <1>2, OperateConstants, SMTT(20) DEF ObserveRound, OperateTypeOK
  <2>2. BudgetKept' /\ NoCleanRestartOverWork' /\ StageOK'
    BY <1>2 DEF ObserveRound, BudgetKept, NoCleanRestartOverWork, StageOK
  <2> QED
    BY <2>1, <2>2
<1>3. CASE Continue
  <2>1. OperateTypeOK'
    BY <1>3 DEF Continue, OperateTypeOK, ByAcceptance, Lifecycles
  <2>2. obs.ownerLive
    BY <1>0, <1>3, ClassMeaning, SMTT(20) DEF Continue, Class
  <2>3. BudgetKept' /\ NoCleanRestartOverWork' /\ StageOK'
    BY <1>3, <2>2 DEF Continue, BudgetKept, NoCleanRestartOverWork, StageOK, ByAcceptance
  <2> QED
    BY <2>1, <2>3
<1>4. CASE WriteVanish
  <2>1. OperateTypeOK'
    BY <1>4, SMTT(20) DEF WriteVanish, OperateTypeOK, Lifecycles
  <2>2. BudgetKept' /\ NoCleanRestartOverWork' /\ StageOK'
    BY <1>4 DEF WriteVanish, BudgetKept, NoCleanRestartOverWork, StageOK
  <2> QED
    BY <2>1, <2>2
<1>5. CASE Resubmit
  BY <1>5, ResubmitOK
<1>6. CASE GiveUp
  <2>1. OperateTypeOK'
    BY <1>6, SMTT(20) DEF GiveUp, OperateTypeOK, Lifecycles
  <2>2. BudgetKept' /\ NoCleanRestartOverWork' /\ StageOK'
    BY <1>6 DEF GiveUp, BudgetKept, NoCleanRestartOverWork, StageOK
  <2> QED
    BY <2>1, <2>2
<1>7. CASE WindowEnds
  <2>1. OperateTypeOK'
    BY <1>7, SMTT(20) DEF WindowEnds, OperateTypeOK
  <2>2. BudgetKept' /\ NoCleanRestartOverWork' /\ StageOK'
    BY <1>7 DEF WindowEnds, BudgetKept, NoCleanRestartOverWork, StageOK
  <2> QED
    BY <2>1, <2>2
<1>8. CASE Finish
  <2>1. OperateTypeOK'
    BY <1>8, SMTT(20) DEF Finish, OperateTypeOK, Lifecycles
  <2>2. BudgetKept' /\ NoCleanRestartOverWork' /\ StageOK'
    BY <1>8 DEF Finish, BudgetKept, NoCleanRestartOverWork, StageOK
  <2> QED
    BY <2>1, <2>2
<1>9. CASE UNCHANGED operateVars
  BY <1>9 DEF operateVars, OperateTypeOK, BudgetKept, NoCleanRestartOverWork, StageOK
<1> QED
  BY <1>1, <1>2, <1>3, <1>4, <1>5, <1>6, <1>7, <1>8, <1>9 DEF OperateNext

\* The loop keeps its types and the invariant, whatever it observes.
THEOREM OperateInvariant == OperateSpec => []OperateInv
BY InitOperate, NextOperate, PTL DEF OperateSpec

\* Its variables keep their types; in particular no budget goes below zero and
\* no round begins beyond maxIterations.
THEOREM OperateTypes == OperateSpec => []OperateTypeOK
BY OperateInvariant, PTL DEF OperateInv

\* No kind of retry happens more often than the budget of operate() allows.
THEOREM RetriesBounded == OperateSpec => []RetriesWithinBudget
<1>1. OperateInv => RetriesWithinBudget
  BY OperateConstants
  DEF OperateInv, OperateTypeOK, BudgetKept, RetriesWithinBudget, Budgets, Classifications, Deltas
<1> QED
  BY <1>1, OperateInvariant, PTL

\* A session with work, or with an unknown delta, is never restarted clean.
THEOREM WorkIsNotDiscarded == OperateSpec => []NoCleanRestartOverWork
BY OperateInvariant, PTL DEF OperateInv

\* operate() ends in "completed" only after it observed the agent's signal.
THEOREM CompletedOnSignal == OperateSpec => []CompletionIsObserved
<1>1. OperateInv => CompletionIsObserved
  BY DEF OperateInv, StageOK, CompletionIsObserved
<1> QED
  BY <1>1, OperateInvariant, PTL

\* Each restart rests on a valid vanish receipt of its own round, for the delta
\* observed in that round, with the owner gone.
THEOREM ReceiptBeforeRestart == OperateSpec => RestartNeedsReceipt
<1>1. OperateInv /\ [OperateNext]_operateVars =>
  [\A d \in Deltas :
       spent["restart-clean"][d] + spent["restart-preserve-delta"][d]
         # spent'["restart-clean"][d] + spent'["restart-preserve-delta"][d]
       => obs.gitDelta = d /\ VanishValid(d, tree) /\ ~obs.ownerLive]_operateVars
  <2> SUFFICES ASSUME OperateInv, OperateNext, NEW d \in Deltas,
                      spent["restart-clean"][d] + spent["restart-preserve-delta"][d]
                        # spent'["restart-clean"][d] + spent'["restart-preserve-delta"][d]
               PROVE  obs.gitDelta = d /\ VanishValid(d, tree) /\ ~obs.ownerLive
    OBVIOUS
  <2>1. Resubmit
    BY DEF OperateNext, SubmitGoal, ObserveRound, Continue, WriteVanish, GiveUp, WindowEnds, Finish
  <2>2. obs \in Observations /\ budget \in Budgets /\ obs.gitDelta \in Deltas
    BY OperateConstants DEF OperateInv, OperateTypeOK, Observations
  <2>3. /\ Class \in {"restart-clean", "restart-preserve-delta"}
        /\ obs.gitDelta = d
    <3>1. spent \in [Classifications -> [Deltas -> Nat]]
      BY DEF OperateInv, OperateTypeOK
    <3>2. Class \in {"reinject-prompt", "restart-clean", "restart-preserve-delta"}
      BY <2>1 DEF Resubmit
    <3>3. spent' = [spent EXCEPT ![Class][obs.gitDelta] = @ + 1]
      BY <2>1, SMTT(20) DEF Resubmit
    <3>4. \A k \in Classifications, e \in Deltas :
            k # Class \/ e # obs.gitDelta => spent'[k][e] = spent[k][e]
      BY <2>2, <3>1, <3>3, SMTT(20)
    <3> QED
      BY <3>2, <3>4 DEF Classifications
  <2>4. ~obs.ownerLive
    BY <2>2, <2>3, ClassMeaning DEF Class
  <2>5. at = "ready"
    BY <2>1, <2>3 DEF Resubmit, Ready, RequiresVanishBeforeAction
  <2> QED
    BY <2>3, <2>4, <2>5, SMTT(20) DEF OperateInv, StageOK
<1> QED
  BY <1>1, OperateInvariant, PTL DEF OperateSpec, RestartNeedsReceipt
=============================================================================
