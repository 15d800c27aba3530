------------------------------ MODULE EventLog ------------------------------
(***************************************************************************)
(* The severity event stream, events.jsonl: how RuntimeOwner numbers and   *)
(* appends events (owner.ts #startOnce, #emit; storage.ts appendEvent,     *)
(* readEvents), across takeovers of the lease.                             *)
(*                                                                         *)
(* One emit is three steps with other work in between: the lease is read   *)
(* and checked, the next cursor is stamped, the line is appended.  An      *)
(* owner has several emits going: the announcement of start, the control   *)
(* verbs, and the frame pump.  stop() joins the last two before it         *)
(* releases the lease.                                                     *)
(***************************************************************************)
EXTENDS SessionLease, Sequences, FiniteSets

CONSTANT MaxEvents    \* bound: how many emits pass the guard

ASSUME EventBound == MaxEvents \in Nat

VARIABLES events,    \* events.jsonl, a sequence of [by, via, cursor]
          phase,     \* per owner, where it is between start and exit
          cursor,    \* per owner, #cursor
          emit,      \* per owner and emitter, where the emit under way is
          stamp,     \* per owner and emitter, the cursor of that emit's event
          base,      \* per owner, how many events its start read
          first      \* per owner, how many there were when it got the lease

logVars == <<events, phase, cursor, emit, stamp, base, first>>
vars == <<leaseVars, logVars>>

Emitters == {"start", "verb", "pump"}
Joined == {"verb", "pump"}

Event == [by : Owner, via : Emitters, cursor : Nat]

InFlight ==
  Cardinality({q \in Owner \X Emitters : emit[q[1]][q[2]] # "idle"})

Init ==
  /\ LeaseInit
  /\ events = <<>>
  /\ phase = [o \in Owner |-> "new"]
  /\ cursor = [o \in Owner |-> 0]
  /\ emit = [o \in Owner |-> [e \in Emitters |-> "idle"]]
  /\ stamp = [o \in Owner |-> [e \in Emitters |-> 0]]
  /\ base = [o \in Owner |-> 0]
  /\ first = [o \in Owner |-> 0]

\* existing.reduce((max, e) => Math.max(max, e.cursor), 0)
HighestCursor ==
  CHOOSE m \in {0} \cup {events[i].cursor : i \in DOMAIN events} :
    \A i \in DOMAIN events : events[i].cursor <= m

\* Mutant: the cursor starts from the number of events that were read.
ReadLogLength(o) ==
  /\ phase[o] = "new" /\ o \in alive
  /\ phase' = [phase EXCEPT ![o] = "read"]
  /\ cursor' = [cursor EXCEPT ![o] = IF events = <<>> THEN 0 ELSE Len(events) - 1]
  /\ base' = [base EXCEPT ![o] = Len(events)]
  /\ UNCHANGED <<leaseVars, events, emit, stamp, first>>

\* #startOnce reads the log before it asks for the lease.
ReadLog(o) ==
  /\ phase[o] = "new" /\ o \in alive
  /\ phase' = [phase EXCEPT ![o] = "read"]
  /\ cursor' = [cursor EXCEPT ![o] = HighestCursor]
  /\ base' = [base EXCEPT ![o] = Len(events)]
  /\ UNCHANGED <<leaseVars, events, emit, stamp, first>>

BeginAcquire(o) ==
  /\ phase[o] = "read"
  /\ EnterAcquire(o)
  /\ UNCHANGED logVars

Acquired(o) ==
  /\ CommitAcquire(o)
  /\ phase' = [phase EXCEPT ![o] = "up"]
  /\ first' = [first EXCEPT ![o] = Len(events)]
  /\ UNCHANGED <<events, cursor, emit, stamp, base>>

AcquireRefused(o) ==
  /\ Running(o, "acquire") /\ Leave
  /\ phase' = [phase EXCEPT ![o] = "gone"]
  /\ UNCHANGED <<events, cursor, emit, stamp, base, first>>

\* Mutant: the emit goes ahead on any lease, whoever holds it.
EmitGuardDropped(o, e) ==
  /\ phase[o] \in {"read", "up"} /\ o \in alive
  /\ emit[o][e] = "idle"
  /\ Len(events) + InFlight < MaxEvents
  /\ emit' = [emit EXCEPT ![o][e] = "passed"]
  /\ UNCHANGED <<leaseVars, events, phase, cursor, stamp, base, first>>

\* #emit reads the lease and returns unless it is ours and unexpired.  The
\* announcement is the first thing an owner emits, and only once.
EmitGuard(o, e) ==
  /\ phase[o] = "up" /\ o \in alive
  /\ emit[o][e] = "idle"
  /\ e = "start" => stamp[o][e] = 0
  /\ CanWriteEvents(lease, o)
  /\ Len(events) + InFlight < MaxEvents
  /\ emit' = [emit EXCEPT ![o][e] = "passed"]
  /\ UNCHANGED <<leaseVars, events, phase, cursor, stamp, base, first>>

\* cursor: ++this.#cursor
EmitStamp(o, e) ==
  /\ o \in alive /\ emit[o][e] = "passed"
  /\ cursor' = [cursor EXCEPT ![o] = @ + 1]
  /\ stamp' = [stamp EXCEPT ![o][e] = cursor[o] + 1]
  /\ emit' = [emit EXCEPT ![o][e] = "stamped"]
  /\ UNCHANGED <<leaseVars, events, phase, base, first>>

\* appendEvent
EmitAppend(o, e) ==
  /\ o \in alive /\ emit[o][e] = "stamped"
  /\ events' = Append(events, [by |-> o, via |-> e, cursor |-> stamp[o][e]])
  /\ emit' = [emit EXCEPT ![o][e] = "idle"]
  /\ UNCHANGED <<leaseVars, phase, cursor, stamp, base, first>>

Renew(o) ==
  /\ phase[o] = "up"
  /\ EnterHeartbeat(o) \/ CommitHeartbeat(o)
  /\ UNCHANGED logVars

\* Mutant: stop does not wait for the emits of verbs and frames.
StopAtOnce(o) ==
  /\ phase[o] = "up" /\ o \in alive /\ section = Free
  /\ phase' = [phase EXCEPT ![o] = "stopping"]
  /\ UNCHANGED <<leaseVars, events, cursor, emit, stamp, base, first>>

\* stop(): new work is refused, the emits of verbs and frames are joined and
\* the heartbeat is fenced before the lease goes.
Stop(o) ==
  /\ phase[o] = "up" /\ o \in alive
  /\ \A e \in Joined : emit[o][e] = "idle"
  /\ ~Running(o, "heartbeat")
  /\ phase' = [phase EXCEPT ![o] = "stopping"]
  /\ UNCHANGED <<leaseVars, events, cursor, emit, stamp, base, first>>

Release(o) ==
  /\ phase[o] = "stopping"
  /\ \/ EnterRelease(o) /\ UNCHANGED phase
     \/ CommitRelease(o) /\ phase' = [phase EXCEPT ![o] = "gone"]
  /\ UNCHANGED <<events, cursor, emit, stamp, base, first>>

\* A process dies: emits under way are never appended.
Crash(o) ==
  /\ Die(o)
  /\ emit' = [emit EXCEPT ![o] = [e \in Emitters |-> "idle"]]
  /\ phase' = [phase EXCEPT ![o] = "gone"]
  /\ UNCHANGED <<events, cursor, stamp, base, first>>

Environment ==
  /\ Expire \/ (Leave /\ (section.op = "heartbeat" \/ section.by \notin alive))
  /\ UNCHANGED logVars

Next ==
  \/ \E o \in Owner :
       \/ ReadLog(o) \/ BeginAcquire(o) \/ Acquired(o) \/ AcquireRefused(o)
       \/ \E e \in Emitters : EmitGuard(o, e) \/ EmitStamp(o, e) \/ EmitAppend(o, e)
       \/ Renew(o) \/ Stop(o) \/ Release(o) \/ Crash(o)
  \/ Environment

Spec == Init /\ [][Next]_vars
-----------------------------------------------------------------------------
\* The types of the log and of the owners' counters.
LogTypeOK ==
  /\ events \in Seq(Event)
  /\ phase \in [Owner -> {"new", "read", "up", "stopping", "gone"}]
  /\ cursor \in [Owner -> Nat]
  /\ emit \in [Owner -> [Emitters -> {"idle", "passed", "stamped"}]]
  /\ stamp \in [Owner -> [Emitters -> Nat]]
  /\ base \in [Owner -> Nat] /\ first \in [Owner -> Nat]

\* owner.ts:8, the owner is "the SOLE writer of the severity event stream":
\* in the log the events of verbs and frames of different owners never
\* interleave, through expiry, takeover and release.
WritersTakeTurns ==
  \A i, j, k \in DOMAIN events :
    /\ i < j /\ j < k
    /\ events[i].by = events[k].by
    /\ \A n \in {j, k} : events[n].via \in Joined
    => events[j].by = events[i].by

\* An event of a verb or a frame is appended only while its owner is the one
\* lease.json names: the check at the top of #emit is still good when the line
\* is written, although nothing is locked in between.
AppendsUnderLease ==
  [][\A o \in Owner, e \in Joined :
       emit[o][e] = "stamped" /\ Len(events') > Len(events)
         /\ events'[Len(events')].by = o /\ events'[Len(events')].via = e
       => lease.owner = o]_vars

\* A cursor is used twice only by an owner that read the log before its
\* predecessor's last append: an owner whose start read everything there was
\* when it got the lease numbers its events above all of them.
CursorsNewUnlessRaced ==
  \A i, j \in DOMAIN events :
    LET o == events[j].by IN
    i <= first[o] /\ base[o] = first[o] => events[i].cursor < events[j].cursor

\* test/harness-control-plane/owner-frames.test.ts:153, "every event stamped with
\* the owner's lease identity; cursors strictly increasing".
CursorsIncrease ==
  \A i, j \in DOMAIN events : i < j => events[i].cursor < events[j].cursor

\* The weaker half of it: no two events have one cursor.
CursorsUnique ==
  \A i, j \in DOMAIN events : i # j => events[i].cursor # events[j].cursor
=============================================================================
