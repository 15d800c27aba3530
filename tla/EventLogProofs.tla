--------------------------- MODULE EventLogProofs ---------------------------
(***************************************************************************)
(* Proofs about EventLog, for any set of owners and any bounds.            *)
(*                                                                         *)
(* Every step is a step of the lease or leaves it alone, so what           *)
(* SessionLeaseProofs shows carries over: an owner that is up holds the    *)
(* lease alone.  Turns and Numbers relate the log to the moments at which  *)
(* an owner read it and got the lease.                                     *)
(***************************************************************************)
EXTENDS EventLog, SessionLeaseProofs

\* Who has not exited is alive, and who is up holds the lease.
Lives ==
  \A o \in Owner : /\ phase[o] # "gone" => o \in alive
                   /\ phase[o] = "up" => holds[o]

\* An emit is under way only in a process that has had the lease; those of
\* verbs and frames only until stop() has joined them.
Emits ==
  \A o \in Owner, e \in Emitters : emit[o][e] # "idle" =>
     /\ o \in alive /\ phase[o] \notin {"new", "read"}
     /\ e \in Joined => phase[o] = "up"

\* An owner asks for the lease once, after it has read the log.
AsksOnce ==
  section.op = "acquire" /\ section.by \in alive => phase[section.by] = "read"

\* An owner's events come after it got the lease, and while it is up those of
\* verbs and frames that came since are its own.
Turns ==
  \A o \in Owner :
    /\ first[o] <= Len(events) /\ base[o] <= Len(events)
    /\ \A i \in DOMAIN events : events[i].by = o =>
         phase[o] \notin {"new", "read"} /\ first[o] < i
    /\ phase[o] = "up" => \A i \in DOMAIN events :
         first[o] < i /\ events[i].via \in Joined => events[i].by = o

\* Every cursor an owner has stamped, and the one it has reached, is above
\* those of the events its start read.
Numbers ==
  /\ \A o \in Owner, i \in DOMAIN events : i <= base[o] =>
       /\ events[i].cursor <= cursor[o]
       /\ \A e \in Emitters :
            emit[o][e] = "stamped" => events[i].cursor < stamp[o][e]
  /\ \A i, j \in DOMAIN events :
       i <= base[events[j].by] => events[i].cursor < events[j].cursor

\* There is a highest cursor for #startOnce to find.
HasHighest ==
  \E m \in {0} \cup {events[i].cursor : i \in DOMAIN events} :
    \A i \in DOMAIN events : events[i].cursor <= m

LogInv ==
  /\ LeaseInv /\ LogTypeOK /\ Lives /\ Emits /\ AsksOnce
  /\ Turns /\ WritersTakeTurns /\ Numbers /\ HasHighest
-----------------------------------------------------------------------------
\* The composition: an owner touches the lease only by its protocol.
LEMMA StepIsLeaseStep == [Next]_vars => [LeaseNext]_leaseVars
<1> SUFFICES ASSUME [Next]_vars PROVE [LeaseNext]_leaseVars
  OBVIOUS
<1> USE DEF LeaseNext
<1>1. ASSUME NEW o \in Owner,
             \/ ReadLog(o) \/ BeginAcquire(o) \/ Acquired(o) \/ AcquireRefused(o)
             \/ Renew(o) \/ Stop(o) \/ Release(o) \/ Crash(o)
      PROVE  [LeaseNext]_leaseVars
  BY <1>1 DEF ReadLog, BeginAcquire, Acquired, AcquireRefused, Renew, Stop,
              Release, Crash
<1>2. ASSUME NEW o \in Owner, NEW e \in Emitters,
             EmitGuard(o, e) \/ EmitStamp(o, e) \/ EmitAppend(o, e)
      PROVE  UNCHANGED leaseVars
  BY <1>2 DEF EmitGuard, EmitStamp, EmitAppend
<1>3. CASE Environment
  BY <1>3 DEF Environment
<1>4. CASE UNCHANGED vars
  BY <1>4 DEF vars
<1> QED
  BY <1>1, <1>2, <1>3, <1>4 DEF Next

\* Before any owner has started nothing is written.
LEMMA LogInitOK == Init => LogInv
<1> SUFFICES ASSUME Init PROVE LogInv
  OBVIOUS
<1>1. LeaseInv
  BY InitEstablishesInv DEF Init
<1>2. LogTypeOK
  BY DEF Init, LogTypeOK
<1>3. Lives /\ Emits /\ AsksOnce
  BY DEF Init, LeaseInit, Free, Lives, Emits, AsksOnce
<1>4. DOMAIN events = {} /\ Len(events) = 0
  BY DEF Init
<1>5. Turns /\ WritersTakeTurns /\ Numbers /\ HasHighest
  BY <1>4 DEF Init, Turns, WritersTakeTurns, Numbers, HasHighest
<1> QED
  BY <1>1, <1>2, <1>3, <1>5 DEF LogInv

\* Only a release ends a hold, and only a death a life.
LEMMA LeaseStepsKeepHolds ==
  ASSUME NEW o \in Owner
  PROVE  /\ Enter(o, "acquire") => UNCHANGED <<alive, holds>>
         /\ Leave => UNCHANGED <<alive, holds>> /\ section' = Free
         /\ Expire => UNCHANGED <<alive, holds, section>>
         /\ EnterHeartbeat(o) \/ CommitHeartbeat(o) =>
              UNCHANGED <<alive, holds>> /\ section'.op # "acquire"
         /\ EnterRelease(o) => UNCHANGED <<alive, holds>> /\ section'.op # "acquire"
BY DEF Enter, Leave, Expire, EnterHeartbeat, CommitHeartbeat, EnterRelease, Free

\* The events in the log have an owner, an emitter and a cursor.
LEMMA EventFields ==
  ASSUME LogTypeOK
  PROVE  /\ events \in Seq(Event) /\ Len(events) \in Nat
         /\ DOMAIN events = 1 .. Len(events)
         /\ \A i \in DOMAIN events :
              /\ i \in Nat /\ events[i].cursor \in Nat
              /\ events[i].by \in Owner /\ events[i].via \in Emitters
<1>1. events \in Seq(Event) /\ Len(events) \in Nat /\ DOMAIN events = 1 .. Len(events)
  BY DEF LogTypeOK
<1>2. \A i \in DOMAIN events : i \in Nat /\ events[i] \in Event
  BY <1>1
<1> QED
  BY <1>1, <1>2 DEF Event

\* What the reduce in #startOnce computes is one of the cursors, or zero, and no
\* cursor is above it.
LEMMA HighestIsHighest ==
  ASSUME HasHighest
  PROVE  /\ HighestCursor \in {0} \cup {events[i].cursor : i \in DOMAIN events}
         /\ \A i \in DOMAIN events : events[i].cursor <= HighestCursor
<1> DEFINE S == {0} \cup {events[i].cursor : i \in DOMAIN events}
           High(m) == \A i \in DOMAIN events : events[i].cursor <= m
<1>1. HighestCursor = CHOOSE m \in S : High(m)
  BY DEF HighestCursor
<1>2. \E m \in S : High(m)
  BY DEF HasHighest
<1>3. HighestCursor \in S /\ High(HighestCursor)
  <2> HIDE DEF S, High
  <2> QED
    BY <1>1, <1>2
<1> QED
  BY <1>3

\* The phases of the owners and the emits under way stay consistent with the
\* lease, whatever step is taken.
LEMMA ControlKept ==
  ASSUME LogInv, [Next]_vars
  PROVE  LogTypeOK' /\ Lives' /\ Emits' /\ AsksOnce'
<1> DEFINE Goal == LogTypeOK' /\ Lives' /\ Emits' /\ AsksOnce'
<1> SUFFICES Goal
  OBVIOUS
<1>0. /\ holds \in [Owner -> BOOLEAN] /\ alive \subseteq Owner
      /\ LogTypeOK /\ Lives /\ Emits /\ AsksOnce /\ HasHighest
  BY DEF LogInv, LeaseInv, LeaseTypeOK
<1>1. ASSUME NEW o \in Owner, ReadLog(o) PROVE Goal
  <2>1. HighestCursor \in Nat
    <3>1. HighestCursor \in {0} \cup {events[i].cursor : i \in DOMAIN events}
      BY <1>0, HighestIsHighest
    <3>2. \A i \in DOMAIN events : events[i].cursor \in Nat
      BY <1>0, EventFields
    <3> QED
      BY <3>1, <3>2
  <2>2. LogTypeOK'
    BY <1>0, <1>1, <2>1 DEF ReadLog, LogTypeOK
  <2>3. Lives' /\ AsksOnce'
    BY <1>0, <1>1 DEF ReadLog, leaseVars, LogTypeOK, Lives, AsksOnce
  <2>4. Emits'
    BY <1>0, <1>1 DEF ReadLog, leaseVars, LogTypeOK, Emits
  <2> QED
    BY <2>2, <2>3, <2>4
<1>2. ASSUME NEW o \in Owner, BeginAcquire(o) PROVE Goal
  <2>1. /\ phase[o] = "read" /\ UNCHANGED <<alive, holds>> /\ section'.by = o
        /\ UNCHANGED logVars
    BY <1>2 DEF BeginAcquire, EnterAcquire, Enter
  <2>2. LogTypeOK'
    BY <1>0, <2>1 DEF logVars, LogTypeOK
  <2>3. Lives' /\ Emits' /\ AsksOnce'
    BY <1>0, <2>1 DEF logVars, Lives, Emits, AsksOnce
  <2> QED
    BY <2>2, <2>3
<1>3. ASSUME NEW o \in Owner, Acquired(o) PROVE Goal
  <2>1. /\ phase[o] = "read" /\ o \in alive /\ alive' = alive
        /\ holds' = [holds EXCEPT ![o] = TRUE] /\ section' = Free
    BY <1>0, <1>3 DEF Acquired, CommitAcquire, Running, AsksOnce
  <2>2. LogTypeOK'
    BY <1>0, <1>3 DEF Acquired, LogTypeOK
  <2>3. Lives'
    BY <1>0, <1>3, <2>1 DEF Acquired, LogTypeOK, Lives
  <2>4. Emits'
    BY <1>0, <1>3, <2>1 DEF Acquired, LogTypeOK, Emits
  <2>5. AsksOnce'
    BY <2>1 DEF AsksOnce, Free
  <2> QED
    BY <2>2, <2>3, <2>4, <2>5
<1>4. ASSUME NEW o \in Owner, AcquireRefused(o) PROVE Goal
  <2>1. /\ phase[o] = "read" /\ UNCHANGED <<alive, holds>> /\ section' = Free
    BY <1>0, <1>4, LeaseStepsKeepHolds DEF AcquireRefused, Running, AsksOnce
  <2>2. LogTypeOK'
    BY <1>0, <1>4 DEF AcquireRefused, LogTypeOK
  <2>3. Lives'
    BY <1>0, <1>4, <2>1 DEF AcquireRefused, LogTypeOK, Lives
  <2>4. Emits'
    BY <1>0, <1>4, <2>1 DEF AcquireRefused, LogTypeOK, Emits
  <2>5. AsksOnce'
    BY <2>1 DEF AsksOnce, Free
  <2> QED
    BY <2>2, <2>3, <2>4, <2>5
<1>5. ASSUME NEW o \in Owner, NEW e \in Emitters, EmitGuard(o, e) PROVE Goal
  <2>1. LogTypeOK'
    BY <1>0, <1>5 DEF EmitGuard, LogTypeOK
  <2>2. Lives' /\ AsksOnce'
    BY <1>0, <1>5 DEF EmitGuard, leaseVars, Lives, AsksOnce
  <2>3. Emits'
    BY <1>0, <1>5 DEF EmitGuard, leaseVars, LogTypeOK, Emits
  <2> QED
    BY <2>1, <2>2, <2>3
<1>6. ASSUME NEW o \in Owner, NEW e \in Emitters, EmitStamp(o, e) PROVE Goal
  <2>1. LogTypeOK'
    BY <1>0, <1>6 DEF EmitStamp, LogTypeOK
  <2>2. Lives' /\ AsksOnce'
    BY <1>0, <1>6 DEF EmitStamp, leaseVars, Lives, AsksOnce
  <2>3. Emits'
    BY <1>0, <1>6 DEF EmitStamp, leaseVars, LogTypeOK, Emits
  <2> QED
    BY <2>1, <2>2, <2>3
<1>7. ASSUME NEW o \in Owner, NEW e \in Emitters, EmitAppend(o, e) PROVE Goal
  <2>1. LogTypeOK'
    <3>1. [by |-> o, via |-> e, cursor |-> stamp[o][e]] \in Event
      BY <1>0 DEF LogTypeOK, Event
    <3> QED
      BY <1>0, <1>7, <3>1 DEF EmitAppend, LogTypeOK
  <2>2. Lives' /\ AsksOnce'
    BY <1>0, <1>7 DEF EmitAppend, leaseVars, Lives, AsksOnce
  <2>3. Emits'
    BY <1>0, <1>7 DEF EmitAppend, leaseVars, LogTypeOK, Emits
  <2> QED
    BY <2>1, <2>2, <2>3
<1>8. ASSUME NEW o \in Owner, Renew(o) PROVE Goal
  <2>1. UNCHANGED logVars /\ UNCHANGED <<alive, holds>> /\ section'.op # "acquire"
    BY <1>8, LeaseStepsKeepHolds DEF Renew
  <2> QED
    BY <1>0, <2>1 DEF logVars, LogTypeOK, Lives, Emits, AsksOnce
<1>9. ASSUME NEW o \in Owner, Stop(o) PROVE Goal
  <2>1. LogTypeOK'
    BY <1>0, <1>9 DEF Stop, LogTypeOK
  <2>2. Lives' /\ AsksOnce'
    BY <1>0, <1>9 DEF Stop, leaseVars, LogTypeOK, Lives, AsksOnce
  <2>3. Emits'
    BY <1>0, <1>9 DEF Stop, leaseVars, LogTypeOK, Emits
  <2> QED
    BY <2>1, <2>2, <2>3
<1>10. ASSUME NEW o \in Owner, Release(o) PROVE Goal
  <2>1. CASE EnterRelease(o) /\ UNCHANGED phase
    <3>1. UNCHANGED logVars /\ UNCHANGED <<alive, holds>> /\ section'.op # "acquire"
      BY <1>10, <2>1, LeaseStepsKeepHolds DEF Release, logVars
    <3> QED
      BY <1>0, <3>1 DEF logVars, LogTypeOK, Lives, Emits, AsksOnce
  <2>2. CASE CommitRelease(o) /\ phase' = [phase EXCEPT ![o] = "gone"]
    <3>1. /\ phase[o] = "stopping" /\ alive' = alive /\ section' = Free
          /\ holds' = [holds EXCEPT ![o] = FALSE]
          /\ UNCHANGED <<events, cursor, emit, stamp, base, first>>
      BY <1>10, <2>2 DEF Release, CommitRelease
    <3>2. LogTypeOK'
      BY <1>0, <2>2, <3>1 DEF LogTypeOK
    <3>3. Lives' /\ AsksOnce'
      BY <1>0, <2>2, <3>1 DEF LogTypeOK, Lives, AsksOnce, Free
    <3>4. Emits'
      BY <1>0, <2>2, <3>1 DEF LogTypeOK, Emits
    <3> QED
      BY <3>2, <3>3, <3>4
  <2> QED
    BY <1>10, <2>1, <2>2 DEF Release
<1>11. ASSUME NEW o \in Owner, Crash(o) PROVE Goal
  <2>1. /\ alive' = alive \ {o} /\ UNCHANGED <<holds, section>>
    BY <1>11 DEF Crash, Die
  <2>2. LogTypeOK'
    BY <1>0, <1>11 DEF Crash, LogTypeOK
  <2>3. Lives' /\ AsksOnce'
    BY <1>0, <1>11, <2>1 DEF Crash, LogTypeOK, Lives, AsksOnce
  <2>4. Emits'
    BY <1>0, <1>11, <2>1 DEF Crash, LogTypeOK, Emits
  <2> QED
    BY <2>2, <2>3, <2>4
<1>12. CASE Environment
  <2>1. UNCHANGED logVars /\ UNCHANGED <<alive, holds>>
        /\ (section' = Free \/ section' = section)
    BY <1>12 DEF Environment, Expire, Leave
  <2> QED
    BY <1>0, <2>1 DEF logVars, LogTypeOK, Lives, Emits, AsksOnce, Free
<1>13. CASE UNCHANGED vars
  BY <1>0, <1>13 DEF vars, leaseVars, logVars, LogTypeOK, Lives, Emits, AsksOnce
<1> HIDE DEF Goal
<1> QED
  BY <1>1, <1>2, <1>3, <1>4, <1>5, <1>6, <1>7, <1>8, <1>9, <1>10, <1>11, <1>12,
     <1>13 DEF Next

\* What is about the log alone.
LEMMA LogUnchanged ==
  ASSUME WritersTakeTurns, HasHighest, events' = events
  PROVE  WritersTakeTurns' /\ HasHighest'
<1>1. WritersTakeTurns'
  BY DEF WritersTakeTurns
<1>2. HasHighest'
  BY Zenon DEF HasHighest
<1> QED
  BY <1>1, <1>2

\* A step that neither appends nor renumbers, and only moves owners on.
LEMMA QuietStep ==
  ASSUME LogInv, UNCHANGED <<events, cursor, stamp, base, first>>,
         \A o \in Owner :
           /\ phase[o] \notin {"new", "read"} => phase'[o] \notin {"new", "read"}
           /\ phase'[o] = "up" => phase[o] = "up",
         \A o \in Owner, e \in Emitters :
           emit'[o][e] = "stamped" => emit[o][e] = "stamped"
  PROVE  Turns' /\ WritersTakeTurns' /\ Numbers' /\ HasHighest'
<1>1. Turns'
  BY DEF LogInv, Turns
<1>2. WritersTakeTurns' /\ HasHighest'
  BY LogUnchanged DEF LogInv
<1>3. Numbers'
  BY DEF LogInv, Numbers
<1> QED
  BY <1>1, <1>2, <1>3

\* Starting: the owner has no events yet, so where it starts counting from
\* concerns no event in the log.
LEMMA ReadLogStep ==
  ASSUME LogInv, NEW o \in Owner, ReadLog(o)
  PROVE  Turns' /\ WritersTakeTurns' /\ Numbers' /\ HasHighest'
<1>1. /\ LogTypeOK /\ Emits /\ Turns /\ WritersTakeTurns /\ Numbers /\ HasHighest
      /\ \A i \in DOMAIN events : events[i].by # o
      /\ \A e \in Emitters : emit[o][e] = "idle"
  BY DEF LogInv, ReadLog, Turns, Emits
<1>2. /\ phase' = [phase EXCEPT ![o] = "read"]
      /\ cursor' = [cursor EXCEPT ![o] = HighestCursor]
      /\ base' = [base EXCEPT ![o] = Len(events)]
      /\ UNCHANGED <<events, emit, stamp, first>>
  BY DEF ReadLog
<1>3. /\ cursor \in [Owner -> Nat] /\ base \in [Owner -> Nat]
      /\ phase \in [Owner -> {"new", "read", "up", "stopping", "gone"}]
  BY <1>1 DEF LogTypeOK
<1>4. Turns'
  BY <1>1, <1>2, <1>3, EventFields DEF Turns
<1>5. WritersTakeTurns' /\ HasHighest'
  BY <1>1, <1>2, LogUnchanged
<1>6. Numbers'
  <2>1. ASSUME NEW p \in Owner, NEW i \in DOMAIN events, i <= base'[p]
        PROVE  /\ events[i].cursor <= cursor'[p]
               /\ \A e \in Emitters :
                    emit[p][e] = "stamped" => events[i].cursor < stamp[p][e]
    <3>1. CASE p = o
      BY <1>1, <1>2, <1>3, <3>1, HighestIsHighest
    <3>2. CASE p # o
      BY <1>1, <1>2, <1>3, <2>1, <3>2 DEF Numbers
    <3> QED
      BY <3>1, <3>2
  <2>2. ASSUME NEW i \in DOMAIN events, NEW j \in DOMAIN events,
               i <= base'[events[j].by]
        PROVE  events[i].cursor < events[j].cursor
    BY <1>1, <1>2, <1>3, <2>2, EventFields DEF Numbers
  <2> QED
    BY <1>2, <2>1, <2>2 DEF Numbers
<1> QED
  BY <1>4, <1>5, <1>6

\* Getting the lease: the owner has no events yet, and none came since.
LEMMA AcquiredStep ==
  ASSUME LogInv, NEW o \in Owner, Acquired(o)
  PROVE  Turns' /\ WritersTakeTurns' /\ Numbers' /\ HasHighest'
<1>1. /\ LogTypeOK /\ Turns /\ WritersTakeTurns /\ Numbers /\ HasHighest
      /\ phase[o] = "read"
  BY DEF LogInv, Acquired, CommitAcquire, Running, AsksOnce
<1>2. /\ phase' = [phase EXCEPT ![o] = "up"]
      /\ first' = [first EXCEPT ![o] = Len(events)]
      /\ UNCHANGED <<events, cursor, emit, stamp, base>>
  BY DEF Acquired
<1>3. /\ first \in [Owner -> Nat] /\ base \in [Owner -> Nat]
      /\ phase \in [Owner -> {"new", "read", "up", "stopping", "gone"}]
  BY <1>1 DEF LogTypeOK
<1>4. Turns'
  BY <1>1, <1>2, <1>3, EventFields DEF Turns
<1>5. WritersTakeTurns' /\ HasHighest' /\ Numbers'
  BY <1>1, <1>2, LogUnchanged DEF Numbers
<1> QED
  BY <1>4, <1>5

\* A stamp is above the counter it is taken from.
LEMMA StampStep ==
  ASSUME LogInv, NEW o \in Owner, NEW e \in Emitters, EmitStamp(o, e)
  PROVE  Turns' /\ WritersTakeTurns' /\ Numbers' /\ HasHighest'
<1>1. LogTypeOK /\ Turns /\ WritersTakeTurns /\ Numbers /\ HasHighest
  BY DEF LogInv
<1>2. /\ cursor' = [cursor EXCEPT ![o] = @ + 1]
      /\ stamp' = [stamp EXCEPT ![o][e] = cursor[o] + 1]
      /\ emit' = [emit EXCEPT ![o][e] = "stamped"]
      /\ UNCHANGED <<events, phase, base, first>>
  BY DEF EmitStamp
<1>3. /\ cursor \in [Owner -> Nat] /\ base \in [Owner -> Nat]
      /\ stamp \in [Owner -> [Emitters -> Nat]]
      /\ emit \in [Owner -> [Emitters -> {"idle", "passed", "stamped"}]]
  BY <1>1 DEF LogTypeOK
<1>4. Turns' /\ WritersTakeTurns' /\ HasHighest'
  BY <1>1, <1>2, LogUnchanged DEF Turns
<1>5. ASSUME NEW p \in Owner, NEW i \in DOMAIN events, i <= base[p]
      PROVE  /\ events[i].cursor <= cursor'[p]
             /\ \A f \in Emitters :
                  emit'[p][f] = "stamped" => events[i].cursor < stamp'[p][f]
  <2>1. /\ events[i].cursor \in Nat /\ cursor[p] \in Nat
        /\ events[i].cursor <= cursor[p]
        /\ \A f \in Emitters :
             emit[p][f] = "stamped" => events[i].cursor < stamp[p][f]
    BY <1>1, <1>3, <1>5, EventFields DEF Numbers
  <2>2. events[i].cursor <= cursor'[p]
    BY <1>2, <1>3, <2>1
  <2>3. ASSUME NEW f \in Emitters, emit'[p][f] = "stamped"
        PROVE  events[i].cursor < stamp'[p][f]
    <3>1. CASE p = o /\ f = e
      BY <1>2, <1>3, <2>1, <3>1
    <3>2. CASE p # o \/ f # e
      BY <1>2, <1>3, <2>1, <2>3, <3>2
    <3> QED
      BY <3>1, <3>2
  <2> QED
    BY <2>2, <2>3
<1>6. Numbers'
  BY <1>1, <1>2, <1>5 DEF Numbers
<1> QED
  BY <1>4, <1>6

\* The line that is appended: its writer, if it is a verb's or a frame's, holds
\* the lease alone, and its cursor is above what its owner had read.
LEMMA AppendStep ==
  ASSUME LogInv, NEW o \in Owner, NEW e \in Emitters, EmitAppend(o, e)
  PROVE  Turns' /\ WritersTakeTurns' /\ Numbers' /\ HasHighest'
<1> DEFINE n == Len(events) + 1
           x == [by |-> o, via |-> e, cursor |-> stamp[o][e]]
<1>1. /\ LogTypeOK /\ Lives /\ Emits /\ Turns /\ WritersTakeTurns /\ Numbers
      /\ HasHighest /\ LeaseInv
  BY DEF LogInv
<1>2. /\ events' = Append(events, x) /\ o \in alive /\ emit[o][e] = "stamped"
      /\ emit' = [emit EXCEPT ![o][e] = "idle"]
      /\ UNCHANGED <<phase, cursor, stamp, base, first>>
  BY DEF EmitAppend
<1>3. /\ stamp[o][e] \in Nat /\ base \in [Owner -> Nat] /\ first \in [Owner -> Nat]
      /\ emit \in [Owner -> [Emitters -> {"idle", "passed", "stamped"}]]
  BY <1>1 DEF LogTypeOK
<1>4. /\ events \in Seq(Event) /\ Len(events) \in Nat /\ x \in Event
      /\ x.by = o /\ x.via = e /\ x.cursor = stamp[o][e]
  BY <1>1, <1>3, EventFields DEF Event
<1> HIDE DEF x
<1>5. /\ Len(events') = n /\ DOMAIN events' = 1 .. n /\ events'[n] = x
      /\ DOMAIN events = 1 .. Len(events)
      /\ \A i \in DOMAIN events : events'[i] = events[i]
      /\ \A i \in DOMAIN events' : i # n => i \in DOMAIN events
  BY <1>2, <1>4
<1>6. /\ phase[o] \notin {"new", "read"}
      /\ e \in Joined => phase[o] = "up"
  BY <1>1, <1>2 DEF Emits
<1>7. e \in Joined => \A p \in Owner : phase[p] = "up" => p = o
  <2> SUFFICES ASSUME e \in Joined, NEW p \in Owner, phase[p] = "up" PROVE p = o
    OBVIOUS
  <2>1. p \in alive /\ holds[p] /\ holds[o]
    BY <1>1, <1>6 DEF Lives
  <2>2. ident[p] = ident[o] /\ ident[p].owner = p /\ ident[o].owner = o
    BY <1>1, <1>2, <2>1 DEF LeaseInv, HolderIsOnDisk, IdentIsOwn
  <2> QED
    BY <2>2
<1>8. /\ \A p \in Owner : first[p] < n /\ base[p] < n
      /\ \A p \in Owner, i \in DOMAIN events' : i <= base[p] => i \in DOMAIN events
  BY <1>1, <1>3, <1>4, <1>5 DEF Turns
<1>9. Turns'
  <2>1. ASSUME NEW p \in Owner
        PROVE  /\ first[p] <= n /\ base[p] <= n
               /\ \A i \in DOMAIN events' : events'[i].by = p =>
                    phase[p] \notin {"new", "read"} /\ first[p] < i
               /\ phase[p] = "up" => \A i \in DOMAIN events' :
                    first[p] < i /\ events'[i].via \in Joined => events'[i].by = p
    <3>1. first[p] <= n /\ base[p] <= n
      BY <1>3, <1>4, <1>8
    <3>2. ASSUME NEW i \in DOMAIN events', events'[i].by = p
          PROVE  phase[p] \notin {"new", "read"} /\ first[p] < i
      BY <1>1, <1>4, <1>5, <1>6, <1>8, <3>2 DEF Turns
    <3>3. ASSUME phase[p] = "up", NEW i \in DOMAIN events', first[p] < i,
                 events'[i].via \in Joined
          PROVE  events'[i].by = p
      BY <1>1, <1>4, <1>5, <1>7, <3>3 DEF Turns
    <3> QED
      BY <3>1, <3>2, <3>3
  <2> QED
    BY <1>2, <1>5, <2>1 DEF Turns
<1>10. WritersTakeTurns'
  <2> SUFFICES ASSUME NEW i \in DOMAIN events', NEW j \in DOMAIN events',
                      NEW k \in DOMAIN events', i < j, j < k,
                      events'[i].by = events'[k].by,
                      events'[j].via \in Joined, events'[k].via \in Joined
               PROVE  events'[j].by = events'[i].by
    BY DEF WritersTakeTurns
  <2>1. i \in DOMAIN events /\ j \in DOMAIN events
    BY <1>4, <1>5
  <2>2. CASE k \in DOMAIN events
    BY <1>1, <1>5, <2>1, <2>2 DEF WritersTakeTurns
  <2>3. CASE k = n
    <3>1. e \in Joined /\ events[i].by = o /\ phase[o] = "up"
      BY <1>4, <1>5, <1>6, <2>1, <2>3
    <3>2. first[o] < i
      BY <1>1, <2>1, <3>1 DEF Turns
    <3>3. first[o] < j
      BY <1>3, <1>4, <1>5, <2>1, <3>2
    <3> QED
      BY <1>1, <1>5, <2>1, <3>1, <3>3 DEF Turns
  <2> QED
    BY <1>5, <2>2, <2>3
<1>11. Numbers'
  <2>1. ASSUME NEW p \in Owner, NEW i \in DOMAIN events', i <= base[p]
        PROVE  /\ events'[i].cursor <= cursor[p]
               /\ \A f \in Emitters :
                    emit'[p][f] = "stamped" => events'[i].cursor < stamp[p][f]
    <3>1. i \in DOMAIN events /\ events'[i] = events[i]
      BY <1>5, <1>8, <2>1
    <3>2. \A f \in Emitters : emit'[p][f] = "stamped" => emit[p][f] = "stamped"
      BY <1>2, <1>3
    <3> QED
      BY <1>1, <2>1, <3>1, <3>2 DEF Numbers
  <2>2. ASSUME NEW i \in DOMAIN events', NEW j \in DOMAIN events',
               i <= base[events'[j].by]
        PROVE  events'[i].cursor < events'[j].cursor
    <3>1. events'[j].by \in Owner
      BY <1>1, <1>4, <1>5, EventFields
    <3>2. i \in DOMAIN events /\ events'[i] = events[i]
      BY <1>5, <1>8, <2>2, <3>1
    <3>3. CASE j \in DOMAIN events
      BY <1>1, <1>5, <2>2, <3>2, <3>3 DEF Numbers
    <3>4. CASE j = n
      BY <1>1, <1>2, <1>4, <1>5, <2>2, <3>2, <3>4 DEF Numbers
    <3> QED
      BY <1>5, <3>3, <3>4
  <2> QED
    BY <1>2, <2>1, <2>2 DEF Numbers
<1>12. HasHighest'
  <2>1. PICK m \in {0} \cup {events[i].cursor : i \in DOMAIN events} :
          \A i \in DOMAIN events : events[i].cursor <= m
    BY <1>1 DEF HasHighest
  <2>2. m \in Nat /\ \A i \in DOMAIN events : events[i].cursor \in Nat
    BY <1>1, <2>1, EventFields
  <2>3. CASE stamp[o][e] <= m
    <3>1. \A i \in DOMAIN events' : events'[i].cursor <= m
      BY <1>4, <1>5, <2>1, <2>3
    <3>2. m \in {0} \cup {events'[i].cursor : i \in DOMAIN events'}
      BY <1>4, <1>5, <2>1
    <3> QED
      BY <3>1, <3>2 DEF HasHighest
  <2>4. CASE m < stamp[o][e]
    <3>1. \A i \in DOMAIN events' : events'[i].cursor <= stamp[o][e]
      BY <1>3, <1>4, <1>5, <2>1, <2>2, <2>4
    <3>2. stamp[o][e] \in {0} \cup {events'[i].cursor : i \in DOMAIN events'}
      BY <1>4, <1>5
    <3> QED
      BY <3>1, <3>2, Zenon DEF HasHighest
  <2> QED
    BY <1>3, <2>2, <2>3, <2>4
<1> QED
  BY <1>9, <1>10, <1>11, <1>12

\* Every step of the owners keeps the invariant.
LEMMA LogStepOK == LogInv /\ [Next]_vars => LogInv'
<1> SUFFICES ASSUME LogInv, [Next]_vars PROVE LogInv'
  OBVIOUS
<1> DEFINE Goal == Turns' /\ WritersTakeTurns' /\ Numbers' /\ HasHighest'
<1>1. LeaseInv'
  BY StepIsLeaseStep, StepKeepsInv DEF LogInv
<1>2. LogTypeOK' /\ Lives' /\ Emits' /\ AsksOnce'
  BY ControlKept
<1>0. /\ phase \in [Owner -> {"new", "read", "up", "stopping", "gone"}]
      /\ emit \in [Owner -> [Emitters -> {"idle", "passed", "stamped"}]]
  BY DEF LogInv, LogTypeOK
<1>3. ASSUME NEW o \in Owner,
             ReadLog(o) \/ Acquired(o)
      PROVE  Goal
  BY <1>3, ReadLogStep, AcquiredStep
<1>4. ASSUME NEW o \in Owner, NEW e \in Emitters,
             EmitStamp(o, e) \/ EmitAppend(o, e)
      PROVE  Goal
  BY <1>4, StampStep, AppendStep, SMTT(20)
<1>5. ASSUME NEW o \in Owner, NEW e \in Emitters, EmitGuard(o, e) PROVE Goal
  BY <1>0, <1>5, QuietStep DEF EmitGuard
<1>6. ASSUME NEW o \in Owner, Stop(o) PROVE Goal
  BY <1>0, <1>6, QuietStep DEF Stop
<1>7. ASSUME NEW o \in Owner, AcquireRefused(o) PROVE Goal
  BY <1>0, <1>7, QuietStep DEF AcquireRefused
<1>8. ASSUME NEW o \in Owner, Release(o) PROVE Goal
  <2>1. /\ UNCHANGED <<events, cursor, emit, stamp, base, first>>
        /\ phase' = phase \/ phase' = [phase EXCEPT ![o] = "gone"]
    BY <1>8 DEF Release
  <2> QED
    BY <1>0, <2>1, QuietStep
<1>9. ASSUME NEW o \in Owner, Crash(o) PROVE Goal
  BY <1>0, <1>9, QuietStep DEF Crash
<1>10. ASSUME UNCHANGED logVars PROVE Goal
  BY <1>10, QuietStep DEF logVars
<1>11. Goal
  <2> HIDE DEF Goal
  <2>1. CASE Next
    BY <1>3, <1>4, <1>5, <1>6, <1>7, <1>8, <1>9, <1>10, <2>1
       DEF Next, BeginAcquire, Renew, Environment
  <2>2. CASE UNCHANGED vars
    BY <1>10, <2>2 DEF vars
  <2> QED
    BY <2>1, <2>2
<1> QED
  BY <1>1, <1>2, <1>11 DEF LogInv

\* LogInv is an invariant of the event stream for every set of owners.
THEOREM LogInvariant == Spec => []LogInv
BY LogInitOK, LogStepOK, PTL DEF Spec

\* The log, the owners' counters and the emits under way keep their types.
THEOREM LogTypes == Spec => []LogTypeOK
BY LogInvariant, PTL DEF LogInv

\* The owners' emits use the lease only by its protocol (owner.ts #emit).
THEOREM EmittersFollowLease == Spec => LeaseSpec
<1>1. Init => LeaseInit
  BY DEF Init
<1> QED
  BY <1>1, StepIsLeaseStep, PTL DEF Spec, LeaseSpec

\* The events of verbs and frames of different owners never interleave in
\* events.jsonl: one writer at a time (owner.ts:8).
THEOREM OneWriterAtATime == Spec => []WritersTakeTurns
BY LogInvariant, PTL DEF LogInv

\* Whoever read all there was when it got the lease numbers its events above
\* everything before them (#startOnce, #emit).
THEOREM NewCursorsAreNew == Spec => []CursorsNewUnlessRaced
<1>1. LogInv => CursorsNewUnlessRaced
  <2> SUFFICES ASSUME LogInv, NEW i \in DOMAIN events, NEW j \in DOMAIN events,
                      i <= first[events[j].by],
                      base[events[j].by] = first[events[j].by]
               PROVE  events[i].cursor < events[j].cursor
    BY DEF CursorsNewUnlessRaced
  <2> QED
    BY DEF LogInv, Numbers
<1> QED
  BY <1>1, LogInvariant, PTL

\* The lease check at the top of #emit is still good when the line of a verb or
\* a frame is appended, although nothing is locked in between.
THEOREM CheckOutlastsAppend == Spec => AppendsUnderLease
<1>1. LogInv =>
        [\A o \in Owner, e \in Joined :
           emit[o][e] = "stamped" /\ Len(events') > Len(events)
             /\ events'[Len(events')].by = o /\ events'[Len(events')].via = e
           => lease.owner = o]_vars
  <2> SUFFICES ASSUME LogInv, NEW o \in Owner, NEW e \in Joined,
                      emit[o][e] = "stamped"
               PROVE  lease.owner = o
    OBVIOUS
  <2>1. o \in alive /\ holds[o]
    BY DEF LogInv, Emits, Lives, Joined, Emitters
  <2>2. Identity(lease) = ident[o] /\ ident[o].owner = o
    BY <2>1 DEF LogInv, LeaseInv, HolderIsOnDisk, IdentIsOwn
  <2> QED
    BY <2>2 DEF Identity
<1> QED
  BY <1>1, LogInvariant, PTL DEF AppendsUnderLease
=============================================================================
