------------------------- MODULE ReceiptStoreProofs -------------------------
(***************************************************************************)
(* What TLAPS proves of ReceiptStore for every set of processes and        *)
(* receipts and any number of failures.                                    *)
(***************************************************************************)
EXTENDS ReceiptStore, FiniteSetTheorems, WellFoundedInduction, TLAPS

Busy(p) == proc[p].pc \notin {"idle", "down"}
InLock(p) == proc[p].pc \in {"read", "write", "cache"}
Indexed(r) == \E j \in DOMAIN index : index[j].receipt = r /\ index[j].kind = "line"

\* Who is inside the lock, and how far the receipt in hand has got.
Progress ==
  /\ \A p \in Procs : InLock(p) <=> lock = p
  /\ \A p \in Procs : Busy(p) => proc[p].job \in Receipts /\ files[proc[p].job] = "whole"
  /\ \A p \in Procs : Busy(p) /\ proc[p].pc # "index" => Indexed(proc[p].job)

LEMMA TypeInit == Init => StoreTypeOK
  BY StoreAssumption DEF Init, StoreTypeOK, Resting, NoCache, Steps, Fragment, ProcState

\* The state a failed write or a dead process leaves has the right types.
LEMMA AbandonTypes ==
  ASSUME StoreTypeOK, NEW p \in Procs, Abandon(p)
  PROVE  /\ proc' \in [Procs -> ProcState]
         /\ lock' \in Procs \cup {Nobody}
         /\ failures' \in Nat
<1>1. proc[p].cache \in [size : Nat, highest : Nat] /\ proc \in [Procs -> ProcState]
  BY DEF StoreTypeOK, ProcState
<1>2. /\ [Resting EXCEPT !.cache = proc[p].cache] \in ProcState
      /\ [Resting EXCEPT !.pc = "down"] \in ProcState
  BY <1>1 DEF Resting, NoCache, Steps, ProcState
<1>3. PICK x \in ProcState : proc' = [proc EXCEPT ![p] = x]
  BY <1>2 DEF Abandon
<1>4. lock' \in Procs \cup {Nobody} /\ failures' \in Nat
  BY DEF StoreTypeOK, Abandon
<1> QED
  BY <1>1, <1>3, <1>4

LEMMA AppendTypes ==
  ASSUME NEW f \in Seq(Fragment), NEW r \in Receipts, NEW n \in Nat, NEW k \in Fragments
  PROVE  /\ Appended(f, r, n, k) \in Seq(Fragment)
         /\ Len(Appended(f, r, n, k)) = Len(f) + 1
         /\ DOMAIN Appended(f, r, n, k) = DOMAIN f \cup {Len(f) + 1}
         /\ \A i \in DOMAIN f : Appended(f, r, n, k)[i] = f[i]
         /\ Appended(f, r, n, k)[Len(f) + 1] = [receipt |-> r, cursor |-> n, kind |-> k]
  BY DEF Appended, Fragment

\* An append leaves on the spool what could be read, or less, and its own record.
LEMMA ReadableGrows ==
  ASSUME NEW f \in Seq(Fragment), NEW r \in Receipts, NEW n \in Nat, NEW k \in Fragments
  PROVE  Readable(Appended(f, r, n, k)) \subseteq Readable(f) \cup {Len(f) + 1}
<1> DEFINE g == Appended(f, r, n, k)
<1>1. /\ DOMAIN g = DOMAIN f \cup {Len(f) + 1}
      /\ Len(g) = Len(f) + 1 /\ Len(f) \in Nat /\ DOMAIN f = 1 .. Len(f)
      /\ \A i \in DOMAIN f : g[i] = f[i]
  <2>1. Len(f) \in Nat /\ DOMAIN f = 1 .. Len(f)
    OBVIOUS
  <2>2. /\ Len(g) = Len(f) + 1 /\ DOMAIN g = DOMAIN f \cup {Len(f) + 1}
        /\ \A i \in DOMAIN f : g[i] = f[i]
    BY DEF Appended
  <2> QED BY <2>1, <2>2
<1> HIDE DEF g
<1>2. ASSUME NEW i \in DOMAIN f, Parses(g, i) PROVE Parses(f, i)
  BY <1>1, <1>2 DEF Parses
<1> QED
  BY <1>1, <1>2 DEF Readable, g

\* Every nonempty set of naturals has a least element.
LEMMA LeastNatural ==
  ASSUME NEW T \in SUBSET Nat, T # {}
  PROVE  \E m \in T : \A n \in T : m <= n
<1> DEFINE R == {ss \in Nat \X Nat : ss[1] < ss[2]}
<1>1. IsWellFoundedOn(R, Nat)
  BY NatLessThanWellFounded, Zenon DEF OpToRel
<1> HIDE DEF R
<1>2. \E m \in T : \A n \in T : ~(<<n, m>> \in R)
  BY <1>1, WFMin, Zenon
<1>3. ASSUME NEW m \in Nat, NEW n \in Nat, ~(<<n, m>> \in R) PROVE m <= n
  BY <1>3 DEF R
<1> QED
  BY <1>2, <1>3, Zenon

\* HighestIn is the highest cursor that parses, when the cursors of the file
\* are at most their positions.
LEMMA HighestInMax ==
  ASSUME NEW f \in Seq(Fragment), \A i \in DOMAIN f : f[i].cursor <= i
  PROVE  /\ HighestIn(f) \in Nat
         /\ HighestIn(f) <= Len(f)
         /\ \A i \in Readable(f) : f[i].cursor <= HighestIn(f)
<1> DEFINE C == {0} \cup {f[i].cursor : i \in Readable(f)}
           U == {m \in Nat : \A i \in Readable(f) : f[i].cursor <= m}
<1>1. /\ Readable(f) \subseteq DOMAIN f /\ DOMAIN f = 1 .. Len(f) /\ Len(f) \in Nat
      /\ \A i \in DOMAIN f : f[i].cursor \in Nat /\ f[i].cursor <= Len(f)
  <2>1. DOMAIN f = 1 .. Len(f) /\ Len(f) \in Nat /\ \A i \in DOMAIN f : f[i] \in Fragment
    OBVIOUS
  <2>2. \A i \in DOMAIN f : f[i].cursor \in Nat
    BY <2>1 DEF Fragment
  <2>3. Readable(f) \subseteq DOMAIN f
    BY DEF Readable
  <2> QED BY <2>1, <2>2, <2>3
<1>2. Len(f) \in U
  BY <1>1
<1>3. PICK m \in U : \A n \in U : m <= n
  <2> HIDE DEF U
  <2>1. U \in SUBSET Nat /\ U # {}
    BY <1>2 DEF U
  <2> QED BY <2>1, LeastNatural
<1>4. m \in C
  <2> SUFFICES ASSUME m \notin C PROVE FALSE
    OBVIOUS
  <2>1. m > 0 /\ m - 1 \in Nat
    BY <1>3
  <2>2. \A i \in Readable(f) : f[i].cursor <= m - 1
    BY <1>1, <1>3, <2>1
  <2> QED BY <1>3, <2>1, <2>2
<1>5. \E x \in C : \A i \in Readable(f) : f[i].cursor <= x
  BY <1>3, <1>4
<1>6. HighestIn(f) \in C /\ \A i \in Readable(f) : f[i].cursor <= HighestIn(f)
  BY <1>5, Zenon DEF HighestIn
<1> QED
  BY <1>1, <1>6

\* A step keeps the types.  CursorsBounded is what makes HighestIn a number.
CursorsBounded ==
  /\ \A i \in DOMAIN spool : spool[i].cursor <= i
  /\ \A p \in Procs : proc[p].cache.size <= Len(spool) /\ proc[p].cache.highest <= proc[p].cache.size
  /\ \A p \in Procs : proc[p].pc = "write" => proc[p].cursor \in 1 .. (Len(spool) + 1)
  /\ \A p \in Procs : proc[p].pc = "cache" => proc[p].cursor \in 1 .. Len(spool)

LEMMA ReadHighestType ==
  ASSUME StoreTypeOK, CursorsBounded, NEW p \in Procs
  PROVE  /\ ReadHighest(proc[p].cache) \in Nat
         /\ ReadHighest(proc[p].cache) <= Len(spool)
<1>1. HighestIn(spool) \in Nat /\ HighestIn(spool) <= Len(spool)
  BY HighestInMax DEF StoreTypeOK, CursorsBounded
<1>2. proc[p].cache.highest \in Nat /\ proc[p].cache.highest <= Len(spool)
  BY DEF StoreTypeOK, CursorsBounded, ProcState
<1>3. spool = <<>> => Len(spool) = 0
  OBVIOUS
<1> QED
  BY <1>1, <1>2, <1>3 DEF ReadHighest, StoreTypeOK

LEMMA SpoolTypes ==
  ASSUME StoreTypeOK, NEW r \in Receipts, NEW n \in Nat, n > 0, NEW k \in Fragments
  PROVE  /\ Appended(spool, r, n, k) \in Seq(Fragment)
         /\ \A i \in DOMAIN Appended(spool, r, n, k) : Appended(spool, r, n, k)[i].cursor > 0
<1>1. spool \in Seq(Fragment) /\ \A i \in DOMAIN spool : spool[i].cursor > 0
  BY DEF StoreTypeOK
<1>2. Appended(spool, r, n, k) \in Seq(Fragment)
  BY <1>1, AppendTypes, Zenon
<1>3. \A i \in DOMAIN Appended(spool, r, n, k) : Appended(spool, r, n, k)[i].cursor > 0
  BY <1>1 DEF Appended
<1> QED
  BY <1>2, <1>3

\* A process stays typed when its step, or its step and its job, change.
LEMMA ProcUpdated ==
  ASSUME StoreTypeOK, NEW p \in Procs, NEW s \in Steps, NEW r \in Receipts \cup {Nobody}
  PROVE  /\ [proc EXCEPT ![p].pc = s] \in [Procs -> ProcState]
         /\ [proc EXCEPT ![p].pc = s, ![p].job = r] \in [Procs -> ProcState]
<1> DEFINE x == [proc[p] EXCEPT !.pc = s]
           y == [proc[p] EXCEPT !.pc = s, !.job = r]
<1>1. proc \in [Procs -> ProcState]
  BY DEF StoreTypeOK
<1>2. proc[p] \in ProcState
  BY <1>1
<1>3. x \in ProcState /\ y \in ProcState
  BY <1>2, Zenon DEF ProcState
<1>4. /\ [proc EXCEPT ![p].pc = s] = [proc EXCEPT ![p] = x]
      /\ [proc EXCEPT ![p].pc = s, ![p].job = r] = [proc EXCEPT ![p] = y]
  BY <1>1, <1>2, Zenon DEF ProcState
<1> HIDE DEF x, y
<1> QED BY <1>1, <1>3, <1>4

LEMMA TypeStep ==
  ASSUME StoreTypeOK, Progress, CursorsBounded, [Next]_storeVars
  PROVE  StoreTypeOK'
<1>1. ASSUME NEW p \in Procs, NEW r \in Receipts, Create(p, r) PROVE StoreTypeOK'
  <2>1. proc' \in [Procs -> ProcState]
    BY <1>1, ProcUpdated, Zenon DEF Create, Steps
  <2> QED BY <1>1, <2>1 DEF Create, StoreTypeOK
<1>2. ASSUME NEW p \in Procs, AppendIndex(p) PROVE StoreTypeOK'
  <2>1. proc[p].job \in Receipts
    BY <1>2 DEF AppendIndex, Progress, Busy
  <2>2. index' \in Seq(Fragment)
    BY <1>2, <2>1, AppendTypes, Zenon DEF AppendIndex, StoreTypeOK, Fragments
  <2>3. proc' \in [Procs -> ProcState]
    BY <1>2, ProcUpdated, Zenon DEF AppendIndex, Steps
  <2> QED BY <1>2, <2>2, <2>3 DEF AppendIndex, StoreTypeOK
<1>3. ASSUME NEW p \in Procs, NotConfigured(p) PROVE StoreTypeOK'
  <2>1. proc' \in [Procs -> ProcState]
    BY <1>3, ProcUpdated, Zenon DEF NotConfigured, Steps
  <2> QED BY <1>3, <2>1 DEF NotConfigured, StoreTypeOK
<1>4. ASSUME NEW p \in Procs, EnterLock(p) PROVE StoreTypeOK'
  <2>1. proc' \in [Procs -> ProcState]
    BY <1>4, ProcUpdated, Zenon DEF EnterLock, Steps
  <2> QED BY <1>4, <2>1 DEF EnterLock, StoreTypeOK
<1>5. ASSUME NEW p \in Procs, ReadCursor(p) PROVE StoreTypeOK'
  <2>1. NextCursor(proc[p].cache) \in Nat /\ Len(spool) \in Nat /\ ReadHighest(proc[p].cache) \in Nat
    BY ReadHighestType DEF NextCursor, StoreTypeOK
  <2>2. proc' \in [Procs -> ProcState]
    <3> DEFINE c == [size |-> Len(spool), highest |-> ReadHighest(proc[p].cache)]
    <3>1. c \in [size : Nat, highest : Nat]
      BY <2>1
    <3>2. proc \in [Procs -> ProcState]
      BY DEF StoreTypeOK
    <3>3. proc' = [proc EXCEPT ![p] = [proc[p] EXCEPT !.pc = "write",
                     !.cursor = NextCursor(proc[p].cache), !.cache = c]]
      BY <1>5, <3>2, Zenon DEF ReadCursor, ProcState
    <3> HIDE DEF c
    <3>4. [proc[p] EXCEPT !.pc = "write", !.cursor = NextCursor(proc[p].cache), !.cache = c]
            \in ProcState
      BY <2>1, <3>1, <3>2, Zenon DEF ProcState, Steps
    <3> QED BY <3>2, <3>3, <3>4
  <2> QED BY <1>5, <2>2 DEF ReadCursor, StoreTypeOK
<1>6. ASSUME NEW p \in Procs, AppendSpool(p) PROVE StoreTypeOK'
  <2>1. proc[p].job \in Receipts /\ proc[p].cursor \in Nat /\ proc[p].cursor > 0
    BY <1>6 DEF AppendSpool, Progress, Busy, CursorsBounded, StoreTypeOK, ProcState
  <2>2. /\ spool' \in Seq(Fragment)
        /\ \A i \in DOMAIN spool' : spool'[i].cursor > 0
    BY <1>6, <2>1, SpoolTypes DEF AppendSpool, Fragments
  <2>3. proc' \in [Procs -> ProcState]
    BY <1>6, ProcUpdated, Zenon DEF AppendSpool, Steps
  <2> QED BY <1>6, <2>2, <2>3 DEF AppendSpool, StoreTypeOK
<1>7. ASSUME NEW p \in Procs, CacheAndReturn(p) PROVE StoreTypeOK'
  <2>1. proc[p].job \in Receipts /\ proc[p].cursor \in Nat /\ Len(spool) \in Nat
    BY <1>7 DEF CacheAndReturn, Progress, Busy, StoreTypeOK, ProcState
  <2>2. proc' \in [Procs -> ProcState]
    <3> DEFINE c == [size |-> Len(spool), highest |-> proc[p].cursor]
    <3>1. c \in [size : Nat, highest : Nat]
      BY <2>1
    <3>2. proc \in [Procs -> ProcState]
      BY DEF StoreTypeOK
    <3>3. proc' = [proc EXCEPT ![p] = [proc[p] EXCEPT !.pc = "idle", !.job = Nobody,
                     !.cursor = 0, !.cache = c]]
      BY <1>7, <3>2, Zenon DEF CacheAndReturn, ProcState
    <3> HIDE DEF c
    <3>4. [proc[p] EXCEPT !.pc = "idle", !.job = Nobody, !.cursor = 0, !.cache = c]
            \in ProcState
      BY <3>1, <3>2, Zenon DEF ProcState, Steps
    <3> QED BY <3>2, <3>3, <3>4
  <2>3. returned' \subseteq [receipt : Receipts, cursor : Nat]
    BY <1>7, <2>1 DEF CacheAndReturn, StoreTypeOK
  <2> QED BY <1>7, <2>2, <2>3 DEF CacheAndReturn, StoreTypeOK
<1>8. ASSUME NEW p \in Procs, NEW r \in Receipts, CreateCutShort(p, r) PROVE StoreTypeOK'
  BY <1>8, AbandonTypes DEF CreateCutShort, StoreTypeOK, Abandon
<1>9. ASSUME NEW p \in Procs, NEW k \in {"bare", "torn"}, IndexCutShort(p, k) PROVE StoreTypeOK'
  <2>1. proc[p].job \in Receipts
    BY <1>9 DEF IndexCutShort, Progress, Busy
  <2>2. index' \in Seq(Fragment)
    BY <1>9, <2>1, AppendTypes, Zenon DEF IndexCutShort, StoreTypeOK, Fragments
  <2> QED BY <1>9, <2>2, AbandonTypes DEF IndexCutShort, StoreTypeOK, Abandon
<1>10. ASSUME NEW p \in Procs, NEW k \in {"bare", "torn"}, SpoolCutShort(p, k) PROVE StoreTypeOK'
  <2>1. proc[p].job \in Receipts /\ proc[p].cursor \in Nat /\ proc[p].cursor > 0
    <3>1. proc[p].pc = "write"
      BY <1>10 DEF SpoolCutShort
    <3>2. proc[p].job \in Receipts
      BY <3>1 DEF Progress, Busy
    <3>3. proc[p].cursor \in 1 .. (Len(spool) + 1) /\ Len(spool) \in Nat
      BY <3>1 DEF CursorsBounded, StoreTypeOK
    <3> QED BY <3>2, <3>3
  <2>2. /\ spool' \in Seq(Fragment)
        /\ \A i \in DOMAIN spool' : spool'[i].cursor > 0
    BY <1>10, <2>1, SpoolTypes, SMTT(20) DEF SpoolCutShort, Fragments
  <2>3. /\ UNCHANGED <<files, index, returned>> /\ tears' = tears + 1 /\ Abandon(p)
    BY <1>10 DEF SpoolCutShort, Abandon
  <2>4. /\ proc' \in [Procs -> ProcState]
        /\ lock' \in Procs \cup {Nobody}
        /\ failures' \in Nat
    BY <2>3, AbandonTypes
  <2> QED BY <2>2, <2>3, <2>4 DEF StoreTypeOK
<1>11. ASSUME NEW p \in Procs, Interrupted(p) PROVE StoreTypeOK'
  BY <1>11, AbandonTypes DEF Interrupted, StoreTypeOK, Abandon
<1>12. ASSUME NEW p \in Procs, Restart(p) PROVE StoreTypeOK'
  <2>1. proc' \in [Procs -> ProcState]
    BY <1>12, ProcUpdated, Zenon DEF Restart, Steps
  <2> QED BY <1>12, <2>1 DEF Restart, StoreTypeOK
<1>13. CASE UNCHANGED storeVars
  BY <1>13 DEF storeVars, StoreTypeOK
<1> QED
  BY <1>1, <1>2, <1>3, <1>4, <1>5, <1>6, <1>7, <1>8, <1>9, <1>10, <1>11, <1>12, <1>13 DEF Next

\* After Abandon a process is idle or down, outside the lock, with the cache it
\* had or with none; the others are where they were.
LEMMA AbandonEffect ==
  ASSUME StoreTypeOK, NEW p \in Procs, Abandon(p)
  PROVE  /\ \A q \in Procs \ {p} : proc'[q] = proc[q]
         /\ proc'[p].pc \in {"idle", "down"}
         /\ proc'[p].cache \in {proc[p].cache, NoCache}
         /\ lock' = IF lock = p THEN Nobody ELSE lock
  BY DEF StoreTypeOK, Abandon, Resting

\* Entries of the index stay.
LEMMA IndexKept ==
  ASSUME StoreTypeOK, NEW r \in Receipts, Indexed(r),
         \/ index' = index
         \/ \E s \in Receipts, k \in Fragments : index' = Appended(index, s, 0, k)
  PROVE  Indexed(r)'
<1>1. PICK j \in DOMAIN index : index[j].receipt = r /\ index[j].kind = "line"
  BY DEF Indexed
<1>2. j \in DOMAIN index' /\ index'[j] = index[j]
  <2>1. index \in Seq(Fragment)
    BY DEF StoreTypeOK
  <2>2. ASSUME NEW s \in Receipts, NEW k \in Fragments, index' = Appended(index, s, 0, k)
        PROVE  j \in DOMAIN index' /\ index'[j] = index[j]
    BY <1>1, <2>1, <2>2 DEF Appended
  <2> QED BY <1>1, <2>2
<1> QED
  BY <1>1, <1>2 DEF Indexed

LEMMA ProgressInit == Init => Progress
  BY StoreAssumption DEF Init, Progress, Busy, InLock, Resting

LEMMA ProgressStep ==
  ASSUME StoreTypeOK, Progress, [Next]_storeVars
  PROVE  Progress'
<1> USE StoreAssumption
<1>1. ASSUME NEW p \in Procs, NEW r \in Receipts, Create(p, r) PROVE Progress'
  BY <1>1, SMTT(20) DEF Create, Creatable, StoreTypeOK, ProcState, Progress, Busy, InLock, Indexed
<1>2. ASSUME NEW p \in Procs, AppendIndex(p) PROVE Progress'
  <2>1. proc[p].job \in Receipts /\ proc[p].pc = "index"
    BY <1>2 DEF AppendIndex, Progress, Busy
  <2>2. \A r \in Receipts : Indexed(r) => Indexed(r)'
    BY <1>2, <2>1, IndexKept DEF AppendIndex, Fragments
  <2>3. Indexed(proc[p].job)'
    <3>1. index \in Seq(Fragment)
      BY DEF StoreTypeOK
    <3>2. index' = Append(index, [receipt |-> proc[p].job, cursor |-> 0, kind |-> "line"])
      BY <1>2 DEF AppendIndex, Appended
    <3>3. proc'[p].job = proc[p].job
      BY <1>2 DEF AppendIndex, StoreTypeOK, ProcState
    <3> QED BY <3>1, <3>2, <3>3 DEF Indexed
  <2>4. /\ \A q \in Procs \ {p} : proc'[q] = proc[q]
        /\ proc'[p].pc = "spool" /\ proc'[p].job = proc[p].job
        /\ UNCHANGED <<files, lock>>
    BY <1>2 DEF AppendIndex, StoreTypeOK, ProcState
  <2> QED BY <2>1, <2>2, <2>3, <2>4 DEF Progress, Busy, InLock
<1>3. ASSUME NEW p \in Procs, NotConfigured(p) PROVE Progress'
  BY <1>3, SMTT(20) DEF NotConfigured, StoreTypeOK, ProcState, Progress, Busy, InLock, Indexed
<1>4. ASSUME NEW p \in Procs, EnterLock(p) PROVE Progress'
  BY <1>4 DEF EnterLock, StoreTypeOK, ProcState, Progress, Busy, InLock, Indexed
<1>5. ASSUME NEW p \in Procs, ReadCursor(p) PROVE Progress'
  BY <1>5, SMTT(20) DEF ReadCursor, StoreTypeOK, ProcState, Progress, Busy, InLock, Indexed
<1>6. ASSUME NEW p \in Procs, AppendSpool(p) PROVE Progress'
  BY <1>6 DEF AppendSpool, StoreTypeOK, ProcState, Progress, Busy, InLock, Indexed
<1>7. ASSUME NEW p \in Procs, CacheAndReturn(p) PROVE Progress'
  BY <1>7 DEF CacheAndReturn, StoreTypeOK, ProcState, Progress, Busy, InLock, Indexed
<1>8. ASSUME NEW p \in Procs, NEW r \in Receipts, CreateCutShort(p, r) PROVE Progress'
  <2>1. /\ index' = index /\ Abandon(p)
        /\ files[r] = "absent" /\ \A s \in Receipts \ {r} : files'[s] = files[s]
    BY <1>8 DEF CreateCutShort, Creatable, StoreTypeOK
  <2> QED BY <2>1, AbandonEffect DEF Progress, Busy, InLock, Indexed
<1>9. ASSUME NEW p \in Procs, NEW k \in {"bare", "torn"}, IndexCutShort(p, k) PROVE Progress'
  <2>1. proc[p].job \in Receipts
    BY <1>9 DEF IndexCutShort, Progress, Busy
  <2>2. \A r \in Receipts : Indexed(r) => Indexed(r)'
    BY <1>9, <2>1, IndexKept DEF IndexCutShort, Fragments
  <2> QED BY <1>9, <2>2, AbandonEffect DEF IndexCutShort, Progress, Busy, InLock
<1>10. ASSUME NEW p \in Procs, NEW k \in {"bare", "torn"}, SpoolCutShort(p, k) PROVE Progress'
  <2>1. UNCHANGED <<files, index>> /\ Abandon(p)
    BY <1>10 DEF SpoolCutShort
  <2> QED BY <2>1, AbandonEffect DEF Progress, Busy, InLock, Indexed
<1>11. ASSUME NEW p \in Procs, Interrupted(p) PROVE Progress'
  BY <1>11, AbandonEffect DEF Interrupted, Progress, Busy, InLock, Indexed
<1>12. ASSUME NEW p \in Procs, Restart(p) PROVE Progress'
  BY <1>12 DEF Restart, StoreTypeOK, ProcState, Progress, Busy, InLock, Indexed
<1>13. CASE UNCHANGED storeVars
  BY <1>13 DEF storeVars, Progress, Busy, InLock, Indexed
<1> QED
  BY <1>1, <1>2, <1>3, <1>4, <1>5, <1>6, <1>7, <1>8, <1>9, <1>10, <1>11, <1>12, <1>13 DEF Next

(***************************************************************************)
(* Cursors: whoever is about to write holds a cursor above every readable  *)
(* one, and a cache that matches the file's size is not below any.         *)
(***************************************************************************)
Ahead(q) ==
  /\ proc[q].pc = "write" => \A i \in Readable(spool) : spool[i].cursor < proc[q].cursor
  /\ proc[q].pc = "cache" => \A i \in Readable(spool) : spool[i].cursor <= proc[q].cursor
  /\ proc[q].cache.size = Len(spool) /\ spool # <<>> =>
       \A i \in Readable(spool) : spool[i].cursor <= proc[q].cache.highest

CursorInv == CursorsBounded /\ CursorsIncrease /\ \A q \in Procs : Ahead(q)

LEMMA CursorInit == Init => CursorInv
  BY DEF Init, CursorInv, CursorsBounded, CursorsIncrease, Ahead, Readable, Resting, NoCache

LEMMA ReadableCursors ==
  ASSUME StoreTypeOK
  PROVE  \A i \in Readable(spool) : i \in DOMAIN spool /\ spool[i].cursor \in Nat
<1>1. spool \in Seq(Fragment)
  BY DEF StoreTypeOK
<1>2. \A i \in DOMAIN spool : spool[i] \in Fragment
  BY <1>1
<1>3. \A i \in DOMAIN spool : spool[i].cursor \in Nat
  BY <1>2 DEF Fragment
<1> QED
  BY <1>3 DEF Readable

\* A cache is never larger than the spool it was computed from.
LEMMA CachesBounded ==
  ASSUME StoreTypeOK, CursorInv, NEW p \in Procs,
         \A q \in Procs \ {p} : proc'[q] = proc[q],
         proc'[p].cache \in {proc[p].cache, NoCache}
  PROVE  \A q \in Procs : /\ proc'[q].cache.size \in Nat
                          /\ proc'[q].cache.size <= Len(spool)
                          /\ proc'[q].cache.highest <= proc'[q].cache.size
<1>1. Len(spool) \in Nat
  BY DEF StoreTypeOK
<1>2. \A q \in Procs : /\ proc[q].cache.size \in Nat
                       /\ proc[q].cache.size <= Len(spool)
                       /\ proc[q].cache.highest <= proc[q].cache.size
  BY DEF StoreTypeOK, ProcState, CursorInv, CursorsBounded
<1>3. NoCache.size = 0 /\ NoCache.highest = 0
  BY DEF NoCache
<1> QED
  BY <1>1, <1>2, <1>3

\* A step that leaves the spool alone keeps CursorInv if what it changed of one
\* process is in order.
LEMMA CursorKept ==
  ASSUME StoreTypeOK, CursorInv, spool' = spool, NEW p \in Procs,
         \A q \in Procs \ {p} : proc'[q] = proc[q],
         proc'[p].pc \notin {"write", "cache"},
         proc'[p].cache \in {proc[p].cache, NoCache}
  PROVE  CursorInv'
<1>1. spool = <<>> \/ Len(spool) > 0
  BY DEF StoreTypeOK
<1>2. CursorsBounded'
  BY CachesBounded DEF CursorInv, CursorsBounded
<1>3. \A q \in Procs : Ahead(q)'
  BY <1>1 DEF CursorInv, Ahead, NoCache, Readable, StoreTypeOK
<1> QED
  BY <1>2, <1>3 DEF CursorInv, CursorsIncrease, Readable

\* Nobody but the holder of the lock is about to write.
LEMMA OneWriter ==
  ASSUME Progress, NEW p \in Procs, InLock(p), NEW q \in Procs \ {p}
  PROVE  proc[q].pc \notin {"read", "write", "cache"}
  BY DEF Progress, InLock

LEMMA CursorReadStep ==
  ASSUME StoreTypeOK, Progress, CursorInv, NEW p \in Procs, ReadCursor(p)
  PROVE  CursorInv'
<1> DEFINE h == ReadHighest(proc[p].cache)
<1>1. /\ \A q \in Procs \ {p} : proc'[q] = proc[q]
      /\ proc'[p].pc = "write" /\ proc'[p].cursor = h + 1
      /\ proc'[p].cache.size = Len(spool) /\ proc'[p].cache.highest = h
      /\ spool' = spool
  BY DEF ReadCursor, NextCursor, StoreTypeOK, ProcState
<1>2. h \in Nat /\ h <= Len(spool) /\ Len(spool) \in Nat
  BY ReadHighestType DEF CursorInv, StoreTypeOK
<1>3. \A i \in Readable(spool) : spool[i].cursor \in Nat /\ spool[i].cursor <= h
  <2>1. spool \in Seq(Fragment) /\ \A i \in DOMAIN spool : spool[i].cursor <= i
    BY DEF StoreTypeOK, CursorInv, CursorsBounded
  <2>2. \A i \in Readable(spool) : i \in DOMAIN spool /\ spool[i].cursor \in Nat
    BY ReadableCursors
  <2>3. \A i \in Readable(spool) : spool[i].cursor <= HighestIn(spool)
    BY <2>1, HighestInMax
  <2> QED BY <2>2, <2>3 DEF ReadHighest, CursorInv, Ahead
<1> HIDE DEF h
<1>4. CursorsBounded'
  BY <1>1, <1>2 DEF CursorInv, CursorsBounded
<1>5. \A q \in Procs : Ahead(q)'
  BY <1>1, <1>2, <1>3 DEF CursorInv, Ahead
<1> QED
  BY <1>1, <1>4, <1>5 DEF CursorInv, CursorsIncrease

LEMMA CursorReturnStep ==
  ASSUME StoreTypeOK, CursorInv, NEW p \in Procs, CacheAndReturn(p)
  PROVE  CursorInv'
<1>1. /\ \A q \in Procs \ {p} : proc'[q] = proc[q]
      /\ proc'[p].pc = "idle" /\ spool' = spool
      /\ proc'[p].cache.size = Len(spool) /\ proc'[p].cache.highest = proc[p].cursor
      /\ proc[p].pc = "cache" /\ Len(spool) \in Nat
  BY DEF CacheAndReturn, StoreTypeOK, ProcState
<1>2. CursorsBounded'
  BY <1>1 DEF CursorInv, CursorsBounded
<1>3. \A q \in Procs : Ahead(q)'
  BY <1>1 DEF CursorInv, Ahead
<1> QED
  BY <1>1, <1>2, <1>3 DEF CursorInv, CursorsIncrease

\* A write to the spool, whole or cut short, by the process that read the
\* highest cursor under the lock it still holds.
LEMMA CursorWriteStep ==
  ASSUME StoreTypeOK, Progress, CursorInv, NEW p \in Procs, proc[p].pc = "write",
         NEW k \in Fragments,
         spool' = Appended(spool, proc[p].job, proc[p].cursor, k),
         \A q \in Procs \ {p} : proc'[q] = proc[q],
         proc'[p].cache \in {proc[p].cache, NoCache},
         \/ proc'[p].pc \in {"idle", "down"}
         \/ proc'[p].pc = "cache" /\ proc'[p].cursor = proc[p].cursor
  PROVE  CursorInv'
<1> DEFINE n == Len(spool)
           c == proc[p].cursor
<1>1. /\ proc[p].job \in Receipts /\ c \in Nat /\ c \in 1 .. (n + 1) /\ n \in Nat
      /\ spool \in Seq(Fragment) /\ InLock(p)
  BY DEF StoreTypeOK, ProcState, Progress, Busy, InLock, CursorInv, CursorsBounded
<1>2. /\ Len(spool') = n + 1 /\ DOMAIN spool' = DOMAIN spool \cup {n + 1}
      /\ DOMAIN spool = 1 .. n
      /\ \A i \in DOMAIN spool : spool'[i] = spool[i]
      /\ spool'[n + 1].cursor = c
  BY <1>1 DEF Appended
<1>3. Readable(spool') \subseteq Readable(spool) \cup {n + 1}
  BY <1>1, ReadableGrows
<1>4. \A i \in Readable(spool) : i \in 1 .. n /\ spool'[i].cursor \in Nat /\ spool'[i].cursor < c
  <2>1. \A i \in Readable(spool) : i \in DOMAIN spool /\ spool[i].cursor \in Nat
    BY ReadableCursors
  <2>2. \A i \in Readable(spool) : spool[i].cursor < c
    BY DEF CursorInv, Ahead
  <2> QED BY <1>2, <2>1, <2>2
<1>5. \A q \in Procs \ {p} : proc[q].pc \notin {"read", "write", "cache"}
  BY <1>1, OneWriter
<1>6. \A q \in Procs : proc'[q].cache.size <= n /\ proc'[q].cache.highest <= proc'[q].cache.size
                       /\ proc'[q].cache.size \in Nat
  BY CachesBounded
<1> HIDE DEF n, c
<1>7. CursorsBounded'
  <2>1. \A i \in DOMAIN spool' : spool'[i].cursor <= i
    <3>1. \A i \in DOMAIN spool : spool[i].cursor <= i
      BY DEF CursorInv, CursorsBounded
    <3> QED BY <1>1, <1>2, <3>1
  <2>2. \A q \in Procs : proc'[q].pc = "cache" => q = p
    BY <1>5
  <2>3. \A q \in Procs : proc'[q].pc # "write"
    BY <1>5
  <2>4. \A q \in Procs : proc'[q].pc = "cache" => proc'[q].cursor \in 1 .. (n + 1)
    <3>1. proc'[p].pc = "cache" => proc'[p].cursor = c
      BY DEF c
    <3> QED BY <1>1, <2>2, <3>1
  <2>5. \A q \in Procs : proc'[q].cache.size <= n + 1
    BY <1>1, <1>6
  <2> QED BY <1>2, <1>6, <2>1, <2>3, <2>4, <2>5, SMTT(20) DEF CursorsBounded
<1>8. CursorsIncrease'
  <2>1. \A i, j \in Readable(spool) : i < j => spool'[i].cursor < spool'[j].cursor
    BY <1>2 DEF CursorInv, CursorsIncrease, Readable
  <2>2. CursorsIncrease' <=>
          \A i, j \in Readable(spool') : i < j => spool'[i].cursor < spool'[j].cursor
    BY DEF CursorsIncrease, Readable, Parses
  <2>3. ASSUME NEW i \in Readable(spool'), NEW j \in Readable(spool'), i < j
        PROVE  spool'[i].cursor < spool'[j].cursor
    <3>1. i \in Readable(spool)
      <4>1. i = n + 1 => j = n + 1 \/ j \in 1 .. n
        BY <1>3, <1>4
      <4> QED BY <1>1, <1>3, <2>3, <4>1
    <3>2. CASE j \in Readable(spool)
      BY <2>1, <2>3, <3>1, <3>2
    <3>3. CASE j = n + 1
      BY <1>2, <1>4, <3>1, <3>3, Zenon
    <3> QED BY <1>3, <3>2, <3>3
  <2> QED BY <2>2, <2>3
<1>9. \A q \in Procs : Ahead(q)'
  <2>1. ASSUME NEW q \in Procs PROVE proc'[q].pc # "write"
    BY <1>5
  <2>2. ASSUME NEW q \in Procs, proc'[q].pc = "cache", NEW i \in Readable(spool')
        PROVE  spool'[i].cursor <= proc'[q].cursor
    <3>1. q = p /\ proc'[q].cursor = c
      BY <1>5, <2>2 DEF c
    <3>2. CASE i = n + 1
      BY <1>1, <1>2, <3>1, <3>2
    <3>3. CASE i \in Readable(spool)
      BY <1>1, <1>4, <3>1, <3>3
    <3> QED BY <1>3, <3>2, <3>3
  <2>3. ASSUME NEW q \in Procs PROVE proc'[q].cache.size # Len(spool')
    BY <1>1, <1>2, <1>6
  <2> QED BY <2>1, <2>2, <2>3 DEF Ahead, Readable, Parses
<1> QED
  BY <1>7, <1>8, <1>9, SMTT(20) DEF CursorInv

LEMMA CursorStep ==
  ASSUME StoreTypeOK, Progress, CursorInv, [Next]_storeVars
  PROVE  CursorInv'
<1>1. ASSUME NEW p \in Procs, NEW r \in Receipts, Create(p, r) PROVE CursorInv'
  BY <1>1, CursorKept, Zenon DEF Create, StoreTypeOK, ProcState
<1>2. ASSUME NEW p \in Procs, AppendIndex(p) PROVE CursorInv'
  BY <1>2, CursorKept DEF AppendIndex, StoreTypeOK, ProcState
<1>3. ASSUME NEW p \in Procs, NotConfigured(p) PROVE CursorInv'
  BY <1>3, CursorKept, Zenon DEF NotConfigured, StoreTypeOK, ProcState
<1>4. ASSUME NEW p \in Procs, EnterLock(p) PROVE CursorInv'
  BY <1>4, CursorKept DEF EnterLock, StoreTypeOK, ProcState
<1>5. ASSUME NEW p \in Procs, AppendSpool(p) PROVE CursorInv'
  <2>1. /\ \A q \in Procs \ {p} : proc'[q] = proc[q]
        /\ proc[p].pc = "write" /\ proc'[p].pc = "cache"
        /\ proc'[p].cursor = proc[p].cursor /\ proc'[p].cache = proc[p].cache
        /\ spool' = Appended(spool, proc[p].job, proc[p].cursor, "line")
        /\ "line" \in Fragments
    BY <1>5 DEF AppendSpool, StoreTypeOK, ProcState, Fragments
  <2> QED BY <2>1, CursorWriteStep
<1>6. ASSUME NEW p \in Procs, NEW r \in Receipts, CreateCutShort(p, r) PROVE CursorInv'
  BY <1>6, AbandonEffect, CursorKept DEF CreateCutShort
<1>7. ASSUME NEW p \in Procs, NEW k \in {"bare", "torn"}, IndexCutShort(p, k) PROVE CursorInv'
  BY <1>7, AbandonEffect, CursorKept DEF IndexCutShort
<1>8. ASSUME NEW p \in Procs, NEW k \in {"bare", "torn"}, SpoolCutShort(p, k) PROVE CursorInv'
  <2>1. /\ proc[p].pc = "write" /\ Abandon(p) /\ k \in Fragments
        /\ spool' = Appended(spool, proc[p].job, proc[p].cursor, k)
    BY <1>8 DEF SpoolCutShort, Fragments
  <2> QED BY <2>1, AbandonEffect, CursorWriteStep
<1>9. ASSUME NEW p \in Procs, Interrupted(p) PROVE CursorInv'
  BY <1>9, AbandonEffect, CursorKept DEF Interrupted
<1>10. ASSUME NEW p \in Procs, Restart(p) PROVE CursorInv'
  BY <1>10, CursorKept, SMTT(20) DEF Restart, StoreTypeOK, ProcState
<1>11. CASE UNCHANGED storeVars
  BY <1>11 DEF storeVars, CursorInv, CursorsBounded, CursorsIncrease, Ahead, Readable, Parses
<1> QED
  BY <1>1, <1>2, <1>3, <1>4, <1>5, <1>6, <1>7, <1>8, <1>9, <1>10, <1>11,
     CursorReadStep, CursorReturnStep DEF Next

(***************************************************************************)
(* One record per receipt: a receipt in hand is in no other hand, and not  *)
(* in the spool until it is written there.                                 *)
(***************************************************************************)
OnceInv ==
  /\ SpooledOnce
  /\ \A i \in DOMAIN spool : files[spool[i].receipt] = "whole" /\ Indexed(spool[i].receipt)
  /\ \A p \in Procs : Busy(p) /\ proc[p].pc # "cache" =>
       \A i \in DOMAIN spool : spool[i].receipt # proc[p].job
  /\ \A p, q \in Procs : Busy(p) /\ Busy(q) /\ p # q => proc[p].job # proc[q].job

LEMMA OnceInit == Init => OnceInv
  BY DEF Init, OnceInv, SpooledOnce, Busy, Resting

LEMMA SpoolReceipts ==
  ASSUME StoreTypeOK
  PROVE  \A i \in DOMAIN spool : spool[i].receipt \in Receipts
<1>1. \A i \in DOMAIN spool : spool[i] \in Fragment
  BY SMTT(20) DEF StoreTypeOK
<1> QED
  BY <1>1 DEF Fragment

\* Steps that write nothing to the spool and take up no new receipt.
LEMMA OnceKept ==
  ASSUME StoreTypeOK, OnceInv, UNCHANGED spool, NEW p \in Procs,
         \A r \in Receipts : files[r] = "whole" => files'[r] = "whole",
         \A r \in Receipts : Indexed(r) => Indexed(r)',
         \A q \in Procs \ {p} : proc'[q] = proc[q],
         \/ proc'[p].pc \in {"idle", "down"}
         \/ Busy(p) /\ proc[p].pc # "cache" /\ proc'[p].job = proc[p].job
  PROVE  OnceInv'
<1>1. SpooledOnce'
  BY DEF OnceInv, SpooledOnce
<1>2. (\A i \in DOMAIN spool : files[spool[i].receipt] = "whole" /\ Indexed(spool[i].receipt))'
  BY SpoolReceipts DEF OnceInv
<1>3. \A q \in Procs : Busy(q)' =>
        /\ Busy(q) /\ proc'[q].job = proc[q].job
        /\ proc'[q].pc # "cache" => proc[q].pc # "cache"
  BY DEF Busy
<1>4. (\A q \in Procs : Busy(q) /\ proc[q].pc # "cache" =>
         \A i \in DOMAIN spool : spool[i].receipt # proc[q].job)'
  BY <1>3 DEF OnceInv
<1>5. (\A q, s \in Procs : Busy(q) /\ Busy(s) /\ q # s => proc[q].job # proc[s].job)'
  BY <1>3, SMTT(20) DEF OnceInv
<1> QED
  BY <1>1, <1>2, <1>4, <1>5 DEF OnceInv

\* A write to the spool, after which the receipt is no longer to be written.
LEMMA OnceWritten ==
  ASSUME StoreTypeOK, Progress, OnceInv, NEW p \in Procs, proc[p].pc = "write",
         NEW k \in Fragments,
         spool' = Appended(spool, proc[p].job, proc[p].cursor, k),
         files' = files, index' = index,
         \A q \in Procs \ {p} : proc'[q] = proc[q],
         \/ proc'[p].pc \in {"idle", "down"}
         \/ proc'[p].pc = "cache" /\ proc'[p].job = proc[p].job
  PROVE  OnceInv'
<1>1. /\ proc[p].job \in Receipts /\ Busy(p) /\ files[proc[p].job] = "whole"
      /\ Indexed(proc[p].job) /\ spool \in Seq(Fragment) /\ Len(spool) \in Nat
  BY DEF StoreTypeOK, Progress, Busy
<1>2. /\ DOMAIN spool' = DOMAIN spool \cup {Len(spool) + 1}
      /\ \A i \in DOMAIN spool : spool'[i] = spool[i]
      /\ spool'[Len(spool) + 1].receipt = proc[p].job
  BY <1>1 DEF Appended
<1>3. \A i \in DOMAIN spool : spool[i].receipt # proc[p].job
  BY <1>1 DEF OnceInv
<1>4. SpooledOnce'
  <2>1. \A i, j \in DOMAIN spool : spool[i].receipt = spool[j].receipt => i = j
    BY DEF OnceInv, SpooledOnce
  <2>2. ASSUME NEW i \in DOMAIN spool', NEW j \in DOMAIN spool',
               spool'[i].receipt = spool'[j].receipt
        PROVE  i = j
    BY <1>2, <1>3, <2>1, <2>2, SMTT(20)
  <2> QED BY <2>2 DEF SpooledOnce
<1>6. (\A i \in DOMAIN spool : files[spool[i].receipt] = "whole" /\ Indexed(spool[i].receipt))'
  <2>1. \A i \in DOMAIN spool : files[spool[i].receipt] = "whole" /\ Indexed(spool[i].receipt)
    BY DEF OnceInv
  <2> QED BY <1>1, <1>2, <2>1 DEF Indexed
<1>7. \A q \in Procs : (Busy(q) /\ proc[q].pc # "cache")' =>
        \A i \in DOMAIN spool' : spool'[i].receipt # proc'[q].job
  <2>1. SUFFICES ASSUME NEW q \in Procs, (Busy(q) /\ proc[q].pc # "cache")',
                        NEW i \in DOMAIN spool'
                 PROVE  spool'[i].receipt # proc'[q].job
    OBVIOUS
  <2>2. q # p /\ proc'[q] = proc[q] /\ Busy(q) /\ proc[q].pc # "cache"
    BY <2>1 DEF Busy
  <2>3. proc[q].job # proc[p].job
    BY <1>1, <2>2 DEF OnceInv
  <2>4. \A j \in DOMAIN spool : spool[j].receipt # proc[q].job
    BY <2>2 DEF OnceInv
  <2> QED BY <1>2, <2>1, <2>2, <2>3, <2>4
<1>8. \A q, s \in Procs : Busy(q)' /\ Busy(s)' /\ q # s => proc'[q].job # proc'[s].job
  BY <1>1 DEF OnceInv, Busy
<1> QED
  BY <1>4, <1>6, <1>7, <1>8 DEF OnceInv

LEMMA OnceStep ==
  ASSUME StoreTypeOK, Progress, OnceInv, [Next]_storeVars
  PROVE  OnceInv'
<1>0. \A p \in Procs : Busy(p) => proc[p].job \in Receipts
  BY DEF Progress
<1>1. ASSUME NEW p \in Procs, NEW r \in Receipts, Create(p, r) PROVE OnceInv'
  <2>1. /\ files[r] = "absent" /\ files'[r] = "whole"
        /\ \A s \in Receipts \ {r} : files'[s] = files[s]
        /\ \A q \in Procs \ {p} : proc'[q] = proc[q]
        /\ proc'[p].pc = "index" /\ proc'[p].job = r
        /\ UNCHANGED <<index, spool>>
    BY <1>1 DEF Create, Creatable, StoreTypeOK, ProcState
  <2>2. \A i \in DOMAIN spool : spool[i].receipt # r
    BY <2>1 DEF OnceInv
  <2>3. \A q \in Procs : Busy(q) => proc[q].job # r
    BY <2>1 DEF Progress
  <2> QED BY <2>1, <2>2, <2>3, SpoolReceipts DEF OnceInv, SpooledOnce, Busy, Indexed
<1>2. ASSUME NEW p \in Procs, AppendIndex(p) PROVE OnceInv'
  <2>1. /\ Busy(p) /\ proc[p].pc # "cache" /\ proc'[p].job = proc[p].job
        /\ \A q \in Procs \ {p} : proc'[q] = proc[q]
        /\ UNCHANGED <<files, spool>>
        /\ index' = Appended(index, proc[p].job, 0, "line") /\ "line" \in Fragments
    BY <1>2 DEF AppendIndex, StoreTypeOK, ProcState, Busy, Fragments
  <2>2. \A r \in Receipts : Indexed(r) => Indexed(r)'
    BY <1>0, <2>1, IndexKept
  <2> QED BY <2>1, <2>2, OnceKept
<1>3. ASSUME NEW p \in Procs, NotConfigured(p) \/ CacheAndReturn(p) \/ Restart(p) PROVE OnceInv'
  <2>1. /\ proc'[p].pc \in {"idle", "down"} /\ UNCHANGED <<files, spool, index>>
        /\ \A q \in Procs \ {p} : proc'[q] = proc[q]
    BY <1>3 DEF NotConfigured, CacheAndReturn, Restart, StoreTypeOK, ProcState
  <2>2. \A r \in Receipts : Indexed(r) => Indexed(r)'
    BY <2>1 DEF Indexed
  <2> QED BY <2>1, <2>2, OnceKept
<1>4. ASSUME NEW p \in Procs, EnterLock(p) \/ ReadCursor(p) PROVE OnceInv'
  <2>1. /\ Busy(p) /\ proc[p].pc # "cache" /\ proc'[p].job = proc[p].job
        /\ UNCHANGED <<files, spool, index>>
        /\ \A q \in Procs \ {p} : proc'[q] = proc[q]
    BY <1>4 DEF EnterLock, ReadCursor, StoreTypeOK, ProcState, Busy
  <2>2. \A r \in Receipts : Indexed(r) => Indexed(r)'
    BY <2>1 DEF Indexed
  <2> QED BY <2>1, <2>2, OnceKept
<1>5. ASSUME NEW p \in Procs, AppendSpool(p) PROVE OnceInv'
  <2>1. /\ proc[p].pc = "write" /\ proc'[p].pc = "cache" /\ proc'[p].job = proc[p].job
        /\ \A q \in Procs \ {p} : proc'[q] = proc[q]
        /\ spool' = Appended(spool, proc[p].job, proc[p].cursor, "line")
        /\ "line" \in Fragments /\ UNCHANGED <<files, index>>
    BY <1>5 DEF AppendSpool, StoreTypeOK, ProcState, Fragments
  <2> QED BY <2>1, OnceWritten
<1>6. ASSUME NEW p \in Procs, NEW r \in Receipts, CreateCutShort(p, r) PROVE OnceInv'
  <2>1. /\ files[r] = "absent" /\ \A s \in Receipts \ {r} : files'[s] = files[s]
        /\ UNCHANGED <<spool, index>> /\ Abandon(p)
    BY <1>6 DEF CreateCutShort, Creatable, StoreTypeOK
  <2>2. \A s \in Receipts : Indexed(s) => Indexed(s)'
    BY <2>1 DEF Indexed
  <2> QED BY <2>1, <2>2, AbandonEffect, OnceKept
<1>7. ASSUME NEW p \in Procs, NEW k \in {"bare", "torn"}, IndexCutShort(p, k) PROVE OnceInv'
  <2>1. /\ index' = Appended(index, proc[p].job, 0, k) /\ k \in Fragments /\ Busy(p)
        /\ UNCHANGED <<files, spool>> /\ Abandon(p)
    BY <1>7 DEF IndexCutShort, Fragments, Busy
  <2>2. \A r \in Receipts : Indexed(r) => Indexed(r)'
    BY <1>0, <2>1, IndexKept
  <2> QED BY <2>1, <2>2, AbandonEffect, OnceKept
<1>8. ASSUME NEW p \in Procs, NEW k \in {"bare", "torn"}, SpoolCutShort(p, k) PROVE OnceInv'
  <2>1. /\ proc[p].pc = "write" /\ Abandon(p) /\ k \in Fragments /\ UNCHANGED <<files, index>>
        /\ spool' = Appended(spool, proc[p].job, proc[p].cursor, k)
    BY <1>8 DEF SpoolCutShort, Fragments
  <2> QED BY <2>1, AbandonEffect, OnceWritten
<1>9. ASSUME NEW p \in Procs, Interrupted(p) PROVE OnceInv'
  <2>1. UNCHANGED <<files, spool, index>> /\ Abandon(p)
    BY <1>9 DEF Interrupted
  <2>2. \A r \in Receipts : Indexed(r) => Indexed(r)'
    BY <2>1 DEF Indexed
  <2> QED BY <2>1, <2>2, AbandonEffect, OnceKept
<1>10. CASE UNCHANGED storeVars
  BY <1>10 DEF storeVars, OnceInv, SpooledOnce, Busy, Indexed
<1> QED
  BY <1>1, <1>2, <1>3, <1>4, <1>5, <1>6, <1>7, <1>8, <1>9, <1>10, SMTT(20) DEF Next

(***************************************************************************)
(* Losses: an append that returned wrote a line, and a line that does not  *)
(* parse follows a fragment that was cut short.                            *)
(***************************************************************************)
Written(r, n) ==
  \E i \in DOMAIN spool : spool[i].receipt = r /\ spool[i].cursor = n /\ spool[i].kind = "line"

CutShort == {i \in DOMAIN spool : spool[i].kind # "line"}

LossInv ==
  /\ \A e \in returned : Written(e.receipt, e.cursor)
  /\ \A p \in Procs : proc[p].pc = "cache" => Written(proc[p].job, proc[p].cursor)
  /\ IsFiniteSet(CutShort) /\ Cardinality(CutShort) = tears

LEMMA LossInit == Init => LossInv
<1> SUFFICES ASSUME Init PROVE LossInv
  OBVIOUS
<1>1. CutShort = {}
  BY DEF Init, CutShort
<1>2. \A p \in Procs : proc[p].pc # "cache"
  BY DEF Init, Resting
<1> QED
  BY <1>1, <1>2, FS_EmptySet DEF Init, LossInv

LEMMA LossKept ==
  ASSUME StoreTypeOK, LossInv, UNCHANGED <<spool, tears, returned>>, NEW p \in Procs,
         \A q \in Procs \ {p} : proc'[q] = proc[q],
         proc'[p].pc # "cache"
  PROVE  LossInv'
<1>1. CutShort' = CutShort
  BY DEF CutShort
<1> QED
  BY <1>1 DEF LossInv, Written

\* What an append does to the lines and the fragments that were cut short.
LEMMA LossWritten ==
  ASSUME StoreTypeOK, LossInv, NEW r \in Receipts, NEW n \in Nat, NEW k \in Fragments,
         spool' = Appended(spool, r, n, k)
  PROVE  /\ \A i \in DOMAIN spool : i \in DOMAIN spool' /\ spool'[i] = spool[i]
         /\ k = "line" => CutShort' = CutShort
         /\ k # "line" => /\ IsFiniteSet(CutShort')
                          /\ Cardinality(CutShort') = tears + 1
<1>1. spool \in Seq(Fragment) /\ Len(spool) \in Nat
  BY DEF StoreTypeOK
<1>2. /\ DOMAIN spool' = DOMAIN spool \cup {Len(spool) + 1}
      /\ \A i \in DOMAIN spool : spool'[i] = spool[i]
      /\ spool'[Len(spool) + 1] = [receipt |-> r, cursor |-> n, kind |-> k]
      /\ Len(spool) + 1 \notin DOMAIN spool
  BY <1>1 DEF Appended
<1>4. k = "line" => CutShort' = CutShort
  BY <1>2 DEF CutShort
<1>5. k # "line" => CutShort' = CutShort \cup {Len(spool) + 1}
  BY <1>2 DEF CutShort
<1>6. Len(spool) + 1 \notin CutShort
  BY <1>2 DEF CutShort
<1>7. IsFiniteSet(CutShort) /\ Cardinality(CutShort) = tears
  BY DEF LossInv
<1>8. /\ IsFiniteSet(CutShort \cup {Len(spool) + 1})
      /\ Cardinality(CutShort \cup {Len(spool) + 1}) = tears + 1
  BY <1>6, <1>7, FS_AddElement
<1> QED
  BY <1>2, <1>4, <1>5, <1>8, Zenon

LEMMA LossStep ==
  ASSUME StoreTypeOK, Progress, LossInv, [Next]_storeVars
  PROVE  LossInv'
<1>1. ASSUME NEW p \in Procs, NEW r \in Receipts, Create(p, r) PROVE LossInv'
  BY <1>1, LossKept DEF Create, StoreTypeOK, ProcState
<1>2. ASSUME NEW p \in Procs,
             AppendIndex(p) \/ NotConfigured(p) \/ EnterLock(p) \/ ReadCursor(p) \/ Restart(p)
      PROVE  LossInv'
  <2>1. /\ UNCHANGED <<spool, tears, returned>> /\ proc'[p].pc # "cache"
        /\ \A q \in Procs \ {p} : proc'[q] = proc[q]
    BY <1>2 DEF AppendIndex, NotConfigured, EnterLock, ReadCursor, Restart, StoreTypeOK, ProcState
  <2> QED BY <2>1, LossKept
<1>3. ASSUME NEW p \in Procs, AppendSpool(p) PROVE LossInv'
  <2>1. /\ proc'[p].job = proc[p].job /\ proc'[p].cursor = proc[p].cursor
        /\ \A q \in Procs \ {p} : proc'[q] = proc[q]
        /\ spool' = Appended(spool, proc[p].job, proc[p].cursor, "line")
        /\ UNCHANGED <<tears, returned>> /\ proc[p].cursor \in Nat /\ "line" \in Fragments
    BY <1>3 DEF AppendSpool, StoreTypeOK, ProcState, Fragments
  <2>2. proc[p].job \in Receipts
    BY <1>3 DEF AppendSpool, Progress, Busy
  <2>3. /\ \A i \in DOMAIN spool : i \in DOMAIN spool' /\ spool'[i] = spool[i]
        /\ CutShort' = CutShort
    BY <2>1, <2>2, LossWritten
  <2>4. Written(proc[p].job, proc[p].cursor)'
    <3>1. spool \in Seq(Fragment)
      BY DEF StoreTypeOK
    <3> QED BY <2>1, <3>1 DEF Written, Appended
  <2>5. (\A e \in returned : Written(e.receipt, e.cursor))'
    BY <2>1, <2>3, SMTT(20) DEF LossInv, Written
  <2>6. (\A q \in Procs : proc[q].pc = "cache" => Written(proc[q].job, proc[q].cursor))'
    <3>1. ASSUME NEW q \in Procs \ {p}, proc'[q].pc = "cache"
          PROVE  Written(proc[q].job, proc[q].cursor)'
      <4>1. proc'[q] = proc[q] /\ Written(proc[q].job, proc[q].cursor)
        BY <2>1, <3>1 DEF LossInv
      <4> QED BY <2>3, <4>1 DEF Written
    <3> QED BY <2>1, <2>4, <3>1 DEF Written
  <2> QED BY <2>1, <2>3, <2>5, <2>6 DEF LossInv
<1>4. ASSUME NEW p \in Procs, CacheAndReturn(p) PROVE LossInv'
  <2>1. /\ proc[p].pc = "cache" /\ proc'[p].pc = "idle"
        /\ \A q \in Procs \ {p} : proc'[q] = proc[q]
        /\ returned' = returned \cup {[receipt |-> proc[p].job, cursor |-> proc[p].cursor]}
        /\ UNCHANGED <<tears, spool>>
    BY <1>4 DEF CacheAndReturn, StoreTypeOK, ProcState
  <2>2. CutShort' = CutShort
    BY <2>1 DEF CutShort
  <2> QED BY <2>1, <2>2 DEF LossInv, Written
<1>5. ASSUME NEW p \in Procs, NEW r \in Receipts, CreateCutShort(p, r) PROVE LossInv'
  BY <1>5, AbandonEffect, LossKept DEF CreateCutShort, Abandon
<1>6. ASSUME NEW p \in Procs, NEW k \in {"bare", "torn"}, IndexCutShort(p, k) PROVE LossInv'
  BY <1>6, AbandonEffect, LossKept DEF IndexCutShort, Abandon
<1>7. ASSUME NEW p \in Procs, NEW k \in {"bare", "torn"}, SpoolCutShort(p, k) PROVE LossInv'
  <2>1. /\ Abandon(p) /\ k \in Fragments /\ k # "line" /\ proc[p].cursor \in Nat
        /\ spool' = Appended(spool, proc[p].job, proc[p].cursor, k)
        /\ tears' = tears + 1 /\ returned' = returned
    BY <1>7 DEF SpoolCutShort, Abandon, StoreTypeOK, ProcState, Fragments
  <2>2. proc[p].job \in Receipts
    BY <1>7 DEF SpoolCutShort, Progress, Busy
  <2>3. /\ \A i \in DOMAIN spool : i \in DOMAIN spool' /\ spool'[i] = spool[i]
        /\ IsFiniteSet(CutShort') /\ Cardinality(CutShort') = tears'
    BY <2>1, <2>2, LossWritten
  <2>4. \A q \in Procs : proc'[q].pc = "cache" => proc'[q] = proc[q]
    BY <2>1, AbandonEffect
  <2>5. (\A e \in returned : Written(e.receipt, e.cursor))'
    BY <2>1, <2>3 DEF LossInv, Written
  <2>6. (\A q \in Procs : proc[q].pc = "cache" => Written(proc[q].job, proc[q].cursor))'
    BY <2>3, <2>4 DEF LossInv, Written
  <2>7. (IsFiniteSet(CutShort) /\ Cardinality(CutShort) = tears)'
    BY <2>3
  <2> QED BY <2>5, <2>6, <2>7 DEF LossInv
<1>8. ASSUME NEW p \in Procs, Interrupted(p) PROVE LossInv'
  BY <1>8, AbandonEffect, LossKept DEF Interrupted, Abandon
<1>9. CASE UNCHANGED storeVars
  BY <1>9 DEF storeVars, LossInv, Written, CutShort
<1> QED
  BY <1>1, <1>2, <1>3, <1>4, <1>5, <1>6, <1>7, <1>8, <1>9 DEF Next

\* Every lost record has a fragment of its own, cut short, right before it.
LEMMA LossBound ==
  ASSUME StoreTypeOK, LossInv
  PROVE  LossIsOnePerTear
<1> DEFINE Lost == {e \in returned : ~Exported(e)}
           At(e, i) == /\ i \in DOMAIN spool /\ spool[i].receipt = e.receipt
                       /\ spool[i].cursor = e.cursor /\ spool[i].kind = "line"
           f == [e \in Lost |-> (CHOOSE i \in DOMAIN spool : At(e, i)) - 1]
<1>1. spool \in Seq(Fragment) /\ DOMAIN spool = 1 .. Len(spool) /\ Len(spool) \in Nat
  BY DEF StoreTypeOK
<1>2. \A e \in Lost : \E i \in DOMAIN spool : At(e, i)
  BY DEF LossInv, Written
<1>3. ASSUME NEW e \in Lost
      PROVE  \E i \in DOMAIN spool : At(e, i) /\ f[e] = i - 1
  BY <1>2, Zenon
<1>4. ASSUME NEW e \in Lost, NEW i \in DOMAIN spool, At(e, i) PROVE i - 1 \in CutShort
  <2>1. i \notin Readable(spool)
    BY <1>4 DEF Exported
  <2>2. i > 1 /\ spool[i - 1].kind # "line"
    BY <1>1, <1>4, <2>1 DEF Readable, Parses
  <2> QED BY <1>1, <2>2 DEF CutShort
<1>5. f \in [Lost -> CutShort]
  <2>1. ASSUME NEW e \in Lost PROVE f[e] \in CutShort
    <3>1. PICK i \in DOMAIN spool : At(e, i) /\ f[e] = i - 1
      BY <1>3
    <3>2. i - 1 \in CutShort
      BY <1>4, <3>1
    <3> HIDE DEF f
    <3> QED BY <3>1, <3>2
  <2> HIDE DEF Lost
  <2> QED BY <2>1
<1>6. ASSUME NEW a \in Lost, NEW b \in Lost, f[a] = f[b] PROVE a = b
  <2>1. PICK i \in DOMAIN spool : At(a, i) /\ f[a] = i - 1
    BY <1>3
  <2>2. PICK j \in DOMAIN spool : At(b, j) /\ f[b] = j - 1
    BY <1>3
  <2>3. i = j
    <3>1. i - 1 = j - 1
      <4> HIDE DEF f, Lost
      <4> QED BY <1>6, <2>1, <2>2, Zenon
    <3>2. i \in Nat /\ j \in Nat
      BY <1>1
    <3> QED BY <3>1, <3>2
  <2>4. a \in [receipt : Receipts, cursor : Nat] /\ b \in [receipt : Receipts, cursor : Nat]
    BY DEF StoreTypeOK
  <2> QED BY <2>1, <2>2, <2>3, <2>4
<1> HIDE DEF f, Lost
<1>7. f \in Injection(Lost, CutShort)
  BY <1>5, <1>6 DEF Injection, IsInjective
<1>8. Cardinality(Lost) <= Cardinality(CutShort)
  BY <1>7, FS_Injection DEF LossInv
<1> QED
  BY <1>8 DEF LossIsOnePerTear, LossInv, Lost

(***************************************************************************)
(* The theorems.                                                           *)
(***************************************************************************)
StoreInv == StoreTypeOK /\ Progress /\ CursorInv /\ OnceInv /\ LossInv

\* The inductive invariant of the receipt store: types, the lock, cursors,
\* one record per receipt and what a torn fragment can hide.
THEOREM StoreInvariant == Spec => []StoreInv
<1>1. Init => StoreInv
  BY TypeInit, ProgressInit, CursorInit, OnceInit, LossInit DEF StoreInv
<1>2. StoreInv /\ [Next]_storeVars => StoreInv'
  BY TypeStep, ProgressStep, CursorStep, OnceStep, LossStep DEF StoreInv, CursorInv
<1> QED
  BY <1>1, <1>2, PTL DEF Spec

\* The state of the store keeps its types: files, logs, caches and cursors.
THEOREM StoreTyped == Spec => []StoreTypeOK
<1>1. StoreInv => StoreTypeOK
  BY DEF StoreInv
<1> QED
  BY <1>1, StoreInvariant, PTL

\* appendReceiptToSpool numbers what a consumer can parse in growing order, for
\* any number of writers, deaths, torn tails and stale caches.
THEOREM SpoolCursorsIncrease == Spec => []CursorsIncrease
<1>1. StoreInv => CursorsIncrease
  BY DEF StoreInv, CursorInv
<1> QED
  BY <1>1, StoreInvariant, PTL

\* writeReceiptImmutable exports a receipt only after its file and its index
\* entry are complete.
THEOREM SpoolIsPersisted == Spec => []SpoolFollowsIndex
<1>1. StoreInv => SpoolFollowsIndex
  BY DEF StoreInv, OnceInv, SpoolFollowsIndex, Readable, Indexed
<1> QED
  BY <1>1, StoreInvariant, PTL

\* A receipt id is in the spool at most once.
THEOREM ReceiptSpooledOnce == Spec => []SpooledOnce
<1>1. StoreInv => SpooledOnce
  BY DEF StoreInv, OnceInv
<1> QED
  BY <1>1, StoreInvariant, PTL

\* The appends that returned and cannot be read are at most as many as the
\* appends that were cut short.
THEOREM LossBounded == Spec => []LossIsOnePerTear
<1>1. StoreInv => LossIsOnePerTear
  BY LossBound DEF StoreInv
<1> QED
  BY <1>1, StoreInvariant, PTL
=============================================================================
