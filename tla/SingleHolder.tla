---------------------------- MODULE SingleHolder ----------------------------
(***************************************************************************)
(* What the lease promises its users, with no files, locks, epochs or      *)
(* probes: a token that at most one process has, that a process takes when *)
(* it is free or its holder is dead, gives back itself, and loses to nobody *)
(* while it lives.  SessionLease implements it (SessionLeaseProofs).       *)
(***************************************************************************)
CONSTANTS Owner, NoOwner

VARIABLES holder,   \* the process that has the token, or NoOwner
          running   \* the processes that have not died

holderVars == <<holder, running>>

Init == holder = NoOwner /\ running = Owner

Take(o) ==
  /\ o \in running
  /\ holder \notin running \ {o}
  /\ holder' = o
  /\ UNCHANGED running

GiveBack(o) ==
  /\ o \in running /\ holder = o
  /\ holder' = NoOwner
  /\ UNCHANGED running

\* The token of a dead holder is put back.
Recover ==
  /\ holder \notin running
  /\ holder' = NoOwner
  /\ UNCHANGED running

Crash(o) ==
  /\ o \in running
  /\ running' = running \ {o}
  /\ UNCHANGED holder

Next ==
  \/ \E o \in Owner : Take(o) \/ GiveBack(o) \/ Crash(o)
  \/ Recover

Spec == Init /\ [][Next]_holderVars
=============================================================================
