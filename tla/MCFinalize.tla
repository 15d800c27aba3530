----------------------------- MODULE MCFinalize -----------------------------
(***************************************************************************)
(* Two finalize calls of three kinds: the operate loop's, the verb with    *)
(* all its requirements, and the verb with all of them waived.             *)
(***************************************************************************)
EXTENDS Finalize, TLC

MCRequests ==
  {Strict, [Strict EXCEPT !.operate = FALSE],
   [operate |-> FALSE, tests |-> FALSE, commit |-> FALSE, pr |-> FALSE]}

\* HEAD moves, and more than one command is configured, only where one call
\* is made: a call reads neither what the other read of HEAD nor its receipts.
OverlapOrDepth ==
  (moves = 0 /\ commands = 1) \/ \E c \in Calls : call[c].pc = "new"

Interchangeable == Permutations(Calls) \cup Permutations(Commits)
=============================================================================
