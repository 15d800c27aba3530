---------------------------- MODULE InboundOnce ----------------------------
(***************************************************************************)
(* What the chat daemons promise about one message a user sends from chat: *)
(* it goes to the session at most once, a message that may have gone out   *)
(* is never called refused, and one whose fate is unknown stays unknown.   *)
(***************************************************************************)
VARIABLE fate   \* "open", "sent", "delivered", "unknown" or "refused"

Init == fate = "open"

Send == fate = "open" /\ fate' = "sent"

Deliver == fate = "sent" /\ fate' = "delivered"

\* Nobody knows whether it went out, or whether it arrived.
Doubt == fate \in {"open", "sent"} /\ fate' = "unknown"

Refuse == fate = "open" /\ fate' = "refused"

Next == Send \/ Deliver \/ Doubt \/ Refuse

Spec == Init /\ [][Next]_fate
=============================================================================
