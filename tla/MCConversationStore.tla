------------------------- MODULE MCConversationStore -------------------------
(* The conversation store for TLC. *)
EXTENDS ConversationStore
==============================================================================
