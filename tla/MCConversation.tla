--------------------------- MODULE MCConversation ---------------------------
(***************************************************************************)
(* Instances of Conversation: one thread with several calls in a row, or   *)
(* two threads whose calls overlap.                                        *)
(***************************************************************************)
EXTENDS Conversation

MCToolCounts == {0}
=============================================================================
