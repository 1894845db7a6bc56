-------------------------- MODULE ConversationLog ---------------------------
(***************************************************************************)
(* What a conversation is to the user of one engine: a log to which        *)
(* messages are appended, each of them once. Conversation implements it    *)
(* when the calls do not overlap (Conversation!Record).                    *)
(***************************************************************************)
EXTENDS Sequences, Integers

VARIABLE log

Init == log = <<>>

(* One message is appended; none that stands there already. *)
Add ==
    /\ Len(log') = Len(log) + 1
    /\ \A i \in DOMAIN log : log'[i] = log[i] /\ log'[Len(log')] # log[i]

Spec == Init /\ [][Add]_log
=============================================================================
