------------------------------ MODULE RecallStore ------------------------------
(***************************************************************************)
(* What the conversation memory promises, without its lists, its thread    *)
(* and its file format: a sequence of turns, each with the model its       *)
(* embedding comes from, and a saved copy that survives the process.       *)
(***************************************************************************)
EXTENDS Naturals, Sequences

CONSTANTS Model,      \* the embedding models
          Turn        \* identities of the recorded turns

VARIABLES entries,    \* the turns a search can find, in order
          saved,      \* the saved copy
          model,      \* the model that queries and new turns are embedded with
          running     \* the process that holds the memory exists

abstractVars == <<entries, saved, model, running>>

Entry == [turn : Turn, model : Model]

(* A copy that was being replaced when something failed cannot be read. *)
Copy(s) == [readable |-> TRUE, entries |-> s]

Unreadable == [readable |-> FALSE, entries |-> <<>>]

Init ==
    /\ entries = <<>> /\ saved = Copy(<<>>) /\ model \in Model /\ running = TRUE

(* A turn is remembered once, embedded with the model in use. *)
Remember(t) ==
    /\ running
    /\ \A i \in DOMAIN entries : entries[i].turn # t
    /\ entries' = Append(entries, [turn |-> t, model |-> model])
    /\ UNCHANGED <<saved, model, running>>

(* All turns move to another model together, and none is lost. *)
Reembed(m) ==
    /\ running
    /\ entries' = [i \in DOMAIN entries |-> [entries[i] EXCEPT !.model = m]]
    /\ model' = m
    /\ UNCHANGED <<saved, running>>

Forget ==
    /\ running
    /\ entries' = <<>>
    /\ UNCHANGED <<saved, model, running>>

(* The copy is the whole memory, or it is known to be unreadable. *)
Save ==
    /\ running
    /\ saved' \in {Copy(entries), Unreadable}
    /\ UNCHANGED <<entries, model, running>>

(* The process ends; the next one starts with what was saved. *)
End ==
    /\ running /\ running' = FALSE
    /\ entries' = <<>>
    /\ UNCHANGED <<saved, model>>

Resume ==
    /\ ~running /\ running' = TRUE
    /\ saved.readable
    /\ entries' = saved.entries
    /\ model' \in Model
    /\ UNCHANGED saved

(* A copy that cannot be read is given up by hand, between two processes. *)
Discard ==
    /\ ~running /\ ~saved.readable
    /\ saved' = Copy(<<>>)
    /\ UNCHANGED <<entries, model, running>>

Next ==
    \/ \E t \in Turn : Remember(t)
    \/ \E m \in Model : Reembed(m)
    \/ Forget \/ Save \/ End \/ Resume \/ Discard

Spec == Init /\ [][Next]_abstractVars
=============================================================================
