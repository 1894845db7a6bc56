------------------------------- MODULE Histories -------------------------------
(***************************************************************************)
(* The stores HistoryRecorder.record writes one after the other, without a *)
(* lock, from the threads that call an engine: the permanent turns, the    *)
(* raw interactions, the prompt attributes that PromptBuilder reads, and   *)
(* the ordered history with its chains. An interaction is known by its     *)
(* number; the fifth store, clean_history, holds the same dictionaries as  *)
(* the raw one.                                                            *)
(***************************************************************************)
EXTENDS Naturals, Sequences, FiniteSets, SequencesExt, FiniteSetsExt

CONSTANTS Name, NoName,     \* prompt names; a call without one
          Calls,            \* [name, history, kind, keys]: what is asked and comes back
          Merged,           \* ordered histories that may be merged into this one
          Thread,
          MaxRecords,       \* bound: calls of record()
          MaxOverlapping    \* bound: those of a run in which two of them overlap

VARIABLES threads,          \* per thread: where it is in record(), and with what
          turns,            \* PermanentHistory.turns: the interactions of each turn
          raw,              \* HistoryRecorder.history
          attrs,            \* ResponseContext.prompt_attr_history
          ordered,          \* OrderedPromptHistory: all entries, as they were appended
          sequence,         \* _current_sequence
          recorded,         \* calls of record() begun
          overlapped,       \* two of them at once
          merged            \* the history that was merged

vars == << threads, turns, raw, attrs, ordered, sequence, recorded, overlapped, merged >>

stores == << turns, raw, attrs, ordered, sequence >>

Done == [pc |-> "done"]

Busy(t) == threads[t].pc # "done"

Quiet == \A t \in Thread : ~Busy(t)

-----------------------------------------------------------------------------
(* OrderedPromptHistory *)

(* An unnamed prompt is stored under its own text. *)
KeyOf(call, id) == IF call.name = NoName THEN << id >> ELSE << call.name >>

(* get_all_interactions: the lists of the dictionary, then sorted by number;
   entries that share a number stay in the order of the dictionary. *)
AllInteractions(entries) ==
    LET rank(k) == Min({j \in DOMAIN entries : entries[j].key = entries[k].key})
        before(j, k) ==
            \/ entries[j].sequence < entries[k].sequence
            \/ /\ entries[j].sequence = entries[k].sequence
               /\ \/ rank(j) < rank(k)
                  \/ rank(j) = rank(k) /\ j < k
        order == SetToSortSeq(DOMAIN entries, before)
    IN [i \in DOMAIN order |-> entries[order[i]]]

Renumbered(entries) == [i \in DOMAIN entries |-> [entries[i] EXCEPT !.sequence = i]]

(* merge_histories *)
MergedEntries(entries, other) == Renumbered(AllInteractions(entries \o other))

Latest(entries, name) ==
    LET named == SelectSeq(entries, LAMBDA e : e.key = << name >>) IN
    IF named = <<>> THEN {} ELSE {Last(named)}

(* process_prompt_chain: the chain of the latest interaction, then its answer;
   a name is taken once. *)
RECURSIVE ProcessChain(_, _, _)
ProcessChain(entries, state, name) ==
    IF name \in state.seen THEN state
    ELSE LET seen == [state EXCEPT !.seen = @ \union {name}]
             after(e) == FoldLeft(LAMBDA s, n : ProcessChain(entries, s, n), seen, e.history)
         IN IF Latest(entries, name) = {} THEN seen
            ELSE LET e == CHOOSE x \in Latest(entries, name) : TRUE IN
                 IF e.blank THEN after(e) ELSE [after(e) EXCEPT !.out = Append(@, e.id)]

(* Mutant: a prompt comes before its history. *)
RECURSIVE ProcessChainFirst(_, _, _)
ProcessChainFirst(entries, state, name) ==
    IF name \in state.seen THEN state
    ELSE LET seen == [state EXCEPT !.seen = @ \union {name}] IN
         IF Latest(entries, name) = {} THEN seen
         ELSE LET e == CHOOSE x \in Latest(entries, name) : TRUE IN
              FoldLeft(LAMBDA s, n : ProcessChainFirst(entries, s, n),
                       IF e.blank THEN seen ELSE [seen EXCEPT !.out = Append(@, e.id)], e.history)

(* Mutant: as above. *)
FormattedFirst(entries, names) ==
    FoldLeft(LAMBDA s, n : ProcessChainFirst(entries, s, n), [seen |-> {}, out |-> <<>>], names).out

FormattedResponses(entries, names) ==
    FoldLeft(LAMBDA s, n : ProcessChain(entries, s, n), [seen |-> {}, out |-> <<>>], names).out

-----------------------------------------------------------------------------
(* PromptBuilder *)

LatestAttr(name) ==
    LET named == SelectSeq(attrs, LAMBDA a : a.name = name) IN
    IF named = <<>> THEN {} ELSE {Last(named).id}

(* The interactions build_prompt puts before the prompt: those of the history
   that the text does not already take in through {{name.response}}. *)
Injected(history, refs) ==
    LET shown == SelectSeq(history, LAMBDA n : LatestAttr(n) # {} /\ n \notin refs) IN
    [i \in DOMAIN shown |-> CHOOSE id \in LatestAttr(shown[i]) : TRUE]

-----------------------------------------------------------------------------
(* record() *)

Init ==
    /\ threads = [t \in Thread |-> Done]
    /\ turns = <<>> /\ raw = <<>> /\ attrs = <<>> /\ ordered = <<>>
    /\ sequence = 0 /\ recorded = 0 /\ overlapped = FALSE /\ merged = {}

Begin(t) ==
    /\ ~Busy(t) /\ recorded < MaxRecords
    /\ (overlapped \/ ~Quiet) => recorded < MaxOverlapping
    /\ \E call \in Calls :
          threads' = [threads EXCEPT ![t] =
             [pc |-> "user", id |-> recorded + 1, call |-> call]]
    /\ recorded' = recorded + 1
    /\ overlapped' = (overlapped \/ ~Quiet)
    /\ UNCHANGED << stores, merged >>

At(t, pc, next) ==
    /\ threads[t].pc = pc
    /\ threads' = [threads EXCEPT ![t].pc = next]
    /\ UNCHANGED << recorded, overlapped, merged >>

(* A user turn without a name joins one before it that has none either. *)
UserTurn(t) ==
    LET id == threads[t].id
        named == threads[t].call.name # NoName
        turn == [role |-> "user", named |-> named, ids |-> << id >>] IN
    /\ At(t, "user", "assistant")
    /\ turns' = IF ~named /\ turns # <<>> /\ Last(turns).role = "user" /\ ~Last(turns).named
                  THEN [turns EXCEPT ![Len(turns)].ids = Append(@, id)]
                ELSE Append(turns, turn)
    /\ UNCHANGED << raw, attrs, ordered, sequence >>

AssistantTurn(t) ==
    /\ At(t, "assistant", "raw")
    /\ turns' = Append(turns, [role |-> "assistant", named |-> threads[t].call.name # NoName,
                               ids |-> << threads[t].id >>])
    /\ UNCHANGED << raw, attrs, ordered, sequence >>

RawInteraction(t) ==
    /\ At(t, "raw", "attrs")
    /\ raw' = Append(raw, [id |-> threads[t].id, call |-> threads[t].call])
    /\ UNCHANGED << turns, attrs, ordered, sequence >>

(* An answer that is a JSON object is stored under its keys, not under the
   name of the prompt. *)
Attributes(call, id) ==
    IF call.kind = "json" THEN [k \in DOMAIN call.keys |-> [name |-> call.keys[k], id |-> id]]
    ELSE << [name |-> call.name, id |-> id] >>

PromptAttributes(t) ==
    /\ At(t, "attrs", "bump")
    /\ attrs' = attrs \o Attributes(threads[t].call, threads[t].id)
    /\ UNCHANGED << turns, raw, ordered, sequence >>

NextSequence(t) ==
    /\ At(t, "bump", "store")
    /\ sequence' = sequence + 1
    /\ UNCHANGED << turns, raw, attrs, ordered >>

AddInteraction(t) ==
    LET r == threads[t] IN
    /\ r.pc = "store"
    /\ threads' = [threads EXCEPT ![t] = Done]
    /\ ordered' = Append(ordered, [id |-> r.id, key |-> KeyOf(r.call, r.id), sequence |-> sequence,
                                   history |-> r.call.history, blank |-> r.call.kind = "none"])
    /\ UNCHANGED << turns, raw, attrs, sequence, recorded, overlapped, merged >>

MergeHistories ==
    /\ merged = {} /\ Quiet
    /\ \E other \in Merged :
          /\ ordered' = MergedEntries(ordered, other)
          /\ merged' = {other}
    /\ sequence' = Len(ordered')
    /\ UNCHANGED << threads, turns, raw, attrs, recorded, overlapped >>

Next ==
    \/ MergeHistories
    \/ \E t \in Thread : \/ Begin(t) \/ UserTurn(t) \/ AssistantTurn(t) \/ RawInteraction(t)
                         \/ PromptAttributes(t) \/ NextSequence(t) \/ AddInteraction(t)

-----------------------------------------------------------------------------
Ids(entries) == [k \in DOMAIN entries |-> entries[k].id]

Own == 1..recorded

(* Every interaction is in every store once: no order of threads loses one. *)
EachStored ==
    \A id \in Own :
       /\ Cardinality({k \in DOMAIN raw : raw[k].id = id}) = 1
       /\ Cardinality({k \in DOMAIN ordered : ordered[k].id = id}) = 1
       /\ \A role \in {"user", "assistant"} :
             Cardinality({k \in DOMAIN turns : turns[k].role = role /\ id \in ToSet(turns[k].ids)}) = 1

(* Records that do not overlap leave the stores with one idea of what the
   latest answer of a name is, and build_prompt injects it, once; but a JSON
   answer is nothing to build_prompt under the name of its prompt, and is one
   under each of its keys. *)
LatestAgree ==
    (~overlapped /\ merged = {}) =>
      \A n \in Name :
         LET named == {k \in DOMAIN raw : raw[k].call.name = n}
             answers == {k \in named : raw[k].call.kind # "json"}
                        \union {k \in DOMAIN raw : n \in ToSet(raw[k].call.keys)} IN
         /\ {e.id : e \in Latest(ordered, n)} = {raw[k].id : k \in {Max({0} \union named)} \ {0}}
         /\ \A refs \in SUBSET {n} :
               Injected(<<n>>, refs) = IF answers = {} \/ n \in refs THEN <<>> ELSE << raw[Max(answers)].id >>

(* The names a name leads to, through the histories of latest interactions. *)
RECURSIVE LeadsTo(_, _)
LeadsTo(entries, names) ==
    LET more == names \union UNION {ToSet(e.history) : e \in UNION {Latest(entries, n) : n \in names}} IN
    IF more = names THEN names ELSE LeadsTo(entries, more)

Below(entries, name) ==
    LeadsTo(entries, UNION {ToSet(e.history) : e \in Latest(entries, name)})

(* The chain of any names shows each answer once, those and only those the
   names lead to, and an answer after all it was built on, unless it was built
   on itself. *)
ChainsInOrder ==
    \A names \in SeqOf(Name, 2) :
       LET out == FormattedResponses(ordered, names)
           chained == LeadsTo(ordered, ToSet(names))
           shown == {e \in UNION {Latest(ordered, n) : n \in chained} : ~e.blank}
           place(e) == CHOOSE i \in DOMAIN out : out[i] = e.id
       IN /\ ToSet(out) = {e.id : e \in shown} /\ Len(out) = Cardinality(shown)
          /\ \A d, e \in shown :
                (d.key[1] \in Below(ordered, e.key[1]) /\ e.key[1] \notin Below(ordered, e.key[1]))
                   => place(d) < place(e)

(* A merge loses nothing and keeps each history in its own order. *)
MergeKeepsOrder ==
    LET all == Ids(AllInteractions(ordered)) IN
    \A other \in merged :
       /\ SelectSeq(all, LAMBDA id : id \notin Own) = Ids(AllInteractions(other))
       /\ ~overlapped => \A i, j \in DOMAIN all :
             (i < j /\ all[i] \in Own /\ all[j] \in Own) => all[i] < all[j]

(* Whenever no record() is under way, the stores hold every interaction, agree
   on the latest answer of a name, show a chain in its order, and have come
   through a merge whole (core/history/recorder.py:126-155, ordered.py:146-347,
   prompt_builder.py:92-128). *)
ContextRight == Quiet => EachStored /\ LatestAgree /\ ChainsInOrder /\ MergeKeepsOrder
=============================================================================
