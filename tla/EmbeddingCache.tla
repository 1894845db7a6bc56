---------------------------- MODULE EmbeddingCache ----------------------------
(***************************************************************************)
(* The LRU cache of ffai.core.embeddings, used by threads that hold no     *)
(* lock: the pool thread of the recorder embeds turns while a search or    *)
(* another call embeds a query. Each statement on the shared dictionary is *)
(* a step. A vector is named by the text it stands for.                    *)
(***************************************************************************)
EXTENDS Integers, Sequences, FiniteSets, SequencesExt

CONSTANTS Caller,           \* threads inside aembed
          Words,            \* texts
          CacheSize,
          MaxTexts,         \* bound: texts in one call
          MaxCalls          \* bound: calls of the run

VARIABLES cache,            \* _cache: [text, vector] records, least recently used first
          local,            \* a local model, whose path overwrites cached entries
          calls,            \* per caller: its call
          begun,            \* calls begun
          overlapped,       \* the cache was used by two threads at once, or cleared under one
          abandoned         \* calls that raised after they stored an entry, since the last clear

vars == << cache, local, calls, begun, overlapped, abandoned >>

Idle == [pc |-> "idle", texts |-> <<>>, at |-> 0, missing |-> <<>>, vectors |-> <<>>, answer |-> <<>>]

Active(c) == calls[c].pc \notin {"idle", "done", "refused", "failed"}

Cached(text) == \E k \in DOMAIN cache : cache[k].text = text

Place(text) == CHOOSE k \in DOMAIN cache : cache[k].text = text

Entry(text) == cache[Place(text)]

Goto(c, pc) == calls' = [calls EXCEPT ![c].pc = pc]

Init ==
    /\ cache = <<>> /\ local \in BOOLEAN
    /\ calls = [c \in Caller |-> Idle]
    /\ begun = 0 /\ overlapped = FALSE /\ abandoned = 0

(* aembed: nothing is looked up for an empty list. *)
Embed(c) ==
    /\ ~Active(c) /\ begun < MaxCalls
    /\ \E texts \in BoundedSeq(Words, MaxTexts) :
          calls' = [calls EXCEPT ![c] =
             IF texts = <<>> THEN [Idle EXCEPT !.pc = "done"]
             ELSE [Idle EXCEPT !.pc = "look", !.texts = texts, !.at = 1,
                               !.answer = [i \in DOMAIN texts |-> <<>>]]]
    /\ begun' = begun + 1
    /\ overlapped' = (overlapped \/ \E d \in Caller : Active(d))
    /\ UNCHANGED << cache, local, abandoned >>

(* The place after the current text: the next one, or the request for those
   that are missing, or the answer. *)
Onward(call) ==
    IF call.at < Len(call.texts) THEN [call EXCEPT !.at = @ + 1, !.pc = "look"]
    ELSE [call EXCEPT !.pc = IF call.missing = <<>> THEN "done" ELSE "ask"]

(* text in self._cache *)
Look(c) ==
    LET call == calls[c] IN
    /\ call.pc = "look"
    /\ calls' = [calls EXCEPT ![c] =
          IF Cached(call.texts[call.at]) THEN [call EXCEPT !.pc = "touch"]
          ELSE Onward([call EXCEPT !.missing = Append(@, call.at)])]
    /\ UNCHANGED << cache, local, begun, overlapped, abandoned >>

(* move_to_end raises KeyError when the entry is gone. *)
MoveToEnd(c, text, then) ==
    IF Cached(text)
      THEN /\ cache' = Append(RemoveAt(cache, Place(text)), Entry(text))
           /\ Goto(c, then)
    ELSE /\ Goto(c, "failed")
         /\ UNCHANGED cache

Touch(c) ==
    /\ calls[c].pc = "touch"
    /\ MoveToEnd(c, calls[c].texts[calls[c].at], "read")
    /\ UNCHANGED << local, begun, overlapped, abandoned >>

(* self._cache[text] *)
Read(c) ==
    LET call == calls[c]
        text == call.texts[call.at]
    IN
    /\ call.pc = "read"
    /\ calls' = [calls EXCEPT ![c] =
          IF Cached(text) THEN Onward([call EXCEPT !.answer[call.at] = << Entry(text).vector >>])
          ELSE [call EXCEPT !.pc = "failed"]]
    /\ UNCHANGED << cache, local, begun, overlapped, abandoned >>

(* The API answers in any order, each item with the index of its text. *)
Responses(asked) ==
    {[k \in DOMAIN asked |-> [index |-> p[k], embedding |-> asked[p[k]]]] :
        p \in {q \in [DOMAIN asked -> DOMAIN asked] : IsInjective(q)}}

(* Mutant: the answers are taken in the order they come in. *)
AsReceived(data) == [j \in DOMAIN data |-> data[j].embedding]

InOrder(data) ==
    [j \in DOMAIN data |-> (CHOOSE item \in ToSet(data) : item.index = j).embedding]

Ask(c) ==
    LET asked == [j \in DOMAIN calls[c].missing |-> calls[c].texts[calls[c].missing[j]]] IN
    /\ calls[c].pc = "ask"
    /\ \/ \E data \in Responses(asked) :
             calls' = [calls EXCEPT ![c].pc = "fill", ![c].at = 1, ![c].vectors = InOrder(data)]
       \/ Goto(c, "refused")
    /\ UNCHANGED << cache, local, begun, overlapped, abandoned >>

(* After a text was stored: the next, or the answer. *)
Stored(call) ==
    IF call.at < Len(call.missing) THEN [call EXCEPT !.at = @ + 1, !.pc = "fill"]
    ELSE [call EXCEPT !.pc = "done"]

(* The answer takes the vector; the cache does when the text is not there,
   or, for a local model, in any case: then its place in the order stays. *)
Fill(c) ==
    LET call == calls[c]
        text == call.texts[call.missing[call.at]]
        vector == call.vectors[call.at]
        answered == [call EXCEPT !.answer[call.missing[call.at]] = << vector >>]
        entry == [text |-> text, vector |-> vector]
    IN
    /\ call.pc = "fill"
    /\ IF Cached(text) /\ ~local
         THEN calls' = [calls EXCEPT ![c] = Stored(answered)] /\ UNCHANGED cache
       ELSE /\ calls' = [calls EXCEPT ![c] = [answered EXCEPT !.pc = "order"]]
            /\ cache' = IF Cached(text)
                          THEN [k \in DOMAIN cache |-> IF cache[k].text = text THEN entry ELSE cache[k]]
                        ELSE Append(cache, entry)
    /\ UNCHANGED << local, begun, overlapped, abandoned >>

(* A call whose new entry was evicted meanwhile raises before it trims. *)
Order(c) ==
    LET text == calls[c].texts[calls[c].missing[calls[c].at]] IN
    /\ calls[c].pc = "order"
    /\ MoveToEnd(c, text, "trim")
    /\ abandoned' = IF Cached(text) THEN abandoned ELSE abandoned + 1
    /\ UNCHANGED << local, begun, overlapped >>

(* len(self._cache) > self._cache_size *)
Full == Len(cache) > CacheSize

Trim(c) ==
    /\ calls[c].pc = "trim"
    /\ calls' = [calls EXCEPT ![c] = IF Full THEN [@ EXCEPT !.pc = "pop"] ELSE Stored(@)]
    /\ UNCHANGED << cache, local, begun, overlapped, abandoned >>

(* popitem(last=False) raises KeyError on an empty dictionary. *)
Pop(c) ==
    /\ calls[c].pc = "pop"
    /\ calls' = [calls EXCEPT ![c] = IF cache = <<>> THEN [@ EXCEPT !.pc = "failed"] ELSE Stored(@)]
    /\ cache' = IF cache = <<>> THEN cache ELSE Tail(cache)
    /\ UNCHANGED << local, begun, overlapped, abandoned >>

(* clear_cache *)
ClearCache ==
    /\ cache # <<>> /\ cache' = <<>> /\ abandoned' = 0
    /\ overlapped' = (overlapped \/ \E c \in Caller : Active(c))
    /\ UNCHANGED << local, calls, begun >>

Step(c) ==
    Embed(c) \/ Look(c) \/ Touch(c) \/ Read(c) \/ Ask(c) \/ Fill(c) \/ Order(c) \/ Trim(c) \/ Pop(c)

Next == ClearCache \/ \E c \in Caller : Step(c)

Spec == Init /\ [][Next]_vars

-----------------------------------------------------------------------------
(* Every call that returns answers each text with the vector of that text,
   at its place, whatever was cached, evicted or asked for meanwhile; the
   cache passes its size only by the entries threads are about to trim and
   those of calls that raised before they could, and knows a text once; and a cache that one thread uses at a time never makes
   a call fail (core/embeddings.py:135-167, 177-204). *)
EmbeddingsRight ==
    /\ \A c \in Caller : calls[c].pc = "done" =>
          calls[c].answer = [i \in DOMAIN calls[c].texts |-> << calls[c].texts[i] >>]
    /\ Len(cache) <= CacheSize + Cardinality({c \in Caller : calls[c].pc \in {"order", "trim", "pop"}})
                     + abandoned
    /\ \A j, k \in DOMAIN cache : cache[j].text = cache[k].text => j = k
    /\ (\E c \in Caller : calls[c].pc = "failed") => overlapped
=============================================================================
