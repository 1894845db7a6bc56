------------------------------- MODULE RagIndex -------------------------------
(***************************************************************************)
(* The two indexes of a RAG instance: the vector store, which is durable   *)
(* and written by threads, and the BM25 index, which is in memory and      *)
(* written on the event loop after the store. Documents are indexed by     *)
(* concurrent calls of aindex that may fail or be cancelled; sources are   *)
(* deleted; a search first compares the sizes of the two indexes and       *)
(* rebuilds the sparse one from the store when they differ; the process    *)
(* starts again, perhaps with another chunker.                             *)
(***************************************************************************)
EXTENDS Naturals, Sequences, FiniteSets, SequencesExt, SqliteVss, Bm25

CONSTANTS Source,      \* names of sources
          Version,     \* the texts a source has over time, each its own checksum
          Strategy,    \* the chunkers
          Chunks,      \* the contents that a chunker makes of a text
          Call,        \* calls of aindex that may be under way together
          None,        \* no checksum, no strategy
          MaxStarts,   \* bound: calls of aindex
          MaxEvents    \* bound: deletions, searches and restarts

ASSUME RagIndexAssumption ==
    /\ DOMAIN Chunks = Version \X Strategy
    /\ \A made \in Range(Chunks) : made # <<>> /\ made \in Seq(Range(made))
    /\ None \notin Version \union Strategy
    /\ MaxStarts \in Nat /\ MaxEvents \in Nat

VARIABLES store,      \* the vector store
          sparse,     \* the BM25 index
          strategy,   \* the chunker of this process
          calls,      \* what each call of aindex is doing
          starts, events,
          astray,     \* history: a call was cancelled late or ran beside another
                      \* change of its source, since the last quiet rebuild
          shrunk      \* history: sources replaced by a text of fewer chunks

vars == <<store, sparse, strategy, calls, starts, events, astray, shrunk>>

NoCall == [step |-> "idle", source |-> None, version |-> None, checked |-> FALSE,
           awaited |-> FALSE]

Init ==
    /\ store = EmptyStore /\ sparse = EmptyIndex /\ strategy \in Strategy
    /\ calls = [c \in Call |-> NoCall] /\ starts = 0 /\ events = 0
    /\ astray = FALSE /\ shrunk = {}

Active(source) == {c \in Call : calls[c].step # "idle" /\ calls[c].source = source}

-----------------------------------------------------------------------------
(* aindex *)

(* The checksum and the strategy go to the metadata of the chunks only when the
   caller gave a checksum. *)
MetaOf(call) ==
    [source |-> call.source,
     checksum |-> IF call.checked THEN call.version ELSE None,
     strategy |-> IF call.checked THEN strategy ELSE None]

ChunksOf(call) ==
    LET contents == Chunks[<<call.version, strategy>>] IN
    [i \in DOMAIN contents |->
        [id |-> <<call.source, i>>, content |-> contents[i], meta |-> MetaOf(call)]]

Skips(source, version, checked) ==
    checked /\ FALSE \in NeedsReindex(store, source, version, strategy)

(* Up to the first await: the text is chunked. *)
StartIndex(c) ==
    /\ calls[c].step = "idle" /\ starts < MaxStarts
    /\ starts' = starts + 1
    /\ \E s \in Source, v \in Version, checked \in BOOLEAN :
          /\ ~checked \/ TRUE \in NeedsReindex(store, s, v, strategy)
          /\ calls' = [calls EXCEPT ![c] = [step |-> "embed", source |-> s, version |-> v,
                                            checked |-> checked, awaited |-> TRUE]]
          /\ astray' = (astray \/ Active(s) # {})
    /\ UNCHANGED <<store, sparse, strategy, events, shrunk>>

(* The checksum of a row matches, and the call returns. *)
SkipIndex(c, s, v) ==
    /\ calls[c].step = "idle" /\ starts < MaxStarts
    /\ Skips(s, v, TRUE)
    /\ starts' = starts + 1
    /\ UNCHANGED <<store, sparse, strategy, calls, events, astray, shrunk>>

(* The embeddings arrive and the store's thread is started. *)
Embedded(c) ==
    /\ calls[c].step = "embed"
    /\ calls' = [calls EXCEPT ![c].step = "add"]
    /\ UNCHANGED <<store, sparse, strategy, starts, events, astray, shrunk>>

(* Mutant: the rows are committed one by one. *)
CommitSome(c) ==
    /\ calls[c].step = "add"
    /\ \E n \in 1..Len(ChunksOf(calls[c])) :
          store' = Add(store, SubSeq(ChunksOf(calls[c]), 1, n))
    /\ calls' = [calls EXCEPT ![c] = IF calls[c].awaited THEN [@ EXCEPT !.step = "sparse"]
                                     ELSE NoCall]
    /\ UNCHANGED <<sparse, strategy, starts, events, astray, shrunk>>

(* The thread commits; the call, unless it was cancelled, waits to resume. *)
Commit(c) ==
    /\ calls[c].step = "add"
    /\ LET call == calls[c]
           new == {<<call.source, i>> : i \in DOMAIN Chunks[<<call.version, strategy>>]}
           old == {id \in Ids(store) : store.data[id].meta.source = call.source} IN
       /\ store' = Add(store, ChunksOf(call))
       /\ shrunk' = IF old \subseteq new THEN shrunk \ {call.source}
                    ELSE shrunk \union {call.source}
    /\ calls' = [calls EXCEPT ![c] = IF calls[c].awaited THEN [@ EXCEPT !.step = "sparse"]
                                     ELSE NoCall]
    /\ UNCHANGED <<sparse, strategy, starts, events, astray>>

(* The embedding or the transaction fails; nothing is written. *)
FailIndex(c) ==
    /\ calls[c].step \in {"embed", "add"}
    /\ calls' = [calls EXCEPT ![c] = NoCall]
    /\ UNCHANGED <<store, sparse, strategy, starts, events, astray, shrunk>>

(* The caller cancels; a thread that was started goes on. *)
Cancel(c) ==
    /\ calls[c].awaited
    /\ calls' = [calls EXCEPT ![c] = IF calls[c].step = "add" THEN [@ EXCEPT !.awaited = FALSE]
                                     ELSE NoCall]
    /\ astray' = (astray \/ calls[c].step # "embed")
    /\ UNCHANGED <<store, sparse, strategy, starts, events, shrunk>>

(* The call resumes and adds its chunks to the sparse index. *)
FinishIndex(c) ==
    /\ calls[c].step = "sparse"
    /\ sparse' = AddChunks(sparse, ChunksOf(calls[c]))
    /\ calls' = [calls EXCEPT ![c] = NoCall]
    /\ UNCHANGED <<store, strategy, starts, events, astray, shrunk>>

-----------------------------------------------------------------------------
(* delete, search, restart *)

Event == events < MaxEvents /\ events' = events + 1

(* delete runs without an await; a store that raises leaves both as they are. *)
Delete(s) ==
    /\ Event
    /\ store' = DeleteBySource(store, s)
    /\ sparse' = DeleteAll(sparse, {id \in Held(sparse) : sparse.documents[id].meta.source = s})
    /\ astray' = (astray \/ Active(s) # {})
    /\ shrunk' = shrunk \ {s}
    /\ UNCHANGED <<strategy, calls, starts>>

(* What rebuild_bm25_from_store takes from the store. *)
OfStrategy(id) == store.data[id].meta.strategy \in {None, strategy}

Rebuilt ==
    FoldSet(LAMBDA id, index : AddDocument(index, id, store.data[id].content, store.data[id].meta),
            EmptyIndex, {id \in Ids(store) : OfStrategy(id)})

Quiet == \A c \in Call : calls[c].step = "idle"

(* Mutant: rebuilding adds to what is there. *)
EnsureAdds ==
    IF sparse.total = Count(store)
      THEN UNCHANGED <<sparse, astray>>
      ELSE \/ /\ sparse' = FoldSet(LAMBDA id, index :
                     AddDocument(index, id, store.data[id].content, store.data[id].meta),
                     sparse, {id \in Ids(store) : OfStrategy(id)})
              /\ astray' = (astray /\ ~Quiet)
           \/ sparse' = EmptyIndex /\ UNCHANGED astray

(* The start of a search: _ensure_bm25_consistent. The sparse index is cleared
   before the store is read, and reading it may raise. *)
Ensure ==
    IF sparse.total = Count(store)
      THEN UNCHANGED <<sparse, astray>>
      ELSE \/ sparse' = Rebuilt /\ astray' = (astray /\ ~Quiet)
           \/ sparse' = EmptyIndex /\ UNCHANGED astray

Search ==
    /\ Event
    /\ Ensure
    /\ UNCHANGED <<store, strategy, calls, starts, shrunk>>

(* The process ends, with what it holds in memory and the transactions under
   way, and another starts on the same store. *)
Restart(new) ==
    /\ Event
    /\ sparse' = EmptyIndex /\ calls' = [c \in Call |-> NoCall]
    /\ strategy' = new /\ astray' = FALSE
    /\ UNCHANGED <<store, starts, shrunk>>

Next ==
    \/ \E c \in Call : \/ StartIndex(c) \/ Embedded(c) \/ Commit(c) \/ FailIndex(c)
                       \/ Cancel(c) \/ FinishIndex(c)
                       \/ \E s \in Source, v \in Version : SkipIndex(c, s, v)
    \/ \E s \in Source : Delete(s)
    \/ Search
    \/ \E new \in Strategy : Restart(new)

Spec == Init /\ [][Next]_vars

-----------------------------------------------------------------------------
(* Properties *)

(* The rows of a source, and the documents of it in the sparse index, by id. *)
RowsOf(s) == {id \in Ids(store) : store.data[id].meta.source = s}

(* The rows of s are what some chunker makes of version v. *)
HoldsVersion(s, v, st) ==
    /\ RowsOf(s) = {<<s, i>> : i \in DOMAIN Chunks[<<v, st>>]}
    /\ \A i \in DOMAIN Chunks[<<v, st>>] : store.data[<<s, i>>].content = Chunks[<<v, st>>][i]

(* Every variable stays in its range. *)
TypeOK ==
    /\ strategy \in Strategy /\ starts \in 0..MaxStarts /\ events \in 0..MaxEvents
    /\ shrunk \subseteq Source /\ astray \in BOOLEAN
    /\ calls \in [Call -> [step : {"idle", "embed", "add", "sparse"},
                           source : Source \union {None}, version : Version \union {None},
                           checked : BOOLEAN, awaited : BOOLEAN]]
    /\ Ids(store) \subseteq Source \X Nat /\ Held(sparse) \subseteq Source \X Nat
    /\ \A d \in Range(store.data) \union Range(sparse.documents) :
          \/ d.meta \in [source : Source, checksum : Version, strategy : Strategy]
          \/ d.meta \in [source : Source, checksum : {None}, strategy : {None}]
    /\ DOMAIN store.vectors \subseteq Nat

(* The counters BM25 scores with are those of the documents it holds, after any
   history of additions, replacements, deletions and rebuilds. *)
SparseCountersExact == CountersExact(sparse)

(* Threads, failures and cancellations leave each source with the chunks of one
   version, or none; except that a shorter version leaves the last chunks of
   the longer one it replaces. *)
WholeVersions ==
    \A s \in Source \ shrunk :
        RowsOf(s) = {} \/ \E v \in Version, st \in Strategy : HoldsVersion(s, v, st)

(* A call that indexes nothing because the checksum is known leaves the caller
   with that version, chunked as this process chunks; unless leftovers of a
   longer version answered for it. *)
SkipsOnlyCurrent ==
    [][\A c \in Call, s \in Source, v \in Version :
          SkipIndex(c, s, v) => s \in shrunk \/ HoldsVersion(s, v, strategy)]_vars

(* A search reads two indexes of the same chunks, whatever was lost in a restart
   or failed before: comparing sizes is enough to notice, unless a call was
   cancelled after its thread started or overlapped another change of its
   source. A chunk that is committed and not yet in the sparse index is on its
   way there. *)
IndexesAgree ==
    [][(Search /\ sparse' # EmptyIndex /\ ~astray')
          => LET arriving == {calls[c].source : c \in {d \in Call : calls[d].step = "sparse"}}
                 settled(id) == id[1] \notin arriving IN
             /\ {id \in Held(sparse') : settled(id)}
                   = {id \in Ids(store) : settled(id) /\ OfStrategy(id)}
             /\ \A id \in Held(sparse') :
                   settled(id) => sparse'.documents[id].content = store.data[id].content]_vars
=============================================================================
