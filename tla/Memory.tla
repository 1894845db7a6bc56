-------------------------------- MODULE Memory --------------------------------
(***************************************************************************)
(* The semantic memory of an FFAI instance: HistoryRecorder.record hands   *)
(* each successful call to a pool of one thread, which embeds it, appends  *)
(* it to the four parallel lists of TurnVectorStore and rewrites the       *)
(* Parquet file. The application's own thread records, searches, reindexes *)
(* and clears, without a lock against the embedding thread. The process    *)
(* may be closed, exit or crash, and start again from the file.            *)
(***************************************************************************)
EXTENDS Naturals, Sequences, FiniteSets

CONSTANTS Model,        \* the embedding models, as numbers
          MaxRecords,   \* bound: successful calls recorded
          MaxUses,      \* bound: searches, reindexings and clearings
          MaxEnds       \* bound: ends of the process, of either kind

ASSUME MemoryAssumption ==
    /\ Model # {} /\ Model \subseteq Nat \ {0} /\ MaxRecords \in Nat /\ MaxUses \in Nat /\ MaxEnds \in Nat

Part == {"texts", "embeddings", "turns", "metadatas"}

Turn == 1..MaxRecords

VARIABLES process,     \* "up", "closed", "exiting", "down" or "refused"
          recorded,    \* how many successful calls were recorded
          queue,       \* turns submitted to the pool, not yet taken
          worker,      \* the embedding thread
          store,       \* the four lists of TurnVectorStore
          backend,     \* Memory._embeddings
          user,        \* what the application's thread is doing in Memory
          file,        \* the persistence file
          gone,        \* turns that left memory: dropped, cleared or unsent
          uses, ends,  \* counts for the bounds
          overlapped   \* history: a reindex or clear ran beside an embedding

vars == <<process, recorded, queue, worker, store, backend, user, file, gone,
          uses, ends, overlapped>>

NoOne == 0

(* step: where _safe_index_turn stands; rows: the entries read for the file. *)
IdleWorker == [turn |-> NoOne, step |-> "idle", model |-> NoOne, rows |-> <<>>]

(* rows: the entries to re-add (reindex) or the hits so far (search); upto:
   how far the loop goes; last: how the last search ended. *)
IdleUser == [op |-> "idle", rows |-> <<>>, upto |-> 0, model |-> NoOne,
             last |-> "none"]

EmptyStore == [p \in Part |-> <<>>]

NoFile == [kind |-> "absent", rows |-> <<>>]

Init ==
    /\ process = "up" /\ recorded = 0 /\ queue = <<>> /\ worker = IdleWorker
    /\ store = EmptyStore /\ backend \in Model /\ user = IdleUser
    /\ file = NoFile /\ gone = {} /\ uses = 0 /\ ends = 0
    /\ overlapped = FALSE

-----------------------------------------------------------------------------
(* TurnVectorStore *)

count == Len(store.texts)

(* Reading entry i of the lists raises an IndexError unless all reach it. *)
Readable(i) == \A p \in Part : i <= Len(store[p])

Row(i) == [p \in Part |-> store[p][i]]

(* list(iter_entries()), where it does not raise. *)
Rows == [i \in 1..count |-> Row(i)]

(* The statement of add() for one list. *)
AppendPart(p, row) == store' = [store EXCEPT ![p] = Append(@, row[p])]

(* Statements run in the order the lists are declared in. *)
PartAfter == [texts |-> "embeddings", embeddings |-> "turns", turns |-> "metadatas"]

NewRow(t, m) ==
    [p \in Part |-> IF p = "embeddings" THEN [turn |-> t, model |-> m] ELSE t]

-----------------------------------------------------------------------------
(* HistoryRecorder *)

Busy == worker.step # "idle" \/ queue # <<>>

Running == process \in {"up", "closed"} /\ user.op = "idle"

(* record() of a successful call: the pool is gone after close(). *)
Record ==
    /\ Running /\ recorded < MaxRecords
    /\ recorded' = recorded + 1
    /\ IF process = "up"
         THEN queue' = Append(queue, recorded') /\ UNCHANGED gone
         ELSE gone' = gone \union {recorded'} /\ UNCHANGED queue
    /\ UNCHANGED <<process, worker, store, backend, user, file, uses, ends>>

(* The thread takes a turn; _embeddings is read as the call is made. *)
Take ==
    /\ worker.step = "idle" /\ queue # <<>>
    /\ worker' = [IdleWorker EXCEPT !.turn = Head(queue), !.step = "embed",
                                    !.model = backend]
    /\ queue' = Tail(queue)
    /\ UNCHANGED <<process, recorded, store, backend, user, file, gone, uses, ends>>

(* Mutant: a failed embedding is submitted again. *)
EmbedResubmits ==
    /\ worker.step = "embed"
    /\ \/ worker' = [worker EXCEPT !.step = "texts"] /\ UNCHANGED queue
       \/ worker' = IdleWorker /\ queue' = Append(queue, worker.turn)
    /\ UNCHANGED <<process, recorded, store, backend, user, file, gone, uses, ends>>

(* The embedding arrives, or its failure is logged and the turn dropped. *)
Embed ==
    /\ worker.step = "embed"
    /\ \/ worker' = [worker EXCEPT !.step = "texts"] /\ UNCHANGED gone
       \/ worker' = IdleWorker /\ gone' = gone \union {worker.turn}
    /\ UNCHANGED <<process, recorded, queue, store, backend, user, file, uses, ends>>

(* One append of add(); persisting follows the last one. *)
Index ==
    /\ worker.step \in Part
    /\ AppendPart(worker.step, NewRow(worker.turn, worker.model))
    /\ worker' = IF worker.step = "metadatas" THEN [IdleWorker EXCEPT !.step = "collect"]
                 ELSE [worker EXCEPT !.step = PartAfter[worker.step]]
    /\ UNCHANGED <<process, recorded, queue, backend, user, file, gone, uses, ends>>

-----------------------------------------------------------------------------
(* persist_store *)

(* The rows are read for the file; a missing part raises, and the error is
   logged. *)
Collect ==
    /\ worker.step = "collect"
    /\ worker' = IF \A i \in 1..count : Readable(i)
                   THEN [worker EXCEPT !.step = "open", !.rows = Rows] ELSE IdleWorker
    /\ UNCHANGED <<process, recorded, queue, store, backend, user, file, gone, uses, ends>>

Torn == [kind |-> "torn", rows |-> <<>>]

(* The file is opened for writing, which destroys what it held, or cannot be
   opened. *)
OpenFile ==
    /\ worker.step = "open"
    /\ \/ worker' = [worker EXCEPT !.step = "write"] /\ file' = Torn
       \/ worker' = IdleWorker /\ UNCHANGED file
    /\ UNCHANGED <<process, recorded, queue, store, backend, user, gone, uses, ends>>

(* The write completes, or fails and leaves what was written. *)
WriteFile ==
    /\ worker.step = "write"
    /\ worker' = IdleWorker
    /\ \/ file' = [kind |-> "whole", rows |-> worker.rows]
       \/ UNCHANGED file
    /\ UNCHANGED <<process, recorded, queue, store, backend, user, gone, uses, ends>>

-----------------------------------------------------------------------------
(* Memory *)

Use(op) ==
    /\ Running /\ uses < MaxUses
    /\ uses' = uses + 1
    /\ user' = op
    /\ UNCHANGED <<process, recorded, queue, worker, store, file, gone, ends>>

(* Mutant: the loop reads one entry too many. *)
SearchPastEnd ==
    /\ \E failed \in BOOLEAN :
          Use(IF failed \/ count = 0
              THEN [IdleUser EXCEPT !.last = IF failed THEN "unembedded" ELSE "hits"]
              ELSE [IdleUser EXCEPT !.op = "search", !.upto = count + 1])
    /\ UNCHANGED backend

(* search: the query is embedded (or that fails), then the list of texts says
   how many entries there are. *)
Search ==
    /\ \E failed \in BOOLEAN :
          Use(IF failed \/ count = 0
              THEN [IdleUser EXCEPT !.last = IF failed THEN "unembedded" ELSE "hits"]
              ELSE [IdleUser EXCEPT !.op = "search", !.upto = count])
    /\ UNCHANGED backend

(* The next entry is scored; an IndexError goes to the caller. *)
Score ==
    /\ user.op = "search"
    /\ LET i == Len(user.rows) + 1 IN
       user' = IF i > user.upto THEN [IdleUser EXCEPT !.last = "hits"]
               ELSE IF Readable(i) THEN [user EXCEPT !.rows = Append(@, Row(i))]
               ELSE [IdleUser EXCEPT !.last = "raised"]
    /\ UNCHANGED <<process, recorded, queue, worker, store, backend, file, gone, uses, ends>>

(* Mutant: the store is cleared before the texts are embedded. *)
ReindexClearsFirst(m) ==
    /\ Running /\ uses < MaxUses /\ count > 0
    /\ uses' = uses + 1
    /\ store' = EmptyStore
    /\ \/ user' = [IdleUser EXCEPT !.last = "raised"]
       \/ user' = [IdleUser EXCEPT !.op = "readd", !.rows = Rows, !.upto = 1, !.model = m]
    /\ UNCHANGED <<process, recorded, queue, worker, backend, file, gone, ends>>

(* reindex, up to the embedding of the texts it has read; nothing is changed
   when reading them or embedding them raises. *)
Reindex(m) ==
    /\ IF count = 0
         THEN Use(IdleUser) /\ backend' = m
         ELSE /\ UNCHANGED backend
              /\ \/ Use([IdleUser EXCEPT !.last = "raised"])
                 \/ /\ \A i \in 1..count : Readable(i)
                    /\ Use([IdleUser EXCEPT !.op = "wipe", !.rows = Rows,
                                            !.upto = 1, !.model = m])

Clear ==
    /\ Use([IdleUser EXCEPT !.op = "wipe"])
    /\ UNCHANGED backend

(* Mutant: one of the lists is not cleared. *)
WipeKeepsMetadatas ==
    /\ user.op = "wipe"
    /\ store' = [EmptyStore EXCEPT !.metadatas = store.metadatas]
    /\ user' = IF user.rows # <<>> THEN [user EXCEPT !.op = "readd"] ELSE IdleUser
    /\ gone' = IF user.rows = <<>>
                 THEN gone \union {store.texts[i] : i \in 1..count} ELSE gone
    /\ UNCHANGED <<process, recorded, queue, worker, backend, file, uses, ends>>

(* The store's clear(); a reindexing goes on to re-add. Its four statements are
   one step: the embedding thread would have to overlap to see them apart. *)
Wipe ==
    /\ user.op = "wipe"
    /\ store' = EmptyStore
    /\ user' = IF user.rows # <<>> THEN [user EXCEPT !.op = "readd"] ELSE IdleUser
    /\ gone' = IF user.rows = <<>>
                 THEN gone \union {store.texts[i] : i \in 1..count} ELSE gone
    /\ UNCHANGED <<process, recorded, queue, worker, backend, file, uses, ends>>

(* The add() of entry upto, with its new embedding. *)
Readd ==
    /\ user.op = "readd"
    /\ LET row == [user.rows[user.upto] EXCEPT !.embeddings.model = user.model] IN
       store' = [p \in Part |-> Append(store[p], row[p])]
    /\ user' = IF user.upto < Len(user.rows) THEN [user EXCEPT !.upto = @ + 1]
               ELSE [user EXCEPT !.op = "rebind"]
    /\ UNCHANGED <<process, recorded, queue, worker, backend, file, gone, uses, ends>>

Rebind ==
    /\ user.op = "rebind"
    /\ backend' = user.model
    /\ user' = IdleUser
    /\ UNCHANGED <<process, recorded, queue, worker, store, file, gone, uses, ends>>

-----------------------------------------------------------------------------
(* The life of the process *)

(* FFAI.close: the pool takes no more turns, and keeps those it has. *)
Close ==
    /\ process = "up" /\ user.op = "idle"
    /\ process' = "closed"
    /\ UNCHANGED <<recorded, queue, worker, store, backend, user, file, gone, uses, ends>>

(* The main thread ends; the interpreter joins the pool's thread. *)
Exit ==
    /\ Running /\ ends < MaxEnds
    /\ process' = "exiting"
    /\ ends' = ends + 1
    /\ UNCHANGED <<recorded, queue, worker, store, backend, user, file, gone, uses>>

(* What the process held is lost; a turn it had not settled is gone. *)
Lose ==
    /\ process' = "down"
    /\ queue' = <<>> /\ worker' = IdleWorker /\ store' = EmptyStore /\ user' = IdleUser
    /\ gone' = 1..recorded
    /\ UNCHANGED <<recorded, backend, file, uses>>

Leave ==
    /\ process = "exiting" /\ ~Busy
    /\ Lose /\ UNCHANGED ends

Crash ==
    /\ process \in {"up", "closed", "exiting"} /\ ends < MaxEnds
    /\ Lose /\ ends' = ends + 1

(* Mutant: the file is not read. *)
StartEmpty(m) ==
    /\ process = "down"
    /\ process' = "up" /\ backend' = m
    /\ UNCHANGED <<recorded, queue, worker, store, user, file, gone, uses, ends>>

(* FFAI.__init__ with a configured backend: the store is read from the file;
   an unreadable one raises, and there is no instance. *)
Start(m) ==
    /\ process = "down"
    /\ IF file.kind = "torn"
         THEN process' = "refused" /\ UNCHANGED <<store, backend, gone>>
         ELSE /\ process' = "up"
              /\ backend' = m
              /\ store' = [p \in Part |-> [i \in DOMAIN file.rows |-> file.rows[i][p]]]
              /\ gone' = gone \ {file.rows[i].texts : i \in DOMAIN file.rows}
    /\ UNCHANGED <<recorded, queue, worker, user, file, uses, ends>>

(* The operator removes the broken file. *)
Repair ==
    /\ process = "refused"
    /\ process' = "down" /\ file' = NoFile
    /\ UNCHANGED <<recorded, queue, worker, store, backend, user, gone, uses, ends>>

(* The embedding thread is at work while the store is rewritten, or has been
   embedding with a backend that is no longer in use. *)
Overlap ==
    /\ worker.step # "idle"
    /\ \/ user.op \in {"wipe", "readd", "rebind"}
       \/ worker.step \in {"embed"} \union Part /\ worker.model # backend

Step ==
    \/ Record \/ Search \/ Score \/ Clear \/ Wipe \/ Readd \/ Rebind
    \/ \E m \in Model : Reindex(m) \/ Start(m)
    \/ Take \/ Embed \/ Index \/ Collect \/ OpenFile \/ WriteFile
    \/ Close \/ Exit \/ Leave \/ Crash \/ Repair

Next == Step /\ overlapped' = (overlapped \/ Overlap')

Spec == Init /\ [][Next]_vars

(* The embedding thread runs while the process does. *)
WorkerStep == Take \/ Embed \/ Index \/ Collect \/ OpenFile \/ WriteFile

FairSpec == Spec /\ WF_vars(WorkerStep /\ overlapped' = (overlapped \/ Overlap'))

-----------------------------------------------------------------------------
(* Properties *)

Embedding == [turn : Turn, model : Model]

RowType == [texts : Turn, embeddings : Embedding, turns : Turn, metadatas : Turn]

StoreType ==
    [texts : Seq(Turn), embeddings : Seq(Embedding), turns : Seq(Turn), metadatas : Seq(Turn)]

WorkerType ==
    [turn : Turn \union {NoOne}, step : {"idle", "embed", "collect", "open", "write"} \union Part,
     model : Model \union {NoOne}, rows : Seq(RowType)]

UserType ==
    [op : {"idle", "search", "wipe", "readd", "rebind"}, rows : Seq(RowType), upto : Nat,
     model : Model \union {NoOne}, last : {"none", "hits", "raised", "unembedded"}]

FileType == [kind : {"absent", "whole", "torn"}, rows : Seq(RowType)]

(* Every variable stays in its range. *)
TypeOK ==
    /\ process \in {"up", "closed", "exiting", "down", "refused"}
    /\ recorded \in 0..MaxRecords /\ uses \in 0..MaxUses /\ ends \in 0..MaxEnds
    /\ queue \in Seq(Turn) /\ gone \subseteq Turn /\ backend \in Model
    /\ worker \in WorkerType /\ store \in StoreType /\ user \in UserType
    /\ file \in FileType /\ overlapped \in BOOLEAN

(* The turns held for the thread, in the store, or by a reindexing. *)
Pending == {queue[i] : i \in DOMAIN queue}
           \union (IF worker.step \in {"embed", "texts"} THEN {worker.turn} ELSE {})

Stored == IF user.op \in {"wipe", "readd", "rebind"} /\ user.rows # <<>>
            THEN {user.rows[i].texts : i \in DOMAIN user.rows}
            ELSE {store.texts[i] : i \in 1..count}

(* Nothing is lost in silence: as long as no reindex or clear ran beside an
   embedding, a recorded turn is waiting for the thread, or can be found, or was
   dropped, cleared, recorded after close() or lost with its process, and never
   two of these. *)
EveryTurnSomewhere ==
    overlapped \/
    /\ 1..recorded = Pending \union Stored \union gone
    /\ Pending \intersect Stored = {} /\ gone \intersect (Pending \union Stored) = {}

(* A store at rest holds whole entries: the four lists are equally long and
   each position belongs to one turn. A reindex or clear beside an embedding
   breaks this for good. *)
EntriesWhole ==
    (~overlapped /\ worker.step \notin Part /\ user.op \notin {"wipe", "readd"}) =>
        /\ \A p \in Part : Len(store[p]) = count
        /\ \A i \in 1..count :
              store.texts[i] = store.embeddings[i].turn
              /\ store.texts[i] = store.turns[i] /\ store.texts[i] = store.metadatas[i]

(* A search that has embedded its query fails only when it meets the entry
   that the embedding thread is in the middle of appending. *)
SearchFailsOnlyMidAdd ==
    [][(~overlapped /\ user.op = "search" /\ user'.last = "raised")
          => worker.step \in Part]_vars

(* Whatever happens to the process, the turns given to the thread do not wait
   for ever: each is stored or dropped, or its process is over. *)
EveryTurnSettles == \A t \in Turn : (t \in Pending) ~> (t \notin Pending)

-----------------------------------------------------------------------------
(* Memory seen from outside: an entry exists once its four parts do, and a
   reindexing takes effect when the backend changes. *)

AsEntries(rows) ==
    [i \in DOMAIN rows |-> [turn |-> rows[i].texts, model |-> rows[i].embeddings.model]]

Entries ==
    IF user.op \in {"wipe", "readd", "rebind"} /\ user.rows # <<>>
      THEN AsEntries(user.rows)
      ELSE AsEntries([i \in {j \in 1..count : Readable(j)} |-> Row(i)])

Recall == INSTANCE RecallStore WITH
    entries <- Entries,
    saved <- [readable |-> file.kind # "torn", entries |-> AsEntries(file.rows)],
    model <- backend,
    running <- process \in {"up", "closed", "exiting"}

(* Memory, with its lists, thread and file, is the store RecallStore
   describes, up to the first overlap: turns are added whole and once, under the
   model in use, a reindexing moves all of them together, and a start brings
   back exactly what was written. *)
ImplementsStore ==
    Recall!Init /\ [][Recall!Next \/ overlapped']_(Recall!abstractVars)
=============================================================================
