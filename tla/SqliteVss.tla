------------------------------- MODULE SqliteVss -------------------------------
(***************************************************************************)
(* SQLiteVssStore: a table of chunks and, beside it, a virtual table of    *)
(* vectors that refers to the chunks by their row number. The store is a   *)
(* value; each operation is one transaction of SQLite on it. A vector is   *)
(* the content it was computed from.                                       *)
(***************************************************************************)
EXTENDS Naturals, FiniteSets, SequencesExt

(* data: id -> [row, content, meta]; vectors: row number -> vector. *)
EmptyStore == [data |-> <<>>, vectors |-> <<>>]

Ids(db) == DOMAIN db.data

Count(db) == Cardinality(Ids(db))

(* SQLite numbers a new row one above the largest in use; a row about to be
   replaced is still in use. *)
NewRow(db) == 1 + Max({0} \union {d.row : d \in Range(db.data)})

(* INSERT OR REPLACE of a chunk gives it a new row; its vector is written at
   that row, and the one at the old row, if any, stays. *)
PutChunk(db, chunk) ==
    LET row == NewRow(db) IN
    [data |-> [id \in Ids(db) \union {chunk.id} |->
                  IF id = chunk.id
                    THEN [row |-> row, content |-> chunk.content, meta |-> chunk.meta]
                  ELSE db.data[id]],
     vectors |-> [r \in DOMAIN db.vectors \union {row} |->
                  IF r = row THEN chunk.content ELSE db.vectors[r]]]

(* _sync_add: all the chunks, or, if anything raises, none. *)
Add(db, chunks) == FoldLeft(PutChunk, db, chunks)

(* Deleted are the chunks named and the vectors of their rows. *)
Without(db, gone) ==
    LET rows == {db.data[id].row : id \in gone} IN
    [data |-> Restrict(db.data, Ids(db) \ gone),
     vectors |-> Restrict(db.vectors, DOMAIN db.vectors \ rows)]

(* delete_by_source; it finds the vectors through the rows in use. *)
DeleteBySource(db, source) == Without(db, {id \in Ids(db) : db.data[id].meta.source = source})

DeleteBySourceAndStrategy(db, source, strategy) ==
    Without(db, {id \in Ids(db) : db.data[id].meta.source = source /\ db.data[id].meta.strategy = strategy})

(* _sync_search: the first vectors by the order of the index, of which those
   left behind by a replaced chunk have no row of data. *)
Found(db, nearest, limit) ==
    LET Nearer(r, s) ==
            \/ nearest[db.vectors[r]] < nearest[db.vectors[s]]
            \/ nearest[db.vectors[r]] = nearest[db.vectors[s]] /\ r < s
        rows == SetToSortSeq(DOMAIN db.vectors, Nearer)
        live == SelectSeq(SubSeq(rows, 1, Min({limit, Len(rows)})),
                          LAMBDA r : \E id \in Ids(db) : db.data[id].row = r)
    IN [k \in DOMAIN live |-> CHOOSE id \in Ids(db) : db.data[id].row = live[k]]

(* Mutant: the rows of every chunking strategy are looked at. *)
NeedsReindexAnyStrategy(db, source, checksum, strategy) ==
    LET sums == {d.meta.checksum : d \in {e \in Range(db.data) : e.meta.source = source}} IN
    IF sums = {} THEN {TRUE} ELSE {sum # checksum : sum \in sums}

(* needs_reindex looks at one row of the source under the strategy; SQLite does
   not say which: the set of the answers it may give. *)
NeedsReindex(db, source, checksum, strategy) ==
    LET sums == {d.meta.checksum : d \in {e \in Range(db.data) :
                     e.meta.source = source /\ e.meta.strategy = strategy}} IN
    IF sums = {} THEN {TRUE} ELSE {sum # checksum : sum \in sums}

(* A search meets the vector of a chunk at the row of that chunk. *)
VectorsOfRows(db) ==
    \A d \in Range(db.data) : d.row \in DOMAIN db.vectors /\ db.vectors[d.row] = d.content
=============================================================================
