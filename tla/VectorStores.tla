----------------------------- MODULE VectorStores -----------------------------
(***************************************************************************)
(* The four backends of ffai.rag.stores under the same calls, as RAG makes *)
(* them: a document is added under ids made of its source and the place of *)
(* the chunk. SqliteVss is a module of its own; of the other backends the  *)
(* database is outside the repository, and is modelled by what the         *)
(* statements the adapters send it do.                                     *)
(***************************************************************************)
EXTENDS Naturals, Sequences, FiniteSets, SequencesExt, FiniteSetsExt, Functions, TLC

CONSTANTS Source, Version, Strategy,
          ChunkCount(_),     \* how many chunks a version has
          Named,             \* the versions whose metadata bring a "content" of their own
          Page,              \* the points one scroll of Qdrant returns
          MaxOperations      \* bound

Sqlite == INSTANCE SqliteVss

VARIABLES chroma, qdrant, pgvector, sqlite,   \* the four databases
          log                                 \* history: the calls made

vars == << chroma, qdrant, pgvector, sqlite, log >>

Empty == <<>>

Init ==
    /\ chroma = Empty /\ qdrant = Empty /\ pgvector = Empty /\ sqlite = Sqlite!EmptyStore
    /\ log = <<>>

-----------------------------------------------------------------------------
(* The chunks of a version of a source. A caller may give index() metadata of
   any name, "content" too. *)
Text(source, version, i) == << source, version, i >>

Metadata(source, version, strategy) ==
    LET meta == [source |-> source, checksum |-> version, strategy |-> strategy] IN
    IF version \in Named THEN meta @@ [content |-> "given"] ELSE meta

ChunksOf(source, version, strategy) ==
    [i \in 1..ChunkCount(version) |->
        [id |-> << source, i >>, content |-> Text(source, version, i),
         meta |-> Metadata(source, version, strategy)]]

Rows(chunks) ==
    [id \in {c.id : c \in ToSet(chunks)} |->
        LET c == CHOOSE d \in ToSet(chunks) : d.id = id IN [content |-> c.content, meta |-> c.meta]]

(* collection.add ignores the ids it has. *)
ChromaAdd(db, chunks) == db @@ Rows(chunks)

(* Mutant: DO NOTHING on a conflict. *)
PgvectorAddNew(db, chunks) == db @@ Rows(chunks)

(* ON CONFLICT DO UPDATE *)
PgvectorAdd(db, chunks) == Rows(chunks) @@ db

(* A point has an id of its own, a function of that of the chunk, the vector
   of the text, and one payload: the metadata and, unless they have one, the
   content. *)
Point(id) == << "uuid", id >>

ChunkOfPoint(point) == point[2]

PointOf(row) == [vector |-> row.content, payload |-> row.meta @@ [content |-> row.content]]

QdrantAdd(db, chunks) ==
    LET rows == Rows(chunks) IN
    [point \in {Point(id) : id \in DOMAIN rows} |-> PointOf(rows[ChunkOfPoint(point)])] @@ db

-----------------------------------------------------------------------------
(* A filter is a set of << field, value >> pairs that must all hold, and
   whether it was written with $and. *)
Filter(pairs, written) == [pairs |-> pairs, and |-> written]

Holds(meta, pairs) == \A p \in pairs : p[1] \in DOMAIN meta /\ meta[p[1]] = p[2]

BySource(source) == { << "source", source >> }
BySourceAndStrategy(source, strategy) == { << "source", source >>, << "strategy", strategy >> }

Kept(db, pairs) == Restrict(db, {id \in DOMAIN db : ~Holds(db[id].meta, pairs)})

QdrantKept(db, pairs) == Restrict(db, {p \in DOMAIN db : ~Holds(db[p].payload, pairs)})

(* needs_reindex looks at one row of the source and strategy; which one the
   databases do not say: the answers possible. *)
NeedsReindex(metas, source, version, strategy) ==
    LET sums == {m.checksum : m \in {n \in metas : Holds(n, BySourceAndStrategy(source, strategy))}} IN
    IF sums = {} THEN {TRUE} ELSE {sum # version : sum \in sums}

Metas(db) == {row.meta : row \in Range(db)}

(* scroll returns one page of the points, by their ids. *)
QdrantPages(db) ==
    {Restrict(db, page) : page \in kSubset(Min({Page, Cardinality(DOMAIN db)}), DOMAIN db)}

(* The nearest rows, each given with its text. *)
Best(text, nearest, limit) ==
    LET Nearer(a, b) == nearest[text[a]] < nearest[text[b]] IN
    SubSeq(SetToSortSeq(DOMAIN text, Nearer), 1, Min({limit, Cardinality(DOMAIN text)}))

(* Several fields without $and are refused by Chroma. *)
ChromaRefuses(filter) == Cardinality(filter.pairs) > 1 /\ ~filter.and

ChromaSearch(db, nearest, topK, filter) ==
    Best([id \in {r \in DOMAIN db : Holds(db[r].meta, filter.pairs)} |-> db[id].content], nearest, topK)

PgvectorSearch(db, nearest, topK, filter) ==
    Best([id \in {r \in DOMAIN db : Holds(db[r].meta, filter.pairs)} |-> db[id].content], nearest, topK)

QdrantSearch(db, nearest, topK, filter) ==
    Best([p \in {r \in DOMAIN db : Holds(db[r].payload, filter.pairs)} |-> db[p].vector], nearest, topK)

(* sqlite-vss knows no filter: three times as many are fetched, then those
   that hold are kept. *)
SqliteSearch(db, nearest, topK, filter) ==
    LET found == Sqlite!Found(db, nearest, IF filter.pairs = {} THEN topK ELSE 3 * topK)
        hits == SelectSeq(found, LAMBDA id : Holds(db.data[id].meta, filter.pairs))
    IN SubSeq(hits, 1, Min({topK, Len(hits)}))

-----------------------------------------------------------------------------
Made(call) == Len(log) < MaxOperations /\ log' = Append(log, call)

Add(source, version, strategy) ==
    LET chunks == ChunksOf(source, version, strategy) IN
    /\ Made([op |-> "add", source |-> source, strategy |-> strategy, chunks |-> chunks])
    /\ chroma' = ChromaAdd(chroma, chunks)
    /\ qdrant' = QdrantAdd(qdrant, chunks)
    /\ pgvector' = PgvectorAdd(pgvector, chunks)
    /\ sqlite' = Sqlite!Add(sqlite, chunks)

(* delete_by_source *)
Delete(source) ==
    /\ Made([op |-> "delete", source |-> source])
    /\ chroma' = Kept(chroma, BySource(source))
    /\ qdrant' = QdrantKept(qdrant, BySource(source))
    /\ pgvector' = Kept(pgvector, BySource(source))
    /\ sqlite' = Sqlite!DeleteBySource(sqlite, source)

(* delete_by_source_and_strategy *)
DeleteStrategy(source, strategy) ==
    LET pairs == BySourceAndStrategy(source, strategy) IN
    /\ Made([op |-> "delete strategy", source |-> source, strategy |-> strategy])
    /\ chroma' = Kept(chroma, pairs)
    /\ qdrant' = QdrantKept(qdrant, pairs)
    /\ pgvector' = Kept(pgvector, pairs)
    /\ sqlite' = Sqlite!DeleteBySourceAndStrategy(sqlite, source, strategy)

(* Every backend empties its tables or makes them anew. *)
Clear ==
    /\ Made([op |-> "clear"])
    /\ chroma' = Empty /\ qdrant' = Empty /\ pgvector' = Empty /\ sqlite' = Sqlite!EmptyStore

Next ==
    \/ \E source \in Source, version \in Version, strategy \in Strategy :
          Add(source, version, strategy)
    \/ \E source \in Source : Delete(source)
    \/ \E source \in Source, strategy \in Strategy : DeleteStrategy(source, strategy)
    \/ Clear

-----------------------------------------------------------------------------
(* The distances of a query: the texts in the order given, nearest first. *)
Nearest(order) == [t \in ToSet(order) |-> CHOOSE k \in DOMAIN order : order[k] = t]

Filters ==
    {Filter({}, FALSE)}
    \union {Filter(BySource(source), FALSE) : source \in Source}
    \union {Filter(BySourceAndStrategy(source, strategy), written) :
               source \in Source, strategy \in Strategy, written \in BOOLEAN}

(* The calls that added a chunk under an id, and those whose chunks a later
   call removed. *)
Adds(id) == {k \in DOMAIN log : log[k].op = "add" /\ \E c \in ToSet(log[k].chunks) : c.id = id}

Removed(k) ==
    \E r \in k + 1 .. Len(log) :
       \/ log[r].op = "clear"
       \/ log[r].op = "delete" /\ log[r].source = log[k].source
       \/ log[r].op = "delete strategy" /\ log[r].source = log[k].source /\ log[r].strategy = log[k].strategy

AllIds == Source \X (1..Max({ChunkCount(v) : v \in Version}))

RowOf(k, id) == Rows(log[k].chunks)[id]

(* What was added last under each id, and is not removed. *)
Latest ==
    [id \in {i \in AllIds : Adds(i) # {} /\ ~Removed(Max(Adds(i)))} |-> RowOf(Max(Adds(id)), id)]

(* pgvector, sqlite-vss and Qdrant hold under each id what was added last,
   unless it was removed since. Qdrant gives a text back as it was, but for
   metadata that bring a "content"; a scroll shows everything that fits a
   page. Chroma holds the first chunk of those added under the id and not
   removed, so long as nothing is removed by its strategy; else, some chunk
   that was added and is not removed. *)
StoredRight ==
    LET latest == Latest IN
    /\ pgvector = latest
    /\ [id \in Sqlite!Ids(sqlite) |-> [content |-> sqlite.data[id].content, meta |-> sqlite.data[id].meta]] = latest
    /\ Sqlite!VectorsOfRows(sqlite)
    /\ DOMAIN qdrant = {Point(id) : id \in DOMAIN latest}
    /\ \A p \in DOMAIN qdrant :
          LET row == latest[ChunkOfPoint(p)] IN
          /\ qdrant[p].payload.content = IF "content" \in DOMAIN row.meta THEN "given" ELSE row.content
          /\ Holds(qdrant[p].payload, {<<f, row.meta[f]>> : f \in DOMAIN row.meta})
    /\ \A page \in QdrantPages(qdrant) : Cardinality(DOMAIN latest) <= Page => page = qdrant
    /\ \A id \in DOMAIN chroma : \E k \in Adds(id) : ~Removed(k) /\ chroma[id] = RowOf(k, id)
    /\ (\A k \in DOMAIN log : log[k].op # "delete strategy") =>
          \A id \in AllIds :
             LET held == {k \in Adds(id) : ~Removed(k)} IN
             IF held = {} THEN id \notin DOMAIN chroma
             ELSE id \in DOMAIN chroma /\ chroma[id] = RowOf(Min(held), id)

(* No backend calls a version current of which it has no chunk. If all a
   source has under a strategy is of one version, exactly that one is
   current. On Chroma the version may be an old one. *)
CurrentRight ==
    \A source \in Source, version \in Version, strategy \in Strategy :
       \A metas \in {Metas(chroma), Metas(pgvector), {point.payload : point \in Range(qdrant)}} :
          LET answers == NeedsReindex(metas, source, version, strategy)
              of == {m.checksum : m \in {n \in metas : Holds(n, BySourceAndStrategy(source, strategy))}} IN
          /\ FALSE \in answers => version \in of
          /\ of = {version} <=> answers = {FALSE}
          /\ metas = Metas(pgvector) => answers = Sqlite!NeedsReindex(sqlite, source, version, strategy)

(* pgvector and Qdrant answer a query with the same chunks, the nearest of
   those the filter admits; sqlite-vss with no others, and with the same when
   there are no more vectors than it fetches. *)
SearchAgrees(order) ==
    \A filter \in Filters, topK \in 1..2 :
       LET nearest == Nearest(order)
           best == PgvectorSearch(pgvector, nearest, topK, filter)
           points == QdrantSearch(qdrant, nearest, topK, filter)
           rows == SqliteSearch(sqlite, nearest, topK, filter) IN
       /\ [k \in DOMAIN points |-> ChunkOfPoint(points[k])] = best
       /\ \A k \in DOMAIN rows : Holds(pgvector[rows[k]].meta, filter.pairs)
       /\ IsInjective(rows)
       /\ Cardinality(DOMAIN sqlite.vectors) <= 3 * topK /\ filter.pairs # {} => rows = best
       /\ ~ChromaRefuses(filter) =>
             \A id \in ToSet(ChromaSearch(chroma, nearest, topK, filter)) : Holds(chroma[id].meta, filter.pairs)

(* What each source was indexed as last, unless it was removed since. *)
LastAdds ==
    {k \in DOMAIN log :
        /\ log[k].op = "add" /\ ~Removed(k)
        /\ \A later \in k + 1 .. Len(log) : log[later].op = "add" => log[later].source # log[k].source}

SameStrategy(j, k) == log[j].source = log[k].source /\ log[j].strategy = log[k].strategy

Meta(k) == log[k].chunks[1].meta

OtherVersion(j, k) == SameStrategy(j, k) /\ Meta(j).checksum # Meta(k).checksum

(* "True if the source has changed or is not indexed" is the contract of
   needs_reindex, rag/stores/base.py:115, of what a source was indexed as last.
   pgvector keeps it exactly when no chunk of another version is left behind the
   last one of the new version. Chroma keeps it when what was indexed last is
   all the source has had, and breaks it, until there is a removal, whenever
   another version came before. *)
LastIsCurrent ==
    \A k \in LastAdds :
       LET Current(metas) ==
               NeedsReindex(metas, log[k].source, Meta(k).checksum, log[k].strategy) = {FALSE}
           left == {id \in AllIds : id[1] = log[k].source /\ id[2] > Len(log[k].chunks) /\ Adds(id) # {}} IN
       /\ Current(Metas(pgvector))
             <=> \A id \in left : LET j == Max(Adds(id)) IN Removed(j) \/ ~OtherVersion(j, k)
       /\ (\A j \in 1 .. k - 1 :
               log[j].op = "add" /\ log[j].source = log[k].source => Meta(j) = Meta(k))
             => Current(Metas(chroma))
       /\ (\E j \in 1 .. k - 1 : log[j].op = "add" /\ ~Removed(j) /\ OtherVersion(j, k)
               /\ \A i \in 1 .. j - 1 : log[i].op = "add" => log[i].source # log[j].source)
             => ~Current(Metas(chroma))

StoresRight(order) == StoredRight /\ CurrentRight /\ LastIsCurrent /\ SearchAgrees(order)
=============================================================================
