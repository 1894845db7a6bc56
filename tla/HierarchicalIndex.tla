--------------------------- MODULE HierarchicalIndex ---------------------------
(***************************************************************************)
(* The index of ffai.rag.indexing.hierarchical: chunks, and the links      *)
(* between parents and children kept twice, in both directions.            *)
(***************************************************************************)
EXTENDS Naturals, Sequences, Functions

CONSTANTS ChunkId, Reference,
          Root,             \* the parent of a chunk that has none
          MaxAdded          \* bound: calls of add_chunk

VARIABLES index,            \* chunks, childrenOf and parentOf
          to_delete,        \* what delete_by_reference has still to delete
          added,            \* calls of add_chunk
          readded           \* an id was added again while it was there

vars == << index, to_delete, added, readded >>

Empty == [chunks |-> <<>>, childrenOf |-> <<>>, parentOf |-> <<>>]

Ids(idx) == DOMAIN idx.chunks

Put(f, key, value) == [k \in DOMAIN f \union {key} |-> IF k = key THEN value ELSE f[k]]

Drop(f, keys) == Restrict(f, DOMAIN f \ keys)

Listed(idx, parent) == IF parent \in DOMAIN idx.childrenOf THEN idx.childrenOf[parent] ELSE <<>>

Linked(idx, id, parent, reference) ==
    [chunks |-> Put(idx.chunks, id, [parent |-> parent, reference |-> reference]),
     parentOf |-> IF parent = Root THEN idx.parentOf ELSE Put(idx.parentOf, id, parent),
     childrenOf |->
        IF parent = Root THEN Put(idx.childrenOf, id, Listed(idx, id))
        ELSE Put(idx.childrenOf, parent, Append(Listed(idx, parent), id))]

(* [cid for cid in list if cid != id] *)
Without(list, id) ==
    LET front[k \in 0..Len(list)] ==
           IF k = 0 THEN <<>>
           ELSE IF list[k] = id THEN front[k - 1] ELSE Append(front[k - 1], list[k])
    IN  front[Len(list)]

(* Mutant: the parent forgets nothing. *)
UnlinkedNever(idx, id) == idx.childrenOf

(* The list of the parent loses the chunk. *)
Unlinked(idx, id) ==
    LET parent == idx.chunks[id].parent IN
    [p \in DOMAIN idx.childrenOf |->
        IF p = parent THEN Without(idx.childrenOf[p], id) ELSE idx.childrenOf[p]]

(* delete_chunk removes the children with their parent, but nothing below
   them. *)
Deleted(idx, id) ==
    LET gone == {id} \union Range(Listed(idx, id)) IN
    IF id \notin Ids(idx) THEN idx
    ELSE [chunks |-> Drop(idx.chunks, gone),
          parentOf |-> Drop(idx.parentOf, gone),
          childrenOf |-> Drop(Unlinked(idx, id), {id})]

Init == index = Empty /\ to_delete = {} /\ added = 0 /\ readded = FALSE

Idle == to_delete = {}

AddChunk(id, parent, reference) ==
    /\ Idle /\ added < MaxAdded /\ parent # id
    /\ index' = Linked(index, id, parent, reference)
    /\ added' = added + 1
    /\ readded' = (readded \/ id \in Ids(index))
    /\ UNCHANGED to_delete

DeleteChunk(id) ==
    /\ Idle
    /\ index' = Deleted(index, id)
    /\ UNCHANGED << to_delete, added, readded >>

(* delete_by_reference collects the ids, then calls delete_chunk for one after
   the other, here in any order of the dictionary; a chunk that went with its
   parent is not found. *)
DeleteByReference(reference) ==
    /\ Idle
    /\ to_delete' = {id \in Ids(index) : index.chunks[id].reference = reference}
    /\ UNCHANGED << index, added, readded >>

DeleteNext ==
    /\ \E id \in to_delete : index' = Deleted(index, id) /\ to_delete' = to_delete \ {id}
    /\ UNCHANGED << added, readded >>

Clear == Idle /\ index' = Empty /\ UNCHANGED << to_delete, added, readded >>

Next ==
    \/ \E id \in ChunkId, parent \in ChunkId \union {Root}, reference \in Reference :
          AddChunk(id, parent, reference)
    \/ \E id \in ChunkId : DeleteChunk(id)
    \/ \E reference \in Reference : DeleteByReference(reference)
    \/ DeleteNext
    \/ Clear

Spec == Init /\ [][Next]_vars

-----------------------------------------------------------------------------
(* The two directions of a link agree: a chunk of the index is listed under
   the parent it names, once, and under no other, whatever was deleted along
   with whom and in which order; and nothing is said of the parent of a chunk
   that is gone. Only adding an id again while it is there breaks this: the
   lists are appended to without a look (rag/indexing/hierarchical.py:62-69,
   195-217). *)
LinksAgree ==
    ~readded =>
      /\ DOMAIN index.parentOf \subseteq Ids(index)
      /\ \A id \in Ids(index), parent \in ChunkId :
            LET places == {k \in DOMAIN Listed(index, parent) : Listed(index, parent)[k] = id}
                named == index.chunks[id].parent IN
            /\ named = parent <=> (id \in DOMAIN index.parentOf /\ index.parentOf[id] = parent)
            /\ named = parent => \E k \in places : places = {k}
            /\ named # parent => places = {}
=============================================================================
