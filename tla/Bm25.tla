--------------------------------- MODULE Bm25 ---------------------------------
(***************************************************************************)
(* BM25Index: the sparse index, a value that its operations replace. Next  *)
(* to the documents it keeps counters, updated at every call and never     *)
(* recomputed, from which the scores are made. A content is a sequence of  *)
(* terms; scores, being logarithms, are left out: a search is the set of   *)
(* documents it scores.                                                    *)
(***************************************************************************)
EXTENDS Naturals, Sequences, SequencesExt

(* documents: id -> [content, meta]; frequencies: term -> how many documents
   contain it, terms of no document left out; average: the length in terms
   of all documents over their number, as they were when it was computed. *)
EmptyIndex ==
    [documents |-> <<>>, frequencies |-> <<>>, total |-> 0,
     average |-> [length |-> 0, over |-> 0]]

Terms(content) == Range(content)

Held(index) == DOMAIN index.documents

(* _doc_lengths holds the length of every document of the index. *)
TotalLength(documents) ==
    FoldFunction(LAMBDA d, n : n + Len(d.content), 0, documents)

Averaged(documents, total) ==
    IF total > 0 THEN [length |-> TotalLength(documents), over |-> total]
                 ELSE [length |-> 0, over |-> 0]

(* A term loses one document, and its counter at zero. *)
Uncounted(frequencies, terms) ==
    LET left == {t \in DOMAIN frequencies : t \in terms => frequencies[t] > 1} IN
    [t \in left |-> IF t \in terms THEN frequencies[t] - 1 ELSE frequencies[t]]

Counted(frequencies, terms) ==
    [t \in DOMAIN frequencies \union terms |->
        (IF t \in DOMAIN frequencies THEN frequencies[t] ELSE 0)
        + (IF t \in terms THEN 1 ELSE 0)]

(* Mutant: a replaced document stays in the frequencies of its old terms. *)
AddDocumentTwice(index, id, content, meta) ==
    LET documents == [i \in Held(index) \union {id} |->
                         IF i = id THEN [content |-> content, meta |-> meta]
                         ELSE index.documents[i]]
        total == index.total + (IF id \in Held(index) THEN 0 ELSE 1) IN
    [documents |-> documents,
     frequencies |-> Counted(index.frequencies, Terms(content)),
     total |-> total,
     average |-> Averaged(documents, total)]

(* add_document: a document of the same id is taken out of the counters. *)
AddDocument(index, id, content, meta) ==
    LET known == id \in Held(index)
        before == IF known THEN Uncounted(index.frequencies, Terms(index.documents[id].content))
                  ELSE index.frequencies
        documents == [i \in Held(index) \union {id} |->
                         IF i = id THEN [content |-> content, meta |-> meta]
                         ELSE index.documents[i]]
        total == index.total + (IF known THEN 0 ELSE 1) IN
    [documents |-> documents,
     frequencies |-> Counted(before, Terms(content)),
     total |-> total,
     average |-> Averaged(documents, total)]

(* The loop of aindex over the chunks of a document. *)
AddChunks(index, chunks) ==
    FoldLeft(LAMBDA i, k : AddDocument(i, k.id, k.content, k.meta), index, chunks)

(* delete_document of a document that is there. *)
DeleteDocument(index, id) ==
    LET documents == Restrict(index.documents, Held(index) \ {id})
        total == index.total - 1 IN
    [documents |-> documents,
     frequencies |-> Uncounted(index.frequencies, Terms(index.documents[id].content)),
     total |-> total,
     average |-> Averaged(documents, total)]

(* delete_by_metadata, with the condition on the metadata as a set of ids. *)
DeleteAll(index, ids) ==
    FoldSet(LAMBDA id, i : DeleteDocument(i, id), index, ids)

(* search: the documents with a term of the query that the counters know. *)
Matches(index, query) ==
    {id \in Held(index) : \E t \in Terms(query) \intersect DOMAIN index.frequencies :
                              t \in Terms(index.documents[id].content)}

(* The counters are those of the documents: what a score is made of. *)
CountersExact(index) ==
    /\ DOMAIN index.frequencies = UNION {Terms(d.content) : d \in Range(index.documents)}
    /\ \A t \in DOMAIN index.frequencies :
          index.frequencies[t] =
              Quantify(Held(index), LAMBDA id : t \in Terms(index.documents[id].content))
    /\ index.total = Quantify(Held(index), LAMBDA id : TRUE)
    /\ index.average = Averaged(index.documents, index.total)
=============================================================================
