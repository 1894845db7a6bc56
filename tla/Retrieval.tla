------------------------------- MODULE Retrieval -------------------------------
(***************************************************************************)
(* A search of ffai.rag: the vector store and BM25 each rank documents,    *)
(* reciprocal rank fusion joins the two rankings, further queries add      *)
(* theirs, and a reranker picks. A ranking is a sequence of documents;     *)
(* scores are whole numbers in units of one common fraction.               *)
(***************************************************************************)
EXTENDS Naturals, Integers, Sequences, SequencesExt, FiniteSets, FiniteSetsExt

CONSTANTS Doc,
          Fetched,          \* what a search may fetch at most (50 in the code)
          RrfK,             \* _bm25_rrf_k
          WeightUnits       \* alpha is a number of these units

FirstOf(ranking, n) == SubSeq(ranking, 1, IF n < Len(ranking) THEN n ELSE Len(ranking))

PlaceOf(ranking, d) == CHOOSE i \in DOMAIN ranking : ranking[i] = d

(* Documents in the order they are met, by falling score. *)
SortedBy(docs, score) ==
    LET before(i, j) == score[docs[i]] > score[docs[j]] \/ (score[docs[i]] = score[docs[j]] /\ i < j)
        order == SetToSortSeq(DOMAIN docs, before)
    IN [i \in DOMAIN order |-> docs[order[i]]]

Unique(docs) ==
    SelectSeq([i \in DOMAIN docs |-> [doc |-> docs[i], first |-> \A j \in 1..(i - 1) : docs[j] # docs[i]]],
              LAMBDA x : x.first)

Distinct(docs) == [i \in DOMAIN Unique(docs) |-> Unique(docs)[i].doc]

-----------------------------------------------------------------------------
(* Fusion *)

Ranks == 1..Cardinality(Doc)

(* The common multiple that makes weight / (k + rank) a whole number. *)
CommonMultiple == FoldSet(LAMBDA r, n : n * (RrfK + r), 1, Ranks)

Share(weight, rank) == weight * (CommonMultiple \div (RrfK + rank))

(* Mutant: the rank counts for the documents below. *)
RrfScoreReversed(rankings, weights, d) ==
    FoldSet(LAMBDA l, n : n + Share(weights[l], Len(rankings[l]) + 1 - PlaceOf(rankings[l], d)), 0,
            {l \in DOMAIN rankings : d \in ToSet(rankings[l])})

RrfScore(rankings, weights, d) ==
    FoldSet(LAMBDA l, n : n + Share(weights[l], PlaceOf(rankings[l], d)), 0,
            {l \in DOMAIN rankings : d \in ToSet(rankings[l])})

(* reciprocal_rank_fusion *)
ReciprocalRankFusion(rankings, weights) ==
    LET docs == Distinct(FlattenSeq(rankings)) IN
    SortedBy(docs, [d \in ToSet(docs) |-> RrfScore(rankings, weights, d)])

(* HybridSearch._reciprocal_rank_fusion adds one list after the other to the
   scores. *)
HybridFusion(vector, sparse, alpha) ==
    LET add(scores, ranking, weight) ==
            FoldLeft(LAMBDA s, i : [s EXCEPT ![ranking[i]] = << (IF @ = <<>> THEN 0 ELSE @[1]) + Share(weight, i) >>],
                     scores, [i \in DOMAIN ranking |-> i])
        scores == add(add([d \in Doc |-> <<>>], vector, alpha), sparse, WeightUnits - alpha)
    IN SortedBy(Distinct(vector \o sparse), [d \in {x \in Doc : scores[x] # <<>>} |-> scores[d][1]])

-----------------------------------------------------------------------------
(* asearch *)

FetchCount(topK) == IF 3 * topK < Fetched THEN 3 * topK ELSE Fetched

Matching(ranking, filter) == SelectSeq(ranking, LAMBDA d : d \in filter)

(* A store filters before it counts, BM25 is filtered after. Both name a chunk
   by the id it was indexed under. (Not so Qdrant, whose ids are its own,
   qdrant.py:156-160: there no chunk is in both rankings, as for disjoint ones.) *)
StoreSearch(ranking, n, filter) == FirstOf(Matching(ranking, filter), n)

SparseSearch(ranking, n, filter) == Matching(FirstOf(ranking, n), filter)

HybridSearch(q, request) ==
    FirstOf(ReciprocalRankFusion(
                << StoreSearch(q.vector, FetchCount(request.topK), request.filter),
                   SparseSearch(q.sparse, FetchCount(request.topK), request.filter) >>,
                << request.alpha, WeightUnits - request.alpha >>),
            request.topK)

(* _araw_search: with both indexes, with one, with none. *)
RawSearch(q, request) ==
    CASE request.indexes = "both" -> HybridSearch(q, request)
      [] request.indexes = "store" -> StoreSearch(q.vector, request.topK, request.filter)
      [] request.indexes = "bm25" -> SparseSearch(q.sparse, request.topK, request.filter)
      [] OTHER -> <<>>

(* fuse_search_results: the lists one after the other, each document once. *)
FuseSearchResults(lists, n) == FirstOf(Distinct(FlattenSeq(lists)), n)

(* _expand_query: the first of the queries is taken to be the one that was
   searched for already; an expander that raises leaves the first search. *)
ExpandQuery(raw, request) ==
    IF Len(request.queries) <= 1 THEN raw
    ELSE FuseSearchResults(<<raw>> \o [i \in DOMAIN Tail(request.queries) |->
                                          RawSearch(Tail(request.queries)[i], request)],
                           request.topK)

(* CrossEncoderReranker: by the scores of a model, or as it was when the
   model fails. *)
CrossEncoder(docs, model, n) ==
    IF model = <<>> THEN FirstOf(docs, n)
    ELSE FirstOf(SortedBy(docs, [d \in ToSet(docs) |-> Len(model) - PlaceOf(model, d)]), n)

(* DiversityReranker: after the first, the best of what is left; relevance
   is the score of a document where a search gave one, which fusion does not,
   and topics stand for the words documents share. *)
RECURSIVE Diversify(_, _, _, _, _)
Diversify(selected, remaining, n, topic, relevance) ==
    IF remaining = <<>> \/ Len(selected) >= n THEN selected
    ELSE LET alike(d) == IF \E s \in ToSet(selected) : topic[s] = topic[d] THEN 1 ELSE 0
             mmr == [d \in ToSet(remaining) |-> 7 * relevance[d] - 30 * alike(d)]
             best == Head(SortedBy(remaining, mmr))
         IN Diversify(Append(selected, best), SelectSeq(remaining, LAMBDA d : d # best), n, topic, relevance)

Diversity(docs, request) ==
    LET relevance == [d \in ToSet(docs) |-> IF request.indexes = "both" THEN 0 ELSE 10 - PlaceOf(docs, d)] IN
    IF Len(docs) <= 1 THEN FirstOf(docs, request.topK)
    ELSE Diversify(<< Head(docs) >>, Tail(docs), request.topK, request.topic, relevance)

Reranked(docs, request) ==
    CASE docs = <<>> -> docs
      [] request.reranker = "cross_encoder" -> CrossEncoder(docs, request.model, request.topK)
      [] request.reranker = "diversity" -> Diversity(docs, request)
      [] OTHER -> FirstOf(docs, request.topK)

Search(request) ==
    FirstOf(Reranked(ExpandQuery(RawSearch(request.query, request), request), request), request.topK)

-----------------------------------------------------------------------------
(* A document that no ranking puts below another, and that is ranked wherever
   the other is, is above it. *)
Dominates(rankings, c, d) ==
    \A l \in DOMAIN rankings :
       d \in ToSet(rankings[l]) => /\ c \in ToSet(rankings[l])
                                   /\ PlaceOf(rankings[l], c) < PlaceOf(rankings[l], d)

(* Fusion ranks the documents of its lists, each once, and never against all
   of the lists, whatever the weights, zero included; the two places of the
   code that fuse agree. A search returns at most top_k documents, none twice
   and none the filter excludes; another query only adds to the end of what
   the first one found, and a reranker only chooses among that
   (rag/search/hybrid.py:135-265, rag/rag.py:380-439, 646-666). *)
SearchRight(request) ==
    LET rankings == << request.query.vector, request.query.sparse >>
        weights == << request.alpha, WeightUnits - request.alpha >>
        fused == ReciprocalRankFusion(rankings, weights)
        first == RawSearch(request.query, request)
        expanded == ExpandQuery(first, request)
        hits == Search(request)
    IN /\ IsInjective(fused) /\ ToSet(fused) = ToSet(rankings[1]) \union ToSet(rankings[2])
       /\ \A c, d \in ToSet(fused) :
             (c # d /\ Dominates(rankings, c, d)) => PlaceOf(fused, c) < PlaceOf(fused, d)
       /\ fused = HybridFusion(rankings[1], rankings[2], request.alpha)
       /\ Len(hits) <= request.topK /\ IsInjective(hits) /\ ToSet(hits) \subseteq request.filter
       /\ IsPrefix(first, expanded) /\ ToSet(hits) = ToSet(expanded)
=============================================================================
