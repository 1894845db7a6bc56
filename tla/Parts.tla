--------------------------------- MODULE Parts ---------------------------------
(***************************************************************************)
(* Four parts of ffai that stand alone, with one property each: the cache  *)
(* of embeddings, the hierarchical index, the response validator and the   *)
(* facade. Each has variables of its own.                                  *)
(***************************************************************************)
EXTENDS Integers, Sequences, FiniteSets

CONSTANTS Threads, Texts, CacheSize, MaxTexts, MaxEmbedded,   \* EmbeddingCache
          ChunkId, References, Root, MaxAdded,                \* HierarchicalIndex
          MaxRetries, MaxAttempts,                            \* ResponseValidator
          Clients, MaxCalls, MaxDeeds                         \* Facade

ASSUME BoundsAreNaturals == {CacheSize, MaxTexts, MaxRetries, MaxCalls, MaxDeeds} \subseteq Nat
ASSUME ThreadsAreFinite == IsFiniteSet(Threads)
ASSUME RootIsNoChunk == Root \notin ChunkId

VARIABLES cache, local, calls, begun, raced, abandoned,
          index, to_delete, added, readded,
          said, call, made, usage, pc, plan, attempt, best, newest, critique, prompts, judged, result,
          conv, metered, wired, worker, main, dealt, deeds, told, torn

Embedding == INSTANCE EmbeddingCache WITH
    overlapped <- raced, Caller <- Threads, Words <- Texts, MaxCalls <- MaxEmbedded

Hierarchy == INSTANCE HierarchicalIndex WITH Reference <- References

Validator == INSTANCE ResponseValidator WITH history <- said

Facades == INSTANCE Facade WITH calls <- dealt, Client <- Clients

(* A call that returns has the vector of each text at its place, whatever other
   threads do to the cache (core/embeddings.py): EmbeddingCache. *)
EmbeddingsRight == Embedding!EmbeddingsRight

(* After any additions and deletions parents and children name each other
   (rag/indexing/hierarchical.py): HierarchicalIndex. *)
LinksAgree == Hierarchy!LinksAgree

(* The verdict is that of the response returned, and retries are bounded and
   prompted by what was refused (agent/response_validator.py,
   Clients/FFMistralSmall.py): ResponseValidator. *)
JudgedRight == Validator!JudgedRight

(* Every exchange stays with the client that is wired, once, and is reported
   by its own call (FFAI.py): Facade. *)
WiringRight == Facades!WiringRight
=============================================================================
