------------------------------- MODULE Search --------------------------------
(***************************************************************************)
(* app/rag/retrieval.py: concurrent searches (search_flights_hybrid), the  *)
(* two tiers of the HyDE document cache that they share, the embedding     *)
(* with its fallback endpoint (app/rag/embeddings.py), the search with its *)
(* retry without filters, and the cut to the number of results asked for.  *)
(* A step ends where the coroutine awaits.                                 *)
(*                                                                         *)
(* Documents, vectors, scores and latencies are left out: the cache is the *)
(* order of its keys, a search returns any flights that pass the filter,   *)
(* and the reranker (module Reranker) any of those it was given.           *)
(***************************************************************************)
EXTENDS Naturals, FiniteSets, Sequences, SequencesExt

CONSTANTS
    Calls,      \* coroutines that call search_flights_hybrid, again and again
    Queries,    \* query strings
    NoRequest,  \* the call has not begun
    Flights,    \* flights the collection may hold
    Matching,   \* the flights that pass the filter of a filtered call
    Requests,   \* the arguments of the calls that are considered
    CacheMax,   \* _HYDE_CACHE_MAX
    HasRedis,   \* REDIS_URL is set
    Rerank,     \* ENABLE_RERANKER
    FetchK,     \* RERANK_FETCH_K
    ReturnN     \* RERANK_RETURN_N

\* samples is HYDE_NUM_SAMPLES, or the call's override.
Request == [query: Queries, filtered: BOOLEAN, samples: Nat \ {0}, limit: Nat \ {0}]

ASSUME SearchConstants ==
    /\ Matching \subseteq Flights
    /\ Requests \subseteq Request
    /\ {CacheMax, FetchK, ReturnN} \subseteq Nat \ {0}
    /\ {HasRedis, Rerank} \subseteq BOOLEAN

VARIABLES
    cache,     \* the keys of _hyde_cache, oldest first
    shared,    \* the queries with a hyde: key in Redis
    pc,        \* Calls -> what its coroutine awaits
    request,   \* Calls -> its arguments, or NoRequest
    left,      \* Calls -> texts to embed one by one
    found,     \* Calls -> the flights of the last search, then the results
    dropped    \* Calls -> filters_dropped

callVars == <<pc, request, left, found, dropped>>
vars == <<cache, shared, callVars>>

-----------------------------------------------------------------------------

Awaits == {"redis_get", "generate", "redis_set", "embed", "embed_one",
           "search", "retry", "rerank"}
Places == Awaits \cup {"new", "done", "failed"}

TypeOK ==
    /\ cache \in Seq(Queries) /\ IsInjective(cache) /\ Len(cache) <= CacheMax
    /\ shared \in SUBSET Queries
    /\ pc \in [Calls -> Places]
    /\ request \in [Calls -> Request \cup {NoRequest}]
    /\ left \in [Calls -> Nat]
    /\ found \in [Calls -> SUBSET Flights]
    /\ dropped \in [Calls -> BOOLEAN]

Init ==
    /\ cache = <<>>
    /\ shared = {}
    /\ pc = [c \in Calls |-> "new"]
    /\ request = [c \in Calls |-> NoRequest]
    /\ left = [c \in Calls |-> 0]
    /\ found = [c \in Calls |-> {}]
    /\ dropped = [c \in Calls |-> FALSE]

Goto(c, place) == pc' = [pc EXCEPT ![c] = place]

\* An exception leaves the call, and its local variables are gone.
Raise(c) ==
    /\ Goto(c, "failed")
    /\ request' = [request EXCEPT ![c] = NoRequest]
    /\ left' = [left EXCEPT ![c] = 0]
    /\ found' = [found EXCEPT ![c] = {}]
    /\ dropped' = [dropped EXCEPT ![c] = FALSE]

Smaller(a, b) == IF a < b THEN a ELSE b

-----------------------------------------------------------------------------
(* The HyDE document: _hyde_embed, _hyde_query.                              *)

Cached(q) == q \in Range(cache)

\* (Mutants: the newest key is given up; no key is.)
LocalCacheNewest(q) ==
    LET room == IF Len(cache) >= CacheMax THEN Front(cache) ELSE cache
    IN IF q \in Range(room) THEN room ELSE Append(room, q)
LocalCacheUnbounded(q) == IF q \in Range(cache) THEN cache ELSE Append(cache, q)

\* _set_local_cache: a full dict gives up its oldest key, even when q is in
\* it already; a key that stays in the dict keeps its place.
LocalCache(q) ==
    LET room == IF Len(cache) >= CacheMax THEN Tail(cache) ELSE cache
    IN IF q \in Range(room) THEN room ELSE Append(room, q)

\* Lines 334-350, 179-180 and 99-105: the first lookup.
Begin(c) ==
    /\ pc[c] \notin Awaits
    /\ \E r \in Requests :
        /\ request' = [request EXCEPT ![c] = r]
        /\ Goto(c, IF r.samples > 1 THEN "generate"
                   ELSE IF Cached(r.query) THEN "embed"
                   ELSE IF HasRedis THEN "redis_get" ELSE "generate")
    /\ found' = [found EXCEPT ![c] = {}]
    /\ dropped' = [dropped EXCEPT ![c] = FALSE]
    /\ UNCHANGED <<cache, shared, left>>

\* Lines 105-108.
RedisGet(c) ==
    /\ pc[c] = "redis_get"
    /\ LET q == request[c].query
       IN IF q \in shared
          THEN cache' = LocalCache(q) /\ Goto(c, "embed")
          ELSE Goto(c, "generate") /\ UNCHANGED cache
    /\ UNCHANGED <<shared, request, left, found, dropped>>

\* (Mutant: the last of several samples is cached, too.)
GenerateCached(c) ==
    /\ pc[c] = "generate"
    /\ cache' = LocalCache(request[c].query)
    /\ Goto(c, IF request[c].samples > 1 \/ ~ HasRedis THEN "embed" ELSE "redis_set")
    /\ UNCHANGED <<shared, request, left, found, dropped>>

\* Lines 113-118 and 183: the model answers, or fails and the query stands in
\* for the document; one sample is cached at once, several are not.
Generate(c) ==
    /\ pc[c] = "generate"
    /\ IF request[c].samples > 1
       THEN Goto(c, "embed") /\ UNCHANGED cache
       ELSE /\ cache' = LocalCache(request[c].query)
            /\ Goto(c, IF HasRedis THEN "redis_set" ELSE "embed")
    /\ UNCHANGED <<shared, request, left, found, dropped>>

\* Line 118.
RedisSet(c) ==
    /\ pc[c] = "redis_set"
    /\ shared' = shared \cup {request[c].query}
    /\ Goto(c, "embed")
    /\ UNCHANGED <<cache, request, left, found, dropped>>

-----------------------------------------------------------------------------
(* async_embed_texts                                                         *)

\* Lines 94-102: one request for all texts; an error, or a number of vectors
\* that is not the number of texts, leads to one request per text.
Embed(c) ==
    /\ pc[c] = "embed"
    /\ \/ Goto(c, "search") /\ UNCHANGED left
       \/ Goto(c, "embed_one") /\ left' = [left EXCEPT ![c] = request[c].samples]
    /\ UNCHANGED <<cache, shared, request, found, dropped>>

\* (Mutant: a text that fails starts the embedding again.)
EmbedOneRetry(c) ==
    /\ pc[c] = "embed_one"
    /\ \/ /\ left' = [left EXCEPT ![c] = @ - 1]
          /\ Goto(c, IF left[c] = 1 THEN "search" ELSE "embed_one")
       \/ Goto(c, "embed") /\ left' = [left EXCEPT ![c] = 0]
    /\ UNCHANGED <<cache, shared, request, found, dropped>>

\* Lines 104-117: one text; its failure is an EmbeddingError.
EmbedOne(c) ==
    /\ pc[c] = "embed_one"
    /\ \/ /\ left' = [left EXCEPT ![c] = @ - 1]
          /\ Goto(c, IF left[c] = 1 THEN "search" ELSE "embed_one")
          /\ UNCHANGED <<request, found, dropped>>
       \/ Raise(c)
    /\ UNCHANGED <<cache, shared>>

-----------------------------------------------------------------------------
(* search_flights_hybrid                                                     *)

\* Line 336.
Candidates(c) == IF Rerank THEN FetchK ELSE request[c].limit

\* What Qdrant may return, with what is ingested from one search to the next:
\* a list of at most k flights, all of which pass the filter.
Hits(filtered, k) ==
    {hits \in SUBSET (IF filtered THEN Matching ELSE Flights) :
        IsFiniteSet(hits) /\ Cardinality(hits) <= k}

\* Lines 364-371: without the reranker the search ends here.
AfterSearch(c, hits) == IF Rerank /\ hits # {} THEN "rerank" ELSE "done"

\* Lines 354-358.
VectorSearch(c) ==
    /\ pc[c] = "search"
    /\ \E hits \in Hits(request[c].filtered, Candidates(c)) :
        /\ found' = [found EXCEPT ![c] = hits]
        /\ Goto(c, IF hits = {} /\ request[c].filtered THEN "retry" ELSE AfterSearch(c, hits))
    /\ UNCHANGED <<cache, shared, request, left, dropped>>

\* (Mutant: the retry is reported only when it, too, finds nothing.)
RetrySilently(c) ==
    /\ pc[c] = "retry"
    /\ \E hits \in Hits(FALSE, Candidates(c)) :
        /\ found' = [found EXCEPT ![c] = hits]
        /\ Goto(c, AfterSearch(c, hits))
        /\ dropped' = [dropped EXCEPT ![c] = hits = {}]
    /\ UNCHANGED <<cache, shared, request, left>>

\* Lines 358-361: the search without filters.
Retry(c) ==
    /\ pc[c] = "retry"
    /\ \E hits \in Hits(FALSE, Candidates(c)) :
        /\ found' = [found EXCEPT ![c] = hits]
        /\ Goto(c, AfterSearch(c, hits))
    /\ dropped' = [dropped EXCEPT ![c] = TRUE]
    /\ UNCHANGED <<cache, shared, request, left>>

\* Line 366.
TopN(c) == Smaller(ReturnN, request[c].limit)

\* Lines 366-367: the best of the candidates, or an exception of the model.
RerankHits(c) ==
    /\ pc[c] = "rerank"
    /\ \/ /\ \E best \in SUBSET found[c] :
                /\ Cardinality(best) = Smaller(TopN(c), Cardinality(found[c]))
                /\ found' = [found EXCEPT ![c] = best]
          /\ Goto(c, "done")
          /\ UNCHANGED <<request, left, dropped>>
       \/ Raise(c)
    /\ UNCHANGED <<cache, shared>>

-----------------------------------------------------------------------------
(* The surroundings.                                                         *)

\* Redis or Qdrant raises, or the turn that searches is cancelled.
Fails(c) ==
    /\ pc[c] \in Awaits
    /\ Raise(c)
    /\ UNCHANGED <<cache, shared>>

\* HYDE_CACHE_TTL.
Expire(q) ==
    /\ q \in shared
    /\ shared' = shared \ {q}
    /\ UNCHANGED <<cache, callVars>>

\* Another worker caches a document for q in Redis.
CachedElsewhere(q) ==
    /\ HasRedis /\ q \notin shared
    /\ shared' = shared \cup {q}
    /\ UNCHANGED <<cache, callVars>>

-----------------------------------------------------------------------------

\* Ollama's HTTP client and Qdrant's have timeouts (app/core/http_client.py,
\* app/rag/qdrant_client.py), and the reranker computes; the client of Redis
\* has none (app/core/redis_client.py, line 28).
TimedStep(c) ==
    \/ Generate(c) \/ Embed(c) \/ EmbedOne(c)
    \/ VectorSearch(c) \/ Retry(c) \/ RerankHits(c)

Step(c) == RedisGet(c) \/ RedisSet(c) \/ TimedStep(c)

Next ==
    \/ \E c \in Calls : Begin(c) \/ Step(c) \/ Fails(c)
    \/ \E q \in Queries : Expire(q) \/ CachedElsewhere(q)

Spec == Init /\ [][Next]_vars

\* A call with a timeout returns or raises; Redis owes no answer.
LiveSpec == Spec /\ \A c \in Calls : WF_vars(TimedStep(c))

-----------------------------------------------------------------------------
(* Properties.                                                               *)

(* "Per-process dict: ... eviction is FIFO at 256 slots" (line 44), although *)
(* calls that miss at the same time insert one key several times: a key only *)
(* leaves the cache as its oldest, alone, and when it is full.               *)
CacheFifo ==
    [][Range(cache) \ Range(cache') # {} =>
         Len(cache) = CacheMax /\ Range(cache) \ Range(cache') = {Head(cache)}]_vars

(* "Only n=1 HyDE uses the cache" (line 48): a call with several samples     *)
(* leaves both tiers alone in every step, so that its samples stay           *)
(* independent and none of them is served to others.                         *)
SamplesBypassCache ==
    [][\A c \in Calls :
          pc'[c] # pc[c] /\ request'[c] # NoRequest /\ request'[c].samples > 1
              => UNCHANGED <<cache, shared>> /\ pc'[c] \notin {"redis_get", "redis_set"}]_vars

(* An answer is what the request asked for.  A filtered search answers with  *)
(* flights outside the filter only when it says so: "filters_dropped=True is *)
(* signalled so the caller can inform the user" (lines 13-15), whatever is   *)
(* ingested between its two searches.  And there are no more results than    *)
(* the limit, although the reranker counts by numbers of its own (336, 366). *)
AnswersRequest ==
    \A c \in Calls : pc[c] = "done" =>
        /\ request[c].filtered /\ ~ dropped[c] => found[c] \subseteq Matching
        /\ Cardinality(found[c]) <= request[c].limit

(* Every search ends, whichever of the services it calls fail, through every *)
(* fallback; only a Redis that neither answers nor refuses can hold it for   *)
(* ever.                                                                     *)
EverySearchEnds ==
    \A c \in Calls :
        pc[c] \in Awaits ~> pc[c] \notin Awaits \/ [](pc[c] \in {"redis_get", "redis_set"})

=============================================================================
