----------------------------- MODULE SearchProofs -----------------------------
(***************************************************************************)
(* The searches, for any number of calls, queries and flights, any size of *)
(* the cache and any settings: an answer is what the request asked for,    *)
(* the cache of HyDE documents is a FIFO of CacheMax keys however calls    *)
(* that miss at the same time insert, and calls with several samples leave *)
(* it alone.                                                               *)
(*                                                                         *)
(* TypeOK and AnswersRequest are not inductive: what is found passes the   *)
(* filter, and one sample is what leads to the cache, because of the place *)
(* the call has come to (AtCall); and a key that the cache gives up leaves *)
(* it because no key is in it twice (FifoInv).                             *)
(***************************************************************************)
EXTENDS Search, FiniteSetTheorems, TLAPS

USE SearchConstants

-----------------------------------------------------------------------------
(* The cache in the process.                                                 *)

\* What _set_local_cache relies on, and keeps.
FifoInv == cache \in Seq(Queries) /\ IsInjective(cache) /\ Len(cache) <= CacheMax

\* The cache when the oldest key has made room.
Room == IF Len(cache) >= CacheMax THEN Tail(cache) ELSE cache

(* The oldest key is the only one to go, and only from a full cache.         *)
LEMMA RoomMade ==
    ASSUME FifoInv
    PROVE  /\ Room \in Seq(Queries) /\ IsInjective(Room) /\ Len(Room) < CacheMax
           /\ Len(cache) < CacheMax => Range(Room) = Range(cache)
           /\ Len(cache) = CacheMax => Range(cache) = Range(Room) \cup {Head(cache)}
<1>0. cache \in Seq(Queries) /\ Len(cache) \in Nat /\ CacheMax \in Nat \ {0}
  BY DEF FifoInv
<1>1. CASE Len(cache) < CacheMax
  BY <1>0, <1>1 DEF FifoInv, Room
<1>2. CASE Len(cache) = CacheMax
  <2>1. /\ Room = Tail(cache) /\ cache # <<>> /\ Room \in Seq(Queries)
        /\ Len(Room) = Len(cache) - 1 /\ \A i \in 1..Len(Room) : Room[i] = cache[i + 1]
        /\ DOMAIN Room = 1..Len(Room) /\ DOMAIN cache = 1..Len(cache)
        /\ Head(cache) = cache[1]
    BY <1>0, <1>2 DEF Room
  <2>2. IsInjective(Room)
    <3>1. ASSUME NEW i \in 1..Len(Room), NEW j \in 1..Len(Room), Room[i] = Room[j]
          PROVE  i = j
      <4>1. cache[i + 1] = cache[j + 1] /\ i + 1 \in DOMAIN cache /\ j + 1 \in DOMAIN cache
        BY <1>0, <2>1, <3>1
      <4>2. i + 1 = j + 1
        BY <4>1 DEF FifoInv, IsInjective
      <4> QED BY <4>2
    <3> QED BY <2>1, <3>1 DEF IsInjective
  <2>3. Range(cache) = Range(Room) \cup {Head(cache)}
    <3>1. ASSUME NEW q \in Range(cache)
          PROVE  q \in Range(Room) \cup {Head(cache)}
      <4>1. PICK i \in 1..Len(cache) : q = cache[i]
        BY <2>1, <3>1 DEF Range
      <4>2. CASE i = 1
        BY <2>1, <4>1, <4>2
      <4>3. CASE i # 1
        <5>1. i - 1 \in 1..Len(Room) /\ Room[i - 1] = q
          BY <1>0, <2>1, <4>1, <4>3
        <5> QED BY <2>1, <5>1 DEF Range
      <4> QED BY <4>2, <4>3
    <3>2. ASSUME NEW q \in Range(Room)
          PROVE  q \in Range(cache)
      <4>1. PICK i \in 1..Len(Room) : q = Room[i]
        BY <2>1, <3>2 DEF Range
      <4>2. q = cache[i + 1] /\ i + 1 \in DOMAIN cache
        BY <1>0, <2>1, <4>1
      <4> QED BY <4>2 DEF Range
    <3>3. Head(cache) \in Range(cache)
      <4>1. 1 \in DOMAIN cache
        BY <1>0, <1>2, <2>1
      <4> QED BY <2>1, <4>1 DEF Range
    <3> QED BY <3>1, <3>2, <3>3
  <2> QED BY <1>0, <1>2, <2>1, <2>2, <2>3
<1> QED BY <1>0, <1>1, <1>2 DEF FifoInv

(* A key that is new goes to the end.                                        *)
LEMMA KeyAppended ==
    ASSUME NEW keys \in Seq(Queries), IsInjective(keys), NEW q \in Queries, q \notin Range(keys)
    PROVE  /\ Append(keys, q) \in Seq(Queries) /\ IsInjective(Append(keys, q))
           /\ Range(Append(keys, q)) = Range(keys) \cup {q}
<1> DEFINE more == Append(keys, q)
<1>1. /\ more \in Seq(Queries) /\ Len(keys) \in Nat
      /\ DOMAIN keys = 1..Len(keys) /\ DOMAIN more = 1..Len(keys) + 1
      /\ more[Len(keys) + 1] = q /\ \A i \in 1..Len(keys) : more[i] = keys[i]
  OBVIOUS
<1> HIDE DEF more
<1>2. IsInjective(more)
  <2>1. ASSUME NEW i \in DOMAIN more, NEW j \in DOMAIN more, more[i] = more[j]
        PROVE  i = j
    <3>1. \A k \in 1..Len(keys) : more[k] # q
      BY <1>1 DEF Range
    <3>2. CASE i \in 1..Len(keys) /\ j \in 1..Len(keys)
      BY <1>1, <2>1, <3>2 DEF IsInjective
    <3>3. CASE i = Len(keys) + 1 \/ j = Len(keys) + 1
      BY <1>1, <2>1, <3>1, <3>3
    <3> QED BY <1>1, <3>2, <3>3
  <2> QED BY <2>1 DEF IsInjective
<1>3. Range(more) = Range(keys) \cup {q}
  <2>1. DOMAIN more = DOMAIN keys \cup {Len(keys) + 1}
    BY <1>1
  <2> QED BY <1>1, <2>1 DEF Range
<1> QED BY <1>1, <1>2, <1>3 DEF more

(* _set_local_cache keeps the cache a FIFO.                                  *)
LEMMA CacheStays ==
    ASSUME FifoInv, NEW q \in Queries
    PROVE  LET new == LocalCache(q)
           IN /\ new \in Seq(Queries) /\ IsInjective(new) /\ Len(new) <= CacheMax
              /\ Range(cache) \ Range(new) # {} =>
                    Len(cache) = CacheMax /\ Range(cache) \ Range(new) = {Head(cache)}
<1>0. Len(cache) \in Nat /\ CacheMax \in Nat /\ Len(Room) \in Nat
  BY RoomMade DEF FifoInv
<1>1. LocalCache(q) = IF q \in Range(Room) THEN Room ELSE Append(Room, q)
  BY DEF LocalCache, Room
<1>2. CASE q \in Range(Room)
  BY <1>0, <1>1, <1>2, RoomMade DEF FifoInv
<1>3. CASE q \notin Range(Room)
  <2>1. /\ Append(Room, q) \in Seq(Queries) /\ IsInjective(Append(Room, q))
        /\ Range(Append(Room, q)) = Range(Room) \cup {q}
    BY <1>3, RoomMade, KeyAppended
  <2>2. Len(Append(Room, q)) <= CacheMax
    BY <1>0, RoomMade
  <2> QED BY <1>0, <1>1, <1>3, <2>1, <2>2, RoomMade DEF FifoInv
<1> QED BY <1>2, <1>3

-----------------------------------------------------------------------------
(* The calls.                                                                *)

\* What the place of a call says of its request and of what it has found.
AtCall(c) ==
    /\ pc[c] \in Places
    /\ request[c] \in Request \cup {NoRequest}
    /\ left[c] \in Nat
    /\ found[c] \in SUBSET Flights /\ IsFiniteSet(found[c])
    /\ dropped[c] \in BOOLEAN
    /\ pc[c] \in Awaits \cup {"done"} => request[c] \in Request
    /\ pc[c] \in {"redis_get", "redis_set"} => request[c].samples = 1
    /\ pc[c] = "embed_one" => left[c] > 0
    /\ pc[c] \in {"rerank", "done"} /\ request[c].filtered /\ ~ dropped[c] =>
            found[c] \subseteq Matching
    /\ pc[c] = "done" => Cardinality(found[c]) <= request[c].limit

CallFunctions ==
    /\ pc \in [Calls -> Places]
    /\ request \in [Calls -> Request \cup {NoRequest}]
    /\ left \in [Calls -> Nat]
    /\ found \in [Calls -> SUBSET Flights]
    /\ dropped \in [Calls -> BOOLEAN]

SearchInv ==
    /\ FifoInv
    /\ shared \in SUBSET Queries
    /\ CallFunctions
    /\ \A c \in Calls : AtCall(c)

(* A step of one call changes its variables and perhaps the cache.           *)
LEMMA OneCall ==
    ASSUME SearchInv, NEW c \in Calls,
           NEW p \in Places, pc' = [pc EXCEPT ![c] = p],
           NEW r \in Request \cup {NoRequest}, request' = [request EXCEPT ![c] = r],
           NEW n \in Nat, left' = [left EXCEPT ![c] = n],
           NEW f \in SUBSET Flights, found' = [found EXCEPT ![c] = f],
           NEW d \in BOOLEAN, dropped' = [dropped EXCEPT ![c] = d],
           IsFiniteSet(f),
           p \in Awaits \cup {"done"} => r \in Request,
           p \in {"redis_get", "redis_set"} => r.samples = 1,
           p = "embed_one" => n > 0,
           p \in {"rerank", "done"} /\ r.filtered /\ ~ d => f \subseteq Matching,
           p = "done" => Cardinality(f) <= r.limit,
           cache' = cache \/ \E q \in Queries : cache' = LocalCache(q),
           shared' \in SUBSET Queries
    PROVE  SearchInv'
<1>1. CallFunctions'
  BY DEF SearchInv, CallFunctions
<1>2. FifoInv'
  BY CacheStays DEF SearchInv, FifoInv
<1>3. ASSUME NEW e \in Calls
      PROVE  AtCall(e)'
  <2>1. CASE e # c
    <3>1. /\ pc'[e] = pc[e] /\ request'[e] = request[e] /\ left'[e] = left[e]
          /\ found'[e] = found[e] /\ dropped'[e] = dropped[e]
      BY <2>1 DEF SearchInv, CallFunctions
    <3> QED BY <3>1 DEF SearchInv, AtCall
  <2>2. CASE e = c
    <3>1. pc'[e] = p /\ request'[e] = r /\ left'[e] = n /\ found'[e] = f /\ dropped'[e] = d
      BY <2>2 DEF SearchInv, CallFunctions
    <3> QED BY <3>1 DEF AtCall
  <2> QED BY <2>1, <2>2
<1> QED BY <1>1, <1>2, <1>3 DEF SearchInv

(* What is not changed stays as it is.                                       *)
LEMMA CallKept ==
    ASSUME SearchInv, NEW c \in Calls
    PROVE  /\ request = [request EXCEPT ![c] = request[c]]
           /\ left = [left EXCEPT ![c] = left[c]]
           /\ found = [found EXCEPT ![c] = found[c]]
           /\ dropped = [dropped EXCEPT ![c] = dropped[c]]
           /\ request[c] \in Request \cup {NoRequest} /\ left[c] \in Nat
           /\ found[c] \in SUBSET Flights /\ IsFiniteSet(found[c]) /\ dropped[c] \in BOOLEAN
BY DEF SearchInv, CallFunctions, AtCall

(* A call that awaits something has a request, with numbers in it.           *)
LEMMA RequestOf ==
    ASSUME SearchInv, NEW c \in Calls, pc[c] \in Awaits
    PROVE  /\ request[c] \in Request
           /\ request[c].query \in Queries /\ request[c].filtered \in BOOLEAN
           /\ request[c].samples \in Nat \ {0} /\ request[c].limit \in Nat \ {0}
BY DEF SearchInv, AtCall, Request

LEMMA RaiseKeeps ==
    ASSUME SearchInv, NEW c \in Calls, Raise(c), UNCHANGED <<cache, shared>>
    PROVE  SearchInv'
<1>1. /\ pc' = [pc EXCEPT ![c] = "failed"] /\ request' = [request EXCEPT ![c] = NoRequest]
      /\ left' = [left EXCEPT ![c] = 0] /\ found' = [found EXCEPT ![c] = {}]
      /\ dropped' = [dropped EXCEPT ![c] = FALSE]
  BY DEF Raise, Goto
<1>2. "failed" \in Places /\ "failed" \notin Awaits \cup {"done"}
  BY DEF Places, Awaits
<1>3. shared' \in SUBSET Queries /\ cache' = cache /\ IsFiniteSet({})
  BY FS_EmptySet DEF SearchInv
<1> QED BY <1>1, <1>2, <1>3, OneCall DEF Awaits

LEMMA BeginKeeps ==
    ASSUME SearchInv, NEW c \in Calls, Begin(c)
    PROVE  SearchInv'
<1> DEFINE Lookup(r) == IF r.samples > 1 THEN "generate"
                       ELSE IF Cached(r.query) THEN "embed"
                       ELSE IF HasRedis THEN "redis_get" ELSE "generate"
<1>1. PICK r \in Requests : /\ request' = [request EXCEPT ![c] = r]
                            /\ pc' = [pc EXCEPT ![c] = Lookup(r)]
  BY DEF Begin, Goto
<1> DEFINE p == Lookup(r)
<1>2. r \in Request /\ r.samples \in Nat \ {0}
  BY DEF Request
<1>3. p \in {"generate", "embed", "redis_get"} /\ (p = "redis_get" => r.samples = 1)
  BY <1>2
<1> HIDE DEF p
<1>4. p \in Places /\ p \in Awaits /\ p \notin {"rerank", "done", "embed_one", "redis_set"}
  BY <1>3 DEF Places, Awaits
<1>5. /\ found' = [found EXCEPT ![c] = {}] /\ dropped' = [dropped EXCEPT ![c] = FALSE]
      /\ left' = [left EXCEPT ![c] = left[c]] /\ left[c] \in Nat
      /\ cache' = cache /\ shared' \in SUBSET Queries
  BY CallKept DEF Begin, SearchInv
<1>6. pc' = [pc EXCEPT ![c] = p]
  BY <1>1 DEF p
<1> QED BY <1>1, <1>2, <1>3, <1>4, <1>5, <1>6, FS_EmptySet, OneCall

(* The document: a look into Redis, the model, a copy for the others.        *)
LEMMA DocumentKeeps ==
    ASSUME SearchInv, NEW c \in Calls, RedisGet(c) \/ Generate(c) \/ RedisSet(c)
    PROVE  SearchInv'
<1>1. pc[c] \in Awaits /\ UNCHANGED <<request, left, found, dropped>>
  BY DEF RedisGet, Generate, RedisSet, Awaits
<1>2. PICK p \in {"embed", "generate", "redis_set"} :
          /\ pc' = [pc EXCEPT ![c] = p]
          /\ p = "redis_set" => request[c].samples = 1
  <2>1. request[c].samples \in Nat \ {0}
    BY <1>1, RequestOf
  <2> QED BY <2>1 DEF RedisGet, Generate, RedisSet, Goto
<1>3. p \in Places /\ p \in Awaits /\ p \notin {"rerank", "done", "embed_one", "redis_get"}
  BY <1>2 DEF Places, Awaits
<1>4. cache' = cache \/ \E q \in Queries : cache' = LocalCache(q)
  BY <1>1, RequestOf DEF RedisGet, Generate, RedisSet
<1>5. shared' \in SUBSET Queries
  BY <1>1, RequestOf DEF RedisGet, Generate, RedisSet, SearchInv
<1>6. /\ request[c] \in Request /\ request' = [request EXCEPT ![c] = request[c]]
      /\ left[c] \in Nat /\ left' = [left EXCEPT ![c] = left[c]]
      /\ found[c] \in SUBSET Flights /\ found' = [found EXCEPT ![c] = found[c]]
      /\ dropped[c] \in BOOLEAN /\ dropped' = [dropped EXCEPT ![c] = dropped[c]]
      /\ IsFiniteSet(found[c])
  BY <1>1, CallKept, RequestOf
<1>7. p \in {"redis_get", "redis_set"} => request[c].samples = 1
  BY <1>2
<1> QED BY <1>2, <1>3, <1>4, <1>5, <1>6, <1>7, OneCall

LEMMA EmbedKeeps ==
    ASSUME SearchInv, NEW c \in Calls, Embed(c) \/ EmbedOne(c)
    PROVE  SearchInv'
<1>1. CASE EmbedOne(c) /\ Raise(c)
  BY <1>1, RaiseKeeps DEF EmbedOne
<1>2. CASE Embed(c) \/ (EmbedOne(c) /\ ~ Raise(c))
  <2>1. /\ pc[c] \in Awaits /\ UNCHANGED <<cache, shared, request, found, dropped>>
    BY <1>2 DEF Embed, EmbedOne, Awaits
  <2>2. PICK p \in {"search", "embed_one"}, n \in Nat :
            /\ pc' = [pc EXCEPT ![c] = p] /\ left' = [left EXCEPT ![c] = n]
            /\ p = "embed_one" => n > 0
    <3>1. CASE Embed(c)
      <4>1. request[c].samples \in Nat \ {0} /\ left[c] \in Nat
            /\ left = [left EXCEPT ![c] = left[c]]
        BY <2>1, RequestOf, CallKept
      <4>2. CASE pc' = [pc EXCEPT ![c] = "search"] /\ left' = left
        BY <4>1, <4>2
      <4>3. CASE /\ pc' = [pc EXCEPT ![c] = "embed_one"]
                 /\ left' = [left EXCEPT ![c] = request[c].samples]
        <5>1. request[c].samples \in Nat /\ request[c].samples > 0
          BY <4>1
        <5> QED BY <4>3, <5>1
      <4> QED BY <3>1, <4>2, <4>3 DEF Embed, Goto
    <3>2. CASE EmbedOne(c) /\ ~ Raise(c)
      <4>1. left[c] \in Nat /\ left[c] > 0
        BY <3>2 DEF EmbedOne, SearchInv, AtCall
      <4>2. /\ left' = [left EXCEPT ![c] = left[c] - 1]
            /\ pc' = [pc EXCEPT ![c] = IF left[c] = 1 THEN "search" ELSE "embed_one"]
        BY <3>2 DEF EmbedOne, Goto
      <4>3. left[c] - 1 \in Nat
        BY <4>1
      <4>4. CASE left[c] = 1
        BY <4>2, <4>3, <4>4
      <4>5. CASE left[c] # 1
        <5>1. left[c] - 1 > 0
          BY <4>1, <4>5
        <5> QED BY <4>2, <4>3, <4>5, <5>1
      <4> QED BY <4>4, <4>5
    <3> QED BY <1>2, <3>1, <3>2
  <2>3. p \in Places /\ p \in Awaits /\ p \notin {"rerank", "done", "redis_get", "redis_set"}
    BY <2>2 DEF Places, Awaits
  <2>4. shared' \in SUBSET Queries
    BY <2>1 DEF SearchInv
  <2> QED BY <2>1, <2>2, <2>3, <2>4, CallKept, RequestOf, OneCall
<1> QED BY <1>1, <1>2

(* The searches and the reranker: what is found passes the filter, or the    *)
(* call says that the filter was dropped; and it is never more than asked    *)
(* for.                                                                      *)
LEMMA AfterSearchOK ==
    ASSUME SearchInv, NEW c \in Calls, pc[c] \in Awaits, NEW b \in BOOLEAN,
           NEW hits \in Hits(b, Candidates(c))
    PROVE  /\ hits \in SUBSET Flights /\ IsFiniteSet(hits)
           /\ b => hits \subseteq Matching
           /\ AfterSearch(c, hits) \in {"rerank", "done"}
           /\ AfterSearch(c, hits) = "done" => Cardinality(hits) <= request[c].limit
<1>1. hits \in SUBSET Flights /\ IsFiniteSet(hits) /\ (b => hits \subseteq Matching)
  BY DEF Hits
<1>2. Cardinality(hits) <= Candidates(c)
  BY DEF Hits
<1>3. ~ Rerank => Cardinality(hits) <= request[c].limit
  BY <1>2 DEF Candidates
<1>4. hits = {} => Cardinality(hits) <= request[c].limit
  BY RequestOf, FS_EmptySet
<1> QED BY <1>1, <1>3, <1>4 DEF AfterSearch

LEMMA FindKeeps ==
    ASSUME SearchInv, NEW c \in Calls, VectorSearch(c) \/ Retry(c)
    PROVE  SearchInv'
<1>1. pc[c] \in Awaits /\ UNCHANGED <<cache, shared, request, left>>
  BY DEF VectorSearch, Retry, Awaits
<1>2. request[c] \in Request /\ request[c].filtered \in BOOLEAN /\ dropped[c] \in BOOLEAN
  BY <1>1, RequestOf, CallKept
<1>3. PICK p \in {"retry", "rerank", "done"}, f \in SUBSET Flights, d \in BOOLEAN :
          /\ pc' = [pc EXCEPT ![c] = p]
          /\ found' = [found EXCEPT ![c] = f] /\ IsFiniteSet(f)
          /\ dropped' = [dropped EXCEPT ![c] = d]
          /\ request[c].filtered /\ ~ d => f \subseteq Matching
          /\ p = "done" => Cardinality(f) <= request[c].limit
  <2>1. CASE VectorSearch(c)
    <3>1. PICK hits \in Hits(request[c].filtered, Candidates(c)) :
              /\ found' = [found EXCEPT ![c] = hits]
              /\ Goto(c, IF hits = {} /\ request[c].filtered THEN "retry"
                         ELSE AfterSearch(c, hits))
      BY <2>1 DEF VectorSearch
    <3>2. dropped' = [dropped EXCEPT ![c] = dropped[c]]
      BY <2>1, CallKept DEF VectorSearch
    <3>3. /\ hits \in SUBSET Flights /\ IsFiniteSet(hits)
          /\ request[c].filtered => hits \subseteq Matching
          /\ AfterSearch(c, hits) \in {"rerank", "done"}
          /\ AfterSearch(c, hits) = "done" => Cardinality(hits) <= request[c].limit
      BY <1>1, <1>2, <3>1, AfterSearchOK
    <3>4. CASE hits = {} /\ request[c].filtered
      <4>1. pc' = [pc EXCEPT ![c] = "retry"]
        BY <3>1, <3>4 DEF Goto
      <4> QED BY <1>2, <3>1, <3>2, <3>3, <4>1
    <3>5. CASE ~ (hits = {} /\ request[c].filtered)
      <4>1. pc' = [pc EXCEPT ![c] = AfterSearch(c, hits)]
        BY <3>1, <3>5 DEF Goto
      <4> QED BY <1>2, <3>1, <3>2, <3>3, <4>1
    <3> QED BY <3>4, <3>5
  <2>2. CASE Retry(c)
    <3>1. PICK hits \in Hits(FALSE, Candidates(c)) :
              /\ found' = [found EXCEPT ![c] = hits]
              /\ pc' = [pc EXCEPT ![c] = AfterSearch(c, hits)]
      BY <2>2 DEF Retry, Goto
    <3>2. dropped' = [dropped EXCEPT ![c] = TRUE]
      BY <2>2 DEF Retry
    <3>3. /\ hits \in SUBSET Flights /\ IsFiniteSet(hits)
          /\ AfterSearch(c, hits) \in {"rerank", "done"}
          /\ AfterSearch(c, hits) = "done" => Cardinality(hits) <= request[c].limit
      BY <1>1, <3>1, AfterSearchOK
    <3> QED BY <3>1, <3>2, <3>3
  <2> QED BY <2>1, <2>2
<1>4. p \in Places /\ p \notin {"embed_one", "redis_get", "redis_set"}
  BY <1>3 DEF Places, Awaits
<1>5. shared' \in SUBSET Queries /\ cache' = cache
  BY <1>1 DEF SearchInv
<1> QED BY <1>1, <1>2, <1>3, <1>4, <1>5, CallKept, OneCall

LEMMA RerankKeeps ==
    ASSUME SearchInv, NEW c \in Calls, RerankHits(c)
    PROVE  SearchInv'
<1>1. CASE Raise(c)
  BY <1>1, RaiseKeeps DEF RerankHits
<1>2. CASE ~ Raise(c)
  <2>1. /\ pc[c] = "rerank" /\ pc[c] \in Awaits
        /\ UNCHANGED <<cache, shared, request, left, dropped>>
        /\ pc' = [pc EXCEPT ![c] = "done"]
    BY <1>2 DEF RerankHits, Awaits, Goto
  <2>2. PICK best \in SUBSET found[c] :
            /\ Cardinality(best) = Smaller(TopN(c), Cardinality(found[c]))
            /\ found' = [found EXCEPT ![c] = best]
    BY <1>2 DEF RerankHits
  <2>3. /\ request[c] \in Request /\ request[c].limit \in Nat \ {0}
        /\ found[c] \in SUBSET Flights /\ IsFiniteSet(found[c])
        /\ Cardinality(found[c]) \in Nat
        /\ request[c].filtered /\ ~ dropped[c] => found[c] \subseteq Matching
    BY <2>1, RequestOf, CallKept, FS_CardinalityType DEF SearchInv, AtCall
  <2>4. best \in SUBSET Flights /\ IsFiniteSet(best)
    BY <2>2, <2>3, FS_Subset
  <2>5. Cardinality(best) <= request[c].limit
    BY <2>2, <2>3 DEF Smaller, TopN
  <2>6. shared' \in SUBSET Queries /\ "done" \in Places
    BY <2>1 DEF SearchInv, Places
  <2>7. /\ request[c].filtered /\ ~ dropped[c] => best \subseteq Matching
        /\ "done" \notin {"redis_get", "redis_set"} /\ "done" # "embed_one"
        /\ cache' = cache
    BY <2>1, <2>2, <2>3
  <2>8. /\ request' = [request EXCEPT ![c] = request[c]] /\ request[c] \in Request \cup {NoRequest}
        /\ left' = [left EXCEPT ![c] = left[c]] /\ left[c] \in Nat
        /\ dropped' = [dropped EXCEPT ![c] = dropped[c]] /\ dropped[c] \in BOOLEAN
    BY <2>1, CallKept
  <2> QED BY <2>1, <2>2, <2>3, <2>4, <2>5, <2>6, <2>7, <2>8, OneCall
<1> QED BY <1>1, <1>2

(* Every step of the calls, of Redis and of other workers keeps it.          *)
LEMMA SearchInvStep ==
    ASSUME SearchInv, [Next]_vars
    PROVE  SearchInv'
<1>1. ASSUME NEW c \in Calls, Begin(c) \/ Step(c)
      PROVE  SearchInv'
  BY <1>1, BeginKeeps, DocumentKeeps, EmbedKeeps, FindKeeps, RerankKeeps DEF Step, TimedStep
<1>2. ASSUME NEW c \in Calls, Fails(c)
      PROVE  SearchInv'
  BY <1>2, RaiseKeeps DEF Fails
<1>3. ASSUME UNCHANGED <<cache, callVars>>, shared' \in SUBSET Queries
      PROVE  SearchInv'
  BY <1>3 DEF SearchInv, FifoInv, CallFunctions, AtCall, callVars
<1>4. ASSUME NEW q \in Queries, Expire(q) \/ CachedElsewhere(q)
      PROVE  SearchInv'
  BY <1>3, <1>4 DEF Expire, CachedElsewhere, SearchInv
<1>5. CASE UNCHANGED vars
  BY <1>3, <1>5 DEF vars, SearchInv
<1> QED BY <1>1, <1>2, <1>4, <1>5 DEF Next

(* The requests, the places, the cache and what is found fit together at all *)
(* times.                                                                    *)
THEOREM SearchInvariant == Spec => []SearchInv
<1>1. Init => SearchInv
  <2>1. Init => FifoInv
    BY DEF Init, FifoInv, IsInjective
  <2>2. Init => CallFunctions /\ \A c \in Calls : AtCall(c)
    BY FS_EmptySet DEF Init, CallFunctions, AtCall, Places, Awaits
  <2> QED BY <2>1, <2>2 DEF Init, SearchInv
<1>2. SearchInv /\ [Next]_vars => SearchInv'
  BY SearchInvStep
<1> QED BY <1>1, <1>2, PTL DEF Spec

(* Type correctness, and in the cache no key twice and never more than       *)
(* CacheMax of them.                                                         *)
THEOREM SearchTypeOK == Spec => []TypeOK
<1>1. SearchInv => TypeOK
  BY DEF SearchInv, FifoInv, CallFunctions, TypeOK
<1> QED BY <1>1, SearchInvariant, PTL

(* A search with a filter answers with other flights only when it says that  *)
(* the filter was dropped, and never with more than were asked for.          *)
THEOREM SearchAnswersRequest == Spec => []AnswersRequest
<1>1. SearchInv => AnswersRequest
  BY DEF SearchInv, AtCall, AnswersRequest
<1> QED BY <1>1, SearchInvariant, PTL

(* What a step may do to the cache.                                          *)
LEMMA CacheSteps ==
    ASSUME SearchInv, [Next]_vars
    PROVE  \/ cache' = cache
           \/ \E q \in Queries : cache' = LocalCache(q)
<1>1. ASSUME NEW c \in Calls, RedisGet(c) \/ Generate(c)
      PROVE  cache' = cache \/ cache' = LocalCache(request[c].query)
  BY <1>1 DEF RedisGet, Generate
<1>2. ASSUME NEW c \in Calls, RedisGet(c) \/ Generate(c)
      PROVE  request[c].query \in Queries
  BY <1>2, RequestOf DEF RedisGet, Generate, Awaits
<1>3. ASSUME NEW c \in Calls,
             \/ Begin(c) \/ RedisSet(c) \/ Embed(c) \/ EmbedOne(c) \/ VectorSearch(c)
             \/ Retry(c) \/ RerankHits(c) \/ Fails(c)
      PROVE  cache' = cache
  BY <1>3 DEF Begin, RedisSet, Embed, EmbedOne, VectorSearch, Retry, RerankHits, Fails
<1>4. CASE UNCHANGED vars \/ \E q \in Queries : Expire(q) \/ CachedElsewhere(q)
  BY <1>4 DEF vars, Expire, CachedElsewhere
<1> QED BY <1>1, <1>2, <1>3, <1>4 DEF Next, Step, TimedStep

(* The cache gives up its oldest key only, and only when it is full.         *)
THEOREM SearchCacheFifo == Spec => CacheFifo
<1>1. ASSUME SearchInv, [Next]_vars
      PROVE  Range(cache) \ Range(cache') # {} =>
                 Len(cache) = CacheMax /\ Range(cache) \ Range(cache') = {Head(cache)}
  <2>1. FifoInv
    BY <1>1 DEF SearchInv
  <2>2. CASE cache' = cache
    BY <2>1, <2>2 DEF FifoInv
  <2>3. CASE \E q \in Queries : cache' = LocalCache(q)
    BY <2>1, <2>3, CacheStays
  <2> QED BY <1>1, <2>2, <2>3, CacheSteps
<1> QED BY <1>1, SearchInvariant, PTL DEF Spec, CacheFifo

(* A step of a call moves no other call.                                     *)
LEMMA OthersStay ==
    ASSUME SearchInv, NEW d \in Calls, Begin(d) \/ Step(d) \/ Fails(d), NEW c \in Calls \ {d}
    PROVE  pc'[c] = pc[c]
<1>1. CASE Raise(d)
  BY <1>1 DEF Raise, Goto, SearchInv, CallFunctions
<1>2. CASE ~ Raise(d)
  <2>1. CASE Begin(d) \/ RedisGet(d) \/ Generate(d) \/ RedisSet(d) \/ Embed(d)
    BY <2>1 DEF Begin, RedisGet, Generate, RedisSet, Embed, Goto, SearchInv, CallFunctions
  <2>2. CASE EmbedOne(d) \/ VectorSearch(d) \/ Retry(d) \/ RerankHits(d)
    BY <1>2, <2>2 DEF EmbedOne, VectorSearch, Retry, RerankHits, Goto, SearchInv, CallFunctions
  <2> QED BY <1>2, <2>1, <2>2 DEF Step, TimedStep, Fails
<1> QED BY <1>1, <1>2

(* What a call with several samples leaves alone.                            *)
LEMMA SamplesStep ==
    ASSUME SearchInv, NEW c \in Calls, Begin(c) \/ Step(c) \/ Fails(c),
           request'[c] # NoRequest, request'[c].samples > 1
    PROVE  UNCHANGED <<cache, shared>> /\ pc'[c] \notin {"redis_get", "redis_set"}
<1>1. pc \in [Calls -> Places] /\ request \in [Calls -> Request \cup {NoRequest}]
  BY DEF SearchInv, CallFunctions
<1>2. ~ Raise(c)
  BY <1>1 DEF Raise
<1>3. CASE Begin(c)
  <2>1. PICK r \in Requests :
            /\ request' = [request EXCEPT ![c] = r]
            /\ Goto(c, IF r.samples > 1 THEN "generate"
                       ELSE IF Cached(r.query) THEN "embed"
                       ELSE IF HasRedis THEN "redis_get" ELSE "generate")
    BY <1>3 DEF Begin
  <2>2. request'[c] = r
    BY <1>1, <2>1
  <2>3. pc'[c] = "generate"
    BY <1>1, <2>1, <2>2 DEF Goto
  <2> QED BY <1>3, <2>3 DEF Begin
<1>4. CASE RedisGet(c) \/ RedisSet(c)
  <2>1. request[c].samples = 1 /\ request' = request
    BY <1>4 DEF RedisGet, RedisSet, SearchInv, AtCall
  <2> QED BY <2>1
<1>5. CASE Generate(c)
  BY <1>1, <1>5 DEF Generate, Goto
<1>6. CASE Embed(c) \/ EmbedOne(c)
  BY <1>1, <1>2, <1>6 DEF Embed, EmbedOne, Goto
<1>7. CASE VectorSearch(c) \/ Retry(c) \/ RerankHits(c)
  BY <1>1, <1>2, <1>7 DEF VectorSearch, Retry, RerankHits, AfterSearch, Goto
<1> QED BY <1>2, <1>3, <1>4, <1>5, <1>6, <1>7 DEF Step, TimedStep, Fails

(* A call with several samples neither reads nor writes a document that      *)
(* others use.                                                               *)
THEOREM SearchSamplesBypass == Spec => SamplesBypassCache
<1>1. ASSUME SearchInv, [Next]_vars
      PROVE  \A c \in Calls :
                pc'[c] # pc[c] /\ request'[c] # NoRequest /\ request'[c].samples > 1
                    => UNCHANGED <<cache, shared>> /\ pc'[c] \notin {"redis_get", "redis_set"}
  <2>1. CASE UNCHANGED vars \/ \E q \in Queries : Expire(q) \/ CachedElsewhere(q)
    BY <2>1 DEF vars, callVars, Expire, CachedElsewhere
  <2>2. CASE \E d \in Calls : Begin(d) \/ Step(d) \/ Fails(d)
    BY <1>1, <2>2, OthersStay, SamplesStep
  <2> QED BY <1>1, <2>1, <2>2 DEF Next
<1> QED BY <1>1, SearchInvariant, PTL DEF Spec, SamplesBypassCache

=============================================================================
