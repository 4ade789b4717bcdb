# TLA+ models of the flight service

This directory models the parts of the service that several things can happen to
at once: bookings in Postgres, chat turns and the sessions they share, the browser tab
that starts them, what of a history is sent to the model, the start of the API processes,
the ingest script, searches over a shared document cache and the lazily loaded reranker.
TLC checks the models on small instances; TLAPS proves every safety property that the passing
runs check for every value of the constants.

Run a configuration with `tlc -config <X>.cfg <M>` and the proofs with
`tlapm <M>.tla`, for the modules and configurations below.

## 1. Inventory

| Component | State it keeps | Operations | Talks to |
|---|---|---|---|
| booking store (`app/booking/store.py`, `models.py`, `db.py`) | table `bookings`, connection pool (5 + 10) | `create_booking`, `cancel_booking`, `get_booking` | Postgres |
| schema start-up (`app/booking/init_db.py`, `alembic/`) | schema, `alembic_version` | `init_db`, `upgrade` | Postgres |
| tool layer (`app/api/tools.py`, `schemas.py`) | none; threads of `asyncio.to_thread` | search, details, create, cancel, get | store, retrieval |
| agent loop (`app/api/chat.py`, 452-702) | a turn's history, tool results, round; `_cap_hit_count` | `handle_chat`, `stream_chat`, `_run_tool_loop`, `_dispatch` | Ollama, tool layer, sessions |
| session stores (`app/api/chat.py`, 223-329) | session id -> history, LRU order and time stamp, or Redis keys with a TTL | `get`, `save`, `_evict` | Redis |
| context window (`app/api/chat.py`, 332-449) | none | trim, summarise | Ollama |
| REST API (`app/api/main.py`, `app/core/auth.py`) | rate limiter | endpoints, health, lifespan | all of the above |
| retrieval (`app/rag/retrieval.py`) | `_hyde_cache` (256), Redis `hyde:` keys | hybrid search, HyDE, filter fallback | Ollama, Qdrant, Redis, reranker |
| reranker (`app/rag/reranker.py`) | `_reranker`, `_reranker_lock` | `rerank`, `_load_and_score` | thread pool |
| ingest (`app/ingest/`) | a run's pending points and counters; the Qdrant collection | `ensure_collection`, `ingest_csv`, `ingest_archive` | Ollama, Qdrant |
| user interface (`ui/streamlit_app.py`) | messages, session id, booking ids | chat with one retry, render | REST API |
| embeddings, document format, clients, config, logging, tracing | singletons | - | - |
| evaluation scripts, tests | none | - | - |

How they meet: a request to `/chat` or `/chat/stream` is one coroutine. It reads the
session, asks the model, runs tools, saves the session after every tool round and at
the end. A booking tool runs the synchronous store in a thread; the REST endpoints
call the same tools. The UI posts a message again when the connection breaks before
the first event. The ingest script is a process of its own that shares only Qdrant.

What is hard here:

- Bookings: races between the SELECT, the INSERT and the on-conflict SELECT of several
  threads; commits whose reply is lost; retries; cancellation and re-booking;
  connections taken and given back several times per call.
- Turns: every await is a point where another turn of the same session can save;
  a disconnected client cancels the coroutine but not its thread; a crash between
  a tool's effect and the save; the model may ask for tools without end.
- Ingest: rows are looked up in one rhythm and upserted in another, ids repeat, and the
  script may die between any two calls or run twice at once.
- Search: calls that miss the cache together insert together; every service on the way
  may fail; an empty filtered search is repeated without filters while flights are ingested.
- Sessions: an LRU order and a clock that must agree; a tab that posts again, gives up or
  begins anew while its turns go on at the server.
- Context window: a loop with two exits, slices that turn around at zero, a summary that is
  not measured.
- Start-up: processes that read one revision and run the same migrations, and die in between.
- Reranker: one slow initialisation that everybody waits for, in a thread that
  cannot be cancelled, behind a lock that can.

What makes each component correct (the full list of hazards, each at its line, is in
`PROJECT.json`):

- store: one booking per key among all answers ever given; acknowledged cancellations are
  true and stay true; a booking's snapshot is frozen; nobody waits for the pool while
  holding a lock; every call returns.
- turn: a saved history is one the model accepts; turns never mix; messages are only
  lost to a turn that worked on an old copy; an interruption costs the memory of one round at
  most; results and history tell of the same calls; a retried message does not book twice; every turn ends.
- session stores: what is read is what was last saved; only the unused and the crowded out
  are forgotten. Tab: what the model remembers is what stands on the screen, and what may be out of
  order there is known.
- context window: the system prompt and the newest messages are sent unchanged, and the
  exceptions to the token limit are known.
- start-up: the revision tells what the schema has, and every process serves in the end.
- ingest: no row is lost, success means complete, the counters add up to the rows, every run ends.
- search: flights outside the filter are reported as such, the limit is kept, the cache is
  bounded and evicts its oldest key, several samples bypass it, every search ends, unless Redis is silent.
- reranker: one construction, a lock that is never left behind, every call ends.

## 2. Modules

| Module | Models |
|---|---|
| `Bookings` | the table: rows, defaults, lookup by key, the UPDATE of a cancellation |
| `BookingLedger` | what the booking subsystem promises, without SQL; its own proofs |
| `BookingStore` | `store.py` statement by statement, the UNIQUE index, the pool |
| `BookingStoreProofs` | inductive invariant, refinement, safety theorems |
| `AgentTurn` | turns, session saves, prompts, tool threads, disconnects, crashes |
| `AgentTurnProofs` | refinement of the ledger, windows, types, rounds, histories and prompts of turns |
| `ContextWindow` | trimming and summarising as functions of a history |
| `SessionMap` | what a session store promises |
| `SessionStore` | the in-memory store with LRU order and TTL, and the Redis store |
| `Conversation` | a browser tab, its turns and other users, over `SessionStore` |
| `ConversationProofs` | order and eviction of the store, its refinement of the map, memory and screen |
| `SchemaInit`, `SchemaInitProofs` | `init_db` and the migrations, in several processes |
| `Ingest`, `IngestProofs` | `ingest_archive.py`, several runs, crashes, restarts |
| `Search`, `SearchProofs` | `retrieval.py` and `async_embed_texts`: cache tiers, fallbacks, retry, limits |
| `Reranker`, `RerankerProofs` | the lazy loading of the cross-encoder |
| `MC*` | instances for TLC |

### BookingStore

A client is a thread inside one call. `pc[c]` names the next SQL statement, `call[c]` the
arguments, `bid[c]` the id of the ORM object, `answer[c]` what the call returned. One
action per statement: `SelectExisting`, `Insert`, `InsertConflict`, `Commit`,
`Refresh`, `SelectWinner` for `create_booking`; `Load`, `Update`, `Reload` for
`cancel_booking`; `Read` for `get_booking`. Postgres is modelled as the code uses it,
at READ COMMITTED: a SELECT sees committed rows; an INSERT whose key another open
transaction has inserted waits (neither `Insert` nor `InsertConflict` is enabled) and
fails with the UNIQUE violation once that one commits. `conns` is the set of threads
that hold a pooled connection; commit, rollback and the end of the session return it.
`PoolTimeout` is SQLAlchemy's 30 s limit. `Fault` is a lost connection or process, with
the transaction rolled back; `FaultAfterCommit` loses the reply of a COMMIT.
`issued`, `cancelAcked` and `knownCancelled` are history variables: what callers were told.

### BookingLedger and refinement

The ledger has four steps: `Book`, `Tell`, `Cancel`, `Acknowledge`. A caller is told
only what the table says. `BookingStore` implements it with the identity mapping
(`rows`, `issued`, `cancelAcked`): `Commit` is `Book`, `Update` is `Cancel`, answers are `Tell`
and `Acknowledge`, everything else stutters. `AgentTurn` uses the ledger's steps for
what its threads do, so it stands on the store's promise and not on its SQL; that its own
steps are ledger steps holds by the way they are written, and is not counted as a result.

### AgentTurn

A step runs from one await of the coroutine to the next. `saved` is the session store
(in memory or in Redis, `Durable`), `loc[t]` the local variables of `handle_chat`,
`stream_chat` and `_run_tool_loop`, `job[t]` the thread of the turn's last writing tool.
`TurnFails` is an exception of Ollama or Redis or the cancellation of a streaming turn;
it leaves `job[t]` alone, and the thread goes on to commit. `Crash` kills a worker: some
turns and threads when sessions are in Redis (there may be several workers), all of
them and the sessions when they are in memory. `Forget` is expiry or eviction, at any
time. A message is its role, its turn and its number of tool calls. The code bounds the rounds of a
turn (`_MAX_TOOL_ITERATIONS`, `MaxRounds`) and not the calls in one answer: `MaxCalls` bounds
those for TLC, round by round, so that it is the cap and nothing else that ends the loop.

The history itself is never cut. What a turn sends while it waits at "llm" or "stream" is one of
`Context!Windows(loc[t].hist)`.

### ContextWindow

Operators, no state: `Fits` is the comparison with `CONTEXT_TOKEN_LIMIT` (the token count is any
function), `Trimmed` is `_trim_history` (the loop is the least k at which it stops), `Older` is the
slice `rest[:-MIN]` with its special case at 0, `Windows` is the set of what `_maybe_trim_history`
may return, because the model may or may not deliver a summary. `Coherent` and `Bounded`
say what is promised of a window. The summary counts the messages it stands for.

### SessionMap, SessionStore, Conversation

`SessionMap` has two steps: a save, which may cost other sessions their place, and forgetting.
`SessionStore` is `_InMemorySessionStore` and `_RedisSessionStore` in one module (`backend`): `entries`
is a function on the ids in the store, `older` the order of the OrderedDict as a relation on them, an
entry's `age` the time since its `ts`. `get` refreshes an entry whatever its age; `save` evicts: of the
entries that are not stale, `popitem(last=False)` in its loop leaves those with fewer than
`MaxSessions` ids used later, and that is what `Kept` says. Every operation is one step: the in-memory methods hold the lock
throughout, and a Redis command is atomic. The store implements the map under
`saved <- [s |-> Stored(s)]`.

`Conversation` puts a tab of the UI above it. `run` is where `_stream_events` waits, `attempt` which of
its two POSTs, `turn[<<tab, n, attempt>>]` the turn a POST has started, cut down to its reading and saving of the
session. A history is its user messages. `Retry` is a `ConnectionError` or
`ReadTimeout` before the first event, `GiveUp` any other error or a click, `NewConversation` the
sidebar's button. The turn that was left behind goes on, saves, and ends when the server notices.
So does a request that was not begun when its tab left it: it may be in a buffer, or its handler may await
the session (`chat.py`, 686), which nothing cancels before the reply is streamed; it stays "posted", and
may be begun, or lost, at any time later. `late[u]` remembers the messages of such requests;
it is a history variable, which no action reads. The booking dialog is left out, because it cannot be opened
(see section 3).

### SchemaInit

`db` is the set of objects the schema has and the content of `alembic_version`; `pc[w]` where `init_db`
of process w is; `seen[w]` the revision alembic has read. All DDL of an upgrade is one transaction
(PostgreSQL, `alembic/env.py`), and all such transactions begin with the same object, so the second
waits at its first statement: an upgrade is one step, or it is refused because an object exists by then, which
ends the process. `Die` is a dead container or a broken connection, anywhere. `Untouched` lists the
databases to begin with: empty, made by `create_all` with or without the key, or at a revision.

### Ingest

A file is the sequence of its rows' stable ids; equal ids are rows of the same scheduled flight. The
code's lists of rows and of points are in the order of the file and are modelled as sets of row numbers:
which row is where matters, its payload does not.
A step is one call to Qdrant with the work before it. `Die` and `DieAfterUpsert` may
happen anywhere; `Restart` runs the script again from the first row. "refused" is
Qdrant's error for a collection that exists by now.

### Search

A call is a coroutine inside `search_flights_hybrid`, again and again. `cache` is the order of the
keys of `_hyde_cache` (a Python dict keeps the place of a key that is set again), `shared` the
queries with a `hyde:` key in Redis. `pc` names the await: `redis_get`, `generate`, `redis_set`,
`embed`, `embed_one` per text, `search`, `retry`, `rerank`. The n calls of `asyncio.gather` are one
step, because they touch no shared state. A search returns any flights that pass the filter, from
one search to the next, which covers an ingest beside it. A fallback document is
not told from a generated one: the code treats them alike. `Fails` is Redis or Qdrant raising, or
the turn being cancelled. A Redis that is silent needs no action: its step is not taken, and no
fairness demands it (section 4).

### Reranker

`pc` is the coroutine, `thread` the work it gave to the executor. The lock is FIFO like
`asyncio.Lock`. A call cancelled in the queue leaves it (`CancelWaiting`), one cancelled later releases
the lock while its thread, if begun, goes on (`CancelRunning`). The executor
has `Workers` threads and serves other components too, which is not modelled.

## 3. What TLC checks

| Run | Configuration | Instance | Shows |
|---|---|---|---|
| `store_safety` | `MCBookingStoreSafety.cfg` | 3 clients, 1 key, 2 ids, 2 snapshots, pool of 2, 1 create without key | all safety properties of the store, and the refinement |
| `store_liveness` | `MCBookingStoreLiveness.cfg` | 3 clients, 1 key, 1 id, pool of 2 | every call returns |
| `rebook` | `MCRebook.cfg` | 1 client | violated: `CreateReturnsConfirmed` |
| `turn_safety` | `MCAgentTurnSafety.cfg` | 2 turns of 1 session, 2 rounds of up to 2 and 1 tool calls, 2 booking ids, Redis sessions, token limit 4 with results of 2 tokens, 2 messages kept | safety of turns, sessions and prompts, what an interruption can cost |
| `turn_liveness` | `MCAgentTurnLiveness.cfg` | 2 turns, 2 rounds of 1 tool call, sessions in memory | every turn ends, at the cap if need be |
| `conversation` | `MCConversation.cfg` | 1 tab with 3 messages and 3 POSTs, 2 sessions and 1 of another user, room for 2, TTL of 1 tick, either store | memory and screen agree, who is forgotten, the store implements the map |
| `startup` | `MCSchemaInit.cfg` | 3 processes, 5 databases, 2 faults | revision and schema agree, every process serves |
| `ingest` | `MCIngest.cfg` | 2 runs, files of up to 5 rows with repeated ids, embed batch 2, upsert batch 3 | nothing lost, success means complete, counting, every run succeeds in the end |
| `ingest_indexes` | `MCIngestIndexes.cfg` | 1 run | violated: `IndexesEnsured` |
| `search` | `MCSearch.cfg` | 2 calls, 3 queries, cache of 2, 2 flights of which 1 matches, limit 1 against 2 fetched and 2 returned | cache discipline; an answer keeps the filter or says so, and the limit; every search ends that Redis lets end |
| `reranker` | `MCReranker.cfg` | 3 calls, 2 worker threads | one construction but for orphans, lock and its queue, every call ends |
| `reranker_cancel` | `MCRerankerCancel.cfg` | 2 calls | violated: `OneConstruction` |

Why the bounds are enough to be interesting. Three clients are a winner of the
INSERT race, a loser, and one that cancels or reads at the same time; with a pool of two, one of
them always competes for a connection. Two ids let a second booking for the key
come into being if the protocol allowed it. Ids are never reused, so the second one is the
last; a create without key uses one up, hence `MaxKeyless`. Two turns of a session are
enough for a stale save; two rounds give a save between rounds and one at the cap;
the first round may have one call or two, answered in a row, the second one. For liveness
one call a round is enough, since what could go on for ever is the rounds. In the ingest, an embed batch of 2 against an upsert batch
of 3 makes upserts fall inside, at the end of, and across batches. In the search, a third query
meets a full cache of two keys, and a call that missed earlier inserts a key into a full cache that has it already; the
reranker's counts exceed the caller's limit; the instance has Redis and the reranker,
whose absence only takes steps away. A token limit of 4 makes every history too long that has a
tool round, so that trims, summaries that fit and that do not, and answers without their call at
the head of a prompt all occur. Three messages of one
tab are one that makes the session, one that is left before it is begun, and one behind which it is then
saved; three POSTs are those, or two messages of which one is sent twice. With room for two sessions and a third user, a session is evicted by others and by the
tab's own next conversation. A tick is the whole TTL: an entry in memory has been used since the last tick, or is at
the limit, or beyond it, which is all that `_evict` tells apart, and a Redis key lasts until the next tick (that
a save of an older key starts its time anew, which this TTL does not show, is in the proofs for every TTL).
Three processes at start-up are one that wins a migration, one that loses, and one that comes later; two deaths
may hit both the winner and the loser. The proofs of section 5 have none of these bounds.

`CHECK_DEADLOCK FALSE` stands where all turns, runs or calls may be over; the store's
clients can always begin another call, and there deadlock is checked.

### The three violations

- `rebook`: after a cancellation the key stays in the UNIQUE column. A new create for the same
  flight and passenger skips the cancelled row in its first SELECT, conflicts with it, and
  returns it: the caller gets a booking that is CANCELLED, and no later call can do
  better. `app/api/tools.py` (11-13) promises "the existing CONFIRMED booking".
- `ingest_indexes`: `ensure_collection` looks for the collection only. A run that dies
  before its indexes exist leaves them missing for ever, against the docstring (line 80)
  "Create the Qdrant collection and payload indexes if they don't exist." The same holds
  when the creation of one index raises, which is swallowed.
- `reranker_cancel`: a client that disconnects while its search loads the model releases the
  lock, but not the thread. The next search constructs a second model beside it, against the
  docstring (52-54). `OnlyOrphansBeside` shows that this is the only way: beside the thread
  that the lock admits, only orphans of cancelled calls construct.

### What else the code and its documents disagree about

Met while modelling, not stated as a violated run:

- `CONTEXT_TOKEN_LIMIT`: `chat.py` (438) speaks of a "History that fits within CONTEXT_TOKEN_LIMIT". A
  summarised history is not measured again, and the newest `CONTEXT_MIN_MESSAGES` are kept whatever their
  size; with that setting at 0 a summary shortens nothing (`rest[-0:]` is everything). `PromptBounded` and
  `WindowBounded` state what does hold. The cut may leave tool answers at the head whose call has gone.
- A `create_all` schema that predates revision 002 is stamped head (`init_db.py`, 30-33), and never gets
  its `idempotency_key`, against the docstring's "bring the schema to head". It is the exception
  in `VersionTellsSchema`.
- Migration 002's docstring advises to create the index by hand first. The column has to be made for it,
  and the migration then fails at every start, because it adds both.
- The comment at `streamlit_app.py` (269) says that the dialog opens on the rerun after a click on Book. That
  rerun does not draw the button again (line 103, only the newest answer has one), so the click is lost.
- All tool rounds run before the first event of a stream, and the tab's read timeout is 180 s: a
  long turn is posted again while it is still at work, so a message may stand twice in the
  history. Bookings are safe from that (`RetryTellsSameBooking`), the history is as `HistoryOnScreen` says.
- A message that the tab has given up can be begun after the next one, when its request waited in a buffer or for
  its session (`chat.py`, 686), and then stands behind it in the history, against the order on the screen. It is the
  exception in `HistoryOnScreen`, and without it TLC finds the order broken.
- The clients of Ollama and Qdrant have timeouts, that of Redis has none (`redis_client.py`, 28: neither
  `socket_timeout` nor `socket_connect_timeout`). A Redis that neither answers nor refuses holds a turn or a search for
  ever; it is the exception in `EveryTurnEnds` and `EverySearchEnds`.

## 4. Fairness

- Store: weak fairness per client of its statements together with the pool's timeout:
  threads are scheduled, Postgres answers, a wait for the pool ends with
  `pool_timeout`. A wait for another INSERT is not bounded by the code: it ends because that
  transaction is itself scheduled. Faults are assumed to stop (`<>[][~Failure]`); no request is owed.
- Turns: weak fairness of each turn's coroutine, but where it may await Redis (`AtRedis`), and of its
  thread: the event loop and the executor run what is ready, the HTTP client gives up when Ollama is silent for 120 s
  (`app/core/http_client.py`), and a reply that is streamed has an end: the model does not send chunks for
  ever. No crash or disconnect is owed, and Redis owes no answer.
- Ingest: a run goes on, whoever operates the script starts it again after it died or was refused, and
  it does not die for ever. The restart is an assumption about the operator, not about the code.
- Search: weak fairness of each call's coroutine where it calls Ollama or Qdrant, whose clients have timeouts, or
  the reranker, which computes (`TimedStep`). `RedisGet` and `RedisSet` have none, because their client has no
  timeout. No exception is owed, so the end does not rest on failures.
- Start-up: weak fairness of each process's next step: `docker-compose.yml` restarts a container that has ended
  (`restart: unless-stopped`). Deaths and broken connections are bounded by `MaxFaults`, so they stop.
- Reranker: the lock wakes its waiting calls in order, loading and scoring end; strong
  fairness for the start of a thread, because the executor's queue is FIFO.

## 5. What is proved

Every invariant and every safety action property of the passing runs, and the two refinements, are
theorems. They hold for any number of clients, turns, runs, calls, tabs and processes, histories and files of any
length, and any sizes of pools, batches, caches and windows.

`BookingLedger`: `LedgerInv` is inductive as it stands (`LedgerCorrect`), because `Tell` and
`Acknowledge` read the table and `Book` refuses a used key. `LedgerFrozen` is an
action property from the type invariant.

`BookingStoreProofs`: the safety properties are not inductive. That a refreshed or
winning row has the caller's key, or that an update finds its row, depends on what
the session did before. `StoreInv` adds

- `SessionKnows(c)`: for every stage, what the session knows of its call and row, e.g. in
  "refresh" its row is committed under its key, in "reload" it is CANCELLED;
- `DistinctPending`: two rows about to be committed have two ids;
- `UniqueKey` and `WinnerFound`: one owner per key; whoever lost finds a committed row,
  which nothing deletes (theorems of their own, `StoreKeyHasOneOwner` and `StoreWinnerFound`).

`StoreInvariant` proves it inductive, one lemma per kind of step. From it every step is a ledger
step or a stutter (`StoreImplementsLedger`), so the ledger's invariant holds of the store
(`StoreLedgerInv`, `StoreSameKeySameBooking`). `StoreNoAnswerBeforeCancel` strengthens the property with
"what a call knew when it began is acknowledged by now". `StorePool` needs that the set of
connections is finite and uses the cardinality lemmas. `StoreStoredSnapshot` follows step by step
from frozen rows.

`AgentTurnProofs` has six parts, each resting on the one before.

- `RetrySafe` is the ledger's theorem on what callers are told. It needs that every step is a ledger step or a stutter
  (lemma `TurnsTakeLedgerSteps`, which holds by the way the actions are written), and for that only that a turn that waits
  has a well-formed job (`JobInv`). Crashes, disconnects, orphaned threads and any number of turns are included.
- Windows, pure lemmas about `ContextWindow`: the loop of the hard trim is the least k at which it stops;
  that there is one comes from the library's theorem on well-founded relations (`LeastNatural`), and that one
  message fewer would not have stopped it gives the lower bound (`TrimStops`). `WindowCoherent` and
  `WindowBounded` are cases over the ways a window comes about, for any count of tokens.
- `TypeOK` is not inductive, since a count of open calls might go below zero and a round beyond the cap.
  `HistoryInv` says of each place what its turn has (`AtPlace`: a history that the system message
  opens, a round left, an open call), and that a saved history is opened by the system message, which
  `Load` needs (`SavedHead`). `TurnHistoryInv` proves it together with `JobInv`; `TurnTypeOK` adds the
  ledger's types, `TurnPromptsBounded` the windows.
- `ShapeInv`: in every history, saved or local, the messages of a turn are one block, and each call is answered
  right behind its message, but for the calls the turn counts as left (`Shaped`). A turn that has not
  loaded yet has left no message in any history (`NoTrace`); otherwise its user message could
  reopen a block. The results of a turn are told apart by the positions of its tool messages
  (`Matched`). From it follow `TurnSavedReplayable`, `TurnsStayWhole`, `TurnResultsMatch` and
  `TurnPromptsCoherent`, the last with what `Trimmed` and `Older` cut off a shaped history.
- `FreshCopy`: a turn whose copy is not stale holds what is saved, or more, or nothing is saved; so whatever it saves adds to it
  (`TurnSavesAdd`): only a stale save drops messages.
- `RoundsInv`: a turn has asked for tools once per round it has behind it, and once more while it works on the answers
  (`AskedAt`), at most `MaxRounds` times; with `FreshCopy`, what it has not saved yet are the messages since its newest
  question, if it has one open (`OpenAsked`). Hence `TurnRoundsSaved`: a crash, a disconnect or an exception costs the memory of the
  round at work and no other, however many turns save beside it.

`SearchProofs`: `SearchInv` is `AtCall` for every call and `FifoInv` for the cache. `AtCall` says what was asked and
found at each place: at "rerank" everything passes the filter or the retry is reported, and only a call with one
sample comes near the cache. `FifoInv` says that no key is in the cache twice, which
a call needs that missed a key others have inserted since, and that the cache has at most `CacheMax` keys; both
are parts of `TypeOK`. From it `SearchAnswersRequest`, `SearchCacheFifo` (the
cache gives up its oldest key only, and only when full) and `SearchSamplesBypass`.

`IngestProofs`: `RunInv` has three parts, which need each other. `Carried`: the rows looked up so far are stored, or in
one of the two lists. `Counted`: their number is what was upserted, skipped and is on the lists. `Variables`: both lists
hold rows before `pos`, share none, and are empty at the places where the next step overwrites them or the run
ends. Deaths and restarts reset a run and keep the points, so `NoRowLost`, `DoneIsComplete` and `EveryRowCounted` hold across them.

`RerankerProofs`: before the model is there, work is handed to a thread under the lock only, and the caller keeps the
lock until that thread ends or the caller is cancelled (`RerankerInv`). From it `RerankerConstructsOnce`, which
counts what cancelled calls leave behind, and `RerankerLockHasLoader`. `RerankerQueue`: the queue of
the lock has the waiting calls, each once, which needs what a removal from the middle leaves.

`ConversationProofs`: in three parts.

- The store. `StoreInv`: `older` is a strict total order on the ids in the store, time stamps agree with it, and
  there are at most `MaxSessions` of them in memory. That an eviction leaves no more is a
  pigeonhole argument: each kept id has a count of kept ids used later, all different and all below
  `MaxSessions` (`KeptFits`); that it does not hurt the saved session, and that a lost one had exactly
  `MaxSessions` used since, is `CrowdedOut`. Hence `StoreLosesOldest`, and `StoreImplementsSessionMap` step by step,
  so that the map's `LastOrNothing` (lemma `ReadsLastSave`) holds of both stores (`ConversationReadsLastSave`).
- `TurnInv`: where a tab waits, and what stage the turns of its POSTs can have then: a request that is not begun is
  the one awaited (`Awaited`), in the session of its tab, or is one that was left; types follow.
- `ScreenInv`: a session has one tab (`OneOwner`: ids are new and nobody passes them on), and what it
  holds, or what the tab's turn at work will save in it, is on the tab's screen as long as the tab goes on with
  it, each user message at most as often as POSTs of it have begun, and behind a newer one only when its tab had left it
  (`LiveOnScreen`). Every turn at work in such a session is included, for a turn that was left behind still saves there,
  and every request to it, for one that was left behind may still be begun: its message, too, is on the screen. `ConversationHistoryOnScreen` follows.

`SchemaInitProofs`: `VersionTellsSchema` is not inductive, because an upgrade acts on a revision that was read before
others acted. `SchemaInv` adds what that revision still tells (`Reading`): a process that stamps has seen a table without
revision, one that read revision 1 stands on a database found there, one that read head leaves it.
`AtHead` is the one way the database changes.

TLC agrees with every one of these invariants on the instances of section 3 (those of `ConversationProofs` on smaller ones). Two models were restated for
the proofs, to the same behaviour: the lists of `Ingest` as sets of row numbers, and the OrderedDict as a function with an
order, because neither `SelectSeq` nor a fold over a list can be reasoned about here.

Assumptions: those of the `ASSUME`s (sentinels are not members of the sets they stand
beside; the pool, batches and rounds have positive sizes), which TLC evaluates on every run. No proof
assumes that a set of clients, turns, calls or sessions is finite; where cardinalities matter (pool, store, lists of
rows, cache), finiteness is proved as part of the invariant.

Only model-checked: liveness (`EveryCallReturns`, `EveryTurnEnds`, `EveryRunSucceeds`, `EverySearchEnds`,
`EveryCallEnds`, `EveryWorkerServes`), which this version of TLAPS does not prove because it has no reasoning about
ENABLED, on which fairness rests; and that nothing deadlocks, for the same reason.

## 6. Not modelled, and what comes next

Not modelled for good: texts, prompts, embeddings and scores; vector search; rendering; logging, tracing,
health checks, authentication and rate limits; the evaluation scripts; the wording of flight documents. They keep no state that a
correctness property of the system speaks of. A database that somebody has edited by hand is no initial state of `SchemaInit`.

What is left for proofs, in order:

1. What the liveness of each component rests on and can be stated without ENABLED: a rank of every call, turn and run that
   its own steps lower and the steps of others do not raise, as action properties.
2. `ContextWindow`: how much a summary can shorten a window, as a lower bound beside the upper one.
