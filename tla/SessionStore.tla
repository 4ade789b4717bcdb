---------------------------- MODULE SessionStore -----------------------------
(***************************************************************************)
(* The two session stores of app/api/chat.py, lines 225-329, operation by  *)
(* operation.  The in-memory one is an OrderedDict behind an asyncio.Lock: *)
(* each operation is one step.  The dict is a function on the ids it has,  *)
(* and its order, that of the last use, a relation on them.  The Redis one *)
(* has a key with a TTL per session.                                       *)
(*                                                                         *)
(* An entry has its age, the time since ts, instead of ts itself.          *)
(***************************************************************************)
EXTENDS Integers, FiniteSets, Sequences, Functions

CONSTANTS
    Sessions,     \* session ids
    Messages,     \* messages of a history
    MaxSessions,  \* _MAX_SESSIONS
    TTL           \* _SESSION_TTL, in steps of the clock

ASSUME StoreConstants ==
    /\ MaxSessions \in Nat \ {0}
    /\ TTL \in Nat \ {0}

VARIABLES
    backend,   \* which store _make_session_store has made
    entries,   \* the entries, by session id
    older,     \* the order in memory: pairs of ids, the one used less recently first
    lastSaved  \* history: Sessions -> the history given to the last save

storeVars == <<backend, entries, older, lastSaved>>

NoHistory == <<>>
Histories == Seq(Messages) \ {NoHistory}
Entry == [messages: Histories, age: 0..TTL + 1]

\* The ids in the store.
Known == DOMAIN entries

StoreTypeOK ==
    /\ backend \in {"memory", "redis"}
    /\ Known \subseteq Sessions
    /\ entries \in [Known -> Entry]
    /\ older \subseteq Known \X Known
    /\ backend = "memory" => Cardinality(Known) <= MaxSessions
    /\ lastSaved \in [Sessions -> Histories \cup {NoHistory}]

StoreInit ==
    /\ backend \in {"memory", "redis"}
    /\ entries = [s \in {} |-> NoHistory]
    /\ older = {}
    /\ lastSaved = [s \in Sessions |-> NoHistory]

-----------------------------------------------------------------------------

\* What get answers: the messages of the entry, stale or not.
Stored(s) == IF s \in Known THEN entries[s].messages ELSE NoHistory

\* move_to_end.
MoveToEnd(s) ==
    {p \in older : p[1] # s /\ p[2] # s} \cup ((Known \ {s}) \X {s})

\* (Mutant: the time stamp is refreshed, the place in the order is not.)
GetUnmoved(s) ==
    /\ entries' = IF backend = "redis" \/ s \notin Known THEN entries
                  ELSE [entries EXCEPT ![s].age = 0]
    /\ UNCHANGED <<backend, older, lastSaved>>

\* get: a hit in memory is the most recent use, whatever its age; Redis only
\* looks.
Get(s) ==
    /\ IF backend = "redis" \/ s \notin Known
       THEN UNCHANGED <<entries, older>>
       ELSE entries' = [entries EXCEPT ![s].age = 0] /\ older' = MoveToEnd(s)
    /\ UNCHANGED <<backend, lastSaved>>

\* The entries that _evict does not take for stale.
Unexpired(es) == {s \in DOMAIN es : es[s].age <= TTL}

\* (Mutant: there is no limit but the age.)
KeptStale(es, order) == Unexpired(es)

\* (Mutant: popitem takes the last entry.)
KeptOldest(es, order) ==
    {s \in Unexpired(es) : Cardinality({t \in Unexpired(es) : <<t, s>> \in order}) < MaxSessions}

\* _evict: the stale entries go, then the least recently used ones until
\* there is room.
Kept(es, order) ==
    {s \in Unexpired(es) : Cardinality({t \in Unexpired(es) : <<s, t>> \in order}) < MaxSessions}

\* save: only the memory evicts.
Save(s, h) ==
    LET stored == [t \in Known \cup {s} |->
                     IF t = s THEN [messages |-> h, age |-> 0] ELSE entries[t]]
        kept   == Kept(stored, MoveToEnd(s))
    IN /\ IF backend = "memory"
          THEN entries' = Restrict(stored, kept) /\ older' = MoveToEnd(s) \cap (kept \X kept)
          ELSE entries' = stored /\ UNCHANGED older
       /\ lastSaved' = [lastSaved EXCEPT ![s] = h]
       /\ UNCHANGED backend

Aged(e) == [e EXCEPT !.age = IF @ > TTL THEN @ ELSE @ + 1]

\* Time passes; Redis drops a key TTL after its save.
Tick ==
    LET left == IF backend = "memory" THEN Known
                ELSE {s \in Known : Aged(entries[s]).age < TTL}
    IN /\ entries' = [s \in left |-> Aged(entries[s])]
       /\ UNCHANGED <<backend, older, lastSaved>>

\* The API process is gone, and with it what it had in memory.
StoreRestart ==
    /\ IF backend = "memory"
       THEN entries' = Restrict(entries, {}) /\ older' = {}
       ELSE UNCHANGED <<entries, older>>
    /\ UNCHANGED <<backend, lastSaved>>

-----------------------------------------------------------------------------
(* Properties.                                                               *)

\* The store as its users see it.
Map == INSTANCE SessionMap
         WITH saved <- [s \in Sessions |-> Stored(s)], last <- lastSaved

(* Both stores keep what SessionMap promises: what is read is what was last  *)
(* saved, and a save, with all it evicts, never loses the session it saves.  *)
ImplementsSessionMap == Map!MapSpec

\* A session that is lost went with its process, was unused for the whole TTL,
\* or was used before MaxSessions others that stay.
LosesOldest ==
    \A s \in Known :
        Stored(s)' = NoHistory =>
          LET age == entries[s].age
          IN \/ backend = "redis" /\ age = TTL - 1
             \/ /\ backend = "memory"
                /\ \/ Known' = {}
                   \/ age > TTL
                   \/ Cardinality({t \in Known' : entries'[t].age <= age}) = MaxSessions

(* A conversation that is not lost with its process is forgotten only when   *)
(* it has not been used for the whole TTL, or when MaxSessions others have   *)
(* been used since: the order of the dict, which get and save keep by        *)
(* move_to_end, and the time stamps agree on who was used least recently.    *)
OnlyExpiredOrCrowdedOut == [][LosesOldest]_storeVars

=============================================================================
