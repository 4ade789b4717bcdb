---------------------------- MODULE BookingStore -----------------------------
(***************************************************************************)
(* app/booking/store.py over the bookings table: every statement that      *)
(* create_booking, cancel_booking and get_booking send to Postgres is a    *)
(* step of its own, so that the calls of several threads (each one an      *)
(* asyncio.to_thread of app/api/tools.py, in one process or in many) can   *)
(* interleave between them.                                                *)
(*                                                                         *)
(* Postgres is modelled from how the code uses it, at its default READ     *)
(* COMMITTED level: a SELECT sees the committed rows; an INSERT whose key  *)
(* is held by an uncommitted INSERT of another transaction waits for it,   *)
(* and fails with a UNIQUE violation when the key is committed.  A step    *)
(* that needs a connection takes one from the pool of app/booking/db.py or *)
(* waits for it; commit, rollback and the end of the session give it back. *)
(***************************************************************************)
EXTENDS Bookings, FiniteSets, Naturals

CONSTANTS
    Clients,     \* threads that call the store
    NoId,        \* the session holds no booking object
    NoCall,      \* no create call in progress
    NoAnswer,    \* the client's current call has not answered
    PoolSize,    \* pool_size + max_overflow connections
    MaxKeyless   \* bound: create calls without a key that may take effect

VARIABLES
    rows,        \* BookingIds -> the committed row, or NoRow
    pc,          \* Clients -> the next statement of the client's call
    call,        \* Clients -> the arguments of its create call, or NoCall
    bid,         \* Clients -> id of the session's booking object, or NoId
    conns,       \* the clients that hold a connection of the pool
    answer,      \* Clients -> what its last call returned
    issued,      \* history: see BookingLedger
    cancelAcked, \* history: see BookingLedger
    knownCancelled \* history: Clients -> cancelAcked when its call began

vars == <<rows, pc, call, bid, conns, answer, issued, cancelAcked, knownCancelled>>

-----------------------------------------------------------------------------

CreateCall == [key: Keys \cup {NoKey}, snap: Snapshots]

\* What the three functions return; "exception" is anything they raise.
BookingAnswer == [op: {"create", "get"}, id: BookingIds, status: Statuses, snap: Snapshots]
CancelAnswer  == [op: {"cancel"}, id: BookingIds, status: Statuses]
OtherAnswer   == [op: {"not_found", "exception"}]
Answer        == BookingAnswer \cup CancelAnswer \cup OtherAnswer

ASSUME StoreConstants ==
    /\ NoId \notin BookingIds
    /\ PoolSize \in Nat \ {0}
    /\ MaxKeyless \in Nat
    /\ NoAnswer \notin Answer

Exception == [op |-> "exception"]
NotFound  == [op |-> "not_found"]

Stages == {"idle",
           "select", "insert", "commit", "refresh", "winner",  \* create_booking
           "load", "update", "reload",                         \* cancel_booking
           "read"}                                             \* get_booking

TypeOK ==
    /\ rows \in Table
    /\ pc \in [Clients -> Stages]
    /\ call \in [Clients -> CreateCall \cup {NoCall}]
    /\ bid \in [Clients -> BookingIds \cup {NoId}]
    /\ conns \in SUBSET Clients
    /\ answer \in [Clients -> Answer \cup {NoAnswer}]
    /\ issued \in [Keys -> SUBSET BookingIds]
    /\ cancelAcked \in SUBSET BookingIds
    /\ knownCancelled \in [Clients -> SUBSET BookingIds]

Init ==
    /\ rows = EmptyTable
    /\ pc = [c \in Clients |-> "idle"]
    /\ call = [c \in Clients |-> NoCall]
    /\ bid = [c \in Clients |-> NoId]
    /\ conns = {}
    /\ answer = [c \in Clients |-> NoAnswer]
    /\ issued = [k \in Keys |-> {}]
    /\ cancelAcked = {}
    /\ knownCancelled = [c \in Clients |-> {}]

-----------------------------------------------------------------------------
(* Rows, locks and connections.                                              *)

RowsOf(k) == IdsOf(rows, k)

Confirmed(k) == {id \in RowsOf(k) : rows[id].status = "CONFIRMED"}

\* Clients whose INSERT of key k is executed and not yet committed.
Inserting(k) == {c \in Clients : pc[c] = "commit" /\ call[c].key = k}

\* uuid4 never repeats the id of a row, nor of a row about to be committed.
Fresh(id) == rows[id] = NoRow /\ \A c \in Clients : pc[c] = "commit" => bid[c] # id

\* The UNIQUE index lets key k in: no row has it and none is being inserted.
\* (Mutants: an index over CONFIRMED rows only; a check of committed rows only.)
KeyFreePartialIndex(k) == Confirmed(k) = {} /\ Inserting(k) = {}
KeyFreeNoIndex(k) == RowsOf(k) = {}
KeyFree(k) == RowsOf(k) = {} /\ Inserting(k) = {}

\* The session of c has a connection, or the pool can hand one out.
\* (Mutant: max_overflow = -1, a pool without limit.)
CanConnectUnlimited(c) == TRUE
CanConnect(c) == c \in conns \/ Cardinality(conns) < PoolSize

\* The create calls without a key that have a row, or that may still get one.
Keyless ==
    Cardinality(RowsOf(NoKey)) +
    Cardinality({c \in Clients : call[c] # NoCall /\ call[c].key = NoKey
                                 /\ pc[c] \in {"select", "insert", "commit"}})

-----------------------------------------------------------------------------
(* Entering and leaving a call.                                              *)

Begin(c, stage, request, id) ==
    /\ pc[c] = "idle"
    /\ pc' = [pc EXCEPT ![c] = stage]
    /\ call' = [call EXCEPT ![c] = request]
    /\ bid' = [bid EXCEPT ![c] = id]
    /\ answer' = [answer EXCEPT ![c] = NoAnswer]
    /\ knownCancelled' = [knownCancelled EXCEPT ![c] = cancelAcked]
    /\ UNCHANGED <<rows, conns, issued, cancelAcked>>

BeginCreate(c) ==
    \E k \in Keys \cup {NoKey}, s \in Snapshots :
        /\ k = NoKey => Keyless < MaxKeyless
        /\ Begin(c, IF k = NoKey THEN "insert" ELSE "select", [key |-> k, snap |-> s], NoId)

BeginCancel(c) == \E id \in BookingIds : Begin(c, "load", NoCall, id)

BeginGet(c) == \E id \in BookingIds : Begin(c, "read", NoCall, id)

\* "with SessionLocal() as s" ends: the session is closed, the call answers.
Return(c, a) ==
    /\ pc' = [pc EXCEPT ![c] = "idle"]
    /\ call' = [call EXCEPT ![c] = NoCall]
    /\ bid' = [bid EXCEPT ![c] = NoId]
    /\ conns' = conns \ {c}
    /\ answer' = [answer EXCEPT ![c] = a]
    /\ UNCHANGED knownCancelled

\* (Mutant: the caller's snapshot is written back to the row.)
ReturnBookingRefreshed(c, id) ==
    /\ Return(c, [op |-> "create", id |-> id, status |-> rows[id].status,
                  snap |-> call[c].snap])
    /\ rows' = [rows EXCEPT ![id] = [@ EXCEPT !.snap = call[c].snap]]
    /\ UNCHANGED <<issued, cancelAcked>>

\* _booking_to_dict of a create call: the snapshot is the caller's argument.
ReturnBooking(c, id) ==
    /\ Return(c, [op |-> "create", id |-> id, status |-> rows[id].status,
                  snap |-> call[c].snap])
    /\ issued' = IF call[c].key = NoKey THEN issued
                 ELSE [issued EXCEPT ![call[c].key] = @ \cup {id}]
    /\ UNCHANGED <<rows, cancelAcked>>

ReturnNothing(c, a) == Return(c, a) /\ UNCHANGED <<rows, issued, cancelAcked>>

\* The session goes on with its next statement.
Goto(c, stage) ==
    /\ pc' = [pc EXCEPT ![c] = stage]
    /\ UNCHANGED <<call, answer, issued, cancelAcked, knownCancelled>>

-----------------------------------------------------------------------------
(* create_booking                                                            *)

\* Lines 78-82: SELECT ... WHERE idempotency_key = k AND status = 'CONFIRMED'.
SelectExisting(c) ==
    /\ pc[c] = "select" /\ CanConnect(c)
    /\ \/ \E id \in Confirmed(call[c].key) : ReturnBooking(c, id)
       \/ /\ Confirmed(call[c].key) = {}
          /\ Goto(c, "insert")
          /\ conns' = conns \cup {c}
          /\ UNCHANGED <<rows, bid>>

\* Line 94, the flush: the INSERT is accepted and its key is locked.
Insert(c) ==
    /\ pc[c] = "insert" /\ CanConnect(c)
    /\ call[c].key # NoKey => KeyFree(call[c].key)
    /\ \E id \in BookingIds :
        /\ Fresh(id)
        /\ bid' = [bid EXCEPT ![c] = id]
    /\ Goto(c, "commit")
    /\ conns' = conns \cup {c}
    /\ UNCHANGED rows

\* (Mutant: the conflict is reported before the other insert is committed.)
InsertConflictEarly(c) ==
    /\ pc[c] = "insert" /\ CanConnect(c)
    /\ call[c].key # NoKey /\ ~ KeyFree(call[c].key)
    /\ Goto(c, "winner")
    /\ conns' = conns \ {c}
    /\ UNCHANGED <<rows, bid>>

\* Lines 94, 97-98: the UNIQUE violation, and the rollback that handles it.
InsertConflict(c) ==
    /\ pc[c] = "insert" /\ CanConnect(c)
    /\ call[c].key # NoKey /\ RowsOf(call[c].key) # {}
    /\ Goto(c, "winner")
    /\ conns' = conns \ {c}
    /\ UNCHANGED <<rows, bid>>

\* Line 94, the COMMIT: the row becomes visible, the connection is returned.
Commit(c) ==
    /\ pc[c] = "commit"
    /\ rows' = [rows EXCEPT ![bid[c]] = NewRow(call[c].key, call[c].snap)]
    /\ Goto(c, "refresh")
    /\ conns' = conns \ {c}
    /\ UNCHANGED bid

\* Lines 95-96.
Refresh(c) == pc[c] = "refresh" /\ CanConnect(c) /\ ReturnBooking(c, bid[c])

\* (Mutant: only a CONFIRMED winner will do, otherwise the INSERT is retried.)
SelectWinnerRetry(c) ==
    /\ pc[c] = "winner" /\ CanConnect(c)
    /\ \/ \E id \in Confirmed(call[c].key) : ReturnBooking(c, id)
       \/ /\ Confirmed(call[c].key) = {}
          /\ Goto(c, "insert")
          /\ UNCHANGED <<rows, bid, conns>>

\* Lines 99-104: the SELECT has no status filter; no row at all would make
\* _booking_to_dict(None, ...) raise.
SelectWinner(c) ==
    /\ pc[c] = "winner" /\ CanConnect(c)
    /\ \/ \E id \in RowsOf(call[c].key) : ReturnBooking(c, id)
       \/ RowsOf(call[c].key) = {} /\ ReturnNothing(c, Exception)

-----------------------------------------------------------------------------
(* cancel_booking                                                            *)

\* Lines 117-119.
Load(c) ==
    /\ pc[c] = "load" /\ CanConnect(c)
    /\ \/ rows[bid[c]] = NoRow /\ ReturnNothing(c, NotFound)
       \/ /\ rows[bid[c]] # NoRow
          /\ Goto(c, "update")
          /\ conns' = conns \cup {c}
          /\ UNCHANGED <<rows, bid>>

\* (Mutants: the change is flushed and never committed; the row is deleted.)
UpdateUncommitted(c) ==
    /\ pc[c] = "update"
    /\ Goto(c, "reload")
    /\ conns' = conns \ {c}
    /\ UNCHANGED <<rows, bid>>
UpdateDelete(c) ==
    /\ pc[c] = "update"
    /\ rows' = [rows EXCEPT ![bid[c]] = NoRow]
    /\ Goto(c, "reload")
    /\ conns' = conns \ {c}
    /\ UNCHANGED bid

\* Lines 120-121: UPDATE and COMMIT.  An object that was loaded CANCELLED is
\* not dirty and sends no UPDATE, which comes to the same row.
Update(c) ==
    /\ pc[c] = "update"
    /\ rows' = WithCancelled(rows, bid[c])
    /\ Goto(c, "reload")
    /\ conns' = conns \ {c}
    /\ UNCHANGED bid

\* Lines 122-127.  The call acknowledges a cancellation when it reports one.
Reload(c) ==
    /\ pc[c] = "reload" /\ CanConnect(c)
    /\ Return(c, [op |-> "cancel", id |-> bid[c], status |-> rows[bid[c]].status])
    /\ cancelAcked' = cancelAcked \cup {bid[c]}
    /\ UNCHANGED <<rows, issued>>

-----------------------------------------------------------------------------
(* get_booking                                                               *)

\* Lines 139-143: the answer carries the stored snapshot.
Read(c) ==
    /\ pc[c] = "read" /\ CanConnect(c)
    /\ \/ rows[bid[c]] = NoRow /\ ReturnNothing(c, NotFound)
       \/ /\ rows[bid[c]] # NoRow
          /\ ReturnNothing(c, [op |-> "get", id |-> bid[c],
                               status |-> rows[bid[c]].status,
                               snap |-> rows[bid[c]].snap])

-----------------------------------------------------------------------------
(* What interrupts a call.                                                   *)

\* pool_timeout: the session waits for a connection and gives up (the pool
\* raises TimeoutError, which nothing in store.py catches).
PoolTimeout(c) ==
    /\ pc[c] \notin {"idle", "commit", "update"}
    /\ c \notin conns
    /\ ReturnNothing(c, Exception)

\* The connection breaks, or the process dies, before or during a statement.
\* Postgres rolls the open transaction back and releases its locks.
Fault(c) == pc[c] # "idle" /\ ReturnNothing(c, Exception)

\* The connection breaks after the server executed COMMIT and before the
\* client read the reply: the write is durable, the call raises.
FaultAfterCommit(c) ==
    /\ \/ /\ pc[c] = "commit"
          /\ rows' = [rows EXCEPT ![bid[c]] = NewRow(call[c].key, call[c].snap)]
       \/ /\ pc[c] = "update"
          /\ rows' = WithCancelled(rows, bid[c])
    /\ Return(c, Exception)
    /\ UNCHANGED <<issued, cancelAcked>>

-----------------------------------------------------------------------------

Statement(c) ==
    \/ SelectExisting(c) \/ Insert(c) \/ InsertConflict(c) \/ Commit(c)
    \/ Refresh(c) \/ SelectWinner(c)
    \/ Load(c) \/ Update(c) \/ Reload(c)
    \/ Read(c)

Request(c) == BeginCreate(c) \/ BeginCancel(c) \/ BeginGet(c)

Failure(c) == Fault(c) \/ FaultAfterCommit(c)

Next == \E c \in Clients : Request(c) \/ Statement(c) \/ PoolTimeout(c) \/ Failure(c)

Spec == Init /\ [][Next]_vars

\* Threads are scheduled and Postgres answers; a wait for the pool ends, at
\* the latest, with pool_timeout.  Requests are never owed, and faults are
\* assumed to stop one day.
LiveSpec ==
    /\ Spec
    /\ \A c \in Clients : WF_vars(Statement(c) \/ PoolTimeout(c))
    /\ <>[][~ \E c \in Clients : Failure(c)]_vars

-----------------------------------------------------------------------------
(* What the store promises.                                                  *)

Ledger == INSTANCE BookingLedger

(* Every step of the store is a step of BookingLedger or leaves it alone:    *)
(* the read, insert, on-conflict-read protocol of the docstring (lines 5-18) *)
(* is idempotent per key whatever its interleavings and faults.              *)
ImplementsLedger == Ledger!LedgerSpec

(* Every create call for one key was answered with the same booking, and     *)
(* that booking is stored under the key: a retry after an exception whose    *)
(* commit did happen does not book twice (models.py lines 5-9).              *)
SameKeySameBooking == Ledger!SameKeySameBooking

(* At most one transaction or committed row owns a key.  This is what the    *)
(* UNIQUE index gives the protocol, and what makes the INSERT race safe.     *)
UniqueKey ==
    \A k \in Keys :
        /\ \A i, j \in RowsOf(k) : i = j
        /\ \A c, d \in Inserting(k) : c = d
        /\ Inserting(k) # {} => RowsOf(k) = {}

(* After an IntegrityError the final SELECT must find the winning row        *)
(* (docstring, lines 11-13): _booking_to_dict is never handed None.          *)
WinnerFound == \A c \in Clients : pc[c] = "winner" => RowsOf(call[c].key) # {}

(* A caller that was told of a cancellation never hears CONFIRMED of that    *)
(* booking in a call it begins later, whichever function it calls and        *)
(* whichever client cancelled.                                               *)
NoAnswerBeforeCancel ==
    \A c \in Clients :
        answer[c] \in BookingAnswer /\ answer[c].status = "CONFIRMED"
            => answer[c].id \notin knownCancelled[c]

(* get_booking returns the snapshot that is frozen in the row, even when     *)
(* creates for the same key brought newer payloads (models.py, lines 13-18). *)
StoredSnapshotRead ==
    \A c \in Clients :
        answer[c] \in BookingAnswer /\ answer[c].op = "get"
            => rows[answer[c].id] # NoRow /\ answer[c].snap = rows[answer[c].id].snap

(* A session that holds a row or key lock holds a connection too, so that    *)
(* it never waits for the pool while others wait for the lock; the pool is   *)
(* not overdrawn and no ended call keeps a connection.                       *)
LockHoldersConnected ==
    /\ Cardinality(conns) <= PoolSize
    /\ \A c \in Clients : pc[c] \in {"commit", "update"} => c \in conns
    /\ \A c \in conns : pc[c] \in {"insert", "commit", "update"}

(* app/api/tools.py, lines 11-12: a create call whose key was used before    *)
(* returns "the existing CONFIRMED booking".  It need not: after a cancel    *)
(* the key stays in the table, the INSERT conflicts, and the final SELECT,   *)
(* which does not look at the status, returns the cancelled booking.         *)
CreateReturnsConfirmed ==
    \A c \in Clients :
        answer[c] \in BookingAnswer /\ answer[c].op = "create"
            => answer[c].status = "CONFIRMED"

(* Every call returns, although inserts wait for each other's commits and    *)
(* all wait for the pool.                                                    *)
EveryCallReturns == \A c \in Clients : pc[c] # "idle" ~> pc[c] = "idle"

=============================================================================
