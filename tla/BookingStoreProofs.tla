------------------------- MODULE BookingStoreProofs --------------------------
(***************************************************************************)
(* The store's safety for any number of clients, keys, ids and snapshots.  *)
(* StoreInv is inductive: it says what each stage of a call knows of the   *)
(* table.  From it every step is a step of the ledger, and what the ledger *)
(* promises (BookingLedger, LedgerCorrect) holds of the store.             *)
(***************************************************************************)
EXTENDS BookingStore, FiniteSetTheorems, TLAPS

Creating == {"select", "insert", "commit", "refresh", "winner"}

(* What a stage knows of its own call and of the row it works on.            *)
SessionKnows(c) ==
    /\ pc[c] \in Creating => call[c] \in CreateCall
    /\ pc[c] \in {"select", "winner"} => call[c].key \in Keys
    /\ pc[c] \in Stages \ {"idle", "select", "insert", "winner"} => bid[c] \in BookingIds
    /\ pc[c] = "commit" => rows[bid[c]] = NoRow
    /\ pc[c] = "refresh" => bid[c] \in RowsOf(call[c].key)
    /\ pc[c] \in {"update", "reload"} => rows[bid[c]] # NoRow
    /\ pc[c] = "reload" => rows[bid[c]].status = "CANCELLED"

(* Two rows about to be committed have two ids.                              *)
DistinctPending ==
    \A c, d \in Clients : pc[c] = "commit" /\ pc[d] = "commit" /\ bid[c] = bid[d] => c = d

StoreInv ==
    /\ TypeOK
    /\ \A c \in Clients : SessionKnows(c)
    /\ DistinctPending
    /\ UniqueKey
    /\ WinnerFound

USE DEF Row, Statuses, Table

(* A call that ends without changing a row leaves the other sessions as they *)
(* were.                                                                     *)
LEMMA ReturnKeeps ==
    ASSUME StoreInv, NEW c \in Clients, NEW a \in Answer, Return(c, a),
           rows' = rows,
           issued' \in [Keys -> SUBSET BookingIds], cancelAcked' \in SUBSET BookingIds
    PROVE  StoreInv'
BY BookingConstants, StoreConstants
DEF StoreInv, TypeOK, SessionKnows, DistinctPending, UniqueKey, WinnerFound,
    Return, RowsOf, IdsOf, Inserting, Stages, Creating

(* So does one that returns a booking and tells the client of its id.        *)
LEMMA ReturnBookingKeeps ==
    ASSUME StoreInv, NEW c \in Clients, NEW id \in BookingIds, rows[id] # NoRow,
           pc[c] \in Creating, ReturnBooking(c, id)
    PROVE  StoreInv'
<1>1. call[c] \in CreateCall /\ rows[id] \in Row
  BY DEF StoreInv, TypeOK, SessionKnows
<1>2. [op |-> "create", id |-> id, status |-> rows[id].status, snap |-> call[c].snap]
        \in Answer
  BY <1>1 DEF Answer, BookingAnswer, CreateCall
<1>3. rows' = rows /\ cancelAcked' = cancelAcked
      /\ issued' \in [Keys -> SUBSET BookingIds]
  BY <1>1 DEF ReturnBooking, StoreInv, TypeOK, CreateCall
<1> QED BY <1>2, <1>3, ReturnKeeps DEF ReturnBooking, StoreInv, TypeOK

(* COMMIT of c's insert, whether the call then goes on or has broken.        *)
LEMMA CommitKeeps ==
    ASSUME StoreInv, NEW c \in Clients, Commit(c) \/ FaultAfterCommit(c), pc[c] = "commit"
    PROVE  StoreInv'
<1>1. /\ call[c] \in CreateCall /\ bid[c] \in BookingIds
      /\ NewRow(call[c].key, call[c].snap) \in Row
      /\ Exception \in Answer
  BY DEF StoreInv, SessionKnows, Creating, Stages, CreateCall, NewRow,
         Exception, Answer, OtherAnswer
<1>2. rows' = [rows EXCEPT ![bid[c]] = NewRow(call[c].key, call[c].snap)]
  BY DEF Commit, FaultAfterCommit
<1>3. TypeOK'
  BY <1>1, <1>2 DEF StoreInv, TypeOK, Commit, FaultAfterCommit, Goto, Return, Stages
<1>4. ASSUME NEW d \in Clients
      PROVE  SessionKnows(d)'
  <2>1. CASE d = c
    BY <1>1, <1>2, <2>1, BookingConstants, StoreConstants
    DEF StoreInv, TypeOK, SessionKnows, Commit, FaultAfterCommit, Goto,
        Return, RowsOf, IdsOf, NewRow, Stages, Creating, CreateCall
  <2>2. CASE d # c
    <3>1. pc'[d] = pc[d] /\ call'[d] = call[d] /\ bid'[d] = bid[d]
      BY <2>2 DEF StoreInv, TypeOK, Commit, FaultAfterCommit, Goto, Return
    <3>2. SessionKnows(d) /\ bid[c] \in BookingIds /\ rows[bid[c]] = NoRow /\ pc[c] = "commit"
      BY DEF StoreInv, SessionKnows, Commit, FaultAfterCommit, Stages
    <3>3. \A id \in BookingIds : rows[id] # NoRow \/ id # bid[c] => rows'[id] = rows[id]
      BY <1>2, <3>2 DEF StoreInv, TypeOK
    <3>4. pc[d] = "commit" => bid[d] # bid[c]
      BY <2>2, <3>2 DEF StoreInv, DistinctPending
    <3>5. pc[d] = "commit" => rows'[bid[d]] = NoRow
      BY <3>2, <3>3, <3>4 DEF SessionKnows, Stages
    <3>6. pc[d] = "refresh" => bid[d] \in RowsOf(call[d].key)'
      BY <3>1, <3>2, <3>3 DEF SessionKnows, RowsOf, IdsOf
    <3>7. pc[d] \in {"update", "reload"} => rows'[bid[d]] = rows[bid[d]]
      BY <3>2, <3>3 DEF SessionKnows, Stages
    <3> QED BY <3>1, <3>2, <3>5, <3>6, <3>7 DEF SessionKnows
  <2> QED BY <2>1, <2>2
<1>5. DistinctPending'
  BY DEF StoreInv, TypeOK, DistinctPending, Commit, FaultAfterCommit, Goto, Return
<1>6. UniqueKey'
  <2>1. ASSUME NEW k \in Keys
        PROVE  /\ Inserting(k)' = Inserting(k) \ {c}
               /\ RowsOf(k)' = IF k = call[c].key THEN RowsOf(k) \cup {bid[c]} ELSE RowsOf(k)
    <3>1. /\ pc' = [pc EXCEPT ![c] = pc'[c]] /\ pc'[c] # "commit"
          /\ \A d \in Clients : d # c => call'[d] = call[d] /\ pc'[d] = pc[d]
      BY DEF StoreInv, TypeOK, Commit, FaultAfterCommit, Goto, Return
    <3>2. Inserting(k)' = Inserting(k) \ {c}
      BY <3>1 DEF Inserting
    <3>3. \A id \in BookingIds : rows'[id] = IF id = bid[c] THEN NewRow(call[c].key, call[c].snap)
                                            ELSE rows[id]
      BY <1>2 DEF StoreInv, TypeOK
    <3>4. /\ bid[c] \in BookingIds /\ rows[bid[c]] = NoRow
          /\ NewRow(call[c].key, call[c].snap) # NoRow
          /\ NewRow(call[c].key, call[c].snap).key = call[c].key
      <4>1. bid[c] \in BookingIds /\ rows[bid[c]] = NoRow
        BY DEF StoreInv, SessionKnows, Stages
      <4>2. NewRow(call[c].key, call[c].snap) # NoRow
        BY <1>1, BookingConstants
      <4>3. NewRow(call[c].key, call[c].snap).key = call[c].key
        BY DEF NewRow
      <4> QED BY <4>1, <4>2, <4>3
    <3>5. RowsOf(k)' = IF k = call[c].key THEN RowsOf(k) \cup {bid[c]} ELSE RowsOf(k)
      BY <3>3, <3>4 DEF RowsOf, IdsOf
    <3> QED BY <3>2, <3>5
  <2>2. ASSUME NEW k \in Keys
        PROVE  k = call[c].key => Inserting(k) = {c} /\ RowsOf(k) = {}
    BY DEF StoreInv, UniqueKey, Inserting
  <2> QED BY <2>1, <2>2 DEF StoreInv, UniqueKey
<1>7. WinnerFound'
  BY <1>1, <1>2, BookingConstants
  DEF StoreInv, TypeOK, SessionKnows, WinnerFound, Commit, FaultAfterCommit, Goto,
      Return, RowsOf, IdsOf, NewRow, CreateCall, Creating
<1> QED BY <1>3, <1>4, <1>5, <1>6, <1>7 DEF StoreInv

(* UPDATE and COMMIT of a cancellation, answered or not.                     *)
LEMMA UpdateKeeps ==
    ASSUME StoreInv, NEW c \in Clients, Update(c) \/ FaultAfterCommit(c), pc[c] = "update"
    PROVE  StoreInv'
<1>1. /\ bid[c] \in BookingIds /\ rows[bid[c]] \in Row
      /\ Exception \in Answer
  BY DEF StoreInv, TypeOK, SessionKnows, Stages, Exception, Answer, OtherAnswer
<1>2. rows' = [rows EXCEPT ![bid[c]] = [@ EXCEPT !.status = "CANCELLED"]]
  BY DEF Update, FaultAfterCommit, WithCancelled
<1>3. /\ rows' \in Table
      /\ \A id \in BookingIds :
            /\ rows'[id] = NoRow <=> rows[id] = NoRow
            /\ rows[id] # NoRow => rows'[id].key = rows[id].key
            /\ rows[id] # NoRow /\ rows[id].status = "CANCELLED"
                  => rows'[id].status = "CANCELLED"
      /\ rows'[bid[c]].status = "CANCELLED"
  BY <1>1, <1>2, BookingConstants DEF StoreInv, TypeOK
<1>4. \A k : RowsOf(k)' = RowsOf(k)
  BY <1>3 DEF RowsOf, IdsOf
<1>5. TypeOK'
  BY <1>1, <1>3 DEF StoreInv, TypeOK, Update, FaultAfterCommit, Goto, Return, Stages
<1>6. \A d \in Clients : SessionKnows(d)'
  BY <1>1, <1>3, <1>4
  DEF StoreInv, TypeOK, SessionKnows, Update, FaultAfterCommit, Goto, Return,
      Stages, Creating
<1>7. DistinctPending'
  BY DEF StoreInv, TypeOK, DistinctPending, Update, FaultAfterCommit, Goto, Return
<1>8. \A k : Inserting(k)' = Inserting(k)
  BY DEF StoreInv, TypeOK, Inserting, Update, FaultAfterCommit, Goto, Return
<1>9. UniqueKey'
  BY <1>4, <1>8 DEF StoreInv, UniqueKey
<1>10. \A d \in Clients : pc'[d] = "winner" => pc[d] = "winner" /\ call'[d] = call[d]
  BY DEF StoreInv, TypeOK, Update, FaultAfterCommit, Goto, Return
<1>11. WinnerFound'
  BY <1>4, <1>10 DEF StoreInv, WinnerFound
<1> QED BY <1>5, <1>6, <1>7, <1>9, <1>11 DEF StoreInv

(* A new call opens a session that knows nothing and holds nothing.          *)
LEMMA RequestKeeps ==
    ASSUME StoreInv, NEW c \in Clients, Request(c)
    PROVE  StoreInv'
<1>1. PICK stage \in {"select", "insert", "load", "read"},
           request \in CreateCall \cup {NoCall}, id \in BookingIds \cup {NoId} :
        /\ Begin(c, stage, request, id)
        /\ stage \in {"select", "insert"} => request \in CreateCall
        /\ stage = "select" => request.key \in Keys
        /\ stage \in {"load", "read"} => id \in BookingIds
  BY DEF Request, BeginCreate, BeginCancel, BeginGet, CreateCall
<1>2. TypeOK'
  BY <1>1 DEF StoreInv, TypeOK, Begin, Stages
<1>3. \A d \in Clients : SessionKnows(d)'
  BY <1>1 DEF StoreInv, TypeOK, SessionKnows, Begin, RowsOf, IdsOf, Stages, Creating
<1>4. DistinctPending'
  BY <1>1 DEF StoreInv, TypeOK, DistinctPending, Begin
<1>5. \A k : RowsOf(k)' = RowsOf(k) /\ Inserting(k)' = Inserting(k)
  BY <1>1 DEF StoreInv, TypeOK, Begin, RowsOf, IdsOf, Inserting
<1>6. \A d \in Clients : pc'[d] = "winner" => pc[d] = "winner" /\ call'[d] = call[d]
  BY <1>1 DEF StoreInv, TypeOK, Begin
<1> QED BY <1>2, <1>3, <1>4, <1>5, <1>6 DEF StoreInv, UniqueKey, WinnerFound

(* The steps that neither end the call nor change the table.                 *)
LEMMA AdvanceKeeps ==
    ASSUME StoreInv, NEW c \in Clients, rows' = rows, bid' = bid,
           conns' \in SUBSET Clients,
           \/ pc[c] = "select" /\ Goto(c, "insert")
           \/ pc[c] = "insert" /\ RowsOf(call[c].key) # {} /\ Goto(c, "winner")
              /\ call[c].key # NoKey
           \/ pc[c] = "load" /\ rows[bid[c]] # NoRow /\ Goto(c, "update")
    PROVE  StoreInv'
<1>1. TypeOK'
  BY DEF StoreInv, TypeOK, Goto, Stages
<1>2. \A d \in Clients : SessionKnows(d)'
  BY DEF StoreInv, TypeOK, SessionKnows, Goto, RowsOf, IdsOf, Stages, Creating, CreateCall
<1>3. DistinctPending'
  BY DEF StoreInv, TypeOK, DistinctPending, Goto
<1>4. \A k : RowsOf(k)' = RowsOf(k) /\ Inserting(k)' = Inserting(k)
  BY DEF StoreInv, TypeOK, Goto, RowsOf, IdsOf, Inserting
<1>5. UniqueKey'
  BY <1>4 DEF StoreInv, UniqueKey
<1>6. WinnerFound'
  BY <1>4 DEF StoreInv, TypeOK, WinnerFound, Goto
<1> QED BY <1>1, <1>2, <1>3, <1>5, <1>6 DEF StoreInv

(* An INSERT takes a key that no row and no other open transaction holds, or *)
(* finds the winner's row.                                                   *)
LEMMA InsertKeeps ==
    ASSUME StoreInv, NEW c \in Clients, Insert(c)
    PROVE  StoreInv'
BY BookingConstants
DEF StoreInv, TypeOK, SessionKnows, DistinctPending, UniqueKey, WinnerFound, Insert,
    KeyFree, Fresh, Goto, RowsOf, IdsOf, Inserting, Stages, Creating, CreateCall

-----------------------------------------------------------------------------

(* Every statement of the three functions keeps the invariant.               *)
LEMMA StatementKeeps ==
    ASSUME StoreInv, NEW c \in Clients, Statement(c)
    PROVE  StoreInv'
<1> USE DEF Statement
<1>0. /\ Exception \in Answer /\ NotFound \in Answer
      /\ bid[c] \in BookingIds /\ rows[bid[c]] # NoRow =>
            /\ [op |-> "cancel", id |-> bid[c], status |-> rows[bid[c]].status] \in Answer
            /\ [op |-> "get", id |-> bid[c], status |-> rows[bid[c]].status,
                snap |-> rows[bid[c]].snap] \in Answer
  BY DEF StoreInv, TypeOK, Exception, NotFound, Answer, OtherAnswer, CancelAnswer,
         BookingAnswer
<1>1. CASE SelectExisting(c)
  BY <1>1, ReturnBookingKeeps, AdvanceKeeps
  DEF SelectExisting, Confirmed, RowsOf, IdsOf, Creating, StoreInv, TypeOK
<1>2. CASE Insert(c)
  BY <1>2, InsertKeeps
<1>3. CASE InsertConflict(c)
  BY <1>3, AdvanceKeeps DEF InsertConflict, StoreInv, TypeOK
<1>4. CASE Commit(c)
  BY <1>4, CommitKeeps DEF Commit
<1>5. CASE Refresh(c)
  BY <1>5, ReturnBookingKeeps
  DEF Refresh, StoreInv, SessionKnows, RowsOf, IdsOf, Creating
<1>6. CASE SelectWinner(c)
  BY <1>0, <1>6, ReturnBookingKeeps, ReturnKeeps
  DEF SelectWinner, ReturnNothing, RowsOf, IdsOf, Creating, StoreInv, TypeOK
<1>7. CASE Load(c)
  BY <1>0, <1>7, ReturnKeeps, AdvanceKeeps DEF Load, ReturnNothing, StoreInv, TypeOK
<1>8. CASE Update(c)
  BY <1>8, UpdateKeeps DEF Update
<1>9. CASE Reload(c)
  <2>1. bid[c] \in BookingIds /\ rows[bid[c]] # NoRow
    BY <1>9 DEF Reload, StoreInv, SessionKnows, Stages
  <2> QED BY <2>1, <1>0, <1>9, ReturnKeeps DEF Reload, StoreInv, TypeOK
<1>10. CASE Read(c)
  <2>1. bid[c] \in BookingIds
    BY <1>10 DEF Read, StoreInv, SessionKnows, Stages
  <2> QED BY <2>1, <1>0, <1>10, ReturnKeeps DEF Read, ReturnNothing, StoreInv, TypeOK
<1> QED BY <1>1, <1>2, <1>3, <1>4, <1>5, <1>6, <1>7, <1>8, <1>9, <1>10

(* So does every way a call can break, after its commit included.            *)
LEMMA FailureKeeps ==
    ASSUME StoreInv, NEW c \in Clients, PoolTimeout(c) \/ Failure(c)
    PROVE  StoreInv'
<1>1. Exception \in Answer
  BY DEF Exception, Answer, OtherAnswer
<1>2. CASE PoolTimeout(c) \/ Fault(c)
  BY <1>1, <1>2, ReturnKeeps DEF PoolTimeout, Fault, ReturnNothing, StoreInv, TypeOK
<1>3. CASE FaultAfterCommit(c)
  BY <1>3, CommitKeeps, UpdateKeeps DEF FaultAfterCommit
<1> QED BY <1>2, <1>3 DEF Failure

(* The invariant that the theorems below rest on: type correctness, what an  *)
(* open session knows of its row, and who owns a key.                        *)
THEOREM StoreInvariant == Spec => []StoreInv
<1>1. Init => StoreInv
  BY BookingConstants, StoreConstants
  DEF Init, StoreInv, TypeOK, SessionKnows, DistinctPending, UniqueKey, WinnerFound,
      RowsOf, IdsOf, Inserting, EmptyTable, Stages, Creating
<1>2. StoreInv /\ [Next]_vars => StoreInv'
  <2> SUFFICES ASSUME StoreInv, [Next]_vars
               PROVE  StoreInv'
    OBVIOUS
  <2>1. CASE Next
    BY <2>1, RequestKeeps, StatementKeeps, FailureKeeps DEF Next
  <2>2. CASE UNCHANGED vars
    BY <2>2
    DEF vars, StoreInv, TypeOK, SessionKnows, DistinctPending, UniqueKey, WinnerFound,
        RowsOf, IdsOf, Inserting
  <2> QED BY <2>1, <2>2
<1> QED BY <1>1, <1>2, PTL DEF Spec

-----------------------------------------------------------------------------
(* The store implements the ledger.                                          *)

(* Returning a booking is the ledger's Tell for a create, nothing for a get. *)
LEMMA ReturnBookingTells ==
    ASSUME StoreInv, NEW c \in Clients, NEW id \in RowsOf(call[c].key),
           pc[c] \in Creating, ReturnBooking(c, id)
    PROVE  [Ledger!LedgerNext]_Ledger!ledgerVars
<1>1. call[c] \in CreateCall /\ id \in BookingIds
  BY DEF StoreInv, SessionKnows, RowsOf, IdsOf
<1>2. CASE call[c].key = NoKey
  BY <1>2 DEF ReturnBooking, Ledger!ledgerVars
<1>3. CASE call[c].key \in Keys
  <2>1. Ledger!Tell(call[c].key, id)
    BY <1>3, BookingConstants DEF ReturnBooking, Ledger!Tell, Ledger!RowsOf, Ledger!IdsOf, RowsOf, IdsOf
  <2> QED BY <1>1, <1>3, <2>1 DEF Ledger!LedgerNext
<1> QED BY <1>1, <1>2, <1>3 DEF CreateCall

(* Commits are Book and Cancel, answers are Tell and Acknowledge, and every  *)
(* other statement is a stutter of the ledger.                               *)
LEMMA StepImplementsLedger ==
    ASSUME StoreInv, [Next]_vars
    PROVE  [Ledger!LedgerNext]_Ledger!ledgerVars
<1>1. ASSUME NEW c \in Clients, Request(c)
      PROVE  UNCHANGED Ledger!ledgerVars
  BY <1>1 DEF Request, BeginCreate, BeginCancel, BeginGet, Begin, Ledger!ledgerVars
<1>2. ASSUME NEW c \in Clients, Commit(c) \/ FaultAfterCommit(c)
      PROVE  [Ledger!LedgerNext]_Ledger!ledgerVars
  <2>1. CASE pc[c] = "commit"
    <3>1. Ledger!Book(bid[c], call[c].key, call[c].snap)
      BY <1>2, <2>1
      DEF StoreInv, SessionKnows, UniqueKey, Inserting, RowsOf, CreateCall, Creating,
          Commit, FaultAfterCommit, Goto, Ledger!Book, Ledger!RowsOf, Ledger!IdsOf,
          IdsOf, Ledger!NewRow, NewRow
    <3>2. bid[c] \in BookingIds /\ call[c] \in CreateCall
      BY <2>1 DEF StoreInv, SessionKnows, Creating, Stages
    <3> QED BY <3>1, <3>2 DEF Ledger!LedgerNext, CreateCall
  <2>2. CASE pc[c] = "update"
    <3>1. bid[c] \in BookingIds /\ Ledger!Cancel(bid[c])
      BY <1>2, <2>2
      DEF StoreInv, SessionKnows, Stages, Commit, FaultAfterCommit, Ledger!Cancel,
          Ledger!WithCancelled, WithCancelled
    <3> QED BY <3>1 DEF Ledger!LedgerNext
  <2> QED BY <1>2, <2>1, <2>2 DEF Commit, FaultAfterCommit
<1>3. ASSUME NEW c \in Clients, Update(c)
      PROVE  [Ledger!LedgerNext]_Ledger!ledgerVars
  <2>1. bid[c] \in BookingIds /\ Ledger!Cancel(bid[c])
    BY <1>3
    DEF StoreInv, SessionKnows, Stages, Update, Goto, Ledger!Cancel,
        Ledger!WithCancelled, WithCancelled
  <2> QED BY <2>1 DEF Ledger!LedgerNext
<1>4. ASSUME NEW c \in Clients, Reload(c)
      PROVE  [Ledger!LedgerNext]_Ledger!ledgerVars
  <2>1. bid[c] \in BookingIds /\ Ledger!Acknowledge(bid[c])
    BY <1>4 DEF StoreInv, SessionKnows, Stages, Reload, Ledger!Acknowledge
  <2> QED BY <2>1 DEF Ledger!LedgerNext
<1>5. ASSUME NEW c \in Clients, SelectExisting(c) \/ Refresh(c) \/ SelectWinner(c)
      PROVE  [Ledger!LedgerNext]_Ledger!ledgerVars
  <2>1. CASE \E id \in RowsOf(call[c].key) : pc[c] \in Creating /\ ReturnBooking(c, id)
    BY <2>1, ReturnBookingTells
  <2>2. CASE UNCHANGED Ledger!ledgerVars
    BY <2>2
  <2> QED
    BY <1>5, <2>1, <2>2
    DEF SelectExisting, Refresh, SelectWinner, Confirmed, ReturnNothing, Goto, Creating,
        Ledger!ledgerVars, StoreInv, SessionKnows
<1>6. ASSUME NEW c \in Clients,
             \/ Insert(c) \/ InsertConflict(c) \/ Load(c) \/ Read(c)
             \/ PoolTimeout(c) \/ Fault(c)
      PROVE  UNCHANGED Ledger!ledgerVars
  BY <1>6
  DEF Insert, InsertConflict, Load, Read, PoolTimeout, Fault, ReturnNothing, Goto,
      Ledger!ledgerVars
<1>7. CASE UNCHANGED vars
  BY <1>7 DEF vars, Ledger!ledgerVars
<1> QED
  BY <1>1, <1>2, <1>3, <1>4, <1>5, <1>6, <1>7 DEF Next, Statement, Failure

(* Refinement: whatever the threads, faults and interleavings, the table is  *)
(* a ledger and the answers are true of it.                                  *)
THEOREM StoreImplementsLedger == Spec => ImplementsLedger
<1>1. Init => Ledger!LedgerInit
  BY DEF Init, EmptyTable, Ledger!LedgerInit, Ledger!EmptyTable
<1>2. StoreInv /\ [Next]_vars => [Ledger!LedgerNext]_Ledger!ledgerVars
  BY StepImplementsLedger
<1> QED
  BY <1>1, <1>2, StoreInvariant, PTL
  DEF Spec, ImplementsLedger, Ledger!LedgerSpec

(* Hence the ledger's invariant holds of the store.                          *)
THEOREM StoreLedgerInv == Spec => []Ledger!LedgerInv
<1>1. Ledger!LedgerSpec => []Ledger!LedgerInv
  BY Ledger!LedgerCorrect, BookingConstants DEF Ledger!Row, Ledger!Statuses
<1> QED BY <1>1, StoreImplementsLedger, PTL DEF ImplementsLedger

(* One booking per key among all the answers ever given (models.py 5-9).     *)
THEOREM StoreSameKeySameBooking == Spec => []SameKeySameBooking
<1>1. Ledger!LedgerInv => SameKeySameBooking
  BY DEF Ledger!LedgerInv, SameKeySameBooking
<1> QED BY <1>1, StoreLedgerInv, PTL

(* A key has one owner: a row, or the one transaction that has inserted it.  *)
THEOREM StoreKeyHasOneOwner == Spec => []UniqueKey
<1>1. StoreInv => UniqueKey
  BY DEF StoreInv
<1> QED BY <1>1, StoreInvariant, PTL

(* Whoever loses the race for a key finds the winner's row.                  *)
THEOREM StoreWinnerFound == Spec => []WinnerFound
<1>1. StoreInv => WinnerFound
  BY DEF StoreInv
<1> QED BY <1>1, StoreInvariant, PTL

(* The type invariant.                                                       *)
THEOREM StoreTypeOK == Spec => []TypeOK
<1>1. StoreInv => TypeOK
  BY DEF StoreInv
<1> QED BY <1>1, StoreInvariant, PTL

-----------------------------------------------------------------------------
(* Real time: what a client was told before a call bounds what the call says *)

CancelledStays ==
    /\ \A c \in Clients : knownCancelled[c] \subseteq cancelAcked
    /\ NoAnswerBeforeCancel

(* No step forgets an acknowledged cancellation or answers against it.       *)
LEMMA CancelledStaysStep ==
    ASSUME StoreInv, Ledger!LedgerInv, CancelledStays, [Next]_vars
    PROVE  CancelledStays'
<1> USE DEF CancelledStays, NoAnswerBeforeCancel
<1>0. \A id \in cancelAcked : rows[id] # NoRow /\ rows[id].status = "CANCELLED"
  BY DEF Ledger!LedgerInv, Ledger!CancelAckTruth
<1>1. ASSUME NEW c \in Clients, Request(c)
      PROVE  CancelledStays'
  <2>1. NoAnswer \in BookingAnswer => FALSE
    BY StoreConstants DEF Answer
  <2> QED BY <2>1, <1>1
      DEF Request, BeginCreate, BeginCancel, BeginGet, Begin, StoreInv, TypeOK
<1>2. ASSUME NEW c \in Clients, NEW a \in Answer, Return(c, a),
             cancelAcked \subseteq cancelAcked',
             a \in BookingAnswer /\ a.status = "CONFIRMED" => a.id \notin cancelAcked
      PROVE  CancelledStays'
  BY <1>2 DEF Return, StoreInv, TypeOK
<1>3. ASSUME UNCHANGED <<answer, cancelAcked, knownCancelled>>
      PROVE  CancelledStays'
  BY <1>3
<1>4. ASSUME NEW c \in Clients, NEW id \in RowsOf(call[c].key), pc[c] \in Creating,
             ReturnBooking(c, id)
      PROVE  CancelledStays'
  <2>1. call[c] \in CreateCall /\ id \in BookingIds /\ rows[id] \in Row
    BY <1>4 DEF StoreInv, TypeOK, SessionKnows, RowsOf, IdsOf
  <2>2. [op |-> "create", id |-> id, status |-> rows[id].status, snap |-> call[c].snap]
          \in BookingAnswer
    BY <2>1 DEF BookingAnswer, CreateCall
  <2> QED BY <1>0, <1>2, <1>4, <2>2 DEF ReturnBooking, Answer
<1>5. Exception \in Answer \ BookingAnswer /\ NotFound \in Answer \ BookingAnswer
  BY DEF Answer, OtherAnswer, Exception, NotFound, BookingAnswer
<1>6. ASSUME NEW c \in Clients, Read(c)
      PROVE  CancelledStays'
  <2>1. bid[c] \in BookingIds
    BY <1>6 DEF Read, StoreInv, SessionKnows, Stages
  <2>2. CASE rows[bid[c]] # NoRow
    <3>1. [op |-> "get", id |-> bid[c], status |-> rows[bid[c]].status,
           snap |-> rows[bid[c]].snap] \in BookingAnswer
      BY <2>1, <2>2 DEF BookingAnswer, StoreInv, TypeOK
    <3> QED BY <1>0, <1>2, <1>6, <2>2, <3>1 DEF Read, ReturnNothing, Answer
  <2> QED BY <1>2, <1>5, <1>6, <2>2 DEF Read, ReturnNothing
<1>7. ASSUME NEW c \in Clients, Reload(c)
      PROVE  CancelledStays'
  <2>1. bid[c] \in BookingIds /\ rows[bid[c]] \in Row
    BY <1>7 DEF Reload, StoreInv, TypeOK, SessionKnows, Stages
  <2>2. [op |-> "cancel", id |-> bid[c], status |-> rows[bid[c]].status]
          \in Answer \ BookingAnswer
    BY <2>1 DEF Answer, CancelAnswer, BookingAnswer
  <2> QED BY <1>2, <1>7, <2>2 DEF Reload
<1>8. ASSUME NEW c \in Clients, SelectExisting(c) \/ Refresh(c) \/ SelectWinner(c)
      PROVE  CancelledStays'
  BY <1>2, <1>3, <1>4, <1>5, <1>8
  DEF SelectExisting, Refresh, SelectWinner, Confirmed, ReturnNothing, Goto, Creating,
      StoreInv, SessionKnows
<1>9. ASSUME NEW c \in Clients,
             Insert(c) \/ InsertConflict(c) \/ Commit(c) \/ Load(c) \/ Update(c)
      PROVE  CancelledStays'
  BY <1>2, <1>3, <1>5, <1>9
  DEF Insert, InsertConflict, Commit, Load, Update, Goto, ReturnNothing
<1>10. ASSUME NEW c \in Clients, PoolTimeout(c) \/ Failure(c)
       PROVE  CancelledStays'
  BY <1>2, <1>5, <1>10
  DEF PoolTimeout, Failure, Fault, FaultAfterCommit, ReturnNothing
<1>11. CASE UNCHANGED vars
  BY <1>3, <1>11 DEF vars
<1> QED BY <1>1, <1>6, <1>7, <1>8, <1>9, <1>10, <1>11 DEF Next, Statement

(* No answer of a call contradicts a cancellation acknowledged before it.    *)
THEOREM StoreNoAnswerBeforeCancel == Spec => []NoAnswerBeforeCancel
<1>1. Init => CancelledStays
  BY StoreConstants DEF Init, CancelledStays, NoAnswerBeforeCancel, Answer
<1>2. StoreInv /\ Ledger!LedgerInv /\ CancelledStays /\ [Next]_vars => CancelledStays'
  BY CancelledStaysStep
<1>3. CancelledStays => NoAnswerBeforeCancel
  BY DEF CancelledStays
<1> QED BY <1>1, <1>2, <1>3, StoreInvariant, StoreLedgerInv, PTL DEF Spec

-----------------------------------------------------------------------------
(* The connection pool.                                                      *)

PoolInv == IsFiniteSet(conns) /\ LockHoldersConnected

(* A statement that takes a connection keeps the pool within its size.       *)
LEMMA Connect ==
    ASSUME NEW c, IsFiniteSet(conns), Cardinality(conns) <= PoolSize, CanConnect(c)
    PROVE  /\ IsFiniteSet(conns \cup {c})
           /\ Cardinality(conns \cup {c}) <= PoolSize
<1>1. Cardinality(conns) \in Nat
  BY FS_CardinalityType
<1>2. /\ IsFiniteSet(conns \cup {c})
      /\ Cardinality(conns \cup {c})
            = IF c \in conns THEN Cardinality(conns) ELSE Cardinality(conns) + 1
  BY FS_AddElement
<1> QED BY <1>1, <1>2, StoreConstants DEF CanConnect

(* Giving a connection back keeps it there, too.                             *)
LEMMA Disconnect ==
    ASSUME NEW c, IsFiniteSet(conns), Cardinality(conns) <= PoolSize
    PROVE  /\ IsFiniteSet(conns \ {c})
           /\ Cardinality(conns \ {c}) <= PoolSize
<1>1. Cardinality(conns) \in Nat
  BY FS_CardinalityType
<1>2. /\ IsFiniteSet(conns \ {c})
      /\ Cardinality(conns \ {c})
            = IF c \in conns THEN Cardinality(conns) - 1 ELSE Cardinality(conns)
  BY FS_RemoveElement
<1> QED BY <1>1, <1>2, StoreConstants

(* Sessions hold a connection exactly while a transaction of theirs is open, *)
(* and the pool is never overdrawn.                                          *)
THEOREM StorePool == Spec => []LockHoldersConnected
<1>1. Init => PoolInv
  <2>1. IsFiniteSet({}) /\ Cardinality({}) = 0
    BY FS_EmptySet
  <2> QED BY <2>1, StoreConstants DEF Init, PoolInv, LockHoldersConnected
<1>2. StoreInv /\ PoolInv /\ [Next]_vars => PoolInv'
  <2> SUFFICES ASSUME StoreInv, PoolInv, [Next]_vars
               PROVE  PoolInv'
    OBVIOUS
  <2> USE DEF PoolInv, LockHoldersConnected
  <2>1. ASSUME NEW c \in Clients, Request(c)
        PROVE  PoolInv'
    BY <2>1 DEF Request, BeginCreate, BeginCancel, BeginGet, Begin, StoreInv, TypeOK
  <2>2. ASSUME NEW c \in Clients, NEW a, Return(c, a)
        PROVE  PoolInv'
    BY <2>2, Disconnect DEF Return, StoreInv, TypeOK
  <2>3. ASSUME NEW c \in Clients, NEW stage \in {"winner", "refresh", "reload"},
               Goto(c, stage), conns' = conns \ {c}
        PROVE  PoolInv'
    <3>1. IsFiniteSet(conns') /\ Cardinality(conns') <= PoolSize
      BY <2>3, Disconnect
    <3>2. \A d \in Clients : pc'[d] = IF d = c THEN stage ELSE pc[d]
      BY <2>3 DEF Goto, StoreInv, TypeOK
    <3>3. \A d \in conns' : d \in Clients /\ d # c /\ d \in conns
      BY <2>3 DEF StoreInv, TypeOK
    <3> QED BY <2>3, <3>1, <3>2, <3>3
  <2>4. ASSUME NEW c \in Clients, NEW stage \in {"insert", "commit", "update"},
               CanConnect(c), Goto(c, stage), conns' = conns \cup {c}
        PROVE  PoolInv'
    <3>1. IsFiniteSet(conns') /\ Cardinality(conns') <= PoolSize
      BY <2>4, Connect
    <3>2. \A d \in Clients : pc'[d] = IF d = c THEN stage ELSE pc[d]
      BY <2>4 DEF Goto, StoreInv, TypeOK
    <3>3. \A d \in conns' : d \in Clients /\ (d = c \/ d \in conns)
      BY <2>4 DEF StoreInv, TypeOK
    <3> QED BY <2>4, <3>1, <3>2, <3>3
  <2>5. CASE UNCHANGED vars
    BY <2>5 DEF vars
  <2>6. ASSUME NEW c \in Clients, Statement(c)
        PROVE  PoolInv'
    BY <2>2, <2>3, <2>4, <2>6
    DEF Statement, SelectExisting, Insert, InsertConflict, Commit, Refresh, SelectWinner,
        Load, Update, Reload, Read, ReturnBooking, ReturnNothing
  <2>7. ASSUME NEW c \in Clients, PoolTimeout(c) \/ Failure(c)
        PROVE  PoolInv'
    BY <2>2, <2>7 DEF PoolTimeout, Failure, Fault, FaultAfterCommit, ReturnNothing
  <2> QED BY <2>1, <2>5, <2>6, <2>7 DEF Next
<1>3. PoolInv => LockHoldersConnected
  BY DEF PoolInv
<1> QED BY <1>1, <1>2, <1>3, StoreInvariant, PTL DEF Spec

-----------------------------------------------------------------------------
(* The frozen snapshot.                                                      *)

(* No step changes the snapshot of a row that a session has read.            *)
LEMMA SnapshotStep ==
    ASSUME StoreInv, StoredSnapshotRead, [Next]_vars
    PROVE  StoredSnapshotRead'
<1> USE DEF StoredSnapshotRead
<1>1. \A id \in BookingIds : rows[id] # NoRow =>
          rows'[id] # NoRow /\ rows'[id].snap = rows[id].snap
  <2>1. Ledger!LedgerTypeOK
    BY DEF StoreInv, TypeOK, Ledger!LedgerTypeOK, Ledger!Table, Ledger!Row,
           Ledger!Statuses
  <2>2. [Ledger!LedgerNext]_Ledger!ledgerVars
    BY StepImplementsLedger
  <2>3. CASE rows' = rows
    BY <2>3
  <2>4. ASSUME NEW id \in BookingIds, NEW k \in Keys \cup {NoKey}, NEW s \in Snapshots,
               Ledger!Book(id, k, s)
        PROVE  \A i \in BookingIds : rows[i] # NoRow => rows'[i] = rows[i]
    BY <2>1, <2>4 DEF Ledger!Book, Ledger!LedgerTypeOK, Ledger!Table
  <2>5. ASSUME NEW id \in BookingIds, Ledger!Cancel(id)
        PROVE  \A i \in BookingIds : rows[i] # NoRow =>
                   rows'[i] # NoRow /\ rows'[i].snap = rows[i].snap
    BY <2>1, <2>5, BookingConstants
    DEF Ledger!Cancel, Ledger!WithCancelled, Ledger!LedgerTypeOK, Ledger!Table, Ledger!Row,
        Ledger!Statuses
  <2> QED BY <2>2, <2>3, <2>4, <2>5
      DEF Ledger!LedgerNext, Ledger!ledgerVars, Ledger!Tell, Ledger!Acknowledge
<1>2. ASSUME NEW c \in Clients, NEW a \in Answer \cup {NoAnswer},
             answer' = [answer EXCEPT ![c] = a],
             a \in BookingAnswer /\ a.op = "get" =>
                rows[a.id] # NoRow /\ a.snap = rows[a.id].snap
      PROVE  StoredSnapshotRead'
  BY <1>1, <1>2 DEF StoreInv, TypeOK, BookingAnswer
<1>3. ASSUME answer' = answer
      PROVE  StoredSnapshotRead'
  BY <1>1, <1>3 DEF BookingAnswer
<1>4. ASSUME NEW c \in Clients, Request(c)
      PROVE  StoredSnapshotRead'
  BY <1>2, <1>4, StoreConstants
  DEF Request, BeginCreate, BeginCancel, BeginGet, Begin, Answer
<1>5. ASSUME NEW c \in Clients, Read(c)
      PROVE  StoredSnapshotRead'
  <2>1. bid[c] \in BookingIds
    BY <1>5 DEF Read, StoreInv, SessionKnows, Stages
  <2>2. rows[bid[c]] # NoRow =>
          [op |-> "get", id |-> bid[c], status |-> rows[bid[c]].status,
           snap |-> rows[bid[c]].snap] \in BookingAnswer
    BY <2>1 DEF BookingAnswer, StoreInv, TypeOK
  <2>3. NotFound \in Answer \ BookingAnswer
    BY DEF Answer, OtherAnswer, NotFound, BookingAnswer
  <2> QED BY <1>2, <1>5, <2>2, <2>3 DEF Read, ReturnNothing, Return, Answer
<1>6. ASSUME NEW c \in Clients, NEW id \in RowsOf(call[c].key), pc[c] \in Creating,
             ReturnBooking(c, id)
      PROVE  StoredSnapshotRead'
  <2>1. call[c] \in CreateCall /\ id \in BookingIds /\ rows[id] \in Row
    BY <1>6 DEF StoreInv, TypeOK, SessionKnows, RowsOf, IdsOf
  <2>2. [op |-> "create", id |-> id, status |-> rows[id].status, snap |-> call[c].snap]
          \in BookingAnswer
    BY <2>1 DEF BookingAnswer, CreateCall
  <2> QED BY <1>2, <1>6, <2>2 DEF ReturnBooking, Return, Answer
<1>7. ASSUME NEW c \in Clients, NEW a, a \in Answer \ BookingAnswer, Return(c, a)
      PROVE  StoredSnapshotRead'
  BY <1>2, <1>7 DEF Return
<1>8. Exception \in Answer \ BookingAnswer /\ NotFound \in Answer \ BookingAnswer
  BY DEF Answer, OtherAnswer, Exception, NotFound, BookingAnswer
<1>9. ASSUME NEW c \in Clients, SelectExisting(c) \/ Refresh(c) \/ SelectWinner(c)
      PROVE  StoredSnapshotRead'
  BY <1>3, <1>6, <1>7, <1>8, <1>9
  DEF SelectExisting, Refresh, SelectWinner, Confirmed, ReturnNothing, Goto, Creating,
      StoreInv, SessionKnows
<1>10. ASSUME NEW c \in Clients, Reload(c)
       PROVE  StoredSnapshotRead'
  <2>1. bid[c] \in BookingIds /\ rows[bid[c]] \in Row
    BY <1>10 DEF Reload, StoreInv, TypeOK, SessionKnows, Stages
  <2>2. [op |-> "cancel", id |-> bid[c], status |-> rows[bid[c]].status]
          \in Answer \ BookingAnswer
    BY <2>1 DEF Answer, CancelAnswer, BookingAnswer
  <2> QED BY <1>7, <1>10, <2>2 DEF Reload
<1>11. ASSUME NEW c \in Clients,
              \/ Insert(c) \/ InsertConflict(c) \/ Commit(c) \/ Load(c) \/ Update(c)
              \/ PoolTimeout(c) \/ Failure(c)
       PROVE  StoredSnapshotRead'
  BY <1>3, <1>7, <1>8, <1>11
  DEF Insert, InsertConflict, Commit, Load, Update, Goto, ReturnNothing, PoolTimeout,
      Failure, Fault, FaultAfterCommit
<1>12. CASE UNCHANGED vars
  BY <1>3, <1>12 DEF vars
<1> QED BY <1>4, <1>5, <1>9, <1>10, <1>11, <1>12 DEF Next, Statement

(* get_booking's snapshot is the one frozen in the row (models.py 13-18).    *)
THEOREM StoreStoredSnapshot == Spec => []StoredSnapshotRead
<1>1. Init => StoredSnapshotRead
  BY StoreConstants DEF Init, StoredSnapshotRead, Answer
<1>2. StoreInv /\ StoredSnapshotRead /\ [Next]_vars => StoredSnapshotRead'
  BY SnapshotStep
<1> QED BY <1>1, <1>2, StoreInvariant, PTL DEF Spec

=============================================================================
