---------------------------- MODULE BookingLedger ----------------------------
(***************************************************************************)
(* What the booking subsystem promises, without sessions, transactions or  *)
(* SQL: a ledger of bookings in which                                      *)
(*                                                                         *)
(*   - an idempotency key is used by at most one booking, for ever         *)
(*     (app/booking/models.py, docstring, "Idempotency"),                  *)
(*   - a booking keeps its key and its flight snapshot, and its status     *)
(*     only moves from CONFIRMED to CANCELLED,                             *)
(*   - a caller is told the id of a booking, or that a booking is          *)
(*     cancelled, only when the ledger says so.                            *)
(*                                                                         *)
(* BookingStore implements it with the statements of app/booking/store.py. *)
(***************************************************************************)
EXTENDS Bookings, TLAPS

VARIABLES
    rows,        \* BookingIds -> the committed row, or NoRow
    issued,      \* Keys -> the booking ids that create calls returned for it
    cancelAcked  \* the ids whose cancellation some caller has been told of

ledgerVars == <<rows, issued, cancelAcked>>

RowsOf(k) == IdsOf(rows, k)

LedgerTypeOK ==
    /\ rows \in Table
    /\ issued \in [Keys -> SUBSET BookingIds]
    /\ cancelAcked \in SUBSET BookingIds

LedgerInit ==
    /\ rows = EmptyTable
    /\ issued = [k \in Keys |-> {}]
    /\ cancelAcked = {}

-----------------------------------------------------------------------------

\* A booking comes into being: at most one per key, any number without key.
Book(id, k, s) ==
    /\ rows[id] = NoRow
    /\ k # NoKey => RowsOf(k) = {}
    /\ rows' = [rows EXCEPT ![id] = NewRow(k, s)]
    /\ UNCHANGED <<issued, cancelAcked>>

\* A create call returns booking id for key k.
Tell(k, id) ==
    /\ id \in RowsOf(k)
    /\ issued' = [issued EXCEPT ![k] = @ \cup {id}]
    /\ UNCHANGED <<rows, cancelAcked>>

\* A booking is cancelled; cancelling it again changes nothing.
Cancel(id) ==
    /\ rows[id] # NoRow
    /\ rows' = WithCancelled(rows, id)
    /\ UNCHANGED <<issued, cancelAcked>>

\* A cancel call reports success.
Acknowledge(id) ==
    /\ rows[id] # NoRow
    /\ rows[id].status = "CANCELLED"
    /\ cancelAcked' = cancelAcked \cup {id}
    /\ UNCHANGED <<rows, issued>>

LedgerNext ==
    \/ \E id \in BookingIds, k \in Keys \cup {NoKey}, s \in Snapshots : Book(id, k, s)
    \/ \E k \in Keys, id \in BookingIds : Tell(k, id)
    \/ \E id \in BookingIds : Cancel(id) \/ Acknowledge(id)

LedgerSpec == LedgerInit /\ [][LedgerNext]_ledgerVars

-----------------------------------------------------------------------------

(* No key is ever the key of two bookings: the promise of models.py, lines  *)
(* 6-9, "a read-then-return of the existing booking rather than a           *)
(* double-charge".                                                          *)
NoDoubleBooking ==
    \A k \in Keys : \A i, j \in RowsOf(k) : i = j

(* Every create call for one key, whenever it was made, was answered with   *)
(* one and the same booking, and that booking is in the table under the key *)
SameKeySameBooking ==
    \A k \in Keys :
        /\ issued[k] \subseteq RowsOf(k)
        /\ \A i, j \in issued[k] : i = j

(* A caller that was told "cancelled" was told the truth, for ever.          *)
CancelAckTruth ==
    \A id \in cancelAcked : rows[id] # NoRow /\ rows[id].status = "CANCELLED"

LedgerInv ==
    LedgerTypeOK /\ NoDoubleBooking /\ SameKeySameBooking /\ CancelAckTruth

(* No step of the ledger deletes a booking, changes its key or its           *)
(* snapshot, or takes it back from CANCELLED to CONFIRMED (models.py lines   *)
(* 13-18: the snapshot is frozen at booking time).                           *)
BookingFrozen ==
    [][\A id \in BookingIds : rows[id] # NoRow =>
          /\ rows'[id] # NoRow
          /\ rows'[id].key = rows[id].key
          /\ rows'[id].snap = rows[id].snap
          /\ rows[id].status = "CANCELLED" => rows'[id].status = "CANCELLED"]_ledgerVars

-----------------------------------------------------------------------------

USE DEF Row, Statuses, Table

(* Type correctness and the three promises are inductive together: Tell and  *)
(* Acknowledge rely on the rows, Book on NoDoubleBooking.                    *)
THEOREM LedgerCorrect == LedgerSpec => []LedgerInv
<1>1. LedgerInit => LedgerInv
  BY BookingConstants
  DEF LedgerInit, LedgerInv, LedgerTypeOK, NoDoubleBooking, SameKeySameBooking,
      CancelAckTruth, RowsOf, IdsOf, EmptyTable
<1>2. LedgerInv /\ [LedgerNext]_ledgerVars => LedgerInv'
  <2> SUFFICES ASSUME LedgerInv, [LedgerNext]_ledgerVars
               PROVE  LedgerInv'
    OBVIOUS
  <2> USE BookingConstants
          DEF LedgerInv, LedgerTypeOK, NoDoubleBooking, SameKeySameBooking,
              CancelAckTruth, RowsOf, IdsOf
  <2>1. ASSUME NEW id \in BookingIds, NEW k \in Keys \cup {NoKey},
               NEW s \in Snapshots, Book(id, k, s)
        PROVE  LedgerInv'
    BY <2>1 DEF Book, NewRow
  <2>2. ASSUME NEW k \in Keys, NEW id \in BookingIds, Tell(k, id)
        PROVE  LedgerInv'
    BY <2>2 DEF Tell
  <2>3. ASSUME NEW id \in BookingIds, Cancel(id)
        PROVE  LedgerInv'
    BY <2>3 DEF Cancel, WithCancelled
  <2>4. ASSUME NEW id \in BookingIds, Acknowledge(id)
        PROVE  LedgerInv'
    BY <2>4 DEF Acknowledge
  <2>5. CASE UNCHANGED ledgerVars
    BY <2>5 DEF ledgerVars
  <2> QED BY <2>1, <2>2, <2>3, <2>4, <2>5 DEF LedgerNext
<1> QED BY <1>1, <1>2, PTL DEF LedgerSpec

(* Bookings are frozen: from the type invariant alone.                       *)
THEOREM LedgerFrozen == LedgerSpec => BookingFrozen
<1>1. LedgerTypeOK /\ [LedgerNext]_ledgerVars =>
        [\A id \in BookingIds : rows[id] # NoRow =>
            /\ rows'[id] # NoRow
            /\ rows'[id].key = rows[id].key
            /\ rows'[id].snap = rows[id].snap
            /\ rows[id].status = "CANCELLED" => rows'[id].status = "CANCELLED"]_ledgerVars
  BY BookingConstants
  DEF LedgerTypeOK, LedgerNext, ledgerVars, Book, NewRow, Tell, Cancel,
      WithCancelled, Acknowledge
<1>2. LedgerInv => LedgerTypeOK
  BY DEF LedgerInv
<1> QED BY <1>1, <1>2, LedgerCorrect, PTL DEF LedgerSpec, BookingFrozen

=============================================================================
