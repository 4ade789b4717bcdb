------------------------------ MODULE Bookings -------------------------------
(***************************************************************************)
(* The bookings table of app/booking/models.py, as far as the booking      *)
(* properties tell its columns apart.  flight_id and passenger_name matter *)
(* only through the idempotency key that app/api/tools.py derives from     *)
(* them; the timestamps are left out.                                      *)
(***************************************************************************)
CONSTANTS
    Keys,        \* idempotency keys: one per (flight_id, normalised name)
    NoKey,       \* idempotency_key = None, NULL in the table
    BookingIds,  \* primary keys (uuid4)
    NoRow,       \* the id is not in the table
    Snapshots    \* flight payloads as they can be snapshotted

Statuses == {"CONFIRMED", "CANCELLED"}

Row == [key: Keys \cup {NoKey}, status: Statuses, snap: Snapshots]

\* models.py, default="CONFIRMED".  (Mutant: a default outside the statuses.)
NewRowPending(k, s) == [key |-> k, status |-> "PENDING", snap |-> s]
NewRow(k, s) == [key |-> k, status |-> "CONFIRMED", snap |-> s]

Table == [BookingIds -> Row \cup {NoRow}]

EmptyTable == [id \in BookingIds |-> NoRow]

\* The ids of table t whose row has key k.
IdsOf(t, k) == {id \in BookingIds : t[id] # NoRow /\ t[id].key = k}

\* UPDATE ... SET status = 'CANCELLED' WHERE booking_id = id.
WithCancelled(t, id) == [t EXCEPT ![id] = [@ EXCEPT !.status = "CANCELLED"]]

ASSUME BookingConstants ==
    /\ NoKey \notin Keys
    /\ NoRow \notin Row

=============================================================================
