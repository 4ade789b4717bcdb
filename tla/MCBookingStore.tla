--------------------------- MODULE MCBookingStore ----------------------------
(* Small instances of BookingStore.  Clients, ids and snapshots are          *)
(* interchangeable: no definition tells two of them apart.                   *)
EXTENDS BookingStore, TLC

Symmetry ==
    Permutations(Clients) \cup Permutations(BookingIds) \cup Permutations(Snapshots)

=============================================================================
