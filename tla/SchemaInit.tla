----------------------------- MODULE SchemaInit ------------------------------
(***************************************************************************)
(* The start of the API processes: init_db (app/booking/init_db.py) looks  *)
(* at the database, and either stamps an old schema with the revision at   *)
(* head or runs the migrations of alembic/versions.  Several processes     *)
(* start beside each other, and each may die at any moment and be started  *)
(* again (docker-compose.yml, restart: unless-stopped).                    *)
(*                                                                         *)
(* Alembic reads the revision and then works in one transaction; on        *)
(* PostgreSQL the DDL is part of it.  All transactions begin with the same *)
(* object, so that the second one waits there until the first has ended:   *)
(* a transaction is one step.                                              *)
(***************************************************************************)
EXTENDS Integers

CONSTANTS
    Workers,     \* API processes
    Origins,     \* the databases to start from: see Database
    MaxFaults    \* bound: deaths of processes, and connections that break

VARIABLES
    origin,   \* the database as it was found
    db,       \* the database: what is in it, and the content of alembic_version
    pc,       \* Workers -> where init_db is
    seen,     \* Workers -> the revision alembic has read
    faults    \* how many faults have happened

vars == <<origin, db, pc, seen, faults>>

-----------------------------------------------------------------------------

Table == "bookings"
Column == "idempotency_key"
Index == "ix_bookings_idempotency_key"
Objects == {Table, Column, Index}

\* The revisions; 0 is a database without alembic_version.
Unversioned == 0
HeadRevision == 2

\* What the migrations 001 and 002 create.
Creates(revision) == IF revision = 1 THEN {Table} ELSE {Column, Index}

Database == [objects: SUBSET Objects, version: Unversioned..HeadRevision]

\* A create_all of a model that had no idempotency_key yet.
OldUnkeyed == [objects |-> {Table}, version |-> Unversioned]

\* A database that an operator has not touched: empty, made by create_all, or
\* at one of the revisions.
Untouched ==
    {[objects |-> {}, version |-> Unversioned],
     OldUnkeyed,
     [objects |-> Objects, version |-> Unversioned],
     [objects |-> {Table}, version |-> 1],
     [objects |-> Objects, version |-> HeadRevision]}

ASSUME SchemaConstants ==
    /\ Origins \subseteq Untouched
    /\ MaxFaults \in Nat

Places == {"down", "inspected", "stamp", "upgrade", "ready"}

TypeOK ==
    /\ origin \in Origins
    /\ db \in Database
    /\ pc \in [Workers -> Places]
    /\ seen \in [Workers -> Unversioned..HeadRevision]
    /\ faults \in 0..MaxFaults

Init ==
    /\ origin \in Origins
    /\ db = origin
    /\ pc = [w \in Workers |-> "down"]
    /\ seen = [w \in Workers |-> Unversioned]
    /\ faults = 0

Goto(w, place) == pc' = [pc EXCEPT ![w] = place]

-----------------------------------------------------------------------------

\* (Mutant: an old schema is not told from an empty database.)
IsOldNever == FALSE

\* Lines 29-30: there is a table, and nothing that tells its revision.
IsOld == Table \in db.objects /\ db.version = Unversioned

\* The process starts and looks at the tables.
Inspect(w) ==
    /\ pc[w] = "down"
    /\ Goto(w, IF IsOld THEN "stamp" ELSE "inspected")
    /\ UNCHANGED <<origin, db, seen, faults>>

\* Line 36: alembic's upgrade reads the revision.
ReadRevision(w) ==
    /\ pc[w] = "inspected"
    /\ seen' = [seen EXCEPT ![w] = db.version]
    /\ Goto(w, "upgrade")
    /\ UNCHANGED <<origin, db, faults>>

\* What the migrations from the revision that was read create.
Plan(w) == UNION {Creates(r) : r \in seen[w] + 1..HeadRevision}

\* (Mutant: the revision is counted up by the number of migrations.)
UpgradeCounted(w) ==
    /\ pc[w] = "upgrade"
    /\ Plan(w) \cap db.objects = {}
    /\ db' = [objects |-> db.objects \cup Plan(w), version |-> seen[w] + 2]
    /\ Goto(w, "ready")
    /\ UNCHANGED <<origin, seen, faults>>

\* The transaction of the migrations; nothing to do at head.
Upgrade(w) ==
    /\ pc[w] = "upgrade"
    /\ Plan(w) \cap db.objects = {}
    /\ db' = [objects |-> db.objects \cup Plan(w), version |-> HeadRevision]
    /\ Goto(w, "ready")
    /\ UNCHANGED <<origin, seen, faults>>

\* Somebody else was faster: an object exists already, the transaction is
\* rolled back, init_db raises, and the process ends.
UpgradeRefused(w) ==
    /\ pc[w] = "upgrade"
    /\ Plan(w) \cap db.objects # {}
    /\ Goto(w, "down")
    /\ UNCHANGED <<origin, db, seen, faults>>

\* Line 32: the revision at head is written; the second of two stamps that
\* read no revision fails on alembic_version, one that reads it does nothing.
Stamp(w) ==
    /\ pc[w] = "stamp"
    /\ db' = [db EXCEPT !.version = HeadRevision]
    /\ \/ Goto(w, "ready")
       \/ db.version = HeadRevision /\ Goto(w, "down")
    /\ UNCHANGED <<origin, seen, faults>>

\* (Mutant: every statement is a transaction.)
DieUncommitted(w) ==
    /\ faults < MaxFaults
    /\ faults' = faults + 1
    /\ db' \in IF pc[w] = "upgrade" /\ Plan(w) \cap db.objects = {}
               THEN {[db EXCEPT !.objects = @ \cup done] : done \in SUBSET Plan(w)}
               ELSE {db}
    /\ Goto(w, "down")
    /\ UNCHANGED <<origin, seen>>

\* The process dies, or its connection breaks and init_db raises; a
\* transaction that is open is rolled back.
Die(w) ==
    /\ pc[w] # "down"
    /\ faults < MaxFaults
    /\ faults' = faults + 1
    /\ Goto(w, "down")
    /\ UNCHANGED <<origin, db, seen>>

Step(w) ==
    \/ Inspect(w) \/ ReadRevision(w) \/ Upgrade(w) \/ UpgradeRefused(w) \/ Stamp(w)

Next == \E w \in Workers : Step(w) \/ Die(w)

\* A process that has ended is started again, and one that was started goes on.
Spec == Init /\ [][Next]_vars /\ \A w \in Workers : WF_vars(Step(w))

-----------------------------------------------------------------------------
(* Properties.                                                               *)

(* The revision that is written down says what is there, whoever has died in *)
(* the middle of a migration or lost a race for it: an unversioned database  *)
(* is the one that was found, and one at a revision has what the migrations  *)
(* up to it create.  The exception is a schema that create_all made before   *)
(* the column was added: it is stamped head, and stays without the key.  No  *)
(* process takes requests below head.                                        *)
VersionTellsSchema ==
    /\ db.version = Unversioned => db = origin
    /\ db.version # Unversioned =>
         db.objects = IF origin = OldUnkeyed THEN {Table}
                      ELSE UNION {Creates(r) : r \in 1..db.version}
    /\ \A w \in Workers : pc[w] = "ready" => db.version = HeadRevision

(* Every process serves in the end, although those that race for a migration *)
(* make each other fail, and whichever of them die on the way.               *)
EveryWorkerServes == \A w \in Workers : <>[](pc[w] = "ready")

=============================================================================
