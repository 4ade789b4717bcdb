------------------------------- MODULE Ingest --------------------------------
(***************************************************************************)
(* app/ingest/ingest_archive.py: runs of ingest_csv over one file and one  *)
(* Qdrant collection.  A step is one call to Qdrant with the work that     *)
(* leads to it; a run can die between two calls and is then started again  *)
(* from the first row, possibly while another run is busy.                 *)
(*                                                                         *)
(* The file is the sequence of the ids (_stable_flight_id) of its valid    *)
(* rows: equal ids are rows of one scheduled flight.  Rows that fail the   *)
(* validation never come this far; vectors and payloads are left out.  The *)
(* lists of rows and of points are sets of row numbers: they are in the    *)
(* order of the file.                                                      *)
(***************************************************************************)
EXTENDS Naturals, Sequences, FiniteSets, Functions

CONSTANTS
    Runs,        \* processes that run the script
    FlightIds,
    Files,       \* the files that are considered: sequences of flight ids
    Fields,      \* the payload fields that get an index
    EmbedBatch,  \* INGEST_EMBED_BATCH_SIZE
    UpsertBatch  \* INGEST_UPSERT_BATCH_SIZE

ASSUME IngestConstants ==
    /\ Files \subseteq Seq(FlightIds)
    /\ EmbedBatch \in Nat \ {0}
    /\ UpsertBatch \in Nat \ {0}

VARIABLES
    file,        \* the ids of the valid rows, in order
    collection,  \* the collection exists
    indexes,     \* the fields of the collection that have an index
    points,      \* the ids in the collection
    pc,          \* Runs -> its next call to Qdrant
    missing,     \* Runs -> the fields it has not tried to index yet
    pos,         \* Runs -> rows whose batch has been looked up
    todo,        \* Runs -> embedded rows of the batch, not yet in pending
    pending,     \* Runs -> the rows of the points to be upserted
    upserted,    \* Runs -> total_upserted
    skipped      \* Runs -> total_skipped_existing

runVars == <<pc, missing, pos, todo, pending, upserted, skipped>>
vars == <<file, collection, indexes, points, runVars>>

-----------------------------------------------------------------------------

Rows == 1..Len(file)

\* The points of these rows.
Ids(some) == {file[i] : i \in some}

Places == {"ensure", "create", "index", "batch", "append", "upsert", "flush", "done", "dead",
           "refused"}

TypeOK ==
    /\ file \in Seq(FlightIds)
    /\ collection \in BOOLEAN
    /\ indexes \in SUBSET Fields
    /\ points \in SUBSET FlightIds
    /\ pc \in [Runs -> Places]
    /\ missing \in [Runs -> SUBSET Fields]
    /\ pos \in [Runs -> Nat]
    /\ todo \in [Runs -> SUBSET Rows]
    /\ pending \in [Runs -> SUBSET Rows]
    /\ upserted \in [Runs -> Nat]
    /\ skipped \in [Runs -> Nat]

Init ==
    /\ file \in Files
    /\ collection = FALSE
    /\ indexes = {}
    /\ points = {}
    /\ pc = [r \in Runs |-> "ensure"]
    /\ missing = [r \in Runs |-> {}]
    /\ pos = [r \in Runs |-> 0]
    /\ todo = [r \in Runs |-> {}]
    /\ pending = [r \in Runs |-> {}]
    /\ upserted = [r \in Runs |-> 0]
    /\ skipped = [r \in Runs |-> 0]

Goto(r, place) == pc' = [pc EXCEPT ![r] = place]

-----------------------------------------------------------------------------
(* ensure_collection                                                         *)

\* (Mutant: the collection is created without looking for it.)
EnsureBlindly(r) ==
    /\ pc[r] = "ensure"
    /\ Goto(r, IF file = <<>> THEN "done" ELSE "create")
    /\ UNCHANGED <<file, collection, indexes, points, missing, pos, todo, pending,
                   upserted, skipped>>

\* Lines 86-88; a file without valid rows never gets here (lines 175-176).
Ensure(r) ==
    /\ pc[r] = "ensure"
    /\ Goto(r, IF file = <<>> THEN "done" ELSE IF collection THEN "batch" ELSE "create")
    /\ UNCHANGED <<file, collection, indexes, points, missing, pos, todo, pending,
                   upserted, skipped>>

\* Lines 90-93: Qdrant refuses a collection that exists by now, and the run
\* ends with that exception (kept apart from "dead": it is the code's doing,
\* not a fault).
Create(r) ==
    /\ pc[r] = "create"
    /\ IF collection
       THEN Goto(r, "refused") /\ UNCHANGED <<collection, missing>>
       ELSE /\ collection' = TRUE
            /\ missing' = [missing EXCEPT ![r] = Fields]
            /\ Goto(r, "index")
    /\ UNCHANGED <<file, indexes, points, pos, todo, pending, upserted, skipped>>

\* Lines 95-112: one index, or an exception that is swallowed.
Index(r) ==
    /\ pc[r] = "index"
    /\ IF missing[r] = {}
       THEN Goto(r, "batch") /\ UNCHANGED <<missing, indexes>>
       ELSE /\ \E f \in missing[r] :
                /\ missing' = [missing EXCEPT ![r] = @ \ {f}]
                /\ indexes' \in {indexes, indexes \cup {f}}
            /\ UNCHANGED pc
    /\ UNCHANGED <<file, collection, points, pos, todo, pending, upserted, skipped>>

-----------------------------------------------------------------------------
(* ingest_csv                                                                *)

Smaller(a, b) == IF a < b THEN a ELSE b

BatchEnd(r) == Smaller(pos[r] + EmbedBatch, Len(file))

\* (Mutants: the difference is taken the wrong way round; a batch without new
\* rows is left before it is counted.)
BatchNegative(r) ==
    /\ pc[r] = "batch"
    /\ pos[r] < Len(file)
    /\ LET batch == pos[r]+1..BatchEnd(r)
           new   == {i \in batch : file[i] \notin points}
       IN /\ todo' = [todo EXCEPT ![r] = new]
          /\ skipped' = [skipped EXCEPT ![r] = @ + Cardinality(new) - Cardinality(batch)]
          /\ Goto(r, IF new = {} THEN "batch" ELSE "append")
    /\ pos' = [pos EXCEPT ![r] = BatchEnd(r)]
    /\ UNCHANGED <<file, collection, indexes, points, missing, pending, upserted>>
BatchUncounted(r) ==
    /\ pc[r] = "batch"
    /\ pos[r] < Len(file)
    /\ LET batch == pos[r]+1..BatchEnd(r)
           new   == {i \in batch : file[i] \notin points}
       IN /\ todo' = [todo EXCEPT ![r] = new]
          /\ skipped' = IF new = {} THEN skipped
                        ELSE [skipped EXCEPT ![r] = @ + (Cardinality(batch) - Cardinality(new))]
          /\ Goto(r, IF new = {} THEN "batch" ELSE "append")
    /\ pos' = [pos EXCEPT ![r] = BatchEnd(r)]
    /\ UNCHANGED <<file, collection, indexes, points, missing, pending, upserted>>

\* Lines 190-210: the next batch is looked up and its new rows are embedded.
Batch(r) ==
    /\ pc[r] = "batch"
    /\ pos[r] < Len(file)
    /\ LET batch == pos[r]+1..BatchEnd(r)
           new   == {i \in batch : file[i] \notin points}
       IN /\ todo' = [todo EXCEPT ![r] = new]
          /\ skipped' = [skipped EXCEPT ![r] = @ + (Cardinality(batch) - Cardinality(new))]
          /\ Goto(r, IF new = {} THEN "batch" ELSE "append")
    /\ pos' = [pos EXCEPT ![r] = BatchEnd(r)]
    /\ UNCHANGED <<file, collection, indexes, points, missing, pending, upserted>>

\* Lines 212-231: a row becomes a point; a full list of points is upserted.
AppendPoint(r) ==
    /\ pc[r] = "append"
    /\ IF todo[r] = {}
       THEN Goto(r, "batch") /\ UNCHANGED <<todo, pending>>
       ELSE /\ \E i \in todo[r] :
                /\ \A j \in todo[r] : i <= j
                /\ pending' = [pending EXCEPT ![r] = @ \cup {i}]
                /\ todo' = [todo EXCEPT ![r] = @ \ {i}]
            /\ Goto(r, IF Cardinality(pending[r]) + 1 >= UpsertBatch THEN "upsert" ELSE "append")
    /\ UNCHANGED <<file, collection, indexes, points, missing, pos, upserted, skipped>>

\* (Mutant: after an upsert the rest of the batch is left out.)
UpsertThenNextBatch(r) ==
    /\ pc[r] \in {"upsert", "flush"}
    /\ points' = points \cup Ids(pending[r])
    /\ upserted' = [upserted EXCEPT ![r] = @ + Cardinality(pending[r])]
    /\ pending' = [pending EXCEPT ![r] = {}]
    /\ todo' = [todo EXCEPT ![r] = {}]
    /\ Goto(r, IF pc[r] = "flush" THEN "done" ELSE "batch")
    /\ UNCHANGED <<file, collection, indexes, missing, pos, skipped>>

\* Lines 232-234 and 243-244.
Upsert(r) ==
    /\ pc[r] \in {"upsert", "flush"}
    /\ points' = points \cup Ids(pending[r])
    /\ upserted' = [upserted EXCEPT ![r] = @ + Cardinality(pending[r])]
    /\ pending' = [pending EXCEPT ![r] = {}]
    /\ Goto(r, IF pc[r] = "flush" THEN "done" ELSE "append")
    /\ UNCHANGED <<file, collection, indexes, missing, pos, todo, skipped>>

\* (Mutant: the last, partial list of points is forgotten.)
FinishUnflushed(r) ==
    /\ pc[r] = "batch"
    /\ pos[r] >= Len(file)
    /\ Goto(r, "done")
    /\ UNCHANGED <<file, collection, indexes, points, missing, pos, todo, pending,
                   upserted, skipped>>

\* Lines 242-250: the end of the file.
Finish(r) ==
    /\ pc[r] = "batch"
    /\ pos[r] >= Len(file)
    /\ Goto(r, IF pending[r] = {} THEN "done" ELSE "flush")
    /\ UNCHANGED <<file, collection, indexes, points, missing, pos, todo, pending,
                   upserted, skipped>>

-----------------------------------------------------------------------------

\* The process dies, or a call to Qdrant or to the embedding server raises.
Die(r) ==
    /\ pc[r] \notin {"done", "dead", "refused"}
    /\ Goto(r, "dead")
    /\ UNCHANGED <<file, collection, indexes, points, missing, pos, todo, pending,
                   upserted, skipped>>

\* The upsert is carried out but the run dies before it learns of it.
DieAfterUpsert(r) ==
    /\ pc[r] \in {"upsert", "flush"}
    /\ points' = points \cup Ids(pending[r])
    /\ Goto(r, "dead")
    /\ UNCHANGED <<file, collection, indexes, missing, pos, todo, pending, upserted, skipped>>

\* The script is started again: a new process with empty variables.
Restart(r) ==
    /\ pc[r] \in {"dead", "refused"}
    /\ Goto(r, "ensure")
    /\ missing' = [missing EXCEPT ![r] = {}]
    /\ pos' = [pos EXCEPT ![r] = 0]
    /\ todo' = [todo EXCEPT ![r] = {}]
    /\ pending' = [pending EXCEPT ![r] = {}]
    /\ upserted' = [upserted EXCEPT ![r] = 0]
    /\ skipped' = [skipped EXCEPT ![r] = 0]
    /\ UNCHANGED <<file, collection, indexes, points>>

-----------------------------------------------------------------------------

Step(r) ==
    \/ Ensure(r) \/ Create(r) \/ Index(r)
    \/ Batch(r) \/ AppendPoint(r) \/ Upsert(r) \/ Finish(r)

Next ==
    \E r \in Runs : Step(r) \/ Die(r) \/ DieAfterUpsert(r) \/ Restart(r)

Spec == Init /\ [][Next]_vars

\* A run goes on, a run that died is started again, and runs do not die for
\* ever.
LiveSpec ==
    /\ Spec
    /\ \A r \in Runs : WF_vars(Step(r)) /\ WF_vars(Restart(r))
    /\ <>[][~ \E r \in Runs : Die(r) \/ DieAfterUpsert(r)]_vars

-----------------------------------------------------------------------------
(* Properties.                                                               *)

(* No row is lost between the batches: a row that has been looked up is in   *)
(* the collection, or this run still carries it to an upsert.                *)
NoRowLost ==
    \A r \in Runs : pc[r] # "dead" =>
        Ids(1..pos[r]) \subseteq points \cup Ids(todo[r]) \cup Ids(pending[r])

(* A run that reports success has left every row of the file in the          *)
(* collection, whatever died before it and whoever ran beside it.            *)
DoneIsComplete == \A r \in Runs : pc[r] = "done" => Range(file) \subseteq points

(* Every valid row is counted once: as upserted or as existing.              *)
EveryRowCounted ==
    \A r \in Runs : pc[r] # "dead" =>
        /\ pos[r] = upserted[r] + skipped[r] + Cardinality(todo[r]) + Cardinality(pending[r])
        /\ pc[r] = "done" => upserted[r] + skipped[r] = Len(file)

(* ensure_collection's docstring, line 80: it creates "the Qdrant collection *)
(* and payload indexes if they don't exist".  So when it creates nothing,    *)
(* all of them exist.  They need not: it looks for the collection only, and  *)
(* an earlier run may have died after line 93, or an index may have failed.  *)
IndexesEnsured ==
    [][\A r \in Runs : pc[r] = "ensure" /\ pc'[r] = "batch" => indexes = Fields]_vars

(* Started again after every crash and every refusal, each run ends with     *)
(* success, also the one that Qdrant has refused the collection that another *)
(* run has just created; what is in the collection then says DoneIsComplete. *)
EveryRunSucceeds == \A r \in Runs : <>[](pc[r] = "done")

=============================================================================
