----------------------------- MODULE IngestProofs -----------------------------
(***************************************************************************)
(* The ingest, for any number of runs, any file and any sizes of the       *)
(* batches, and wherever runs die: no row is lost or counted twice, and a  *)
(* run that ends with success leaves the whole file in the collection.     *)
(*                                                                         *)
(* Each property needs the others: that nothing is lost when the list of   *)
(* rows is replaced by the next batch depends on the place of the run, the *)
(* count on the lists being disjoint parts of what was looked up, and that *)
(* "done" is complete on both lists being empty at the end of the file.    *)
(***************************************************************************)
EXTENDS Ingest, FiniteSetTheorems, TLAPS

USE IngestConstants

-----------------------------------------------------------------------------
(* The invariant.                                                            *)

\* What a run has in its variables, and where.
Variables(r) ==
    /\ pc[r] \in Places
    /\ missing[r] \in SUBSET Fields
    /\ pos[r] \in 0..Len(file)
    /\ todo[r] \subseteq 1..pos[r]
    /\ pending[r] \subseteq 1..pos[r]
    /\ todo[r] \cap pending[r] = {}
    /\ upserted[r] \in Nat
    /\ skipped[r] \in Nat
    /\ pc[r] \notin {"append", "upsert", "dead"} => todo[r] = {}
    /\ pc[r] = "done" => pending[r] = {}
    /\ pc[r] \in {"flush", "done"} => pos[r] = Len(file)

\* A row that was looked up is stored, or the run still has it.
Carried(r) == Ids(1..pos[r]) \subseteq points \cup Ids(todo[r]) \cup Ids(pending[r])

\* ... and it has been counted, or the run still has it.
Counted(r) == pos[r] = upserted[r] + skipped[r] + Cardinality(todo[r]) + Cardinality(pending[r])

RunInv(r) == Variables(r) /\ Carried(r) /\ Counted(r)

SharedInv ==
    /\ file \in Seq(FlightIds)
    /\ collection \in BOOLEAN
    /\ indexes \in SUBSET Fields
    /\ points \in SUBSET FlightIds

RunFunctions ==
    /\ pc \in [Runs -> Places]
    /\ missing \in [Runs -> SUBSET Fields]
    /\ pos \in [Runs -> Nat]
    /\ todo \in [Runs -> SUBSET Rows]
    /\ pending \in [Runs -> SUBSET Rows]
    /\ upserted \in [Runs -> Nat]
    /\ skipped \in [Runs -> Nat]

IngestInv == SharedInv /\ RunFunctions /\ \A r \in Runs : RunInv(r)

-----------------------------------------------------------------------------
(* Rows and their points.                                                    *)

LEMMA IdsAreFlights ==
    ASSUME SharedInv, NEW some \in SUBSET Rows
    PROVE  Ids(some) \subseteq FlightIds
BY DEF SharedInv, Ids, Rows

LEMMA IdsOfUnion ==
    ASSUME NEW some, NEW more
    PROVE  Ids(some \cup more) = Ids(some) \cup Ids(more)
BY DEF Ids

(* The lists of a run are finite, and they are parts of the file.            *)
LEMMA ListsAreFinite ==
    ASSUME SharedInv, NEW r \in Runs, Variables(r)
    PROVE  /\ IsFiniteSet(todo[r]) /\ Cardinality(todo[r]) \in Nat
           /\ IsFiniteSet(pending[r]) /\ Cardinality(pending[r]) \in Nat
           /\ todo[r] \subseteq Rows /\ pending[r] \subseteq Rows
           /\ pos[r] \in Nat /\ Len(file) \in Nat /\ pos[r] <= Len(file)
<1>1. pos[r] \in Nat /\ Len(file) \in Nat /\ pos[r] <= Len(file)
  BY DEF SharedInv, Variables
<1>2. IsFiniteSet(1..pos[r])
  BY <1>1, FS_Interval
<1>3. IsFiniteSet(todo[r]) /\ IsFiniteSet(pending[r])
  BY <1>2, FS_Subset DEF Variables
<1>4. 1..pos[r] \subseteq Rows
  BY <1>1 DEF Rows
<1> QED BY <1>1, <1>3, <1>4, FS_CardinalityType DEF Variables

-----------------------------------------------------------------------------
(* A step of one run.                                                        *)

\* The other runs keep their variables, the file stays as it is and no point
\* leaves the collection.
StepOf(r) ==
    /\ file' = file
    /\ points \subseteq points'
    /\ \A s \in Runs \ {r} :
        /\ pc'[s] = pc[s] /\ missing'[s] = missing[s] /\ pos'[s] = pos[s]
        /\ todo'[s] = todo[s] /\ pending'[s] = pending[s]
        /\ upserted'[s] = upserted[s] /\ skipped'[s] = skipped[s]

(* So a step keeps the invariant when it does for the run that takes it.     *)
LEMMA OthersStay ==
    ASSUME IngestInv, NEW r \in Runs, StepOf(r), SharedInv', RunFunctions', RunInv(r)'
    PROVE  IngestInv'
<1>1. ASSUME NEW s \in Runs, s # r
      PROVE  RunInv(s)'
  <2>1. RunInv(s)
    BY DEF IngestInv
  <2>2. /\ pc'[s] = pc[s] /\ missing'[s] = missing[s] /\ pos'[s] = pos[s]
        /\ todo'[s] = todo[s] /\ pending'[s] = pending[s]
        /\ upserted'[s] = upserted[s] /\ skipped'[s] = skipped[s]
        /\ file' = file /\ points \subseteq points'
    BY <1>1 DEF StepOf
  <2>3. Variables(s)'
    BY <2>1, <2>2 DEF RunInv, Variables
  <2>4. Carried(s)'
    BY <2>1, <2>2 DEF RunInv, Carried, Ids
  <2>5. Counted(s)'
    BY <2>1, <2>2 DEF RunInv, Counted
  <2> QED BY <2>3, <2>4, <2>5 DEF RunInv
<1> QED BY <1>1 DEF IngestInv

(* Steps that move a run and touch none of its lists: Ensure, Create, Index, *)
(* Finish and Die.                                                           *)
LEMMA MoveStep ==
    ASSUME IngestInv, NEW r \in Runs, NEW place \in Places, NEW tried \in SUBSET Fields,
           pc' = [pc EXCEPT ![r] = place], missing' = [missing EXCEPT ![r] = tried],
           collection' \in BOOLEAN, indexes' \in SUBSET Fields,
           UNCHANGED <<file, points, pos, todo, pending, upserted, skipped>>,
           place \notin {"append", "upsert", "dead"} => todo[r] = {},
           place = "done" => pending[r] = {},
           place \in {"flush", "done"} => pos[r] = Len(file)
    PROVE  IngestInv'
<1>1. StepOf(r)
  BY DEF StepOf, IngestInv, RunFunctions
<1>2. SharedInv'
  BY DEF IngestInv, SharedInv
<1>3. RunFunctions'
  BY DEF IngestInv, RunFunctions, Rows
<1>4. pc'[r] = place /\ missing'[r] = tried /\ RunInv(r)
  BY DEF IngestInv, RunFunctions
<1>5. Variables(r)'
  BY <1>4 DEF RunInv, Variables
<1>6. Carried(r)' /\ Counted(r)'
  BY <1>4 DEF RunInv, Carried, Counted, Ids
<1> QED BY <1>1, <1>2, <1>3, <1>5, <1>6, OthersStay DEF RunInv

LEMMA EnsureStep ==
    ASSUME IngestInv, NEW r \in Runs, Ensure(r)
    PROVE  IngestInv'
<1> DEFINE place == IF file = <<>> THEN "done" ELSE IF collection THEN "batch" ELSE "create"
<1>1. RunInv(r) /\ missing \in [Runs -> SUBSET Fields] /\ SharedInv
  BY DEF IngestInv, RunFunctions
<1>2. /\ place \in Places /\ pc' = [pc EXCEPT ![r] = place]
      /\ missing' = [missing EXCEPT ![r] = missing[r]]
      /\ place \notin {"append", "upsert", "dead", "flush"}
      /\ place = "done" => file = <<>>
  BY <1>1 DEF Ensure, Goto, Places
<1>3. todo[r] = {}
  BY <1>1 DEF Ensure, RunInv, Variables
<1>4. place = "done" => pending[r] = {} /\ pos[r] = Len(file)
  BY <1>1, <1>2 DEF RunInv, Variables, SharedInv
<1>5. missing[r] \in SUBSET Fields
  BY <1>1
<1>6. UNCHANGED <<file, collection, indexes, points, pos, todo, pending, upserted, skipped>>
  BY DEF Ensure
<1> HIDE DEF place
<1> QED BY <1>1, <1>2, <1>3, <1>4, <1>5, <1>6, MoveStep DEF SharedInv

LEMMA CreateStep ==
    ASSUME IngestInv, NEW r \in Runs, Create(r)
    PROVE  IngestInv'
<1>1. /\ Variables(r) /\ SharedInv /\ missing \in [Runs -> SUBSET Fields]
      /\ "refused" \in Places /\ "index" \in Places
  BY DEF IngestInv, RunInv, RunFunctions, Places
<1>2. todo[r] = {} /\ missing[r] \in SUBSET Fields
  BY <1>1 DEF Create, Variables
<1>3. CASE collection
  <2>1. missing' = [missing EXCEPT ![r] = missing[r]] /\ pc' = [pc EXCEPT ![r] = "refused"]
    BY <1>1, <1>3 DEF Create, Goto
  <2> QED BY <1>1, <1>2, <1>3, <2>1, MoveStep DEF Create, SharedInv
<1>4. CASE ~collection
  <2>1. missing' = [missing EXCEPT ![r] = Fields] /\ pc' = [pc EXCEPT ![r] = "index"]
    BY <1>4 DEF Create, Goto
  <2> QED BY <1>1, <1>2, <1>4, <2>1, MoveStep DEF Create, SharedInv
<1> QED BY <1>3, <1>4

LEMMA IndexStep ==
    ASSUME IngestInv, NEW r \in Runs, Index(r)
    PROVE  IngestInv'
<1>1. /\ Variables(r) /\ SharedInv /\ missing \in [Runs -> SUBSET Fields]
      /\ pc \in [Runs -> Places] /\ "batch" \in Places
  BY DEF IngestInv, RunInv, RunFunctions, Places
<1>2. todo[r] = {} /\ missing[r] \in SUBSET Fields /\ pc[r] = "index" /\ pc[r] \in Places
  BY <1>1 DEF Index, Variables
<1>3. CASE missing[r] = {}
  <2>1. missing' = [missing EXCEPT ![r] = missing[r]] /\ pc' = [pc EXCEPT ![r] = "batch"]
    BY <1>1, <1>3 DEF Index, Goto
  <2> QED BY <1>1, <1>2, <1>3, <2>1, MoveStep DEF Index, SharedInv
<1>4. CASE missing[r] # {}
  <2>1. PICK f \in missing[r] :
            /\ missing' = [missing EXCEPT ![r] = @ \ {f}]
            /\ indexes' \in {indexes, indexes \cup {f}}
    BY <1>4 DEF Index
  <2>2. /\ missing' = [missing EXCEPT ![r] = missing[r] \ {f}]
        /\ missing[r] \ {f} \in SUBSET Fields
        /\ indexes' \in SUBSET Fields /\ pc' = [pc EXCEPT ![r] = "index"]
    BY <1>1, <1>2, <1>4, <2>1 DEF Index, SharedInv
  <2>3. UNCHANGED <<file, collection, points, pos, todo, pending, upserted, skipped>>
    BY DEF Index
  <2> QED BY <1>1, <1>2, <2>2, <2>3, MoveStep DEF SharedInv, Places
<1> QED BY <1>3, <1>4

LEMMA FinishStep ==
    ASSUME IngestInv, NEW r \in Runs, Finish(r)
    PROVE  IngestInv'
<1> DEFINE place == IF pending[r] = {} THEN "done" ELSE "flush"
<1>1. Variables(r) /\ SharedInv /\ missing \in [Runs -> SUBSET Fields]
  BY DEF IngestInv, RunInv, RunFunctions
<1>2. /\ place \in Places /\ pc' = [pc EXCEPT ![r] = place]
      /\ missing' = [missing EXCEPT ![r] = missing[r]] /\ missing[r] \in SUBSET Fields
      /\ place = "done" => pending[r] = {}
  BY <1>1 DEF Finish, Goto, Places
<1>3. todo[r] = {} /\ pos[r] = Len(file)
  BY <1>1, ListsAreFinite DEF Finish, Variables
<1>4. UNCHANGED <<file, collection, indexes, points, pos, todo, pending, upserted, skipped>>
  BY DEF Finish
<1> HIDE DEF place
<1> QED BY <1>1, <1>2, <1>3, <1>4, MoveStep DEF SharedInv

LEMMA DieStep ==
    ASSUME IngestInv, NEW r \in Runs, Die(r)
    PROVE  IngestInv'
<1>1. SharedInv /\ missing \in [Runs -> SUBSET Fields] /\ "dead" \in Places
  BY DEF IngestInv, RunFunctions, Places
<1>2. missing' = [missing EXCEPT ![r] = missing[r]] /\ missing[r] \in SUBSET Fields
  BY <1>1 DEF Die
<1> QED BY <1>1, <1>2, MoveStep DEF Die, Goto, SharedInv

(* The next batch follows what was looked up before, and ends with the file  *)
(* at the latest.                                                            *)
LEMMA BatchPlace ==
    ASSUME SharedInv, NEW r \in Runs, Variables(r), pos[r] < Len(file)
    PROVE  /\ BatchEnd(r) \in Nat /\ pos[r] < BatchEnd(r) /\ BatchEnd(r) <= Len(file)
           /\ IsFiniteSet(pos[r]+1..BatchEnd(r))
           /\ Cardinality(pos[r]+1..BatchEnd(r)) = BatchEnd(r) - pos[r]
<1>1. pos[r] \in Nat /\ Len(file) \in Nat /\ EmbedBatch \in Nat \ {0}
  BY ListsAreFinite
<1>2. BatchEnd(r) \in Nat /\ pos[r] < BatchEnd(r) /\ BatchEnd(r) <= Len(file)
  BY <1>1 DEF BatchEnd, Smaller
<1>3. pos[r]+1 \in Int /\ BatchEnd(r) \in Int /\ ~ pos[r]+1 > BatchEnd(r)
  BY <1>1, <1>2
<1>4. /\ IsFiniteSet(pos[r]+1..BatchEnd(r))
      /\ Cardinality(pos[r]+1..BatchEnd(r)) = BatchEnd(r) - (pos[r]+1) + 1
  BY <1>3, FS_Interval
<1> QED BY <1>1, <1>2, <1>4

LEMMA BatchStep ==
    ASSUME IngestInv, NEW r \in Runs, Batch(r)
    PROVE  IngestInv'
<1> DEFINE end   == BatchEnd(r)
           batch == pos[r]+1..end
           new   == {i \in batch : file[i] \notin points}
           place == IF new = {} THEN "batch" ELSE "append"
           old   == Cardinality(batch) - Cardinality(new)
<1>1. Variables(r) /\ Carried(r) /\ Counted(r) /\ SharedInv /\ RunFunctions
  BY DEF IngestInv, RunInv
<1>2. pos[r] < Len(file) /\ todo[r] = {} /\ pc[r] = "batch"
  BY <1>1 DEF Batch, Variables
<1>3. /\ end \in Nat /\ pos[r] \in Nat /\ Len(file) \in Nat
      /\ pos[r] < end /\ end <= Len(file)
      /\ IsFiniteSet(batch) /\ Cardinality(batch) = end - pos[r]
  BY <1>1, <1>2, BatchPlace, ListsAreFinite
<1>4. /\ new \subseteq batch /\ IsFiniteSet(new) /\ Cardinality(new) \in Nat
      /\ Cardinality(new) <= Cardinality(batch)
  BY <1>3, FS_Subset, FS_CardinalityType
<1>5. old \in Nat
  BY <1>3, <1>4
<1>6. /\ todo' = [todo EXCEPT ![r] = new] /\ pos' = [pos EXCEPT ![r] = end]
      /\ skipped' = [skipped EXCEPT ![r] = @ + old] /\ pc' = [pc EXCEPT ![r] = place]
      /\ UNCHANGED <<file, collection, indexes, points, missing, pending, upserted>>
  BY DEF Batch, Goto
<1>7. 1..end = (1..pos[r]) \cup batch /\ batch \subseteq 1..Len(file)
  BY <1>3
<1>8. Ids(batch) \subseteq points \cup Ids(new)
  BY DEF Ids
<1>9. place \in {"batch", "append"} /\ place \in Places /\ (place = "batch" => new = {})
  BY DEF Places
<1>10. batch \cap (1..pos[r]) = {}
  BY <1>3
<1> HIDE DEF end, batch, new, place, old
<1>11. /\ todo'[r] = new /\ pos'[r] = end /\ skipped'[r] = skipped[r] + old /\ pc'[r] = place
       /\ pending'[r] = pending[r] /\ upserted'[r] = upserted[r] /\ missing'[r] = missing[r]
       /\ file' = file /\ points' = points
  BY <1>1, <1>6 DEF RunFunctions
<1>12. StepOf(r)
  BY <1>1, <1>6 DEF StepOf, RunFunctions
<1>13. SharedInv'
  BY <1>1, <1>6 DEF SharedInv
<1>14. RunFunctions'
  <2>1. new \in SUBSET Rows /\ Rows' = Rows
    BY <1>4, <1>6, <1>7 DEF Rows
  <2>2. skipped[r] + old \in Nat
    BY <1>1, <1>5 DEF RunFunctions
  <2> QED BY <1>1, <1>3, <1>6, <1>9, <2>1, <2>2 DEF RunFunctions
<1>15. Variables(r)'
  <2>1. /\ new \subseteq 1..end /\ pending[r] \subseteq 1..end /\ new \cap pending[r] = {}
    BY <1>1, <1>4, <1>7, <1>10 DEF Variables
  <2>2. end \in 0..Len(file) /\ skipped[r] + old \in Nat
    BY <1>1, <1>3, <1>5 DEF Variables
  <2> QED BY <1>1, <1>9, <1>11, <2>1, <2>2 DEF Variables
<1>16. Carried(r)'
  <2>1. Ids(1..end) \subseteq points \cup Ids(pending[r]) \cup Ids(new)
    <3>1. Ids(todo[r]) = {}
      BY <1>2 DEF Ids
    <3>2. Ids(1..end) = Ids(1..pos[r]) \cup Ids(batch)
      BY <1>7, IdsOfUnion
    <3> QED BY <1>1, <1>8, <3>1, <3>2 DEF Carried
  <2>2. /\ Ids(1..pos[r])' = Ids(1..end) /\ Ids(todo[r])' = Ids(new)
        /\ Ids(pending[r])' = Ids(pending[r])
    BY <1>11 DEF Ids
  <2> QED BY <1>11, <2>1, <2>2 DEF Carried
<1>17. Counted(r)'
  <2>1. /\ Cardinality(todo[r]) = 0 /\ Cardinality(pending[r]) \in Nat
        /\ upserted[r] \in Nat /\ skipped[r] \in Nat
    BY <1>1, <1>2, ListsAreFinite, FS_EmptySet DEF Variables
  <2>2. old = end - pos[r] - Cardinality(new)
    BY <1>3 DEF old
  <2> DEFINE count == Cardinality(new)
             list  == Cardinality(pending[r])
             up    == upserted[r]
             skip  == skipped[r]
             seen  == pos[r]
  <2>3. seen = up + skip + list
    BY <1>1, <2>1 DEF Counted
  <2>4. /\ count \in Nat /\ list \in Nat /\ up \in Nat /\ skip \in Nat /\ seen \in Nat
        /\ old = end - seen - count
    BY <1>3, <1>4, <2>1, <2>2
  <2> HIDE DEF count, list, up, skip, seen
  <2>5. end = up + (skip + old) + count + list
    BY <1>3, <2>3, <2>4
  <2>6. end = upserted[r] + (skipped[r] + old) + Cardinality(new) + Cardinality(pending[r])
    BY <2>5 DEF count, list, up, skip, seen
  <2> QED BY <1>11, <2>6 DEF Counted
<1> QED BY <1>1, <1>12, <1>13, <1>14, <1>15, <1>16, <1>17, OthersStay DEF RunInv

(* A row goes from the one list to the other.                                *)
LEMMA AppendStep ==
    ASSUME IngestInv, NEW r \in Runs, AppendPoint(r)
    PROVE  IngestInv'
<1>1. /\ Variables(r) /\ Carried(r) /\ Counted(r) /\ SharedInv /\ RunFunctions
      /\ pc[r] = "append"
  BY DEF IngestInv, RunInv, AppendPoint
<1>2. CASE todo[r] = {}
  <2>1. /\ pc' = [pc EXCEPT ![r] = "batch"] /\ missing' = [missing EXCEPT ![r] = missing[r]]
        /\ UNCHANGED <<file, collection, indexes, points, missing, pos, todo, pending,
                       upserted, skipped>>
    BY <1>1, <1>2 DEF AppendPoint, Goto, RunFunctions
  <2>2. missing[r] \in SUBSET Fields /\ "batch" \in Places
    BY <1>1 DEF RunFunctions, Places
  <2> QED BY <1>1, <1>2, <2>1, <2>2, MoveStep DEF SharedInv
<1>3. CASE todo[r] # {}
  <2>1. PICK i \in todo[r] : /\ pending' = [pending EXCEPT ![r] = @ \cup {i}]
                             /\ todo' = [todo EXCEPT ![r] = @ \ {i}]
    BY <1>3 DEF AppendPoint
  <2> DEFINE place == IF Cardinality(pending[r]) + 1 >= UpsertBatch THEN "upsert" ELSE "append"
  <2>2. /\ pc' = [pc EXCEPT ![r] = place]
        /\ UNCHANGED <<file, collection, indexes, points, missing, pos, upserted, skipped>>
        /\ place \in {"upsert", "append"} /\ place \in Places
    BY <1>3 DEF AppendPoint, Goto, Places
  <2> HIDE DEF place
  <2>3. /\ todo'[r] = todo[r] \ {i} /\ pending'[r] = pending[r] \cup {i} /\ pc'[r] = place
        /\ pos'[r] = pos[r] /\ upserted'[r] = upserted[r] /\ skipped'[r] = skipped[r]
        /\ missing'[r] = missing[r] /\ file' = file /\ points' = points
    BY <1>1, <2>1, <2>2 DEF RunFunctions
  <2>4. StepOf(r)
    BY <1>1, <2>1, <2>2 DEF StepOf, RunFunctions
  <2>5. SharedInv'
    BY <1>1, <2>2 DEF SharedInv
  <2>6. RunFunctions'
    <3>1. todo[r] \ {i} \in SUBSET Rows /\ pending[r] \cup {i} \in SUBSET Rows
      BY <1>1, <2>1, ListsAreFinite
    <3>2. Rows' = Rows
      BY <2>2 DEF Rows
    <3> QED BY <1>1, <2>1, <2>2, <3>1, <3>2 DEF RunFunctions
  <2>7. Variables(r)'
    BY <1>1, <2>2, <2>3 DEF Variables
  <2>8. Carried(r)'
    <3> DEFINE new  == todo[r] \ {i}
               list == pending[r] \cup {i}
    <3>1. new \cup list = todo[r] \cup pending[r]
      BY <2>1
    <3>2. Ids(new) \cup Ids(list) = Ids(todo[r]) \cup Ids(pending[r])
      <4> HIDE DEF new, list
      <4>1. Ids(new \cup list) = Ids(new) \cup Ids(list)
        BY IdsOfUnion
      <4>2. Ids(todo[r] \cup pending[r]) = Ids(todo[r]) \cup Ids(pending[r])
        BY IdsOfUnion
      <4> QED BY <3>1, <4>1, <4>2
    <3>3. /\ Ids(todo[r])' = Ids(new) /\ Ids(pending[r])' = Ids(list)
          /\ Ids(1..pos[r])' = Ids(1..pos[r])
      BY <2>3 DEF Ids
    <3> HIDE DEF new, list
    <3> QED BY <1>1, <2>3, <3>2, <3>3 DEF Carried
  <2>9. Counted(r)'
    <3>1. i \notin pending[r]
      BY <1>1, <2>1 DEF Variables
    <3>2. /\ Cardinality(todo[r] \ {i}) = Cardinality(todo[r]) - 1
          /\ Cardinality(pending[r] \cup {i}) = Cardinality(pending[r]) + 1
          /\ Cardinality(todo[r]) \in Nat /\ Cardinality(pending[r]) \in Nat
      BY <1>1, <2>1, <3>1, ListsAreFinite, FS_AddElement, FS_RemoveElement
    <3> DEFINE new  == Cardinality(todo[r])
               list == Cardinality(pending[r])
    <3>3. /\ pos[r] = upserted[r] + skipped[r] + new + list
          /\ new \in Nat /\ list \in Nat /\ upserted[r] \in Nat /\ skipped[r] \in Nat
      BY <1>1, <3>2 DEF Counted, Variables
    <3> HIDE DEF new, list
    <3>4. pos[r] = upserted[r] + skipped[r] + (new - 1) + (list + 1)
      BY <3>3
    <3> QED BY <2>3, <3>2, <3>4 DEF Counted, new, list
  <2> QED BY <1>1, <2>4, <2>5, <2>6, <2>7, <2>8, <2>9, OthersStay DEF RunInv
<1> QED BY <1>2, <1>3

(* The points of an upsert are flights, and all they were carried for.       *)
LEMMA PointsStored ==
    ASSUME SharedInv, NEW r \in Runs, Variables(r), Carried(r)
    PROVE  /\ points \cup Ids(pending[r]) \in SUBSET FlightIds
           /\ Ids(1..pos[r]) \subseteq (points \cup Ids(pending[r])) \cup Ids(todo[r])
BY ListsAreFinite, IdsAreFlights DEF SharedInv, Carried

LEMMA UpsertStep ==
    ASSUME IngestInv, NEW r \in Runs, Upsert(r)
    PROVE  IngestInv'
<1> DEFINE place == IF pc[r] = "flush" THEN "done" ELSE "append"
<1>1. /\ Variables(r) /\ Carried(r) /\ Counted(r) /\ SharedInv /\ RunFunctions
      /\ pc[r] \in {"upsert", "flush"}
  BY DEF IngestInv, RunInv, Upsert
<1>2. /\ points' = points \cup Ids(pending[r])
      /\ upserted' = [upserted EXCEPT ![r] = @ + Cardinality(pending[r])]
      /\ pending' = [pending EXCEPT ![r] = {}] /\ pc' = [pc EXCEPT ![r] = place]
      /\ UNCHANGED <<file, collection, indexes, missing, pos, todo, skipped>>
      /\ place \in Places /\ place \in {"done", "append"}
      /\ place = "done" => pc[r] = "flush"
  BY DEF Upsert, Goto, Places
<1> HIDE DEF place
<1>3. Cardinality(pending[r]) \in Nat /\ upserted[r] \in Nat
  BY <1>1, ListsAreFinite DEF Variables
<1>4. upserted[r] + Cardinality(pending[r]) \in Nat
  BY <1>3
<1>5. /\ pending'[r] = {} /\ upserted'[r] = upserted[r] + Cardinality(pending[r])
      /\ pc'[r] = place /\ todo'[r] = todo[r] /\ pos'[r] = pos[r] /\ skipped'[r] = skipped[r]
      /\ missing'[r] = missing[r] /\ file' = file
  BY <1>1, <1>2 DEF RunFunctions
<1>6. StepOf(r)
  BY <1>1, <1>2 DEF StepOf, RunFunctions
<1>7. SharedInv'
  BY <1>1, <1>2, PointsStored DEF SharedInv
<1>8. RunFunctions'
  BY <1>1, <1>2, <1>4 DEF RunFunctions, Rows
<1>9. Variables(r)'
  BY <1>1, <1>2, <1>4, <1>5 DEF Variables
<1>10. Carried(r)'
  BY <1>1, <1>2, <1>5, PointsStored DEF Carried, Ids
<1>11. Counted(r)'
  <2>1. Cardinality({}) = 0
    BY FS_EmptySet
  <2> DEFINE new  == Cardinality(todo[r])
             list == Cardinality(pending[r])
  <2>2. /\ pos[r] = upserted[r] + skipped[r] + new + list
        /\ new \in Nat /\ list \in Nat /\ upserted[r] \in Nat /\ skipped[r] \in Nat
    BY <1>1, ListsAreFinite DEF Counted, Variables
  <2> HIDE DEF new, list
  <2>3. pos[r] = (upserted[r] + list) + skipped[r] + new + 0
    BY <2>2
  <2> QED BY <1>5, <2>1, <2>3 DEF Counted, new, list
<1> QED BY <1>1, <1>6, <1>7, <1>8, <1>9, <1>10, <1>11, OthersStay DEF RunInv

(* The run has not counted what it stored, but it is dead.                   *)
LEMMA DieAfterUpsertStep ==
    ASSUME IngestInv, NEW r \in Runs, DieAfterUpsert(r)
    PROVE  IngestInv'
<1>1. Variables(r) /\ Carried(r) /\ Counted(r) /\ SharedInv /\ RunFunctions
  BY DEF IngestInv, RunInv
<1>2. /\ points' = points \cup Ids(pending[r]) /\ pc' = [pc EXCEPT ![r] = "dead"]
      /\ UNCHANGED <<file, collection, indexes, missing, pos, todo, pending, upserted, skipped>>
      /\ "dead" \in Places
  BY DEF DieAfterUpsert, Goto, Places
<1>3. StepOf(r) /\ pc'[r] = "dead"
  BY <1>1, <1>2 DEF StepOf, RunFunctions
<1>4. SharedInv'
  BY <1>1, <1>2, PointsStored DEF SharedInv
<1>5. RunFunctions'
  BY <1>1, <1>2 DEF RunFunctions, Rows
<1>6. Variables(r)'
  BY <1>1, <1>2, <1>3 DEF Variables
<1>7. Carried(r)' /\ Counted(r)'
  BY <1>1, <1>2 DEF Carried, Counted, Ids
<1> QED BY <1>1, <1>3, <1>4, <1>5, <1>6, <1>7, OthersStay DEF RunInv

(* A new process has looked up nothing.                                      *)
LEMMA RestartStep ==
    ASSUME IngestInv, NEW r \in Runs, Restart(r)
    PROVE  IngestInv'
<1>1. SharedInv /\ RunFunctions /\ Len(file) \in Nat
  BY DEF IngestInv, SharedInv
<1>2. StepOf(r) /\ SharedInv' /\ RunFunctions'
  BY <1>1 DEF Restart, Goto, StepOf, SharedInv, RunFunctions, Rows, Places
<1>3. /\ pc'[r] = "ensure" /\ missing'[r] = {} /\ pos'[r] = 0 /\ todo'[r] = {}
      /\ pending'[r] = {} /\ upserted'[r] = 0 /\ skipped'[r] = 0 /\ file' = file
  BY <1>1 DEF Restart, Goto, RunFunctions
<1>4. Variables(r)'
  BY <1>1, <1>3 DEF Variables, Places
<1>5. Carried(r)'
  BY <1>3 DEF Carried, Ids
<1>6. Counted(r)'
  BY <1>3, FS_EmptySet DEF Counted
<1> QED BY <1>2, <1>4, <1>5, <1>6, OthersStay DEF RunInv

-----------------------------------------------------------------------------
(* The properties.                                                           *)

LEMMA IngestInvInit == Init => IngestInv
<1> SUFFICES ASSUME Init
             PROVE  IngestInv
  OBVIOUS
<1>1. SharedInv /\ RunFunctions /\ Len(file) \in Nat
  <2>1. SharedInv
    BY DEF Init, SharedInv
  <2>2. RunFunctions
    BY DEF Init, RunFunctions, Rows, Places
  <2> QED BY <2>1, <2>2 DEF SharedInv
<1>2. ASSUME NEW r \in Runs
      PROVE  RunInv(r)
  <2>1. /\ pc[r] = "ensure" /\ missing[r] = {} /\ pos[r] = 0 /\ todo[r] = {}
        /\ pending[r] = {} /\ upserted[r] = 0 /\ skipped[r] = 0
    BY DEF Init
  <2>2. Variables(r) /\ Carried(r)
    BY <1>1, <2>1 DEF Variables, Carried, Ids, Places
  <2>3. Counted(r)
    BY <2>1, FS_EmptySet DEF Counted
  <2> QED BY <2>2, <2>3 DEF RunInv
<1> QED BY <1>1, <1>2 DEF IngestInv

LEMMA IngestInvStep ==
    ASSUME IngestInv, [Next]_vars
    PROVE  IngestInv'
<1>1. CASE Next
  <2>1. PICK r \in Runs : Step(r) \/ Die(r) \/ DieAfterUpsert(r) \/ Restart(r)
    BY <1>1 DEF Next
  <2> QED
    BY <2>1, EnsureStep, CreateStep, IndexStep, BatchStep, AppendStep, UpsertStep, FinishStep,
       DieStep, DieAfterUpsertStep, RestartStep DEF Step
<1>2. CASE UNCHANGED vars
  <2>1. SharedInv' /\ RunFunctions'
    BY <1>2 DEF vars, runVars, IngestInv, SharedInv, RunFunctions, Rows
  <2>2. ASSUME NEW r \in Runs
        PROVE  RunInv(r)'
    BY <1>2 DEF vars, runVars, IngestInv, RunInv, Variables, Carried, Counted, Ids
  <2> QED BY <2>1, <2>2 DEF IngestInv
<1> QED BY <1>1, <1>2

(* The invariant holds wherever runs die, however many are busy and whatever *)
(* the sizes of the batches.                                                 *)
THEOREM IngestInvariant == Spec => []IngestInv
BY IngestInvInit, IngestInvStep, PTL DEF Spec

(* Every variable keeps its type; the counters are never negative and the    *)
(* lists hold rows of the file.                                              *)
THEOREM IngestTypeOK == Spec => []TypeOK
<1>1. IngestInv => TypeOK
  BY DEF IngestInv, SharedInv, RunFunctions, TypeOK
<1> QED BY <1>1, IngestInvariant, PTL

(* A row that was looked up is in the collection or on its way to it.        *)
THEOREM IngestLosesNoRow == Spec => []NoRowLost
<1>1. IngestInv => NoRowLost
  BY DEF IngestInv, RunInv, Carried, NoRowLost
<1> QED BY <1>1, IngestInvariant, PTL

(* A run that says it is done has left the whole file in the collection.     *)
THEOREM IngestDoneIsComplete == Spec => []DoneIsComplete
<1>1. ASSUME IngestInv, NEW r \in Runs, pc[r] = "done"
      PROVE  Range(file) \subseteq points
  <2>1. /\ Ids(1..pos[r]) \subseteq points \cup Ids(todo[r]) \cup Ids(pending[r])
        /\ todo[r] = {} /\ pending[r] = {} /\ pos[r] = Len(file)
    BY <1>1 DEF IngestInv, RunInv, Carried, Variables
  <2>2. Ids({}) = {}
    BY DEF Ids
  <2>3. Range(file) = Ids(1..Len(file))
    BY <1>1 DEF IngestInv, SharedInv, Ids, Range
  <2> QED BY <2>1, <2>2, <2>3
<1>2. IngestInv => DoneIsComplete
  BY <1>1 DEF DoneIsComplete
<1> QED BY <1>2, IngestInvariant, PTL

(* Every row is counted once, in whatever batch and upsert it goes.          *)
THEOREM IngestCountsRows == Spec => []EveryRowCounted
<1>1. ASSUME IngestInv, NEW r \in Runs
      PROVE  /\ pos[r] = upserted[r] + skipped[r] + Cardinality(todo[r]) + Cardinality(pending[r])
             /\ pc[r] = "done" => upserted[r] + skipped[r] = Len(file)
  <2>1. Counted(r) /\ Variables(r)
    BY <1>1 DEF IngestInv, RunInv
  <2>2. ASSUME pc[r] = "done"
        PROVE  upserted[r] + skipped[r] = Len(file)
    <3>1. Cardinality(todo[r]) = 0 /\ Cardinality(pending[r]) = 0 /\ pos[r] = Len(file)
      BY <2>1, <2>2, FS_EmptySet DEF Variables
    <3>2. upserted[r] \in Nat /\ skipped[r] \in Nat
      BY <2>1 DEF Variables
    <3> QED BY <2>1, <3>1, <3>2 DEF Counted
  <2> QED BY <2>1, <2>2 DEF Counted
<1>2. IngestInv => EveryRowCounted
  BY <1>1 DEF EveryRowCounted
<1> QED BY <1>2, IngestInvariant, PTL

=============================================================================
