-------------------------- MODULE SchemaInitProofs ---------------------------
(***************************************************************************)
(* The revision tells what the schema has, for any number of processes and *)
(* any number of deaths: the argument does not count them.                 *)
(*                                                                         *)
(* VersionTellsSchema is not inductive: an upgrade from a revision that    *)
(* was read long ago could lift the schema over a step it never took.      *)
(* Reading(w) says what the revision a process has read tells of the       *)
(* database as it is by now.                                               *)
(***************************************************************************)
EXTENDS SchemaInit, TLAPS

\* The objects a database at the revision has.
UpTo(revision) == UNION {Creates(r) : r \in 1..revision}

\* What a process between its reading and its transaction knows.
Reading(w) ==
    /\ pc[w] = "stamp" => Table \in origin.objects /\ origin.version = Unversioned
    /\ pc[w] = "upgrade" =>
         /\ seen[w] = 1 => origin.version = 1
         /\ seen[w] = HeadRevision => db.version = HeadRevision

\* No action but a start at revision 1 leads to revision 1.
SchemaInv ==
    /\ TypeOK
    /\ VersionTellsSchema
    /\ db.version = 1 => db = origin
    /\ origin.version # Unversioned => db.version # Unversioned
    /\ \A w \in Workers : Reading(w)

USE SchemaConstants

(* What the migrations make of a database, and what is left to do.           *)
LEMMA Revisions ==
    /\ UpTo(1) = {Table}
    /\ UpTo(2) = Objects
    /\ UNION {Creates(r) : r \in 0 + 1..2} = Objects
    /\ UNION {Creates(r) : r \in 1 + 1..2} = {Column, Index}
    /\ UNION {Creates(r) : r \in 2 + 1..2} = {}
<1>1. 1..1 = {1} /\ 1..2 = {1, 2} /\ 0 + 1..2 = {1, 2} /\ 1 + 1..2 = {2} /\ 2 + 1..2 = {}
  OBVIOUS
<1>2. Creates(1) = {Table} /\ Creates(2) = {Column, Index}
  BY DEF Creates
<1> QED BY <1>1, <1>2 DEF UpTo, Objects

(* The database behind the invariant: as it was found, or at a revision.     *)
LEMMA DatabaseAt ==
    ASSUME SchemaInv
    PROVE  /\ db \in Database /\ origin \in Untouched
           /\ db.version \in {0, 1, 2} /\ db.objects \subseteq Objects
           /\ db.version = 0 => db = origin
           /\ db.version = 1 => db = origin /\ origin = [objects |-> {Table}, version |-> 1]
           /\ db.version = 2 => db.objects = IF origin = OldUnkeyed THEN {Table} ELSE Objects
<1>1. db \in Database /\ origin \in Untouched
  BY DEF SchemaInv, TypeOK
<1>2. db.version \in {0, 1, 2} /\ db.objects \subseteq Objects
  BY <1>1 DEF Database, Unversioned, HeadRevision
<1>3. db.version = 0 => db = origin
  BY DEF SchemaInv, VersionTellsSchema, Unversioned
<1>4. db.version = 1 => db = origin /\ origin = [objects |-> {Table}, version |-> 1]
  BY <1>1 DEF SchemaInv, Untouched, OldUnkeyed, Unversioned, HeadRevision
<1>5. db.version = 2 => db.objects = IF origin = OldUnkeyed THEN {Table} ELSE Objects
  BY Revisions DEF SchemaInv, VersionTellsSchema, Unversioned, UpTo
<1> QED BY <1>1, <1>2, <1>3, <1>4, <1>5

(* A process moves, and the database stays as it is.                         *)
LEMMA QuietStep ==
    ASSUME SchemaInv, NEW w \in Workers,
           Inspect(w) \/ ReadRevision(w) \/ UpgradeRefused(w) \/ Die(w)
    PROVE  SchemaInv'
<1>1. db' = db /\ origin' = origin
  BY DEF Inspect, ReadRevision, UpgradeRefused, Die
<1>2. PICK p \in Places \ {"ready"} : pc' = [pc EXCEPT ![w] = p]
  BY DEF Inspect, ReadRevision, UpgradeRefused, Die, Goto, Places
<1>3. TypeOK'
  <2>1. db.version \in Unversioned..HeadRevision
    BY DEF SchemaInv, TypeOK, Database
  <2> QED BY <1>1, <1>2, <2>1
      DEF SchemaInv, TypeOK, Inspect, ReadRevision, UpgradeRefused, Die
<1>4. VersionTellsSchema'
  BY <1>1, <1>2 DEF SchemaInv, TypeOK, VersionTellsSchema
<1>5. ASSUME NEW v \in Workers
      PROVE  Reading(v)'
  <2>1. CASE v # w
    <3>1. pc'[v] = pc[v] /\ seen'[v] = seen[v]
      BY <1>2, <2>1 DEF SchemaInv, TypeOK, Inspect, ReadRevision, UpgradeRefused, Die
    <3> QED BY <1>1, <3>1 DEF SchemaInv, Reading
  <2>2. CASE v = w /\ Inspect(w)
    <3>1. pc'[w] = IF IsOld THEN "stamp" ELSE "inspected"
      BY <2>2 DEF Inspect, Goto, SchemaInv, TypeOK
    <3>2. IsOld => Table \in origin.objects /\ origin.version = Unversioned
      BY DatabaseAt DEF IsOld, Unversioned
    <3> QED BY <1>1, <2>2, <3>1, <3>2 DEF Reading
  <2>3. CASE v = w /\ ReadRevision(w)
    <3>1. pc'[w] = "upgrade" /\ seen'[w] = db.version
      BY <2>3 DEF ReadRevision, Goto, SchemaInv, TypeOK
    <3> QED BY <1>1, <2>3, <3>1, DatabaseAt DEF Reading, HeadRevision
  <2>4. CASE v = w /\ (UpgradeRefused(w) \/ Die(w))
    <3>1. pc'[w] = "down"
      BY <2>4 DEF UpgradeRefused, Die, Goto, SchemaInv, TypeOK
    <3> QED BY <2>4, <3>1 DEF Reading
  <2> QED BY <2>1, <2>2, <2>3, <2>4
<1> QED BY <1>1, <1>3, <1>4, <1>5 DEF SchemaInv

(* A process writes the revision at head over a database that has what the   *)
(* revision says; nothing else needs to be known of the others.              *)
LEMMA AtHead ==
    ASSUME SchemaInv, NEW w \in Workers, NEW p \in {"ready", "down"},
           pc' = [pc EXCEPT ![w] = p], UNCHANGED <<origin, seen, faults>>,
           db' \in Database, db'.version = 2,
           db'.objects = IF origin = OldUnkeyed THEN {Table} ELSE Objects
    PROVE  SchemaInv'
<1>1. TypeOK'
  BY DEF SchemaInv, TypeOK, Places
<1>2. VersionTellsSchema'
  BY Revisions DEF VersionTellsSchema, Unversioned, HeadRevision, UpTo
<1>3. ASSUME NEW v \in Workers
      PROVE  Reading(v)'
  <2>1. pc'[v] \in {"stamp", "upgrade"} => pc'[v] = pc[v]
    BY DEF SchemaInv, TypeOK
  <2> QED BY <2>1 DEF SchemaInv, Reading, HeadRevision
<1> QED BY <1>1, <1>2, <1>3 DEF SchemaInv, Unversioned

LEMMA UpgradeKeeps ==
    ASSUME SchemaInv, NEW w \in Workers, Upgrade(w)
    PROVE  SchemaInv'
<1>1. /\ pc[w] = "upgrade" /\ pc' = [pc EXCEPT ![w] = "ready"]
      /\ Plan(w) \cap db.objects = {}
      /\ db' = [objects |-> db.objects \cup Plan(w), version |-> 2]
      /\ UNCHANGED <<origin, seen, faults>>
  BY DEF Upgrade, Goto, HeadRevision
<1>2. seen[w] \in {0, 1, 2}
  BY DEF SchemaInv, TypeOK, Unversioned, HeadRevision
<1>3. Table # Column /\ Table # Index /\ Column # Index
  BY DEF Table, Column, Index
<1>4. db.objects \cup Plan(w) = IF origin = OldUnkeyed THEN {Table} ELSE Objects
  <2>1. CASE seen[w] = 0
    <3>1. Plan(w) = Objects
      BY <2>1, Revisions DEF Plan, HeadRevision
    <3>2. db.objects = {}
      BY <1>1, <3>1, DatabaseAt
    <3>3. db.version = 0 /\ origin # OldUnkeyed
      BY <3>2, DatabaseAt DEF Objects, OldUnkeyed
    <3> QED BY <3>1, <3>2, <3>3
  <2>2. CASE seen[w] = 1
    <3>1. Plan(w) = {Column, Index}
      BY <2>2, Revisions DEF Plan, HeadRevision
    <3>2. origin.version = 1
      BY <1>1, <2>2 DEF SchemaInv, Reading
    <3>3. origin # OldUnkeyed /\ db.version # 0
      BY <3>2, DatabaseAt DEF OldUnkeyed, Unversioned
    <3>4. db.version # 2
      BY <1>1, <3>1, <3>3, DatabaseAt DEF Objects
    <3>5. db.objects = {Table}
      BY <3>3, <3>4, DatabaseAt
    <3> QED BY <3>1, <3>3, <3>5 DEF Objects
  <2>3. CASE seen[w] = 2
    <3>1. Plan(w) = {}
      BY <2>3, Revisions DEF Plan, HeadRevision
    <3>2. db.version = 2
      BY <1>1, <2>3 DEF SchemaInv, Reading, HeadRevision
    <3> QED BY <3>1, <3>2, DatabaseAt
  <2> QED BY <1>2, <2>1, <2>2, <2>3
<1>5. db' \in Database /\ db'.version = 2 /\ db'.objects = db.objects \cup Plan(w)
  <2>1. db.objects \cup Plan(w) \in SUBSET Objects
    BY <1>4 DEF Objects
  <2> QED BY <1>1, <2>1 DEF Database, Unversioned, HeadRevision
<1> QED BY <1>1, <1>4, <1>5, AtHead

LEMMA StampKeeps ==
    ASSUME SchemaInv, NEW w \in Workers, Stamp(w)
    PROVE  SchemaInv'
<1>1. /\ pc[w] = "stamp" /\ \E p \in {"ready", "down"} : pc' = [pc EXCEPT ![w] = p]
      /\ db' = [db EXCEPT !.version = 2]
      /\ UNCHANGED <<origin, seen, faults>>
  BY DEF Stamp, Goto, HeadRevision
<1>2. Table \in origin.objects /\ origin.version = 0
  BY <1>1 DEF SchemaInv, Reading, Unversioned
<1>3. db.objects = IF origin = OldUnkeyed THEN {Table} ELSE Objects
  <2>1. origin = OldUnkeyed \/ origin = [objects |-> Objects, version |-> 0]
    BY <1>2, DatabaseAt DEF Untouched, Unversioned, HeadRevision
  <2>2. CASE db.version = 0
    BY <2>1, <2>2, DatabaseAt DEF OldUnkeyed
  <2>3. CASE db.version # 0
    BY <1>2, <2>3, DatabaseAt
  <2> QED BY <2>2, <2>3
<1>4. db' \in Database /\ db'.version = 2 /\ db'.objects = db.objects
  BY <1>1, DatabaseAt DEF Database, Unversioned, HeadRevision
<1> QED BY <1>1, <1>3, <1>4, AtHead

(* The invariant is inductive, whoever dies and whoever is faster.           *)
THEOREM SchemaInvariant == Spec => []SchemaInv
<1>1. Init => SchemaInv
  <2> SUFFICES ASSUME Init PROVE SchemaInv
    OBVIOUS
  <2>1. db = origin /\ origin \in Untouched
    BY DEF Init
  <2>2. TypeOK
    BY <2>1 DEF Init, TypeOK, Places, Database, Untouched, OldUnkeyed, Objects, Unversioned,
                HeadRevision
  <2>3. VersionTellsSchema
    <3>1. \A w \in Workers : pc[w] # "ready"
      BY DEF Init
    <3>2. origin.version # 0 => /\ origin # OldUnkeyed
                               /\ origin.version \in {1, 2}
                               /\ origin.objects = UpTo(origin.version)
      BY <2>1, Revisions DEF Untouched, OldUnkeyed, Unversioned, HeadRevision
    <3> QED BY <2>1, <3>1, <3>2 DEF VersionTellsSchema, UpTo, Unversioned
  <2> QED BY <2>1, <2>2, <2>3 DEF Init, SchemaInv, Reading
<1>2. ASSUME SchemaInv, [Next]_vars
      PROVE  SchemaInv'
  <2>1. CASE UNCHANGED vars
    BY <1>2, <2>1
    DEF vars, SchemaInv, TypeOK, VersionTellsSchema, Reading
  <2>2. ASSUME NEW w \in Workers, Step(w) \/ Die(w)
        PROVE  SchemaInv'
    BY <1>2, <2>2, QuietStep, UpgradeKeeps, StampKeeps DEF Step
  <2> QED BY <1>2, <2>1, <2>2 DEF Next
<1> QED BY <1>1, <1>2, PTL DEF Spec

(* Type correctness of the start-up.                                         *)
THEOREM SchemaTypeOK == Spec => []TypeOK
BY SchemaInvariant, PTL DEF SchemaInv

(* The revision tells what the schema has, with the one exception that       *)
(* VersionTellsSchema names, and nobody serves below head.                   *)
THEOREM SchemaVersionTold == Spec => []VersionTellsSchema
BY SchemaInvariant, PTL DEF SchemaInv

=============================================================================
