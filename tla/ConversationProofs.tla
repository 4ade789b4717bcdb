------------------------- MODULE ConversationProofs --------------------------
(***************************************************************************)
(* The session store and the conversations over it, for any tabs, sessions *)
(* and bounds.  The store implements SessionMap, in memory and in Redis:   *)
(* its invariant says that the order of the dict is a strict order on the  *)
(* ids it has and that the time stamps agree with it, and a count of the   *)
(* ids used later than an id shows what an eviction leaves.  A session has *)
(* one tab, and what it holds, or a turn at work will save in it, is on    *)
(* the screen of that tab for as long as the tab goes on with it.          *)
(***************************************************************************)
EXTENDS Conversation, FiniteSetTheorems, TLAPS

USE StoreConstants

-----------------------------------------------------------------------------
(* Orders of use.                                                            *)

\* r orders the ids of K, one after the other.
IsOrder(K, r) ==
    /\ r \subseteq K \X K
    /\ \A s \in K : <<s, s>> \notin r
    /\ \A s, t \in K : s # t => <<s, t>> \in r \/ <<t, s>> \in r
    /\ \A s, t, w \in K : <<s, t>> \in r /\ <<t, w>> \in r => <<s, w>> \in r

\* The time stamps of the entries agree with the order r.
Agree(es, r) == \A s, t \in DOMAIN es : <<s, t>> \in r => es[t].age <= es[s].age

\* The ids of F used later than s.
After(F, r, s) == {t \in F : <<s, t>> \in r}

(* What is left of an order is one.                                          *)
LEMMA OrderRestricted ==
    ASSUME NEW K, NEW r, IsOrder(K, r), NEW F \in SUBSET K
    PROVE  IsOrder(F, r \cap (F \X F))
BY DEF IsOrder

(* An id used now comes last, and the others keep their order.               *)
LEMMA OrderMoved ==
    ASSUME NEW s, IsOrder(Known, older)
    PROVE  /\ IsOrder(Known \cup {s}, MoveToEnd(s))
           /\ \A t \in Known \ {s} : <<t, s>> \in MoveToEnd(s)
           /\ \A t, w : w # s => (<<t, w>> \in MoveToEnd(s) <=> t # s /\ <<t, w>> \in older)
<1>1. MoveToEnd(s) \subseteq (Known \cup {s}) \X (Known \cup {s})
  BY DEF IsOrder, MoveToEnd
<1>2. \A t, w : <<t, w>> \in MoveToEnd(s) <=>
          \/ t # s /\ w # s /\ <<t, w>> \in older
          \/ t \in Known \ {s} /\ w = s
  BY DEF MoveToEnd
<1>3. \A t, w : <<t, w>> \in older => t \in Known /\ w \in Known
  BY DEF IsOrder
<1> HIDE DEF MoveToEnd
<1>4. IsOrder(Known \cup {s}, MoveToEnd(s))
  BY <1>1, <1>2, <1>3 DEF IsOrder
<1> QED BY <1>2, <1>4

(* Those used later than a later id are fewer.                               *)
LEMMA AfterShrinks ==
    ASSUME NEW F, IsFiniteSet(F), NEW r, IsOrder(F, r), NEW s \in F, NEW t \in F,
           <<s, t>> \in r
    PROVE  /\ Cardinality(After(F, r, s)) \in Nat
           /\ Cardinality(After(F, r, t)) \in Nat
           /\ Cardinality(After(F, r, t)) < Cardinality(After(F, r, s))
<1>1. /\ After(F, r, t) \in SUBSET After(F, r, s)
      /\ t \in After(F, r, s) /\ t \notin After(F, r, t)
      /\ After(F, r, s) \in SUBSET F
  BY DEF After, IsOrder
<1>2. IsFiniteSet(After(F, r, s))
  BY <1>1, FS_Subset
<1>3. /\ IsFiniteSet(After(F, r, t))
      /\ Cardinality(After(F, r, t)) <= Cardinality(After(F, r, s))
      /\ Cardinality(After(F, r, t)) # Cardinality(After(F, r, s))
  BY <1>1, <1>2, FS_Subset
<1>4. Cardinality(After(F, r, s)) \in Nat /\ Cardinality(After(F, r, t)) \in Nat
  BY <1>2, <1>3, FS_CardinalityType
<1> QED BY <1>3, <1>4

(* No more ids are kept than the store may have.                             *)
LEMMA KeptFits ==
    ASSUME NEW F, IsFiniteSet(F), NEW r, IsOrder(F, r), NEW n \in Nat,
           NEW K \in SUBSET F, \A s \in K : Cardinality(After(F, r, s)) < n
    PROVE  IsFiniteSet(K) /\ Cardinality(K) <= n
<1> DEFINE f == [s \in K |-> Cardinality(After(F, r, s))]
<1>1. IsFiniteSet(K) /\ Cardinality(K) \in Nat
  BY FS_Subset, FS_CardinalityType
<1>2. ASSUME NEW s \in K
      PROVE  f[s] \in 0..n - 1
  <2>1. After(F, r, s) \in SUBSET F
    BY DEF After
  <2>2. Cardinality(After(F, r, s)) \in Nat
    BY <2>1, FS_Subset, FS_CardinalityType
  <2> QED BY <2>2
<1>3. IsFiniteSet(0..n - 1) /\ Cardinality(0..n - 1) = n
  BY FS_Interval
<1>4. ASSUME NEW s \in K, NEW t \in K, s # t
      PROVE  f[s] # f[t]
  <2>1. <<s, t>> \in r \/ <<t, s>> \in r
    BY <1>4 DEF IsOrder
  <2>2. \/ f[t] \in Nat /\ f[s] \in Nat /\ f[t] < f[s]
        \/ f[t] \in Nat /\ f[s] \in Nat /\ f[s] < f[t]
    BY <2>1, AfterShrinks
  <2> QED BY <2>2
<1>5. f \in [K -> 0..n - 1]
  BY <1>2
<1> HIDE DEF f
<1>6. ~ n < Cardinality(K)
  BY <1>1, <1>3, <1>4, <1>5, FS_PigeonHole
<1> QED BY <1>1, <1>6

(* An eviction among n + 1 ids that leaves one out leaves the others, all    *)
(* used later.                                                               *)
LEMMA CrowdedOut ==
    ASSUME NEW F, IsFiniteSet(F), NEW r, IsOrder(F, r), NEW n \in Nat \ {0},
           Cardinality(F) <= n + 1,
           NEW s \in F, ~ Cardinality(After(F, r, s)) < n
    PROVE  /\ Cardinality(F \ {s}) = n
           /\ \A t \in F \ {s} : <<s, t>> \in r /\ Cardinality(After(F, r, t)) < n
<1>1. /\ IsFiniteSet(F \ {s}) /\ Cardinality(F \ {s}) = Cardinality(F) - 1
      /\ Cardinality(F) \in Nat
  BY FS_RemoveElement, FS_CardinalityType
<1>2. After(F, r, s) \in SUBSET (F \ {s})
  BY DEF After, IsOrder
<1>3. /\ Cardinality(After(F, r, s)) <= Cardinality(F \ {s})
      /\ Cardinality(After(F, r, s)) = Cardinality(F \ {s}) => After(F, r, s) = F \ {s}
      /\ Cardinality(After(F, r, s)) \in Nat
  BY <1>1, <1>2, FS_Subset, FS_CardinalityType
<1>4. Cardinality(After(F, r, s)) = n /\ Cardinality(F \ {s}) = n
  BY <1>1, <1>3
<1>5. After(F, r, s) = F \ {s}
  BY <1>3, <1>4
<1>6. \A t \in F \ {s} : <<s, t>> \in r
  BY <1>5 DEF After
<1>7. ASSUME NEW t \in F \ {s}
      PROVE  Cardinality(After(F, r, t)) < n
  BY <1>4, <1>6, AfterShrinks
<1> QED BY <1>4, <1>6, <1>7

-----------------------------------------------------------------------------
(* The store, operation by operation.                                        *)

StoreInv ==
    /\ StoreTypeOK
    /\ IsFiniteSet(Known)
    /\ backend = "memory" => IsOrder(Known, older) /\ Agree(entries, older)
    /\ backend = "redis" => older = {} /\ \A s \in Known : entries[s].age < TTL

(* The store starts without entries.                                         *)
LEMMA StoreStarts == ASSUME StoreInit PROVE StoreInv
<1>1. Known = {} /\ older = {}
  BY DEF StoreInit, Known
<1>2. IsFiniteSet({}) /\ Cardinality({}) = 0
  BY FS_EmptySet
<1>3. StoreTypeOK
  BY <1>1, <1>2 DEF StoreInit, StoreTypeOK, Known
<1> QED BY <1>1, <1>2, <1>3 DEF StoreInv, StoreInit, IsOrder, Agree, Known

(* Reading moves a session to the end and loses nothing.                     *)
LEMMA GetStep ==
    ASSUME StoreInv, NEW s \in Sessions, Get(s)
    PROVE  /\ StoreInv'
           /\ \A t \in Sessions : Stored(t)' = Stored(t)
           /\ lastSaved' = lastSaved
           /\ LosesOldest
<1>1. CASE UNCHANGED <<entries, older>>
  <2>1. UNCHANGED <<storeVars, Known>>
    BY <1>1 DEF Get, storeVars, Known
  <2>2. \A t \in Known : Stored(t) # NoHistory
    BY DEF StoreInv, StoreTypeOK, Stored, Entry, Histories
  <2> QED BY <2>1, <2>2
      DEF storeVars, StoreInv, StoreTypeOK, Stored, Agree, LosesOldest
<1>2. CASE /\ backend = "memory" /\ s \in Known
           /\ entries' = [entries EXCEPT ![s].age = 0] /\ older' = MoveToEnd(s)
           /\ UNCHANGED <<backend, lastSaved>>
  <2>1. Known' = Known /\ Known \cup {s} = Known
    BY <1>2 DEF Known
  <2>2. /\ entries \in [Known -> Entry]
        /\ \A t \in Known : /\ entries[t] \in Entry
                            /\ entries'[t] = IF t = s THEN [entries[t] EXCEPT !.age = 0] ELSE entries[t]
    BY <1>2 DEF StoreInv, StoreTypeOK, Known
  <2>3. \A t \in Known :
            /\ entries'[t] \in Entry
            /\ entries'[t].messages = entries[t].messages
            /\ entries'[t].age = IF t = s THEN 0 ELSE entries[t].age
    <3>1. \A e \in Entry : LET f == [e EXCEPT !.age = 0]
                           IN f \in Entry /\ f.messages = e.messages /\ f.age = 0
      BY DEF Entry
    <3> QED BY <2>2, <3>1
  <2>4. entries' \in [Known -> Entry]
    BY <1>2, <2>2, <2>3 DEF Known
  <2>5. IsOrder(Known, older')
    BY <1>2, <2>1, OrderMoved DEF StoreInv
  <2>6. Agree(entries, older)'
    <3>1. ASSUME NEW t \in Known, NEW w \in Known, <<t, w>> \in older'
          PROVE  entries'[w].age <= entries'[t].age
      <4>1. /\ \A x \in Known : entries[x].age \in Nat
            /\ IsOrder(Known, older) /\ Agree(entries, older)
        BY <1>2, <2>2 DEF StoreInv, Entry
      <4>2. CASE w = s
        BY <2>3, <4>1, <4>2
      <4>3. CASE w # s
        <5>1. t # s /\ <<t, w>> \in older
          BY <1>2, <3>1, <4>1, <4>3, OrderMoved
        <5> QED BY <2>3, <4>1, <4>3, <5>1 DEF Agree, Known
      <4> QED BY <4>2, <4>3
    <3> QED BY <2>1, <3>1 DEF Agree, Known
  <2>7. StoreTypeOK'
    BY <1>2, <2>1, <2>4, <2>5 DEF StoreInv, StoreTypeOK, IsOrder
  <2>8. StoreInv'
    BY <1>2, <2>1, <2>5, <2>6, <2>7 DEF StoreInv
  <2>9. \A t \in Sessions : Stored(t)' = Stored(t)
    BY <2>1, <2>3 DEF Stored
  <2>10. \A t \in Known : Stored(t)' # NoHistory
    BY <2>1, <2>3 DEF Stored, Entry, Histories
  <2> QED BY <1>2, <2>8, <2>9, <2>10 DEF LosesOldest
<1> QED BY <1>1, <1>2 DEF Get, StoreInv, StoreTypeOK


(* What save stores before it evicts.                                        *)
StoredWith(s, h) ==
    [t \in Known \cup {s} |-> IF t = s THEN [messages |-> h, age |-> 0] ELSE entries[t]]

LEMMA StoredWithEntries ==
    ASSUME StoreInv, NEW s \in Sessions, NEW h \in Histories
    PROVE  /\ StoredWith(s, h) \in [Known \cup {s} -> Entry]
           /\ StoredWith(s, h)[s] = [messages |-> h, age |-> 0]
           /\ \A t \in Known \ {s} : StoredWith(s, h)[t] = entries[t]
           /\ Known \cup {s} \subseteq Sessions
           /\ IsFiniteSet(Known \cup {s})
           /\ backend = "memory" =>
                /\ Cardinality(Known \cup {s}) <= MaxSessions + 1
                /\ Agree(StoredWith(s, h), MoveToEnd(s))
<1>1. [messages |-> h, age |-> 0] \in Entry
  BY DEF Entry
<1>2. /\ StoredWith(s, h) \in [Known \cup {s} -> Entry]
      /\ StoredWith(s, h)[s] = [messages |-> h, age |-> 0]
      /\ \A t \in Known \ {s} : StoredWith(s, h)[t] = entries[t]
      /\ Known \cup {s} \subseteq Sessions
  BY <1>1 DEF StoreInv, StoreTypeOK, StoredWith
<1>3. /\ IsFiniteSet(Known \cup {s}) /\ Cardinality(Known) \in Nat
      /\ \/ Cardinality(Known \cup {s}) = Cardinality(Known)
         \/ Cardinality(Known \cup {s}) = Cardinality(Known) + 1
  BY FS_AddElement, FS_CardinalityType DEF StoreInv
<1>4. ASSUME backend = "memory"
      PROVE  Cardinality(Known \cup {s}) <= MaxSessions + 1
  BY <1>3, <1>4 DEF StoreInv, StoreTypeOK
<1>5. ASSUME backend = "memory", NEW t \in Known \cup {s}, NEW w \in Known \cup {s},
             <<t, w>> \in MoveToEnd(s)
      PROVE  StoredWith(s, h)[w].age <= StoredWith(s, h)[t].age
  <2>1. IsOrder(Known, older) /\ Agree(entries, older)
    BY <1>5 DEF StoreInv
  <2>2. StoredWith(s, h)[t].age \in Nat /\ StoredWith(s, h)[s].age = 0
    BY <1>2 DEF Entry
  <2>3. CASE w = s
    BY <2>2, <2>3
  <2>4. CASE w # s
    <3>1. t # s /\ <<t, w>> \in older
      BY <1>5, <2>1, <2>4, OrderMoved
    <3>2. StoredWith(s, h)[w] = entries[w] /\ StoredWith(s, h)[t] = entries[t]
      BY <1>2, <2>4, <3>1
    <3> QED BY <2>1, <2>4, <3>1, <3>2 DEF Agree, Known
  <2> QED BY <2>3, <2>4
<1>6. DOMAIN StoredWith(s, h) = Known \cup {s}
  BY <1>2
<1> QED BY <1>2, <1>3, <1>4, <1>5, <1>6 DEF Agree

(* The entries that stay, in memory, are those that are unexpired, but for   *)
(* one when they are too many: the one before all others.                    *)
LEMMA EvictionKeeps ==
    ASSUME StoreInv, backend = "memory", NEW s \in Sessions, NEW h \in Histories,
           NEW kept, kept = Kept(StoredWith(s, h), MoveToEnd(s))
    PROVE  /\ kept \subseteq Known \cup {s}
           /\ s \in kept
           /\ IsFiniteSet(kept) /\ Cardinality(kept) <= MaxSessions
           /\ IsOrder(kept, MoveToEnd(s) \cap (kept \X kept))
           /\ \A t \in Known \ {s} :
                 t \notin kept =>
                   \/ entries[t].age > TTL
                   \/ /\ Cardinality(kept) = MaxSessions
                      /\ \A w \in kept : <<t, w>> \in MoveToEnd(s)
<1> DEFINE K == Known \cup {s}
           es == StoredWith(s, h)
           r == MoveToEnd(s)
           F == Unexpired(es)
           q == r \cap (F \X F)
<1>1. IsOrder(Known, older)
  BY DEF StoreInv
<1>2. /\ IsOrder(K, r)
      /\ \A t \in Known \ {s} : <<t, s>> \in r
  BY <1>1, OrderMoved
<1>3. /\ es \in [K -> Entry] /\ es[s].age = 0
      /\ \A t \in Known \ {s} : es[t] = entries[t]
      /\ IsFiniteSet(K) /\ Cardinality(K) <= MaxSessions + 1
  <2>1. es[s] = [messages |-> h, age |-> 0]
    BY StoredWithEntries
  <2>2. es[s].age = 0
    BY <2>1
  <2> QED BY <2>2, StoredWithEntries
<1>4. F \in SUBSET K /\ s \in F
  BY <1>3 DEF Unexpired
<1>5. /\ IsFiniteSet(F) /\ Cardinality(F) <= Cardinality(K)
      /\ Cardinality(F) \in Nat /\ Cardinality(K) \in Nat
  BY <1>3, <1>4, FS_Subset, FS_CardinalityType
<1>6. Cardinality(F) <= MaxSessions + 1
  BY <1>3, <1>5
<1>7. IsOrder(F, q)
  BY <1>2, <1>4, OrderRestricted
<1>8. \A t \in F : After(F, q, t) = {w \in F : <<t, w>> \in r}
  BY DEF After
<1>9. kept = {t \in F : Cardinality(After(F, q, t)) < MaxSessions}
  BY <1>8 DEF Kept
<1> HIDE DEF q
<1>10. kept \in SUBSET F /\ \A t \in kept : Cardinality(After(F, q, t)) < MaxSessions
  BY <1>9
<1>11. IsFiniteSet(kept) /\ Cardinality(kept) <= MaxSessions
  BY <1>5, <1>7, <1>10, KeptFits
<1>12. s \in kept
  <2>1. ASSUME NEW w \in F, <<s, w>> \in q
        PROVE  FALSE
    <3>1. w # s
      BY <1>4, <1>7, <2>1 DEF IsOrder
    <3>2. <<s, w>> \in r /\ <<w, s>> \in r
      BY <1>2, <1>4, <2>1, <3>1 DEF q
    <3> QED BY <1>2, <1>4, <3>2 DEF IsOrder
  <2>2. After(F, q, s) = {}
    BY <2>1 DEF After
  <2>3. Cardinality(After(F, q, s)) = 0
    BY <2>2, FS_EmptySet
  <2> QED BY <1>4, <1>9, <2>3
<1>13. IsOrder(kept, r \cap (kept \X kept))
  BY <1>2, <1>4, <1>10, OrderRestricted
<1>14. ASSUME NEW t \in Known \ {s}, t \notin kept, t \in F
       PROVE  /\ Cardinality(kept) = MaxSessions
              /\ \A w \in kept : <<t, w>> \in r
  <2>1. ~ Cardinality(After(F, q, t)) < MaxSessions
    BY <1>9, <1>14
  <2>2. /\ Cardinality(F \ {t}) = MaxSessions
        /\ \A w \in F \ {t} : <<t, w>> \in q /\ Cardinality(After(F, q, w)) < MaxSessions
    BY <1>5, <1>6, <1>7, <1>14, <2>1, CrowdedOut
  <2>3. kept = F \ {t}
    BY <1>9, <1>14, <2>2
  <2> QED BY <2>2, <2>3 DEF q
<1>15. ASSUME NEW t \in Known \ {s}, t \notin F
       PROVE  entries[t].age > TTL
  <2>1. DOMAIN es = K
    BY <1>3
  <2>2. ~ es[t].age <= TTL
    BY <1>15, <2>1 DEF Unexpired
  <2>3. entries[t].age \in Nat
    BY <1>15 DEF StoreInv, StoreTypeOK, Entry
  <2> QED BY <1>3, <2>2, <2>3
<1> QED BY <1>4, <1>10, <1>11, <1>12, <1>13, <1>14, <1>15


(* A save stores its session, evictions included, and changes no other one   *)
(* but by forgetting it.                                                     *)
LEMMA SaveStep ==
    ASSUME StoreInv, NEW s \in Sessions, NEW h \in Histories, Save(s, h)
    PROVE  /\ StoreInv'
           /\ Stored(s)' = h
           /\ \A t \in Sessions \ {s} : Stored(t)' \in {Stored(t), NoHistory}
           /\ lastSaved' = [lastSaved EXCEPT ![s] = h]
           /\ LosesOldest
<1> DEFINE es == StoredWith(s, h)
           kept == Kept(es, MoveToEnd(s))
<1>1. /\ es \in [Known \cup {s} -> Entry]
      /\ \A t \in Known \ {s} : es[t] = entries[t]
      /\ es[s] = [messages |-> h, age |-> 0]
      /\ Known \cup {s} \subseteq Sessions
      /\ IsFiniteSet(Known \cup {s})
  BY StoredWithEntries
<1>2. es[s].messages = h /\ es[s].age = 0
  BY <1>1
<1>3. /\ backend' = backend
      /\ lastSaved' = [lastSaved EXCEPT ![s] = h]
      /\ lastSaved' \in [Sessions -> Histories \cup {NoHistory}]
  BY DEF Save, StoreInv, StoreTypeOK
<1>4. CASE backend = "memory"
  <2>1. /\ kept \subseteq Known \cup {s}
        /\ s \in kept
        /\ IsFiniteSet(kept) /\ Cardinality(kept) <= MaxSessions
        /\ IsOrder(kept, MoveToEnd(s) \cap (kept \X kept))
        /\ \A t \in Known \ {s} :
              t \notin kept =>
                \/ entries[t].age > TTL
                \/ /\ Cardinality(kept) = MaxSessions
                   /\ \A w \in kept : <<t, w>> \in MoveToEnd(s)
    BY <1>4, EvictionKeeps
  <2>2. entries' = Restrict(es, kept) /\ older' = MoveToEnd(s) \cap (kept \X kept)
    BY <1>4 DEF Save, StoredWith
  <2>3. Agree(es, MoveToEnd(s)) /\ DOMAIN es = Known \cup {s}
    BY <1>1, <1>4, StoredWithEntries
  <2> HIDE DEF es, kept
  <2>4. Known' = kept /\ \A t \in kept : entries'[t] = es[t]
    BY <2>2 DEF Known, Restrict
  <2>5. entries' \in [kept -> Entry]
    BY <1>1, <2>1, <2>2 DEF Restrict
  <2>6. StoreTypeOK'
    <3>1. older' \subseteq kept \X kept
      BY <2>2
    <3>2. Known' \subseteq Sessions
      BY <1>1, <2>1, <2>4
    <3> QED BY <1>3, <1>4, <2>1, <2>4, <2>5, <3>1, <3>2 DEF StoreTypeOK
  <2>7. Agree(entries, older)'
    BY <2>1, <2>2, <2>3, <2>4 DEF Agree, Known
  <2>8. StoreInv'
    BY <1>3, <1>4, <2>1, <2>2, <2>4, <2>6, <2>7 DEF StoreInv
  <2>9. Stored(s)' = h
    BY <1>2, <2>1, <2>4 DEF Stored
  <2>10. \A t \in Sessions \ {s} : Stored(t)' = IF t \in kept THEN Stored(t) ELSE NoHistory
    BY <1>1, <2>1, <2>4 DEF Stored
  <2>11. ASSUME NEW t \in Known, Stored(t)' = NoHistory
         PROVE  \/ entries[t].age > TTL
                \/ Cardinality({w \in Known' : entries'[w].age <= entries[t].age}) = MaxSessions
    <3>1. t # s
      BY <2>9, <2>11 DEF Histories
    <3>2. Stored(t) # NoHistory
      BY <2>11 DEF StoreInv, StoreTypeOK, Stored, Entry, Histories
    <3>3. t \in Sessions /\ t \notin kept
      BY <1>1, <2>10, <2>11, <3>1, <3>2
    <3>4. CASE entries[t].age > TTL
      BY <3>4
    <3>5. CASE /\ Cardinality(kept) = MaxSessions
               /\ \A w \in kept : <<t, w>> \in MoveToEnd(s)
      <4>1. \A w \in kept : entries'[w].age <= entries[t].age
        BY <1>1, <2>1, <2>3, <2>4, <3>1, <3>5 DEF Agree
      <4>2. {w \in Known' : entries'[w].age <= entries[t].age} = kept
        BY <2>4, <4>1
      <4> QED BY <3>5, <4>2
    <3> QED BY <2>1, <3>1, <3>3, <3>4, <3>5
  <2>12. LosesOldest
    BY <1>4, <2>11 DEF LosesOldest
  <2> QED BY <1>3, <2>8, <2>9, <2>10, <2>12
<1>5. CASE backend = "redis"
  <2>1. entries' = es /\ older' = older
    BY <1>5 DEF Save, StoredWith
  <2> HIDE DEF es, kept
  <2>2. Known' = Known \cup {s}
    BY <1>1, <2>1 DEF Known
  <2>3. StoreTypeOK'
    BY <1>1, <1>3, <1>5, <2>1, <2>2 DEF StoreInv, StoreTypeOK
  <2>4. \A t \in Known' : entries'[t].age < TTL
    BY <1>1, <1>2, <1>5, <2>1, <2>2 DEF StoreInv
  <2>5. StoreInv'
    BY <1>1, <1>3, <1>5, <2>1, <2>2, <2>3, <2>4 DEF StoreInv
  <2>6. Stored(s)' = h
    BY <1>2, <2>1, <2>2 DEF Stored
  <2>7. \A t \in Sessions \ {s} : Stored(t)' = Stored(t)
    BY <1>1, <2>1, <2>2 DEF Stored
  <2>8. \A t \in Known : Stored(t)' # NoHistory
    BY <1>1, <2>3, <2>2 DEF StoreTypeOK, Stored, Entry, Histories
  <2>9. LosesOldest
    BY <2>8 DEF LosesOldest
  <2> QED BY <1>3, <2>5, <2>6, <2>7, <2>9
<1> QED BY <1>4, <1>5 DEF StoreInv, StoreTypeOK

(* Time only forgets, in Redis, what is TTL old.                             *)
LEMMA TickStep ==
    ASSUME StoreInv, Tick
    PROVE  /\ StoreInv'
           /\ \A t \in Sessions : Stored(t)' \in {Stored(t), NoHistory}
           /\ lastSaved' = lastSaved
           /\ LosesOldest
<1> DEFINE left == IF backend = "memory" THEN Known
                   ELSE {s \in Known : Aged(entries[s]).age < TTL}
<1>1. /\ entries' = [s \in left |-> Aged(entries[s])]
      /\ UNCHANGED <<backend, older, lastSaved>>
  BY DEF Tick
<1>2. ASSUME NEW e \in Entry
      PROVE  /\ Aged(e) \in Entry
             /\ Aged(e).messages = e.messages
             /\ Aged(e).age = IF e.age > TTL THEN e.age ELSE e.age + 1
             /\ e.age \in 0..TTL + 1
  <2> DEFINE a == IF e.age > TTL THEN e.age ELSE e.age + 1
  <2>1. a \in 0..TTL + 1 /\ e.age \in 0..TTL + 1
    BY DEF Entry
  <2>2. Aged(e) = [e EXCEPT !.age = a]
    BY DEF Aged
  <2> HIDE DEF a
  <2>3. Aged(e) \in Entry /\ Aged(e).messages = e.messages /\ Aged(e).age = a
    BY <2>1, <2>2 DEF Entry
  <2> QED BY <2>1, <2>3 DEF a
<1>3. left \subseteq Known /\ Known' = left /\ \A s \in left : entries'[s] = Aged(entries[s])
  BY <1>1 DEF Known
<1>4. \A s \in Known : entries[s] \in Entry
  BY DEF StoreInv, StoreTypeOK
<1>5. entries' \in [left -> Entry]
  BY <1>1, <1>2, <1>3, <1>4
<1>6. IsFiniteSet(left)
  BY <1>3, FS_Subset DEF StoreInv
<1>7. backend = "memory" => left = Known
  OBVIOUS
<1>8. backend = "redis" =>
        \A s \in Known : s \in left <=> Aged(entries[s]).age < TTL
  OBVIOUS
<1> HIDE DEF left
<1>9. backend = "memory" => Agree(entries, older)'
  <2> SUFFICES ASSUME backend = "memory", NEW s \in Known, NEW t \in Known, <<s, t>> \in older
               PROVE  entries'[t].age <= entries'[s].age
    BY <1>1, <1>3, <1>7 DEF Agree, Known
  <2>1. entries[t].age <= entries[s].age
    BY DEF StoreInv, Agree, Known
  <2>2. /\ entries[t].age \in 0..TTL + 1 /\ entries[s].age \in 0..TTL + 1
        /\ entries'[t].age = IF entries[t].age > TTL THEN entries[t].age ELSE entries[t].age + 1
        /\ entries'[s].age = IF entries[s].age > TTL THEN entries[s].age ELSE entries[s].age + 1
    BY <1>2, <1>3, <1>4, <1>7
  <2> QED BY <2>1, <2>2
<1>10. StoreTypeOK'
  BY <1>1, <1>3, <1>5, <1>7 DEF StoreInv, StoreTypeOK
<1>11. StoreInv'
  BY <1>1, <1>3, <1>6, <1>7, <1>8, <1>9, <1>10 DEF StoreInv
<1>12. \A t \in Sessions : Stored(t)' = IF t \in left THEN Stored(t) ELSE NoHistory
  BY <1>2, <1>3, <1>4 DEF Stored
<1>13. ASSUME NEW t \in Known, Stored(t)' = NoHistory
       PROVE  backend = "redis" /\ entries[t].age = TTL - 1
  <2>1. Stored(t) # NoHistory /\ t \in Sessions
    BY <1>13 DEF StoreInv, StoreTypeOK, Stored, Entry, Histories
  <2>2. t \notin left
    BY <1>12, <1>13, <2>1
  <2>3. backend = "redis" /\ ~ Aged(entries[t]).age < TTL /\ entries[t].age < TTL
    BY <1>7, <1>8, <1>13, <2>2 DEF StoreInv, StoreTypeOK
  <2>4. /\ entries[t].age \in 0..TTL + 1
        /\ Aged(entries[t]).age = IF entries[t].age > TTL THEN entries[t].age ELSE entries[t].age + 1
    BY <1>2, <1>4, <1>13
  <2> QED BY <2>3, <2>4
<1>14. LosesOldest
  BY <1>13 DEF LosesOldest
<1> QED BY <1>1, <1>11, <1>12, <1>14

(* The memory of a process goes with it.                                     *)
LEMMA RestartStep ==
    ASSUME StoreInv, StoreRestart
    PROVE  /\ StoreInv'
           /\ \A t \in Sessions : Stored(t)' \in {Stored(t), NoHistory}
           /\ lastSaved' = lastSaved
           /\ LosesOldest
<1>1. CASE backend = "memory"
  <2>1. Known' = {} /\ older' = {} /\ UNCHANGED <<backend, lastSaved>>
    BY <1>1 DEF StoreRestart, Restrict, Known
  <2>2. IsFiniteSet({}) /\ Cardinality({}) = 0
    BY FS_EmptySet
  <2>3. entries' \in [Known' -> Entry]
    BY <1>1, <2>1 DEF StoreRestart, Restrict
  <2>4. StoreTypeOK'
    BY <1>1, <2>1, <2>2, <2>3 DEF StoreInv, StoreTypeOK
  <2>5. IsOrder({}, {}) /\ Agree(entries, older)'
    BY <2>1 DEF IsOrder, Agree, Known
  <2>6. StoreInv'
    BY <1>1, <2>1, <2>2, <2>4, <2>5 DEF StoreInv
  <2> QED BY <1>1, <2>1, <2>6 DEF Stored, LosesOldest
<1>2. CASE backend = "redis"
  <2>1. UNCHANGED <<storeVars, Known>>
    BY <1>2 DEF StoreRestart, storeVars, Known
  <2>2. \A t \in Known : Stored(t) # NoHistory
    BY DEF StoreInv, StoreTypeOK, Stored, Entry, Histories
  <2> QED BY <2>1, <2>2
      DEF storeVars, StoreInv, StoreTypeOK, Stored, Agree, LosesOldest
<1> QED BY <1>1, <1>2 DEF StoreInv, StoreTypeOK


-----------------------------------------------------------------------------
(* What tabs and turns know of each other.                                   *)

\* While a reply is awaited its message is on the screen, the last one sent;
\* a session that a tab knows has been saved, and is no other user's.
TabInv(u) ==
    /\ run[u] # "idle" => sent[u] \in Range(screen[u])
    /\ \A n \in Range(screen[u]) : n <= sent[u]
    /\ sid[u] \in Sessions => lastSaved[sid[u]] # NoHistory /\ sid[u] \notin Foreign

\* The tab of p waits for it.
Awaited(p) == run[p[1]] # "idle" /\ p = Current(p[1])

\* Requests are posted in order; one that has not been begun is the one its
\* tab waits for, in the session of the tab, or was left; a reply that has not
\* been read is waited for; a turn at work has a session and a history.
PostInv(p) ==
    LET u == p[1]
        t == turn[p]
    IN /\ t.stage = "none" \/ p[2] < sent[u] \/ (p[2] = sent[u] /\ p[3] <= attempt[u])
       /\ t.stage = "replied" => Awaited(p)
       /\ t.stage = "posted" => IF Awaited(p) THEN t.session = sid[u] ELSE p[2] \in late[u]
       /\ t.stage \in {"none", "over"} => t.session = NoSession
       /\ t.stage \in {"working", "streaming", "replied"} => t.session \in Sessions
       /\ t.session \in Sessions => t.session \notin Foreign
       /\ t.stage \in {"posted", "replied"} /\ t.session \in Sessions
             => lastSaved[t.session] # NoHistory
       /\ IF t.stage \in {"working", "streaming"} THEN t.hist # NoHistory ELSE t.hist = NoHistory

TurnInv ==
    /\ StoreInv
    /\ TypeOK
    /\ \A u \in Tabs : TabInv(u)
    /\ \A p \in Posts : PostInv(p)

\* Tab u knows session s, or one of its turns does.
Uses(u, s) == sid[u] = s \/ \E p \in Posts : p[1] = u /\ turn[p].session = s

\* A session has one tab.
OneOwner == \A s \in Sessions, u, v \in Tabs : Uses(u, s) /\ Uses(v, s) => u = v

\* Tab u goes on with session s, or will when its reply is read.
Live(u, s) == sid[u] = s \/ (run[u] # "idle" /\ turn[Current(u)].session = s)

\* The posts of message n of tab u that have been begun, or never will be.
Begun(u, n) == {a \in {1, 2} : turn[<<u, n, a>>].stage \notin {"none", "posted"}}

\* h has only messages of u with numbers from shown, none more often than
\* count has it, and in order but for those of left.
Shown(u, h, shown, count, left) ==
    /\ \A i \in DOMAIN h :
          h[i].tab = u /\ h[i].n \in shown /\ Times(h, h[i].n) <= count[h[i].n]
    /\ \A i, j \in DOMAIN h : i < j => h[i].n <= h[j].n \/ h[j].n \in left

Counts(u) == [n \in 1..MaxMessages |-> Cardinality(Begun(u, n))]

OnScreen(u, h) == Shown(u, h, Range(screen[u]), Counts(u), late[u])

\* What stands in a live session, what turns at work will save there, and what
\* requests will bring to it.
LiveOnScreen ==
    \A u \in Tabs, s \in Sessions :
        Live(u, s) =>
          /\ OnScreen(u, Stored(s))
          /\ \A p \in Posts : turn[p].session = s =>
                /\ OnScreen(u, turn[p].hist)
                /\ turn[p].stage = "posted" /\ p[1] = u => p[2] \in Range(screen[u])

USE ConversationConstants

LEMMA TurnRecords ==
    /\ NoTurn \in Turn /\ Over \in Turn
    /\ \A s \in Sessions \cup {NoSession} : Posted(s) \in Turn
<1>1. <<>> \in Seq(Messages)
  OBVIOUS
<1> QED BY <1>1 DEF NoTurn, Over, Posted, Turn, Stages

(* A tab that waits has posted, and so has one that shows a message.         *)
LEMMA CurrentPost ==
    ASSUME TurnInv, NEW u \in Tabs, run[u] # "idle" \/ screen[u] # <<>>
    PROVE  /\ Current(u) \in Posts
           /\ Current(u)[1] = u /\ Current(u)[2] = sent[u] /\ Current(u)[3] = attempt[u]
<1>1. TypeOK /\ TabInv(u)
  BY DEF TurnInv
<1>2. /\ screen[u] \in Seq(1..MaxMessages) /\ sent[u] \in 0..MaxMessages
      /\ attempt[u] \in {1, 2}
  BY <1>1 DEF TypeOK
<1>3. PICK n \in 1..MaxMessages : n <= sent[u]
  <2>1. CASE run[u] # "idle"
    <3>1. sent[u] \in Range(screen[u])
      BY <1>1, <2>1 DEF TabInv
    <3>2. sent[u] \in 1..MaxMessages
      BY <1>2, <3>1 DEF Range
    <3> QED BY <3>2
  <2>2. CASE screen[u] # <<>>
    <3>1. 1 \in DOMAIN screen[u] /\ screen[u][1] \in 1..MaxMessages
      BY <1>2, <2>2
    <3>2. screen[u][1] <= sent[u]
      BY <1>1, <3>1 DEF TabInv, Range
    <3> QED BY <3>1, <3>2
  <2> QED BY <2>1, <2>2
<1>4. sent[u] \in 1..MaxMessages
  BY <1>2, <1>3
<1> QED BY <1>2, <1>4 DEF Current, Posts

(* A turn that a step leaves alone is related to its tab as it was.          *)
LEMMA SamePost ==
    ASSUME TypeOK, TypeOK', NEW p \in Posts, PostInv(p), turn'[p] = turn[p],
           sent'[p[1]] = sent[p[1]], attempt'[p[1]] >= attempt[p[1]],
           turn[p].stage = "replied" => Awaited(p)',
           turn[p].stage = "posted" =>
             \/ Awaited(p) /\ Awaited(p)' /\ sid'[p[1]] = sid[p[1]]
             \/ ~Awaited(p)' /\ p[2] \in late'[p[1]],
           \A s \in Sessions : lastSaved[s] # NoHistory => lastSaved'[s] # NoHistory
    PROVE  PostInv(p)'
<1>1. p[1] \in Tabs /\ p[2] \in Int /\ p[3] \in Int
  BY DEF Posts
<1>2. attempt[p[1]] \in Int /\ attempt'[p[1]] \in Int /\ sent[p[1]] \in Int
  BY <1>1 DEF TypeOK
<1> QED BY <1>1, <1>2 DEF PostInv

(* All the more so where its tab is left alone too.                          *)
LEMMA SameTabPost ==
    ASSUME TypeOK, TypeOK', NEW p \in Posts, PostInv(p), turn'[p] = turn[p],
           sent'[p[1]] = sent[p[1]], attempt'[p[1]] = attempt[p[1]],
           sid'[p[1]] = sid[p[1]], late'[p[1]] = late[p[1]],
           run'[p[1]] # "idle" <=> run[p[1]] # "idle",
           \A s \in Sessions : lastSaved[s] # NoHistory => lastSaved'[s] # NoHistory
    PROVE  PostInv(p)'
<1>1. attempt[p[1]] \in Int
  BY DEF Posts, TypeOK
<1>2. Awaited(p)' <=> Awaited(p)
  BY DEF Awaited, Current
<1>3. /\ turn[p].stage = "replied" => Awaited(p)'
      /\ turn[p].stage = "posted" =>
           \/ Awaited(p) /\ Awaited(p)' /\ sid'[p[1]] = sid[p[1]]
           \/ ~Awaited(p)' /\ p[2] \in late'[p[1]]
  BY <1>2 DEF PostInv
<1> QED BY <1>1, <1>3, SamePost

(* So is one that is over.                                                   *)
LEMMA OverPost ==
    ASSUME TypeOK, TypeOK', NEW p \in Posts, PostInv(p), turn[p].stage # "none",
           turn'[p] = Over,
           sent'[p[1]] = sent[p[1]], attempt'[p[1]] >= attempt[p[1]]
    PROVE  PostInv(p)'
<1>1. p[1] \in Tabs /\ p[2] \in Int /\ p[3] \in Int
  BY DEF Posts
<1>2. /\ attempt[p[1]] \in Int /\ attempt'[p[1]] \in Int /\ sent[p[1]] \in Int
      /\ NoSession \notin Sessions
  BY <1>1 DEF TypeOK
<1>3. Over.stage = "over" /\ Over.session = NoSession /\ Over.hist = NoHistory
  BY DEF Over, NoHistory
<1> QED BY <1>1, <1>2, <1>3 DEF PostInv


(* The post that its tab has just made.                                      *)
LEMMA NewPost ==
    ASSUME NEW p \in Posts, turn'[p] = Posted(sid'[p[1]]), run'[p[1]] # "idle",
           p[2] = sent'[p[1]], p[3] = attempt'[p[1]], TabInv(p[1])'
    PROVE  PostInv(p)'
<1>1. /\ turn'[p].stage = "posted" /\ turn'[p].session = sid'[p[1]]
      /\ turn'[p].hist = NoHistory
  BY DEF Posted, NoHistory
<1>2. p = <<p[1], sent'[p[1]], attempt'[p[1]]>> /\ p[3] \in {1, 2}
  BY DEF Posts
<1> HIDE DEF NoHistory
<1> QED BY <1>1, <1>2 DEF PostInv, Awaited, Current, TabInv

LEMMA StoreSame ==
    ASSUME StoreInv, UNCHANGED storeVars
    PROVE  StoreInv'
BY DEF StoreInv, StoreTypeOK, storeVars, Known, Agree

(* A connection that ends leaves its tab without a reply; a request stays on *)
(* its way.                                                                  *)
LEMMA Disconnected ==
    ASSUME TurnInv, NEW u \in Tabs, run[u] # "idle" \/ screen[u] # <<>>,
           Disconnect(u)
    PROVE  /\ turn' \in [Posts -> Turn]
           /\ \A p \in Posts : \/ turn'[p] = turn[p]
                               \/ turn'[p] = Over /\ turn[p].stage # "none" /\ p[1] = u
           /\ \A p \in Posts : p[1] = u =>
                 /\ turn'[p].stage # "replied"
                 /\ turn'[p].stage = "posted" => p[2] \in late'[u]
           /\ late' \in [Tabs -> SUBSET (1..MaxMessages)] /\ late[u] \subseteq late'[u]
           /\ \A v \in Tabs \ {u} : late'[v] = late[v]
<1> DEFINE c == Current(u)
<1>1. c \in Posts /\ c[1] = u /\ c[2] = sent[u] /\ sent[u] \in 1..MaxMessages
  BY CurrentPost DEF Posts
<1>2. /\ turn \in [Posts -> Turn] /\ turn' = [turn EXCEPT ![c] = Dropped(c)]
      /\ late \in [Tabs -> SUBSET (1..MaxMessages)]
      /\ late' = IF turn[c].stage = "posted"
                 THEN [late EXCEPT ![u] = late[u] \cup {sent[u]}] ELSE late
  BY DEF TurnInv, TypeOK, Disconnect, Leave
<1>3. Over \in Turn /\ Over.stage = "over"
  BY TurnRecords DEF Over
<1>4. /\ Dropped(c) \in Turn
      /\ Dropped(c).stage # "replied"
      /\ \/ Dropped(c) = turn[c]
         \/ Dropped(c) = Over /\ turn[c].stage = "replied"
  BY <1>1, <1>2, <1>3 DEF Dropped
<1>5. ASSUME NEW p \in Posts, p[1] = u, p # c
      PROVE  turn[p].stage # "replied" /\ (turn[p].stage = "posted" => p[2] \in late[u])
  BY <1>5 DEF TurnInv, PostInv, Awaited
<1> HIDE DEF c
<1>6. /\ late' \in [Tabs -> SUBSET (1..MaxMessages)] /\ late[u] \subseteq late'[u]
      /\ \A v \in Tabs \ {u} : late'[v] = late[v]
      /\ turn[c].stage = "posted" => sent[u] \in late'[u]
  BY <1>1, <1>2
<1> QED BY <1>1, <1>2, <1>3, <1>4, <1>5, <1>6

LEMMA AppendRange ==
    ASSUME NEW S, NEW q \in Seq(S), NEW e \in S
    PROVE  /\ Append(q, e) \in Seq(S)
           /\ Range(Append(q, e)) = Range(q) \cup {e}
<1> DEFINE r == Append(q, e)
<1>1. /\ r \in Seq(S) /\ Len(q) \in Nat
      /\ DOMAIN r = 1..Len(q) + 1 /\ DOMAIN q = 1..Len(q)
      /\ \A i \in 1..Len(q) : r[i] = q[i]
      /\ r[Len(q) + 1] = e
  OBVIOUS
<1> HIDE DEF r
<1>2. ASSUME NEW x \in Range(r)
      PROVE  x \in Range(q) \cup {e}
  <2>1. PICK i \in 1..Len(q) + 1 : x = r[i]
    BY <1>1 DEF Range
  <2>2. i = Len(q) + 1 \/ i \in 1..Len(q)
    BY <1>1
  <2> QED BY <1>1, <2>1, <2>2 DEF Range
<1>3. ASSUME NEW x \in Range(q) \cup {e}
      PROVE  x \in Range(r)
  <2>1. CASE x = e
    <3>1. Len(q) + 1 \in DOMAIN r
      BY <1>1
    <3> QED BY <1>1, <2>1, <3>1 DEF Range
  <2>2. CASE x \in Range(q)
    <3>1. PICK i \in DOMAIN q : x = q[i]
      BY <2>2 DEF Range
    <3>2. i \in DOMAIN r /\ x = r[i]
      BY <1>1, <3>1
    <3> QED BY <3>2 DEF Range
  <2> QED BY <2>1, <2>2
<1> QED BY <1>1, <1>2, <1>3 DEF r

(* A step of one tab does not disturb the others.                            *)
LEMMA OtherTabs ==
    ASSUME TurnInv, StoreInv', TypeOK', NEW u \in Tabs, lastSaved' = lastSaved,
           \A v \in Tabs \ {u} :
              /\ screen'[v] = screen[v] /\ sid'[v] = sid[v] /\ run'[v] = run[v]
              /\ sent'[v] = sent[v] /\ attempt'[v] = attempt[v] /\ late'[v] = late[v],
           \A p \in Posts : p[1] # u => turn'[p] = turn[p],
           TabInv(u)',
           \A p \in Posts : p[1] = u => PostInv(p)'
    PROVE  TurnInv'
<1>1. ASSUME NEW v \in Tabs, v # u
      PROVE  TabInv(v)'
  BY <1>1 DEF TurnInv, TabInv
<1>2. ASSUME NEW p \in Posts, p[1] # u
      PROVE  PostInv(p)'
  <2>1. p[1] \in Tabs \ {u} /\ TypeOK /\ PostInv(p)
    BY <1>2 DEF Posts, TurnInv
  <2> QED BY <1>2, <2>1, SameTabPost
<1> QED BY <1>1, <1>2 DEF TurnInv

(* Sending: nothing of the tab is pending, and the post is the next one.     *)
LEMMA SendKeeps ==
    ASSUME TurnInv, NEW u \in Tabs, Send(u)
    PROVE  TurnInv'
<1> DEFINE n == sent[u] + 1
           c == <<u, n, 1>>
<1>1. TypeOK /\ StoreInv /\ TabInv(u)
  BY DEF TurnInv
<1>2. n \in 1..MaxMessages /\ sent[u] \in Nat /\ n > sent[u]
  BY <1>1 DEF TypeOK, Send
<1>3. c \in Posts
  BY <1>2 DEF Posts
<1>4. StoreInv'
  BY <1>1, StoreSame DEF Send
<1>5. /\ screen[u] \in Seq(1..MaxMessages)
      /\ screen' = [screen EXCEPT ![u] = Append(screen[u], n)]
  BY <1>1 DEF TypeOK, Send
<1>6. /\ Append(screen[u], n) \in Seq(1..MaxMessages)
      /\ Range(Append(screen[u], n)) = Range(screen[u]) \cup {n}
  BY <1>2, <1>5, AppendRange
<1>7. sid[u] \in Sessions \cup {NoSession} /\ Posted(sid[u]) \in Turn
  BY <1>1, TurnRecords DEF TypeOK
<1>8. /\ turn' = [turn EXCEPT ![c] = Posted(sid[u])]
      /\ sent' = [sent EXCEPT ![u] = n] /\ attempt' = [attempt EXCEPT ![u] = 1]
      /\ run' = [run EXCEPT ![u] = "waiting"] /\ sid' = sid /\ late' = late
      /\ lastSaved' = lastSaved
      /\ run[u] = "idle"
  BY DEF Send, storeVars
<1>9. /\ sent' \in [Tabs -> 0..MaxMessages] /\ attempt' \in [Tabs -> {1, 2}]
      /\ run' \in [Tabs -> {"idle", "waiting", "reading"}]
      /\ screen' \in [Tabs -> Seq(1..MaxMessages)]
      /\ turn' \in [Posts -> Turn]
      /\ sid' \in [Tabs -> Sessions \cup {NoSession}]
      /\ late' \in [Tabs -> SUBSET (1..MaxMessages)]
  BY <1>1, <1>2, <1>3, <1>5, <1>6, <1>7, <1>8 DEF TypeOK
<1>10. TypeOK'
  BY <1>4, <1>9 DEF TypeOK, StoreInv
<1>11. /\ screen'[u] = Append(screen[u], n) /\ sent'[u] = n /\ attempt'[u] = 1
       /\ run'[u] = "waiting" /\ turn'[c] = Posted(sid[u])
       /\ \A v \in Tabs \ {u} : /\ screen'[v] = screen[v] /\ sent'[v] = sent[v]
                                /\ attempt'[v] = attempt[v] /\ run'[v] = run[v]
       /\ \A p \in Posts \ {c} : turn'[p] = turn[p]
  BY <1>1, <1>3, <1>5, <1>8 DEF TypeOK
<1>12. TabInv(u)'
  <2>1. \A m \in Range(screen[u]) : m <= sent[u] /\ m \in Int
    BY <1>1, <1>5 DEF TabInv, Range
  <2>2. \A m \in Range(screen[u]) \cup {n} : m <= n
    BY <1>2, <2>1
  <2> QED BY <1>1, <1>6, <1>8, <1>11, <2>2 DEF TabInv
<1>13. ASSUME NEW p \in Posts, p[1] = u
       PROVE  PostInv(p)'
  <2>1. PostInv(p) /\ p[1] \in Tabs /\ p[2] \in Int /\ p[3] \in {1, 2}
    BY DEF TurnInv, Posts
  <2>2. CASE p = c
    <3>1. /\ turn'[p] = Posted(sid'[p[1]]) /\ run'[p[1]] # "idle"
          /\ p[2] = sent'[p[1]] /\ p[3] = attempt'[p[1]] /\ TabInv(p[1])'
      BY <1>8, <1>11, <1>12, <1>13, <2>2
    <3> QED BY <3>1, NewPost
  <2>3. CASE p # c
    <3>1. /\ turn'[p] = turn[p] /\ turn[p].stage # "replied"
          /\ turn[p].stage = "posted" => p[2] \in late'[u]
      BY <1>8, <1>11, <1>13, <2>1, <2>3 DEF PostInv, Awaited
    <3>2. turn[p].stage = "none" \/ p[2] < n
      BY <1>2, <1>13, <2>1 DEF PostInv
    <3>3. ~Awaited(p)'
      BY <1>11, <1>13, <2>3 DEF Awaited, Current
    <3> QED BY <1>8, <1>11, <1>13, <2>1, <3>1, <3>2, <3>3 DEF PostInv
  <2> QED BY <2>2, <2>3
<1> QED BY <1>4, <1>8, <1>10, <1>11, <1>12, <1>13, OtherTabs

(* Reading tells the tab that its reply has begun.                           *)
LEMMA ReadChunkKeeps ==
    ASSUME TurnInv, NEW u \in Tabs, ReadChunk(u)
    PROVE  TurnInv'
<1>1. /\ TypeOK /\ StoreInv /\ TabInv(u)
      /\ run' = [run EXCEPT ![u] = "reading"] /\ run[u] # "idle"
      /\ UNCHANGED <<storeVars, screen, sid, sent, attempt, turn, late>>
  BY DEF TurnInv, ReadChunk
<1>2. StoreInv' /\ lastSaved' = lastSaved
  BY <1>1, StoreSame DEF storeVars
<1>3. TypeOK'
  BY <1>1, <1>2 DEF TypeOK, StoreInv
<1>4. run'[u] # "idle" /\ \A v \in Tabs \ {u} : run'[v] = run[v]
  BY <1>1 DEF TypeOK
<1>5. TabInv(u)'
  BY <1>1, <1>2 DEF TabInv
<1>6. ASSUME NEW p \in Posts, p[1] = u
      PROVE  PostInv(p)'
  <2>1. PostInv(p)
    BY DEF TurnInv
  <2> QED BY <1>1, <1>2, <1>3, <1>4, <1>6, <2>1, SameTabPost
<1> QED BY <1>1, <1>2, <1>3, <1>4, <1>5, <1>6, OtherTabs

(* The last event makes its session, which has been saved, the tab's own.    *)
LEMMA ReadDoneKeeps ==
    ASSUME TurnInv, NEW u \in Tabs, ReadDone(u)
    PROVE  TurnInv'
<1> DEFINE c == Current(u)
           s == turn[c].session
<1>1. /\ TypeOK /\ StoreInv /\ TabInv(u)
      /\ run[u] # "idle" /\ turn[c].stage = "replied"
      /\ sid' = [sid EXCEPT ![u] = s] /\ run' = [run EXCEPT ![u] = "idle"]
      /\ turn' = [turn EXCEPT ![c] = Over]
      /\ UNCHANGED <<storeVars, screen, sent, attempt, late>>
  BY DEF TurnInv, ReadDone
<1>2. c \in Posts /\ c[1] = u
  BY <1>1, CurrentPost
<1>3. s \in Sessions \ Foreign /\ lastSaved[s] # NoHistory
  <2>1. PostInv(c)
    BY <1>2 DEF TurnInv
  <2> QED BY <1>1, <2>1 DEF PostInv
<1>4. StoreInv' /\ lastSaved' = lastSaved
  BY <1>1, StoreSame DEF storeVars
<1>5. /\ sid'[u] = s /\ run'[u] = "idle" /\ turn'[c] = Over
      /\ \A v \in Tabs \ {u} : sid'[v] = sid[v] /\ run'[v] = run[v]
      /\ \A p \in Posts \ {c} : turn'[p] = turn[p]
  BY <1>1, <1>2 DEF TypeOK
<1>6. TypeOK'
  BY <1>1, <1>2, <1>3, <1>4, TurnRecords DEF TypeOK, StoreInv
<1>7. TabInv(u)'
  BY <1>1, <1>3, <1>4, <1>5 DEF TabInv
<1>8. ASSUME NEW p \in Posts, p[1] = u
      PROVE  PostInv(p)'
  <2>1. PostInv(p) /\ attempt'[u] = attempt[u] /\ sent'[u] = sent[u] /\ attempt[u] \in Int
    BY <1>1 DEF TurnInv, TypeOK
  <2>2. CASE p = c
    BY <1>1, <1>5, <1>6, <1>8, <2>1, <2>2, OverPost
  <2>3. CASE p # c
    <3>1. /\ turn[p].stage # "replied"
          /\ turn[p].stage = "posted" => p[2] \in late'[u]
      BY <1>1, <1>8, <2>1, <2>3 DEF PostInv, Awaited
    <3>2. ~Awaited(p)'
      BY <1>5, <1>8 DEF Awaited
    <3> HIDE DEF c
    <3> QED BY <1>1, <1>4, <1>5, <1>6, <1>8, <2>1, <2>3, <3>1, <3>2, SamePost
  <2> QED BY <2>2, <2>3
<1> QED BY <1>1, <1>2, <1>4, <1>5, <1>6, <1>7, <1>8, OtherTabs

(* A second post takes the place of the first, which may still be at work.   *)
LEMMA RetryKeeps ==
    ASSUME TurnInv, NEW u \in Tabs, Retry(u)
    PROVE  TurnInv'
<1> DEFINE c == Current(u)
           d == <<u, sent[u], 2>>
<1>1. /\ TypeOK /\ StoreInv /\ TabInv(u)
      /\ run[u] # "idle" /\ attempt[u] = 1
      /\ attempt' = [attempt EXCEPT ![u] = 2]
      /\ turn' = [turn EXCEPT ![c] = Dropped(c), ![d] = Posted(sid[u])]
      /\ late' = IF turn[c].stage = "posted"
                 THEN [late EXCEPT ![u] = late[u] \cup {sent[u]}] ELSE late
      /\ UNCHANGED <<storeVars, screen, sid, run, sent>>
  BY DEF TurnInv, Retry, Leave
<1>2. /\ c \in Posts /\ c[1] = u /\ c[2] = sent[u] /\ c[3] = 1
      /\ d \in Posts /\ d[1] = u /\ d[2] = sent[u] /\ d[3] = 2 /\ c # d
  BY <1>1, CurrentPost DEF Posts
<1>3. StoreInv' /\ lastSaved' = lastSaved
  BY <1>1, StoreSame DEF storeVars
<1>4. sid[u] \in Sessions \cup {NoSession} /\ Posted(sid[u]) \in Turn /\ Over \in Turn
  BY <1>1, TurnRecords DEF TypeOK
<1>5. /\ Dropped(c) \in Turn
      /\ \/ Dropped(c) = turn[c] /\ turn[c].stage # "replied"
         \/ Dropped(c) = Over /\ turn[c].stage # "none"
  BY <1>1, <1>2, <1>4 DEF Dropped, TypeOK
<1>6. /\ late' \in [Tabs -> SUBSET (1..MaxMessages)] /\ late[u] \subseteq late'[u]
      /\ \A v \in Tabs \ {u} : late'[v] = late[v]
      /\ turn[c].stage = "posted" => sent[u] \in late'[u]
  <2>1. sent[u] \in 1..MaxMessages /\ late \in [Tabs -> SUBSET (1..MaxMessages)]
    BY <1>1, <1>2 DEF Posts, TypeOK
  <2> QED BY <1>1, <2>1
<1> HIDE DEF c, d
<1>7. /\ turn' \in [Posts -> Turn]
      /\ turn'[c] = Dropped(c) /\ turn'[d] = Posted(sid[u])
      /\ \A p \in Posts \ {c, d} : turn'[p] = turn[p]
  BY <1>1, <1>2, <1>4, <1>5 DEF TypeOK
<1>8. /\ attempt' \in [Tabs -> {1, 2}] /\ attempt'[u] = 2
      /\ \A v \in Tabs \ {u} : attempt'[v] = attempt[v]
  BY <1>1 DEF TypeOK
<1>9. TypeOK'
  BY <1>1, <1>3, <1>7, <1>8, <1>6 DEF TypeOK, StoreInv
<1>10. TabInv(u)'
  BY <1>1, <1>3 DEF TabInv
<1>11. ASSUME NEW p \in Posts, p[1] = u
       PROVE  PostInv(p)'
  <2>1. PostInv(p) /\ attempt'[u] >= attempt[u] /\ sent'[u] = sent[u]
    BY <1>1, <1>8 DEF TurnInv
  <2>2. CASE p = d
    <3>1. turn'[p] = Posted(sid'[u]) /\ run'[u] # "idle" /\ p[2] = sent'[u] /\ p[3] = attempt'[u]
      BY <1>1, <1>2, <1>7, <1>8, <2>2
    <3> QED BY <1>10, <1>11, <3>1, NewPost
  <2>3. CASE p # d /\ turn'[p] = turn[p]
    <3>1. /\ turn[p].stage # "replied"
          /\ turn[p].stage = "posted" => p[2] \in late'[u]
      <4>1. p # c => /\ turn[p].stage # "replied"
                     /\ turn[p].stage = "posted" => p[2] \in late[u]
        BY <1>11, <2>1 DEF PostInv, Awaited, c
      <4>2. Over.stage = "over"
        BY DEF Over
      <4>3. p = c => /\ turn[p].stage # "replied"
                     /\ turn[p].stage = "posted" => p[2] \in late'[u]
        <5>1. p = c => turn[c] = Dropped(c)
          BY <1>7, <2>3
        <5>2. Dropped(c) = turn[c] => turn[c].stage # "replied"
          BY <1>5, <4>2
        <5>3. turn[c].stage = "posted" => sent[u] \in late'[u]
          BY <1>6
        <5>4. c[2] = sent[u]
          BY <1>2
        <5> QED BY <5>1, <5>2, <5>3, <5>4
      <4>4. late[u] \subseteq late'[u]
        BY <1>6
      <4> QED BY <4>1, <4>3, <4>4
    <3>2. ~Awaited(p)'
      BY <1>1, <1>8, <1>11, <2>3 DEF Awaited, Current, d
    <3> QED BY <1>1, <1>3, <1>9, <1>11, <2>1, <2>3, <3>1, <3>2, SamePost
  <2>4. CASE p # d /\ turn'[p] # turn[p]
    <3>1. turn'[p] = Over /\ turn[p].stage # "none"
      BY <1>5, <1>7, <2>4
    <3> QED BY <1>1, <1>9, <1>11, <2>1, <3>1, OverPost
  <2> QED BY <2>2, <2>3, <2>4
<1> QED BY <1>1, <1>2, <1>3, <1>7, <1>8, <1>6, <1>9, <1>10, <1>11,
           OtherTabs

(* A tab that hangs up, and may begin anew, waits for nothing.               *)
LEMMA HangUpKeeps ==
    ASSUME TurnInv, NEW u \in Tabs, GiveUp(u) \/ NewConversation(u)
    PROVE  TurnInv'
<1>1. /\ TypeOK /\ StoreInv /\ TabInv(u)
      /\ run[u] # "idle" \/ screen[u] # <<>>
      /\ run' = [run EXCEPT ![u] = "idle"] /\ Disconnect(u)
      /\ UNCHANGED <<storeVars, sent, attempt>>
      /\ \/ UNCHANGED <<screen, sid>>
         \/ screen' = [screen EXCEPT ![u] = <<>>] /\ sid' = [sid EXCEPT ![u] = NoSession]
  BY DEF TurnInv, GiveUp, NewConversation
<1>2. StoreInv' /\ lastSaved' = lastSaved
  BY <1>1, StoreSame DEF storeVars
<1>3. /\ turn' \in [Posts -> Turn]
      /\ \A p \in Posts : \/ turn'[p] = turn[p]
                          \/ turn'[p] = Over /\ turn[p].stage # "none" /\ p[1] = u
      /\ \A p \in Posts : p[1] = u =>
            /\ turn'[p].stage # "replied"
            /\ turn'[p].stage = "posted" => p[2] \in late'[u]
      /\ late' \in [Tabs -> SUBSET (1..MaxMessages)]
      /\ \A v \in Tabs \ {u} : late'[v] = late[v]
  BY <1>1, Disconnected
<1>4. <<>> \in Seq(1..MaxMessages) /\ Range(<<>>) = {}
  BY DEF Range
<1>5. /\ run'[u] = "idle" /\ run' \in [Tabs -> {"idle", "waiting", "reading"}]
      /\ screen' \in [Tabs -> Seq(1..MaxMessages)]
      /\ sid' \in [Tabs -> Sessions \cup {NoSession}]
      /\ \A v \in Tabs \ {u} : screen'[v] = screen[v] /\ sid'[v] = sid[v] /\ run'[v] = run[v]
      /\ \/ screen'[u] = screen[u] /\ sid'[u] = sid[u]
         \/ screen'[u] = <<>> /\ sid'[u] = NoSession
  <2>1. /\ run'[u] = "idle" /\ run' \in [Tabs -> {"idle", "waiting", "reading"}]
        /\ \A v \in Tabs \ {u} : run'[v] = run[v]
    BY <1>1 DEF TypeOK
  <2>2. CASE UNCHANGED <<screen, sid>>
    BY <1>1, <2>1, <2>2 DEF TypeOK
  <2>3. CASE screen' = [screen EXCEPT ![u] = <<>>] /\ sid' = [sid EXCEPT ![u] = NoSession]
    <3>1. /\ screen' \in [Tabs -> Seq(1..MaxMessages)] /\ screen'[u] = <<>>
          /\ \A v \in Tabs \ {u} : screen'[v] = screen[v]
      BY <1>1, <1>4, <2>3 DEF TypeOK
    <3>2. /\ sid' \in [Tabs -> Sessions \cup {NoSession}] /\ sid'[u] = NoSession
          /\ \A v \in Tabs \ {u} : sid'[v] = sid[v]
      BY <1>1, <2>3 DEF TypeOK
    <3> QED BY <2>1, <3>1, <3>2
  <2> QED BY <1>1, <2>2, <2>3
<1>6. TypeOK'
  BY <1>1, <1>2, <1>3, <1>5 DEF TypeOK, StoreInv
<1>7. TabInv(u)'
  BY <1>1, <1>2, <1>4, <1>5 DEF TabInv
<1>8. ASSUME NEW p \in Posts, p[1] = u
      PROVE  PostInv(p)'
  <2>1. PostInv(p) /\ attempt'[u] = attempt[u] /\ sent'[u] = sent[u] /\ attempt[u] \in Int
    BY <1>1 DEF TurnInv, TypeOK
  <2>2. CASE turn'[p] = turn[p]
    <3>1. ~Awaited(p)'
      BY <1>5, <1>8 DEF Awaited
    <3> QED BY <1>1, <1>2, <1>3, <1>6, <1>8, <2>1, <2>2, <3>1, SamePost
  <2>3. CASE turn'[p] = Over /\ turn[p].stage # "none"
    BY <1>1, <1>6, <1>8, <2>1, <2>3, OverPost
  <2> QED BY <1>3, <2>2, <2>3
<1> QED BY <1>1, <1>2, <1>3, <1>5, <1>6, <1>7, <1>8, OtherTabs

(* A step of a turn or of the store changes no tab.                          *)
LEMMA TabsUnchanged ==
    ASSUME TurnInv, StoreInv', TypeOK', UNCHANGED tabVars,
           \A s \in Sessions : lastSaved[s] # NoHistory => lastSaved'[s] # NoHistory,
           \A p \in Posts : turn'[p] = turn[p] \/ PostInv(p)'
    PROVE  TurnInv'
<1>1. TypeOK /\ UNCHANGED <<screen, sid, run, sent, attempt, late>>
  BY DEF TurnInv, tabVars
<1>2. ASSUME NEW u \in Tabs
      PROVE  TabInv(u)'
  BY <1>1 DEF TurnInv, TabInv
<1>3. ASSUME NEW p \in Posts, turn'[p] = turn[p]
      PROVE  PostInv(p)'
  <2>1. PostInv(p)
    BY DEF TurnInv
  <2> QED BY <1>1, <1>3, <2>1, SameTabPost
<1> QED BY <1>2, <1>3 DEF TurnInv

LEMMA StoredType ==
    ASSUME StoreInv, NEW s \in Sessions
    PROVE  Stored(s) \in Seq(Messages)
<1>1. NoHistory \in Seq(Messages)
  BY DEF NoHistory
<1> QED BY <1>1 DEF StoreInv, StoreTypeOK, Stored, Entry, Histories

(* A turn that is at work, or has answered, was posted before.               *)
LEMMA WorkingPost ==
    ASSUME TypeOK, UNCHANGED tabVars, NEW p \in Posts, PostInv(p), turn[p].stage # "none",
           turn'[p].session \in Sessions \ Foreign,
           \/ turn'[p].stage \in {"working", "streaming"} /\ turn'[p].hist # NoHistory
           \/ /\ turn'[p].stage = "replied" /\ turn'[p].hist = NoHistory
              /\ run[p[1]] # "idle" /\ p = Current(p[1])
              /\ lastSaved'[turn'[p].session] # NoHistory
    PROVE  PostInv(p)'
<1>1. UNCHANGED <<screen, sid, run, sent, attempt, late>>
  BY DEF tabVars
<1> QED BY <1>1 DEF PostInv, Awaited, Current

LEMMA AcceptKeeps ==
    ASSUME TurnInv, NEW p \in Posts, Accept(p)
    PROVE  TurnInv'
<1>1. PICK s \in Sessions :
        /\ IF turn[p].session = NoSession THEN Fresh(s) ELSE s = turn[p].session
        /\ turn' = [turn EXCEPT ![p] =
                       [stage |-> "working", session |-> s,
                        hist |-> Append(Stored(s), [tab |-> p[1], n |-> p[2]])]]
        /\ Get(s)
  BY DEF Accept
<1> DEFINE m == [tab |-> p[1], n |-> p[2]]
           t == [stage |-> "working", session |-> s, hist |-> Append(Stored(s), m)]
<1>2. /\ TypeOK /\ StoreInv /\ PostInv(p) /\ turn[p].stage = "posted"
      /\ p[1] \in Tabs /\ TabInv(p[1]) /\ UNCHANGED tabVars
  BY DEF TurnInv, Accept, Posts
<1>3. StoreInv' /\ lastSaved' = lastSaved
  BY <1>1, <1>2, GetStep
<1>4. m \in Messages
  BY DEF Posts
<1>5. Append(Stored(s), m) \in Seq(Messages) /\ Append(Stored(s), m) # NoHistory
  <2>1. Stored(s) \in Seq(Messages)
    BY <1>2, StoredType
  <2> HIDE DEF m
  <2> QED BY <1>4, <2>1 DEF NoHistory
<1>6. s \in Sessions \ Foreign
  BY <1>1, <1>2 DEF Fresh, PostInv, TabInv
<1> HIDE DEF m
<1>7. /\ t \in Turn /\ t.stage = "working" /\ t.session = s
      /\ t.hist = Append(Stored(s), m)
  BY <1>5, <1>6 DEF Turn, Stages
<1>8. turn' = [turn EXCEPT ![p] = t]
  BY <1>1 DEF m
<1> HIDE DEF t
<1>9. /\ turn' \in [Posts -> Turn] /\ turn'[p] = t
      /\ \A q \in Posts \ {p} : turn'[q] = turn[q]
  BY <1>2, <1>7, <1>8 DEF TypeOK
<1>10. TypeOK'
  BY <1>2, <1>3, <1>9 DEF TypeOK, StoreInv, tabVars
<1>11. PostInv(p)'
  BY <1>2, <1>5, <1>6, <1>7, <1>9, WorkingPost
<1> QED BY <1>2, <1>3, <1>9, <1>10, <1>11, TabsUnchanged

(* What a turn saves is a history of a session.                              *)
LEMMA TurnSaves ==
    ASSUME TurnInv, NEW p \in Posts, turn[p].stage \in {"working", "streaming"}
    PROVE  turn[p].session \in Sessions \ Foreign /\ turn[p].hist \in Histories
BY DEF TurnInv, TypeOK, PostInv, Turn, Histories

LEMMA SaveRoundKeeps ==
    ASSUME TurnInv, NEW p \in Posts, SaveRound(p)
    PROVE  TurnInv'
<1>1. /\ turn[p].session \in Sessions /\ turn[p].hist \in Histories
      /\ TypeOK /\ StoreInv
      /\ Save(turn[p].session, turn[p].hist) /\ UNCHANGED <<tabVars, turn>>
  BY TurnSaves DEF SaveRound, TurnInv
<1>2. StoreInv' /\ lastSaved' = [lastSaved EXCEPT ![turn[p].session] = turn[p].hist]
  BY <1>1, SaveStep
<1>3. \A s \in Sessions : lastSaved[s] # NoHistory => lastSaved'[s] # NoHistory
  BY <1>1, <1>2 DEF StoreInv, StoreTypeOK, Histories
<1>4. TypeOK'
  BY <1>1, <1>2 DEF TypeOK, StoreInv, tabVars
<1> QED BY <1>1, <1>2, <1>3, <1>4, TabsUnchanged

LEMMA StreamKeeps ==
    ASSUME TurnInv, NEW p \in Posts, Stream(p) \/ TurnEnds(p)
    PROVE  TurnInv'
<1>1. /\ TypeOK /\ StoreInv /\ PostInv(p) /\ p[1] \in Tabs
      /\ turn[p] \in Turn /\ turn[p].stage # "none"
      /\ UNCHANGED <<storeVars, tabVars>>
  BY DEF TurnInv, TypeOK, Stream, TurnEnds, Posts
<1>2. StoreInv' /\ lastSaved' = lastSaved
  BY <1>1, StoreSame DEF storeVars
<1>3. CASE Stream(p)
  <2> DEFINE t == [turn[p] EXCEPT !.stage = "streaming"]
  <2>1. /\ t \in Turn /\ t.stage = "streaming" /\ t.session = turn[p].session
        /\ t.hist = turn[p].hist
    BY <1>1 DEF Turn, Stages
  <2>2. turn' = [turn EXCEPT ![p] = t]
    BY <1>3 DEF Stream
  <2> HIDE DEF t
  <2>3. /\ turn' \in [Posts -> Turn] /\ turn'[p] = t
        /\ \A q \in Posts \ {p} : turn'[q] = turn[q]
    BY <1>1, <2>1, <2>2 DEF TypeOK
  <2>4. TypeOK'
    BY <1>1, <1>2, <2>3 DEF TypeOK, StoreInv, tabVars
  <2>5. turn[p].session \in Sessions \ Foreign /\ turn[p].hist # NoHistory
    BY <1>3, TurnSaves DEF Stream, Histories
  <2>6. PostInv(p)'
    BY <1>1, <2>1, <2>3, <2>5, WorkingPost
  <2> QED BY <1>1, <1>2, <2>3, <2>4, <2>6, TabsUnchanged
<1>4. CASE TurnEnds(p)
  <2>1. /\ turn' \in [Posts -> Turn] /\ turn'[p] = Over
        /\ \A q \in Posts \ {p} : turn'[q] = turn[q]
    BY <1>1, <1>4, TurnRecords DEF TurnEnds, TypeOK
  <2>2. TypeOK'
    BY <1>1, <1>2, <2>1 DEF TypeOK, StoreInv, tabVars
  <2>3. sent' = sent /\ attempt' = attempt /\ attempt[p[1]] \in Int
    BY <1>1 DEF tabVars, TypeOK
  <2>4. PostInv(p)'
    BY <1>1, <2>1, <2>2, <2>3, OverPost
  <2> QED BY <1>1, <1>2, <2>1, <2>2, <2>4, TabsUnchanged
<1> QED BY <1>3, <1>4

LEMMA ReplyKeeps ==
    ASSUME TurnInv, NEW p \in Posts, Reply(p)
    PROVE  TurnInv'
<1> DEFINE s == turn[p].session
           read == run[p[1]] # "idle" /\ p = Current(p[1])
           t == IF read THEN [turn[p] EXCEPT !.stage = "replied", !.hist = <<>>] ELSE Over
<1>1. /\ s \in Sessions \ Foreign /\ turn[p].hist \in Histories
      /\ TypeOK /\ StoreInv /\ PostInv(p) /\ p[1] \in Tabs
      /\ turn[p] \in Turn /\ turn[p].stage # "none"
      /\ Save(s, turn[p].hist) /\ UNCHANGED tabVars
      /\ turn' = [turn EXCEPT ![p] = t]
  BY TurnSaves DEF Reply, TurnInv, TypeOK, Posts
<1>2. StoreInv' /\ lastSaved' = [lastSaved EXCEPT ![s] = turn[p].hist]
  BY <1>1, SaveStep
<1>3. /\ \A r \in Sessions : lastSaved[r] # NoHistory => lastSaved'[r] # NoHistory
      /\ lastSaved'[s] # NoHistory
  BY <1>1, <1>2 DEF StoreInv, StoreTypeOK, Histories
<1>4. /\ t \in Turn
      /\ \/ /\ read
            /\ t.stage = "replied" /\ t.session = s /\ t.hist = NoHistory
         \/ t = Over
  <2>1. <<>> \in Seq(Messages)
    OBVIOUS
  <2>2. LET r == [turn[p] EXCEPT !.stage = "replied", !.hist = <<>>]
        IN r \in Turn /\ r.stage = "replied" /\ r.session = s /\ r.hist = NoHistory
    BY <1>1, <2>1 DEF Turn, Stages, NoHistory
  <2> QED BY <2>2, TurnRecords
<1> HIDE DEF t
<1>5. /\ turn' \in [Posts -> Turn] /\ turn'[p] = t
      /\ \A q \in Posts \ {p} : turn'[q] = turn[q]
  BY <1>1, <1>4 DEF TypeOK
<1>6. TypeOK'
  BY <1>1, <1>2, <1>5 DEF TypeOK, StoreInv, tabVars
<1>7. CASE t = Over
  <2>1. sent' = sent /\ attempt' = attempt /\ attempt[p[1]] \in Int
    BY <1>1 DEF tabVars, TypeOK
  <2>2. PostInv(p)'
    BY <1>1, <1>5, <1>6, <1>7, <2>1, OverPost
  <2> QED BY <1>1, <1>2, <1>3, <1>5, <1>6, <2>2, TabsUnchanged
<1>8. CASE read /\ t.stage = "replied" /\ t.session = s /\ t.hist = NoHistory
  <2>1. PostInv(p)'
    BY <1>1, <1>3, <1>5, <1>8, WorkingPost
  <2> QED BY <1>1, <1>2, <1>3, <1>5, <1>6, <2>1, TabsUnchanged
<1> QED BY <1>4, <1>7, <1>8


LEMMA RestartKeeps ==
    ASSUME TurnInv, Restart
    PROVE  TurnInv'
<1>1. /\ TypeOK /\ StoreInv /\ UNCHANGED tabVars
      /\ turn' = [p \in Posts |->
                    IF turn[p].stage \in {"posted", "working", "streaming"} THEN Over
                    ELSE turn[p]]
  BY DEF TurnInv, Restart
<1>2. StoreInv' /\ lastSaved' = lastSaved
  BY <1>1, RestartStep DEF Restart
<1>3. turn' \in [Posts -> Turn]
  BY <1>1, TurnRecords DEF TypeOK
<1>4. TypeOK'
  BY <1>1, <1>2, <1>3 DEF TypeOK, StoreInv, tabVars
<1>5. ASSUME NEW p \in Posts, turn'[p] # turn[p]
      PROVE  PostInv(p)'
  <2>1. turn'[p] = Over /\ turn[p].stage # "none"
    BY <1>1, <1>5
  <2>2. PostInv(p) /\ p[1] \in Tabs
    BY DEF TurnInv, Posts
  <2>3. sent' = sent /\ attempt' = attempt /\ attempt[p[1]] \in Int
    BY <1>1, <2>2 DEF tabVars, TypeOK
  <2> QED BY <1>1, <1>4, <2>1, <2>2, <2>3, OverPost
<1> QED BY <1>1, <1>2, <1>4, <1>5, TabsUnchanged

(* What happens to the store behind the turns' backs.                        *)
LEMMA OtherUserKeeps ==
    ASSUME TurnInv, NEW s \in Foreign, OtherUser(s)
    PROVE  /\ TurnInv'
           /\ \A t \in Sessions \ {s} : Stored(t)' \in {Stored(t), NoHistory}
<1> DEFINE h == <<[tab |-> Nobody, n |-> 0]>>
<1>1. TypeOK /\ StoreInv /\ UNCHANGED <<tabVars, turn>> /\ s \in Sessions
  BY DEF TurnInv, OtherUser
<1>2. h \in Histories
  <2>1. [tab |-> Nobody, n |-> 0] \in Messages
    OBVIOUS
  <2> QED BY <2>1 DEF Histories, NoHistory
<1>3. /\ StoreInv'
      /\ lastSaved' = lastSaved \/ lastSaved' = [lastSaved EXCEPT ![s] = h]
      /\ \A t \in Sessions \ {s} : Stored(t)' \in {Stored(t), NoHistory}
  BY <1>1, <1>2, SaveStep, GetStep DEF OtherUser
<1>4. \A t \in Sessions : lastSaved[t] # NoHistory => lastSaved'[t] # NoHistory
  BY <1>1, <1>2, <1>3 DEF StoreInv, StoreTypeOK, Histories
<1>5. TypeOK'
  BY <1>1, <1>3 DEF TypeOK, StoreInv, tabVars
<1> QED BY <1>1, <1>3, <1>4, <1>5, TabsUnchanged

LEMMA TimeKeeps ==
    ASSUME TurnInv, Time
    PROVE  TurnInv'
<1>1. TypeOK /\ StoreInv /\ UNCHANGED <<tabVars, turn>>
  BY DEF TurnInv, Time
<1>2. StoreInv' /\ lastSaved' = lastSaved
  BY <1>1, TickStep DEF Time
<1>3. TypeOK'
  BY <1>1, <1>2 DEF TypeOK, StoreInv, tabVars
<1> QED BY <1>1, <1>2, <1>3, TabsUnchanged

LEMMA StutterKeeps ==
    ASSUME TurnInv, UNCHANGED vars
    PROVE  TurnInv'
<1>1. TypeOK /\ StoreInv /\ UNCHANGED <<storeVars, tabVars, turn>>
  BY DEF TurnInv, vars
<1>2. StoreInv' /\ lastSaved' = lastSaved
  BY <1>1, StoreSame DEF storeVars
<1>3. TypeOK'
  BY <1>1, <1>2 DEF TypeOK, StoreInv, tabVars
<1> QED BY <1>1, <1>2, <1>3, TabsUnchanged

(* The steps of the whole system, by what they are about.                    *)
LEMMA NextStep ==
    ASSUME TurnInv, [Next]_vars
    PROVE  TurnInv'
BY SendKeeps, ReadChunkKeeps, ReadDoneKeeps, RetryKeeps, HangUpKeeps, AcceptKeeps,
   SaveRoundKeeps, StreamKeeps, ReplyKeeps, RestartKeeps, OtherUserKeeps, TimeKeeps,
   StutterKeeps
DEF Next, TabStep, TurnStep

LEMMA TurnStarts == ASSUME Init PROVE TurnInv
<1>1. StoreInv
  BY StoreStarts DEF Init
<1>2. TypeOK
  <2>1. <<>> \in Seq(1..MaxMessages)
    OBVIOUS
  <2> QED BY <1>1, <2>1, TurnRecords DEF Init, TypeOK, StoreInv
<1>3. ASSUME NEW u \in Tabs
      PROVE  TabInv(u)
  BY DEF Init, TabInv, Range
<1>4. ASSUME NEW p \in Posts
      PROVE  PostInv(p)
  BY DEF Init, PostInv, NoTurn, NoHistory
<1> QED BY <1>1, <1>2, <1>3, <1>4 DEF TurnInv

(* The invariant, of which TypeOK is a part.                                 *)
THEOREM ConversationInvariant == Spec => []TurnInv
<1> QED BY TurnStarts, NextStep, PTL DEF Spec

(* The type invariant: the bound of the store in memory is part of it.       *)
THEOREM ConversationTypeOK == Spec => []TypeOK
<1>1. TurnInv => TypeOK
  BY DEF TurnInv
<1> QED BY <1>1, ConversationInvariant, PTL

-----------------------------------------------------------------------------
(* The store implements SessionMap.                                          *)

LEMMA MapForgets ==
    ASSUME lastSaved' = lastSaved,
           \A t \in Sessions : Stored(t)' \in {Stored(t), NoHistory}
    PROVE  Map!MapNext
<1> DEFINE Lost == {t \in Sessions : Stored(t)' # Stored(t)}
<1>1. [t \in Sessions |-> Stored(t)]' = Map!Without(Lost)
  BY DEF Map!Without
<1>2. Map!Forget(Lost) /\ Lost \in SUBSET Sessions
  BY <1>1 DEF Map!Forget
<1> QED BY <1>2 DEF Map!MapNext

LEMMA MapSaves ==
    ASSUME NEW s \in Sessions, NEW h \in Histories, StoreInv, Save(s, h)
    PROVE  Map!MapNext
<1> DEFINE Lost == {t \in Sessions \ {s} : Stored(t)' # Stored(t)}
<1>1. /\ Stored(s)' = h
      /\ \A t \in Sessions \ {s} : Stored(t)' \in {Stored(t), NoHistory}
      /\ lastSaved' = [lastSaved EXCEPT ![s] = h]
      /\ lastSaved'[s] = h
  BY SaveStep DEF StoreInv, StoreTypeOK
<1>2. [t \in Sessions |-> Stored(t)]' = [Map!Without(Lost) EXCEPT ![s] = h]
  BY <1>1 DEF Map!Without
<1>3. Map!SaveSession(s, lastSaved'[s]) /\ Lost \in SUBSET (Sessions \ {s})
  BY <1>1, <1>2 DEF Map!SaveSession
<1> QED BY <1>3 DEF Map!MapNext


(* What a step of the system does to the store is one of its operations.     *)
LEMMA StoreStep ==
    ASSUME TurnInv, [Next]_vars
    PROVE  \/ UNCHANGED storeVars
           \/ \E s \in Sessions : Get(s)
           \/ \E s \in Sessions, h \in Histories : Save(s, h)
           \/ Tick
           \/ StoreRestart
<1>1. \A p \in Posts : SaveRound(p) \/ Reply(p) =>
          /\ turn[p].session \in Sessions /\ turn[p].hist \in Histories
          /\ Save(turn[p].session, turn[p].hist)
  BY TurnSaves DEF SaveRound, Reply
<1>2. <<[tab |-> Nobody, n |-> 0]>> \in Histories
  <2>1. [tab |-> Nobody, n |-> 0] \in Messages
    OBVIOUS
  <2> QED BY <2>1 DEF Histories, NoHistory
<1>3. \A s \in Foreign : OtherUser(s) =>
          \/ Get(s)
          \/ \E h \in Histories : Save(s, h)
  BY <1>2 DEF OtherUser
<1>4. \A p \in Posts : Accept(p) => \E s \in Sessions : Get(s)
  BY DEF Accept
<1>5. \A u \in Tabs : TabStep(u) => UNCHANGED storeVars
  BY DEF TabStep, Send, ReadChunk, ReadDone, Retry, GiveUp, NewConversation
<1>6. \A p \in Posts : Stream(p) \/ TurnEnds(p) => UNCHANGED storeVars
  BY DEF Stream, TurnEnds
<1> QED BY <1>1, <1>3, <1>4, <1>5, <1>6 DEF Next, TurnStep, Restart, Time, vars

(* Whatever the tabs and turns do, the store is a SessionMap.                *)
THEOREM StoreImplementsSessionMap == Spec => ImplementsSessionMap
<1>1. Init => Map!MapInit
  BY DEF Init, StoreInit, Map!MapInit, Stored, Known
<1>2. ASSUME TurnInv, [Next]_vars
      PROVE  [Map!MapNext]_Map!mapVars
  <2>1. StoreInv
    BY <1>2 DEF TurnInv
  <2>2. CASE UNCHANGED storeVars
    BY <2>2 DEF storeVars, Map!mapVars, Stored, Known
  <2>3. ASSUME NEW s \in Sessions, Get(s)
        PROVE  Map!MapNext
    BY <2>1, <2>3, GetStep, MapForgets
  <2>4. ASSUME NEW s \in Sessions, NEW h \in Histories, Save(s, h)
        PROVE  Map!MapNext
    BY <2>1, <2>4, MapSaves
  <2>5. CASE Tick
    BY <2>1, <2>5, TickStep, MapForgets
  <2>6. CASE StoreRestart
    BY <2>1, <2>6, RestartStep, MapForgets
  <2> QED BY <1>2, <2>2, <2>3, <2>4, <2>5, <2>6, StoreStep
<1> QED BY <1>1, <1>2, ConversationInvariant, PTL
    DEF Spec, ImplementsSessionMap, Map!MapSpec

(* Any SessionMap answers with the history that was saved last, or with      *)
(* nothing: no other session's save, and no eviction, puts anything else in  *)
(* its place.                                                                *)
LEMMA ReadsLastSave == Map!MapSpec => [](Map!MapTypeOK /\ Map!LastOrNothing)
<1> DEFINE saved == [s \in Sessions |-> Stored(s)]
           Inv == Map!MapTypeOK /\ Map!LastOrNothing
<1>1. Map!MapInit => Inv
  BY DEF Map!MapInit, Map!MapTypeOK, Map!LastOrNothing
<1>2. ASSUME Inv, [Map!MapNext]_Map!mapVars
      PROVE  Inv'
  <2>1. \A s \in Sessions : saved[s] \in {lastSaved[s], NoHistory}
    BY <1>2 DEF Map!LastOrNothing
  <2>2. ASSUME NEW s \in Sessions, NEW h, Map!SaveSession(s, h)
        PROVE  Inv'
    <3>1. PICK Lost \in SUBSET (Sessions \ {s}) : saved' = [Map!Without(Lost) EXCEPT ![s] = h]
      BY <2>2 DEF Map!SaveSession
    <3>2. h \in Histories /\ lastSaved' = [lastSaved EXCEPT ![s] = h]
      BY <2>2 DEF Map!SaveSession
    <3>3. \A r \in Sessions :
              saved'[r] = IF r = s THEN h ELSE IF r \in Lost THEN NoHistory ELSE saved[r]
      BY <3>1 DEF Map!Without
    <3>4. \A r \in Sessions : lastSaved'[r] = IF r = s THEN h ELSE lastSaved[r]
      BY <1>2, <3>2 DEF Map!MapTypeOK
    <3>5. Map!MapTypeOK'
      BY <1>2, <3>2, <3>3 DEF Map!MapTypeOK
    <3>6. Map!LastOrNothing'
      BY <2>1, <3>3, <3>4 DEF Map!LastOrNothing
    <3> QED BY <3>5, <3>6
  <2>3. ASSUME NEW Lost \in SUBSET Sessions, Map!Forget(Lost)
        PROVE  Inv'
    <3>1. saved' = Map!Without(Lost) /\ lastSaved' = lastSaved
      BY <2>3 DEF Map!Forget
    <3>2. \A r \in Sessions : saved'[r] = IF r \in Lost THEN NoHistory ELSE saved[r]
      BY <3>1 DEF Map!Without
    <3> QED BY <1>2, <2>1, <3>1, <3>2 DEF Map!MapTypeOK, Map!LastOrNothing
  <2>4. CASE UNCHANGED Map!mapVars
    BY <1>2, <2>4 DEF Map!mapVars, Map!MapTypeOK, Map!LastOrNothing
  <2> QED BY <1>2, <2>2, <2>3, <2>4 DEF Map!MapNext
<1> QED BY <1>1, <1>2, PTL DEF Map!MapSpec

(* Hence a turn begins with what was saved last under its session, or with   *)
(* nothing.                                                                  *)
THEOREM ConversationReadsLastSave ==
    Spec => [](\A s \in Sessions : Stored(s) \in {lastSaved[s], NoHistory})
<1>1. Map!LastOrNothing => \A s \in Sessions : Stored(s) \in {lastSaved[s], NoHistory}
  BY DEF Map!LastOrNothing
<1> QED BY <1>1, StoreImplementsSessionMap, ReadsLastSave, PTL DEF ImplementsSessionMap

(* No step loses a session but for its age, or to MaxSessions others.        *)
THEOREM StoreLosesOldest == Spec => OnlyExpiredOrCrowdedOut
<1>1. ASSUME TurnInv, [Next]_vars
      PROVE  [LosesOldest]_storeVars
  <2>1. StoreInv
    BY <1>1 DEF TurnInv
  <2> QED BY <1>1, <2>1, StoreStep, GetStep, SaveStep, TickStep, RestartStep
<1> QED BY <1>1, ConversationInvariant, PTL DEF Spec, OnlyExpiredOrCrowdedOut


-----------------------------------------------------------------------------
(* The session of a tab and its screen.                                      *)

LEMMA ShownStays ==
    ASSUME NEW u, NEW h, NEW S, NEW S2, S \subseteq S2, S \subseteq 1..MaxMessages,
           NEW b \in [1..MaxMessages -> Nat], NEW b2 \in [1..MaxMessages -> Nat],
           \A n \in 1..MaxMessages : b[n] <= b2[n],
           NEW L, NEW L2, L \subseteq L2,
           h \in Seq(Messages), Shown(u, h, S, b, L)
    PROVE  Shown(u, h, S2, b2, L2)
<1>1. ASSUME NEW i \in DOMAIN h
      PROVE  h[i].tab = u /\ h[i].n \in S2 /\ Times(h, h[i].n) <= b2[h[i].n]
  <2>1. h[i].tab = u /\ h[i].n \in S /\ Times(h, h[i].n) <= b[h[i].n]
    BY DEF Shown
  <2>2. Times(h, h[i].n) \in Nat
    <3>1. {k \in DOMAIN h : h[k].n = h[i].n} \in SUBSET (1..Len(h)) /\ Len(h) \in Nat
      OBVIOUS
    <3>2. IsFiniteSet(1..Len(h))
      BY <3>1, FS_Interval
    <3> QED BY <3>1, <3>2, FS_Subset, FS_CardinalityType DEF Times
  <2>3. b[h[i].n] \in Nat /\ b2[h[i].n] \in Nat /\ b[h[i].n] <= b2[h[i].n]
    BY <2>1
  <2> QED
    <3> DEFINE x == h[i].n
               t == Times(h, x)
               c == b[x]
               d == b2[x]
    <3>1. t \in Nat /\ c \in Nat /\ d \in Nat /\ t <= c /\ c <= d
      BY <2>1, <2>2, <2>3
    <3> HIDE DEF t, c, d
    <3>2. t <= d
      BY <3>1
    <3> QED BY <2>1, <3>2 DEF t, d
<1> QED BY <1>1 DEF Shown

(* A message that was sent last or left, and begun once more, is appended.   *)
LEMMA ShownAppend ==
    ASSUME NEW u \in Tabs, NEW h \in Seq(Messages), NEW n \in 1..MaxMessages,
           NEW S \in SUBSET (1..MaxMessages), n \in S,
           NEW L, n \in L \/ \A x \in S : x <= n,
           NEW b \in [1..MaxMessages -> Nat], NEW b2 \in [1..MaxMessages -> Nat],
           \A x \in 1..MaxMessages : b[x] <= b2[x],
           b[n] + 1 <= b2[n], Shown(u, h, S, b, L)
    PROVE  Shown(u, Append(h, [tab |-> u, n |-> n]), S, b2, L)
<1> DEFINE m == [tab |-> u, n |-> n]
           r == Append(h, m)
           T(x) == {i \in DOMAIN h : h[i].n = x}
<1>1. m \in Messages /\ m.tab = u /\ m.n = n
  OBVIOUS
<1> HIDE DEF m
<1>2. /\ r \in Seq(Messages) /\ Len(h) \in Nat
      /\ DOMAIN r = 1..Len(h) + 1 /\ DOMAIN h = 1..Len(h)
      /\ \A i \in 1..Len(h) : r[i] = h[i]
      /\ r[Len(h) + 1] = m
  BY <1>1
<1> HIDE DEF r
<1>3. ASSUME NEW x
      PROVE  /\ IsFiniteSet(T(x)) /\ Cardinality(T(x)) \in Nat
             /\ Len(h) + 1 \notin T(x)
             /\ {i \in DOMAIN r : r[i].n = x} = IF x = n THEN T(x) \cup {Len(h) + 1} ELSE T(x)
  <2>1. T(x) \in SUBSET (1..Len(h)) /\ IsFiniteSet(1..Len(h))
    BY <1>2, FS_Interval
  <2>2. IsFiniteSet(T(x)) /\ Cardinality(T(x)) \in Nat
    BY <2>1, FS_Subset, FS_CardinalityType
  <2>3. Len(h) + 1 \notin T(x)
    BY <1>2
  <2>4. DOMAIN r = DOMAIN h \cup {Len(h) + 1}
    <3>1. \A l \in Nat : 1..l + 1 = (1..l) \cup {l + 1}
      OBVIOUS
    <3> QED BY <1>2, <3>1
  <2>5. {i \in DOMAIN r : r[i].n = x} = IF x = n THEN T(x) \cup {Len(h) + 1} ELSE T(x)
    BY <1>1, <1>2, <2>4
  <2> QED BY <2>2, <2>3, <2>5
<1> HIDE DEF T
<1>4. ASSUME NEW x
      PROVE  Times(r, x) = IF x = n THEN Times(h, x) + 1 ELSE Times(h, x)
  <2>1. Times(h, x) = Cardinality(T(x))
    BY DEF Times, T
  <2>2. Cardinality(T(x) \cup {Len(h) + 1}) = Cardinality(T(x)) + 1
    BY <1>3, FS_AddElement
  <2> QED BY <1>3, <2>1, <2>2 DEF Times
<1>5. ASSUME NEW x
      PROVE  Times(h, x) \in Nat
  BY <1>3 DEF Times, T
<1>6. ASSUME NEW x \in 1..MaxMessages
      PROVE  Times(r, x) <= b2[x]
  <2>1. b[x] \in Nat /\ b2[x] \in Nat /\ b[x] <= b2[x]
    OBVIOUS
  <2>2. Times(h, x) <= b[x]
    <3>1. CASE \E i \in DOMAIN h : h[i].n = x
      BY <3>1 DEF Shown
    <3>2. CASE \A i \in DOMAIN h : h[i].n # x
      <4>1. {i \in DOMAIN h : h[i].n = x} = {}
        BY <3>2
      <4>2. Times(h, x) = 0
        BY <4>1, FS_EmptySet DEF Times
      <4> QED BY <2>1, <4>2
    <3> QED BY <3>1, <3>2
  <2> DEFINE t == Times(h, x)
             c == b[x]
             d == b2[x]
             e == Times(r, x)
  <2>3. /\ t \in Nat /\ c \in Nat /\ d \in Nat /\ t <= c /\ c <= d
        /\ x = n => c + 1 <= d
        /\ e = IF x = n THEN t + 1 ELSE t
    BY <1>4, <1>5, <2>1, <2>2
  <2> HIDE DEF t, c, d, e
  <2>4. e <= d
    BY <2>3
  <2> QED BY <2>4 DEF e, d
<1>7. ASSUME NEW i \in DOMAIN r
      PROVE  r[i].tab = u /\ r[i].n \in S /\ Times(r, r[i].n) <= b2[r[i].n]
  <2>1. CASE i = Len(h) + 1
    BY <1>1, <1>2, <1>6, <2>1
  <2>2. CASE i \in DOMAIN h
    <3>1. r[i] = h[i] /\ h[i].tab = u /\ h[i].n \in S /\ Times(h, h[i].n) <= b[h[i].n]
      BY <1>2, <2>2 DEF Shown
    <3> QED BY <1>6, <3>1
  <2> QED BY <1>2, <2>1, <2>2
<1>8. ASSUME NEW i \in DOMAIN r, NEW j \in DOMAIN r, i < j
      PROVE  r[i].n <= r[j].n \/ r[j].n \in L
  <2>1. i \in DOMAIN h /\ r[i] = h[i]
    <3> DEFINE l == Len(h)
    <3>1. l \in Nat /\ i \in 1..l + 1 /\ j \in 1..l + 1
      BY <1>2
    <3> HIDE DEF l
    <3>2. i \in 1..l
      BY <1>8, <3>1
    <3> QED BY <1>2, <3>2 DEF l
  <2>2. CASE j = Len(h) + 1
    BY <1>1, <1>2, <1>7, <2>2
  <2>3. CASE j \in DOMAIN h
    BY <1>2, <1>8, <2>1, <2>3 DEF Shown
  <2> QED BY <1>2, <2>2, <2>3
<1> QED BY <1>7, <1>8 DEF Shown, r, m

LEMMA BegunCounts ==
    ASSUME NEW A \in SUBSET {1, 2}, NEW B \in SUBSET {1, 2}, A \subseteq B
    PROVE  /\ Cardinality(A) \in Nat /\ Cardinality(B) \in Nat
           /\ Cardinality(A) <= Cardinality(B)
           /\ A # B => Cardinality(A) + 1 <= Cardinality(B)
<1>1. IsFiniteSet({1, 2})
  <2>1. IsFiniteSet({1}) /\ {1, 2} = {1} \cup {2}
    BY FS_Singleton
  <2> QED BY <2>1, FS_AddElement
<1>2. IsFiniteSet(A) /\ IsFiniteSet(B)
  BY <1>1, FS_Subset
<1>3. Cardinality(A) \in Nat /\ Cardinality(B) \in Nat
  BY <1>2, FS_CardinalityType
<1>4. Cardinality(A) <= Cardinality(B) /\ (Cardinality(A) = Cardinality(B) => A = B)
  BY <1>2, FS_Subset
<1> QED BY <1>3, <1>4


\* A post takes its session from its tab, keeps it or loses it; its history
\* it keeps or loses; what has been begun has been; and what is posted stands
\* on the screen.
PostQuiet(p) ==
    /\ turn'[p].session \in {turn[p].session, NoSession, sid[p[1]]}
    /\ \/ turn'[p].hist = NoHistory
       \/ turn'[p].hist = turn[p].hist /\ turn'[p].session = turn[p].session
    /\ turn[p].stage \notin {"none", "posted"} => turn'[p].stage \notin {"none", "posted"}
    /\ turn'[p].stage = "posted" => turn'[p] = turn[p] \/ p[2] \in Range(screen'[p[1]])

TabSame(u) ==
    /\ screen'[u] = screen[u] /\ sid'[u] = sid[u] /\ run'[u] = run[u]
    /\ sent'[u] = sent[u] /\ attempt'[u] = attempt[u] /\ late'[u] = late[u]

\* A tab begins with no session that it has not known or used, and the screen
\* of one that goes on with a session only grows.
TabQuiet(u) ==
    /\ late[u] \subseteq late'[u]
    /\ \/ sid'[u] \in {sid[u], NoSession}
       \/ \E p \in Posts : p[1] = u /\ sid'[u] = turn[p].session
    /\ \A s \in Sessions :
          Live(u, s)' => Live(u, s) /\ Range(screen[u]) \subseteq Range(screen'[u])

\* A session that is no other user's is left with what it has, with nothing,
\* or with what a turn of it has saved.
StoreQuiet ==
    \A s \in Sessions \ Foreign :
        \/ Stored(s)' \in {Stored(s), NoHistory}
        \/ \E p \in Posts : turn[p].session = s /\ Stored(s)' = turn[p].hist

LEMMA SameTabQuiet ==
    ASSUME TurnInv, NEW u \in Tabs, TabSame(u), \A p \in Posts : PostQuiet(p)
    PROVE  TabQuiet(u)
<1>1. ASSUME NEW s \in Sessions, Live(u, s)'
      PROVE  Live(u, s)
  <2>1. CASE sid'[u] = s
    BY <2>1 DEF TabSame, Live
  <2>2. CASE run'[u] # "idle" /\ turn'[Current(u)].session = s
    <3>1. run[u] # "idle" /\ Current(u) \in Posts /\ Current(u)[1] = u
      BY <2>2, CurrentPost DEF TabSame
    <3>2. s \in {turn[Current(u)].session, NoSession, sid[u]}
      BY <2>2, <3>1 DEF PostQuiet
    <3> QED BY <3>1, <3>2, ConversationConstants DEF Live
  <2>3. Current(u)' = Current(u)
    BY DEF TabSame, Current
  <2> QED BY <1>1, <2>1, <2>2, <2>3 DEF Live
<1> QED BY <1>1 DEF TabQuiet, TabSame

(* Where nothing is new, a session has the owner it had.                     *)
LEMMA QuietOwner ==
    ASSUME OneOwner, \A p \in Posts : PostQuiet(p), \A u \in Tabs : TabQuiet(u)
    PROVE  OneOwner'
<1>1. ASSUME NEW u \in Tabs, NEW s \in Sessions, Uses(u, s)'
      PROVE  Uses(u, s)
  <2>1. CASE sid'[u] = s
    BY <2>1, ConversationConstants DEF TabQuiet, Uses
  <2>2. ASSUME NEW p \in Posts, p[1] = u, turn'[p].session = s
        PROVE  Uses(u, s)
    BY <2>2, ConversationConstants DEF PostQuiet, Uses
  <2> QED BY <1>1, <2>1, <2>2 DEF Uses
<1> QED BY <1>1 DEF OneOwner

LEMMA CountsGrow ==
    ASSUME NEW u \in Tabs,
           \A p \in Posts :
              turn[p].stage \notin {"none", "posted"} => turn'[p].stage \notin {"none", "posted"}
    PROVE  /\ Counts(u) \in [1..MaxMessages -> Nat]
           /\ Counts(u)' \in [1..MaxMessages -> Nat]
           /\ \A n \in 1..MaxMessages : Counts(u)[n] <= Counts(u)'[n]
<1>1. ASSUME NEW n \in 1..MaxMessages
      PROVE  /\ Cardinality(Begun(u, n)) \in Nat
             /\ Cardinality(Begun(u, n)') \in Nat
             /\ Cardinality(Begun(u, n)) <= Cardinality(Begun(u, n)')
  <2>1. \A a \in {1, 2} : <<u, n, a>> \in Posts
    BY DEF Posts
  <2>2. /\ Begun(u, n) \in SUBSET {1, 2} /\ Begun(u, n)' \in SUBSET {1, 2}
        /\ Begun(u, n) \subseteq Begun(u, n)'
    BY <2>1 DEF Begun
  <2> QED BY <2>2, BegunCounts
<1> QED BY <1>1 DEF Counts

(* No session in use is another user's.                                      *)
LEMMA UsedSession ==
    ASSUME TurnInv, NEW u \in Tabs, NEW s \in Sessions
    PROVE  /\ Uses(u, s) => s \notin Foreign
           /\ Live(u, s) => Uses(u, s)
<1>1. ASSUME NEW p \in Posts, turn[p].session = s
      PROVE  s \notin Foreign
  <2>1. PostInv(p) /\ TabInv(p[1]) /\ turn[p].stage \in Stages
    BY DEF TurnInv, TypeOK, Turn, Posts
  <2> QED BY <1>1, <2>1, ConversationConstants DEF PostInv, TabInv, Stages
<1>2. Uses(u, s) => s \notin Foreign
  BY <1>1 DEF Uses, TurnInv, TabInv
<1>3. ASSUME run[u] # "idle", turn[Current(u)].session = s
      PROVE  Uses(u, s)
  BY <1>3, CurrentPost DEF Uses
<1>4. sid[u] = s => Uses(u, s)
  BY DEF Uses
<1> QED BY <1>2, <1>3, <1>4 DEF Live

LEMMA ShownTypes ==
    ASSUME TurnInv, NEW u \in Tabs
    PROVE  Range(screen[u]) \subseteq 1..MaxMessages
BY DEF TurnInv, TypeOK, Range

(* Where nothing is new, what is saved is on the screen as it was.           *)
LEMMA QuietOnScreen ==
    ASSUME TurnInv, TurnInv', LiveOnScreen, StoreQuiet,
           \A p \in Posts : PostQuiet(p), \A u \in Tabs : TabQuiet(u)
    PROVE  LiveOnScreen'
<1> SUFFICES ASSUME NEW u \in Tabs, NEW s \in Sessions, Live(u, s)'
             PROVE  /\ OnScreen(u, Stored(s))'
                    /\ \A p \in Posts : turn'[p].session = s =>
                          /\ OnScreen(u, turn[p].hist)'
                          /\ turn'[p].stage = "posted" /\ p[1] = u
                               => p[2] \in Range(screen'[u])
  BY DEF LiveOnScreen
<1> DEFINE S == Range(screen[u])
           S2 == Range(screen'[u])
           L == late[u]
           L2 == late'[u]
           b == Counts(u)
           b2 == Counts(u)'
<1>1. Live(u, s) /\ S \subseteq S2 /\ L \subseteq L2
  BY DEF TabQuiet
<1>2. s \notin Foreign
  BY <1>1, UsedSession
<1>3. /\ b \in [1..MaxMessages -> Nat] /\ b2 \in [1..MaxMessages -> Nat]
      /\ \A n \in 1..MaxMessages : b[n] <= b2[n]
  BY CountsGrow DEF PostQuiet
<1>4. S \subseteq 1..MaxMessages
  BY ShownTypes
<1>5. ASSUME NEW h, h \in Seq(Messages), Shown(u, h, S, b, L)
      PROVE  Shown(u, h, S2, b2, L2)
  <2> HIDE DEF S, S2, b, b2, L, L2
  <2> QED BY <1>1, <1>3, <1>4, <1>5, ShownStays
<1>6. Shown(u, NoHistory, S2, b2, L2)
  BY DEF Shown, NoHistory
<1>7. Shown(u, Stored(s), S, b, L) /\ Stored(s) \in Seq(Messages)
  BY <1>1, StoredType DEF LiveOnScreen, OnScreen, TurnInv
<1>8. \A p \in Posts : turn[p].session = s =>
          Shown(u, turn[p].hist, S, b, L) /\ turn[p].hist \in Seq(Messages)
  BY <1>1 DEF LiveOnScreen, OnScreen, TurnInv, TypeOK, Turn
<1>9. \A p \in Posts : turn'[p].session = s /\ turn'[p].stage = "posted" /\ p[1] = u
                          => p[2] \in S2
  BY <1>1 DEF LiveOnScreen, PostQuiet
<1> HIDE DEF S, S2, b, b2, L, L2
<1>10. Shown(u, Stored(s)', S2, b2, L2)
  BY <1>2, <1>5, <1>6, <1>7, <1>8 DEF StoreQuiet
<1>11. \A p \in Posts : turn'[p].session = s => Shown(u, turn'[p].hist, S2, b2, L2)
  BY <1>5, <1>6, <1>8 DEF PostQuiet
<1> QED BY <1>10, <1>11, <1>9 DEF OnScreen, S2, b2, L2


(* Every step is quiet but the one that begins a turn.                       *)
LEMMA SameStore == ASSUME UNCHANGED storeVars PROVE StoreQuiet
BY DEF StoreQuiet, storeVars, Stored, Known

LEMMA SamePosts ==
    ASSUME NEW p \in Posts, turn'[p] = turn[p]
    PROVE  PostQuiet(p)
BY DEF PostQuiet

LEMMA OverQuiet ==
    ASSUME NEW p \in Posts, turn'[p] = Over
    PROVE  PostQuiet(p)
BY DEF PostQuiet, Over, NoHistory

LEMMA PostedQuiet ==
    ASSUME TurnInv, NEW p \in Posts, turn'[p] = Posted(sid[p[1]]),
           p[2] \in Range(screen'[p[1]]),
           ~(p[2] < sent[p[1]]), ~(p[2] = sent[p[1]] /\ p[3] <= attempt[p[1]])
    PROVE  PostQuiet(p)
<1>1. turn[p].stage = "none"
  BY DEF TurnInv, PostInv
<1> QED BY <1>1 DEF PostQuiet, Posted, NoHistory

LEMMA TabStepQuiet ==
    ASSUME TurnInv, NEW u \in Tabs, TabStep(u)
    PROVE  /\ \A p \in Posts : PostQuiet(p)
           /\ \A v \in Tabs : TabQuiet(v)
<1>1. TypeOK /\ TabInv(u)
  BY DEF TurnInv
<1>2. ASSUME \A p \in Posts : PostQuiet(p), \A v \in Tabs \ {u} : TabSame(v), TabQuiet(u)
      PROVE  \A v \in Tabs : TabQuiet(v)
  BY <1>2, SameTabQuiet
<1>3. CASE Send(u)
  <2> DEFINE n == sent[u] + 1
             c == <<u, n, 1>>
  <2>1. /\ run[u] = "idle"
        /\ turn' = [turn EXCEPT ![c] = Posted(sid[u])]
        /\ sent' = [sent EXCEPT ![u] = n] /\ attempt' = [attempt EXCEPT ![u] = 1]
        /\ run' = [run EXCEPT ![u] = "waiting"] /\ sid' = sid /\ late' = late
        /\ screen' = [screen EXCEPT ![u] = Append(screen[u], n)]
        /\ n \in 1..MaxMessages /\ sent[u] \in Nat /\ n > sent[u] /\ attempt[u] \in Int
        /\ screen[u] \in Seq(1..MaxMessages)
    BY <1>1, <1>3 DEF Send, TypeOK
  <2>2. c \in Posts
    BY <2>1 DEF Posts
  <2>3. turn'[c] = Posted(sid[u]) /\ \A p \in Posts \ {c} : turn'[p] = turn[p]
    BY <1>1, <2>1, <2>2 DEF TypeOK
  <2>4. \A v \in Tabs \ {u} : TabSame(v)
    BY <1>1, <2>1 DEF TabSame, TypeOK
  <2>5. /\ sent'[u] = n /\ attempt'[u] = 1
        /\ screen'[u] = Append(screen[u], n)
    BY <1>1, <2>1 DEF TypeOK
  <2>6. Range(screen[u]) \subseteq Range(screen'[u]) /\ n \in Range(screen'[u])
    <3> HIDE DEF n
    <3>1. n \in 1..MaxMessages /\ screen[u] \in Seq(1..MaxMessages)
      BY <2>1
    <3>2. Range(Append(screen[u], n)) = Range(screen[u]) \cup {n}
      BY <3>1, AppendRange
    <3> QED BY <2>5, <3>2
  <2>7. PostQuiet(c)
    <3>1. c[1] = u /\ c[2] = n /\ c[3] = 1
      OBVIOUS
    <3> HIDE DEF c
    <3>2. ~(c[2] < sent[u]) /\ ~(c[2] = sent[u] /\ c[3] <= attempt[u])
      BY <2>1, <3>1
    <3> QED BY <2>2, <2>3, <2>6, <3>1, <3>2, PostedQuiet
  <2>8. \A p \in Posts : PostQuiet(p)
    BY <2>3, <2>7, SamePosts
  <2>9. turn'[Current(u)'].session = sid[u]
    BY <2>3, <2>5 DEF Current, Posted
  <2>10. \A s \in Sessions : Live(u, s)' => Live(u, s)
    BY <2>1, <2>9 DEF Live
  <2>11. TabQuiet(u)
    BY <2>1, <2>6, <2>10 DEF TabQuiet
  <2> QED BY <1>2, <2>8, <2>4, <2>11
<1>4. CASE ReadChunk(u)
  <2>1. \A p \in Posts : PostQuiet(p)
    BY <1>4, SamePosts DEF ReadChunk
  <2>2. \A v \in Tabs \ {u} : TabSame(v)
    BY <1>1, <1>4 DEF ReadChunk, TabSame, TypeOK
  <2>3. TabQuiet(u)
    BY <1>4 DEF ReadChunk, TabQuiet, Live, Current
  <2> QED BY <1>2, <2>1, <2>2, <2>3
<1>5. CASE ReadDone(u)
  <2> DEFINE c == Current(u)
             r == turn[c].session
  <2>1. /\ run[u] # "idle" /\ UNCHANGED <<screen, sent, attempt, late>>
        /\ sid' = [sid EXCEPT ![u] = r] /\ run' = [run EXCEPT ![u] = "idle"]
        /\ turn' = [turn EXCEPT ![c] = Over]
    BY <1>5 DEF ReadDone
  <2>2. c \in Posts /\ c[1] = u
    BY <2>1, CurrentPost
  <2>3. \A p \in Posts : PostQuiet(p)
    BY <1>1, <2>1, <2>2, SamePosts, OverQuiet DEF TypeOK
  <2>4. sid'[u] = r /\ run'[u] = "idle" /\ \A v \in Tabs \ {u} : TabSame(v)
    BY <1>1, <2>1 DEF TabSame, TypeOK
  <2>5. TabQuiet(u)
    BY <2>1, <2>2, <2>4 DEF TabQuiet, Live
  <2> QED BY <1>2, <2>3, <2>4, <2>5
<1>6. CASE Retry(u)
  <2> DEFINE c == Current(u)
             d == <<u, sent[u], 2>>
  <2>1. /\ run[u] # "idle" /\ attempt[u] = 1
        /\ attempt' = [attempt EXCEPT ![u] = 2]
        /\ turn' = [turn EXCEPT ![c] = Dropped(c), ![d] = Posted(sid[u])]
        /\ late' = IF turn[c].stage = "posted"
                   THEN [late EXCEPT ![u] = late[u] \cup {sent[u]}] ELSE late
        /\ UNCHANGED <<screen, sid, run, sent>>
    BY <1>6 DEF Retry, Leave
  <2>2. /\ c \in Posts /\ c[1] = u /\ c[2] = sent[u] /\ c[3] = 1
        /\ d \in Posts /\ d[1] = u /\ d[2] = sent[u] /\ d[3] = 2 /\ c # d
    BY <2>1, CurrentPost DEF Posts
  <2>3. Dropped(c) = turn[c] \/ Dropped(c) = Over
    BY DEF Dropped
  <2>4. sent[u] \in Int /\ attempt'[u] = 2 /\ sent'[u] = sent[u]
    BY <1>1, <2>1 DEF TypeOK
  <2>5. turn'[d] = Posted(sid[u]) /\ d = Current(u)'
    BY <1>1, <2>1, <2>2, <2>4 DEF TypeOK, Current
  <2>6. late[u] \subseteq late'[u] /\ \A v \in Tabs \ {u} : late'[v] = late[v]
    BY <1>1, <2>1 DEF TypeOK
  <2> HIDE DEF c, d
  <2>7. \A p \in Posts \ {d} : turn'[p] = turn[p] \/ turn'[p] = Over
    BY <1>1, <2>1, <2>2, <2>3 DEF TypeOK
  <2>8. PostQuiet(d)
    <3>1. /\ turn'[d] = Posted(sid[d[1]]) /\ ~(d[2] < sent[d[1]])
          /\ ~(d[2] = sent[d[1]] /\ d[3] <= attempt[d[1]])
          /\ d[2] \in Range(screen'[d[1]])
      BY <1>1, <2>1, <2>2, <2>4, <2>5 DEF TabInv
    <3> QED BY <2>2, <3>1, PostedQuiet
  <2>9. \A p \in Posts : PostQuiet(p)
    BY <2>7, <2>8, SamePosts, OverQuiet
  <2>10. \A v \in Tabs \ {u} : TabSame(v)
    BY <1>1, <2>1, <2>6 DEF TabSame, TypeOK
  <2>11. turn'[Current(u)'].session = sid[u]
    BY <2>5 DEF Posted
  <2>12. TabQuiet(u)
    BY <2>1, <2>11, <2>6 DEF TabQuiet, Live
  <2> QED BY <1>2, <2>9, <2>10, <2>12
<1>7. CASE GiveUp(u) \/ NewConversation(u)
  <2>1. /\ run[u] # "idle" \/ screen[u] # <<>>
        /\ run' = [run EXCEPT ![u] = "idle"] /\ Disconnect(u)
        /\ UNCHANGED <<sent, attempt>>
    BY <1>7 DEF GiveUp, NewConversation
  <2>2. /\ \A p \in Posts : PostQuiet(p)
        /\ late[u] \subseteq late'[u] /\ \A v \in Tabs \ {u} : late'[v] = late[v]
    BY <2>1, Disconnected, SamePosts, OverQuiet
  <2>3. run'[u] = "idle"
    BY <1>1, <2>1 DEF TypeOK
  <2>4. CASE UNCHANGED <<screen, sid>>
    <3>1. \A v \in Tabs \ {u} : TabSame(v)
      BY <1>1, <2>1, <2>2, <2>4 DEF TabSame, TypeOK
    <3>2. TabQuiet(u)
      BY <2>2, <2>3, <2>4 DEF TabQuiet, Live
    <3> QED BY <1>2, <2>2, <3>1, <3>2
  <2>5. CASE screen' = [screen EXCEPT ![u] = <<>>] /\ sid' = [sid EXCEPT ![u] = NoSession]
    <3>1. \A v \in Tabs \ {u} : TabSame(v)
      BY <1>1, <2>1, <2>2, <2>5 DEF TabSame, TypeOK
    <3>2. sid'[u] = NoSession
      BY <1>1, <2>5 DEF TypeOK
    <3>3. TabQuiet(u)
      BY <2>2, <2>3, <3>2, ConversationConstants DEF TabQuiet, Live
    <3> QED BY <1>2, <2>2, <3>1, <3>3
  <2> QED BY <1>7, <2>4, <2>5 DEF GiveUp, NewConversation
<1> QED BY <1>3, <1>4, <1>5, <1>6, <1>7 DEF TabStep


LEMMA SaveQuiet ==
    ASSUME TurnInv, NEW p \in Posts, turn[p].stage \in {"working", "streaming"},
           Save(turn[p].session, turn[p].hist)
    PROVE  StoreQuiet
<1>1. PICK s \in Sessions : s = turn[p].session
  BY TurnSaves
<1>2. PICK h \in Histories : h = turn[p].hist
  BY TurnSaves
<1>3. /\ Stored(s)' = h
      /\ \A t \in Sessions \ {s} : Stored(t)' \in {Stored(t), NoHistory}
  BY <1>1, <1>2, SaveStep DEF TurnInv
<1> QED BY <1>1, <1>2, <1>3 DEF StoreQuiet

LEMMA TurnStepQuiet ==
    ASSUME TurnInv, UNCHANGED tabVars,
           \/ \E p \in Posts : SaveRound(p) \/ Stream(p) \/ Reply(p) \/ TurnEnds(p)
           \/ \E s \in Foreign : OtherUser(s)
           \/ Restart
           \/ Time
           \/ UNCHANGED <<storeVars, turn>>
    PROVE  /\ \A p \in Posts : PostQuiet(p)
           /\ \A u \in Tabs : TabQuiet(u)
           /\ StoreQuiet
<1>1. /\ TypeOK /\ StoreInv
      /\ \A u \in Tabs : TabSame(u)
  BY DEF TurnInv, tabVars, TabSame
<1>2. (\A p \in Posts : PostQuiet(p)) => \A u \in Tabs : TabQuiet(u)
  BY <1>1, SameTabQuiet
<1>3. ASSUME NEW p \in Posts, SaveRound(p)
      PROVE  StoreQuiet /\ \A q \in Posts : PostQuiet(q)
  BY <1>3, SaveQuiet, SamePosts DEF SaveRound
<1>4. ASSUME NEW p \in Posts, Stream(p)
      PROVE  StoreQuiet /\ \A q \in Posts : PostQuiet(q)
  <2> DEFINE t == [turn[p] EXCEPT !.stage = "streaming"]
  <2>1. /\ turn' = [turn EXCEPT ![p] = t] /\ StoreQuiet
    BY <1>4, SameStore DEF Stream
  <2>2. t.stage = "streaming" /\ t.session = turn[p].session /\ t.hist = turn[p].hist
    BY <1>1 DEF TypeOK, Turn
  <2> HIDE DEF t
  <2>3. turn'[p] = t /\ \A q \in Posts \ {p} : turn'[q] = turn[q]
    BY <1>1, <2>1 DEF TypeOK
  <2>4. PostQuiet(p)
    BY <2>2, <2>3 DEF PostQuiet
  <2> QED BY <2>1, <2>3, <2>4, SamePosts
<1>5. ASSUME NEW p \in Posts, Reply(p)
      PROVE  StoreQuiet /\ \A q \in Posts : PostQuiet(q)
  <2> DEFINE t == [turn[p] EXCEPT !.stage = "replied", !.hist = <<>>]
  <2>1. /\ turn' = [turn EXCEPT ![p] = t] \/ turn' = [turn EXCEPT ![p] = Over]
        /\ StoreQuiet
    BY <1>5, SaveQuiet DEF Reply
  <2>2. t.stage = "replied" /\ t.session = turn[p].session /\ t.hist = NoHistory
    BY <1>1 DEF TypeOK, Turn, NoHistory
  <2> HIDE DEF t
  <2>3. /\ turn'[p] = t \/ turn'[p] = Over
        /\ \A q \in Posts \ {p} : turn'[q] = turn[q]
    BY <1>1, <2>1 DEF TypeOK
  <2>4. PostQuiet(p)
    BY <2>2, <2>3, OverQuiet DEF PostQuiet
  <2> QED BY <2>1, <2>3, <2>4, SamePosts
<1>6. ASSUME NEW p \in Posts, TurnEnds(p)
      PROVE  StoreQuiet /\ \A q \in Posts : PostQuiet(q)
  <2>1. turn' = [turn EXCEPT ![p] = Over] /\ StoreQuiet
    BY <1>6, SameStore DEF TurnEnds
  <2>2. \A q \in Posts : turn'[q] = turn[q] \/ turn'[q] = Over
    BY <1>1, <2>1 DEF TypeOK
  <2> QED BY <2>1, <2>2, SamePosts, OverQuiet
<1>7. ASSUME NEW s \in Foreign, OtherUser(s)
      PROVE  StoreQuiet /\ \A q \in Posts : PostQuiet(q)
  <2>1. StoreQuiet
    BY <1>7, OtherUserKeeps DEF StoreQuiet
  <2> QED BY <1>7, <2>1, SamePosts DEF OtherUser
<1>8. ASSUME Restart
      PROVE  StoreQuiet /\ \A q \in Posts : PostQuiet(q)
  <2>1. StoreQuiet
    BY <1>1, <1>8, RestartStep DEF Restart, StoreQuiet
  <2>2. \A q \in Posts : turn'[q] = turn[q] \/ turn'[q] = Over
    BY <1>8 DEF Restart
  <2> QED BY <2>1, <2>2, SamePosts, OverQuiet
<1>9. ASSUME Time
      PROVE  StoreQuiet /\ \A q \in Posts : PostQuiet(q)
  <2>1. StoreQuiet
    BY <1>1, <1>9, TickStep DEF Time, StoreQuiet
  <2> QED BY <1>9, <2>1, SamePosts DEF Time
<1>10. ASSUME UNCHANGED <<storeVars, turn>>
       PROVE  StoreQuiet /\ \A q \in Posts : PostQuiet(q)
  BY <1>10, SameStore, SamePosts
<1> QED BY <1>2, <1>3, <1>4, <1>5, <1>6, <1>7, <1>8, <1>9, <1>10

(* A turn begins with what its session has, or, under a new id, with nothing,*)
(* and with a message that is the last one of its tab, or was left by it.    *)
LEMMA AcceptOnScreen ==
    ASSUME TurnInv, TurnInv', OneOwner, LiveOnScreen,
           \A s \in Sessions : Stored(s) \in {lastSaved[s], NoHistory},
           NEW p \in Posts, Accept(p)
    PROVE  OneOwner' /\ LiveOnScreen'
<1>1. PICK s \in Sessions :
        /\ IF turn[p].session = NoSession THEN Fresh(s) ELSE s = turn[p].session
        /\ turn' = [turn EXCEPT ![p] =
                       [stage |-> "working", session |-> s,
                        hist |-> Append(Stored(s), [tab |-> p[1], n |-> p[2]])]]
        /\ Get(s)
  BY DEF Accept
<1> DEFINE u == p[1]
           n == p[2]
           h == Append(Stored(s), [tab |-> u, n |-> n])
<1>2. /\ TypeOK /\ StoreInv /\ PostInv(p) /\ turn[p].stage = "posted"
      /\ UNCHANGED <<screen, sid, run, sent, attempt, late>>
      /\ u \in Tabs /\ TabInv(u) /\ n \in 1..MaxMessages /\ p[3] \in {1, 2}
      /\ p = <<u, n, p[3]>>
  BY DEF TurnInv, Accept, tabVars, Posts
<1>3. \A t \in Sessions : Stored(t)' = Stored(t)
  BY <1>1, <1>2, GetStep
<1>4. /\ turn'[p].stage = "working" /\ turn'[p].session = s /\ turn'[p].hist = h
      /\ \A q \in Posts \ {p} : turn'[q] = turn[q]
  BY <1>1, <1>2 DEF TypeOK
<1>5. IF Awaited(p) THEN turn[p].session = sid[u] ELSE n \in late[u]
  BY <1>2 DEF PostInv
<1> HIDE DEF h
<1>6. \/ s = turn[p].session
      \/ /\ turn[p].session = NoSession /\ Fresh(s)
         /\ \A v \in Tabs : ~Uses(v, s)
  <2>1. CASE turn[p].session = NoSession
    <3>1. Fresh(s)
      BY <1>1, <2>1
    <3>2. \A v \in Tabs : sid[v] # s
      BY <3>1 DEF Fresh, TurnInv, TabInv
    <3> QED BY <2>1, <3>1, <3>2 DEF Fresh, Uses
  <2>2. CASE turn[p].session # NoSession
    BY <1>1, <2>2
  <2> QED BY <2>1, <2>2
<1>7. ASSUME NEW v \in Tabs, NEW r \in Sessions, Uses(v, r)'
      PROVE  Uses(v, r) \/ (v = u /\ r = s)
  BY <1>2, <1>4, <1>7 DEF Uses
<1>8. Uses(u, s) \/ \A v \in Tabs : ~Uses(v, s)
  BY <1>2, <1>6 DEF Uses
<1>9. OneOwner'
  BY <1>7, <1>8 DEF OneOwner
<1>10. ASSUME NEW v \in Tabs, NEW r \in Sessions, Live(v, r)'
       PROVE  Live(v, r) \/ (v = u /\ r = s)
  <2>1. CASE sid[v] = r
    BY <2>1 DEF Live
  <2>2. CASE run[v] # "idle" /\ turn'[Current(v)].session = r
    <3>1. Current(v) \in Posts /\ Current(v)[1] = v
      BY <2>2, CurrentPost
    <3> QED BY <1>4, <2>2, <3>1 DEF Live
  <2>3. Current(v)' = Current(v)
    BY <1>2 DEF Current
  <2> QED BY <1>2, <1>10, <2>1, <2>2, <2>3 DEF Live
<1>11. ASSUME NEW v \in Tabs
       PROVE  /\ Counts(v) \in [1..MaxMessages -> Nat]
              /\ Counts(v)' \in [1..MaxMessages -> Nat]
              /\ \A x \in 1..MaxMessages : Counts(v)[x] <= Counts(v)'[x]
              /\ Range(screen[v]) \subseteq 1..MaxMessages
  <2>1. \A q \in Posts : turn[q].stage \notin {"none", "posted"}
                            => turn'[q].stage \notin {"none", "posted"}
    BY <1>4
  <2> QED BY <2>1, CountsGrow, ShownTypes
<1>12. Counts(u)[n] + 1 <= Counts(u)'[n]
  <2>1. /\ Begun(u, n) \in SUBSET {1, 2} /\ Begun(u, n)' \in SUBSET {1, 2}
        /\ Begun(u, n) \subseteq Begun(u, n)'
        /\ p[3] \in Begun(u, n)' /\ p[3] \notin Begun(u, n)
    <3>1. \A a \in {1, 2} : <<u, n, a>> \in Posts
      BY <1>2 DEF Posts
    <3> QED BY <1>2, <1>4, <3>1 DEF Begun
  <2>2. Cardinality(Begun(u, n)) + 1 <= Cardinality(Begun(u, n)')
    BY <2>1, BegunCounts
  <2> QED BY <1>2, <2>2 DEF Counts
<1>13. ASSUME Live(u, s)
       PROVE  s = turn[p].session /\ n \in Range(screen[u])
  <2>1. s = turn[p].session
    BY <1>2, <1>6, <1>13, UsedSession
  <2> QED BY <1>2, <1>13, <2>1 DEF LiveOnScreen
<1>14. ASSUME Live(u, s)', ~Live(u, s)
       PROVE  Awaited(p) /\ Fresh(s)
  <2>1. run[u] # "idle" /\ turn'[Current(u)].session = s /\ sid[u] # s
    <3>1. Current(u)' = Current(u)
      BY <1>2 DEF Current
    <3> QED BY <1>2, <1>14, <3>1 DEF Live
  <2>2. Current(u) \in Posts
    BY <1>2, <2>1, CurrentPost
  <2>3. p = Current(u)
    BY <1>4, <1>14, <2>1, <2>2 DEF Live
  <2> QED BY <1>5, <1>6, <2>1, <2>3 DEF Awaited
<1>15. ASSUME Live(u, s)'
       PROVE  /\ Shown(u, Stored(s), Range(screen[u]), Counts(u), late[u])
              /\ Stored(s) \in Seq(Messages)
  <2>1. CASE Live(u, s)
    BY <1>2, <2>1, StoredType DEF LiveOnScreen, OnScreen
  <2>2. CASE Fresh(s)
    <3>1. Stored(s) = NoHistory
      BY <2>2 DEF Fresh
    <3>2. Stored(s) \in Seq(Messages)
      BY <1>2, StoredType
    <3> QED BY <3>1, <3>2 DEF Shown, NoHistory
  <2> QED BY <1>15, <1>14, <2>1, <2>2
<1>16. ASSUME Live(u, s)'
       PROVE  Shown(u, h, Range(screen[u]), Counts(u)', late[u])
  <2>1. n \in Range(screen[u]) /\ (n \in late[u] \/ \A x \in Range(screen[u]) : x <= n)
    <3>1. CASE Awaited(p)
      <4>1. run[u] # "idle" /\ n = sent[u]
        BY <3>1 DEF Awaited, Current
      <4> QED BY <1>2, <4>1 DEF TabInv
    <3>2. CASE ~Awaited(p)
      BY <1>5, <1>16, <1>13, <1>14, <3>2
    <3> QED BY <3>1, <3>2
  <2> DEFINE S == Range(screen[u])
             b == Counts(u)
             b2 == Counts(u)'
             g == Stored(s)
             L == late[u]
  <2>2. /\ g \in Seq(Messages) /\ S \in SUBSET (1..MaxMessages)
        /\ b \in [1..MaxMessages -> Nat] /\ b2 \in [1..MaxMessages -> Nat]
        /\ \A x \in 1..MaxMessages : b[x] <= b2[x]
        /\ b[n] + 1 <= b2[n] /\ Shown(u, g, S, b, L)
        /\ n \in S /\ (n \in L \/ \A x \in S : x <= n)
    BY <1>2, <1>11, <1>12, <1>15, <1>16, <2>1
  <2> HIDE DEF S, b, b2, g, L
  <2>3. Shown(u, Append(g, [tab |-> u, n |-> n]), S, b2, L)
    BY <1>2, <2>2, ShownAppend
  <2> QED BY <2>3 DEF h, S, b2, g, L
<1>17. ASSUME NEW v \in Tabs, NEW g, g \in Seq(Messages),
              Shown(v, g, Range(screen[v]), Counts(v), late[v])
       PROVE  Shown(v, g, Range(screen[v]), Counts(v)', late[v])
  BY <1>11, <1>17, ShownStays
<1>18. ASSUME NEW v \in Tabs, NEW r \in Sessions, Live(v, r)'
       PROVE  /\ Shown(v, Stored(r), Range(screen[v]), Counts(v)', late[v])
              /\ \A q \in Posts : turn'[q].session = r =>
                    /\ Shown(v, turn'[q].hist, Range(screen[v]), Counts(v)', late[v])
                    /\ turn'[q].stage = "posted" /\ q[1] = v => q[2] \in Range(screen[v])
  <2>1. Stored(r) \in Seq(Messages)
    BY <1>2, StoredType
  <2>2. \A q \in Posts : turn[q].hist \in Seq(Messages)
    BY <1>2 DEF TypeOK, Turn
  <2>3. CASE Live(v, r)
    <3>1. Shown(v, Stored(r), Range(screen[v]), Counts(v)', late[v])
      BY <1>17, <2>1, <2>3 DEF LiveOnScreen, OnScreen
    <3>2. ASSUME NEW q \in Posts \ {p}, turn[q].session = r
          PROVE  /\ Shown(v, turn[q].hist, Range(screen[v]), Counts(v)', late[v])
                 /\ turn[q].stage = "posted" /\ q[1] = v => q[2] \in Range(screen[v])
      BY <1>17, <2>2, <2>3, <3>2 DEF LiveOnScreen, OnScreen
    <3>3. r = s => v = u
      <4>1. Uses(v, r)
        BY <2>3, UsedSession
      <4> QED BY <1>2, <1>8, <4>1 DEF OneOwner
    <3> QED BY <1>4, <1>16, <1>18, <3>1, <3>2, <3>3
  <2>4. CASE v = u /\ r = s /\ ~Live(v, r)
    <3>1. Fresh(s)
      BY <1>18, <1>14, <2>4
    <3>2. \A q \in Posts \ {p} : turn'[q].session # s
      BY <1>4, <3>1 DEF Fresh
    <3>3. Shown(u, Stored(s), Range(screen[u]), Counts(u)', late[u])
      BY <1>2, <1>15, <1>17, <1>18, <2>4
    <3> QED BY <1>4, <1>16, <1>18, <2>4, <3>2, <3>3
  <2> QED BY <1>10, <1>18, <2>3, <2>4
<1>19. LiveOnScreen'
  BY <1>2, <1>3, <1>18 DEF LiveOnScreen, OnScreen
<1> QED BY <1>9, <1>19


\* What the screen of a tab has to do with the session behind it.
ScreenInv == OneOwner /\ LiveOnScreen

LEMMA ScreenStep ==
    ASSUME TurnInv, TurnInv', ScreenInv,
           \A s \in Sessions : Stored(s) \in {lastSaved[s], NoHistory},
           [Next]_vars
    PROVE  ScreenInv'
<1>1. ASSUME NEW p \in Posts, Accept(p)
      PROVE  ScreenInv'
  BY <1>1, AcceptOnScreen DEF ScreenInv
<1>2. ASSUME NEW u \in Tabs, TabStep(u)
      PROVE  ScreenInv'
  <2>1. StoreQuiet
    BY <1>2, SameStore
    DEF TabStep, Send, ReadChunk, ReadDone, Retry, GiveUp, NewConversation
  <2> QED BY <1>2, <2>1, TabStepQuiet, QuietOwner, QuietOnScreen DEF ScreenInv
<1>3. ASSUME UNCHANGED tabVars,
             \/ \E p \in Posts : SaveRound(p) \/ Stream(p) \/ Reply(p) \/ TurnEnds(p)
             \/ \E s \in Foreign : OtherUser(s)
             \/ Restart
             \/ Time
             \/ UNCHANGED <<storeVars, turn>>
      PROVE  ScreenInv'
  BY <1>3, TurnStepQuiet, QuietOwner, QuietOnScreen DEF ScreenInv
<1>4. \A p \in Posts : SaveRound(p) \/ Stream(p) \/ Reply(p) \/ TurnEnds(p)
                         => UNCHANGED tabVars
  BY DEF SaveRound, Stream, Reply, TurnEnds
<1>5. Restart \/ Time \/ (\E s \in Foreign : OtherUser(s)) \/ UNCHANGED vars
        => UNCHANGED tabVars
  BY DEF Restart, Time, OtherUser, vars
<1>6. UNCHANGED vars => UNCHANGED <<storeVars, turn>>
  BY DEF vars
<1> QED BY <1>1, <1>2, <1>3, <1>4, <1>5, <1>6 DEF Next, TurnStep

LEMMA ScreenStarts == ASSUME Init PROVE ScreenInv
<1>1. \A u \in Tabs, s \in Sessions : ~Uses(u, s)
  BY ConversationConstants DEF Init, Uses, NoTurn
<1>2. \A u \in Tabs, s \in Sessions : ~Live(u, s)
  BY ConversationConstants DEF Init, Live
<1> QED BY <1>1, <1>2 DEF ScreenInv, OneOwner, LiveOnScreen

(* A message is begun no more often than it was posted, and a session that   *)
(* a tab knows is live.                                                      *)
LEMMA ScreenShows == ASSUME TurnInv, ScreenInv PROVE HistoryOnScreen
<1> SUFFICES ASSUME NEW u \in Tabs
             PROVE  LET h == IF sid[u] = NoSession THEN <<>> ELSE Stored(sid[u])
                    IN /\ \A i \in DOMAIN h :
                            /\ h[i].tab = u
                            /\ h[i].n \in Range(screen[u])
                            /\ Times(h, h[i].n) <= PostsOf(u, h[i].n)
                       /\ \A i, j \in DOMAIN h :
                            i < j => h[i].n <= h[j].n \/ h[j].n \in late[u]
  BY DEF HistoryOnScreen
<1> DEFINE h == IF sid[u] = NoSession THEN <<>> ELSE Stored(sid[u])
<1>1. Shown(u, h, Range(screen[u]), Counts(u), late[u]) /\ h \in Seq(Messages)
  <2>1. CASE sid[u] = NoSession
    BY <2>1 DEF Shown
  <2>2. CASE sid[u] # NoSession
    <3>1. sid[u] \in Sessions /\ Live(u, sid[u])
      BY <2>2 DEF TurnInv, TypeOK, Live
    <3> QED BY <2>2, <3>1, StoredType DEF ScreenInv, LiveOnScreen, OnScreen, TurnInv
  <2> QED BY <2>1, <2>2
<1> HIDE DEF h
<1>2. ASSUME NEW n \in 1..MaxMessages, NEW t \in Nat, t <= Counts(u)[n]
      PROVE  t <= PostsOf(u, n)
  <2> DEFINE A == Begun(u, n)
             B == {a \in {1, 2} : turn[<<u, n, a>>].stage # "none"}
  <2>1. A \in SUBSET {1, 2} /\ B \in SUBSET {1, 2} /\ A \subseteq B
    BY DEF Begun
  <2>2. Counts(u)[n] = Cardinality(A) /\ PostsOf(u, n) = Cardinality(B)
    BY DEF Counts, PostsOf
  <2> HIDE DEF A, B
  <2>3. /\ Cardinality(A) \in Nat /\ Cardinality(B) \in Nat
        /\ Cardinality(A) <= Cardinality(B)
    BY <2>1, BegunCounts
  <2> QED BY <1>2, <2>2, <2>3
<1>3. ASSUME NEW i \in DOMAIN h
      PROVE  Times(h, h[i].n) <= PostsOf(u, h[i].n)
  <2>1. h[i].n \in 1..MaxMessages /\ Times(h, h[i].n) <= Counts(u)[h[i].n]
    BY <1>1, ShownTypes DEF Shown
  <2>2. Times(h, h[i].n) \in Nat
    <3>1. {k \in DOMAIN h : h[k].n = h[i].n} \in SUBSET (1..Len(h)) /\ Len(h) \in Nat
      BY <1>1
    <3>2. IsFiniteSet(1..Len(h))
      BY <3>1, FS_Interval
    <3> QED BY <3>1, <3>2, FS_Subset, FS_CardinalityType DEF Times
  <2> QED BY <1>2, <2>1, <2>2
<1> QED BY <1>1, <1>3 DEF Shown, h

(* What the model remembers under the session of a tab is on its screen, in  *)
(* order but for the messages that the tab left before they were begun.      *)
THEOREM ConversationHistoryOnScreen == Spec => []HistoryOnScreen
<1>1. Init => ScreenInv
  BY ScreenStarts
<1>2. /\ TurnInv /\ TurnInv' /\ ScreenInv /\ [Next]_vars
      /\ \A s \in Sessions : Stored(s) \in {lastSaved[s], NoHistory}
      => ScreenInv'
  BY ScreenStep
<1>3. TurnInv /\ ScreenInv => HistoryOnScreen
  BY ScreenShows
<1> QED BY <1>1, <1>2, <1>3, ConversationInvariant, ConversationReadsLastSave, PTL DEF Spec


=============================================================================
