--------------------------- MODULE RerankerProofs ----------------------------
(***************************************************************************)
(* For any number of calls and worker threads: the lock is always with the *)
(* call that awaits the loading, its queue holds the calls that wait, each *)
(* once, and one thread at a time constructs the cross-encoder, whatever   *)
(* is cancelled, but for the threads that cancelled calls have left.       *)
(***************************************************************************)
EXTENDS Reranker, FiniteSetTheorems, TLAPS

-----------------------------------------------------------------------------
(* The lock and the threads.                                                 *)

\* The type, without the queue.
StateOK ==
    /\ loaded \in BOOLEAN
    /\ lock \in Calls \cup {NoCall}
    /\ pc \in [Calls -> Places]
    /\ thread \in [Calls -> Threads]

\* Before the model is there, work is handed to a thread under the lock only,
\* and the call keeps the lock until the thread has finished, or is cancelled.
\* Without cancellation nothing is constructed once the model is there.
LoadsUnderLock ==
    \A c \in Calls :
        /\ thread[c] = "queued" => lock = c \/ loaded
        /\ thread[c] = "constructing" => lock = c \/ pc[c] = "cancelled"
        /\ thread[c] = "constructing" /\ loaded => \E d \in Calls : pc[d] = "cancelled"

RerankerInv ==
    /\ StateOK
    /\ LockHasLoader
    /\ LoadsUnderLock

(* Every step of the coroutines and of the threads keeps the invariant.      *)
LEMMA RerankerInvStep ==
    ASSUME RerankerInv, [Next]_vars
    PROVE  RerankerInv'
<1> USE RerankerConstants
    DEF RerankerInv, StateOK, LockHasLoader, LoadsUnderLock, Places, Threads,
        Goto, ThreadGoto
<1>1. ASSUME NEW c \in Calls, Rerank(c)
      PROVE  RerankerInv'
  BY <1>1 DEF Rerank
<1>2. ASSUME NEW c \in Calls, Acquire(c)
      PROVE  RerankerInv'
  BY <1>2 DEF Acquire
<1>3. ASSUME NEW c \in Calls, Return(c)
      PROVE  RerankerInv'
  BY <1>3 DEF Return, Release
<1>4. ASSUME NEW c \in Calls, CancelWaiting(c) \/ CancelRunning(c)
      PROVE  RerankerInv'
  <2>1. CASE CancelWaiting(c)
    BY <2>1 DEF CancelWaiting
  <2>2. CASE CancelRunning(c)
    BY <2>2 DEF CancelRunning, Release
  <2> QED BY <1>4, <2>1, <2>2
<1>5. ASSUME NEW c \in Calls, Start(c)
      PROVE  RerankerInv'
  BY <1>5 DEF Start
<1>6. ASSUME NEW c \in Calls, Construct(c)
      PROVE  RerankerInv'
  BY <1>6 DEF Construct
<1>7. ASSUME NEW c \in Calls, Predict(c)
      PROVE  RerankerInv'
  BY <1>7 DEF Predict
<1>8. CASE UNCHANGED vars
  BY <1>8 DEF vars
<1> QED
  BY <1>1, <1>2, <1>3, <1>4, <1>5, <1>6, <1>7, <1>8 DEF Next, Step

(* The threads that construct are at most that of the lock's holder and      *)
(* those of cancelled calls.                                                 *)
LEMMA RerankerInvConstructs ==
    ASSUME RerankerInv
    PROVE  OnlyOrphansBeside
<1> DEFINE constructing == {c \in Calls : thread[c] = "constructing"}
           cancelled == {c \in Calls : pc[c] = "cancelled"}
<1>1. constructing \ cancelled \in SUBSET {lock}
  BY DEF RerankerInv, LoadsUnderLock
<1>2. Cardinality(constructing \ cancelled) <= 1
  <2>1. IsFiniteSet({lock}) /\ Cardinality({lock}) = 1
    BY FS_Singleton
  <2>2. Cardinality(constructing \ cancelled) <= Cardinality({lock})
    BY <1>1, <2>1, FS_Subset
  <2> QED BY <2>1, <2>2
<1>3. loaded /\ constructing # {} => cancelled # {}
  BY DEF RerankerInv, LoadsUnderLock
<1> QED BY <1>2, <1>3 DEF OnlyOrphansBeside

(* The invariant holds whatever is raised or cancelled.                      *)
THEOREM RerankerInvariant == Spec => []RerankerInv
<1>1. Init => RerankerInv
  BY RerankerConstants
  DEF Init, RerankerInv, StateOK, LockHasLoader, LoadsUnderLock, Places, Threads
<1> QED BY <1>1, RerankerInvStep, PTL DEF Spec

(* The cross-encoder is constructed by one thread at a time, and never again *)
(* once it is there, but for the threads that cancelled calls have left.     *)
THEOREM RerankerConstructsOnce == Spec => []OnlyOrphansBeside
BY RerankerInvConstructs, RerankerInvariant, PTL

(* The lock is never left behind by an exception or a cancellation.          *)
THEOREM RerankerLockHasLoader == Spec => []LockHasLoader
<1>1. RerankerInv => LockHasLoader
  BY DEF RerankerInv
<1> QED BY <1>1, RerankerInvariant, PTL

-----------------------------------------------------------------------------
(* The queue of the lock.                                                    *)

QueueInv ==
    /\ waiting \in Seq(Calls)
    /\ IsInjective(waiting)
    /\ \A c \in Calls : pc[c] = "waiting" <=> c \in Range(waiting)

(* A call that comes is appended.                                            *)
LEMMA QueueAppend ==
    ASSUME NEW q \in Seq(Calls), IsInjective(q), NEW c \in Calls, c \notin Range(q)
    PROVE  /\ Append(q, c) \in Seq(Calls) /\ IsInjective(Append(q, c))
           /\ Range(Append(q, c)) = Range(q) \cup {c}
<1> DEFINE more == Append(q, c)
<1>1. /\ more \in Seq(Calls) /\ Len(q) \in Nat
      /\ DOMAIN q = 1..Len(q) /\ DOMAIN more = 1..Len(q) + 1
      /\ more[Len(q) + 1] = c /\ \A i \in 1..Len(q) : more[i] = q[i]
  OBVIOUS
<1> HIDE DEF more
<1>2. \A i \in 1..Len(q) : q[i] # c
  BY <1>1 DEF Range
<1>3. IsInjective(more)
  BY <1>1, <1>2 DEF IsInjective
<1>4. DOMAIN more = DOMAIN q \cup {Len(q) + 1}
  BY <1>1
<1>5. Range(more) = Range(q) \cup {c}
  BY <1>1, <1>4 DEF Range
<1> QED BY <1>1, <1>3, <1>5 DEF more

(* A call that is taken out, at whatever place it has, is out of the queue.  *)
LEMMA QueueRemove ==
    ASSUME NEW q \in Seq(Calls), IsInjective(q), NEW k \in DOMAIN q
    PROVE  /\ RemoveAt(q, k) \in Seq(Calls) /\ IsInjective(RemoveAt(q, k))
           /\ Range(RemoveAt(q, k)) = Range(q) \ {q[k]}
<1> DEFINE less == RemoveAt(q, k)
<1>1. /\ Len(q) \in Nat /\ k \in 1..Len(q) /\ DOMAIN q = 1..Len(q) /\ Len(q) # 0
  OBVIOUS
<1>2. /\ SubSeq(q, 1, k - 1) \in Seq(Calls) /\ Len(SubSeq(q, 1, k - 1)) = k - 1
      /\ \A i \in 1..k-1 : SubSeq(q, 1, k - 1)[i] = q[i]
  BY <1>1
<1>3. /\ SubSeq(q, k + 1, Len(q)) \in Seq(Calls) /\ Len(SubSeq(q, k + 1, Len(q))) = Len(q) - k
      /\ \A i \in 1..Len(q)-k : SubSeq(q, k + 1, Len(q))[i] = q[k + i]
  BY <1>1
<1>4. /\ less \in Seq(Calls) /\ Len(less) = Len(q) - 1 /\ DOMAIN less = 1..Len(q) - 1
      /\ \A i \in 1..Len(q)-1 : less[i] = IF i < k THEN q[i] ELSE q[i + 1]
  <2> DEFINE front == SubSeq(q, 1, k - 1)
             rest  == SubSeq(q, k + 1, Len(q))
  <2>1. less = front \o rest
    BY DEF RemoveAt
  <2>2. /\ front \in Seq(Calls) /\ Len(front) = k - 1 /\ rest \in Seq(Calls)
        /\ Len(rest) = Len(q) - k
    BY <1>2, <1>3
  <2> HIDE DEF less, front, rest
  <2>3. less \in Seq(Calls) /\ Len(less) = Len(q) - 1
    <3>1. less \in Seq(Calls)
      BY <2>1, <2>2
    <3>2. Len(less) = Len(front) + Len(rest)
      BY <2>1, <2>2
    <3>3. k \in Nat /\ Len(front) + Len(rest) = Len(q) - 1
      BY <1>1, <2>2
    <3> QED BY <3>1, <3>2, <3>3
  <2>4. ASSUME NEW i \in 1..Len(q)-1
        PROVE  less[i] = IF i < k THEN q[i] ELSE q[i + 1]
    <3>1. CASE i < k
      <4>1. less[i] = front[i] /\ i \in 1..k-1
        BY <1>1, <2>1, <2>2, <3>1
      <4> QED BY <1>2, <3>1, <4>1 DEF front
    <3>2. CASE ~ i < k
      <4>1. less[i] = rest[i - (k - 1)] /\ i - (k - 1) \in 1..Len(q)-k
        <5>1. /\ i \in 1..Len(front)+Len(rest) /\ i > Len(front)
              /\ i - Len(front) = i - (k - 1)
          BY <1>1, <2>2, <3>2
        <5>2. less[i] = rest[i - Len(front)]
          <6>1. front \in Seq(Calls) /\ rest \in Seq(Calls)
            BY <2>2
          <6> QED BY <2>1, <5>1, <6>1
        <5>3. i - (k - 1) \in 1..Len(q)-k
          BY <1>1, <3>2
        <5> QED BY <5>1, <5>2, <5>3
      <4>2. k + (i - (k - 1)) = i + 1
        BY <1>1
      <4>3. rest[i - (k - 1)] = q[k + (i - (k - 1))]
        BY <1>3, <4>1 DEF rest
      <4> QED BY <3>2, <4>1, <4>2, <4>3
    <3> QED BY <3>1, <3>2
  <2>5. DOMAIN less = 1..Len(q) - 1
    BY <2>3
  <2> QED BY <2>3, <2>4, <2>5
<1> HIDE DEF less
<1>5. IsInjective(less)
  <2>1. ASSUME NEW i \in 1..Len(q)-1, NEW j \in 1..Len(q)-1, less[i] = less[j]
        PROVE  i = j
    <3> DEFINE at(n) == IF n < k THEN n ELSE n + 1
    <3>1. /\ at(i) \in 1..Len(q) /\ at(j) \in 1..Len(q) /\ (at(i) = at(j) => i = j)
          /\ at(i) \in Nat /\ at(j) \in Nat
      BY <1>1
    <3>2. less[i] = q[at(i)] /\ less[j] = q[at(j)]
      BY <1>4
    <3> HIDE DEF at
    <3> QED BY <1>1, <2>1, <3>1, <3>2 DEF IsInjective
  <2> QED BY <1>4, <2>1 DEF IsInjective
<1>6. ASSUME NEW c \in Range(less)
      PROVE  c \in Range(q) \ {q[k]}
  <2>1. PICK i \in 1..Len(q)-1 : c = less[i]
    BY <1>4, <1>6 DEF Range
  <2>2. PICK j \in 1..Len(q) : c = q[j] /\ j # k
    BY <1>1, <1>4, <2>1
  <2> QED BY <1>1, <2>2 DEF IsInjective, Range
<1>7. ASSUME NEW c \in Range(q), c # q[k]
      PROVE  c \in Range(less)
  <2>1. PICK i \in 1..Len(q) : c = q[i] /\ i # k
    BY <1>1, <1>7 DEF Range
  <2>2. PICK j \in 1..Len(q)-1 : less[j] = c
    <3>1. CASE i < k
      BY <1>1, <1>4, <2>1, <3>1
    <3>2. CASE i > k
      <4>1. i - 1 \in 1..Len(q)-1 /\ ~ i - 1 < k /\ (i - 1) + 1 = i
        BY <1>1, <2>1, <3>2
      <4> QED BY <1>4, <2>1, <4>1
    <3> QED BY <1>1, <2>1, <3>1, <3>2
  <2> QED BY <1>4, <2>2 DEF Range
<1> QED BY <1>4, <1>5, <1>6, <1>7 DEF less

(* The first in the queue is taken out by Tail.                              *)
LEMMA QueueTail ==
    ASSUME NEW q \in Seq(Calls), q # <<>>
    PROVE  1 \in DOMAIN q /\ Head(q) = q[1] /\ Tail(q) = RemoveAt(q, 1)
<1>1. Len(q) \in Nat /\ Len(q) > 0 /\ Head(q) = q[1]
  OBVIOUS
<1>2. SubSeq(q, 1, 0) = <<>> /\ SubSeq(q, 2, Len(q)) = Tail(q)
  BY <1>1
<1> QED BY <1>1, <1>2 DEF RemoveAt

(* Only three kinds of steps touch the queue, and each keeps it the queue of *)
(* the calls that wait.                                                      *)
LEMMA QueueInvStep ==
    ASSUME StateOK, QueueInv, [Next]_vars
    PROVE  QueueInv'
<1> USE DEF QueueInv, StateOK, Goto, ThreadGoto
<1>1. ASSUME NEW c \in Calls, Rerank(c)
      PROVE  QueueInv'
  <2>1. c \notin Range(waiting)
    BY <1>1 DEF Rerank
  <2>2. CASE loaded
    BY <1>1, <2>2 DEF Rerank, Places
  <2>3. CASE ~loaded
    <3>1. waiting' = Append(waiting, c) /\ pc' = [pc EXCEPT ![c] = "waiting"]
      BY <1>1, <2>3 DEF Rerank
    <3> QED BY <2>1, <3>1, QueueAppend
  <2> QED BY <2>2, <2>3
<1>2. ASSUME NEW c \in Calls, Acquire(c)
      PROVE  QueueInv'
  <2>1. waiting # <<>>
    <3>1. Range(<<>>) = {}
      BY DEF Range
    <3> QED BY <1>2, <3>1 DEF Acquire
  <2>2. 1 \in DOMAIN waiting /\ waiting[1] = c /\ waiting' = RemoveAt(waiting, 1)
    BY <1>2, <2>1, QueueTail DEF Acquire
  <2>3. \E place \in {"scoring", "loading"} : pc' = [pc EXCEPT ![c] = place]
    BY <1>2 DEF Acquire
  <2> QED BY <2>2, <2>3, QueueRemove
<1>3. ASSUME NEW c \in Calls, CancelWaiting(c)
      PROVE  QueueInv'
  <2>1. PICK i \in DOMAIN waiting : waiting[i] = c /\ waiting' = RemoveAt(waiting, i)
    BY <1>3 DEF CancelWaiting
  <2>2. pc' = [pc EXCEPT ![c] = "cancelled"]
    BY <1>3 DEF CancelWaiting
  <2> QED BY <2>1, <2>2, QueueRemove
<1>4. ASSUME NEW c \in Calls, Return(c) \/ CancelRunning(c)
      PROVE  QueueInv'
  BY <1>4 DEF Return, CancelRunning
<1>5. ASSUME NEW c \in Calls, Start(c) \/ Construct(c) \/ Predict(c)
      PROVE  QueueInv'
  BY <1>5 DEF Start, Construct, Predict
<1>6. CASE UNCHANGED vars
  BY <1>6 DEF vars
<1> QED BY <1>1, <1>2, <1>3, <1>4, <1>5, <1>6 DEF Next, Step

(* The queue holds the calls that wait, each of them once: a cancelled call  *)
(* has left it, and no call is forgotten.                                    *)
THEOREM RerankerQueue == Spec => []QueueInv
<1>1. Init => QueueInv
  <2>1. Range(<<>>) = {}
    BY DEF Range
  <2> QED BY <2>1 DEF Init, QueueInv, IsInjective
<1>2. RerankerInv => StateOK
  BY DEF RerankerInv
<1> QED BY <1>1, <1>2, QueueInvStep, RerankerInvariant, PTL DEF Spec

(* The type invariant: in particular only calls that wait are in the queue.  *)
THEOREM RerankerTypeOK == Spec => []TypeOK
<1>1. ASSUME StateOK, QueueInv
      PROVE  waiting \in Seq({c \in Calls : pc[c] = "waiting"})
  <2>1. \A i \in 1..Len(waiting) : waiting[i] \in {c \in Calls : pc[c] = "waiting"}
    BY <1>1 DEF QueueInv, Range
  <2> QED BY <1>1, <2>1 DEF QueueInv
<1>2. RerankerInv /\ QueueInv => TypeOK
  BY <1>1 DEF RerankerInv, StateOK, TypeOK
<1> QED BY <1>2, RerankerInvariant, RerankerQueue, PTL

=============================================================================
