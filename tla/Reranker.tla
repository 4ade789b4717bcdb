------------------------------ MODULE Reranker -------------------------------
(***************************************************************************)
(* app/rag/reranker.py: the cross-encoder that is loaded by the first call *)
(* of rerank, behind an asyncio.Lock, in a thread of asyncio.to_thread.    *)
(*                                                                         *)
(* A call is a coroutine (pc) and the thread it hands its work to (thread).*)
(* The coroutine can be cancelled at an await: a client that disconnects   *)
(* from the stream of app/api/chat.py ends the turn, and the search it     *)
(* runs.  Python cannot stop a thread: a thread that has begun goes on,    *)
(* while one that the executor has not started yet is taken back.          *)
(***************************************************************************)
EXTENDS Naturals, FiniteSets, Sequences, SequencesExt

CONSTANTS
    Calls,    \* calls of rerank with at least one flight
    NoCall,   \* nobody holds the lock
    Workers   \* threads of the executor

ASSUME RerankerConstants ==
    /\ NoCall \notin Calls
    /\ Workers \in Nat \ {0}

VARIABLES
    loaded,   \* _reranker is not None
    lock,     \* the call that holds _reranker_lock, or NoCall
    waiting,  \* the calls that wait for it, in order of arrival
    pc,       \* Calls -> where its coroutine is
    thread    \* Calls -> where its thread is

vars == <<loaded, lock, waiting, pc, thread>>

-----------------------------------------------------------------------------

\* "loading" awaits its thread inside the lock, "scoring" outside of it.
Places  == {"new", "waiting", "loading", "scoring", "ended", "cancelled"}
Threads == {"none", "queued", "constructing", "predicting", "finished"}

TypeOK ==
    /\ loaded \in BOOLEAN
    /\ lock \in Calls \cup {NoCall}
    /\ waiting \in Seq({c \in Calls : pc[c] = "waiting"})
    /\ pc \in [Calls -> Places]
    /\ thread \in [Calls -> Threads]

Init ==
    /\ loaded = FALSE
    /\ lock = NoCall
    /\ waiting = <<>>
    /\ pc = [c \in Calls |-> "new"]
    /\ thread = [c \in Calls |-> "none"]

Goto(c, place) == pc' = [pc EXCEPT ![c] = place]
ThreadGoto(c, place) == thread' = [thread EXCEPT ![c] = place]

Running == {c \in Calls : thread[c] \in {"constructing", "predicting"}}

-----------------------------------------------------------------------------
(* The coroutine.                                                            *)

\* (Mutant: the lock is not taken.)
RerankUnlocked(c) ==
    /\ pc[c] = "new"
    /\ Goto(c, "scoring") /\ ThreadGoto(c, "queued")
    /\ UNCHANGED <<loaded, lock, waiting>>

\* Lines 109-118 and 125: the first check.
Rerank(c) ==
    /\ pc[c] = "new"
    /\ IF loaded
       THEN Goto(c, "scoring") /\ ThreadGoto(c, "queued") /\ UNCHANGED waiting
       ELSE Goto(c, "waiting") /\ waiting' = Append(waiting, c) /\ UNCHANGED thread
    /\ UNCHANGED <<loaded, lock>>

\* Lines 118-120: the first of the waiting calls gets the lock and checks
\* again; it leaves the lock at once (line 125) when the model is there.
Acquire(c) ==
    /\ pc[c] = "waiting"
    /\ lock = NoCall
    /\ Head(waiting) = c
    /\ waiting' = Tail(waiting)
    /\ ThreadGoto(c, "queued")
    /\ IF loaded
       THEN Goto(c, "scoring") /\ UNCHANGED lock
       ELSE Goto(c, "loading") /\ lock' = c
    /\ UNCHANGED loaded

Release(c) == lock' = IF lock = c THEN NoCall ELSE lock

\* (Mutant: the lock is not released after the loading.)
ReturnLocked(c) ==
    /\ pc[c] \in {"loading", "scoring"}
    /\ thread[c] = "finished"
    /\ Goto(c, "ended")
    /\ UNCHANGED <<loaded, lock, waiting, thread>>

\* Lines 123 and 128: the result, or the exception of the thread.
Return(c) ==
    /\ pc[c] \in {"loading", "scoring"}
    /\ thread[c] = "finished"
    /\ Goto(c, "ended")
    /\ Release(c)
    /\ UNCHANGED <<loaded, waiting, thread>>

\* (Mutants: the call stays in the queue of the lock; the lock outlives the
\* cancelled call.)
CancelQueued(c) ==
    /\ pc[c] = "waiting"
    /\ Goto(c, "cancelled")
    /\ UNCHANGED <<loaded, lock, waiting, thread>>

CancelLocked(c) ==
    /\ pc[c] \in {"loading", "scoring"}
    /\ Goto(c, "cancelled")
    /\ thread' = [thread EXCEPT ![c] = IF @ = "queued" THEN "none" ELSE @]
    /\ UNCHANGED <<loaded, lock, waiting>>

\* CancelledError while the call waits for the lock (118): the lock takes it
\* out of its queue.
CancelWaiting(c) ==
    /\ pc[c] = "waiting"
    /\ Goto(c, "cancelled")
    /\ \E i \in DOMAIN waiting : waiting[i] = c /\ waiting' = RemoveAt(waiting, i)
    /\ UNCHANGED <<loaded, lock, thread>>

\* CancelledError while it awaits its thread (120, 125): "async with" releases
\* the lock.
CancelRunning(c) ==
    /\ pc[c] \in {"loading", "scoring"}
    /\ Goto(c, "cancelled")
    /\ Release(c)
    /\ thread' = [thread EXCEPT ![c] = IF @ = "queued" THEN "none" ELSE @]
    /\ UNCHANGED <<loaded, waiting>>

-----------------------------------------------------------------------------
(* The thread: _load_and_score.                                              *)

\* Line 83, once a thread of the executor is free.
Start(c) ==
    /\ thread[c] = "queued"
    /\ Cardinality(Running) < Workers
    /\ ThreadGoto(c, IF loaded THEN "predicting" ELSE "constructing")
    /\ UNCHANGED <<loaded, lock, waiting, pc>>

\* Line 86; the constructor can raise (download, memory).
Construct(c) ==
    /\ thread[c] = "constructing"
    /\ \/ loaded' = TRUE /\ ThreadGoto(c, "predicting")
       \/ ThreadGoto(c, "finished") /\ UNCHANGED loaded
    /\ UNCHANGED <<lock, waiting, pc>>

\* Lines 88-91, or an exception of predict.
Predict(c) ==
    /\ thread[c] = "predicting"
    /\ ThreadGoto(c, "finished")
    /\ UNCHANGED <<loaded, lock, waiting, pc>>

-----------------------------------------------------------------------------

Step(c) ==
    \/ Acquire(c) \/ Return(c) \/ Start(c) \/ Construct(c) \/ Predict(c)

Next == \E c \in Calls : Rerank(c) \/ CancelWaiting(c) \/ CancelRunning(c) \/ Step(c)

Spec == Init /\ [][Next]_vars

\* The event loop runs what is ready and wakes the waiting calls in order;
\* the executor serves the threads; loading and scoring come to an end.
LiveSpec ==
    /\ Spec
    /\ \A c \in Calls :
        /\ WF_vars(Acquire(c)) /\ WF_vars(Return(c))
        /\ SF_vars(Start(c)) /\ WF_vars(Construct(c)) /\ WF_vars(Predict(c))

-----------------------------------------------------------------------------
(* Properties.                                                               *)

(* The module's docstring, lines 52-54: the cross-encoder is "not            *)
(* thread-safe to construct concurrently", and the lock "serialises the      *)
(* one-time initialisation": one thread constructs it, and none after it is  *)
(* there.                                                                    *)
OneConstruction ==
    /\ Cardinality({c \in Calls : thread[c] = "constructing"}) <= 1
    /\ loaded => \A c \in Calls : thread[c] # "constructing"

(* Only cancelled calls break this.  One thread at a time constructs the     *)
(* cross-encoder for a call that is still there, however calls arrive while  *)
(* it is loading and however often loading fails; the others that construct  *)
(* beside it, or after it is there, are orphans or were let in by one.       *)
OnlyOrphansBeside ==
    LET constructing == {c \in Calls : thread[c] = "constructing"}
        cancelled    == {c \in Calls : pc[c] = "cancelled"}
    IN /\ Cardinality(constructing \ cancelled) <= 1
       /\ loaded /\ constructing # {} => cancelled # {}

(* The lock is never left behind: its holder is a call that awaits the       *)
(* loading, whatever was raised or cancelled, so a waiting call gets it.     *)
LockHasLoader ==
    \A c \in Calls : lock = c <=> pc[c] = "loading"

(* Every call of rerank ends, whoever fails or is cancelled before it.       *)
EveryCallEnds ==
    \A c \in Calls : pc[c] # "new" ~> pc[c] \in {"ended", "cancelled"}

=============================================================================
