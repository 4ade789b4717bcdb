----------------------------- MODULE SessionMap ------------------------------
(***************************************************************************)
(* What the protocol _SessionStore of app/api/chat.py (lines 225-227)      *)
(* promises a turn, whichever store is behind it: get answers with the     *)
(* history that was saved last, or with nothing.  A session may be         *)
(* forgotten at any time, but never by its own save.                       *)
(***************************************************************************)

CONSTANTS
    Sessions,   \* session ids
    Histories,  \* what can be saved
    NoHistory   \* what get answers for a session that is not known

VARIABLES
    saved,   \* Sessions -> what get answers
    last     \* Sessions -> the history given to the last save

mapVars == <<saved, last>>

MapTypeOK ==
    /\ saved \in [Sessions -> Histories \cup {NoHistory}]
    /\ last \in [Sessions -> Histories \cup {NoHistory}]

MapInit ==
    /\ saved = [s \in Sessions |-> NoHistory]
    /\ last = [s \in Sessions |-> NoHistory]

\* What is left of the sessions when those of the set Lost are forgotten.
Without(Lost) == [s \in Sessions |-> IF s \in Lost THEN NoHistory ELSE saved[s]]

\* The save of a history h, which may cost other sessions their place.
SaveSession(s, h) ==
    /\ h \in Histories
    /\ last' = [last EXCEPT ![s] = h]
    /\ \E Lost \in SUBSET (Sessions \ {s}) : saved' = [Without(Lost) EXCEPT ![s] = h]

\* Sessions expire, or die with the process that holds them.
Forget(Lost) ==
    /\ UNCHANGED last
    /\ saved' = Without(Lost)

MapNext ==
    \/ \E Lost \in SUBSET Sessions : Forget(Lost)
    \/ \E s \in Sessions : SaveSession(s, last'[s])

MapSpec == MapInit /\ [][MapNext]_mapVars

-----------------------------------------------------------------------------

(* A session is read back as it was last saved, or not at all: no other      *)
(* session's save, and no eviction, puts anything else in its place.         *)
LastOrNothing == \A s \in Sessions : saved[s] \in {last[s], NoHistory}

=============================================================================
