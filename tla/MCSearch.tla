------------------------------ MODULE MCSearch -------------------------------
(* A small instance of Search.  Every query is searched with a filter and    *)
(* one sample, one of them also without a filter, and one with two samples.  *)
EXTENDS Search

CONSTANTS q1, q2, q3

Ask(q, filtered, samples) ==
    [query |-> q, filtered |-> filtered, samples |-> samples, limit |-> 1]

MCRequests ==
    {Ask(q, TRUE, 1) : q \in Queries} \cup {Ask(q1, FALSE, 1), Ask(q2, TRUE, 2)}

=============================================================================
