----------------------------- MODULE MCAgentTurn -----------------------------
(* Small instances of AgentTurn; turns are interchangeable.  A result counts *)
(* two tokens, any other message one.                                        *)
EXTENDS AgentTurn, TLC

MCTokens(h) == FoldLeft(LAMBDA n, m : n + (IF m.role = "tool" THEN 2 ELSE 1), 0, h)

\* Two rounds: an answer with one or two calls and one with one, or one call
\* in each.
MCMaxCalls == <<2, 1>>
MCOneCall  == <<1, 1>>

Symmetry == Permutations(Turns)

=============================================================================
