---------------------------- MODULE ContextWindow ----------------------------
(***************************************************************************)
(* What of a history is sent to the model (app/api/chat.py, lines          *)
(* 334-449): the history itself when its token count is within the limit,  *)
(* or else the system message, a summary of the oldest messages and the    *)
(* newest ones, or, when there is no summary to be had, the system message *)
(* and as many of the newest messages as fit.                              *)
(*                                                                         *)
(* A history is any sequence with the system message at its head.  Nothing *)
(* is assumed of the token count of one.                                   *)
(***************************************************************************)
EXTENDS Integers, Sequences

CONSTANTS
    Tokens(_),     \* _count_tokens: of a history
    HasText(_),    \* whether the content of a message cannot be empty
    SummaryOf(_),  \* the summary message of so many messages
    TokenLimit,    \* CONTEXT_TOKEN_LIMIT
    MinKeep,       \* CONTEXT_MIN_MESSAGES, a natural number
    Summarize      \* ENABLE_SUMMARIZATION

-----------------------------------------------------------------------------

Fits(h) == Tokens(h) <= TokenLimit

\* The history behind its first k messages, the system message not counted.
Behind(h, k) == SubSeq(h, k + 2, Len(h))

\* The history without them, and with a summary in their place.
Cut(h, k) == <<Head(h)>> \o Behind(h, k)
Condensed(h, k) == <<Head(h), SummaryOf(k)>> \o Behind(h, k)

\* (Mutants: the limit alone ends the loop; the loop ends one message early.)
TrimmedToFit(h) ==
    LET n == Len(h) - 1
        Stop(k) == Fits(Cut(h, k)) \/ k = n
    IN Cut(h, CHOOSE k \in 0..n : Stop(k) /\ \A j \in 0..k-1 : ~ Stop(j))
TrimmedEarly(h) ==
    LET n == Len(h) - 1
        Stop(k) == Fits(Cut(h, k)) \/ n - k <= MinKeep + 1
    IN Cut(h, CHOOSE k \in 0..n : Stop(k) /\ \A j \in 0..k-1 : ~ Stop(j))

\* _trim_history: the oldest message goes until the rest fits, or has no more
\* than MinKeep messages.
Trimmed(h) ==
    LET n == Len(h) - 1
        Stop(k) == Fits(Cut(h, k)) \/ n - k <= MinKeep
    IN Cut(h, CHOOSE k \in 0..n : Stop(k) /\ \A j \in 0..k-1 : ~ Stop(j))

\* How many messages rest[:-MinKeep] has; none when MinKeep is 0, because -0
\* is 0.
Older(h) == IF MinKeep = 0 \/ Len(h) - 1 < MinKeep THEN 0 ELSE Len(h) - 1 - MinKeep

\* The older messages may all be empty, so that there is nothing to say.
NoTranscript(h) == \A i \in 2..Older(h) + 1 : ~ HasText(h[i])

\* _maybe_trim_history and _summarize_history: the summary is not measured,
\* and a call for it that fails leaves the hard trim.
Windows(h) ==
    IF Fits(h) THEN {h}
    ELSE IF ~ Summarize THEN {Trimmed(h)}
    ELSE (IF Older(h) > 0 THEN {Condensed(h, Older(h)), Trimmed(h)} ELSE {})
         \cup (IF NoTranscript(h) THEN {h} ELSE {})

-----------------------------------------------------------------------------
(* What is promised of a window w of a history h.                            *)

\* The system message is kept, the newest messages are kept as they are, at
\* least MinKeep of them if there are so many, and a summary says how many
\* messages it stands for.
Coherent(h, w) ==
    \E k \in 0..Len(h) - 1 :
        /\ \/ w = Cut(h, k)
           \/ k > 0 /\ w = Condensed(h, k)
        /\ k = 0 \/ Len(Behind(h, k)) >= MinKeep

\* The window fits, or it could not be made shorter without touching the
\* newest MinKeep messages, or there was nothing to summarise.
Bounded(h, w) ==
    \/ Fits(w)
    \/ \E k \in 0..Len(h) - 1 :
          /\ w \in {Cut(h, k), Condensed(h, k)}
          /\ Len(Behind(h, k)) <= MinKeep
    \/ Summarize /\ w = h /\ NoTranscript(h)

=============================================================================
