------------------------------ MODULE AgentTurn ------------------------------
(***************************************************************************)
(* One user turn of app/api/chat.py, and many of them at once: handle_chat *)
(* and stream_chat read the session, run the tool loop, and save the       *)
(* session after every tool round and at the end.  A step ends where the   *)
(* coroutine awaits, so that turns of the same session interleave there.   *)
(*                                                                         *)
(* The two tools that write run in a thread (app/api/tools.py, to_thread)  *)
(* that lives on when its turn is cancelled.  What the threads do to the   *)
(* bookings are the steps of BookingLedger, which BookingStore implements. *)
(*                                                                         *)
(* The model's choices (text or tools, which tools, malformed arguments)   *)
(* are arbitrary.  A message is its role, its turn and, for an assistant   *)
(* message, its number of tool calls; texts and payloads are left out.     *)
(* What of its history a turn sends to the model is in ContextWindow; the  *)
(* history itself is never cut.                                            *)
(***************************************************************************)
EXTENDS Bookings, FiniteSets, Integers, Sequences, SequencesExt

CONSTANTS
    Turns,       \* requests to /chat and /chat/stream
    Sessions,    \* session ids
    NoSession,   \* the turn has not started
    NoTurn,      \* the system message belongs to no turn
    NoJob,       \* the turn has started no thread
    MaxRounds,   \* _MAX_TOOL_ITERATIONS
    MaxCalls,    \* bound: 1..MaxRounds -> the calls of one answer, by its round
    Durable,     \* REDIS_URL is set: sessions survive the process
    Tokens(_), TokenLimit, MinKeep, Summarize   \* see ContextWindow

ASSUME TurnConstants ==
    /\ NoSession \notin Sessions
    /\ NoTurn \notin Turns
    /\ MaxRounds \in Nat \ {0}
    /\ Durable \in BOOLEAN
    /\ TokenLimit \in Nat
    /\ MinKeep \in Nat
    /\ Summarize \in BOOLEAN

ASSUME CallsBounded == MaxCalls \in [1..MaxRounds -> Nat \ {0}]

VARIABLES
    saved,       \* Sessions -> the saved history, <<>> when there is none
    pc,          \* Turns -> where its coroutine waits
    sess,        \* Turns -> its session
    streaming,   \* Turns -> whether it came through /chat/stream
    loc,         \* Turns -> its local variables: see Locals
    capHits,     \* _cap_hit_count
    job,         \* Turns -> the thread its last writing tool started
    stale,       \* history: Turns -> another turn saved the session since Load
    rows, issued, cancelAcked   \* the bookings: see BookingLedger

Ledger == INSTANCE BookingLedger

turnVars == <<pc, sess, streaming, loc, capHits>>
vars == <<saved, turnVars, job, stale, rows, issued, cancelAcked>>

-----------------------------------------------------------------------------

Message == [role: {"system", "user", "assistant", "tool"},
            turn: Turns \cup {NoTurn}, calls: Nat]

SystemMessage   == [role |-> "system", turn |-> NoTurn, calls |-> 0]
UserMessage(t)  == [role |-> "user", turn |-> t, calls |-> 0]
ToolMessage(t)  == [role |-> "tool", turn |-> t, calls |-> 0]
AnswerMessage(t, n) == [role |-> "assistant", turn |-> t, calls |-> n]

\* The message that stands for n older ones; it is sent and never saved.
SummaryMessage(n) == [role |-> "system", turn |-> NoTurn, calls |-> n]

\* A result and a final answer always have a text.
HasText(m) == m.role = "tool" \/ (m.role = "assistant" /\ m.calls = 0)

Context == INSTANCE ContextWindow WITH SummaryOf <- SummaryMessage

\* What a turn knows: its history, the tool calls of the current answer that
\* are not answered yet, the length of tool_results, the finished tool rounds.
Locals == [hist: Seq(Message), left: Nat, results: Nat, round: 0..MaxRounds]

NoLocals == [hist |-> <<>>, left |-> 0, results |-> 0, round |-> 0]

Job == [tool: {"create"}, key: Keys, stage: {"running", "committed", "raised"}]
       \cup [tool: {"cancel"}, id: BookingIds, stage: {"running", "committed", "raised", "missing"}]

Places == {"new", "load", "llm", "dispatch", "tool", "save", "stream", "final",
           "done", "failed"}

\* The turn's coroutine exists and has not ended.
Active(t) == pc[t] \notin {"new", "done", "failed"}

TypeOK ==
    /\ saved \in [Sessions -> Seq(Message)]
    /\ pc \in [Turns -> Places]
    /\ sess \in [Turns -> Sessions \cup {NoSession}]
    /\ streaming \in [Turns -> BOOLEAN]
    /\ loc \in [Turns -> Locals]
    /\ capHits \in Nat
    /\ job \in [Turns -> Job \cup {NoJob}]
    /\ stale \in [Turns -> BOOLEAN]
    /\ Ledger!LedgerTypeOK

Init ==
    /\ saved = [s \in Sessions |-> <<>>]
    /\ pc = [t \in Turns |-> "new"]
    /\ sess = [t \in Turns |-> NoSession]
    /\ streaming = [t \in Turns |-> FALSE]
    /\ loc = [t \in Turns |-> NoLocals]
    /\ capHits = 0
    /\ job = [t \in Turns |-> NoJob]
    /\ stale = [t \in Turns |-> FALSE]
    /\ Ledger!LedgerInit

ledgerVars == <<rows, issued, cancelAcked>>

Goto(t, place) == pc' = [pc EXCEPT ![t] = place]

\* (Mutants: the trimmed list is saved; the turn's messages are merged in.)
SaveTrimmed(t, h) ==
    /\ saved' = [saved EXCEPT ![sess[t]] =
                    IF Len(h) <= 3 THEN h ELSE <<h[1]>> \o SubSeq(h, Len(h) - 1, Len(h))]
    /\ stale' = [u \in Turns |-> stale[u] \/ (u # t /\ Active(u) /\ sess[u] = sess[t])]
SaveMerged(t, h) ==
    /\ LET old == saved[sess[t]]
           had == Len(SelectSeq(old, LAMBDA m : m.turn = t))
           new == SelectSeq(h, LAMBDA m : m.turn = t)
       IN saved' = [saved EXCEPT ![sess[t]] =
                       (IF old = <<>> THEN <<SystemMessage>> ELSE old)
                       \o SubSeq(new, had + 1, Len(new))]
    /\ stale' = [u \in Turns |-> stale[u] \/ (u # t /\ Active(u) /\ sess[u] = sess[t])]

\* _sessions.save: the whole list is stored; every other turn of the session
\* that has loaded it now holds an old copy.
Save(t, h) ==
    /\ saved' = [saved EXCEPT ![sess[t]] = h]
    /\ stale' = [u \in Turns |-> stale[u] \/ (u # t /\ Active(u) /\ sess[u] = sess[t])]

-----------------------------------------------------------------------------
(* The beginning of a turn.                                                  *)

\* A request arrives; a session id that is not given is a new one.
Begin(t) ==
    /\ pc[t] = "new"
    /\ Goto(t, "load")
    /\ \E s \in Sessions : sess' = [sess EXCEPT ![t] = s]
    /\ \E b \in BOOLEAN : streaming' = [streaming EXCEPT ![t] = b]
    /\ UNCHANGED <<saved, loc, capHits, job, stale, ledgerVars>>

\* Lines 648-651 and 686-689.
Load(t) ==
    /\ pc[t] = "load"
    /\ LET old == saved[sess[t]]
           base == IF old = <<>> THEN <<SystemMessage>> ELSE old
       IN loc' = [loc EXCEPT ![t].hist = Append(base, UserMessage(t))]
    /\ stale' = [stale EXCEPT ![t] = FALSE]
    /\ Goto(t, "llm")
    /\ UNCHANGED <<saved, sess, streaming, capHits, job, ledgerVars>>

-----------------------------------------------------------------------------
(* _run_tool_loop                                                            *)

\* After the loop: handle_chat saves, stream_chat streams first.
AfterLoop(t) == IF streaming[t] THEN "stream" ELSE "final"

\* Lines 589-596: the model answers with text.
AnswerText(t) ==
    /\ pc[t] = "llm"
    /\ Goto(t, AfterLoop(t))
    /\ UNCHANGED <<saved, sess, streaming, loc, capHits, job, stale, ledgerVars>>

\* Lines 589-599: the model asks for tools.
AnswerTools(t) ==
    /\ pc[t] = "llm"
    /\ \E n \in 1..MaxCalls[loc[t].round + 1] :
         loc' = [loc EXCEPT ![t].hist = Append(@, AnswerMessage(t, n)), ![t].left = n]
    /\ Goto(t, "dispatch")
    /\ UNCHANGED <<saved, sess, streaming, capHits, job, stale, ledgerVars>>

\* (Mutants: a call is counted twice; the session is saved after every call.)
AnsweredTwice(t) ==
    /\ loc' = [loc EXCEPT ![t].hist = Append(@, ToolMessage(t)),
                          ![t].results = @ + 1, ![t].left = @ - 2]
    /\ Goto(t, IF loc[t].left = 1 THEN "save" ELSE "dispatch")
    /\ UNCHANGED <<saved, sess, streaming, capHits, stale>>
AnsweredAndSaved(t) ==
    /\ loc' = [loc EXCEPT ![t].hist = Append(@, ToolMessage(t)),
                          ![t].results = @ + 1, ![t].left = @ - 1]
    /\ Save(t, Append(loc[t].hist, ToolMessage(t)))
    /\ Goto(t, IF loc[t].left = 1 THEN "save" ELSE "dispatch")
    /\ UNCHANGED <<sess, streaming, capHits>>

\* Lines 609-615 and 619-620: one tool call is answered, with its result and
\* its tool message.
Answered(t) ==
    /\ loc' = [loc EXCEPT ![t].hist = Append(@, ToolMessage(t)),
                          ![t].results = @ + 1, ![t].left = @ - 1]
    /\ Goto(t, IF loc[t].left = 1 THEN "save" ELSE "dispatch")
    /\ UNCHANGED <<saved, sess, streaming, capHits, stale>>

\* (Mutant: malformed arguments are reported to the client only.)
ReadToolUntold(t) ==
    /\ pc[t] = "dispatch"
    /\ loc' = [loc EXCEPT ![t].results = @ + 1, ![t].left = @ - 1]
    /\ Goto(t, IF loc[t].left = 1 THEN "save" ELSE "dispatch")
    /\ UNCHANGED <<saved, sess, streaming, capHits, stale, job, ledgerVars>>

\* A call that writes nothing: search, details, get_booking, an unknown tool,
\* malformed or invalid arguments, a flight that does not exist.
ReadTool(t) ==
    /\ pc[t] = "dispatch"
    /\ Answered(t)
    /\ UNCHANGED <<job, ledgerVars>>

\* tools.py lines 103-118 and 131-132: the thread is started and awaited.
StartJob(t, j) ==
    /\ pc[t] = "dispatch"
    /\ job' = [job EXCEPT ![t] = j]
    /\ Goto(t, "tool")
    /\ UNCHANGED <<saved, sess, streaming, loc, capHits,
                   stale, ledgerVars>>

CreateTool(t) ==
    \E k \in Keys : StartJob(t, [tool |-> "create", key |-> k, stage |-> "running"])

CancelTool(t) ==
    \E id \in BookingIds : StartJob(t, [tool |-> "cancel", id |-> id, stage |-> "running"])

\* (Mutant: a cancellation that finds no booking is tried again.)
JobAnsweredRetry(t) ==
    /\ pc[t] = "tool" /\ job[t].stage # "running"
    /\ IF job[t].stage = "missing"
       THEN /\ job' = [job EXCEPT ![t].stage = "running"]
            /\ UNCHANGED <<saved, turnVars, stale>>
       ELSE Answered(t) /\ job' = [job EXCEPT ![t] = NoJob]
    /\ UNCHANGED ledgerVars

\* The thread has done its work and the turn still waits for it: the result
\* is what the ledger tells, or TOOL_ERROR when the thread raised.
JobAnswered(t) ==
    /\ pc[t] = "tool" /\ job[t].stage # "running"
    /\ Answered(t)
    /\ job' = [job EXCEPT ![t] = NoJob]
    /\ CASE job[t].stage \in {"raised", "missing"} -> UNCHANGED ledgerVars
         [] job[t].stage = "committed" /\ job[t].tool = "create" ->
                \E id \in BookingIds : Ledger!Tell(job[t].key, id)
         [] job[t].stage = "committed" /\ job[t].tool = "cancel" ->
                Ledger!Acknowledge(job[t].id)

\* (Mutant: the session is saved at the end of the turn only.)
SaveRoundUnsaved(t) ==
    /\ pc[t] = "save"
    /\ loc' = [loc EXCEPT ![t].round = @ + 1]
    /\ IF loc[t].round + 1 < MaxRounds
       THEN Goto(t, "llm") /\ capHits' = capHits
       ELSE Goto(t, AfterLoop(t)) /\ capHits' = capHits + 1
    /\ UNCHANGED <<saved, sess, streaming, job, stale, ledgerVars>>

\* Lines 622-626: the round is saved; the last one is the iteration cap.
SaveRound(t) ==
    /\ pc[t] = "save"
    /\ Save(t, loc[t].hist)
    /\ loc' = [loc EXCEPT ![t].round = @ + 1]
    /\ IF loc[t].round + 1 < MaxRounds
       THEN Goto(t, "llm") /\ capHits' = capHits
       ELSE Goto(t, AfterLoop(t)) /\ capHits' = capHits + 1
    /\ UNCHANGED <<sess, streaming, job, ledgerVars>>

-----------------------------------------------------------------------------
(* The end of a turn.                                                        *)

\* Lines 694-696: the answer has been streamed.
Stream(t) ==
    /\ pc[t] = "stream"
    /\ Goto(t, "final")
    /\ UNCHANGED <<saved, sess, streaming, loc, capHits, job, stale, ledgerVars>>

\* Lines 655-661 and 698-702: the answer is saved, the client gets the reply.
SaveFinal(t) ==
    /\ pc[t] = "final"
    /\ Save(t, Append(loc[t].hist, AnswerMessage(t, 0)))
    /\ Goto(t, "done")
    /\ loc' = [loc EXCEPT ![t] = NoLocals]
    /\ UNCHANGED <<sess, streaming, capHits, job, ledgerVars>>

\* An exception ends the turn: the model or the stream fails, Redis fails
\* where the session is read or written, or the client of a stream has gone
\* and the server cancels the coroutine at whatever it awaits.
TurnFails(t) ==
    /\ \/ pc[t] \in {"llm", "stream"}
       \/ Durable /\ pc[t] \in {"load", "save", "final"}
       \/ streaming[t] /\ Active(t)
    /\ Goto(t, "failed")
    /\ loc' = [loc EXCEPT ![t] = NoLocals]
    /\ UNCHANGED <<saved, sess, streaming, capHits, job, stale, ledgerVars>>

-----------------------------------------------------------------------------
(* The threads, which outlive a cancelled turn.                              *)

Running(t, tool) == job[t] # NoJob /\ job[t].tool = tool /\ job[t].stage = "running"

JobStage(t, stage) == job' = [job EXCEPT ![t].stage = stage]

\* (Mutant: no key is passed to the store.)
CreateCommitsUnkeyed(t) ==
    /\ Running(t, "create")
    /\ \E id \in BookingIds, s \in Snapshots :
        /\ rows[id] = NoRow
        /\ rows' = [rows EXCEPT ![id] = NewRow(job[t].key, s)]
    /\ JobStage(t, "committed")
    /\ UNCHANGED <<saved, turnVars, stale, issued, cancelAcked>>

\* store.create_booking: a new row, or the one that has the key already.
CreateCommits(t) ==
    /\ Running(t, "create")
    /\ \/ \E id \in BookingIds, s \in Snapshots : Ledger!Book(id, job[t].key, s)
       \/ Ledger!RowsOf(job[t].key) # {} /\ UNCHANGED ledgerVars
    /\ JobStage(t, "committed")
    /\ UNCHANGED <<saved, turnVars, stale>>

CancelCommits(t) ==
    /\ Running(t, "cancel")
    /\ Ledger!Cancel(job[t].id)
    /\ JobStage(t, "committed")
    /\ UNCHANGED <<saved, turnVars, stale>>

CancelMisses(t) ==
    /\ Running(t, "cancel")
    /\ rows[job[t].id] = NoRow
    /\ JobStage(t, "missing")
    /\ UNCHANGED <<saved, turnVars, stale, ledgerVars>>

\* The store raises, before its commit or after it.
JobRaises(t) ==
    /\ job[t] # NoJob /\ job[t].stage \in {"running", "committed"}
    /\ JobStage(t, "raised")
    /\ UNCHANGED <<saved, turnVars, stale, ledgerVars>>

-----------------------------------------------------------------------------
(* The process and the session store.                                        *)

\* A worker dies: its turns and its threads are gone, and, when there is only
\* one worker because the sessions are in its memory, the sessions too.
Crash ==
    LET Alive == {t \in Turns : Active(t) \/ job[t] # NoJob}
    IN \E W \in SUBSET Alive :
        /\ W # {}
        /\ ~ Durable => W = Alive
        /\ pc' = [t \in Turns |-> IF t \in W THEN "failed" ELSE pc[t]]
        /\ loc' = [t \in Turns |-> IF t \in W THEN NoLocals ELSE loc[t]]
        /\ job' = [t \in Turns |-> IF t \in W THEN NoJob ELSE job[t]]
        /\ saved' = IF Durable THEN saved ELSE [s \in Sessions |-> <<>>]
        /\ UNCHANGED <<sess, streaming, capHits, stale, ledgerVars>>

\* A session expires or is evicted.
Forget(s) ==
    /\ saved[s] # <<>>
    /\ saved' = [saved EXCEPT ![s] = <<>>]
    /\ UNCHANGED <<turnVars, job, stale, ledgerVars>>

-----------------------------------------------------------------------------

TurnStep(t) ==
    \/ Load(t) \/ AnswerText(t) \/ AnswerTools(t)
    \/ ReadTool(t) \/ CreateTool(t) \/ CancelTool(t) \/ JobAnswered(t)
    \/ SaveRound(t) \/ Stream(t) \/ SaveFinal(t) \/ TurnFails(t)

ThreadStep(t) == CreateCommits(t) \/ CancelCommits(t) \/ CancelMisses(t) \/ JobRaises(t)

Next ==
    \/ \E t \in Turns : Begin(t) \/ TurnStep(t) \/ ThreadStep(t)
    \/ Crash
    \/ \E s \in Sessions : Forget(s)

Spec == Init /\ [][Next]_vars

\* Where a turn may await Redis, whose client has no timeout (redis_client.py,
\* line 28): for its session, and in a search for the HyDE document.
AtRedis(t) == Durable /\ pc[t] \in {"load", "dispatch", "save", "final"}

\* The event loop and the threads are scheduled; the model's server answers
\* or its HTTP client times out, and a reply that streams has an end.  Nobody
\* owes a request or a crash, and Redis owes no answer.
LiveSpec ==
    Spec /\ \A t \in Turns : WF_vars(~ AtRedis(t) /\ TurnStep(t)) /\ WF_vars(ThreadStep(t))

-----------------------------------------------------------------------------
(* Properties.                                                               *)

\* The messages of h in which turn t has asked for tools.
Asking(t, h) == {i \in DOMAIN h : h[i].role = "assistant" /\ h[i].turn = t}

\* Message i of h asks for tools, and its answers stand right behind it.
CallsAnswered(h, i) ==
    LET n == h[i].calls
    IN /\ i + n <= Len(h)
       /\ \A j \in i+1..i+n : h[j].role = "tool" /\ h[j].turn = h[i].turn
       /\ i + n < Len(h) => h[i + n + 1].role # "tool"

(* A saved history can be sent to the model again, whenever the turn that    *)
(* saved it was interrupted: the system prompt once and first, every tool    *)
(* call of an assistant message answered right behind it and no answer       *)
(* without its call, and no user message left without any reply.             *)
SavedReplayable ==
    \A s \in Sessions :
        LET h == saved[s]
        IN h # <<>> =>
            /\ h[1] = SystemMessage
            /\ \A i \in 2..Len(h) : h[i].role # "system"
            /\ \A i \in 1..Len(h) : h[i].role = "assistant" => CallsAnswered(h, i)
            /\ \A i \in 2..Len(h) : h[i].role = "tool" => h[i-1].role \in {"assistant", "tool"}
            /\ Last(h).role \in {"assistant", "tool"}

(* Turns that race on one session may lose each other's messages, but they   *)
(* never mix them: a turn's messages are one block that its only user        *)
(* message opens.                                                            *)
TurnsWhole ==
    \A s \in Sessions : \A i \in 2..Len(saved[s]) :
        LET h == saved[s]
        IN IF h[i].role = "user"
           THEN \A j \in 1..i-1 : h[j].turn # h[i].turn
           ELSE h[i].turn = h[i-1].turn

(* Only a turn that works on an old copy, because another turn saved the     *)
(* session after it was read, can drop messages of a session; an update of   *)
(* the session by turns that follow each other only adds to it.              *)
OnlyStaleSaveDrops ==
    [][\A s \in Sessions :
          \/ saved'[s] = <<>>
          \/ IsPrefix(saved[s], saved'[s])
          \/ \E t \in Turns : sess[t] = s /\ stale[t] /\ pc'[t] # pc[t]]_vars

(* tool_results and the tool messages of the history are appended at two     *)
(* places for every call (lines 609-614, 619-620): the client and the model  *)
(* are told of the same calls, and a reply is never sent with one missing.   *)
(* So the places behind the turn's assistant messages where the answers to   *)
(* their calls belong are those of its tool messages and the next left ones. *)
ResultsMatchHistory ==
    \A t \in Turns :
        LET h == loc[t].hist
            answers == {i \in DOMAIN h : h[i] = ToolMessage(t)}
        IN /\ Cardinality(answers) = loc[t].results
           /\ UNION {i+1..i+h[i].calls : i \in Asking(t, h)}
                = answers \cup Len(h)+1..Len(h)+loc[t].left

(* "Loops until the model produces text ... or _MAX_TOOL_ITERATIONS is       *)
(* reached" (lines 567-570), and saves after every round: the turn has asked *)
(* for tools in MaxRounds answers at most, and what it has done with them is *)
(* in the session, but for the tools of the round it is in.  So a worker     *)
(* that dies or a client that goes takes the memory of one round at most     *)
(* with it, and of none once the model is asked again or the reply streams;  *)
(* unless another turn has saved over it.                                    *)
RoundsSaved ==
    \A t \in Turns :
        LET h    == loc[t].hist
            kept == saved[sess[t]]
        IN h # <<>> =>
            /\ Cardinality(Asking(t, h)) <= MaxRounds
            /\ ~ stale[t] /\ kept # <<>> =>
                 /\ IsPrefix(kept, h)
                 /\ \A i \in Asking(t, h) : i > Len(kept) =>
                       /\ pc[t] \in {"dispatch", "tool", "save"}
                       /\ \A j \in Asking(t, h) : j <= i

\* What a turn that waits for the model may have sent to it.
Prompts(t) == IF pc[t] \in {"llm", "stream"} THEN Context!Windows(loc[t].hist) ELSE {}

(* Whatever is sent to the model begins with the system prompt and goes on   *)
(* with the newest messages unchanged, at least MinKeep of them if there are *)
(* so many; a call that is kept is kept with all its answers.  (The converse *)
(* is not so: the hard trim and the summary can leave answers at the head    *)
(* whose call has gone.)                                                     *)
PromptCoherent ==
    \A t \in Turns : \A w \in Prompts(t) :
        /\ Head(w) = SystemMessage
        /\ Context!Coherent(loc[t].hist, w)
        /\ \A i \in DOMAIN w : w[i].role = "assistant" => CallsAnswered(w, i)

(* A prompt is over the token limit only when nothing but the newest MinKeep *)
(* messages is left of the conversation, or when the older ones have no text *)
(* to summarise.                                                             *)
PromptBounded ==
    \A t \in Turns : \A w \in Prompts(t) : Context!Bounded(loc[t].hist, w)

(* All turns that were told of a booking for one flight and passenger were   *)
(* told of the same one: a message sent again after a lost reply, a crash or *)
(* a disconnect does not book twice (tools.py, lines 9-13).                  *)
RetryTellsSameBooking == Ledger!SameKeySameBooking

(* Every turn comes to an end, whatever tools the model asks for round after *)
(* round; only a Redis that neither answers nor refuses can hold it for ever *)
EveryTurnEnds ==
    \A t \in Turns : Active(t) ~> pc[t] \in {"done", "failed"} \/ []AtRedis(t)

=============================================================================
