--------------------------- MODULE AgentTurnProofs ---------------------------
(***************************************************************************)
(* The turns, for any number of them, of sessions, keys and rounds, and    *)
(* for histories of any length.                                            *)
(*                                                                         *)
(*  1. The turns and their threads take ledger steps by the way they are   *)
(*     written, so the ledger's invariant holds of them.  The only fact    *)
(*     that needs of the turns is JobInv: a turn that waits for a thread   *)
(*     has one, the thread has a key or an id, and a request that has not  *)
(*     arrived has none.                                                   *)
(*  2. A window of a history (ContextWindow) is coherent and bounded.      *)
(*  3. All values have their types, and the iteration cap and the counts   *)
(*     of open calls are kept.  TypeOK is not inductive: that a count of   *)
(*     open calls does not go below zero and a round not beyond the cap    *)
(*     follows from where the turn is (AtPlace); that a loaded history     *)
(*     begins with the system message, from what all turns have saved      *)
(*     (SavedHead).                                                        *)
(*  4. Every history has its shape at every place of its turn (ShapeInv):  *)
(*     the messages of a turn are one block, every call is answered right  *)
(*     behind its message but for the ones that the turn counts as left,   *)
(*     and a turn that has not read its session has left no message in     *)
(*     any other history, so that its user message opens a new block.      *)
(*     The saved histories are then whole and can be sent again.           *)
(*  5. A turn whose copy is not stale holds what is saved (FreshCopy), so  *)
(*     its save only adds to it.                                           *)
(*  6. The answers in which a turn asked for tools are as many as its      *)
(*     finished rounds, and one more while a round is open; only the one   *)
(*     of the open round is behind what is saved (RoundsInv).              *)
(***************************************************************************)
EXTENDS AgentTurn, FiniteSetTheorems, WellFoundedInduction, TLAPS

-----------------------------------------------------------------------------
(* 1. The bookings.                                                          *)

JobInv ==
    /\ pc \in [Turns -> Places]
    /\ job \in [Turns -> Job \cup {NoJob}]
    /\ \A t \in Turns : pc[t] = "tool" => job[t] \in Job
    /\ \A t \in Turns : pc[t] = "new" => job[t] = NoJob

USE DEF Row, Statuses, Table, Goto

(* Every step of a turn, of a thread and of the process keeps it.            *)
LEMMA JobInvStep ==
    ASSUME JobInv, [Next]_vars
    PROVE  JobInv'
<1> USE DEF JobInv, Job, Places
<1>1. ASSUME NEW t \in Turns,
             Begin(t) \/ Load(t) \/ AnswerText(t) \/ AnswerTools(t) \/ ReadTool(t)
      PROVE  JobInv'
  BY <1>1 DEF Begin, Load, AnswerText, AnswerTools, ReadTool, Answered, AfterLoop
<1>2. ASSUME NEW t \in Turns, CreateTool(t) \/ CancelTool(t)
      PROVE  JobInv'
  BY <1>2 DEF CreateTool, CancelTool, StartJob
<1>3. ASSUME NEW t \in Turns,
             JobAnswered(t) \/ SaveRound(t) \/ Stream(t) \/ SaveFinal(t) \/ TurnFails(t)
      PROVE  JobInv'
  <2>1. /\ \E place \in Places \ {"new", "tool"} : pc' = [pc EXCEPT ![t] = place]
        /\ job' = job \/ job' = [job EXCEPT ![t] = NoJob]
    BY <1>3 DEF JobAnswered, Answered, SaveRound, Stream, SaveFinal, TurnFails, AfterLoop
  <2> QED BY <2>1
<1>4. ASSUME NEW t \in Turns, ThreadStep(t)
      PROVE  JobInv'
  <2>1. PICK stage \in {"committed", "raised", "missing"} :
            /\ job[t] # NoJob
            /\ stage = "missing" => job[t].tool = "cancel"
            /\ JobStage(t, stage)
            /\ pc' = pc
    BY <1>4
    DEF ThreadStep, CreateCommits, CancelCommits, CancelMisses, JobRaises, Running, turnVars
  <2>2. job[t] \in Job
    BY <2>1
  <2>3. [job[t] EXCEPT !.stage = stage] \in Job
    BY <2>1, <2>2
  <2> QED BY <2>1, <2>3 DEF JobStage
<1>5. CASE Crash
  BY <1>5 DEF Crash, Active
<1>6. CASE UNCHANGED vars \/ \E s \in Sessions : Forget(s)
  BY <1>6 DEF vars, turnVars, Forget
<1> QED BY <1>1, <1>2, <1>3, <1>4, <1>5, <1>6 DEF Next, TurnStep

(* A step is a ledger step where an answer reaches the model or a thread     *)
(* commits, and leaves the ledger alone everywhere else.                     *)
LEMMA StepImplementsLedger ==
    ASSUME JobInv, [Next]_vars
    PROVE  [Ledger!LedgerNext]_Ledger!ledgerVars
<1> USE DEF Ledger!ledgerVars, ledgerVars
<1>1. ASSUME NEW t \in Turns, JobAnswered(t)
      PROVE  [Ledger!LedgerNext]_Ledger!ledgerVars
  <2>1. job[t] \in Job
    BY <1>1 DEF JobInv, JobAnswered
  <2>2. CASE job[t].stage \in {"raised", "missing"}
    BY <1>1, <2>2 DEF JobAnswered
  <2>3. CASE job[t].stage = "committed" /\ job[t].tool = "create"
    <3>1. job[t].key \in Keys /\ \E id \in BookingIds : Ledger!Tell(job[t].key, id)
      BY <1>1, <2>1, <2>3 DEF JobAnswered, Job
    <3> QED BY <3>1 DEF Ledger!LedgerNext
  <2>4. CASE job[t].stage = "committed" /\ job[t].tool = "cancel"
    <3>1. job[t].id \in BookingIds /\ Ledger!Acknowledge(job[t].id)
      BY <1>1, <2>1, <2>4 DEF JobAnswered, Job
    <3> QED BY <3>1 DEF Ledger!LedgerNext
  <2> QED BY <1>1, <2>1, <2>2, <2>3, <2>4 DEF JobAnswered, Job
<1>2. ASSUME NEW t \in Turns, CreateCommits(t)
      PROVE  [Ledger!LedgerNext]_Ledger!ledgerVars
  <2>1. job[t].key \in Keys
    BY <1>2 DEF CreateCommits, Running, JobInv, Job
  <2> QED BY <1>2, <2>1 DEF CreateCommits, Ledger!LedgerNext
<1>3. ASSUME NEW t \in Turns, CancelCommits(t)
      PROVE  [Ledger!LedgerNext]_Ledger!ledgerVars
  <2>1. job[t].id \in BookingIds
    BY <1>3 DEF CancelCommits, Running, JobInv, Job
  <2> QED BY <1>3, <2>1 DEF CancelCommits, Ledger!LedgerNext
<1>4. ASSUME NEW t \in Turns,
             \/ Begin(t) \/ Load(t) \/ AnswerText(t) \/ AnswerTools(t) \/ ReadTool(t)
             \/ CreateTool(t) \/ CancelTool(t) \/ SaveRound(t) \/ Stream(t)
             \/ SaveFinal(t) \/ TurnFails(t) \/ CancelMisses(t) \/ JobRaises(t)
      PROVE  UNCHANGED Ledger!ledgerVars
  BY <1>4
  DEF Begin, Load, AnswerText, AnswerTools, ReadTool, CreateTool, CancelTool, StartJob,
      SaveRound, Stream, SaveFinal, TurnFails, CancelMisses, JobRaises
<1>5. CASE Crash \/ (\E s \in Sessions : Forget(s)) \/ UNCHANGED vars
  BY <1>5 DEF Crash, Forget, vars
<1> QED BY <1>1, <1>2, <1>3, <1>4, <1>5 DEF Next, TurnStep, ThreadStep

(* Turns and orphaned threads only take ledger steps.                        *)
LEMMA TurnsTakeLedgerSteps == Spec => Ledger!LedgerSpec
<1>1. Init => JobInv /\ Ledger!LedgerInit
  BY DEF Init, JobInv, Places
<1>2. JobInv /\ [Next]_vars => JobInv'
  BY JobInvStep
<1>3. JobInv /\ [Next]_vars => [Ledger!LedgerNext]_Ledger!ledgerVars
  BY StepImplementsLedger
<1> QED BY <1>1, <1>2, <1>3, PTL DEF Spec, Ledger!LedgerSpec

(* A retried message never tells of a second booking.                        *)
THEOREM RetrySafe == Spec => []RetryTellsSameBooking
<1>1. Ledger!LedgerSpec => []Ledger!LedgerInv
  BY Ledger!LedgerCorrect, BookingConstants DEF Ledger!Row, Ledger!Statuses
<1>2. Ledger!LedgerInv => RetryTellsSameBooking
  BY DEF Ledger!LedgerInv, RetryTellsSameBooking
<1> QED BY <1>1, <1>2, TurnsTakeLedgerSteps, PTL

-----------------------------------------------------------------------------
(* 2. What is sent to the model, for every history, token count and setting. *)
(* Only the hard trim has a loop; TrimStops says where it ends.              *)

USE TurnConstants

(* A set of natural numbers that is not empty has a least one.               *)
LEMMA LeastNatural ==
    ASSUME NEW T \in SUBSET Nat, T # {}
    PROVE  \E k \in T : \A j \in T : k <= j
<1>1. IsWellFoundedOn(OpToRel(<, Nat), Nat)
  BY NatLessThanWellFounded
<1>2. PICK k \in T : \A j \in T : ~ (<<j, k>> \in OpToRel(<, Nat))
  BY <1>1, WFMin, Zenon
<1>3. \A j \in T : ~ (j < k)
  BY <1>2 DEF OpToRel
<1> QED BY <1>3

(* Nothing cut away is the history itself, and what is behind k messages is  *)
(* all but those k.                                                          *)
LEMMA CutNothing ==
    ASSUME NEW S, NEW h \in Seq(S), h # <<>>
    PROVE  Context!Cut(h, 0) = h
BY DEF Context!Cut, Context!Behind

LEMMA BehindLen ==
    ASSUME NEW S, NEW h \in Seq(S), NEW k \in 0..Len(h) - 1
    PROVE  Len(Context!Behind(h, k)) = Len(h) - 1 - k
BY DEF Context!Behind

(* The loop of _trim_history has dropped k messages when it stops: nothing   *)
(* but what MinKeep allows, and no less than it takes.                       *)
LEMMA TrimStops ==
    ASSUME NEW S, NEW h \in Seq(S), h # <<>>
    PROVE  \E k \in 0..Len(h) - 1 :
             /\ Context!Trimmed(h) = Context!Cut(h, k)
             /\ k = 0 \/ Len(h) - 1 - k >= MinKeep
             /\ Context!Fits(Context!Cut(h, k)) \/ Len(h) - 1 - k <= MinKeep
<1> DEFINE n == Len(h) - 1
           Stop(k) == Context!Fits(Context!Cut(h, k)) \/ n - k <= MinKeep
           Good(k) == Stop(k) /\ \A j \in 0..k-1 : ~ Stop(j)
           T == {k \in 0..n : Stop(k)}
<1>1. n \in Nat
  OBVIOUS
<1>2. PICK m \in T : \A j \in T : m <= j
  <2>1. n \in T
    BY <1>1
  <2>2. T \in SUBSET Nat
    BY <1>1
  <2> HIDE DEF T
  <2> QED BY <2>1, <2>2, LeastNatural
<1>3. Good(m)
  BY <1>1, <1>2
<1> DEFINE k == CHOOSE i \in 0..n : Good(i)
<1>4. k \in 0..n /\ Good(k)
  BY <1>2, <1>3
<1>5. Context!Trimmed(h) = Context!Cut(h, k)
  BY DEF Context!Trimmed
<1>6. k = 0 \/ n - k >= MinKeep
  <2>1. ASSUME k # 0
        PROVE  ~ Stop(k - 1)
    BY <2>1, <1>4
  <2> QED BY <2>1, <1>1, <1>4
<1> QED BY <1>4, <1>5, <1>6

(* A window is the history behind its first k messages, all of them that a   *)
(* summary or the hard trim may take.                                        *)
LEMMA WindowShape ==
    ASSUME NEW S, NEW h \in Seq(S), h # <<>>, NEW w \in Context!Windows(h)
    PROVE  \/ w = h /\ (Context!Fits(h) \/ (Summarize /\ Context!NoTranscript(h)))
           \/ w = Context!Trimmed(h)
           \/ Context!Older(h) \in 1..Len(h) - 1 /\ w = Context!Condensed(h, Context!Older(h))
<1>1. Context!Older(h) > 0 => Context!Older(h) \in 1..Len(h) - 1
  BY DEF Context!Older
<1> QED BY <1>1 DEF Context!Windows

(* Whatever is sent to the model is the system message and the newest        *)
(* messages unchanged, at least MinKeep of them if there are so many, with   *)
(* at most one summary between them that counts what it stands for.          *)
THEOREM WindowCoherent ==
    ASSUME NEW S, NEW h \in Seq(S), h # <<>>, NEW w \in Context!Windows(h)
    PROVE  Context!Coherent(h, w)
<1>1. CASE w = h
  <2>1. 0 \in 0..Len(h) - 1 /\ w = Context!Cut(h, 0)
    BY <1>1, CutNothing
  <2> QED BY <2>1 DEF Context!Coherent
<1>2. CASE w = Context!Trimmed(h)
  <2>1. PICK k \in 0..Len(h) - 1 : w = Context!Cut(h, k) /\ (k = 0 \/ Len(h) - 1 - k >= MinKeep)
    BY <1>2, TrimStops
  <2>2. Len(Context!Behind(h, k)) = Len(h) - 1 - k
    BY BehindLen
  <2> QED BY <2>1, <2>2 DEF Context!Coherent
<1>3. CASE Context!Older(h) \in 1..Len(h) - 1 /\ w = Context!Condensed(h, Context!Older(h))
  <2>1. Context!Older(h) = Len(h) - 1 - MinKeep
    BY <1>3 DEF Context!Older
  <2>2. Len(Context!Behind(h, Context!Older(h))) = Len(h) - 1 - Context!Older(h)
    BY <1>3, BehindLen
  <2> QED BY <1>3, <2>1, <2>2 DEF Context!Coherent
<1> QED BY <1>1, <1>2, <1>3, WindowShape

(* It is over the token limit only when no more than the newest MinKeep      *)
(* messages are left of the conversation, or when a summary was wanted and   *)
(* there was nothing to summarise, which is always so when MinKeep is 0.     *)
THEOREM WindowBounded ==
    ASSUME NEW S, NEW h \in Seq(S), h # <<>>, NEW w \in Context!Windows(h)
    PROVE  Context!Bounded(h, w)
<1>1. CASE w = h /\ (Context!Fits(h) \/ (Summarize /\ Context!NoTranscript(h)))
  BY <1>1 DEF Context!Bounded
<1>2. CASE w = Context!Trimmed(h)
  <2>1. PICK k \in 0..Len(h) - 1 :
            w = Context!Cut(h, k) /\ (Context!Fits(w) \/ Len(h) - 1 - k <= MinKeep)
    BY <1>2, TrimStops
  <2>2. Len(Context!Behind(h, k)) = Len(h) - 1 - k
    BY BehindLen
  <2> QED BY <2>1, <2>2 DEF Context!Bounded
<1>3. CASE Context!Older(h) \in 1..Len(h) - 1 /\ w = Context!Condensed(h, Context!Older(h))
  <2>1. Context!Older(h) = Len(h) - 1 - MinKeep
    BY <1>3 DEF Context!Older
  <2>2. Len(Context!Behind(h, Context!Older(h))) = Len(h) - 1 - Context!Older(h)
    BY <1>3, BehindLen
  <2> QED BY <1>3, <2>1, <2>2 DEF Context!Bounded
<1> QED BY <1>1, <1>2, <1>3, WindowShape

-----------------------------------------------------------------------------
(* 3. The histories.                                                         *)

\* Where a turn has rounds left, and where it has a history.
Looping == {"new", "load", "llm", "dispatch", "tool", "save"}
Holding == {"llm", "dispatch", "tool", "save", "stream", "final"}

\* A history that the system message opens.
Opened(h) == h \in Seq(Message) /\ h # <<>> /\ Head(h) = SystemMessage

\* What the place of a turn says of its session and its local variables.
AtPlace(t) ==
    /\ pc[t] \in Places
    /\ sess[t] \in Sessions \cup {NoSession}
    /\ loc[t] \in Locals
    /\ pc[t] # "new" => sess[t] \in Sessions
    /\ pc[t] \in Holding => Opened(loc[t].hist)
    /\ pc[t] \in Looping => loc[t].round < MaxRounds
    /\ pc[t] \in {"dispatch", "tool"} => loc[t].left > 0

SavedHead ==
    /\ saved \in [Sessions -> Seq(Message)]
    /\ \A s \in Sessions : saved[s] # <<>> => Opened(saved[s])

TurnFunctions ==
    /\ pc \in [Turns -> Places]
    /\ sess \in [Turns -> Sessions \cup {NoSession}]
    /\ streaming \in [Turns -> BOOLEAN]
    /\ loc \in [Turns -> Locals]
    /\ capHits \in Nat
    /\ stale \in [Turns -> BOOLEAN]

\* One session gets a history of that kind.
OpenedSaved ==
    \E s \in Sessions, h \in Seq(Message) : Opened(h) /\ saved' = [saved EXCEPT ![s] = h]

HistoryInv == TurnFunctions /\ SavedHead /\ \A t \in Turns : AtPlace(t)

-----------------------------------------------------------------------------
(* Lemmas about histories.                                                   *)

(* Messages are messages, and an opened history stays so when it grows.      *)
LEMMA MessageTypes ==
    ASSUME NEW t \in Turns, NEW n \in Nat
    PROVE  /\ SystemMessage \in Message /\ UserMessage(t) \in Message
           /\ ToolMessage(t) \in Message /\ AnswerMessage(t, n) \in Message
BY DEF Message, SystemMessage, UserMessage, ToolMessage, AnswerMessage

LEMMA OpenedGrows ==
    ASSUME NEW h, Opened(h), NEW m \in Message
    PROVE  Opened(Append(h, m))
BY DEF Opened

(* A step of one turn that leaves the sessions alone, or saves an opened     *)
(* history, keeps the invariant when it keeps what is said of the turn.      *)
LEMMA OneTurn ==
    ASSUME HistoryInv, NEW t \in Turns,
           NEW p \in Places, NEW l \in Locals,
           pc' = [pc EXCEPT ![t] = p], loc' = [loc EXCEPT ![t] = l],
           sess' = sess \/ \E s \in Sessions : sess' = [sess EXCEPT ![t] = s],
           streaming' \in [Turns -> BOOLEAN], stale' \in [Turns -> BOOLEAN], capHits' \in Nat,
           saved' = saved \/ OpenedSaved,
           p # "new" => sess'[t] \in Sessions,
           p \in Holding => Opened(l.hist),
           p \in Looping => l.round < MaxRounds,
           p \in {"dispatch", "tool"} => l.left > 0
    PROVE  HistoryInv'
<1>0. /\ sess' \in [Turns -> Sessions \cup {NoSession}]
      /\ \A u \in Turns \ {t} : sess'[u] = sess[u]
  <2>1. CASE sess' = sess
    BY <2>1 DEF HistoryInv, TurnFunctions
  <2>2. CASE \E s \in Sessions : sess' = [sess EXCEPT ![t] = s]
    BY <2>2 DEF HistoryInv, TurnFunctions
  <2> QED BY <2>1, <2>2
<1>1. TurnFunctions'
  BY <1>0 DEF HistoryInv, TurnFunctions
<1>2. SavedHead'
  <2>1. CASE saved' = saved
    BY <2>1 DEF HistoryInv, SavedHead, Opened
  <2>2. CASE OpenedSaved
    <3>1. PICK s \in Sessions, h \in Seq(Message) : Opened(h) /\ saved' = [saved EXCEPT ![s] = h]
      BY <2>2, Zenon DEF OpenedSaved
    <3>2. saved \in [Sessions -> Seq(Message)] /\ h \in Seq(Message)
      BY <3>1 DEF HistoryInv, SavedHead, Opened
    <3>3. \A r \in Sessions : saved'[r] = IF r = s THEN h ELSE saved[r]
      BY <3>1, <3>2
    <3>4. saved' \in [Sessions -> Seq(Message)]
      BY <3>1, <3>2
    <3> QED BY <3>1, <3>3, <3>4 DEF HistoryInv, SavedHead, Opened
  <2> QED BY <2>1, <2>2
<1>3. ASSUME NEW u \in Turns
      PROVE  AtPlace(u)'
  <2>1. CASE u = t
    BY <1>1, <2>1 DEF HistoryInv, TurnFunctions, AtPlace
  <2>2. CASE u # t
    <3>1. pc'[u] = pc[u] /\ loc'[u] = loc[u] /\ sess'[u] = sess[u]
      BY <1>0, <2>2 DEF HistoryInv, TurnFunctions
    <3> QED BY <3>1 DEF HistoryInv, AtPlace, Opened
  <2> QED BY <2>1, <2>2
<1> QED BY <1>1, <1>2, <1>3 DEF HistoryInv

(* A turn that has not changed its locals, or has saved its history.         *)
LEMMA LocalsKept ==
    ASSUME HistoryInv, NEW t \in Turns
    PROVE  /\ loc = [loc EXCEPT ![t] = loc[t]]
           /\ loc[t] \in Locals
BY DEF HistoryInv, TurnFunctions

LEMMA SaveKeeps ==
    ASSUME HistoryInv, NEW t \in Turns, NEW h, Opened(h), pc[t] # "new", Save(t, h)
    PROVE  /\ OpenedSaved
           /\ stale' \in [Turns -> BOOLEAN]
<1>1. sess[t] \in Sessions
  BY DEF HistoryInv, AtPlace
<1>2. saved' = [saved EXCEPT ![sess[t]] = h]
  BY DEF Save
<1>3. stale' \in [Turns -> BOOLEAN]
  BY DEF Save
<1>4. h \in Seq(Message)
  BY DEF Opened
<1> QED BY <1>1, <1>2, <1>3, <1>4 DEF OpenedSaved

(* The beginning of a turn: a session is chosen, then read.                  *)
LEMMA BeginKeeps ==
    ASSUME HistoryInv, NEW t \in Turns, Begin(t) \/ Load(t)
    PROVE  HistoryInv'
<1> USE DEF Goto
<1>1. CASE Begin(t)
  <2>1. \E s \in Sessions : sess' = [sess EXCEPT ![t] = s] /\ sess'[t] \in Sessions
    BY <1>1 DEF Begin, HistoryInv, TurnFunctions
  <2>2. \E b \in BOOLEAN : streaming' = [streaming EXCEPT ![t] = b]
    BY <1>1 DEF Begin
  <2>3. streaming' \in [Turns -> BOOLEAN]
    BY <2>2 DEF HistoryInv, TurnFunctions
  <2>4. /\ pc' = [pc EXCEPT ![t] = "load"]
        /\ saved' = saved /\ loc' = loc /\ capHits' = capHits /\ stale' = stale
    BY <1>1 DEF Begin
  <2>5. loc' = [loc EXCEPT ![t] = loc[t]] /\ loc[t] \in Locals
    BY <2>4, LocalsKept
  <2>6. "load" \in Places /\ "load" \notin Holding /\ loc[t].round < MaxRounds
    BY <1>1 DEF Begin, HistoryInv, AtPlace, Places, Holding, Looping
  <2>7. capHits' \in Nat /\ stale' \in [Turns -> BOOLEAN]
    BY <2>4 DEF HistoryInv, TurnFunctions
  <2> QED BY <2>1, <2>3, <2>4, <2>5, <2>6, <2>7, OneTurn
<1>2. CASE Load(t)
  <2> DEFINE old == saved[sess[t]]
             base == IF old = <<>> THEN <<SystemMessage>> ELSE old
             l == [loc[t] EXCEPT !.hist = Append(base, UserMessage(t))]
  <2>1. sess[t] \in Sessions /\ pc[t] = "load" /\ loc[t] \in Locals
    BY <1>2 DEF Load, HistoryInv, AtPlace
  <2>2. Opened(base)
    <3>1. CASE old = <<>>
      BY <3>1, MessageTypes DEF Opened
    <3>2. CASE old # <<>>
      BY <2>1, <3>2 DEF HistoryInv, SavedHead
    <3> QED BY <3>1, <3>2
  <2>3. Opened(Append(base, UserMessage(t)))
    BY <2>2, MessageTypes, OpenedGrows
  <2> HIDE DEF base
  <2>4. l \in Locals /\ l.hist = Append(base, UserMessage(t)) /\ l.round = loc[t].round
    BY <2>1, <2>3 DEF Locals, Opened
  <2>5. loc' = [loc EXCEPT ![t] = l]
    BY <1>2 DEF Load, base
  <2>6. /\ pc' = [pc EXCEPT ![t] = "llm"] /\ "llm" \in Places
        /\ sess' = sess /\ sess'[t] \in Sessions
        /\ saved' = saved /\ streaming' = streaming /\ capHits' = capHits
    BY <1>2, <2>1 DEF Load, Places
  <2>7. streaming' \in [Turns -> BOOLEAN] /\ capHits' \in Nat /\ stale' \in [Turns -> BOOLEAN]
    BY <1>2, <2>6 DEF Load, HistoryInv, TurnFunctions
  <2>8. l.round < MaxRounds
    BY <2>1, <2>4 DEF HistoryInv, AtPlace, Looping
  <2> HIDE DEF l
  <2> QED BY <2>3, <2>4, <2>5, <2>6, <2>7, <2>8, OneTurn
<1> QED BY <1>1, <1>2

(* A step that changes nothing but a turn's place and locals.                *)
LEMMA OneQuietTurn ==
    ASSUME HistoryInv, NEW t \in Turns, pc[t] # "new",
           NEW p \in Places, NEW l \in Locals,
           pc' = [pc EXCEPT ![t] = p], loc' = [loc EXCEPT ![t] = l],
           UNCHANGED <<saved, sess, streaming, capHits, stale>>,
           p \in Holding => Opened(l.hist),
           p \in Looping => l.round < MaxRounds,
           p \in {"dispatch", "tool"} => l.left > 0
    PROVE  HistoryInv'
<1>1. streaming' \in [Turns -> BOOLEAN] /\ capHits' \in Nat /\ stale' \in [Turns -> BOOLEAN]
  BY DEF HistoryInv, TurnFunctions
<1>2. sess' = sess /\ sess'[t] \in Sessions /\ saved' = saved
  BY DEF HistoryInv, AtPlace
<1> QED BY <1>1, <1>2, OneTurn

(* What a turn in the loop knows.                                            *)
LEMMA InLoop ==
    ASSUME HistoryInv, NEW t \in Turns, pc[t] \in {"llm", "dispatch", "tool", "save"}
    PROVE  /\ loc[t] \in Locals /\ Opened(loc[t].hist) /\ loc[t].round < MaxRounds
           /\ loc[t].hist \in Seq(Message) /\ loc[t].left \in Nat /\ loc[t].results \in Nat
           /\ pc[t] \in {"dispatch", "tool"} => loc[t].left > 0
BY DEF HistoryInv, AtPlace, Locals, Looping, Holding

(* The model answers, with a text or with tool calls.                        *)
LEMMA AnswerKeeps ==
    ASSUME HistoryInv, NEW t \in Turns, AnswerText(t) \/ AnswerTools(t)
    PROVE  HistoryInv'
<1> USE DEF Goto
<1>0. pc[t] = "llm"
  BY DEF AnswerText, AnswerTools
<1>1. CASE AnswerText(t)
  <2>1. PICK p \in {"stream", "final"} : pc' = [pc EXCEPT ![t] = p]
    BY <1>1 DEF AnswerText, AfterLoop
  <2>2. loc' = [loc EXCEPT ![t] = loc[t]]
    BY <1>1, LocalsKept DEF AnswerText
  <2>3. UNCHANGED <<saved, sess, streaming, capHits, stale>>
    BY <1>1 DEF AnswerText
  <2>4. p \in Places /\ p \notin Looping /\ p \notin {"dispatch", "tool"}
    BY <2>1 DEF Places, Looping
  <2> QED BY <1>0, <2>1, <2>2, <2>3, <2>4, InLoop, OneQuietTurn
<1>2. CASE AnswerTools(t)
  <2>1. PICK n \in 1..MaxCalls[loc[t].round + 1] :
            loc' = [loc EXCEPT ![t].hist = Append(@, AnswerMessage(t, n)), ![t].left = n]
    BY <1>2 DEF AnswerTools
  <2>2. n \in Nat /\ n > 0
    BY <1>0, <2>1, InLoop
  <2> DEFINE l == [loc[t] EXCEPT !.hist = Append(@, AnswerMessage(t, n)), !.left = n]
  <2>3. loc' = [loc EXCEPT ![t] = l]
    BY <2>1
  <2>4. Opened(Append(loc[t].hist, AnswerMessage(t, n)))
    BY <1>0, <2>2, InLoop, MessageTypes, OpenedGrows
  <2>5. /\ l \in Locals /\ l.hist = Append(loc[t].hist, AnswerMessage(t, n))
        /\ l.left = n /\ l.round = loc[t].round
    BY <1>0, <2>2, <2>4, InLoop DEF Locals, Opened
  <2>6. /\ pc' = [pc EXCEPT ![t] = "dispatch"] /\ "dispatch" \in Places
        /\ UNCHANGED <<saved, sess, streaming, capHits, stale>>
    BY <1>2 DEF AnswerTools, Places
  <2> HIDE DEF l
  <2> QED BY <1>0, <2>2, <2>3, <2>4, <2>5, <2>6, InLoop, OneQuietTurn
<1> QED BY <1>1, <1>2

(* A call is answered; the last one of an answer ends the round.             *)
LEMMA AnsweredKeeps ==
    ASSUME HistoryInv, NEW t \in Turns, pc[t] \in {"dispatch", "tool"}, Answered(t)
    PROVE  HistoryInv'
<1> USE DEF Goto
<1> DEFINE l == [loc[t] EXCEPT !.hist = Append(@, ToolMessage(t)),
                               !.results = @ + 1, !.left = @ - 1]
           p == IF loc[t].left = 1 THEN "save" ELSE "dispatch"
<1>1. loc' = [loc EXCEPT ![t] = l] /\ pc' = [pc EXCEPT ![t] = p]
  BY DEF Answered
<1>2. Opened(Append(loc[t].hist, ToolMessage(t)))
  BY InLoop, MessageTypes, OpenedGrows
<1>3. /\ l \in Locals /\ l.hist = Append(loc[t].hist, ToolMessage(t))
      /\ l.left = loc[t].left - 1 /\ l.round = loc[t].round
  <2>1. loc[t] \in Locals /\ loc[t].left > 0
    BY InLoop
  <2>2. loc[t].left - 1 \in Nat /\ loc[t].results + 1 \in Nat
    BY <2>1 DEF Locals
  <2> QED BY <1>2, <2>1, <2>2 DEF Locals, Opened
<1>4. p \in Places /\ (p \in {"dispatch", "tool"} => l.left > 0)
  <2>1. loc[t].left \in Nat /\ loc[t].left > 0
    BY InLoop
  <2>2. loc[t].left # 1 => l.left > 0
    BY <1>3, <2>1
  <2> QED BY <2>2 DEF Places
<1>5. UNCHANGED <<saved, sess, streaming, capHits, stale>> /\ pc[t] # "new"
  BY DEF Answered
<1> HIDE DEF l, p
<1> QED BY <1>1, <1>2, <1>3, <1>4, <1>5, InLoop, OneQuietTurn

(* The tools.                                                                *)
LEMMA ToolsKeep ==
    ASSUME HistoryInv, NEW t \in Turns,
           ReadTool(t) \/ CreateTool(t) \/ CancelTool(t) \/ JobAnswered(t)
    PROVE  HistoryInv'
<1>1. CASE ReadTool(t) \/ JobAnswered(t)
  BY <1>1, AnsweredKeeps DEF ReadTool, JobAnswered
<1>2. CASE CreateTool(t) \/ CancelTool(t)
  <2>1. PICK j : StartJob(t, j)
    BY <1>2 DEF CreateTool, CancelTool
  <2>2. /\ pc[t] = "dispatch" /\ pc' = [pc EXCEPT ![t] = "tool"] /\ "tool" \in Places
        /\ UNCHANGED <<saved, sess, streaming, capHits, stale>>
    BY <2>1 DEF StartJob, Goto, Places
  <2>3. loc' = [loc EXCEPT ![t] = loc[t]]
    BY <2>1, LocalsKept DEF StartJob
  <2> QED BY <2>2, <2>3, InLoop, OneQuietTurn
<1> QED BY <1>1, <1>2

(* The save of a round, after which the loop goes on or the cap has ended it. *)
LEMMA SaveRoundKeeps ==
    ASSUME HistoryInv, NEW t \in Turns, SaveRound(t)
    PROVE  HistoryInv'
<1> DEFINE l == [loc[t] EXCEPT !.round = @ + 1]
<1>0. pc[t] = "save" /\ Save(t, loc[t].hist)
  BY DEF SaveRound
<1>1. /\ loc[t] \in Locals /\ Opened(loc[t].hist) /\ loc[t].round \in 0..MaxRounds
      /\ loc[t].round < MaxRounds
  BY <1>0, InLoop DEF Locals
<1>2. loc[t].round + 1 \in 0..MaxRounds
  BY <1>1
<1>3. l \in Locals /\ l.hist = loc[t].hist /\ l.round = loc[t].round + 1
  BY <1>1, <1>2 DEF Locals
<1>4. loc' = [loc EXCEPT ![t] = l]
  BY DEF SaveRound
<1>5. PICK p \in {"llm", "stream", "final"} :
          /\ pc' = [pc EXCEPT ![t] = p]
          /\ p = "llm" => loc[t].round + 1 < MaxRounds
  BY DEF SaveRound, Goto, AfterLoop
<1>6. capHits' \in Nat
  BY DEF SaveRound, HistoryInv, TurnFunctions
<1>7. /\ sess' = sess /\ sess'[t] \in Sessions
      /\ streaming' \in [Turns -> BOOLEAN]
  BY <1>0 DEF SaveRound, HistoryInv, TurnFunctions, AtPlace
<1>8. /\ OpenedSaved
      /\ stale' \in [Turns -> BOOLEAN]
  BY <1>0, <1>1, SaveKeeps
<1>9. /\ p \in Places /\ p \notin {"dispatch", "tool"}
      /\ p \in Looping => p = "llm"
  BY <1>5 DEF Places, Looping
<1> HIDE DEF l
<1> QED BY <1>1, <1>3, <1>4, <1>5, <1>6, <1>7, <1>8, <1>9, OneTurn

(* The end of a turn: the stream, the last save, an exception.               *)
LEMMA EndKeeps ==
    ASSUME HistoryInv, NEW t \in Turns, Stream(t) \/ SaveFinal(t) \/ TurnFails(t)
    PROVE  HistoryInv'
<1> USE DEF Goto
<1>0. NoLocals \in Locals
  BY DEF NoLocals, Locals
<1>1. CASE Stream(t)
  <2>1. pc[t] = "stream" /\ pc' = [pc EXCEPT ![t] = "final"]
        /\ UNCHANGED <<saved, sess, streaming, capHits, stale>>
    BY <1>1 DEF Stream
  <2>2. loc' = [loc EXCEPT ![t] = loc[t]] /\ loc[t] \in Locals /\ Opened(loc[t].hist)
    BY <1>1, <2>1, LocalsKept DEF Stream, HistoryInv, AtPlace, Holding
  <2>3. "final" \in Places /\ "final" \notin Looping
    BY DEF Places, Looping
  <2> QED BY <2>1, <2>2, <2>3, OneQuietTurn
<1>2. CASE SaveFinal(t)
  <2>1. /\ pc[t] = "final" /\ pc' = [pc EXCEPT ![t] = "done"]
        /\ loc' = [loc EXCEPT ![t] = NoLocals]
        /\ sess' = sess /\ streaming' = streaming /\ capHits' = capHits
    BY <1>2 DEF SaveFinal
  <2>2. Opened(Append(loc[t].hist, AnswerMessage(t, 0)))
    BY <2>1, MessageTypes, OpenedGrows DEF HistoryInv, AtPlace, Holding
  <2>3. /\ OpenedSaved
        /\ stale' \in [Turns -> BOOLEAN]
    BY <1>2, <2>1, <2>2, SaveKeeps DEF SaveFinal
  <2>4. sess'[t] \in Sessions /\ streaming' \in [Turns -> BOOLEAN] /\ capHits' \in Nat
    BY <2>1 DEF HistoryInv, TurnFunctions, AtPlace
  <2>5. "done" \in Places /\ "done" \notin Looping /\ "done" \notin Holding
    BY DEF Places, Looping, Holding
  <2> QED BY <1>0, <2>1, <2>3, <2>4, <2>5, OneTurn
<1>3. CASE TurnFails(t)
  <2>1. /\ pc[t] # "new" /\ pc' = [pc EXCEPT ![t] = "failed"]
        /\ loc' = [loc EXCEPT ![t] = NoLocals]
        /\ UNCHANGED <<saved, sess, streaming, capHits, stale>>
    BY <1>3 DEF TurnFails, Active
  <2>2. "failed" \in Places /\ "failed" \notin Looping /\ "failed" \notin Holding
    BY DEF Places, Looping, Holding
  <2> QED BY <1>0, <2>1, <2>2, OneQuietTurn
<1> QED BY <1>1, <1>2, <1>3

(* A worker that dies takes its turns with it, and the sessions if they are  *)
(* in its memory.                                                            *)
LEMMA CrashKeeps ==
    ASSUME HistoryInv, JobInv, Crash
    PROVE  HistoryInv'
<1>1. PICK W \in SUBSET Turns :
          /\ pc' = [t \in Turns |-> IF t \in W THEN "failed" ELSE pc[t]]
          /\ loc' = [t \in Turns |-> IF t \in W THEN NoLocals ELSE loc[t]]
          /\ saved' = saved \/ saved' = [s \in Sessions |-> <<>>]
          /\ UNCHANGED <<sess, streaming, capHits, stale>>
          /\ \A t \in W : pc[t] # "new"
  <2>1. \A t \in Turns : Active(t) \/ job[t] # NoJob => pc[t] # "new"
    BY DEF JobInv, Active
  <2> QED BY <2>1 DEF Crash
<1>2. NoLocals \in Locals /\ "failed" \in Places
  BY DEF NoLocals, Locals, Places
<1>3. TurnFunctions'
  BY <1>1, <1>2 DEF HistoryInv, TurnFunctions
<1>4. SavedHead'
  <2>1. CASE saved' = saved
    BY <2>1 DEF HistoryInv, SavedHead, Opened
  <2>2. CASE saved' = [s \in Sessions |-> <<>>]
    BY <2>2 DEF SavedHead
  <2> QED BY <1>1, <2>1, <2>2
<1>5. ASSUME NEW t \in Turns
      PROVE  AtPlace(t)'
  <2>1. CASE t \notin W
    <3>1. pc'[t] = pc[t] /\ loc'[t] = loc[t] /\ sess'[t] = sess[t]
      BY <1>1, <2>1
    <3> QED BY <3>1 DEF HistoryInv, AtPlace, Opened
  <2>2. CASE t \in W
    <3>1. pc'[t] = "failed" /\ loc'[t] = NoLocals /\ sess'[t] = sess[t] /\ pc[t] # "new"
      BY <1>1, <2>2
    <3> QED BY <1>2, <3>1 DEF HistoryInv, AtPlace, Holding, Looping
  <2> QED BY <2>1, <2>2
<1> QED BY <1>3, <1>4, <1>5 DEF HistoryInv

(* Threads do not touch the turns; a session that is forgotten is empty.     *)
LEMMA QuietKeeps ==
    ASSUME HistoryInv, UNCHANGED <<turnVars, stale>>,
           \/ saved' = saved
           \/ \E s \in Sessions : saved' = [saved EXCEPT ![s] = <<>>]
    PROVE  HistoryInv'
<1>1. TurnFunctions' /\ \A t \in Turns : AtPlace(t)'
  BY DEF HistoryInv, TurnFunctions, AtPlace, Opened, turnVars
<1>2. SavedHead'
  <2>1. CASE saved' = saved
    BY <2>1 DEF HistoryInv, SavedHead, Opened
  <2>2. CASE \E s \in Sessions : saved' = [saved EXCEPT ![s] = <<>>]
    <3>1. PICK s \in Sessions : saved' = [saved EXCEPT ![s] = <<>>]
      BY <2>2
    <3>2. \A r \in Sessions : saved'[r] = IF r = s THEN <<>> ELSE saved[r]
      BY <3>1 DEF HistoryInv, SavedHead
    <3>3. saved' \in [Sessions -> Seq(Message)]
      BY <3>1 DEF HistoryInv, SavedHead
    <3> QED BY <3>2, <3>3 DEF HistoryInv, SavedHead, Opened
  <2> QED BY <2>1, <2>2
<1> QED BY <1>1, <1>2 DEF HistoryInv

(* The invariant is inductive.                                               *)
LEMMA HistoryInvStep ==
    ASSUME HistoryInv, JobInv, [Next]_vars
    PROVE  HistoryInv'
<1>1. ASSUME NEW t \in Turns, Begin(t) \/ Load(t)
      PROVE  HistoryInv'
  BY <1>1, BeginKeeps
<1>2. ASSUME NEW t \in Turns, AnswerText(t) \/ AnswerTools(t)
      PROVE  HistoryInv'
  BY <1>2, AnswerKeeps
<1>3. ASSUME NEW t \in Turns, ReadTool(t) \/ CreateTool(t) \/ CancelTool(t) \/ JobAnswered(t)
      PROVE  HistoryInv'
  BY <1>3, ToolsKeep
<1>4. ASSUME NEW t \in Turns, SaveRound(t)
      PROVE  HistoryInv'
  BY <1>4, SaveRoundKeeps
<1>5. ASSUME NEW t \in Turns, Stream(t) \/ SaveFinal(t) \/ TurnFails(t)
      PROVE  HistoryInv'
  BY <1>5, EndKeeps
<1>6. ASSUME NEW t \in Turns, ThreadStep(t)
      PROVE  HistoryInv'
  <2>1. UNCHANGED <<saved, turnVars, stale>>
    BY <1>6 DEF ThreadStep, CreateCommits, CancelCommits, CancelMisses, JobRaises
  <2> QED BY <2>1, QuietKeeps
<1>7. CASE Crash
  BY <1>7, CrashKeeps
<1>8. CASE UNCHANGED vars \/ \E s \in Sessions : Forget(s)
  <2>1. /\ UNCHANGED <<turnVars, stale>>
        /\ saved' = saved \/ \E s \in Sessions : saved' = [saved EXCEPT ![s] = <<>>]
    BY <1>8 DEF vars, Forget
  <2> QED BY <2>1, QuietKeeps
<1> QED BY <1>1, <1>2, <1>3, <1>4, <1>5, <1>6, <1>7, <1>8 DEF Next, TurnStep

LEMMA HistoryInvInit ==
    ASSUME Init
    PROVE  HistoryInv
<1>1. NoLocals \in Locals /\ NoLocals.round < MaxRounds
  BY DEF NoLocals, Locals
<1>2. TurnFunctions /\ SavedHead
  BY <1>1 DEF Init, TurnFunctions, SavedHead, Places
<1>3. \A t \in Turns : AtPlace(t)
  BY <1>1 DEF Init, AtPlace, Places, Holding
<1> QED BY <1>2, <1>3 DEF HistoryInv

(* What the place of every turn says of its history, round and open calls    *)
(* holds throughout.                                                         *)
THEOREM TurnHistoryInv == Spec => [](HistoryInv /\ JobInv)
<1>1. Init => HistoryInv /\ JobInv
  BY HistoryInvInit DEF Init, JobInv, Places
<1>2. HistoryInv /\ JobInv /\ [Next]_vars => HistoryInv' /\ JobInv'
  BY HistoryInvStep, JobInvStep
<1> QED BY <1>1, <1>2, PTL DEF Spec

(* Type correctness: no round beyond the cap, no negative count of open      *)
(* calls, no message that is none in a history.                              *)
THEOREM TurnTypeOK == Spec => []TypeOK
<1>1. Ledger!LedgerSpec => []Ledger!LedgerInv
  BY Ledger!LedgerCorrect, BookingConstants DEF Row, Statuses, Ledger!Row, Ledger!Statuses
<1>2. HistoryInv /\ JobInv /\ Ledger!LedgerInv => TypeOK
  BY DEF HistoryInv, TurnFunctions, SavedHead, JobInv, Ledger!LedgerInv, TypeOK
<1> QED BY <1>1, <1>2, TurnHistoryInv, TurnsTakeLedgerSteps, PTL

(* No prompt is over the token limit unless nothing but the newest MinKeep   *)
(* messages is left of the conversation, or nothing of it can be summarised. *)
THEOREM TurnPromptsBounded == Spec => []PromptBounded
<1>1. ASSUME HistoryInv, NEW t \in Turns, NEW w \in Prompts(t)
      PROVE  Context!Bounded(loc[t].hist, w)
  <2>1. pc[t] \in {"llm", "stream"} /\ w \in Context!Windows(loc[t].hist)
    BY <1>1 DEF Prompts
  <2>2. loc[t].hist \in Seq(Message) /\ loc[t].hist # <<>>
    BY <1>1, <2>1 DEF HistoryInv, AtPlace, Holding, Opened
  <2> QED BY <2>1, <2>2, WindowBounded
<1>2. HistoryInv => PromptBounded
  BY <1>1 DEF PromptBounded
<1> QED BY <1>2, TurnHistoryInv, PTL

-----------------------------------------------------------------------------
(* 4. The shape of the histories.                                           *)

\* Message i of h asks for tools, and its answers stand right behind it, all
\* of them when k is 0, and all but the k that are still to be appended when
\* it is the answer that the turn is at.
AnsweredBut(h, i, k) ==
    LET n == h[i].calls
    IN /\ \A j \in i+1..i+n : j <= Len(h) => h[j].role = "tool" /\ h[j].turn = h[i].turn
       /\ \/ i + n = Len(h) + k
          \/ i + n < Len(h) /\ h[i + n + 1].role # "tool"

\* A history whose last answer has k calls that are not answered yet.
Shaped(h, k) ==
    /\ Opened(h)
    /\ \A i \in 2..Len(h) : h[i].role # "system"
    /\ \A i \in 1..Len(h) : h[i].role = "assistant" => AnsweredBut(h, i, k)
    /\ \A i \in 2..Len(h) : h[i].role = "tool" => h[i-1].role \in {"assistant", "tool"}
    /\ \A i \in 2..Len(h) : IF h[i].role = "user"
                            THEN \A j \in 1..i-1 : h[j].turn # h[i].turn
                            ELSE h[i].turn = h[i-1].turn

\* A history that may be saved.
Replayable(h) == Shaped(h, 0) /\ Last(h).role \in {"assistant", "tool"}

Answers(t, h) == {i \in DOMAIN h : h[i] = ToolMessage(t)}

\* The results are those of the calls that are answered.
Matched(t, l) ==
    /\ IsFiniteSet(Answers(t, l.hist)) /\ Cardinality(Answers(t, l.hist)) = l.results
    /\ UNION {i+1..i+l.hist[i].calls : i \in Asking(t, l.hist)}
         = Answers(t, l.hist) \cup Len(l.hist)+1..Len(l.hist)+l.left

\* What turn t knows at place p.
Known(t, p, l) ==
    /\ p \in Holding => Shaped(l.hist, l.left) /\ Last(l.hist).turn = t
    /\ p \notin Holding => l = NoLocals
    /\ p \notin {"dispatch", "tool"} => l.left = 0
    /\ p \in {"dispatch", "tool", "save"} => Last(l.hist).role \in {"assistant", "tool"}
    /\ Matched(t, l)

\* No message of h is of turn t.
Unseen(t, h) == \A i \in DOMAIN h : h[i].turn # t

\* Turn t has left no message anywhere.
Traceless(t) ==
    /\ \A s \in Sessions : Unseen(t, saved[s])
    /\ \A u \in Turns : Unseen(t, loc[u].hist)

\* A turn that has not read its session has not.
NoTrace == \A t \in Turns : pc[t] \in {"new", "load"} => Traceless(t)

ShapeInv ==
    /\ \A t \in Turns : Known(t, pc[t], loc[t])
    /\ \A s \in Sessions : saved[s] # <<>> => Replayable(saved[s])
    /\ NoTrace

\* A turn whose session nobody else has saved since works on what is saved.
FreshAt(t) ==
    pc[t] \in Holding /\ ~ stale[t] =>
        saved[sess[t]] = <<>> \/ IsPrefix(saved[sess[t]], loc[t].hist)

FreshCopy == \A t \in Turns : FreshAt(t)

-----------------------------------------------------------------------------
(* 4.1 How a history grows.                                                  *)

LEMMA Appended ==
    ASSUME NEW h \in Seq(Message), NEW m \in Message
    PROVE  /\ Append(h, m) \in Seq(Message)
           /\ Len(Append(h, m)) = Len(h) + 1 /\ Len(h) \in Nat
           /\ DOMAIN Append(h, m) = 1..Len(h) + 1 /\ DOMAIN h = 1..Len(h)
           /\ Append(h, m)[Len(h) + 1] = m
           /\ \A i \in 1..Len(h) : Append(h, m)[i] = h[i]
           /\ Last(Append(h, m)) = m
BY DEF Last

(* An answer stands where one is due, anything else only where none is; a    *)
(* user message opens a block, every other one goes on with the last one.    *)
LEMMA ShapedGrows ==
    ASSUME NEW h, NEW k \in Nat, Shaped(h, k), NEW m \in Message, NEW n \in Nat,
           m.role # "system",
           m.role = "user" => Unseen(m.turn, h) /\ k = 0 /\ n = 0,
           m.role = "assistant" => m.turn = Last(h).turn /\ k = 0 /\ n = m.calls,
           m.role = "tool" => /\ m.turn = Last(h).turn /\ k > 0 /\ n = k - 1
                              /\ Last(h).role \in {"assistant", "tool"}
    PROVE  Shaped(Append(h, m), n)
<1> DEFINE g == Append(h, m)
           L == Len(h)
<1>0. h \in Seq(Message) /\ h # <<>> /\ Opened(h)
  BY DEF Shaped, Opened
<1>1. /\ L \in Nat \ {0} /\ Len(g) = L + 1 /\ g[L + 1] = m
      /\ \A i \in 1..L : g[i] = h[i] /\ h[i] \in Message
      /\ Last(h) = h[L]
      /\ DOMAIN h = 1..L
  BY <1>0, Appended DEF Last
<1>2. Opened(g)
  BY <1>0, OpenedGrows
<1>m. \A x \in Message : x.calls \in Nat
  BY DEF Message
<1>r. m.role \in {"user", "assistant", "tool"}
  BY DEF Message
<1> HIDE DEF g, L
<1>3. \A i \in 2..Len(g) : g[i].role # "system"
  BY <1>1 DEF Shaped, L
<1>4. ASSUME NEW i \in 1..Len(g), g[i].role = "assistant"
      PROVE  AnsweredBut(g, i, n)
  <2>1. CASE i = L + 1
    <3>1. g[i] = m /\ m.calls = n /\ Len(g) = i
      BY <1>1, <1>4, <2>1
    <3> QED BY <3>1, <1>1, <2>1 DEF AnsweredBut
  <2>2. CASE i \in 1..L
    <3> DEFINE c == h[i].calls
    <3>1. g[i] = h[i] /\ AnsweredBut(h, i, k) /\ c \in Nat
      BY <1>1, <1>4, <1>m, <2>2 DEF Shaped, L
    <3>2. /\ \A j \in i+1..i+c : j <= L => h[j].role = "tool" /\ h[j].turn = h[i].turn
          /\ i + c = L + k \/ (i + c < L /\ h[i + c + 1].role # "tool")
      BY <3>1 DEF AnsweredBut, L
    <3> HIDE DEF c
    <3>3. CASE m.role = "tool"
      <4>1. n = k - 1 /\ k > 0 /\ m.turn = h[L].turn
        BY <1>1, <3>3
      <4>2. ASSUME i + c = L + k
            PROVE  m.turn = h[i].turn
        <5>1. CASE i = L
          BY <4>1, <5>1
        <5>2. CASE i < L
          <6>1. L \in i+1..i+c
            BY <1>1, <2>2, <3>1, <4>1, <4>2, <5>2
          <6> QED BY <3>2, <4>1, <6>1
        <5> QED BY <1>1, <2>2, <5>1, <5>2
      <4>3. CASE i + c = L + k
        <5>1. i + c = Len(g) + n
          BY <1>1, <2>2, <3>1, <4>1, <4>3
        <5>2. ASSUME NEW j \in i+1..i+c, j <= Len(g)
              PROVE  g[j].role = "tool" /\ g[j].turn = g[i].turn
          <6>1. CASE j = L + 1
            BY <1>1, <3>1, <3>3, <4>2, <4>3, <6>1
          <6>2. CASE j \in 1..L
            BY <1>1, <3>1, <3>2, <6>2
          <6> QED BY <1>1, <2>2, <5>2, <6>1, <6>2
        <5> QED BY <3>1, <5>1, <5>2 DEF AnsweredBut, c
      <4>4. CASE i + c < L /\ h[i + c + 1].role # "tool"
        <5>1. i + c < Len(g) /\ g[i + c + 1] = h[i + c + 1]
          BY <1>1, <2>2, <3>1, <4>4
        <5>2. \A j \in i+1..i+c : g[j] = h[j] /\ j <= L
          BY <1>1, <2>2, <3>1, <4>4
        <5> QED BY <3>1, <3>2, <4>4, <5>1, <5>2 DEF AnsweredBut, c
      <4> QED BY <3>2, <4>3, <4>4
    <3>4. CASE m.role # "tool"
      <4>1. k = 0
        BY <1>r, <3>4
      <4>2. i + c < Len(g) /\ \A j \in i+1..i+c : g[j] = h[j] /\ j <= L
        BY <1>1, <2>2, <3>1, <3>2, <4>1
      <4>3. g[i + c + 1].role # "tool"
        <5>1. CASE i + c = L
          BY <1>1, <3>4, <5>1
        <5>2. CASE i + c < L
          BY <1>1, <2>2, <3>1, <3>2, <4>1, <5>2
        <5> QED BY <1>1, <3>2, <4>1, <5>1, <5>2
      <4> QED BY <3>1, <3>2, <4>2, <4>3 DEF AnsweredBut, c
    <3> QED BY <3>3, <3>4
  <2> QED BY <1>1, <2>1, <2>2
<1>5. ASSUME NEW i \in 2..Len(g), g[i].role = "tool"
      PROVE  g[i-1].role \in {"assistant", "tool"}
  <2>1. CASE i = L + 1
    BY <1>1, <1>5, <2>1
  <2>2. CASE i \in 2..L
    BY <1>1, <1>5, <2>2 DEF Shaped, L
  <2> QED BY <1>1, <2>1, <2>2
<1>6. ASSUME NEW i \in 2..Len(g)
      PROVE  IF g[i].role = "user" THEN \A j \in 1..i-1 : g[j].turn # g[i].turn
             ELSE g[i].turn = g[i-1].turn
  <2>1. CASE i = L + 1
    BY <1>1, <1>r, <2>1 DEF Unseen
  <2>2. CASE i \in 2..L
    <3>1. g[i] = h[i] /\ g[i-1] = h[i-1] /\ \A j \in 1..i-1 : g[j] = h[j]
      BY <1>1, <2>2
    <3> QED BY <2>2, <3>1 DEF Shaped, L
  <2> QED BY <1>1, <2>1, <2>2
<1> QED BY <1>2, <1>3, <1>4, <1>5, <1>6 DEF Shaped, g


(* The three messages of a turn.                                             *)
LEMMA UserOpens ==
    ASSUME NEW t \in Turns, NEW h, Shaped(h, 0), Unseen(t, h)
    PROVE  Shaped(Append(h, UserMessage(t)), 0)
<1>1. /\ UserMessage(t) \in Message
      /\ UserMessage(t).role = "user" /\ UserMessage(t).turn = t
  BY MessageTypes DEF UserMessage
<1> QED BY <1>1, ShapedGrows

LEMMA AnswerGoesOn ==
    ASSUME NEW t \in Turns, NEW h, Shaped(h, 0), Last(h).turn = t, NEW n \in Nat
    PROVE  Shaped(Append(h, AnswerMessage(t, n)), n)
<1>1. /\ AnswerMessage(t, n) \in Message
      /\ AnswerMessage(t, n).role = "assistant" /\ AnswerMessage(t, n).turn = t
      /\ AnswerMessage(t, n).calls = n
  BY MessageTypes DEF AnswerMessage
<1> HIDE DEF AnswerMessage
<1> QED BY <1>1, ShapedGrows

LEMMA ToolGoesOn ==
    ASSUME NEW t \in Turns, NEW h, NEW k \in Nat \ {0}, Shaped(h, k), Last(h).turn = t,
           Last(h).role \in {"assistant", "tool"}
    PROVE  Shaped(Append(h, ToolMessage(t)), k - 1)
<1>1. /\ ToolMessage(t) \in Message
      /\ ToolMessage(t).role = "tool" /\ ToolMessage(t).turn = t
  BY MessageTypes DEF ToolMessage
<1> QED BY <1>1, ShapedGrows

(* A new session has the system message only.                                *)
LEMMA SystemShaped == Shaped(<<SystemMessage>>, 0)
<1>1. Opened(<<SystemMessage>>) /\ SystemMessage.role = "system"
  BY DEF Opened, SystemMessage, Message
<1> QED BY <1>1 DEF Shaped

(* The results go along with the tool messages, and the answers that are due *)
(* with the calls.                                                           *)
LEMMA NothingMatched ==
    ASSUME NEW t \in Turns, NEW h \in Seq(Message), Unseen(t, h),
           NEW l \in Locals, l.hist = Append(h, UserMessage(t)), l.results = 0, l.left = 0
    PROVE  Matched(t, l)
<1>1. UserMessage(t) \in Message /\ UserMessage(t).role = "user"
  BY MessageTypes DEF UserMessage
<1>2. ToolMessage(t).role = "tool" /\ ToolMessage(t).turn = t
  BY DEF ToolMessage
<1>3. \A i \in DOMAIN l.hist : l.hist[i].role = "user" \/ l.hist[i].turn # t
  BY <1>1, Appended DEF Unseen
<1>4. Answers(t, l.hist) = {} /\ Asking(t, l.hist) = {}
  BY <1>2, <1>3 DEF Answers, Asking
<1>5. Len(l.hist)+1..Len(l.hist)+l.left = {}
  BY DEF Locals
<1> QED BY <1>4, <1>5, FS_EmptySet DEF Matched

LEMMA MatchedCall ==
    ASSUME NEW t \in Turns, NEW l \in Locals, Matched(t, l), l.left = 0, NEW n \in Nat,
           NEW m \in Locals, m.hist = Append(l.hist, AnswerMessage(t, n)),
           m.left = n, m.results = l.results
    PROVE  Matched(t, m)
<1> DEFINE h == l.hist
           g == m.hist
           L == Len(h)
<1>1. /\ AnswerMessage(t, n) \in Message
      /\ AnswerMessage(t, n).role = "assistant" /\ AnswerMessage(t, n).turn = t
      /\ AnswerMessage(t, n).calls = n /\ AnswerMessage(t, n) # ToolMessage(t)
  BY MessageTypes DEF AnswerMessage, ToolMessage
<1>2. /\ L \in Nat /\ Len(g) = L + 1 /\ DOMAIN g = 1..L + 1 /\ DOMAIN h = 1..L
      /\ g[L + 1] = AnswerMessage(t, n) /\ \A i \in 1..L : g[i] = h[i]
  BY <1>1, Appended DEF Locals
<1> HIDE DEF g, h, L
<1>3. Answers(t, g) = Answers(t, h)
  BY <1>1, <1>2 DEF Answers
<1>4. Asking(t, g) = Asking(t, h) \cup {L + 1}
  BY <1>1, <1>2 DEF Asking
<1>5. \A i \in Asking(t, h) : g[i] = h[i]
  BY <1>2 DEF Asking
<1>6. UNION {i+1..i+g[i].calls : i \in Asking(t, g)}
        = (UNION {i+1..i+h[i].calls : i \in Asking(t, h)}) \cup L+2..L+1+n
  <2>1. g[L + 1].calls = n /\ (L + 1) + 1 = L + 2 /\ (L + 1) + n = L + 1 + n
    BY <1>1, <1>2
  <2> QED BY <1>4, <1>5, <2>1
<1>7. UNION {i+1..i+h[i].calls : i \in Asking(t, h)} = Answers(t, h) \cup L+1..L+0
  BY DEF Matched, h, L
<1>8. L+1..L+0 = {} /\ Len(g)+1..Len(g)+n = L+2..L+1+n
  BY <1>2
<1> QED BY <1>3, <1>6, <1>7, <1>8 DEF Matched, h, g

LEMMA MatchedAnswer ==
    ASSUME NEW t \in Turns, NEW l \in Locals, Matched(t, l), l.left > 0,
           NEW m \in Locals, m.hist = Append(l.hist, ToolMessage(t)),
           m.left = l.left - 1, m.results = l.results + 1
    PROVE  Matched(t, m)
<1> DEFINE h == l.hist
           g == m.hist
           L == Len(h)
           k == l.left
<1>1. ToolMessage(t) \in Message /\ ToolMessage(t).role = "tool"
  BY MessageTypes DEF ToolMessage
<1>2. /\ L \in Nat /\ Len(g) = L + 1 /\ DOMAIN g = 1..L + 1 /\ DOMAIN h = 1..L
      /\ g[L + 1] = ToolMessage(t) /\ \A i \in 1..L : g[i] = h[i]
      /\ k \in Nat \ {0}
  BY <1>1, Appended DEF Locals
<1> HIDE DEF g, h, L, k
<1>3. Answers(t, g) = Answers(t, h) \cup {L + 1} /\ L + 1 \notin Answers(t, h)
  BY <1>1, <1>2 DEF Answers
<1>4. Asking(t, g) = Asking(t, h)
  BY <1>1, <1>2 DEF Asking
<1>5. \A i \in Asking(t, h) : g[i] = h[i]
  BY <1>2 DEF Asking
<1>6. UNION {i+1..i+g[i].calls : i \in Asking(t, g)}
        = UNION {i+1..i+h[i].calls : i \in Asking(t, h)}
  BY <1>4, <1>5
<1>7. UNION {i+1..i+h[i].calls : i \in Asking(t, h)} = Answers(t, h) \cup L+1..L+k
  BY DEF Matched, h, L, k
<1>8. L+1..L+k = {L + 1} \cup Len(g)+1..Len(g)+(k-1)
  BY <1>2
<1>9. IsFiniteSet(Answers(t, g)) /\ Cardinality(Answers(t, g)) = l.results + 1
  BY <1>3, FS_AddElement DEF Matched, h, Locals
<1> QED BY <1>3, <1>6, <1>7, <1>8, <1>9 DEF Matched, g, k


-----------------------------------------------------------------------------
(* 4.2 The steps.                                                            *)

(* Nobody else's messages come into a history by the turn's own.             *)
LEMMA OwnMessage ==
    ASSUME NEW t \in Turns, NEW u \in Turns \ {t}, NEW h \in Seq(Message), Unseen(u, h),
           NEW m \in Message, m.turn = t
    PROVE  Unseen(u, Append(h, m))
BY Appended DEF Unseen

(* A turn that has read its session takes a step, and saves or does not.     *)
LEMMA OneShape ==
    ASSUME HistoryInv, ShapeInv, NEW t \in Turns,
           NEW p \in Places \ {"new", "load"}, NEW l \in Locals,
           pc' = [pc EXCEPT ![t] = p], loc' = [loc EXCEPT ![t] = l],
           Known(t, p, l),
           \A u \in Turns \ {t} : Traceless(u) => Unseen(u, l.hist),
           \/ saved' = saved
           \/ \E s \in Sessions, h \in Seq(Message) :
                 /\ saved' = [saved EXCEPT ![s] = h]
                 /\ Replayable(h)
                 /\ \A u \in Turns \ {t} : Traceless(u) => Unseen(u, h)
    PROVE  ShapeInv'
<1>1. \A u \in Turns : /\ pc'[u] = IF u = t THEN p ELSE pc[u]
                       /\ loc'[u] = IF u = t THEN l ELSE loc[u]
  BY DEF HistoryInv, TurnFunctions
<1>2. ASSUME NEW u \in Turns
      PROVE  Known(u, pc'[u], loc'[u])
  BY <1>1 DEF ShapeInv
<1> DEFINE Good(h) == /\ h # <<>> => Replayable(h)
                      /\ \A u \in Turns \ {t} : Traceless(u) => Unseen(u, h)
<1>3. \A s \in Sessions : Good(saved'[s])
  <2>1. CASE saved' = saved
    BY <2>1 DEF ShapeInv, Traceless
  <2>2. ASSUME NEW s \in Sessions, NEW h \in Seq(Message),
               saved' = [saved EXCEPT ![s] = h], Replayable(h),
               \A u \in Turns \ {t} : Traceless(u) => Unseen(u, h)
        PROVE  \A r \in Sessions : Good(saved'[r])
    <3>1. \A r \in Sessions : saved'[r] = IF r = s THEN h ELSE saved[r]
      BY <2>2 DEF HistoryInv, SavedHead
    <3> QED BY <2>2, <3>1 DEF ShapeInv, Traceless
  <2> QED BY <2>1, <2>2
<1>4. NoTrace'
  <2>1. ASSUME NEW u \in Turns, pc'[u] \in {"new", "load"}
        PROVE  Traceless(u)'
    <3>1. u # t /\ Traceless(u)
      BY <1>1, <2>1 DEF ShapeInv, NoTrace
    <3>2. \A v \in Turns : Unseen(u, loc'[v].hist)
      BY <1>1, <3>1 DEF Traceless
    <3>3. \A s \in Sessions : Unseen(u, saved'[s])
      BY <1>3, <3>1
    <3> QED BY <3>2, <3>3 DEF Traceless, Unseen
  <2> QED BY <2>1 DEF NoTrace
<1> QED BY <1>2, <1>3, <1>4 DEF ShapeInv


LEMMA NothingKnown ==
    ASSUME NEW t \in Turns, NEW p, p \notin Holding
    PROVE  Known(t, p, NoLocals)
<1>1. Answers(t, <<>>) = {} /\ Asking(t, <<>>) = {}
  BY DEF Answers, Asking
<1>2. NoLocals.hist = <<>> /\ NoLocals.left = 0 /\ NoLocals.results = 0
  BY DEF NoLocals
<1>3. Len(<<>>)+1..Len(<<>>)+0 = {}
  OBVIOUS
<1>4. Matched(t, NoLocals)
  BY <1>1, <1>2, <1>3, FS_EmptySet DEF Matched
<1> QED BY <1>2, <1>4 DEF Known, Holding

(* A request arrives, a session is forgotten, or nothing happens to either.  *)
LEMMA QuietShape ==
    ASSUME HistoryInv, ShapeInv, loc' = loc,
           \A u \in Turns : pc'[u] = pc[u] \/ (pc[u] = "new" /\ pc'[u] = "load"),
           \A s \in Sessions : saved'[s] \in {saved[s], <<>>}
    PROVE  ShapeInv'
<1>1. ASSUME NEW u \in Turns
      PROVE  Known(u, pc'[u], loc'[u])
  <2>1. CASE pc'[u] = pc[u]
    BY <2>1 DEF ShapeInv
  <2>2. CASE pc[u] = "new" /\ pc'[u] = "load"
    <3>1. loc[u] = NoLocals
      BY <2>2 DEF ShapeInv, Known, Holding
    <3> QED BY <2>2, <3>1, NothingKnown DEF Holding
  <2> QED BY <2>1, <2>2
<1>2. \A s \in Sessions : saved'[s] # <<>> => Replayable(saved'[s])
  BY DEF ShapeInv
<1>3. NoTrace'
  BY DEF ShapeInv, NoTrace, Traceless, Unseen
<1> QED BY <1>1, <1>2, <1>3 DEF ShapeInv

LEMMA LoadShape ==
    ASSUME HistoryInv, ShapeInv, NEW t \in Turns, Load(t)
    PROVE  ShapeInv'
<1> DEFINE old == saved[sess[t]]
           base == IF old = <<>> THEN <<SystemMessage>> ELSE old
           l == [loc[t] EXCEPT !.hist = Append(base, UserMessage(t))]
<1>1. /\ pc[t] = "load" /\ sess[t] \in Sessions /\ loc[t] = NoLocals
      /\ pc' = [pc EXCEPT ![t] = "llm"] /\ saved' = saved
      /\ loc' = [loc EXCEPT ![t] = l]
  BY DEF Load, HistoryInv, AtPlace, ShapeInv, Known, Holding, Goto
<1>2. Shaped(base, 0)
  BY <1>1, SystemShaped DEF ShapeInv, Replayable
<1>3. ASSUME NEW u \in Turns, Traceless(u)
      PROVE  Unseen(u, base)
  <2>1. Unseen(u, <<SystemMessage>>)
    BY DEF Unseen, SystemMessage
  <2> QED BY <1>1, <1>3, <2>1 DEF Traceless
<1>4. Unseen(t, base)
  BY <1>1, <1>3 DEF ShapeInv, NoTrace
<1>5. base \in Seq(Message) /\ UserMessage(t) \in Message /\ UserMessage(t).turn = t
  BY <1>2, MessageTypes DEF Shaped, Opened, UserMessage
<1> HIDE DEF base
<1>6. /\ l \in Locals /\ l.hist = Append(base, UserMessage(t))
      /\ l.left = 0 /\ l.results = 0
  <2>1. Append(base, UserMessage(t)) \in Seq(Message)
    BY <1>5, Appended
  <2>2. NoLocals \in Locals /\ NoLocals.left = 0 /\ NoLocals.results = 0
    BY DEF NoLocals, Locals
  <2>3. loc[t] \in Locals /\ loc[t].left = 0 /\ loc[t].results = 0
    BY <1>1, <2>2
  <2> QED BY <2>1, <2>3 DEF Locals
<1> HIDE DEF l
<1>7. Shaped(l.hist, l.left) /\ Last(l.hist).turn = t
  BY <1>2, <1>4, <1>5, <1>6, UserOpens, Appended
<1>8. Known(t, "llm", l)
  BY <1>4, <1>5, <1>6, <1>7, NothingMatched DEF Known, Holding
<1>9. \A u \in Turns \ {t} : Traceless(u) => Unseen(u, l.hist)
  BY <1>3, <1>5, <1>6, OwnMessage
<1> QED BY <1>1, <1>6, <1>8, <1>9, OneShape DEF Places

(* What a turn knows that has a history.                                     *)
LEMMA Holds ==
    ASSUME HistoryInv, ShapeInv, NEW t \in Turns, pc[t] \in Holding
    PROVE  /\ loc[t] \in Locals /\ loc[t].hist \in Seq(Message)
           /\ loc[t].left \in Nat /\ loc[t].results \in Nat
           /\ Shaped(loc[t].hist, loc[t].left) /\ Last(loc[t].hist).turn = t
           /\ Matched(t, loc[t])
           /\ pc[t] \notin {"dispatch", "tool"} => loc[t].left = 0
           /\ pc[t] \in {"dispatch", "tool"} => loc[t].left > 0
           /\ pc[t] \in {"dispatch", "tool", "save"} =>
                Last(loc[t].hist).role \in {"assistant", "tool"}
           /\ \A u \in Turns \ {t} : Traceless(u) => Unseen(u, loc[t].hist)
           /\ loc = [loc EXCEPT ![t] = loc[t]]
<1>1. Known(t, pc[t], loc[t]) /\ AtPlace(t)
  BY DEF HistoryInv, ShapeInv
<1>2. loc[t] \in Locals /\ loc = [loc EXCEPT ![t] = loc[t]]
  BY LocalsKept
<1> QED BY <1>1, <1>2 DEF Known, AtPlace, Locals, Traceless

LEMMA AnswerShape ==
    ASSUME HistoryInv, ShapeInv, NEW t \in Turns, AnswerText(t) \/ AnswerTools(t)
    PROVE  ShapeInv'
<1>0. pc[t] = "llm" /\ pc[t] \in Holding /\ saved' = saved
  BY DEF AnswerText, AnswerTools, Holding
<1>1. CASE AnswerText(t)
  <2>1. PICK p \in {"stream", "final"} : pc' = [pc EXCEPT ![t] = p]
    BY <1>1 DEF AnswerText, AfterLoop, Goto
  <2>2. loc' = [loc EXCEPT ![t] = loc[t]]
    BY <1>1, LocalsKept DEF AnswerText
  <2>3. Known(t, p, loc[t])
    BY <1>0, <2>1, Holds DEF Known, Holding
  <2>4. p \in Places \ {"new", "load"}
    BY <2>1 DEF Places
  <2> QED BY <1>0, <2>1, <2>2, <2>3, <2>4, Holds, OneShape
<1>2. CASE AnswerTools(t)
  <2>1. PICK n \in 1..MaxCalls[loc[t].round + 1] :
            loc' = [loc EXCEPT ![t].hist = Append(@, AnswerMessage(t, n)), ![t].left = n]
    BY <1>2 DEF AnswerTools
  <2>2. n \in Nat /\ n > 0
    BY <1>0, <2>1, Holds
  <2> DEFINE l == [loc[t] EXCEPT !.hist = Append(@, AnswerMessage(t, n)), !.left = n]
  <2>3. loc' = [loc EXCEPT ![t] = l] /\ pc' = [pc EXCEPT ![t] = "dispatch"]
    <3>1. loc' = [loc EXCEPT ![t] = l]
      BY <2>1
    <3>2. pc' = [pc EXCEPT ![t] = "dispatch"]
      BY <1>2 DEF AnswerTools, Goto
    <3> QED BY <3>1, <3>2
  <2>4. /\ AnswerMessage(t, n) \in Message /\ AnswerMessage(t, n).turn = t
        /\ AnswerMessage(t, n).role = "assistant"
    BY <2>2, MessageTypes DEF AnswerMessage
  <2>5. /\ l \in Locals /\ l.hist = Append(loc[t].hist, AnswerMessage(t, n))
        /\ l.left = n /\ l.results = loc[t].results
    <3>1. Append(loc[t].hist, AnswerMessage(t, n)) \in Seq(Message) /\ loc[t] \in Locals
      BY <1>0, <2>4, Holds, Appended
    <3> QED BY <2>2, <3>1 DEF Locals
  <2> HIDE DEF l
  <2>6. Shaped(l.hist, l.left)
    BY <1>0, <2>2, <2>5, Holds, AnswerGoesOn
  <2>7. Last(l.hist) = AnswerMessage(t, n)
    BY <1>0, <2>4, <2>5, Holds, Appended
  <2>8. Matched(t, l)
    <3>1. loc[t] \in Locals /\ Matched(t, loc[t]) /\ loc[t].left = 0
      BY <1>0, Holds
    <3> QED BY <2>2, <2>5, <3>1, MatchedCall
  <2>9. Known(t, "dispatch", l)
    BY <2>4, <2>6, <2>7, <2>8 DEF Known, Holding
  <2>10. \A u \in Turns \ {t} : Traceless(u) => Unseen(u, l.hist)
    BY <1>0, <2>4, <2>5, Holds, OwnMessage
  <2> QED BY <1>0, <2>3, <2>5, <2>9, <2>10, OneShape DEF Places
<1> QED BY <1>1, <1>2


(* A call is answered, or handed to a thread.                                *)
LEMMA ToolShape ==
    ASSUME HistoryInv, ShapeInv, NEW t \in Turns,
           ReadTool(t) \/ CreateTool(t) \/ CancelTool(t) \/ JobAnswered(t)
    PROVE  ShapeInv'
<1>0. /\ pc[t] \in {"dispatch", "tool"} /\ pc[t] \in Holding
      /\ saved' = saved
  BY DEF ReadTool, CreateTool, CancelTool, StartJob, JobAnswered, Answered, Holding
<1>1. CASE CreateTool(t) \/ CancelTool(t)
  <2>1. pc' = [pc EXCEPT ![t] = "tool"] /\ loc' = loc
    BY <1>1 DEF CreateTool, CancelTool, StartJob, Goto
  <2>2. Known(t, "tool", loc[t])
    BY <1>0, Holds DEF Known, Holding
  <2> QED BY <1>0, <2>1, <2>2, Holds, OneShape DEF Places
<1>2. CASE ReadTool(t) \/ JobAnswered(t)
  <2> DEFINE l == [loc[t] EXCEPT !.hist = Append(@, ToolMessage(t)),
                                 !.results = @ + 1, !.left = @ - 1]
             p == IF loc[t].left = 1 THEN "save" ELSE "dispatch"
  <2>1. loc' = [loc EXCEPT ![t] = l] /\ pc' = [pc EXCEPT ![t] = p]
    <3>1. Answered(t)
      BY <1>2 DEF ReadTool, JobAnswered
    <3>2. loc' = [loc EXCEPT ![t] = l]
      BY <3>1 DEF Answered
    <3>3. pc' = [pc EXCEPT ![t] = p]
      BY <3>1 DEF Answered, Goto
    <3> QED BY <3>2, <3>3
  <2>2. /\ ToolMessage(t) \in Message /\ ToolMessage(t).turn = t
        /\ ToolMessage(t).role = "tool"
    BY MessageTypes DEF ToolMessage
  <2>3. /\ l \in Locals /\ l.hist = Append(loc[t].hist, ToolMessage(t))
        /\ l.left = loc[t].left - 1 /\ l.results = loc[t].results + 1
    <3>1. Append(loc[t].hist, ToolMessage(t)) \in Seq(Message) /\ loc[t] \in Locals
      BY <1>0, <2>2, Holds, Appended
    <3>2. loc[t].left - 1 \in Nat /\ loc[t].results + 1 \in Nat
      BY <1>0, Holds
    <3> QED BY <3>1, <3>2 DEF Locals
  <2> HIDE DEF l
  <2>4. Shaped(l.hist, l.left)
    BY <1>0, <2>3, Holds, ToolGoesOn
  <2>5. Last(l.hist) = ToolMessage(t)
    BY <1>0, <2>2, <2>3, Holds, Appended
  <2>6. Matched(t, l)
    BY <1>0, <2>3, Holds, MatchedAnswer
  <2>7. p = "save" => l.left = 0
    BY <2>3
  <2>8. p \in Places \ {"new", "load"} /\ p \in Holding /\ p \in {"dispatch", "save"}
    BY DEF Places, Holding
  <2> HIDE DEF p
  <2>9. Known(t, p, l)
    BY <2>2, <2>4, <2>5, <2>6, <2>7, <2>8 DEF Known
  <2>10. \A u \in Turns \ {t} : Traceless(u) => Unseen(u, l.hist)
    BY <1>0, <2>2, <2>3, Holds, OwnMessage
  <2> QED BY <1>0, <2>1, <2>3, <2>8, <2>9, <2>10, OneShape
<1> QED BY <1>1, <1>2

(* A round is saved with all its answers.                                    *)
LEMMA SaveRoundShape ==
    ASSUME HistoryInv, ShapeInv, NEW t \in Turns, SaveRound(t)
    PROVE  ShapeInv'
<1> DEFINE l == [loc[t] EXCEPT !.round = @ + 1]
<1>0. pc[t] = "save" /\ pc[t] \in Holding /\ sess[t] \in Sessions
  BY DEF SaveRound, HistoryInv, AtPlace, Holding
<1>1. loc[t] \in Locals /\ loc[t].round + 1 \in 0..MaxRounds
  BY <1>0, InLoop DEF Locals
<1>2. /\ l \in Locals /\ l.hist = loc[t].hist /\ l.left = loc[t].left
      /\ l.results = loc[t].results
  BY <1>1 DEF Locals
<1>3. loc' = [loc EXCEPT ![t] = l] /\ saved' = [saved EXCEPT ![sess[t]] = loc[t].hist]
  BY DEF SaveRound, Save
<1> HIDE DEF l
<1>4. PICK p \in {"llm", "stream", "final"} : pc' = [pc EXCEPT ![t] = p]
  BY DEF SaveRound, Goto, AfterLoop
<1>5. p \in Places \ {"new", "load"} /\ p \in Holding /\ p \notin {"dispatch", "tool", "save"}
  BY <1>4 DEF Places, Holding
<1>6. Replayable(loc[t].hist)
  BY <1>0, Holds DEF Replayable
<1>7. Known(t, p, l)
  <2>1. Matched(t, l)
    <3>1. Matched(t, loc[t])
      BY <1>0, Holds
    <3> QED BY <1>2, <3>1, Zenon DEF Matched
  <2> QED BY <1>0, <1>2, <1>5, <2>1, Holds DEF Known
<1> QED BY <1>0, <1>2, <1>3, <1>4, <1>5, <1>6, <1>7, Holds, OneShape

(* The end of a turn.                                                        *)
LEMMA EndShape ==
    ASSUME HistoryInv, ShapeInv, NEW t \in Turns, Stream(t) \/ SaveFinal(t) \/ TurnFails(t)
    PROVE  ShapeInv'
<1>0. NoLocals \in Locals /\ NoLocals.hist = <<>> /\ \A u \in Turns : Unseen(u, <<>>)
  BY DEF NoLocals, Locals, Unseen
<1>1. CASE Stream(t)
  <2>1. /\ pc[t] = "stream" /\ pc[t] \in Holding
        /\ pc' = [pc EXCEPT ![t] = "final"] /\ saved' = saved /\ loc' = loc
    BY <1>1 DEF Stream, Goto, Holding
  <2>2. Known(t, "final", loc[t])
    BY <2>1, Holds DEF Known, Holding
  <2> QED BY <2>1, <2>2, Holds, OneShape DEF Places
<1>2. CASE SaveFinal(t)
  <2> DEFINE h == Append(loc[t].hist, AnswerMessage(t, 0))
  <2>1. /\ pc[t] = "final" /\ pc[t] \in Holding /\ sess[t] \in Sessions
        /\ pc' = [pc EXCEPT ![t] = "done"] /\ loc' = [loc EXCEPT ![t] = NoLocals]
        /\ saved' = [saved EXCEPT ![sess[t]] = h]
    BY <1>2 DEF SaveFinal, Save, Goto, Holding, HistoryInv, AtPlace
  <2>2. /\ AnswerMessage(t, 0) \in Message /\ AnswerMessage(t, 0).turn = t
        /\ AnswerMessage(t, 0).role = "assistant"
    BY MessageTypes DEF AnswerMessage
  <2>3. h \in Seq(Message) /\ Last(h) = AnswerMessage(t, 0)
    BY <2>1, <2>2, Holds, Appended
  <2>4. Shaped(h, 0)
    BY <2>1, Holds, AnswerGoesOn
  <2>5. \A u \in Turns \ {t} : Traceless(u) => Unseen(u, h)
    BY <2>1, <2>2, Holds, OwnMessage
  <2>6. Known(t, "done", NoLocals)
    BY NothingKnown DEF Holding
  <2>7. Replayable(h)
    BY <2>2, <2>3, <2>4 DEF Replayable
  <2> HIDE DEF h
  <2> QED BY <1>0, <2>1, <2>3, <2>5, <2>6, <2>7, OneShape DEF Places
<1>3. CASE TurnFails(t)
  <2>1. /\ pc' = [pc EXCEPT ![t] = "failed"] /\ loc' = [loc EXCEPT ![t] = NoLocals]
        /\ saved' = saved
    BY <1>3 DEF TurnFails, Goto
  <2>2. Known(t, "failed", NoLocals)
    BY NothingKnown DEF Holding
  <2> QED BY <1>0, <2>1, <2>2, OneShape DEF Places
<1> QED BY <1>1, <1>2, <1>3


(* A worker that dies takes its turns with it.                               *)
LEMMA CrashShape ==
    ASSUME HistoryInv, JobInv, ShapeInv, Crash
    PROVE  ShapeInv'
<1>1. PICK W \in SUBSET Turns :
          /\ pc' = [t \in Turns |-> IF t \in W THEN "failed" ELSE pc[t]]
          /\ loc' = [t \in Turns |-> IF t \in W THEN NoLocals ELSE loc[t]]
          /\ saved' = saved \/ saved' = [s \in Sessions |-> <<>>]
  BY DEF Crash
<1>2. ASSUME NEW t \in Turns
      PROVE  Known(t, pc'[t], loc'[t])
  <2>1. CASE t \in W
    BY <1>1, <2>1, NothingKnown DEF Holding
  <2>2. CASE t \notin W
    BY <1>1, <2>2 DEF ShapeInv
  <2> QED BY <2>1, <2>2
<1>3. \A s \in Sessions : saved'[s] = saved[s] \/ saved'[s] = <<>>
  BY <1>1
<1>4. \A u \in Turns : loc'[u].hist = loc[u].hist \/ loc'[u].hist = <<>>
  BY <1>1 DEF NoLocals
<1>5. NoTrace'
  <2>1. \A t \in Turns : pc'[t] \in {"new", "load"} => pc'[t] = pc[t]
    BY <1>1
  <2> QED BY <1>3, <1>4, <2>1 DEF ShapeInv, NoTrace, Traceless, Unseen
<1> QED BY <1>2, <1>3, <1>5 DEF ShapeInv

LEMMA ShapeInvStep ==
    ASSUME HistoryInv, JobInv, ShapeInv, [Next]_vars
    PROVE  ShapeInv'
<1>1. ASSUME NEW t \in Turns, Begin(t)
      PROVE  ShapeInv'
  <2>1. /\ \A u \in Turns : pc'[u] = pc[u] \/ (pc[u] = "new" /\ pc'[u] = "load")
        /\ loc' = loc /\ saved' = saved
    BY <1>1 DEF Begin, Goto, HistoryInv, TurnFunctions
  <2> QED BY <2>1, QuietShape
<1>2. ASSUME NEW t \in Turns, ThreadStep(t)
      PROVE  ShapeInv'
  <2>1. UNCHANGED <<saved, pc, loc>>
    BY <1>2
    DEF ThreadStep, CreateCommits, CancelCommits, CancelMisses, JobRaises, turnVars
  <2> QED BY <2>1, QuietShape
<1>3. CASE UNCHANGED vars \/ \E s \in Sessions : Forget(s)
  <2>1. pc' = pc /\ loc' = loc /\ \A s \in Sessions : saved'[s] \in {saved[s], <<>>}
    BY <1>3 DEF vars, turnVars, Forget, HistoryInv, SavedHead
  <2> QED BY <2>1, QuietShape
<1>4. ASSUME NEW t \in Turns, TurnStep(t)
      PROVE  ShapeInv'
  BY <1>4, LoadShape, AnswerShape, ToolShape, SaveRoundShape, EndShape DEF TurnStep
<1> QED BY <1>1, <1>2, <1>3, <1>4, CrashShape DEF Next

(* The shape of every history holds throughout.                              *)
THEOREM TurnShapeInv == Spec => []ShapeInv
<1>1. Init => ShapeInv
  <2>1. ASSUME Init, NEW t \in Turns
        PROVE  Known(t, pc[t], loc[t])
    BY <2>1, NothingKnown DEF Init, Holding
  <2>2. Init => NoTrace
    BY DEF Init, NoTrace, Traceless, Unseen, NoLocals
  <2> QED BY <2>1, <2>2 DEF Init, ShapeInv
<1>2. HistoryInv /\ JobInv /\ ShapeInv /\ [Next]_vars => ShapeInv'
  BY ShapeInvStep
<1> QED BY <1>1, <1>2, TurnHistoryInv, PTL DEF Spec

LEMMA ShapedAnswers ==
    ASSUME NEW h, Shaped(h, 0), NEW i \in 1..Len(h), h[i].role = "assistant"
    PROVE  CallsAnswered(h, i)
<1> DEFINE n == h[i].calls
<1>1. AnsweredBut(h, i, 0) /\ h \in Seq(Message) /\ n \in Nat
  <2>1. h \in Seq(Message) /\ AnsweredBut(h, i, 0)
    BY DEF Shaped, Opened
  <2>2. h[i] \in Message
    BY <2>1
  <2> QED BY <2>1, <2>2 DEF Message
<1>2. \/ i + n = Len(h)
      \/ i + n < Len(h) /\ h[i + n + 1].role # "tool"
  BY <1>1 DEF AnsweredBut
<1>3. \A j \in i+1..i+n : h[j].role = "tool" /\ h[j].turn = h[i].turn
  BY <1>1, <1>2 DEF AnsweredBut
<1> QED BY <1>1, <1>2, <1>3 DEF CallsAnswered

(* A saved history can be sent to the model again: the system message first  *)
(* and only there, every call answered right behind it, no answer without    *)
(* its call, and a reply at the end, whoever saved it and whoever was        *)
(* interrupted.                                                              *)
THEOREM TurnSavedReplayable == Spec => []SavedReplayable
<1>1. ASSUME NEW h, Replayable(h)
      PROVE  /\ h[1] = SystemMessage
             /\ \A i \in 2..Len(h) : h[i].role # "system"
             /\ \A i \in 1..Len(h) : h[i].role = "assistant" => CallsAnswered(h, i)
             /\ \A i \in 2..Len(h) : h[i].role = "tool" => h[i-1].role \in {"assistant", "tool"}
             /\ Last(h).role \in {"assistant", "tool"}
  <2>1. Shaped(h, 0) /\ Last(h).role \in {"assistant", "tool"}
    BY <1>1 DEF Replayable
  <2>2. \A i \in 1..Len(h) : h[i].role = "assistant" => CallsAnswered(h, i)
    BY <2>1, ShapedAnswers
  <2>3. h[1] = SystemMessage
    BY <2>1 DEF Shaped, Opened
  <2> QED BY <2>1, <2>2, <2>3 DEF Shaped
<1>2. ShapeInv => SavedReplayable
  BY <1>1 DEF SavedReplayable, ShapeInv
<1> QED BY <1>2, TurnShapeInv, PTL

(* The messages of a turn are one block in every saved history: turns that   *)
(* race on a session lose messages but never mix them.                       *)
THEOREM TurnsStayWhole == Spec => []TurnsWhole
<1>1. ASSUME ShapeInv, NEW s \in Sessions, NEW i \in 2..Len(saved[s])
      PROVE  LET h == saved[s]
             IN IF h[i].role = "user"
                THEN \A j \in 1..i-1 : h[j].turn # h[i].turn
                ELSE h[i].turn = h[i-1].turn
  <2>1. saved[s] # <<>>
    BY <1>1
  <2> QED BY <1>1, <2>1 DEF ShapeInv, Replayable, Shaped
<1>2. ShapeInv => TurnsWhole
  BY <1>1 DEF TurnsWhole
<1> QED BY <1>2, TurnShapeInv, PTL

(* The client gets a result for just the calls that the model sees answered. *)
THEOREM TurnResultsMatch == Spec => []ResultsMatchHistory
<1>1. ShapeInv => ResultsMatchHistory
  BY DEF ShapeInv, Known, Matched, Answers, Asking, ResultsMatchHistory
<1> QED BY <1>1, TurnShapeInv, PTL


(* A sequence that goes on as a history does, behind some first messages and *)
(* to its end, has all the answers to the calls it has.                      *)
LEMMA EndAnswered ==
    ASSUME NEW h, Shaped(h, 0), NEW w, NEW b \in Nat, NEW d \in Nat,
           Len(w) \in Nat, Len(w) + d = Len(h),
           \A i \in b+1..Len(w) : w[i] = h[i + d],
           NEW i \in b+1..Len(w), w[i].role = "assistant"
    PROVE  CallsAnswered(w, i)
<1> DEFINE n == h[i + d].calls
<1>1. i + d \in 1..Len(h) /\ w[i] = h[i + d]
  OBVIOUS
<1>2. CallsAnswered(h, i + d) /\ n \in Nat
  <2>1. CallsAnswered(h, i + d)
    BY <1>1, ShapedAnswers
  <2>2. h \in Seq(Message)
    BY DEF Shaped, Opened
  <2>3. h[i + d] \in Message
    BY <1>1, <2>2
  <2> QED BY <2>1, <2>3 DEF Message
<1> HIDE DEF n
<1>3. /\ i + d + n <= Len(h)
      /\ \A j \in i+d+1..i+d+n : h[j].role = "tool" /\ h[j].turn = h[i + d].turn
      /\ i + d + n < Len(h) => h[i + d + n + 1].role # "tool"
  BY <1>2 DEF CallsAnswered, n
<1>4. ASSUME NEW j \in i+1..i+n
      PROVE  w[j].role = "tool" /\ w[j].turn = w[i].turn
  <2>1. j + d \in i+d+1..i+d+n /\ j \in b+1..Len(w)
    BY <1>2, <1>3
  <2> QED BY <1>1, <1>3, <2>1
<1>5. i + n <= Len(w)
  BY <1>2, <1>3
<1>6. ASSUME i + n < Len(w)
      PROVE  w[i + n + 1].role # "tool"
  <2>1. i + n + 1 \in b+1..Len(w) /\ (i + n + 1) + d = i + d + n + 1
    <3>1. n \in Nat /\ i \in Nat /\ d \in Int /\ Len(w) \in Nat /\ b + 1 <= i
      BY <1>2
    <3> QED BY <1>6, <3>1
  <2> QED BY <1>2, <1>3, <1>6, <2>1
<1> QED BY <1>1, <1>4, <1>5, <1>6 DEF CallsAnswered, n

(* What a prompt is made of.                                                 *)
LEMMA CutElements ==
    ASSUME NEW h \in Seq(Message), NEW k \in 0..Len(h) - 1
    PROVE  LET w == Context!Cut(h, k)
           IN /\ Len(w) \in Nat /\ Len(w) + k = Len(h) /\ w[1] = Head(h)
              /\ \A i \in 2..Len(w) : w[i] = h[i + k]
BY DEF Context!Cut, Context!Behind

LEMMA CondensedElements ==
    ASSUME NEW h \in Seq(Message), NEW k \in 1..Len(h) - 1
    PROVE  LET w == Context!Condensed(h, k)
           IN /\ Len(w) \in Nat /\ Len(w) + (k - 1) = Len(h)
              /\ w[1] = Head(h) /\ w[2] = SummaryMessage(k)
              /\ \A i \in 3..Len(w) : w[i] = h[i + (k - 1)]
BY DEF Context!Condensed, Context!Behind

(* Whatever is sent to the model begins with the system message, goes on     *)
(* with the newest messages unchanged, and has the answers to all calls that *)
(* it has.                                                                   *)
LEMMA PromptAnswered ==
    ASSUME NEW h, Shaped(h, 0), NEW w, Context!Coherent(h, w)
    PROVE  /\ Head(w) = SystemMessage
           /\ \A i \in DOMAIN w : w[i].role = "assistant" => CallsAnswered(w, i)
<1>1. h \in Seq(Message) /\ Head(h) = SystemMessage /\ SystemMessage.role = "system"
  BY DEF Shaped, Opened, SystemMessage
<1>2. PICK k \in 0..Len(h) - 1 :
          w = Context!Cut(h, k) \/ (k > 0 /\ w = Context!Condensed(h, k))
  BY DEF Context!Coherent
<1>3. k \in Nat
  BY <1>1, <1>2
<1>4. CASE w = Context!Cut(h, k)
  <2>1. w \in Seq(Message) /\ w # <<>>
    BY <1>1, <1>2, <1>4 DEF Context!Cut, Context!Behind
  <2>2. /\ Len(w) + k = Len(h) /\ w[1] = SystemMessage
        /\ \A i \in 1+1..Len(w) : w[i] = h[i + k]
    <3>1. h # <<>>
      BY DEF Shaped, Opened
    <3> QED BY <1>1, <1>4, <3>1, CutElements
  <2>3. \A i \in DOMAIN w : w[i].role = "assistant" => i \in 1+1..Len(w)
    BY <1>1, <2>1, <2>2
  <2>4. Head(w) = SystemMessage /\ Len(w) \in Nat
    BY <2>1, <2>2
  <2> QED BY <1>3, <2>2, <2>3, <2>4, EndAnswered
<1>5. CASE k > 0 /\ w = Context!Condensed(h, k)
  <2>1. w \in Seq(Message) /\ w # <<>>
    <3>1. SummaryMessage(k) \in Message /\ SystemMessage \in Message
      BY <1>3 DEF SummaryMessage, SystemMessage, Message
    <3>2. <<SystemMessage, SummaryMessage(k)>> \in Seq(Message)
      BY <3>1
    <3>3. SubSeq(h, k + 2, Len(h)) \in Seq(Message)
      BY <1>1, <1>3
    <3>4. w = <<SystemMessage, SummaryMessage(k)>> \o SubSeq(h, k + 2, Len(h))
      BY <1>1, <1>5 DEF Context!Condensed, Context!Behind
    <3> QED BY <3>2, <3>3, <3>4
  <2>2. /\ k - 1 \in Nat /\ Len(w) + (k - 1) = Len(h) /\ w[1] = SystemMessage
        /\ w[2] = SummaryMessage(k)
        /\ \A i \in 2+1..Len(w) : w[i] = h[i + (k - 1)]
    BY <1>1, <1>2, <1>3, <1>5, CondensedElements
  <2>3. \A i \in DOMAIN w : w[i].role = "assistant" => i \in 2+1..Len(w)
    <3>1. DOMAIN w = 1..Len(w) /\ Len(w) \in Nat
      BY <2>1
    <3>2. w[1].role # "assistant" /\ w[2].role # "assistant"
      BY <2>2 DEF SummaryMessage, SystemMessage
    <3> QED BY <3>1, <3>2
  <2>4. Head(w) = SystemMessage /\ Len(w) \in Nat
    BY <2>1, <2>2
  <2> QED BY <2>2, <2>3, <2>4, EndAnswered
<1> QED BY <1>2, <1>4, <1>5

(* A prompt begins with the system message, goes on with the newest messages *)
(* as they are in the history, and has all answers of a call that it has.    *)
THEOREM TurnPromptsCoherent == Spec => []PromptCoherent
<1>1. ASSUME HistoryInv, ShapeInv, NEW t \in Turns, NEW w \in Prompts(t)
      PROVE  /\ Head(w) = SystemMessage
             /\ Context!Coherent(loc[t].hist, w)
             /\ \A i \in DOMAIN w : w[i].role = "assistant" => CallsAnswered(w, i)
  <2>1. pc[t] \in {"llm", "stream"} /\ w \in Context!Windows(loc[t].hist)
    BY <1>1 DEF Prompts
  <2>2. Shaped(loc[t].hist, 0) /\ loc[t].hist \in Seq(Message) /\ loc[t].hist # <<>>
    BY <1>1, <2>1, Holds DEF Holding, Shaped, Opened
  <2>3. Context!Coherent(loc[t].hist, w)
    BY <2>1, <2>2, WindowCoherent
  <2> QED BY <2>2, <2>3, PromptAnswered
<1>2. HistoryInv /\ ShapeInv => PromptCoherent
  BY <1>1 DEF PromptCoherent
<1> QED BY <1>2, TurnHistoryInv, TurnShapeInv, PTL

-----------------------------------------------------------------------------
(* 5. Which saves drop messages.                                             *)

LEMMA PrefixGrows ==
    ASSUME NEW h \in Seq(Message), NEW m \in Message
    PROVE  /\ IsPrefix(h, h) /\ IsPrefix(h, Append(h, m))
           /\ \A g \in Seq(Message) : IsPrefix(g, h) => IsPrefix(g, Append(h, m))
BY Appended DEF IsPrefix

(* A step of one turn that saves nothing, or the step of a thread.           *)
LEMMA UnsavedFresh ==
    ASSUME HistoryInv, FreshCopy, NEW t \in Turns, FreshAt(t)',
           \A u \in Turns \ {t} : /\ pc'[u] = pc[u] /\ sess'[u] = sess[u]
                                  /\ loc'[u] = loc[u] /\ stale'[u] = stale[u],
           \A s \in Sessions : saved'[s] \in {saved[s], <<>>}
    PROVE  FreshCopy'
<1>1. ASSUME NEW u \in Turns \ {t}
      PROVE  FreshAt(u)'
  <2>1. pc[u] \in Holding => sess[u] \in Sessions
    BY DEF HistoryInv, AtPlace, Holding
  <2> QED BY <2>1 DEF FreshCopy, FreshAt
<1> QED BY <1>1 DEF FreshCopy

(* A save makes every other copy of the session an old one.                  *)
LEMMA SavedForOthers ==
    ASSUME HistoryInv, NEW t \in Turns, NEW h, Save(t, h),
           NEW u \in Turns \ {t}, pc[u] \in Holding, ~ stale'[u]
    PROVE  ~ stale[u] /\ saved'[sess[u]] = saved[sess[u]]
<1>1. Active(u) /\ sess[u] \in Sessions
  BY DEF Active, Holding, HistoryInv, AtPlace
<1>2. ~ stale[u] /\ sess[u] # sess[t]
  BY <1>1 DEF Save
<1> QED BY <1>1, <1>2 DEF Save, HistoryInv, SavedHead

LEMMA SavedFresh ==
    ASSUME HistoryInv, FreshCopy, NEW t \in Turns, NEW h, Save(t, h), FreshAt(t)',
           pc[t] \in Holding, sess' = sess,
           \A u \in Turns \ {t} : pc'[u] = pc[u] /\ loc'[u] = loc[u]
    PROVE  FreshCopy'
BY SavedForOthers DEF FreshCopy, FreshAt

LEMMA FreshCopyStep ==
    ASSUME HistoryInv, JobInv, ShapeInv, FreshCopy, [Next]_vars
    PROVE  FreshCopy'
<1>1. ASSUME NEW t \in Turns, Begin(t) \/ TurnFails(t)
      PROVE  FreshCopy'
  <2>1. FreshAt(t)'
    BY <1>1 DEF Begin, TurnFails, Goto, Holding, FreshAt, HistoryInv, TurnFunctions
  <2>2. /\ \A u \in Turns \ {t} : /\ pc'[u] = pc[u] /\ sess'[u] = sess[u]
                                  /\ loc'[u] = loc[u] /\ stale'[u] = stale[u]
        /\ saved' = saved
    BY <1>1 DEF Begin, TurnFails, Goto, HistoryInv, TurnFunctions
  <2> QED BY <2>1, <2>2, UnsavedFresh
<1>2. ASSUME NEW t \in Turns, Load(t)
      PROVE  FreshCopy'
  <2> DEFINE old == saved[sess[t]]
             base == IF old = <<>> THEN <<SystemMessage>> ELSE old
  <2>1. /\ sess[t] \in Sessions /\ old \in Seq(Message)
        /\ sess' = sess /\ saved' = saved
        /\ loc'[t].hist = Append(base, UserMessage(t))
    <3>1. pc[t] = "load" /\ loc[t] \in Locals
      BY <1>2 DEF Load, HistoryInv, AtPlace
    <3> QED BY <1>2, <3>1 DEF Load, HistoryInv, AtPlace, SavedHead, TurnFunctions, Locals
  <2>2. old = <<>> \/ IsPrefix(old, Append(base, UserMessage(t)))
    BY <2>1, PrefixGrows, MessageTypes
  <2>3. FreshAt(t)'
    BY <2>1, <2>2 DEF FreshAt
  <2>4. \A u \in Turns \ {t} : /\ pc'[u] = pc[u] /\ loc'[u] = loc[u] /\ stale'[u] = stale[u]
    BY <1>2 DEF Load, Goto, HistoryInv, TurnFunctions
  <2> QED BY <2>1, <2>3, <2>4, UnsavedFresh
<1>3. ASSUME NEW t \in Turns,
             \/ AnswerText(t) \/ AnswerTools(t) \/ ReadTool(t)
             \/ CreateTool(t) \/ CancelTool(t) \/ JobAnswered(t) \/ Stream(t)
      PROVE  FreshCopy'
  <2>1. pc[t] \in Holding /\ sess[t] \in Sessions
    <3>1. pc[t] \in Holding
      BY <1>3
      DEF AnswerText, AnswerTools, ReadTool, CreateTool, CancelTool, StartJob, JobAnswered,
          Stream, Holding
    <3> QED BY <3>1 DEF HistoryInv, AtPlace, Holding
  <2>2. /\ saved' = saved /\ sess' = sess /\ stale' = stale
        /\ \A u \in Turns \ {t} : pc'[u] = pc[u] /\ loc'[u] = loc[u]
    BY <1>3
    DEF AnswerText, AnswerTools, ReadTool, CreateTool, CancelTool, StartJob, JobAnswered,
        Answered, Stream, Goto, HistoryInv, TurnFunctions
  <2>3. \/ loc'[t].hist = loc[t].hist
        \/ \E m \in Message : loc'[t].hist = Append(loc[t].hist, m)
    <3>1. CASE AnswerTools(t)
      <4>1. PICK n \in 1..MaxCalls[loc[t].round + 1] :
                loc' = [loc EXCEPT ![t].hist = Append(@, AnswerMessage(t, n)), ![t].left = n]
        BY <3>1 DEF AnswerTools
      <4>2. n \in Nat
        BY <2>1, <4>1, Holds
      <4>3. loc'[t].hist = Append(loc[t].hist, AnswerMessage(t, n))
        BY <4>1 DEF HistoryInv, TurnFunctions, Locals
      <4> QED BY <4>2, <4>3, MessageTypes
    <3>2. CASE ReadTool(t) \/ JobAnswered(t)
      <4>1. loc' = [loc EXCEPT ![t].hist = Append(@, ToolMessage(t)),
                               ![t].results = @ + 1, ![t].left = @ - 1]
        BY <3>2 DEF ReadTool, JobAnswered, Answered
      <4>2. loc'[t].hist = Append(loc[t].hist, ToolMessage(t))
        BY <4>1 DEF HistoryInv, TurnFunctions, Locals
      <4> QED BY <4>2, MessageTypes
    <3>3. CASE AnswerText(t) \/ CreateTool(t) \/ CancelTool(t) \/ Stream(t)
      BY <3>3 DEF AnswerText, CreateTool, CancelTool, StartJob, Stream
    <3> QED BY <1>3, <3>1, <3>2, <3>3
  <2>4. saved[sess[t]] \in Seq(Message) /\ loc[t].hist \in Seq(Message)
    BY <2>1, Holds DEF HistoryInv, SavedHead
  <2>5. FreshAt(t)'
    <3> DEFINE old == saved[sess[t]]
    <3>1. ASSUME ~ stale'[t]
          PROVE  old = <<>> \/ IsPrefix(old, loc'[t].hist)
      <4>1. old = <<>> \/ IsPrefix(old, loc[t].hist)
        BY <2>1, <2>2, <3>1 DEF FreshCopy, FreshAt
      <4> QED BY <2>3, <2>4, <4>1, PrefixGrows
    <3> QED BY <2>2, <3>1 DEF FreshAt
  <2> QED BY <2>2, <2>5, UnsavedFresh
<1>4. ASSUME NEW t \in Turns, SaveRound(t) \/ SaveFinal(t)
      PROVE  FreshCopy'
  <2>1. pc[t] \in Holding /\ sess[t] \in Sessions
    <3>1. pc[t] \in Holding
      BY <1>4 DEF SaveRound, SaveFinal, Holding
    <3> QED BY <3>1 DEF HistoryInv, AtPlace, Holding
  <2>2. PICK h : Save(t, h) /\ ((h = loc[t].hist /\ loc'[t].hist = h) \/ pc'[t] = "done")
    <3>1. CASE SaveRound(t)
      <4>1. loc'[t].hist = loc[t].hist
        BY <3>1 DEF SaveRound, HistoryInv, TurnFunctions, Locals
      <4> QED BY <3>1, <4>1 DEF SaveRound
    <3>2. CASE SaveFinal(t)
      BY <3>2 DEF SaveFinal, Goto, HistoryInv, TurnFunctions
    <3> QED BY <1>4, <3>1, <3>2
  <2>3. /\ sess' = sess
        /\ \A u \in Turns \ {t} : pc'[u] = pc[u] /\ loc'[u] = loc[u]
    BY <1>4 DEF SaveRound, SaveFinal, Goto, HistoryInv, TurnFunctions
  <2>4. saved'[sess[t]] = h
    BY <2>1, <2>2 DEF Save, HistoryInv, SavedHead
  <2>5. FreshAt(t)'
    <3>1. CASE pc'[t] = "done"
      BY <3>1 DEF FreshAt, Holding
    <3>2. CASE h = loc[t].hist /\ loc'[t].hist = h
      <4>1. IsPrefix(h, h)
        BY <2>1, <3>2, Holds, PrefixGrows, MessageTypes
      <4> QED BY <2>3, <2>4, <3>2, <4>1 DEF FreshAt
    <3> QED BY <2>2, <3>1, <3>2
  <2> QED BY <2>1, <2>2, <2>3, <2>5, SavedFresh
<1>5. ASSUME NEW t \in Turns, ThreadStep(t)
      PROVE  FreshCopy'
  BY <1>5
  DEF ThreadStep, CreateCommits, CancelCommits, CancelMisses, JobRaises, turnVars,
      FreshCopy, FreshAt
<1>6. CASE Crash
  <2>1. PICK W \in SUBSET Turns :
            /\ pc' = [t \in Turns |-> IF t \in W THEN "failed" ELSE pc[t]]
            /\ loc' = [t \in Turns |-> IF t \in W THEN NoLocals ELSE loc[t]]
            /\ saved' = saved \/ saved' = [s \in Sessions |-> <<>>]
            /\ sess' = sess /\ stale' = stale
    BY <1>6 DEF Crash
  <2>2. ASSUME NEW t \in Turns, pc'[t] \in Holding, ~ stale'[t]
        PROVE  saved'[sess'[t]] = <<>> \/ IsPrefix(saved'[sess'[t]], loc'[t].hist)
    <3>1. t \notin W /\ pc'[t] = pc[t] /\ loc'[t] = loc[t]
      BY <2>1, <2>2 DEF Holding
    <3>2. sess[t] \in Sessions
      BY <2>2, <3>1 DEF HistoryInv, AtPlace, Holding
    <3> QED BY <2>1, <2>2, <3>1, <3>2 DEF FreshCopy, FreshAt
  <2> QED BY <2>2 DEF FreshCopy, FreshAt
<1>7. ASSUME NEW s \in Sessions, Forget(s)
      PROVE  FreshCopy'
  <2>1. /\ UNCHANGED <<pc, sess, loc, stale>>
        /\ \A r \in Sessions : saved'[r] \in {saved[r], <<>>}
    BY <1>7 DEF Forget, turnVars, HistoryInv, SavedHead
  <2>2. \A t \in Turns : pc[t] \in Holding => sess[t] \in Sessions
    BY DEF HistoryInv, AtPlace, Holding
  <2> QED BY <2>1, <2>2 DEF FreshCopy, FreshAt
<1>8. CASE UNCHANGED vars
  BY <1>8 DEF vars, turnVars, FreshCopy, FreshAt
<1> QED BY <1>1, <1>2, <1>3, <1>4, <1>5, <1>6, <1>7, <1>8 DEF Next, TurnStep

LEMMA SaveAdds ==
    ASSUME HistoryInv, ShapeInv, FreshCopy, [Next]_vars, NEW s \in Sessions
    PROVE  \/ saved'[s] = <<>>
           \/ IsPrefix(saved[s], saved'[s])
           \/ \E t \in Turns : sess[t] = s /\ stale[t] /\ pc'[t] # pc[t]
<1>0. saved[s] \in Seq(Message) /\ IsPrefix(saved[s], saved[s])
  <2>1. saved[s] \in Seq(Message) /\ SystemMessage \in Message
    BY DEF HistoryInv, SavedHead, SystemMessage, Message
  <2> QED BY <2>1, PrefixGrows
<1>1. CASE saved'[s] \in {saved[s], <<>>}
  BY <1>0, <1>1
<1>2. ASSUME NEW t \in Turns, SaveRound(t) \/ SaveFinal(t), saved'[s] # saved[s]
      PROVE  IsPrefix(saved[s], saved'[s]) \/ (sess[t] = s /\ stale[t] /\ pc'[t] # pc[t])
  <2>1. pc[t] \in Holding
    BY <1>2 DEF SaveRound, SaveFinal, Holding
  <2>2. PICK h \in {loc[t].hist, Append(loc[t].hist, AnswerMessage(t, 0))} :
            saved' = [saved EXCEPT ![sess[t]] = h]
    BY <1>2 DEF SaveRound, SaveFinal, Save
  <2>3. sess[t] = s /\ saved'[s] = h
    BY <1>2, <2>2 DEF HistoryInv, SavedHead
  <2>4. pc'[t] # pc[t]
    BY <1>2 DEF SaveRound, SaveFinal, Goto, AfterLoop, HistoryInv, TurnFunctions
  <2>5. ASSUME ~ stale[t]
        PROVE  IsPrefix(saved[s], h)
    <3>1. saved[s] = <<>> \/ IsPrefix(saved[s], loc[t].hist)
      BY <2>1, <2>3, <2>5 DEF FreshCopy, FreshAt
    <3>2. loc[t].hist \in Seq(Message) /\ AnswerMessage(t, 0) \in Message
      BY <2>1, Holds, MessageTypes
    <3>3. h \in Seq(Message)
      <4>1. Append(loc[t].hist, AnswerMessage(t, 0)) \in Seq(Message)
        BY <3>2
      <4> QED BY <2>2, <3>2, <4>1
    <3>4. IsPrefix(<<>>, h)
      BY <3>3 DEF IsPrefix
    <3> QED BY <1>0, <2>2, <3>1, <3>2, <3>4, PrefixGrows
  <2> QED BY <2>3, <2>4, <2>5
<1>3. ASSUME NEW t \in Turns,
             \/ Begin(t) \/ Load(t) \/ AnswerText(t) \/ AnswerTools(t) \/ ReadTool(t)
             \/ CreateTool(t) \/ CancelTool(t) \/ JobAnswered(t) \/ Stream(t) \/ TurnFails(t)
             \/ ThreadStep(t)
      PROVE  saved' = saved
  BY <1>3
  DEF Begin, Load, AnswerText, AnswerTools, ReadTool, CreateTool, CancelTool, StartJob,
      JobAnswered, Answered, Stream, TurnFails, ThreadStep, CreateCommits, CancelCommits,
      CancelMisses, JobRaises
<1>4. CASE Crash \/ UNCHANGED vars \/ \E r \in Sessions : Forget(r)
  <2>1. saved'[s] \in {saved[s], <<>>}
    BY <1>4 DEF Crash, vars, Forget, HistoryInv, SavedHead
  <2> QED BY <1>1, <2>1
<1> QED BY <1>1, <1>2, <1>3, <1>4 DEF Next, TurnStep

(* Copies that nobody has saved over are fresh at all times.                 *)
THEOREM TurnFreshCopy == Spec => []FreshCopy
<1>1. Init => FreshCopy
  BY DEF Init, FreshCopy, FreshAt, Holding
<1>2. HistoryInv /\ JobInv /\ ShapeInv /\ FreshCopy /\ [Next]_vars => FreshCopy'
  BY FreshCopyStep
<1> QED BY <1>1, <1>2, TurnHistoryInv, TurnShapeInv, PTL DEF Spec

(* Only a turn that works on an old copy of its session can drop messages of *)
(* it; turns that follow each other only add.                                *)
THEOREM TurnSavesAdd == Spec => OnlyStaleSaveDrops
<1>1. HistoryInv /\ ShapeInv /\ FreshCopy /\ [Next]_vars =>
        \A s \in Sessions :
          \/ saved'[s] = <<>>
          \/ IsPrefix(saved[s], saved'[s])
          \/ \E t \in Turns : sess[t] = s /\ stale[t] /\ pc'[t] # pc[t]
  BY SaveAdds
<1> QED BY <1>1, TurnHistoryInv, TurnShapeInv, TurnFreshCopy, PTL DEF Spec, OnlyStaleSaveDrops

-----------------------------------------------------------------------------
(* 6. The rounds of a turn, and which of them are saved.                     *)

\* Where a round is open.
Open == {"dispatch", "tool", "save"}

\* The answers that asked for tools, and those behind what is saved.
AskedAt(t) ==
    pc[t] \in Holding =>
        LET asking == Asking(t, loc[t].hist)
        IN /\ IsFiniteSet(asking)
           /\ Cardinality(asking) = loc[t].round + (IF pc[t] \in Open THEN 1 ELSE 0)
           /\ ~ stale[t] /\ saved[sess[t]] # <<>> =>
                \A i \in asking : i > Len(saved[sess[t]]) =>
                    pc[t] \in Open /\ \A j \in asking : j <= i

RoundsInv == \A t \in Turns : AskedAt(t)

LEMMA AskingGrows ==
    ASSUME NEW t \in Turns, NEW h \in Seq(Message), NEW m \in Message
    PROVE  /\ Asking(t, h) \subseteq 1..Len(h) /\ Len(h) + 1 \notin Asking(t, h)
           /\ Asking(t, Append(h, m)) = IF m.role = "assistant" /\ m.turn = t
                                        THEN Asking(t, h) \cup {Len(h) + 1}
                                        ELSE Asking(t, h)
<1>1. Asking(t, h) \subseteq 1..Len(h) /\ Len(h) + 1 \notin Asking(t, h)
  BY Appended DEF Asking
<1>2. \A i \in 1..Len(h) + 1 : i \in Asking(t, Append(h, m)) <=>
          \/ i \in Asking(t, h)
          \/ i = Len(h) + 1 /\ m.role = "assistant" /\ m.turn = t
  BY Appended DEF Asking
<1>3. Asking(t, Append(h, m)) \subseteq 1..Len(h) + 1 /\ Len(h) + 1 \in 1..Len(h) + 1
  BY Appended DEF Asking
<1> QED BY <1>1, <1>2, <1>3

(* A turn takes a step; the others keep their copies, or have old ones now.  *)
LEMMA OneAsked ==
    ASSUME RoundsInv, NEW t \in Turns, AskedAt(t)',
           \A u \in Turns \ {t} :
               /\ pc'[u] = pc[u] /\ loc'[u] = loc[u] /\ sess'[u] = sess[u]
               /\ pc[u] \in Holding /\ ~ stale'[u] =>
                     ~ stale[u] /\ saved'[sess[u]] \in {saved[sess[u]], <<>>}
    PROVE  RoundsInv'
<1>1. ASSUME NEW u \in Turns \ {t}
      PROVE  AskedAt(u)'
  BY <1>1 DEF RoundsInv, AskedAt
<1> QED BY <1>1 DEF RoundsInv

(* A round begins, and goes on.                                              *)
LEMMA OpenAsked ==
    ASSUME HistoryInv, ShapeInv, RoundsInv, NEW t \in Turns,
           AnswerTools(t) \/ ReadTool(t) \/ JobAnswered(t)
    PROVE  AskedAt(t)'
<1> DEFINE h == loc[t].hist
           kept == saved[sess[t]]
<1>0. pc[t] \in Holding /\ (AnswerTools(t) => pc[t] \notin Open)
      /\ (~ AnswerTools(t) => pc[t] \in Open)
  BY DEF AnswerTools, ReadTool, JobAnswered, Holding, Open
<1>1. /\ h \in Seq(Message) /\ Len(h) \in Nat /\ sess[t] \in Sessions
      /\ loc[t] \in Locals /\ loc[t].round \in Nat
  <2>1. h \in Seq(Message) /\ loc[t] \in Locals /\ sess[t] \in Sessions
    BY <1>0, Holds DEF HistoryInv, AtPlace, Holding
  <2> QED BY <2>1, Appended DEF Locals
<1>2. kept \in Seq(Message) /\ Len(kept) \in Nat
  BY <1>1 DEF HistoryInv, SavedHead
<1>3. /\ saved' = saved /\ sess' = sess /\ stale' = stale
      /\ pc'[t] \in Open /\ pc'[t] \in Holding
  BY DEF AnswerTools, ReadTool, JobAnswered, Answered, Goto, HistoryInv, TurnFunctions, Open,
         Holding
<1>4. /\ IsFiniteSet(Asking(t, h))
      /\ Cardinality(Asking(t, h)) = loc[t].round + (IF pc[t] \in Open THEN 1 ELSE 0)
      /\ ~ stale[t] /\ kept # <<>> =>
            \A i \in Asking(t, h) : i > Len(kept) =>
                pc[t] \in Open /\ \A j \in Asking(t, h) : j <= i
  BY <1>0 DEF RoundsInv, AskedAt
<1> HIDE DEF h, kept
<1>5. CASE AnswerTools(t)
  <2>1. PICK n \in 1..MaxCalls[loc[t].round + 1] :
            loc' = [loc EXCEPT ![t].hist = Append(@, AnswerMessage(t, n)), ![t].left = n]
    BY <1>5 DEF AnswerTools
  <2>2. AnswerMessage(t, n) \in Message /\ AnswerMessage(t, n).role = "assistant"
        /\ AnswerMessage(t, n).turn = t
    BY MessageTypes DEF AnswerMessage
  <2>3. loc'[t].hist = Append(h, AnswerMessage(t, n)) /\ loc'[t].round = loc[t].round
    BY <2>1 DEF HistoryInv, TurnFunctions, Locals, h
  <2>4. /\ Asking(t, loc'[t].hist) = Asking(t, h) \cup {Len(h) + 1}
        /\ Asking(t, h) \subseteq 1..Len(h) /\ Len(h) + 1 \notin Asking(t, h)
    BY <1>1, <2>2, <2>3, AskingGrows
  <2>5. /\ IsFiniteSet(Asking(t, loc'[t].hist))
        /\ Cardinality(Asking(t, loc'[t].hist)) = loc'[t].round + 1
    BY <1>0, <1>1, <1>4, <1>5, <2>3, <2>4, FS_AddElement
  <2>6. ASSUME ~ stale[t], kept # <<>>, NEW i \in Asking(t, loc'[t].hist), i > Len(kept)
        PROVE  \A j \in Asking(t, loc'[t].hist) : j <= i
    <3>1. i \notin Asking(t, h)
      BY <1>0, <1>4, <1>5, <2>6
    <3>2. i = Len(h) + 1
      BY <2>4, <3>1
    <3> QED BY <1>1, <2>4, <3>2
  <2> QED BY <1>3, <2>5, <2>6 DEF AskedAt, kept
<1>6. CASE ReadTool(t) \/ JobAnswered(t)
  <2>1. loc' = [loc EXCEPT ![t].hist = Append(@, ToolMessage(t)),
                           ![t].results = @ + 1, ![t].left = @ - 1]
    BY <1>6 DEF ReadTool, JobAnswered, Answered
  <2>2. ToolMessage(t) \in Message /\ ToolMessage(t).role = "tool"
    BY MessageTypes DEF ToolMessage
  <2>3. loc'[t].hist = Append(h, ToolMessage(t)) /\ loc'[t].round = loc[t].round
    BY <2>1 DEF HistoryInv, TurnFunctions, Locals, h
  <2>4. Asking(t, loc'[t].hist) = Asking(t, h)
    BY <1>1, <2>2, <2>3, AskingGrows
  <2>5. pc[t] \in Open
    BY <1>6 DEF ReadTool, JobAnswered, Open
  <2> QED BY <1>3, <1>4, <2>3, <2>4, <2>5 DEF AskedAt, kept
<1> QED BY <1>5, <1>6

(* A turn that has just read its session has asked for nothing.              *)
LEMMA LoadAsked ==
    ASSUME HistoryInv, ShapeInv, NEW t \in Turns, Load(t)
    PROVE  AskedAt(t)'
<1> DEFINE base == IF saved[sess[t]] = <<>> THEN <<SystemMessage>> ELSE saved[sess[t]]
<1>1. /\ loc[t] = NoLocals /\ sess[t] \in Sessions
      /\ loc'[t].hist = Append(base, UserMessage(t)) /\ loc'[t].round = loc[t].round
      /\ pc'[t] = "llm"
  <2>1. pc[t] = "load" /\ loc[t] \in Locals
    BY DEF Load, HistoryInv, AtPlace
  <2>2. loc[t] = NoLocals /\ sess[t] \in Sessions
    BY <2>1 DEF HistoryInv, AtPlace, ShapeInv, Known, Holding
  <2>3. pc'[t] = "llm"
    BY DEF Load, Goto, HistoryInv, TurnFunctions
  <2>4. loc'[t].hist = Append(base, UserMessage(t)) /\ loc'[t].round = loc[t].round
    BY DEF Load, HistoryInv, TurnFunctions, Locals
  <2> QED BY <2>2, <2>3, <2>4
<1>2. base \in Seq(Message)
  BY <1>1, MessageTypes DEF HistoryInv, SavedHead
<1>3. Unseen(t, base)
  <2>1. Unseen(t, saved[sess[t]])
    BY <1>1 DEF Load, ShapeInv, NoTrace, Traceless
  <2>2. Unseen(t, <<SystemMessage>>)
    BY TurnConstants DEF Unseen, SystemMessage
  <2> QED BY <2>1, <2>2
<1> HIDE DEF base
<1>4. UserMessage(t) \in Message /\ UserMessage(t).role = "user"
  BY MessageTypes DEF UserMessage
<1>5. Asking(t, loc'[t].hist) = {}
  <2>1. Asking(t, base) = {}
    BY <1>3 DEF Asking, Unseen
  <2> QED BY <1>1, <1>2, <1>4, <2>1, AskingGrows
<1>6. loc'[t].round = 0 /\ pc'[t] \notin Open
  BY <1>1 DEF NoLocals, Open
<1> QED BY <1>5, <1>6, FS_EmptySet DEF AskedAt

(* A saved round has nothing behind what is saved.                           *)
LEMMA SaveRoundAsked ==
    ASSUME HistoryInv, ShapeInv, RoundsInv, NEW t \in Turns, SaveRound(t)
    PROVE  AskedAt(t)'
<1>1. /\ pc[t] = "save" /\ pc[t] \in Holding /\ pc[t] \in Open
      /\ loc[t] \in Locals /\ loc[t].hist \in Seq(Message) /\ sess[t] \in Sessions
  <2>1. pc[t] = "save" /\ pc[t] \in Holding /\ pc[t] \in Open
    BY DEF SaveRound, Holding, Open
  <2> QED BY <2>1, Holds DEF HistoryInv, AtPlace
<1>2. /\ pc'[t] \notin Open /\ sess' = sess
      /\ loc'[t].hist = loc[t].hist /\ loc'[t].round = loc[t].round + 1
      /\ saved'[sess[t]] = loc[t].hist
  <2>1. pc'[t] \in {"llm", "stream", "final"}
    BY DEF SaveRound, Goto, AfterLoop, HistoryInv, TurnFunctions
  <2>2. loc'[t].hist = loc[t].hist /\ loc'[t].round = loc[t].round + 1
    BY DEF SaveRound, HistoryInv, TurnFunctions, Locals
  <2>3. saved'[sess[t]] = loc[t].hist
    BY <1>1 DEF SaveRound, Save, HistoryInv, SavedHead
  <2> QED BY <2>1, <2>2, <2>3 DEF SaveRound, Open
<1>3. \A i \in Asking(t, loc[t].hist) : ~ i > Len(loc[t].hist)
  <2>1. Asking(t, loc[t].hist) \subseteq 1..Len(loc[t].hist) /\ Len(loc[t].hist) \in Nat
    BY <1>1 DEF Asking
  <2> QED BY <2>1
<1>4. /\ IsFiniteSet(Asking(t, loc[t].hist))
      /\ Cardinality(Asking(t, loc[t].hist)) = loc[t].round + 1
  BY <1>1 DEF RoundsInv, AskedAt
<1>5. loc[t].round + 1 + 0 = loc[t].round + 1
  BY <1>1 DEF Locals
<1> QED BY <1>2, <1>3, <1>4, <1>5 DEF AskedAt

LEMMA RoundsInvStep ==
    ASSUME HistoryInv, JobInv, ShapeInv, RoundsInv, [Next]_vars
    PROVE  RoundsInv'
<1>1. ASSUME NEW t \in Turns, Begin(t) \/ Load(t) \/ TurnFails(t)
      PROVE  RoundsInv'
  <2>1. /\ \A u \in Turns \ {t} : /\ pc'[u] = pc[u] /\ sess'[u] = sess[u]
                                  /\ loc'[u] = loc[u] /\ stale'[u] = stale[u]
        /\ saved' = saved
    BY <1>1 DEF Begin, Load, TurnFails, Goto, HistoryInv, TurnFunctions
  <2>2. AskedAt(t)'
    <3>1. CASE Begin(t) \/ TurnFails(t)
      <4>1. pc'[t] \notin Holding
        BY <3>1 DEF Begin, TurnFails, Goto, Holding, HistoryInv, TurnFunctions
      <4> QED BY <4>1 DEF AskedAt
    <3> QED BY <1>1, <3>1, LoadAsked
  <2> QED BY <2>1, <2>2, OneAsked
<1>2. ASSUME NEW t \in Turns, AnswerText(t) \/ Stream(t) \/ CreateTool(t) \/ CancelTool(t)
      PROVE  RoundsInv'
  <2>1. /\ UNCHANGED <<saved, sess, loc, stale>>
        /\ \A u \in Turns \ {t} : pc'[u] = pc[u]
    BY <1>2
    DEF AnswerText, Stream, CreateTool, CancelTool, StartJob, Goto, HistoryInv, TurnFunctions
  <2>2. /\ pc[t] \in Holding /\ pc'[t] \in Holding
        /\ pc'[t] \in Open <=> pc[t] \in Open
    BY <1>2
    DEF AnswerText, Stream, CreateTool, CancelTool, StartJob, AfterLoop, Goto, HistoryInv,
        TurnFunctions, Holding, Open
  <2>3. AskedAt(t)'
    BY <2>1, <2>2 DEF RoundsInv, AskedAt
  <2> QED BY <2>1, <2>3, OneAsked
<1>3. ASSUME NEW t \in Turns, AnswerTools(t) \/ ReadTool(t) \/ JobAnswered(t)
      PROVE  RoundsInv'
  <2>1. /\ saved' = saved /\ sess' = sess /\ stale' = stale
        /\ \A u \in Turns \ {t} : pc'[u] = pc[u] /\ loc'[u] = loc[u]
    BY <1>3 DEF AnswerTools, ReadTool, JobAnswered, Answered, Goto, HistoryInv, TurnFunctions
  <2> QED BY <1>3, <2>1, OpenAsked, OneAsked
<1>4. ASSUME NEW t \in Turns, SaveRound(t) \/ SaveFinal(t)
      PROVE  RoundsInv'
  <2>1. PICK h : Save(t, h)
    BY <1>4 DEF SaveRound, SaveFinal
  <2>2. /\ sess' = sess
        /\ \A u \in Turns \ {t} : pc'[u] = pc[u] /\ loc'[u] = loc[u]
    BY <1>4 DEF SaveRound, SaveFinal, Goto, HistoryInv, TurnFunctions
  <2>3. AskedAt(t)'
    <3>1. CASE SaveFinal(t)
      <4>1. pc'[t] \notin Holding
        BY <3>1 DEF SaveFinal, Goto, Holding, HistoryInv, TurnFunctions
      <4> QED BY <4>1 DEF AskedAt
    <3> QED BY <1>4, <3>1, SaveRoundAsked
  <2>4. \A u \in Turns \ {t} : pc[u] \in Holding /\ ~ stale'[u] =>
            ~ stale[u] /\ saved'[sess[u]] = saved[sess[u]]
    BY <2>1, SavedForOthers
  <2> QED BY <2>2, <2>3, <2>4, OneAsked
<1>5. ASSUME NEW t \in Turns, ThreadStep(t)
      PROVE  RoundsInv'
  BY <1>5
  DEF ThreadStep, CreateCommits, CancelCommits, CancelMisses, JobRaises, turnVars,
      RoundsInv, AskedAt
<1>6. CASE Crash
  <2>1. PICK W \in SUBSET Turns :
            /\ pc' = [t \in Turns |-> IF t \in W THEN "failed" ELSE pc[t]]
            /\ loc' = [t \in Turns |-> IF t \in W THEN NoLocals ELSE loc[t]]
            /\ saved' = saved \/ saved' = [s \in Sessions |-> <<>>]
            /\ sess' = sess /\ stale' = stale
    BY <1>6 DEF Crash
  <2>2. ASSUME NEW t \in Turns, pc'[t] \in Holding
        PROVE  AskedAt(t)'
    <3>1. t \notin W /\ pc'[t] = pc[t] /\ loc'[t] = loc[t]
      BY <2>1, <2>2 DEF Holding
    <3>2. sess[t] \in Sessions
      BY <2>2, <3>1 DEF HistoryInv, AtPlace, Holding
    <3>3. saved'[sess[t]] \in {saved[sess[t]], <<>>}
      BY <2>1, <3>2
    <3> QED BY <2>1, <2>2, <3>1, <3>3 DEF RoundsInv, AskedAt
  <2> QED BY <2>2 DEF RoundsInv, AskedAt
<1>7. ASSUME NEW s \in Sessions, Forget(s)
      PROVE  RoundsInv'
  <2>1. /\ UNCHANGED <<pc, sess, loc, stale>>
        /\ \A r \in Sessions : saved'[r] \in {saved[r], <<>>}
    BY <1>7 DEF Forget, turnVars, HistoryInv, SavedHead
  <2>2. \A t \in Turns : pc[t] \in Holding => sess[t] \in Sessions
    BY DEF HistoryInv, AtPlace, Holding
  <2>3. ASSUME NEW t \in Turns
        PROVE  AskedAt(t)'
    BY <2>1, <2>2 DEF RoundsInv, AskedAt
  <2> QED BY <2>3 DEF RoundsInv
<1>8. CASE UNCHANGED vars
  BY <1>8 DEF vars, turnVars, RoundsInv, AskedAt
<1> QED BY <1>1, <1>2, <1>3, <1>4, <1>5, <1>6, <1>7, <1>8 DEF Next, TurnStep

(* The loop has its bound, and a turn that is cut off leaves at most the     *)
(* tools of one round out of the session that it worked on.                  *)
THEOREM TurnRoundsSaved == Spec => []RoundsSaved
<1>1. Init => RoundsInv
  BY DEF Init, RoundsInv, AskedAt, Holding
<1>2. HistoryInv /\ JobInv /\ ShapeInv /\ RoundsInv /\ [Next]_vars => RoundsInv'
  BY RoundsInvStep
<1>3. ASSUME HistoryInv, ShapeInv, FreshCopy, RoundsInv
      PROVE  RoundsSaved
  <2>1. ASSUME NEW t \in Turns, loc[t].hist # <<>>
        PROVE  pc[t] \in Holding
    BY <1>3, <2>1 DEF ShapeInv, Known, NoLocals
  <2>2. ASSUME NEW t \in Turns, pc[t] \in Holding
        PROVE  Cardinality(Asking(t, loc[t].hist)) <= MaxRounds
    <3>1. loc[t].round \in 0..MaxRounds /\ (pc[t] \in Open => loc[t].round < MaxRounds)
      BY <1>3 DEF HistoryInv, AtPlace, Locals, Looping, Open
    <3> QED BY <1>3, <2>2, <3>1 DEF RoundsInv, AskedAt
  <2>3. ASSUME NEW t \in Turns, pc[t] \in Holding, ~ stale[t], saved[sess[t]] # <<>>
        PROVE  /\ IsPrefix(saved[sess[t]], loc[t].hist)
               /\ \A i \in Asking(t, loc[t].hist) : i > Len(saved[sess[t]]) =>
                     /\ pc[t] \in {"dispatch", "tool", "save"}
                     /\ \A j \in Asking(t, loc[t].hist) : j <= i
    BY <1>3, <2>3 DEF FreshCopy, FreshAt, RoundsInv, AskedAt, Open
  <2> QED BY <2>1, <2>2, <2>3 DEF RoundsSaved
<1> QED BY <1>1, <1>2, <1>3, TurnHistoryInv, TurnShapeInv, TurnFreshCopy, PTL DEF Spec

=============================================================================
