---------------------------- MODULE Conversation -----------------------------
(***************************************************************************)
(* A browser tab of ui/streamlit_app.py, the turns that its messages start *)
(* at /chat/stream, and the session store (module SessionStore) that ties  *)
(* the turns together.  The tab posts a message again when its connection  *)
(* breaks before the first event, gives up after that, and is interrupted  *)
(* by any click; a turn whose tab has gone lives on until the server       *)
(* notices.                                                                *)
(*                                                                         *)
(* A turn is cut down to what it does to the session (module AgentTurn has *)
(* the rest), and a history to its user messages.                          *)
(*                                                                         *)
(* Left out: the booking dialog.  The click on a Book button reruns the    *)
(* script without a message, that run does not draw the button again, and  *)
(* so st.button never answers True (lines 102-105, 324-325): the dialog    *)
(* cannot be opened, and the click is a GiveUp or nothing.                 *)
(***************************************************************************)
EXTENDS SessionStore

CONSTANTS
    Tabs,         \* browser tabs
    Nobody,       \* the author of the other users' messages
    NoSession,    \* st.session_state.session_id is None
    Foreign,      \* the sessions of other users
    MaxMessages,  \* bound: messages sent in one tab
    MaxPosts      \* bound: POSTs of one tab

ASSUME ConversationConstants ==
    /\ Nobody \notin Tabs
    /\ NoSession \notin Sessions
    /\ Foreign \subseteq Sessions
    /\ {MaxMessages, MaxPosts} \subseteq Nat
    /\ Messages = [tab: Tabs \cup {Nobody}, n: 0..MaxMessages]

VARIABLES
    screen,     \* Tabs -> the user's messages in st.session_state.messages
    sid,        \* Tabs -> st.session_state.session_id
    run,        \* Tabs -> what _stream_events waits for, or "idle"
    sent,       \* Tabs -> messages sent so far
    attempt,    \* Tabs -> the POST of the last message: the first or the second
    turn,       \* Posts -> the turn that the POST has started
    late        \* history: Tabs -> the messages that the tab left unbegun

tabVars == <<screen, sid, run, sent, attempt, late>>
vars == <<storeVars, tabVars, turn>>

-----------------------------------------------------------------------------

\* The a-th POST of the n-th message of tab u.
Posts == Tabs \X (1..MaxMessages) \X {1, 2}

Stages == {"none", "posted", "working", "streaming", "replied", "over"}
Turn == [stage: Stages, session: Sessions \cup {NoSession}, hist: Seq(Messages)]
NoTurn == [stage |-> "none", session |-> NoSession, hist |-> <<>>]
Over == [stage |-> "over", session |-> NoSession, hist |-> <<>>]
Posted(s) == [stage |-> "posted", session |-> s, hist |-> <<>>]

TypeOK ==
    /\ StoreTypeOK
    /\ screen \in [Tabs -> Seq(1..MaxMessages)]
    /\ sid \in [Tabs -> Sessions \cup {NoSession}]
    /\ run \in [Tabs -> {"idle", "waiting", "reading"}]
    /\ sent \in [Tabs -> 0..MaxMessages]
    /\ attempt \in [Tabs -> {1, 2}]
    /\ turn \in [Posts -> Turn]
    /\ late \in [Tabs -> SUBSET (1..MaxMessages)]

Init ==
    /\ StoreInit
    /\ screen = [u \in Tabs |-> <<>>]
    /\ sid = [u \in Tabs |-> NoSession]
    /\ run = [u \in Tabs |-> "idle"]
    /\ sent = [u \in Tabs |-> 0]
    /\ attempt = [u \in Tabs |-> 1]
    /\ turn = [p \in Posts |-> NoTurn]
    /\ late = [u \in Tabs |-> {}]

\* The POST that the tab is waiting for or reading from.
Current(u) == <<u, sent[u], attempt[u]>>

PostsMade(u) == Cardinality({p \in Posts : p[1] = u /\ turn[p].stage # "none"})

\* A reply that was not read goes with its connection.
Dropped(p) == IF turn[p].stage = "replied" THEN Over ELSE turn[p]

\* A request that is on its way, or whose handler awaits the session (line
\* 686), may yet be begun when the tab has left it.
Leave(u) ==
    late' = IF turn[Current(u)].stage = "posted"
            THEN [late EXCEPT ![u] = @ \cup {sent[u]}] ELSE late

Disconnect(u) ==
    /\ turn' = [turn EXCEPT ![Current(u)] = Dropped(Current(u))]
    /\ Leave(u)

-----------------------------------------------------------------------------
(* The tab.                                                                  *)

\* Lines 283-307: a message is shown and posted.
Send(u) ==
    /\ run[u] = "idle"
    /\ sent[u] < MaxMessages /\ PostsMade(u) < MaxPosts
    /\ sent' = [sent EXCEPT ![u] = @ + 1]
    /\ screen' = [screen EXCEPT ![u] = Append(@, sent[u] + 1)]
    /\ run' = [run EXCEPT ![u] = "waiting"]
    /\ attempt' = [attempt EXCEPT ![u] = 1]
    /\ turn' = [turn EXCEPT ![<<u, sent[u] + 1, 1>>] = Posted(sid[u])]
    /\ UNCHANGED <<storeVars, sid, late>>

\* Lines 177-179: the first event of the reply sets received_any.
ReadChunk(u) ==
    /\ run[u] = "waiting"
    /\ turn[Current(u)].stage \in {"streaming", "replied"}
    /\ run' = [run EXCEPT ![u] = "reading"]
    /\ UNCHANGED <<storeVars, screen, sid, sent, attempt, turn, late>>

\* Lines 311-332: the last event names the session; the reply is shown.
ReadDone(u) ==
    /\ run[u] # "idle"
    /\ turn[Current(u)].stage = "replied"
    /\ sid' = [sid EXCEPT ![u] = turn[Current(u)].session]
    /\ run' = [run EXCEPT ![u] = "idle"]
    /\ turn' = [turn EXCEPT ![Current(u)] = Over]
    /\ UNCHANGED <<storeVars, screen, sent, attempt, late>>

\* Lines 183-185: no connection, a connection that breaks before the answer
\* begins, or no byte for 180 s; the message is posted once more.
Retry(u) ==
    /\ run[u] = "waiting"
    /\ attempt[u] = 1 /\ PostsMade(u) < MaxPosts
    /\ attempt' = [attempt EXCEPT ![u] = 2]
    /\ turn' = [turn EXCEPT ![Current(u)] = Dropped(Current(u)),
                            ![<<u, sent[u], 2>>] = Posted(sid[u])]
    /\ Leave(u)
    /\ UNCHANGED <<storeVars, screen, sid, run, sent>>

\* Lines 186 and 317-322: any other error is shown as the reply; or a
\* click on any widget stops the script where it is.
GiveUp(u) ==
    /\ run[u] # "idle"
    /\ run' = [run EXCEPT ![u] = "idle"]
    /\ Disconnect(u)
    /\ UNCHANGED <<storeVars, screen, sid, sent, attempt>>

\* (Mutant: the script goes on reading.)
NewConversationReading(u) ==
    /\ screen' = [screen EXCEPT ![u] = <<>>]
    /\ sid' = [sid EXCEPT ![u] = NoSession]
    /\ UNCHANGED <<storeVars, run, sent, attempt, turn, late>>

\* Lines 212-215, a click like any other.
NewConversation(u) ==
    /\ screen[u] # <<>>
    /\ screen' = [screen EXCEPT ![u] = <<>>]
    /\ sid' = [sid EXCEPT ![u] = NoSession]
    /\ run' = [run EXCEPT ![u] = "idle"]
    /\ Disconnect(u)
    /\ UNCHANGED <<storeVars, sent, attempt>>

-----------------------------------------------------------------------------
(* The turns.                                                                *)

\* uuid4 gives an id that nothing has or had.
Fresh(s) ==
    /\ s \notin Foreign
    /\ lastSaved[s] = NoHistory
    /\ \A p \in Posts : turn[p].session # s

\* chat.py, lines 683-689: the session is read, the message appended.
Accept(p) ==
    /\ turn[p].stage = "posted"
    /\ \E s \in Sessions :
        /\ IF turn[p].session = NoSession THEN Fresh(s) ELSE s = turn[p].session
        /\ turn' = [turn EXCEPT ![p] =
                       [stage |-> "working", session |-> s,
                        hist |-> Append(Stored(s), [tab |-> p[1], n |-> p[2]])]]
        /\ Get(s)
    /\ UNCHANGED tabVars

\* Line 622: the session is saved after a round of tools.
SaveRound(p) ==
    /\ turn[p].stage = "working"
    /\ Save(turn[p].session, turn[p].hist)
    /\ UNCHANGED <<tabVars, turn>>

\* Lines 693-696: the reply is streamed.
Stream(p) ==
    /\ turn[p].stage = "working"
    /\ turn' = [turn EXCEPT ![p].stage = "streaming"]
    /\ UNCHANGED <<storeVars, tabVars>>

\* Lines 698-702: the session is saved, then the last event is sent; a model
\* that streams nothing leaves it the only one.
Reply(p) ==
    /\ turn[p].stage \in {"working", "streaming"}
    /\ Save(turn[p].session, turn[p].hist)
    /\ turn' = [turn EXCEPT ![p] = IF run[p[1]] # "idle" /\ p = Current(p[1])
                                   THEN [@ EXCEPT !.stage = "replied", !.hist = <<>>]
                                   ELSE Over]
    /\ UNCHANGED tabVars

\* An exception, or the server has noticed that its client is gone.
TurnEnds(p) ==
    /\ turn[p].stage \in {"posted", "working", "streaming"}
    /\ turn' = [turn EXCEPT ![p] = Over]
    /\ UNCHANGED <<storeVars, tabVars>>

-----------------------------------------------------------------------------
(* The surroundings.                                                         *)

\* The API process dies and is started again.
Restart ==
    /\ StoreRestart
    /\ turn' = [p \in Posts |->
                  IF turn[p].stage \in {"posted", "working", "streaming"} THEN Over ELSE turn[p]]
    /\ UNCHANGED tabVars

\* Another user's turn uses its session.
OtherUser(s) ==
    /\ \/ Save(s, <<[tab |-> Nobody, n |-> 0]>>)
       \/ Get(s)
    /\ UNCHANGED <<tabVars, turn>>

Time == Tick /\ UNCHANGED <<tabVars, turn>>

TabStep(u) ==
    \/ Send(u) \/ ReadChunk(u) \/ ReadDone(u) \/ Retry(u)
    \/ GiveUp(u) \/ NewConversation(u)

TurnStep(p) == Accept(p) \/ SaveRound(p) \/ Stream(p) \/ Reply(p) \/ TurnEnds(p)

Next ==
    \/ \E u \in Tabs : TabStep(u)
    \/ \E p \in Posts : TurnStep(p)
    \/ \E s \in Foreign : OtherUser(s)
    \/ Restart
    \/ Time

Spec == Init /\ [][Next]_vars

-----------------------------------------------------------------------------
(* Properties.                                                               *)

\* How often the message n stands in the history h.
Times(h, n) == Cardinality({i \in DOMAIN h : h[i].n = n})

\* How often the message n of tab u was posted.
PostsOf(u, n) == Cardinality({a \in {1, 2} : turn[<<u, n, a>>].stage # "none"})

(* What the model remembers under the session of a tab is what stands on     *)
(* its screen: only messages of this tab, sent since the conversation was    *)
(* begun, and none more often than it was posted, whatever turns of broken   *)
(* connections are still at work, and whatever the store has forgotten.  A   *)
(* message that is posted again can stand there twice; and one stands behind *)
(* a newer one only when the tab left it before it was begun.                *)
HistoryOnScreen ==
    \A u \in Tabs :
        LET h == IF sid[u] = NoSession THEN <<>> ELSE Stored(sid[u])
        IN /\ \A i \in DOMAIN h :
                /\ h[i].tab = u
                /\ h[i].n \in Range(screen[u])
                /\ Times(h, h[i].n) <= PostsOf(u, h[i].n)
           /\ \A i, j \in DOMAIN h :
                i < j => h[i].n <= h[j].n \/ h[j].n \in late[u]

=============================================================================
