----------------------------- MODULE CoreSession -----------------------------
(****************************************************************************)
(* The chat page and the sessions that answer it:                           *)
(*   - frontend/src/composables/useWebSocket.ts keeps one socket and opens  *)
(*     it again a few times when it is lost; useChat.ts and the chat store  *)
(*     turn its frames into messages;                                       *)
(*   - backend/src/agent/websockets.ts makes a session per socket, for      *)
(*     which it may have to look up a chat first;                           *)
(*   - backend/src/agent/base.ts and coreAgentSession.ts queue what the     *)
(*     user sends and answer one message at a time, in rounds of the model. *)
(*                                                                          *)
(* Sockets keep the order of frames and lose those in flight when they      *)
(* close.  Frames of tools, of usage and of sessions are left out: they     *)
(* change no state below.  compressContext is left out too: the session     *)
(* tests total_tokens, which no usage record has, and never calls it.       *)
(****************************************************************************)
EXTENDS Naturals, Sequences, FiniteSets

CONSTANTS
    MaxMessages,   \* bound: messages the user sends
    MaxSockets,    \* bound: sockets the page creates
    MaxActs,       \* bound: messages and sockets together; more rounds while two are left
    MaxAttempts,   \* maxReconnectAttempts
    MaxRounds      \* bound: rounds the model wants for a message

ASSUME SessionAssumption ==
    /\ MaxMessages \in Nat /\ MaxSockets \in Nat \ {0} /\ MaxActs \in Nat
    /\ MaxAttempts \in Nat /\ MaxRounds \in Nat \ {0}

Socket    == 1..MaxSockets
Message   == 1..MaxMessages      \* in the order they are sent
NoMessage == 0
Setups    == NoMessage           \* in a queue: initChatSession

VARIABLES
    ws, created,   \* the page's socket, 0 for null; sockets created so far
    connection,    \* connectionStore.state
    timer,         \* reconnectTimeoutId
    attempts,      \* reconnectAttempts
    byId,          \* byId[s]: the URL of the socket names a chat
    selects,       \* handleSelectSession calls that wait for the messages
    sent,          \* messages sent so far
    loading,       \* chatStore.isLoading
    current,       \* whose answer currentMessageId is, NoMessage for null
    link,          \* link[s]: the socket itself
    up, down,      \* up[s], down[s]: its frames
    session,       \* session[s]: what the server has for it
    buffer,        \* buffer[s]: messageBuffer, its messages and its stops
    queue,         \* queue[s]: messageQueue
    task,          \* task[s]: the task of the queue that runs
    aborted,       \* aborted[s]
    askedAt,       \* the socket of the message sent last
    stray,         \* an error came between two parts of an answer
    mixed,         \* a text went into the answer to another message
    halted,        \* messages whose answer the user stopped, or left
    misled,        \* those the page gave up by a frame of an earlier turn
    early          \* those whose stop came before the loop, or was not sent

socket == <<ws, created, connection, timer, attempts, byId>>
chat   == <<selects, sent, loading, current>>
wire   == <<link, up, down>>
server == <<session, buffer, queue, task, aborted>>
ghosts == <<askedAt, stray, mixed, halted, misled, early>>
vars   == <<socket, chat, wire, server, ghosts>>

NoBuffer == [messages |-> <<>>, stops |-> {}]

Idle == [pc |-> "idle", msg |-> NoMessage, rounds |-> 0, text |-> FALSE, done |-> FALSE]

\* onMounted connects.
Init ==
    /\ ws = 1 /\ created = 1 /\ connection = "connecting"
    /\ timer = FALSE /\ attempts = 0 /\ byId = [s \in Socket |-> FALSE]
    /\ selects = 0 /\ sent = 0 /\ loading = FALSE /\ current = NoMessage
    /\ link = [s \in Socket |-> IF s = 1 THEN "connecting" ELSE "none"]
    /\ up = [s \in Socket |-> <<>>] /\ down = [s \in Socket |-> <<>>]
    /\ session = [s \in Socket |-> "none"] /\ buffer = [s \in Socket |-> NoBuffer]
    /\ queue = [s \in Socket |-> <<>>] /\ task = [s \in Socket |-> Idle]
    /\ aborted = [s \in Socket |-> FALSE]
    /\ askedAt = 0
    /\ stray = FALSE /\ mixed = FALSE /\ halted = {} /\ misled = {} /\ early = {}

----------------------------------------------------------------------------
(* The socket of the page. *)

IsAlive(s) == link[s] \in {"connecting", "open"}

\* createWebSocket, in a state where the links are those of lnk.
CreateWebSocket(lnk, named) ==
    /\ created < MaxSockets /\ sent + created < MaxActs
    /\ created' = created + 1 /\ ws' = created'
    /\ connection' = "connecting"
    /\ byId' = [byId EXCEPT ![created'] = named]
    /\ link' = [lnk EXCEPT ![created'] = "connecting"]

\* onopen: the first frame is the token.
Opens(s) ==
    /\ link[s] = "connecting" /\ s = ws
    /\ link' = [link EXCEPT ![s] = "open"]
    /\ connection' = "connected" /\ attempts' = 0
    /\ session' = [session EXCEPT ![s] = "auth"]
    /\ UNCHANGED <<ws, created, timer, byId, chat, up, down, buffer, queue, task, aborted, ghosts>>

\* A socket ends and its frames are lost.
Closed(S)      == [s \in Socket |-> IF s \in S THEN "closed" ELSE link[s]]
Emptied(ch, S) == [s \in Socket |-> IF s \in S THEN <<>> ELSE ch[s]]

\* Mutant: one try too many.
PageSeesCloseOnce(clean) ==
    /\ ws' = 0 /\ connection' = "disconnected"
    /\ IF ~clean /\ attempts <= MaxAttempts
       THEN timer' = TRUE /\ attempts' = attempts + 1
       ELSE UNCHANGED <<timer, attempts>>

\* onclose: setDisconnected, and another try unless the close was clean.
PageSeesClose(clean) ==
    /\ ws' = 0 /\ connection' = "disconnected"
    /\ IF ~clean /\ attempts < MaxAttempts
       THEN timer' = TRUE /\ attempts' = attempts + 1
       ELSE UNCHANGED <<timer, attempts>>

\* The network loses the socket; the server sees it later.
Loses(s) ==
    /\ IsAlive(s)
    /\ link' = Closed({s}) /\ up' = Emptied(up, {s}) /\ down' = Emptied(down, {s})
    /\ PageSeesClose(FALSE)
    /\ UNCHANGED <<created, byId, chat, server, ghosts>>

\* The server closes it: the token is wrong, or maxMissedHeartbeats pongs are
\* missing (disconnect).
ServerCloses(s) ==
    /\ link[s] = "open" /\ session[s] \in {"auth", "live"}
    /\ link' = Closed({s}) /\ up' = Emptied(up, {s}) /\ down' = Emptied(down, {s})
    /\ PageSeesClose(TRUE)
    /\ session' = [session EXCEPT ![s] = "ended"]
    /\ queue' = Emptied(queue, {s})
    /\ UNCHANGED <<created, byId, chat, buffer, task, aborted, ghosts>>

\* The timer of scheduleReconnect: the same URL again.
Reconnects ==
    /\ timer
    /\ timer' = FALSE
    /\ CreateWebSocket(link, byId[created])
    /\ UNCHANGED <<attempts, chat, up, down, server, ghosts>>

\* disconnect takes the handlers off the socket and closes it; connect.
ReconnectWithUrl(named) ==
    /\ timer' = FALSE /\ attempts' = 0
    /\ CreateWebSocket(Closed({ws}), named)
    /\ up' = Emptied(up, {ws}) /\ down' = Emptied(down, {ws})

ClearsChat == loading' = FALSE /\ current' = NoMessage /\ stray' = FALSE

\* handleNewChat.
NewChat ==
    /\ ReconnectWithUrl(FALSE) /\ ClearsChat
    /\ UNCHANGED <<selects, sent, server, askedAt, mixed, halted, misled, early>>

\* handleSelectSession: the chat is cleared, and the messages are asked for
\* while the socket goes on.
Selects ==
    /\ selects + created < MaxSockets /\ sent + selects + created < MaxActs
    /\ selects' = selects + 1
    /\ loading' = FALSE /\ current' = NoMessage
    /\ halted' = halted \cup ({sent} \ {NoMessage}) /\ early' = early \cup (halted' \ halted)
    /\ UNCHANGED <<socket, sent, wire, server, askedAt, stray, mixed, misled>>

\* The messages are there and replace what is shown, or could not be loaded;
\* either way the page connects to the chat.
Selected ==
    /\ selects > 0
    /\ selects' = selects - 1
    /\ ReconnectWithUrl(TRUE)
    /\ \/ ClearsChat
       \/ UNCHANGED <<loading, current, stray>>
    /\ UNCHANGED <<sent, server, askedAt, mixed, halted, misled, early>>

----------------------------------------------------------------------------
(* useChat. *)

Frame(type, m) == [type |-> type, msg |-> m]

ToServer(frame) == up' = [s \in Socket |-> IF s = ws /\ link[s] = "open" THEN Append(up[s], frame) ELSE up[s]]

\* sendMessage.
Sends ==
    /\ connection = "connected" /\ ~loading
    /\ sent < MaxMessages /\ sent + selects + created < MaxActs
    /\ sent' = sent + 1
    /\ loading' = TRUE /\ current' = sent'
    /\ askedAt' = ws /\ stray' = FALSE
    /\ ToServer(Frame("user_message", sent'))
    /\ UNCHANGED <<socket, selects, link, down, server, mixed, halted, misled, early>>

\* stopGeneration.
Stops ==
    /\ loading
    /\ loading' = FALSE /\ current' = NoMessage
    /\ ToServer(Frame("stop", sent)) /\ halted' = halted \cup {sent}
    /\ UNCHANGED <<socket, selects, sent, link, down, server, askedAt, stray, mixed, misled, early>>

\* A text of message m goes into the answer to another one.
Mixes(m) == current \notin {NoMessage, m} /\ {current, m} \cap (halted \cup misled) = {}

\* A frame of another turn ends the waiting for the message sent last.
Misled(frame) == IF loading /\ ~loading' /\ frame.msg # sent THEN {sent} ELSE {}

\* Mutant: handleTurnComplete ends the loading.
PageHearsAsEnd(s) ==
    /\ down[s] # <<>> /\ s = ws
    /\ down' = [down EXCEPT ![s] = Tail(@)]
    /\ LET frame == Head(down[s])
       IN  /\ loading' = IF frame.type = "text" THEN loading \/ current = NoMessage ELSE FALSE
           /\ current' = IF frame.type = "text" /\ current = NoMessage THEN frame.msg
                         ELSE IF frame.type = "text" THEN current ELSE NoMessage
           /\ mixed' = (mixed \/ (frame.type = "text" /\ Mixes(frame.msg)))
           /\ misled' = misled \cup Misled(frame)
    /\ UNCHANGED <<socket, selects, sent, link, up, server, askedAt, stray, halted, early>>

\* handleWebSocketMessage. An error ends the loading only when an answer is
\* being written; turn_complete ends the answer and not the loading.
PageHears(s) ==
    /\ down[s] # <<>> /\ s = ws
    /\ down' = [down EXCEPT ![s] = Tail(@)]
    /\ LET frame == Head(down[s])
       IN  CASE frame.type = "text" ->
                   /\ current' = IF current = NoMessage THEN frame.msg ELSE current
                   /\ loading' = (loading \/ current = NoMessage)
                   /\ mixed' = (mixed \/ Mixes(frame.msg))
                   /\ UNCHANGED stray
             [] frame.type = "turn_complete" ->
                   current' = NoMessage /\ UNCHANGED <<loading, mixed, stray>>
             [] frame.type \in {"stop", "config_missing"} ->
                   current' = NoMessage /\ loading' = FALSE /\ UNCHANGED <<mixed, stray>>
             [] frame.type = "error" ->
                   /\ current' = NoMessage
                   /\ loading' = (loading /\ current = NoMessage)
                   /\ stray' = (stray \/ current = NoMessage)
                   /\ UNCHANGED mixed
    /\ misled' = misled \cup Misled(Head(down[s]))
    /\ UNCHANGED <<socket, selects, sent, link, up, server, askedAt, halted, early>>

----------------------------------------------------------------------------
(* The session. *)

\* setupSession: connect queues initChatSession, and the messages that came
\* meanwhile are handled.
Setup(s, known) ==
    /\ session' = [session EXCEPT ![s] = IF @ = "late" THEN "orphan" ELSE "live"]
    /\ queue' = [queue EXCEPT ![s] = (IF known THEN <<Setups>> ELSE <<>>) \o buffer[s].messages]
    /\ aborted' = [aborted EXCEPT ![s] = buffer[s].stops # {}]
    /\ early' = early \cup buffer[s].stops
    /\ buffer' = [buffer EXCEPT ![s] = NoBuffer]

\* The token is verified. A chat named by the URL is looked up first.
Authenticates(s) ==
    /\ session[s] = "auth" /\ link[s] = "open"
    /\ IF byId[s] THEN session' = [session EXCEPT ![s] = "lookup"] /\ UNCHANGED <<buffer, queue, aborted, early>>
       ELSE Setup(s, FALSE)
    /\ UNCHANGED <<socket, chat, wire, task, askedAt, stray, mixed, halted, misled>>

\* Mutant: what came during the lookup is not replayed.
LooksUpOnly(s) ==
    /\ session[s] \in {"lookup", "late"}
    /\ \E known \in BOOLEAN :
          /\ session' = [session EXCEPT ![s] = IF @ = "late" THEN "orphan" ELSE "live"]
          /\ queue' = [queue EXCEPT ![s] = IF known THEN <<Setups>> ELSE <<>>]
    /\ buffer' = [buffer EXCEPT ![s] = NoBuffer]
    /\ UNCHANGED <<socket, chat, wire, task, aborted, ghosts>>

\* getSession answers, the chat being there or not.
LooksUp(s) ==
    /\ session[s] \in {"lookup", "late"}
    /\ \E known \in BOOLEAN : Setup(s, known)
    /\ UNCHANGED <<socket, chat, wire, task, askedAt, stray, mixed, halted, misled>>

\* The session is in the loop over the rounds of message m.
InLoop(s, m) == task[s].msg = m /\ task[s].pc \in {"calls", "streams", "persists"}

\* A frame: kept during the lookup; a message is queued, a stop sets aborted.
ServerHears(s) ==
    /\ up[s] # <<>> /\ session[s] \in {"lookup", "live"}
    /\ up' = [up EXCEPT ![s] = Tail(@)]
    /\ LET frame == Head(up[s])
       IN  \/ /\ session[s] = "lookup" /\ frame.type = "user_message"
              /\ buffer' = [buffer EXCEPT ![s].messages = Append(@, frame.msg)]
              /\ UNCHANGED <<queue, aborted, early>>
           \/ /\ session[s] = "lookup" /\ frame.type = "stop"
              /\ buffer' = [buffer EXCEPT ![s].stops = @ \cup {frame.msg}]
              /\ UNCHANGED <<queue, aborted, early>>
           \/ /\ session[s] = "live" /\ frame.type = "user_message"
              /\ queue' = [queue EXCEPT ![s] = Append(@, frame.msg)]
              /\ UNCHANGED <<buffer, aborted, early>>
           \/ /\ session[s] = "live" /\ frame.type = "stop"
              /\ aborted' = [aborted EXCEPT ![s] = TRUE]
              /\ early' = IF InLoop(s, frame.msg) THEN early ELSE early \cup {frame.msg}
              /\ UNCHANGED <<buffer, queue>>
    /\ UNCHANGED <<socket, chat, link, down, session, task, askedAt, stray, mixed, halted, misled>>

\* The close event: the queue is paused and cleared. Nobody listens for it
\* while the chat is looked up.
ServerSeesClose(s) ==
    /\ link[s] = "closed" /\ session[s] \in {"auth", "lookup", "live"}
    /\ session' = [session EXCEPT ![s] = IF @ = "lookup" THEN "late" ELSE "ended"]
    /\ queue' = Emptied(queue, {s})
    /\ UNCHANGED <<socket, chat, wire, buffer, task, aborted, ghosts>>

----------------------------------------------------------------------------
(* The tasks of the queue. *)

Runs(s, t) == task' = [task EXCEPT ![s] = t]
At(s, pc)  == task[s].pc = pc

\* sendMessage of base.ts throws unless the socket is open; one that is lost
\* seems open until the server sees its close.
MayThrow(s) == link[s] # "open" \/ session[s] # "live"
Tells(s, frames) ==
    /\ session[s] = "live"
    /\ down' = IF link[s] = "open" THEN [down EXCEPT ![s] = @ \o frames] ELSE down

\* The process ends with all sockets, and starts again.
Dies ==
    /\ session' = [s \in Socket |-> IF session[s] = "none" THEN "none" ELSE "ended"]
    /\ buffer' = [s \in Socket |-> NoBuffer] /\ queue' = [s \in Socket |-> <<>>]
    /\ task' = [s \in Socket |-> Idle] /\ aborted' = [s \in Socket |-> FALSE]
    /\ up' = [s \in Socket |-> <<>>] /\ down' = [s \in Socket |-> <<>>]
    /\ link' = [s \in Socket |-> IF IsAlive(s) THEN "closed" ELSE link[s]]
    /\ IF ws # 0 THEN PageSeesClose(FALSE) ELSE UNCHANGED <<ws, connection, timer, attempts>>
    /\ UNCHANGED <<created, byId, chat, ghosts>>

\* The next task. A queue that was paused starts none.
Starts(s) ==
    /\ At(s, "idle") /\ queue[s] # <<>>
    /\ queue' = [queue EXCEPT ![s] = Tail(@)]
    /\ Runs(s, [Idle EXCEPT !.pc = IF Head(queue[s]) = Setups THEN "info" ELSE "begins", !.msg = Head(queue[s])])
    /\ UNCHANGED <<socket, chat, wire, session, buffer, aborted, ghosts>>

\* initChatSession: the chat is read and session_info sent. What it throws
\* nobody catches.
Informs(s) ==
    /\ At(s, "info")
    /\ \/ /\ Tells(s, <<>>) /\ Runs(s, Idle)
          /\ UNCHANGED <<socket, chat, link, up, session, buffer, queue, aborted, ghosts>>
       \/ MayThrow(s) /\ Dies

\* Mutant: what aborted is from the message before stays.
BeginsOnly(s) ==
    /\ At(s, "begins")
    /\ Runs(s, [task[s] EXCEPT !.pc = "calls"])
    /\ UNCHANGED <<socket, chat, wire, session, buffer, queue, aborted, ghosts>>

\* handleUserMessage: without a configured model the page is told so (what
\* that throws nobody catches either); else the message is stored, and a stop
\* that came before counts for nothing.
Begins(s) ==
    /\ At(s, "begins")
    /\ \/ /\ Tells(s, <<Frame("config_missing", task[s].msg)>>) /\ Runs(s, Idle)
          /\ UNCHANGED <<socket, chat, link, up, session, buffer, queue, aborted, ghosts>>
       \/ MayThrow(s) /\ Dies
       \/ /\ Runs(s, [task[s] EXCEPT !.pc = "calls"])
          /\ aborted' = [aborted EXCEPT ![s] = FALSE]
          /\ UNCHANGED <<socket, chat, wire, session, buffer, queue, ghosts>>

Quiet(s) == UNCHANGED <<socket, chat, link, up, session, buffer, queue, aborted, ghosts>>

\* The end of the loop: stop is sent again if the turn was aborted.
Ends(s) ==
    /\ Runs(s, Idle)
    /\ IF aborted[s] THEN Tells(s, <<Frame("stop", task[s].msg)>>) ELSE UNCHANGED down

\* What sendMessage throws in the loop is caught, and told if that goes.
Throws(s) ==
    /\ task[s].pc \in {"calls", "streams", "persists"} /\ MayThrow(s)
    /\ Runs(s, Idle)
    /\ UNCHANGED down /\ Quiet(s)

\* Mutant: aborted is reset for each round.
CallsAfresh(s) ==
    /\ At(s, "calls")
    /\ Runs(s, [task[s] EXCEPT !.pc = "streams", !.text = FALSE])
    /\ aborted' = [aborted EXCEPT ![s] = FALSE]
    /\ UNCHANGED <<socket, chat, wire, session, buffer, queue, ghosts>>

\* The top of the loop.
Calls(s) ==
    /\ At(s, "calls")
    /\ IF aborted[s] THEN Ends(s)
       ELSE Runs(s, [task[s] EXCEPT !.pc = "streams", !.text = FALSE]) /\ UNCHANGED down
    /\ Quiet(s)

\* agent_response: one stands for all of a round.
Texts(s) ==
    /\ At(s, "streams") /\ ~task[s].text
    /\ Runs(s, [task[s] EXCEPT !.text = TRUE])
    /\ Tells(s, <<Frame("text", task[s].msg)>>)
    /\ Quiet(s)

\* The end of the stream: done with reason stop, with another reason (tools
\* were called) or an error; then turn_complete. A text is stored (persists).
Streams(s) ==
    /\ At(s, "streams")
    /\ \E reason \in {"stop", "error", "tool_calls"} :
          /\ reason = "tool_calls" => task[s].rounds + 1 < MaxRounds /\ sent + selects + created + 1 < MaxActs
          /\ Tells(s, (IF reason = "tool_calls" THEN <<>> ELSE <<Frame(reason, task[s].msg)>>)
                          \o <<Frame("turn_complete", task[s].msg)>>)
          /\ Runs(s, [task[s] EXCEPT !.pc = "persists", !.done = reason # "tool_calls"])
    /\ Quiet(s)

\* The answer is stored; the loop ends, or another round begins.
Persists(s) ==
    /\ At(s, "persists")
    /\ IF aborted[s] \/ task[s].done THEN Ends(s)
       ELSE /\ Runs(s, [task[s] EXCEPT !.pc = "calls", !.rounds = @ + 1])
            /\ UNCHANGED down
    /\ Quiet(s)

\* sendHeartbeat throws in a timer if the socket is not open: between its
\* closing and the close event, or for good if the event came too soon.
Beats(s) ==
    /\ session[s] \in {"live", "orphan"} /\ link[s] = "closed"
    /\ Dies

----------------------------------------------------------------------------

Browser ==
    \/ Reconnects \/ Selected
    \/ \E s \in Socket : Opens(s) \/ PageHears(s)

Server ==
    \E s \in Socket :
        \/ Authenticates(s) \/ LooksUp(s) \/ ServerHears(s) \/ ServerSeesClose(s)
        \/ Starts(s) \/ Informs(s) \/ Begins(s) \/ Throws(s)
        \/ Calls(s) \/ Texts(s) \/ Streams(s) \/ Persists(s)

User == NewChat \/ Selects \/ Stops \/ Sends

Faults == \E s \in Socket : Loses(s) \/ ServerCloses(s) \/ Beats(s)

Next == Browser \/ Server \/ User \/ Faults

\* The handlers, timers and awaits of both sides go on.
Spec == Init /\ [][Next]_vars /\ WF_vars(Browser \/ Server)

----------------------------------------------------------------------------
(* Properties. *)

TypeOK ==
    /\ ws \in {0} \cup Socket /\ created \in Socket /\ attempts \in 0..MaxAttempts
    /\ connection \in {"connecting", "connected", "disconnected"}
    /\ timer \in BOOLEAN /\ loading \in BOOLEAN /\ sent \in 0..MaxMessages
    /\ current \in Message \cup {NoMessage}
    /\ \A s \in Socket :
          /\ link[s] \in {"none", "connecting", "open", "closed"}
          /\ session[s] \in {"none", "auth", "lookup", "late", "live", "orphan", "ended"}
          /\ task[s].pc \in {"idle", "info", "begins", "calls", "streams", "persists"}
          /\ task[s].rounds < MaxRounds

\* A text goes into the answer to its message, unless the user stopped one of
\* the two turns or left the chat during it, or the page gave it up because of
\* a frame of an earlier turn (no frame names its message).
TextsStayApart == ~mixed

\* A turn is cut short because the user stopped that turn, not an earlier or a
\* queued one (a stop for a queued one may come once the last round is over),
\* unless the page gave it up.
OnlyStoppedTurnsAbort ==
    \A s \in Socket, m \in Message :
        InLoop(s, m) /\ aborted[s] /\ ~task[s].done => m \in halted \cup misled

\* A stop ends the turn it is for once it is there, unless it came before the
\* loop over the rounds: aborted is reset there.
StopsAreHeard ==
    \A s \in Socket, m \in Message :
        InLoop(s, m) /\ m \in halted \ early /\ link[s] = "open" =>
            aborted[s] \/ \E i \in DOMAIN up[s] : up[s][i] = Frame("stop", m)

\* The page stops waiting, unless its socket was lost or replaced, or an error
\* came while no answer was being written (handleError).
LoadingEnds == loading ~> ~loading \/ stray \/ askedAt # ws
============================================================================
