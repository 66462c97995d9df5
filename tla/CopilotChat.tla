----------------------------- MODULE CopilotChat -----------------------------
(****************************************************************************)
(* One user, the copilot panel of the workflow editor, and the agents that  *)
(* answer it:                                                               *)
(*   - frontend/src/stores/copilotStore.ts keeps one WebSocket (ws), opens  *)
(*     it again when it closes, and lets one message wait (pendingMessage)  *)
(*     while the agent thinks;                                              *)
(*   - backend/src/copilot/copilotWebSocket.ts makes an agent per socket,   *)
(*     once the first frame authenticated it;                               *)
(*   - backend/src/copilot/copilotAgent.ts takes one message at a time and  *)
(*     calls the model in rounds, each of which may run tools.              *)
(*                                                                          *)
(* Sockets keep the order of frames and lose the frames in flight when they *)
(* close.  Frames that only add to the transcript are left out; what the    *)
(* tools do to the workflow is in WorkflowEditing.                          *)
(****************************************************************************)
EXTENDS Naturals, Sequences, FiniteSets

CONSTANTS
    Message,      \* what the user types, each once
    MaxSockets,   \* bound: WebSockets the store creates
    MaxOpens,     \* bound: times the user opens the editor
    MaxRounds,    \* rounds the limit of tool calls of a turn allows
    NoMessage

ASSUME ChatAssumption ==
    /\ NoMessage \notin Message
    /\ Message \cap {"auth", "abort"} = {}   \* the other frames of the page
    /\ MaxSockets \in Nat /\ MaxOpens \in Nat /\ MaxRounds \in Nat \ {0}

Socket == 1..MaxSockets

VARIABLES
    shown,      \* the store has a workflowId, and the page shows its editor
    loads,      \* handleEdit calls that wait for their workflow
    opens,      \* handleEdit calls so far
    ws,         \* the store's socket, 0 for null
    created,    \* sockets created so far
    sock,       \* sock[s]: readyState on the side of the page
    timers,     \* reconnects under way, and whether reconnectTimer is one
    thinking,   \* isAgentThinking
    pending,    \* pendingMessage
    up, down,   \* up[s], down[s]: frames on their way
    server,     \* server[s]: the handshake
    agent,      \* agent[s]: the agent of the socket
    fate,       \* fate[m]: what became of a message
    asked,      \* the message sent last, which thinking is about
    loose       \* thinking ended before the turn did (see RefusedExplained)

page   == <<shown, loads, opens, ws, created, timers, thinking, pending>>
chan   == <<sock, up, down, server>>
ghosts == <<asked, loose>>
vars   == <<page, chan, agent, fate, ghosts>>

NewAgent == [pc |-> "idle", msg |-> NoMessage, aborted |-> FALSE, prompted |-> FALSE,
             rounds |-> 0, late |-> 0, told |-> FALSE]

Working(s) == agent[s].pc # "idle"

Init ==
    /\ shown = FALSE /\ loads = 0 /\ opens = 0
    /\ ws = 0 /\ created = 0 /\ timers = [n |-> 0, kept |-> FALSE]
    /\ thinking = FALSE /\ pending = {}
    /\ sock = [s \in Socket |-> "unused"] /\ server = [s \in Socket |-> "none"]
    /\ up = [s \in Socket |-> <<>>] /\ down = [s \in Socket |-> <<>>]
    /\ agent = [s \in Socket |-> NewAgent]
    /\ fate = [m \in Message |-> "untyped"]
    /\ asked = NoMessage /\ loose = FALSE

----------------------------------------------------------------------------
(* The store's sockets. *)

CreateConnection ==
    /\ created < MaxSockets
    /\ created' = created + 1 /\ ws' = created'
    /\ sock' = [sock EXCEPT ![created'] = "connecting"]

\* handleEdit: the workflow is loaded first, and the list stays meanwhile.
ClickEdit ==
    /\ ~shown /\ opens < MaxOpens
    /\ opens' = opens + 1 /\ loads' = loads + 1
    /\ UNCHANGED <<shown, ws, created, timers, thinking, pending, chan, agent, fate, ghosts>>

Drops(ms) == fate' = [m \in Message |-> IF m \in ms THEN "dropped" ELSE fate[m]]

\* connect: the socket there may be is not closed.
LoadEnds ==
    /\ loads > 0
    /\ loads' = loads - 1
    /\ \/ /\ shown' = TRUE
          /\ thinking' = FALSE /\ pending' = {} /\ Drops(pending)
          /\ CreateConnection
       \/ UNCHANGED <<shown, thinking, pending, fate, created, ws, sock>>
    /\ UNCHANGED <<opens, timers, up, down, server, agent, asked, loose>>

\* disconnect: the timer set last is cleared.
Back ==
    /\ shown
    /\ shown' = FALSE
    /\ timers' = [n |-> IF timers.kept THEN timers.n - 1 ELSE timers.n, kept |-> FALSE]
    /\ sock' = [s \in Socket |-> IF s = ws /\ sock[s] # "closed" THEN "closing" ELSE sock[s]]
    /\ ws' = 0
    /\ UNCHANGED <<loads, opens, created, thinking, pending, up, down, server, agent, fate, ghosts>>

\* onopen sends the token through ws, whichever socket that is by now.
Opens(s) ==
    /\ sock[s] = "connecting"
    /\ sock' = [sock EXCEPT ![s] = "open"]
    /\ server' = [server EXCEPT ![s] = "waits"]
    /\ up' = [k \in Socket |-> IF k = ws /\ (k = s \/ sock[k] = "open")
                               THEN Append(up[k], "auth") ELSE up[k]]
    /\ UNCHANGED <<page, down, agent, fate, ghosts>>

\* The frames in flight and the answer under way go with the socket.
Lost(s) ==
    {m \in Message : \/ \E i \in DOMAIN up[s] : up[s][i] = m
                     \/ agent[s].msg = m
                     \/ \E i \in DOMAIN down[s] : down[s][i][2] = m}

\* Mutant: onerror schedules a reconnect, and so does the onclose after it.
ClosesTwice(s) ==
    /\ sock[s] \in {"connecting", "open", "closing"}
    /\ sock' = [sock EXCEPT ![s] = "closed"]
    /\ up' = [up EXCEPT ![s] = <<>>] /\ down' = [down EXCEPT ![s] = <<>>]
    /\ server' = [server EXCEPT ![s] = "gone"]
    /\ agent' = [agent EXCEPT ![s] = NewAgent]
    /\ Drops(Lost(s))
    /\ timers' = IF shown THEN [n |-> timers.n + 2, kept |-> TRUE] ELSE timers
    /\ UNCHANGED <<shown, loads, opens, ws, created, thinking, pending, ghosts>>

\* A socket ends: closed by the page, by a failed handshake, or by the network.
\* The page hears of it, and so does the agent.
Closes(s) ==
    /\ sock[s] \in {"connecting", "open", "closing"}
    /\ sock' = [sock EXCEPT ![s] = "closed"]
    /\ up' = [up EXCEPT ![s] = <<>>] /\ down' = [down EXCEPT ![s] = <<>>]
    /\ server' = [server EXCEPT ![s] = "gone"]
    /\ agent' = [agent EXCEPT ![s] = IF Working(s)
                                      THEN [agent[s] EXCEPT !.aborted = TRUE, !.told = TRUE]
                                      ELSE NewAgent]
    /\ Drops(Lost(s))
    /\ timers' = IF shown THEN [n |-> timers.n + 1, kept |-> TRUE] ELSE timers
    /\ UNCHANGED <<shown, loads, opens, ws, created, thinking, pending, ghosts>>

\* The handshake: a first frame with a valid token, within five seconds.
Authenticates(s) ==
    /\ server[s] = "waits" /\ sock[s] = "open" /\ up[s] # <<>>
    /\ Head(up[s]) = "auth"
    /\ up' = [up EXCEPT ![s] = Tail(@)]
    /\ server' = [server EXCEPT ![s] = "ready"]
    /\ UNCHANGED <<page, sock, down, agent, fate, ghosts>>

Reconnects ==
    /\ timers.n > 0
    /\ \E kept \in {timers.kept, timers.kept /\ timers.n > 1} :
          timers' = [n |-> timers.n - 1, kept |-> kept /\ timers.n > 1]
    /\ IF shown THEN CreateConnection ELSE UNCHANGED <<created, ws, sock>>
    /\ UNCHANGED <<shown, loads, opens, thinking, pending, up, down, server, agent, fate, ghosts>>

----------------------------------------------------------------------------
(* The store's messages. *)

CanSend == ws # 0 /\ sock[ws] = "open"

\* wsSend gives up silently when the socket is not open.
WsSend(frame) == up' = IF CanSend THEN [up EXCEPT ![ws] = Append(@, frame)] ELSE up

SendUserMessage(m) ==
    /\ thinking' = TRUE /\ asked' = m
    /\ WsSend(m)
    /\ fate' = [fate EXCEPT ![m] = IF CanSend THEN "sent" ELSE "dropped"]

\* Mutant: a message is sent at once.
SendMessageNow(m) ==
    /\ shown /\ fate[m] = "untyped"
    /\ SendUserMessage(m)
    /\ UNCHANGED <<shown, loads, opens, ws, created, timers, pending, sock, down, server, agent, loose>>

\* sendMessage: while the agent thinks the message waits, in place of the one
\* that waited, and the agent is told to stop.
SendMessage(m) ==
    /\ shown /\ fate[m] = "untyped"
    /\ IF thinking
       THEN /\ pending' = {m} /\ WsSend("abort")
            /\ fate' = [k \in Message |-> IF k = m THEN "waits"
                                          ELSE IF k \in pending THEN "dropped" ELSE fate[k]]
            /\ UNCHANGED <<thinking, asked>>
       ELSE SendUserMessage(m) /\ UNCHANGED pending
    /\ UNCHANGED <<shown, loads, opens, ws, created, timers, sock, down, server, agent, loose>>

\* The stop button, there while the agent thinks.
Stop ==
    /\ shown /\ thinking
    /\ thinking' = FALSE /\ pending' = {}
    /\ Drops(pending)
    /\ WsSend("abort")
    /\ loose' = TRUE
    /\ UNCHANGED <<shown, loads, opens, ws, created, timers, sock, down, server, agent, asked>>

Takes(s, type) ==
    /\ sock[s] = "open" /\ down[s] # <<>> /\ Head(down[s])[1] = type
    /\ down' = [down EXCEPT ![s] = Tail(@)]
    /\ loose' = (loose \/ type = "error" \/ s # ws)
    /\ UNCHANGED <<shown, loads, opens, ws, created, timers, sock, server, agent>>

TakesError(s) ==
    /\ Takes(s, "error")
    /\ thinking' = FALSE
    /\ UNCHANGED <<pending, up, fate, asked>>

\* Mutant: the message that waited is forgotten.
TakesDoneOnly(s) ==
    /\ Takes(s, "turn_done")
    /\ thinking' = FALSE
    /\ UNCHANGED <<pending, up, fate, asked>>

\* turn_done: the message that waited is sent.
TakesTurnDone(s) ==
    /\ Takes(s, "turn_done")
    /\ pending' = {}
    /\ IF pending = {} THEN thinking' = FALSE /\ UNCHANGED <<up, fate, asked>>
       ELSE \E m \in pending : SendUserMessage(m)

----------------------------------------------------------------------------
(* The agent. *)

Tells(s, frames) == down' = IF sock[s] = "open" THEN [down EXCEPT ![s] = @ \o frames] ELSE down

Hears(s, frame) ==
    /\ server[s] = "ready" /\ up[s] # <<>> /\ Head(up[s]) = frame
    /\ up' = [up EXCEPT ![s] = Tail(@)]
    /\ UNCHANGED <<page, sock, server, ghosts>>

\* handleUserMessage up to its first await; a key of the model may be missing.
HandleUserMessage(s) ==
    \E m \in Message, hasKey \in BOOLEAN :
        /\ Hears(s, m)
        /\ CASE Working(s) ->
                  /\ Tells(s, << <<"error", m>> >>)
                  /\ fate' = [fate EXCEPT ![m] = "refused"]
                  /\ UNCHANGED agent
             [] ~Working(s) /\ ~hasKey ->
                  /\ Tells(s, << <<"error", m>>, <<"turn_done", m>> >>)
                  /\ fate' = [fate EXCEPT ![m] = "answered"]
                  /\ UNCHANGED agent
             [] OTHER ->
                  /\ agent' = [agent EXCEPT ![s] =
                         [NewAgent EXCEPT !.pc = IF agent[s].prompted THEN "round" ELSE "prompt",
                                          !.msg = m, !.prompted = agent[s].prompted]]
                  /\ fate' = [fate EXCEPT ![m] = "taken"]
                  /\ UNCHANGED down

\* Mutant: abort is cleared when the prompt is there.
ReadsConfigLate(s) ==
    /\ agent[s].pc = "prompt"
    /\ \/ agent' = [agent EXCEPT ![s].pc = "round", ![s].prompted = TRUE, ![s].aborted = FALSE]
       \/ agent' = [agent EXCEPT ![s].pc = "stuck"]
    /\ UNCHANGED <<page, chan, fate, ghosts>>

\* The first message waits for getConfigStatus, outside of any try: when it
\* throws, isProcessing stays set and no turn_done follows.
ReadsConfig(s) ==
    /\ agent[s].pc = "prompt"
    /\ \/ agent' = [agent EXCEPT ![s].pc = "round", ![s].prompted = TRUE]
       \/ agent' = [agent EXCEPT ![s].pc = "stuck"]
    /\ UNCHANGED <<page, chan, fate, ghosts>>

HandleAbort(s) ==
    /\ Hears(s, "abort")
    /\ agent' = [agent EXCEPT ![s].aborted = TRUE, ![s].told = TRUE]
    /\ UNCHANGED <<down, fate>>

\* A second auth frame is an unknown message.
HandleUnknown(s) ==
    /\ Hears(s, "auth")
    /\ UNCHANGED <<down, agent, fate>>

\* Between turns only the prompt counts, and nothing once the socket is gone.
Rests(s) == [NewAgent EXCEPT !.prompted = sock[s] # "closed"]

\* The finally of the turn, after the error there may be.
EndTurn(s, errors) ==
    /\ Tells(s, errors \o << <<"turn_done", agent[s].msg>> >>)
    /\ agent' = [agent EXCEPT ![s] = Rests(s)]
    /\ fate' = [m \in Message |-> IF m = agent[s].msg /\ fate[m] = "taken" THEN "answered" ELSE fate[m]]
    /\ UNCHANGED <<page, sock, up, server, ghosts>>

Error(s) == << <<"error", agent[s].msg>> >>

\* The head of the loop: aborted, at the limit, or on to the snapshot.
BeginRound(s) ==
    /\ agent[s].pc = "round"
    /\ CASE agent[s].aborted -> EndTurn(s, <<>>)
         [] ~agent[s].aborted /\ agent[s].rounds >= MaxRounds -> EndTurn(s, Error(s))
         [] OTHER -> /\ agent' = [agent EXCEPT ![s].pc = "snapshot"]
                     /\ UNCHANGED <<page, chan, fate, ghosts>>

\* provider.chat, once the snapshot of the workflow is there.
CallModel(s) ==
    /\ agent[s].pc = "snapshot"
    /\ agent' = [agent EXCEPT ![s].pc = "model", ![s].rounds = @ + 1,
                              ![s].late = IF agent[s].told THEN @ + 1 ELSE @]
    /\ UNCHANGED <<page, chan, fate, ghosts>>

\* Mutant: an error of the provider skips the finally.
RoundEndsBare(s) ==
    /\ agent[s].pc = "model"
    /\ \/ EndTurn(s, <<>>)
       \/ /\ agent' = [agent EXCEPT ![s] = Rests(s)]
          /\ UNCHANGED <<page, chan, fate, ghosts>>
       \/ /\ ~agent[s].aborted
          /\ agent' = [agent EXCEPT ![s].pc = "round"]
          /\ UNCHANGED <<page, chan, fate, ghosts>>

\* After tools the stop is looked at again; if there is none, another round.
NextRound(s) ==
    /\ ~agent[s].aborted
    /\ agent' = [agent EXCEPT ![s].pc = "round"]
    /\ UNCHANGED <<page, chan, fate, ghosts>>

\* The round is over: a final answer, an error, or tools and another round.
\* A history over its limit is compressed first, by a call of the model that
\* does not look at the stop.
RoundEnds(s) ==
    /\ agent[s].pc = "model"
    /\ \/ EndTurn(s, <<>>)
       \/ EndTurn(s, Error(s))
       \/ NextRound(s)
       \/ \E pc \in {"compress", "compressLast"} :
             /\ agent' = [agent EXCEPT ![s].pc = pc, ![s].late = IF agent[s].told THEN @ + 1 ELSE @]
             /\ UNCHANGED <<page, chan, fate, ghosts>>

\* maybeCompressContext is through, after tools or after the final answer.
Compresses(s) ==
    /\ agent[s].pc \in {"compress", "compressLast"}
    /\ \/ (agent[s].aborted \/ agent[s].pc = "compressLast") /\ EndTurn(s, <<>>)
       \/ EndTurn(s, Error(s))
       \/ agent[s].pc = "compress" /\ NextRound(s)

----------------------------------------------------------------------------

PageStep(s)  == Opens(s) \/ TakesError(s) \/ TakesTurnDone(s)
AgentStep(s) ==
    \/ Authenticates(s) \/ HandleUserMessage(s) \/ HandleAbort(s) \/ HandleUnknown(s)
    \/ ReadsConfig(s) \/ BeginRound(s) \/ CallModel(s) \/ RoundEnds(s)
    \/ Compresses(s)

User == ClickEdit \/ Back \/ Stop \/ \E m \in Message : SendMessage(m)

\* What goes on by itself: event loops, timers, calls of the model, and the
\* closing of a socket once it was asked for.
System ==
    \/ Reconnects
    \/ \E s \in Socket : PageStep(s) \/ AgentStep(s) \/ (sock[s] = "closing" /\ Closes(s))

Next == User \/ LoadEnds \/ System \/ \E s \in Socket : Closes(s)

Spec == Init /\ [][Next]_vars /\ WF_vars(System)

----------------------------------------------------------------------------
(* Properties. *)

\* Every variable has its type.
TypeOK ==
    /\ shown \in BOOLEAN /\ loads \in 0..MaxOpens /\ ws \in 0..MaxSockets /\ created \in ws..MaxSockets
    /\ timers \in [n : 0..MaxSockets, kept : BOOLEAN] /\ (timers.kept => timers.n > 0)
    /\ thinking \in BOOLEAN /\ pending \in SUBSET Message /\ Cardinality(pending) <= 1
    /\ \A s \in Socket :
          /\ sock[s] \in {"unused", "connecting", "open", "closing", "closed"}
          /\ server[s] \in {"none", "waits", "ready", "gone"}
          /\ up[s] \in Seq(Message \cup {"auth", "abort"})
          /\ down[s] \in Seq({"error", "turn_done"} \X Message)
          /\ agent[s].pc \in {"idle", "prompt", "stuck", "round", "snapshot", "model",
                             "compress", "compressLast"}
          /\ (agent[s].pc = "idle") = (agent[s].msg = NoMessage)
    /\ \A m \in Message : fate[m] \in {"untyped", "waits", "sent", "taken", "answered", "refused", "dropped"}

\* The panel does not think for good: once no frame is in flight and no agent
\* works, it still thinks only about a message that was never answered: it
\* was sent on a socket that was not open, its socket closed before the
\* answer was through, or getConfigStatus threw under it.
Stuck(m) == \E s \in Socket : agent[s].pc = "stuck" /\ agent[s].msg = m
Quiet ==
    \A s \in Socket :
        /\ sock[s] \in {"unused", "open", "closed"}
        /\ up[s] = <<>> /\ down[s] = <<>>
        /\ sock[s] = "open" => agent[s].pc \in {"idle", "stuck"}
ThinkingExplained == Quiet /\ shown /\ thinking => fate[asked] = "dropped" \/ Stuck(asked)

\* A message that waits for the agent to stop is sent, unless the user leaves
\* or the panel thinks for good (ThinkingExplained).
WaitingIsSent ==
    \A m \in Message :
        fate[m] = "waits" ~>
            fate[m] # "waits" \/ ~shown \/ fate[asked] = "dropped" \/ Stuck(asked)

\* A message is refused by a busy agent only if the panel stopped thinking
\* before the turn was over: the user pressed stop, an error came before its
\* turn_done, or a socket the store no longer uses answered.
RefusedExplained == (\E m \in Message : fate[m] = "refused") => loose

\* An agent that was told to stop, or whose socket closed, calls the model
\* twice more at most: for a round whose check it had passed, and to compress
\* the history after that round.  It never begins a second round.
StopIsHeard ==
    \A s \in Socket : /\ agent[s].late <= 2
                      /\ agent[s].pc = "model" => agent[s].late <= 1

============================================================================
