----------------------------- MODULE RunProgress -----------------------------
(****************************************************************************)
(* What the page that started a run sees of it:                             *)
(*   - frontend/src/stores/workflowStore.ts asks for the run, then opens a  *)
(*     WebSocket for its events (executionWs) and turns them into the       *)
(*     statuses it shows (nodeExecutionStates, isExecuting);                *)
(*   - backend/src/workflow/workflowWebSocket.ts registers a callback for   *)
(*     the run once the socket is authenticated;                            *)
(*   - backend/src/workflow/executionEngine.ts waits some seconds for that  *)
(*     callback, then runs whether it came or not, and sends an event after *)
(*     each change of a row;                                                *)
(*   - frontend/src/stores/copilotStore.ts loads the workflow again when    *)
(*     the copilot changed it, and gives the store the events of the runs   *)
(*     the copilot starts, which are left out but for those events.         *)
(*                                                                          *)
(* The rows change by the actions of RunLifecycle, which WorkflowEngine is  *)
(* shown to implement: here any node may fail or be skipped, and only the   *)
(* lock, the events and the page are in detail.                             *)
(****************************************************************************)
EXTENDS Naturals, Sequences, FiniteSets, SequencesExt

CONSTANTS
    Workflow, Node, NoWorkflow,
    Nodes,       \* Nodes[w]: the nodes of workflow w in topological order
    MaxRuns,     \* bound: runs the user asks for
    MaxOpens     \* bound: editors opened; a frame of the copilot takes the
                 \* place of one of each

ASSUME ProgressAssumption ==
    /\ NoWorkflow \notin Workflow /\ MaxRuns \in Nat /\ MaxOpens \in Nat
    /\ Nodes \in [Workflow -> Seq(Node)]

Run == 1..MaxRuns

VARIABLES
    run, nodeRun,  \* the rows
    engine,        \* engine[r]: where executeNodes is, and its nodes left
    locked,        \* activeExecutions
    registered,    \* progressCallbacks
    link, wire,    \* link[r]: the socket of run r; wire[r]: its frames
    ask,           \* ask[r]: the request that starts run r
    shown,         \* editorWorkflow
    opens, frames, \* editors opened, and frames of the copilot heard
    executing,     \* isExecuting
    current,       \* the run of executionWs
    picture,       \* nodeExecutionStates
    detail,        \* lastRunDetail
    fetches,       \* getRunDetail requests under way
    strayed,       \* an answer with a detail outlived its editor
    exact,         \* exact[r]: the page saw every event of r (see PictureIsRows)
    foreign,       \* nodes whose status was not set by the run of the page
    deaf           \* why isExecuting may stay (see ExecutingEnds)

rows   == <<run, nodeRun>>
server == <<rows, engine, locked>>
page   == <<shown, opens, frames, executing, current, picture, detail, fetches>>
net    == <<registered, link, wire>>
ghosts == <<exact, foreign, deaf, strayed>>
vars   == <<server, net, ask, page, ghosts>>

Rows == INSTANCE RunLifecycle WITH run <- run, nodeRun <- nodeRun

NoDetail == [run |-> 0, status |-> "none", nodes |-> [n \in Node |-> "none"]]
Blank    == [n \in Node |-> "none"]

Init ==
    /\ Rows!Init
    /\ engine = [r \in Run |-> [pc |-> "none", left |-> <<>>]]
    /\ locked = {} /\ registered = {}
    /\ link = [r \in Run |-> "none"] /\ wire = [r \in Run |-> <<>>]
    /\ ask = [r \in Run |-> [pc |-> "none", wf |-> NoWorkflow, plan |-> <<>>]]
    /\ shown = NoWorkflow /\ opens = 0 /\ frames = 0 /\ executing = FALSE /\ current = 0
    /\ picture = Blank /\ detail = NoDetail /\ fetches = {}
    /\ exact = [r \in Run |-> FALSE] /\ foreign = {} /\ deaf = FALSE /\ strayed = FALSE

----------------------------------------------------------------------------
(* The page asks for a run. *)

\* Run j may still change the picture.
Live(j) ==
    \/ ask[j].pc = "asked"
    \/ /\ link[j] \in {"connecting", "open"}
       /\ engine[j].pc \notin {"over", "gone"} \/ wire[j] # <<>>

\* The next run to be asked for.
IsNext(r) ==
    /\ ask[r].pc = "none" /\ \A k \in 1..(r - 1) : ask[k].pc # "none"
    /\ r + frames <= MaxRuns

\* Mutant: the statuses of the run before are not cleared.
ExecuteKeeps(r) ==
    /\ shown # NoWorkflow /\ IsNext(r)
    /\ \E plan \in {Nodes[shown]} \cup {<<Nodes[shown][i]>> : i \in DOMAIN Nodes[shown]} :
          ask' = [ask EXCEPT ![r] = [pc |-> "asked", wf |-> shown, plan |-> plan]]
    /\ executing' = TRUE
    /\ exact' = [k \in Run |-> k = r /\ \A j \in Run \ {r} : ~Live(j)]
    /\ foreign' = {} /\ deaf' = FALSE
    /\ UNCHANGED <<server, net, shown, opens, frames, current, picture, detail, fetches, strayed>>

\* executeWorkflow and executeNode of the store. The button is disabled while
\* isExecuting, but doExecute saves the workflow in between: a second click may
\* have been let through.
Execute(r) ==
    /\ shown # NoWorkflow /\ IsNext(r)
    /\ \E plan \in {Nodes[shown]} \cup {<<Nodes[shown][i]>> : i \in DOMAIN Nodes[shown]} :
          /\ ask' = [ask EXCEPT ![r] = [pc |-> "asked", wf |-> shown, plan |-> plan]]
          /\ picture' = [n \in Node |-> IF plan = Nodes[shown] /\ n \in ToSet(plan)
                                        THEN "pending" ELSE "none"]
    /\ executing' = TRUE
    /\ exact' = [k \in Run |-> k = r /\ \A j \in Run \ {r} : ~Live(j)]
    /\ foreign' = {} /\ deaf' = FALSE
    /\ UNCHANGED <<server, net, shown, opens, frames, current, detail, fetches, strayed>>

\* The engine looks at the lock, and takes it after it has opened the run: two
\* requests that come together may both pass.
Check(r) ==
    /\ ask[r].pc = "asked" /\ engine[r].pc = "none"
    /\ ask[r].wf \notin locked
    /\ engine' = [engine EXCEPT ![r] = [pc |-> "checked", left |-> ask[r].plan]]
    /\ UNCHANGED <<rows, locked, net, ask, page, ghosts>>

Start(r) ==
    /\ engine[r].pc = "checked"
    /\ Rows!Open(r, ask[r].wf)
    /\ locked' = locked \cup {ask[r].wf}
    /\ engine' = [engine EXCEPT ![r].pc = "waits"]
    /\ UNCHANGED <<net, ask, page, ghosts>>

\* The answer: the store connects to the run and lets go of the earlier one,
\* whose handlers go with it: what still comes on it nobody hears.
Answer(r) ==
    /\ ask[r].pc = "asked" /\ engine[r].pc \notin {"none", "checked"}
    /\ ask' = [ask EXCEPT ![r].pc = "answered", ![r].plan = <<>>]
    /\ link' = [k \in Run |-> IF k = r THEN "connecting" ELSE IF k = current THEN "closed" ELSE link[k]]
    /\ registered' = registered \ {current}
    /\ wire' = [k \in Run |-> IF k = current THEN <<>> ELSE wire[k]]
    /\ current' = r
    /\ exact' = [k \in Run |-> exact[k] /\ k # current]
    /\ UNCHANGED <<server, shown, opens, frames, executing, picture, detail, fetches,
                   foreign, deaf, strayed>>

\* A refusal, by the lock or because a statement throws, is shown, and
\* isExecuting stays as it is.
Refuse(r) ==
    /\ ask[r].pc = "asked" /\ engine[r].pc \in {"none", "checked"}
    /\ ask' = [ask EXCEPT ![r].pc = "refused", ![r].plan = <<>>]
    /\ engine' = [engine EXCEPT ![r] = [pc |-> "gone", left |-> <<>>]]
    /\ deaf' = TRUE
    /\ exact' = [exact EXCEPT ![r] = FALSE]
    /\ UNCHANGED <<rows, locked, net, page, foreign, strayed>>

----------------------------------------------------------------------------
(* The socket of a run. *)

\* The first frame authenticates it, and the callback is registered.
Register(r) ==
    /\ link[r] = "connecting"
    /\ registered' = registered \cup {r}
    /\ link' = [link EXCEPT ![r] = "open"]
    /\ exact' = [exact EXCEPT ![r] = @ /\ engine[r].pc = "waits"]
    /\ deaf' = (deaf \/ engine[r].pc \in {"over", "gone"})
    /\ UNCHANGED <<server, wire, ask, page, foreign, strayed>>

\* Mutant: the handler forgets executionWs only when it is told to.
DisconnectHeld(r) ==
    /\ link[r] \in {"connecting", "open"}
    /\ engine[r].pc # "gone" \/ wire[r] # <<>>
    /\ link' = [link EXCEPT ![r] = "closed"]
    /\ wire' = [wire EXCEPT ![r] = <<>>]
    /\ registered' = registered \ {r}
    /\ exact' = [exact EXCEPT ![r] = FALSE]
    /\ deaf' = TRUE
    /\ UNCHANGED <<server, ask, page, foreign, strayed>>

\* The socket fails, is refused, or closes: on the page the handler clears
\* executionWs, on the server the callback goes. Once a run is over and heard,
\* its socket has nothing more to lose.
Disconnect(r) ==
    /\ link[r] \in {"connecting", "open"}
    /\ engine[r].pc # "gone" \/ wire[r] # <<>>
    /\ link' = [link EXCEPT ![r] = "closed"]
    /\ wire' = [wire EXCEPT ![r] = <<>>]
    /\ registered' = registered \ {r}
    /\ current' = 0
    /\ exact' = [exact EXCEPT ![r] = FALSE]
    /\ deaf' = TRUE
    /\ UNCHANGED <<server, ask, shown, opens, frames, executing, picture, detail, fetches,
                   foreign, strayed>>

Send(r, event) ==
    wire' = IF r \in registered THEN [wire EXCEPT ![r] = Append(@, event)] ELSE wire

----------------------------------------------------------------------------
(* executeNodes. *)

At(r, pc) == engine[r].pc = pc

Goes(r, pc, left) == engine' = [engine EXCEPT ![r] = [pc |-> pc, left |-> left]]

\* waitForProgressCallback ends because the callback is there or the time is
\* up; createNodeRunsBatch.
Plan(r) ==
    /\ At(r, "waits")
    /\ Rows!Plan(r, ToSet(engine[r].left))
    /\ Goes(r, "next", engine[r].left)
    /\ exact' = [exact EXCEPT ![r] = @ /\ r \in registered]
    /\ UNCHANGED <<locked, net, ask, page, foreign, deaf, strayed>>

\* A change of a row and its event, which nobody can come between: the rows of
\* a run are read after its end only.
Tells(r, event) ==
    /\ Send(r, event)
    /\ UNCHANGED <<locked, registered, link, ask, page, ghosts>>

Begin(r) ==
    /\ At(r, "next") /\ engine[r].left # <<>>
    /\ LET n == Head(engine[r].left)
       IN  Rows!BeginNode(r, n) /\ Goes(r, "runs", engine[r].left) /\ Tells(r, <<"running", n>>)

\* Skipped by a branch, or after a failure.
Skip(r) ==
    /\ At(r, "next") /\ engine[r].left # <<>>
    /\ LET n == Head(engine[r].left)
       IN  /\ Rows!SkipNode(r, n) /\ Goes(r, "next", Tail(engine[r].left))
           /\ Tells(r, <<"skipped", n>>)

End(r) ==
    /\ At(r, "runs")
    /\ \E s \in {"completed", "failed"} :
          LET n == Head(engine[r].left)
          IN  /\ Rows!EndNode(r, n, s) /\ Goes(r, "next", Tail(engine[r].left))
              /\ Tells(r, <<s, n>>)

\* updateRunStatus: failed if a node failed.
Close(r) ==
    /\ At(r, "next") /\ engine[r].left = <<>>
    /\ Rows!Close(r, IF Rows!IsNot(r, "failed") THEN "completed" ELSE "failed")
    /\ Goes(r, "closed", <<>>)
    /\ UNCHANGED <<locked, net, ask, page, ghosts>>

\* Mutant: run_complete is sent before the row is closed.
SendEarly(r) ==
    /\ At(r, "closed") \/ (At(r, "next") /\ engine[r].left = <<>>)
    /\ IF At(r, "closed") THEN Goes(r, "over", <<>>) /\ UNCHANGED wire
       ELSE /\ Send(r, <<"end", 0>>) /\ UNCHANGED engine
            /\ wire[r] = <<>>
    /\ UNCHANGED <<rows, locked, registered, link, ask, page, ghosts>>

\* Mutant: a run that failed sends no run_complete.
SendEndOfSuccess(r) ==
    /\ At(r, "closed")
    /\ IF run[r].status = "completed" THEN Send(r, <<"end", 0>>) ELSE UNCHANGED wire
    /\ Goes(r, "over", <<>>)
    /\ deaf' = (deaf \/ (r \notin registered /\ (current = r \/ ask[r].pc = "asked")))
    /\ UNCHANGED <<rows, locked, registered, link, ask, page, exact, foreign, strayed>>

\* run_complete.
SendEnd(r) ==
    /\ At(r, "closed")
    /\ Send(r, <<"end", 0>>)
    /\ Goes(r, "over", <<>>)
    /\ deaf' = (deaf \/ (r \notin registered /\ (current = r \/ ask[r].pc = "asked")))
    /\ UNCHANGED <<rows, locked, registered, link, ask, page, exact, foreign, strayed>>

\* The lock is given back when the promise settles, after run_complete.
Release(r) ==
    /\ At(r, "over")
    /\ locked' = locked \ {ask[r].wf}
    /\ Goes(r, "gone", <<>>)
    /\ UNCHANGED <<rows, net, ask, page, ghosts>>

\* A statement throws: the promise settles and no run_complete is sent.
Die(r) ==
    /\ engine[r].pc \in {"waits", "next", "runs"}
    /\ locked' = locked \ {ask[r].wf}
    /\ Goes(r, "gone", <<>>)
    /\ deaf' = TRUE
    /\ UNCHANGED <<rows, net, ask, page, exact, foreign, strayed>>

----------------------------------------------------------------------------
(* The page hears. *)

Shows(pic, event) == IF event[1] = "end" THEN pic ELSE [pic EXCEPT ![event[2]] = event[1]]

\* handleExecutionEvent; run_complete asks for the detail of the run as one of
\* the workflow shown by now.
Receive(r) ==
    /\ link[r] = "open" /\ wire[r] # <<>>
    /\ wire' = [wire EXCEPT ![r] = Tail(@)]
    /\ LET event == Head(wire[r])
       IN  /\ picture' = Shows(picture, event)
           /\ foreign' = {n \in foreign : event[1] = "end" \/ event[2] # n}
           /\ executing' = (executing /\ event[1] # "end")
           /\ fetches' = IF event[1] = "end" /\ shown # NoWorkflow
                         THEN fetches \cup {[run |-> r, wf |-> shown, opens |-> opens]} ELSE fetches
    /\ UNCHANGED <<server, registered, link, ask, shown, opens, frames, current, detail, exact, deaf, strayed>>

DetailOf(r) == [run |-> r, status |-> run[r].status, nodes |-> nodeRun[r]]

\* getRunDetail of workflow.service.ts refuses a run of another workflow; the
\* answer is shown whatever the editor shows when it comes.
Fetch(f) ==
    /\ f \in fetches
    /\ fetches' = fetches \ {f}
    /\ detail' = IF run[f.run].wf = f.wf THEN DetailOf(f.run) ELSE detail
    /\ strayed' = (strayed \/ f.opens # opens \/ shown = NoWorkflow)
    /\ UNCHANGED <<server, net, ask, shown, opens, frames, executing, current, picture, exact, foreign, deaf>>

\* Room for a frame of the copilot (a bound).
Room == opens + frames < MaxOpens /\ \E r \in Run : IsNext(r)

\* loadForEditing has its workflow. Only the load asked for last goes on, so
\* a load is taken to be asked for here.
Loads(w) ==
    /\ shown' = w
    /\ picture' = Blank /\ foreign' = Node
    /\ detail' = NoDetail
    /\ UNCHANGED <<server, net, ask, executing, current, fetches, exact, deaf, strayed>>

\* The user opens an editor. With one open, a panel left with the copilot of
\* another workflow (two clicks answered out of order) may load that one.
OpenEditor(w) ==
    /\ shown # w /\ opens + frames < MaxOpens
    /\ Loads(w) /\ opens' = opens + 1 /\ UNCHANGED frames

\* workflow_changed: the workflow shown is loaded again, in mid-run or not.
CopilotChanges ==
    /\ shown # NoWorkflow /\ Room
    /\ Loads(shown) /\ frames' = frames + 1 /\ UNCHANGED opens

\* Later, the latest completed run the load finds (listRuns). Loads under way
\* are not counted: with an editor open there may always be one.
Preview ==
    /\ shown # NoWorkflow
    /\ \E r \in Run : /\ run[r].wf = shown /\ run[r].status = "completed"
                      /\ detail' = DetailOf(r)
    /\ UNCHANGED <<server, net, ask, shown, opens, frames, executing, current, picture, fetches, ghosts>>

\* execution_event: a run of the copilot, of any node, speaks into the same
\* picture; its run_complete clears isExecuting.
CopilotTells ==
    /\ opens > 0 /\ Room /\ frames' = frames + 1
    /\ \/ /\ \E n \in Node, s \in {"running", "completed", "failed", "skipped"} :
                picture' = [picture EXCEPT ![n] = s] /\ foreign' = foreign \cup {n}
          /\ UNCHANGED executing
       \/ executing' = FALSE /\ UNCHANGED <<picture, foreign>>
    /\ UNCHANGED <<server, net, ask, shown, opens, current, detail, fetches, exact, deaf, strayed>>

\* closeEditor leaves executionWs and isExecuting as they are.
CloseEditor ==
    /\ shown # NoWorkflow
    /\ shown' = NoWorkflow
    /\ picture' = Blank /\ foreign' = Node
    /\ detail' = NoDetail
    /\ UNCHANGED <<server, net, ask, opens, frames, executing, current, fetches, exact, deaf, strayed>>

----------------------------------------------------------------------------

Engine(r) ==
    \/ Check(r) \/ Start(r) \/ Plan(r) \/ Begin(r) \/ Skip(r) \/ End(r) \/ Close(r)
    \/ SendEnd(r) \/ Release(r)

Browser(r) == Answer(r) \/ Register(r) \/ Receive(r)

Copilot == CopilotChanges \/ CopilotTells

User == CloseEditor \/ (\E w \in Workflow : OpenEditor(w)) \/ \E r \in Run : Execute(r)

Next ==
    \/ User \/ Copilot \/ Preview
    \/ \E r \in Run : Engine(r) \/ Browser(r) \/ Refuse(r) \/ Die(r) \/ Disconnect(r)
    \/ \E f \in fetches : Fetch(f)

\* The engine's loop and the page's handlers go on.
Spec == Init /\ [][Next]_vars /\ WF_vars(\E r \in Run : Engine(r) \/ Browser(r))

----------------------------------------------------------------------------
(* Properties. *)

Status == {"none", "pending", "running", "completed", "failed", "skipped"}

\* Every variable has its type.
TypeOK ==
    /\ run \in [Run -> [status : Status, wf : Workflow \cup {NoWorkflow}]]
    /\ nodeRun \in [Run -> [Node -> Status]] /\ picture \in [Node -> Status]
    /\ locked \subseteq Workflow /\ registered \subseteq Run /\ current \in {0} \cup Run
    /\ shown \in Workflow \cup {NoWorkflow} /\ executing \in BOOLEAN
    /\ \A r \in Run :
          /\ engine[r].pc \in {"none", "checked", "waits", "next", "runs", "closed", "over", "gone"}
          /\ link[r] \in {"none", "connecting", "open", "closed"}
          /\ ask[r].pc \in {"none", "asked", "answered", "refused"}
          /\ current = r => link[r] \in {"connecting", "open"}

\* The page shows what the rows say, once the events on their way are in: when
\* the socket was there before the run began, nothing closed and no other run
\* of the page was under way. Only a node that the copilot's run changed, or
\* that a load emptied, since the run's last event about it may show something
\* else, and the run's next event about it makes it right again.
About(r, n) == {i \in DOMAIN wire[r] : wire[r][i][1] # "end" /\ wire[r][i][2] = n}
Arrived(r)  == [n \in Node |->
    IF About(r, n) = {} THEN picture[n]
    ELSE wire[r][CHOOSE i \in About(r, n) : \A j \in About(r, n) : j <= i][1]]
PictureIsRows ==
    \A r \in Run : exact[r] /\ current = r /\ link[r] = "open" =>
        \A n \in Node : \/ n \in foreign /\ About(r, n) = {}
                       \/ Arrived(r)[n] = nodeRun[r][n]
                       \/ {Arrived(r)[n], nodeRun[r][n]} \subseteq {"none", "pending"}

\* The detail the page shows is that of a run that is over, and nothing of it
\* changes any more: run_complete is sent after the last row is written.
IsFinal(d) ==
    /\ d.status \in {"completed", "failed"} /\ d.status = run[d.run].status
    /\ d.nodes = nodeRun[d.run]

\* The detail is that of a run of the workflow in the editor, although the
\* socket of a run lives on when the editor goes to another workflow; only an
\* answer asked for in an earlier editor may be shown in the wrong one.
IsOfEditor(d) == ~strayed => run[d.run].wf = shown

\* Whatever socket delivered run_complete, the detail fetched because of it is
\* final and belongs to the workflow the editor shows.
DetailIsTrue == detail # NoDetail => IsFinal(detail) /\ IsOfEditor(detail)

\* The run button comes back, unless the request was refused (isExecuting is
\* set before the request), a statement threw in the engine, the socket was
\* lost, or the run was over before the socket was there.
ExecutingEnds == executing ~> ~executing \/ deaf
============================================================================
