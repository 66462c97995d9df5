# databot in TLA+

databot is an AI data workspace: a Node.js backend (Express, Prisma,
PostgreSQL), a JDBC bridge in Java, and a Vue frontend. Users build workflows —
graphs of SQL, Python, LLM, branch, mail and search nodes — run them by hand or
on a schedule, and talk to agents that read data and edit workflows. This
directory models the parts whose correctness depends on order, failure and
concurrency. TLC checks the models on small instances. TLAPS proves most of the
safety properties for every value of the constants.

Paths below are relative to the repository root; `PROJECT.json` maps each
definition to the lines it models.

## 1. The system

The backend is one process with one event loop, so code between two `await`s is
atomic. Everything hard about it comes from what happens at the awaits: another
request runs, a row disappears, a statement throws, or the process ends. No
code repairs anything at startup, there is no handler for unhandled rejections,
and almost nothing runs in a database transaction (`saveWorkflow` does).

| Component | State | Operations | Talks to | What is hard | What makes it correct |
|---|---|---|---|---|---|
| **Workflow engine** `workflow/executionEngine.ts` | `activeExecutions` (a set of workflow ids), the locals of each call (`sortedNodeIds`, `nodeRunMap`, `nodeOutputs`, `hasFailed`, `blockedEdgeIds`) | `executeWorkflow`, `executeNode` (mock, cascade, from history), `retryFromFailed`, `executeNodes` | rows through the repository, DAG validator, executors, progress callbacks | a dozen awaits per node; edits and deletions land between them; a lock tested and taken two awaits apart; branches that skip chains of nodes; retries that inherit outputs | rows and memory agree at every await; a completed run is whole; branches decide what runs; a lock always has an owner |
| **Workflow rows** `workflow/workflow.repository.ts`, `prisma/schema.prisma` | Workflow, WorkflowNode, WorkflowEdge, WorkflowRun, WorkflowNodeRun | create, save (one transaction), delete with cascades, run and node-run updates | PostgreSQL | cascades delete rows a run is working on | the history follows one lifecycle |
| **Workflow editing** `workflow/workflow.service.ts` | none of its own | save, delete, clone, rename, reflow | validator, rows | edits during runs | every stored definition is acyclic |
| **DAG validator** `workflow/dagValidator.ts` | locals | `validateDag`, `topologicalSort`, `getDownstreamNodes`, `getUpstreamNodes` | engine, editing | repeated edge rows, cycles outside the part asked for, rows in any order | returns an order exactly when there is one; the target is at its end |
| **Schedule engine** `workflow/scheduleEngine.ts`, `schedule.service.ts` | `activeSchedules` (registry with `lastFiredMinute`), WorkflowSchedule rows | boot, 30 s tick, fire, create, update, delete | rows, workflow engine | two copies of one truth, updated at different awaits; promise callbacks of overlapping fires | registry mirrors table; one fire per minute; `running` does not stay |
| **Workflow WebSocket, run controller** `workflow/workflowWebSocket.ts`, `workflow.controller.ts` | `progressCallbacks`, one socket per run | handshake, events, fire-and-forget handlers | engine, workflow store | a run starts before the client connects; the engine waits up to 5 s, then runs anyway | a page that was there in time shows what the rows say |
| **Core agent session** `agent/websockets.ts`, `base.ts`, `coreAgentSession.ts` | one socket, a queue of one task at a time, `aborted`, heartbeat timers | look-up of the chat with a buffer, user message, stop, rounds, close | LLM, tools, chat page | a stop before the loop or after it; sends that throw on a closing socket; a look-up that outlives its socket | a turn is cut short by its own stop, and by that at once |
| **Conversation context** `agent/context.ts` | history with token counts | append, compress | agents | cutting between a call and its result | the model never sees a result without its call |
| **LLM providers and tool loop** `infrastructure/llm`, `infrastructure/tools` | none | stream, chat, run tools | vendors, sandbox | vendor formats | external to the models |
| **Copilot and debug agents** `copilot/` | one agent per socket: context, `isProcessing`, `aborted` | message, abort, rounds, tools that edit a workflow | workflow service, copilot store | awaits outside the `try`; read-modify-write of a definition | each message is answered or its fate explained; edits are lost to overlaps only |
| **Authentication** `auth/` | RefreshToken rows, the user's row | login, refresh (rotation), logout, password change, two middlewares | users, frontend | look-up, deletion and insertion of a token are three statements | the cookie of the browser works unless something that may end it did |
| **Frontend HTTP client, auth store, router** `utils/http.ts`, `stores/authStore.ts`, `router/index.ts` | access token and user per tab, `refreshPromise` | interceptor, refresh, guard | backend | several 401s at once; a refresh whose own profile request is refused; tabs that share a cookie | each request ends; a tab at rest has a token and its user, or neither |
| **Frontend WebSocket and chat** `composables/useWebSocket.ts`, `useChat.ts`, chat components | socket, reconnect timer, `isLoading`, `currentMessageId` | connect, reconnect, other chat, send, stop, frames | agent session | a reconnect during an answer, another chat during a request | texts of two answers stay apart; waiting ends |
| **Frontend workflow and copilot stores** `stores/workflowStore.ts`, `copilotStore.ts` | the editor's copy, `isDirty`, picture of the run, panel state, `pendingMessage` | load, edit, save, execute, chat | all of the workflow backend | answers in any order; sockets that outlive the page they were opened for | the editor shows what is stored once all is quiet |
| **Datasource service, bridge client** `datasource/`, `infrastructure/datasources/` | datasource rows, dictionary directories, one cached BridgeDatasource per connection | create, update (delete and create), delete, query with one retry | JDBC bridge, agents | five kinds of state written one after the other | a dictionary fits its row; no temporary connection is left |
| **JDBC bridge** `bridge/` | a map of Hikari pools, in memory | register, remove, test, tables, query | datasource service | it forgets everything at a restart | a query survives that |
| **Knowledge base** `knowledge/` | folder tree, files | move, write | rows, disk | two moves that close a cycle | the folders stay a tree (not modelled) |
| Table metadata, SQLite, data files; users, configuration, audit log, chat sessions; node templates; layout; cleanup; recorder; plumbing; pages | rows or nothing | one statement per request, pure computation or I/O | | | |

## 2. The modules

| Module | What it is |
|---|---|
| `Dag` | Definitions (nodes, edges with handles), reachability, and `KahnOrders`: the set of orders Kahn's algorithm with a FIFO queue can return when the rows come in any order. The contract of `dagValidator.ts` for its callers. |
| `DagValidator` | `dagValidator.ts` itself, one loop iteration per action, on lists of rows, checked against `Dag`. |
| `WorkflowEngine` | The engine, the rows it reads and writes, and the writers that race it. |
| `RunLifecycle` | The abstract specification of the run history: what a reader of WorkflowRun and WorkflowNodeRun may rely on. `WorkflowEngine` implements it (`FollowsLifecycle`). |
| `RunProgress` | What the page that started a run sees of it. Its rows change by the actions of `RunLifecycle`, which it instantiates, so it stands on the abstract history and not on the engine's detail. |
| `ScheduleEngine` | Registry, table, clock, fires and client calls. |
| `WorkflowEditing` | One workflow, the copilot tools and the editor that change it by copies. Built on `Dag`. |
| `CopilotChat` | The copilot panel, its sockets and the agents behind them. |
| `CoreSession` | The main chat: the page, its sockets and the sessions behind them. |
| `Conversation` | What a copilot tells the model, and its compression. |
| `AuthTokens` | The tokens of one user in the tabs of one browser. |
| `Datasources` | Datasource calls over rows, directories and the bridge, and the queries beside them. |
| `WorkflowEngineProofs` | Theorems about `WorkflowEngine` and, on the same lemmas about reachability, `DagValidator`. |
| `ScheduleEngineProofs` | Theorems about `ScheduleEngine`. |
| `WorkflowEditingProofs` | Theorems about `WorkflowEditing`, with a lemma on renamed graphs. |
| `RunProgressProofs` | Theorems about `RunProgress`. |
| `CopilotChatProofs` | Theorems about `CopilotChat`, with lemmas on queues of frames. |
| `CoreSessionProofs` | Theorems about `CoreSession`, with lemmas on queues of frames. |
| `AuthTokensProofs` | Theorems about `AuthTokens`. |
| `DatasourcesProofs` | Theorems about `Datasources`. |
| `MC…` | Instances for TLC. |

Definitions whose comment begins with "Mutant:" are not part of a
specification. Each is a plausible slip in the definition that follows it
(a dropped guard, a missing reset) and the property it is paired with in
`PROJECT.json` fails when it takes that definition's place.

### WorkflowEngine

A member `r` of `Run` is one call of `executeWorkflow`, `executeNode` or
`retryFromFailed`, and also the id of the one row it may insert.

| Model | Code |
|---|---|
| `request[r]` | the arguments |
| `job[r].pc` | the await the call is suspended at, or how it ended: `resolved`, `rejected` (refused by the engine), `died` (a statement threw under it), `lost` (the process ended) |
| `job[r].plan`, `idx`, `mapped`, `outs`, `failed`, `blocked` | `sortedNodeIds`, the loop position, the keys of `nodeRunMap`, the keys of `nodeOutputs`, `hasFailed`, `blockedEdgeIds` |
| `run[r]`, `nodeRun[r][n]` | the WorkflowRun and WorkflowNodeRun rows |
| `workflow[w]`, `born` | the stored definition; the node ids handed out so far |
| `activeExecutions` | the set of that name |
| `Refuse` … `StartHistory` | 172–309: lock test, load, insert, lock, the four kinds of plan |
| `ReadFailedRun`, `StartRetry` | 314–378; no lock is tested or taken |
| `CreateNodeRuns`, `FetchNodeRuns` | the two statements of `createNodeRunsBatch` |
| `PassOver`, `SkipBlocked`, `SkipAfterFailure`, `StartNode` | the top of the loop, 425–465 |
| `CompleteNode`, `FailNode`, `FailToStore` | the executor's answer and the row update, with the catch |
| `FinishRun`, `Report` | 555–585, with the `finally` |
| `Abort`, `Fault`, `FaultAtStart`, `Restart` | a row gone, a statement that throws, the end of the process |
| `SaveWorkflow`, `DeleteWorkflow` | the transaction of `saveWorkflow`; deletion with its cascades |

What is abstracted:

- Outputs are kept by node id. The code keys them by node name, which
  `saveWorkflow` keeps unique within a definition, and stores them a second time
  under the output variable of the node, an alias. `Refs` and `ParamRefs` stand for
  the templates of a node's configuration; the substitution of text is left out.
- An executor returns a value or throws. A branch's value is a Boolean.
- `findLatestSuccessfulNodeRunOutput` finds some completed row; which is latest
  changes no property.
- Progress events and `waitForProgressCallback` have no effect on the state of
  this module: the wait ends by itself after five seconds. `RunProgress` has them.
- After `died` or `rejected` the fields of a job stay as they are, so that
  properties can speak of what the call had planned.

### RunLifecycle

A run opens, gets its `pending` node runs once, runs one node at a time; after a
failure the others can only be skipped; it closes when nothing is running, as
`completed` only if nothing failed; a closed run never changes. Rows leave only
by the deletion of a workflow or of a node. The mapping is the identity on `run`
and `nodeRun`: the abstract specification has no lock, no memory, no definition.

### DagValidator

`pc` tells the phase (`walk` of the breadth-first search, `sort` of Kahn's loop,
then `sorted`, `cycle` or `empty`). `cursor` is the position of an inner loop in
the edge rows, `inDegree`, `queue`, `sorted`, `visited` are the code's variables.
The adjacency lists and the reverse lists are the edge rows read in their order.
`Roots` goes over the node rows as the code goes over its map of degrees.

### ScheduleEngine

A cron expression is the set of minutes it matches; `Minutes` bounds the clock.
`Tick` is one pass of the 30 s timer, and several may fall in a minute. A `Fire` is a
call of `executeScheduledWorkflow`; `fire[f].outcome` is the promise it chains
its callbacks to. A `Caller` runs one call of the schedule service, which
suspends at its statements. Of the engine only the lock and the outcome are
kept: `executing` is the part of `activeExecutions` held by scheduled runs. A
rejection that comes before `.then(...).catch(...)` is attached ends the process
(`RunRejects`), since nothing handles it.

### WorkflowEditing

| Model | Code |
|---|---|
| `stored`, `born`, `version` | the rows of the workflow, the node ids handed out, the saves committed |
| `call[a]` | the tool call agent `a` is in, with the copy it has read |
| `AddNode` … `DisconnectNodes`, `UpdateNode`, `PatchNode` | `execute` of the tools in `copilotTools.ts`: read, change, and later the save (`SaveOfTool`); `RereadToUpdate` is the second read of `workflowAccessor.ts` |
| `Saved`, `Commit`, `Renamings` | the transaction of `saveWorkflow`: rows without a stored id are created anew and their edges renamed (`tempIdMap`), the others kept or deleted; validation first |
| `notices`, `TakeNotice` | `workflow_changed` frames and the reload they cause |
| `editor`, `dirty`, `latest`, `load`, `save` | `editorWorkflow`, `isDirty`, `latestEditorLoadRequestId` and the requests under way |

The content of a node is the set of edits made to it, so that a lost edit is a
missing element. Names, positions and configurations are left out.

### RunProgress

| Model | Code |
|---|---|
| `run`, `nodeRun` | the rows, changed only by actions of `RunLifecycle` |
| `engine[r]` | where `executeNodes` is, from the lock test to the `finally` |
| `registered`, `link`, `wire` | `progressCallbacks`; the socket of a run and its frames |
| `ask` | the POST that starts the run; the socket is opened by its answer |
| `picture`, `executing`, `detail`, `fetches` | `nodeExecutionStates`, `isExecuting`, `lastRunDetail`, `getRunDetail` under way |
| `OpenEditor`, `CopilotChanges`, `Preview` | `loadForEditing`, asked for by the user or by the copilot's `workflow_changed`, in mid-run too: it empties picture and detail, and later may show the last completed run |
| `CopilotTells` | an `execution_event` of a run the copilot started, which the store puts into the same picture |

`exact`, `foreign`, `deaf` and `strayed` are history variables: for which run the page
missed nothing, which nodes of the picture a load emptied or a run of the copilot changed
since, why the run button may stay, and whether an answer with a detail outlived its editor.
The runs of the copilot are no rows of this module: only their events reach the page.

### CopilotChat

| Model | Code |
|---|---|
| `ws`, `sock`, `timers` | the store's socket, all sockets it made, `reconnectTimer` and the timers nobody holds any more |
| `thinking`, `pending` | `isAgentThinking`, `pendingMessage` |
| `up`, `down` | frames in order; those in flight are lost with the socket |
| `agent[s].pc` | the await of `handleUserMessage`: `prompt` (`getConfigStatus`), `round`, `snapshot`, `model`, `compress` and `compressLast` (`maybeCompressContext` after tools and after the final answer, a call of the model too); `stuck` if the first threw |
| `agent[s].told`, `late` | whether the agent was told to stop, and its calls of the model since (history) |
| `fate` | what became of each message (a history variable) |

### CoreSession

| Model | Code |
|---|---|
| `ws`, `connection`, `timer`, `attempts`, `byId` | `useWebSocket.ts` and the connection store |
| `loading`, `current`, `selects` | `chatStore.isLoading`, `currentMessageId`, chats being opened |
| `session[s]` | `auth`, `lookup` (messages and stops go to `buffer`), `live`; `late` if the socket closed during the look-up, `orphan` once its session was made nonetheless |
| `buffer[s]` | `messageBuffer`: its messages in order, and the stops among them (handling them in turn queues the messages and sets `aborted` if there is a stop) |
| `queue[s]`, `task[s]`, `aborted[s]` | `messageQueue`, the task that runs with its round, `this.aborted` |
| `halted`, `early`, `misled` | messages the user stopped or left; those whose stop came before the loop or was not sent; those the page gave up by a frame of an earlier turn (history variables) |
| `Dies` | a send on a closing socket throws where nobody catches it, and the process ends with all sockets |

### Conversation

`history` without the system prompt as the code's `messageHistory`; a message is
its role, how many calls it makes and its tokens. `CompressIndex`, `Boundary`,
`EndOfSequence` and `Compressed` are `compressContext`; the other actions are the
rounds of the copilot, in which compression comes between rounds or at the end.

### AuthTokens

| Model | Code |
|---|---|
| `rows`, `issued`, `account`, `must` | RefreshToken rows, the user's row with `mustChangePassword` |
| `cookie` | one for all tabs |
| `access[t]`, `user[t]`, `route[t]` | the store and the page of a tab |
| `req[t][a]` | the request that part `a` of the tab awaits; `shared` is `refreshPromise`, `guard` the router's refresh, `own` that of ChangePasswordPage |
| `Finds`, `Drops`, `Creates` | the three statements of `refresh`: look-up, deletion of the old token, insertion of the next one. Two tabs may both have found one token, each statement may throw, and nothing is taken back. `Creates` is the insertion of `login` as well |
| `Intercepts`, `Returns` | the interceptor on a 401, and the settling of the promise those requests wait for |

`revoked` and `unheard` are history variables: tokens ended by a change of the account or the
clock, and tokens deleted by a request whose answer never came.

### Datasources

| Model | Code |
|---|---|
| `row`, `dict`, `temp`, `pool`, `cached` | the row, its directory with `config.ini` and table files, temporary connections and the shared pool of the bridge, the BridgeDatasource |
| `call[c].pc` | the statement `createDatasourceFromConfig`, `updateDatasourceFromConfig` or `deleteDatasourceById` is suspended at |
| `Fails` | any statement rejects: the `finally` of the creation removes the temporary connection |
| `Prepare`, `Post`, `Reregister`, `PostAgain` | a query, and its second attempt when the bridge does not know the connection |
| `RestartBridge`, `RestartBackend`, `ChangePassword` | what happens beside them |

`whole`, `crossed`, `left`, `stripped`, `kept` and `cut` are history variables for the
exceptions the properties name. `whole` has the stored rows whose creation went through,
`stripped` those whose update or deletion stopped between directory and row.

## 3. The runs

| Run | Instance | Shows |
|---|---|---|
| `engine_safety` | two calls on a triangle with a branch, the second may retry the first, while an editor replaces a node by a new one, workflows are deleted, statements throw and the process restarts | `BranchDecidesSkips`: branches decide what runs, through joins and a branch whose own update throws; `NoOrphanLock`; `CompletedRunIsWhole`; `FollowsLifecycle`, the refinement of `RunLifecycle`; `EngineInv`, the inductive invariant of the proofs |
| `engine_live` | two calls on a vee, faults, restarts, deletion, with fairness | `LocksAreReleased`; `RunsSettle`: no run row stays `running` unless its call was ended by a statement or a restart; `MissingInputsExplained`: when a node can start without an output it names |
| `dag` | every list of up to three edge rows over three ids (repeated rows, self loops, unknown ids), and a diamond with a shortcut and a node apart in every order of its rows; with fairness | `ReturnsKahnOrder` (with the target last or first, on which the engine relies), `ReportsCycles`, `Returns` |
| `sched_sync` | two client calls one after the other, failing statements, restarts, deletions | `RegistryMirrorsTable` |
| `sched_fires` | three fires of two schedules of one workflow, creations and deletions, with fairness | `NoDoubleFire`, `RunningStatusSettles` |
| `editing` | two agents and one editor on a branch with an arm; two saves, one change by the user, three loads | `StoredIsDefinition`, `IdsNeverReturn`, `OnlyOverlapsLoseEdits`, `EditorCatchesUp` |
| `copilot` | two messages, two sockets, two visits to the editor, two rounds; with fairness | `ThinkingExplained`, `RefusedExplained`, `StopIsHeard`, `WaitingIsSent` |
| `progress` | two runs, two workflows, two visits to an editor or frames of the copilot in their place; with fairness | `PictureIsRows`, `DetailIsTrue`, `ExecutingEnds` |
| `session` | three messages, two sockets, one reconnect, two rounds, other chats, four messages and sockets together; with fairness | `TextsStayApart`, `OnlyStoppedTurnsAbort`, `StopsAreHeard`, `LoadingEnds` |
| `tokens` | two tabs, two other requests per tab, four acts of users and clocks, one lost answer; with fairness | `AuthIsWhole`, `CookieWorks`, `RequestsEnd` |
| `datasources` | two calls, one client that queries, two schemas, three rows, two names, one changed password, one restart | `DictionariesFit`, `QueriesSurvive`, `NothingKept` |
| `context_pairs` | histories of up to seven messages, two weights, up to two calls per answer, the configured ratio 7/10 | ends in a violation of `PairedHistory` |

Each of the runs from `editing` to `tokens` also checks the `TypeOK` of its module.

`context_pairs` is a disagreement between code and comment. `context.ts:113` says
that the boundary is moved forward "to maintain complete tool call sequences".
When the sequence reaches the end of the history, `findEndOfToolCallSequence`
(`context.ts:208`) returns the index before the last "to leave something
uncompressed". What it leaves is the last tool message, whose call is now in the
summary, and the next request to the model begins with a result that answers
nothing.

### Known deviations

Met while modelling; the models contain the behaviour, and the properties above
state what holds in spite of it.

- **Concurrent runs.** `executionEngine.ts:149` speaks of preventing concurrent
  runs; the lock is tested (179) before two awaits and taken (200) after them,
  so two calls pass. `engine_safety` and `engine_live` run with such overlaps.
- **Skips after a failure.** `executionEngine.ts:446` says "Skip downstream nodes
  after failure"; every later node of the order is skipped, dependent or not.
- **The schedule registry.** Overlapping updates, or an update during the boot,
  leave a registration the table no longer has; deleting a workflow removes the
  rows by cascade and leaves the entries, whose fires then fail; an update in the
  minute of a fire resets `lastFiredMinute`, and the schedule fires twice; a
  deletion whose statement throws leaves an enabled row unregistered. Hence the
  conditions `Serial` and `Steady` of the theorems.
- **The status of a schedule.** `executeNodes` resolves when a node fails, and the
  callback writes `completed`; the design of 2026-03-29 (lines 186–188) says failed.
- **Branches after a copilot edit.** `buildSaveInput` (`copilotTools.ts:171`) has
  no `sourceHandle`: each tool that saves through it makes the edges of a branch
  plain ones, although `nodePromptShared.ts:117` tells the model that they need
  one. `LostEdges` therefore compares the ends of edges only.
- **Changing a password.** ChangePasswordPage refreshes after the change
  (`ChangePasswordPage.vue:175`), but `changePassword` has just deleted all refresh
  tokens (`authService.ts:180`): the refresh fails, and the user is sent to log in.
- **A refresh that waits for itself.** `refreshAccessToken` fetches the profile of
  a tab that has no user; if that is refused (the user was deleted in between),
  the interceptor makes it wait for the refresh it is part of. `RequestsEnd` names the case.
- **A cookie that is dead.** `refresh` deletes the old token and then inserts the next
  (`authService.ts:144`, 147), in no transaction: if the insertion throws, or the answer is
  lost, the browser keeps a token that is gone, and the user has to log in again. `unheard`
  names these tokens.
- **A stop and the compression.** `maybeCompressContext` (`copilotAgent.ts:294`, 315) calls the
  model without a look at `aborted`: after a stop there may be two calls, the one of the
  round and the compression. `StopIsHeard` allows both and no further round.
- **The picture of a run.** With an editor open, each `workflow_changed` of the copilot loads
  the workflow again and empties `nodeExecutionStates` in mid-run (`copilotStore.ts:313`,
  `workflowStore.ts:239`): a node that finished before stays blank. Runs of the copilot
  write their events into the same picture, and their `run_complete` sets `isExecuting`
  back under a run of the user. `foreign` names the nodes.
- **A stop that is lost.** `aborted` is reset when a turn begins: a stop that came
  before, while the message waited in the queue, counts for nothing.
- **A frame of an earlier turn.** No frame names the message it belongs to. The `stop`
  or `config_missing` of a stopped turn, or its error, may arrive when the next
  question has been asked, and ends the waiting for that one
  (`useChat.ts:97`); the user may then send a third, whose answer mixes with the second's. `misled` names these messages.
- **A process that ends.** `sendMessage` of `base.ts` throws on a closing socket;
  in `initChatSession`, in the answer to a missing configuration and in the
  heartbeat timer nothing catches it.
- **No compression in the main chat.** `coreAgentSession.ts:519` tests
  `total_tokens`; the usage record has `totalTokens`.
- **The progress socket stays.** `workflowStore.ts:459` says "fetch final run detail
  and disconnect"; nothing disconnects there. A refused start leaves `isExecuting` set (500).
- **A datasource without its directory.** An update or deletion removes the directory, then
  the row (`datasource.service.ts:170`, 184). If it fails or the process ends between the two,
  the row stays and agents find no `config.ini`. An update whose creation fails after
  that (no connection, no table, an error) has lost the datasource, since nothing is taken
  back. `stripped` names the first; no property speaks against the second.
- **The cached BridgeDatasource.** It keeps the configuration of its first query:
  after a changed password, queries fail until the backend restarts.
- **The unique index of datasources.** It covers the schema, and PostgreSQL does
  not compare NULLs: two datasources without a schema may be stored twice.
- **Knowledge base** (not modelled). Two folder moves that each check for a cycle
  before either is written close one (`knowledge.service.ts:130`);
  `updateFileContent` (293) may write a file whose row is being deleted.

### Bounds

- Two calls are what the lock, the retry of a run and the deletion under a run
  need. Calls interact only through rows and the lock, so a third call adds a
  second victim, or the retry of a retry, and no new kind of step; the theorems
  hold for any number.
- The triangle has a branch, an arm, and a join that the branch reaches directly
  and through the arm. The vee has two nodes that do not depend on each other.
  The edit of the triangle drops an arm, so that a run under way loses a node,
  and puts a new node in its place, with an id never used before.
- `dag` covers all multigraphs of three edge rows over three ids, with which a
  cycle inside and outside the asked part, repeated rows and dangling rows
  exist. Longer lists with a shortcut come from the diamond.
- Two minutes are enough to tell a second fire in one minute from a fire in the
  next; three fires for an overlap and one more.
- `editing`: two copies must meet for a loss; with the editor's save there are
  three writers for two saves. Three loads let an old answer come after a newer
  one while a third is asked for. `Temp` has one id: a node that is new in the
  editor, saved and renamed.
- `copilot`: two messages give one that waits while another is answered; two
  sockets give one that is lost or left and one that replaces it, by a reconnect or by
  a second visit. The theorems have any number.
- `progress`: two runs may be of one workflow (the second is refused by the lock, or
  overlaps it) or of two, with the editor on either. `MaxOpens` trades visits for frames
  of the copilot, and such a frame for one of the runs (`Room`), so that a reload or an
  event of a copilot's run meets each step of one run; the theorems have all bounds
  arbitrary.
- `session`: three messages are what a frame of an earlier turn needs: one that is
  answered after its stop, one whose waiting that frame ends, and one that is sent then.
  Two sockets are the one lost and the one that follows. `selects` counts chats being
  opened. `MaxActs` trades: with three messages no second socket, with two sockets two
  messages, and more rounds only while two acts are left; the theorems have all
  bounds arbitrary.
- `tokens`: two tabs are what a shared cookie needs, two other requests what the
  shared refresh needs; four acts allow login, expiry, a request and one more (a second
  tab, a password change, a locked account).
- `datasources`: one row at the start and two calls that may both take it; two
  names, so that names run out and are handed out again. A second client adds
  nothing but another observer of the one shared pool.
- `context_pairs`: one question, a round with a call, and the compression after
  it are enough for the case.

Symmetry among runs, agents and calls is used for safety only.

### Fairness

Weak fairness of `Advance(r)` for each call of the engine: the event loop answers
every statement, and an executor returns or throws because each has a timeout or a
driver that has one. It leaves out `Refuse`/`Admit` (nobody owes a request),
faults, restarts, edits. `FireStep(f)` is the same for a fire. In `DagValidator`
a synchronous function runs on until it returns. Nothing is assumed of the
clock, of clients, or of the order of callers.

In the modules with two sides, fairness covers what runtimes owe: callbacks,
timers, awaits that are answered, frames on an open socket that arrive
(`Engine` and `Browser` in `RunProgress`, `System` in `CopilotChat`, `Browser` and
`Server` in `CoreSession`, `Goes` in `AuthTokens`). It is one fairness condition on
their disjunction: behaviours have finitely many user acts and faults, so what
is owed is done before all is quiet. Users, faults, clocks and administrators
have none. `WorkflowEditing`, `Datasources` and `Conversation` state safety only.

## 4. What is proved

All theorems hold for every value of the constants that meets the assumptions of
the module that declares them; TLC evaluates the assumptions in each run.

### The workflow engine

For every finite set of nodes, every set of workflows, calls, requests,
definitions and edits that meet `ConstantsAssumption` and
`DefinitionsAssumption`:

| Theorem | Statement |
|---|---|
| `TypesAreCorrect` | `Spec => []TypeOK` |
| `MemoryAgreesWithRows` | `Spec => []EngineInv` |
| `LocksHaveOwners` | `Spec => []NoOrphanLock` |
| `RowsFollowLifecycle` | `Spec => FollowsLifecycle`: every initial state and step of the engine maps to one of `RunLifecycle`, or to a stutter |
| `CompletedRunsAreWhole` | `Spec => []CompletedRunIsWhole` |
| `BranchesDecide` | `Spec => []BranchDecidesSkips` |
| `InputsAreExplained` | `Spec => []MissingInputsExplained` |

The assumptions: node ids are finite, sentinels are no members of the sets they stand beside, requests are
well formed, and the stored and edited definitions are acyclic with edges that
stay inside and at most one per pair of nodes (`saveWorkflow` rejects others,
and the unique index of WorkflowEdge).

**The inductive invariant** is `IInv == TypeOK /\ EngineInv`. `TypeOK` is not
inductive: `CompleteNode` writes the row of `Current(r)`, which is a node only
if the loop position is inside the plan. `CompletedRunIsWhole` is not either:
it says nothing of a run that is about to be completed. `EngineInv` says, at
each await, what the memory of the call and its rows owe each other:

- `DefinitionsApart`: no node id is handed out twice or stored in two workflows.
  Without it a save could delete rows of a run of another workflow.
- `RowsFit`: no row before its insert, no node runs before the batch, no closed
  run before `FinishRun`.
- `MemoryFits`: nothing failed yet when a node executes; the plan has no
  repetition, so that a row updated once is not touched again by the loop.
- `LoopFits`: only the current node is running; a failed row is remembered in
  `hasFailed`; the nodes to come are pending, or gone by cascade.
- `NoneLeftBehind`: each planned node that is still stored has its row, is in
  `nodeRunMap`, and is final once the loop has passed it. `CompletedRunIsWhole`
  follows at `FinishRun` from this with the loop at its end.

`WorkflowEngineProofs` shows that each action preserves it. The writers that
are not calls (save, delete) come first: `DroppedRowsInv` treats both as
dropping rows. A call changes only its own job and rows (`CallFrame`), so
the invariant of the other calls carries over.

**Branches.** `BranchDecidesSkips` speaks of rows alone and is not inductive. `BranchInv`
adds the memory of the loop:

- `GraphsFit`: stored and loaded definitions keep their edges inside.
- `PlanFits`: no node of a plan comes before one that an edge leads from to it.
- `BlockedFits`: an edge is in `blockedEdgeIds` only behind a branch, a skipped node
  or a row that is gone; all edges out of a skipped node are there as long as
  nothing failed, and all edges of the arm a completed branch did not take.
- `OpenFits`: a node that ran had an edge that was not blocked, and that edge
  stays open, although later nodes go on blocking edges.
- `SkipsFit`: the second part of the property, inductive with the others.

That edges stay open is the key fact (`NothingBehind`): the current node has no
edge to a node already decided, because the plan follows the edges. A graph whose
order were not one of `KahnOrders` would break it. That the two arms of a branch
do not both run (`OneArmRuns`) follows from `OpenFits` and the arm in `BlockedFits`.

**Inputs.** `MissingInputsExplained` asks which nodes a plan holds and which outputs
the memory holds when a node starts:

- `PlanCloses`: a full run and a cascade plan each predecessor of what they plan,
  a retry each successor.
- `OutputsFit`: what a run completed is in `nodeOutputs`; a retry has loaded all
  that the retried run completed, and that run is over, so nothing is added to it.
- `RowsStand`: a row points at a node that is stored, since deletions cascade. It is
  what makes a row that is gone stay gone.

It rests on two lemmas about `Dag`: `UpstreamCloses` and `DownstreamCloses` say that
`getUpstreamNodes` and `getDownstreamNodes` return the least set that holds the
node and is closed under predecessors (successors). `Closure` in `Dag` is defined by layers
through a recursive function. The lemmas take a least layer at which a claim fails
(`LeastNumber`), and count: layers that grow strictly outgrow the finite set of
nodes, so they stop growing (`LayersStay`, `LastLayerCloses`).

**The locks.** `LockInv` strengthens `NoOrphanLock` with the fact that a call in
`history` or `noHistory` is not a retry, because only then `StartHistory` may lock. The lock is
released by the `finally` of any call of the workflow, so the proof says of each
remaining id that its owner is another call. The first of two overlapping calls
may take the lock of the second away (the first of the known deviations below),
but no lock is left without a call.

**The refinement** has one step per action: those that touch no row stutter, and
a `SaveWorkflow` or `DeleteWorkflow` is a `Drop`. `EngineInv` gives the guards of the
abstract steps, for example that `nodeRun[r]` is empty at `CreateNodeRuns`.

### The DAG validator

For every list of node rows with distinct ids and of edge rows, which may repeat, form cycles or
name other nodes, in any order (`InputsAssumption`):

| Theorem | Statement |
|---|---|
| `SortsAreKahnOrders` | `SortSpec => []ReturnsKahnOrder` |
| `CyclesAreReported` | `SortSpec => []ReportsCycles` |
| `ErrorsMeanNoOrder` | `SortSpec => [](pc = "cycle" => KahnOrders(Asked, Given.edges) = {})` |
| `EveryStepDescends` | `SortSpec => [][Descends]_sortVars`: an iteration ends a phase, shifts a node or reads a row |

The engine's theorems take their plans from `KahnOrders`. `SortsAreKahnOrders` closes
that gap: the code returns no other. `CyclesAreReported` and `ErrorsMeanNoOrder` say that
`validateDag` lets through just the definitions that have an order, the `IsAcyclic`
which the engine and the editing module assume of what is stored. `WorkflowEngineProofs`
extends both modules, whose graphs are those of `Dag`; that is why the specification
of `DagValidator` is called `SortSpec`.

`ValidatorInv` is the inductive invariant:

- `ValidatorShape` types the variables.
- `WalkFits`: what the walk has visited was asked for, and a node that left the queue
  has its neighbours visited (`Followed`), of the current node those before the cursor.
  With the queue empty the visited nodes are closed, so `UpstreamCloses` and
  `DownstreamCloses` make them all that was asked for.
- `SortFits` speaks of the line `sorted \o queue`. It repeats no node; `inDegree[n]` counts the
  rows into `n` not yet taken, repeated ones too (`Counted`); a node is in the line
  exactly when no row is left (`LineIsReady`), after its predecessors, all of them in
  `sorted` (`LineFollows`); and the line is in the order of the last predecessors
  (`LineInOrder`), the first-in first-out part of `KahnOrders`.
- `ResultFits`: an order is complete, and behind an error stand nodes that each have
  a predecessor among them.

A set without roots has a cycle by `NoRootMeansCycle`: take a node of it from which most
nodes are reached; its predecessor reaches those too, so it reaches no more, and is
itself reached. An order excludes cycles because the nodes from one position on
are closed under edges (`TailIsClosed`), and the same closure puts the target at its end
(`TargetEndsOrder`).

### The schedule engine

For all sets of workflows, schedules, callers and fires, every clock bound and
every set of cron expressions:

| Theorem | Statement |
|---|---|
| `ScheduleTypes` | `Spec => []TypeOK`, with any overlap, fault, deletion and restart |
| `RegistryIsMirror` | `Spec => [](Serial => RegistryMirrorsTable)` |
| `FiresOncePerMinute` | `Spec => [](Steady => NoDoubleFire)` |

`Serial` and `Steady` are conditions on the constants, and each conjunct is
there because the property fails without it. `Serial`: calls overlap neither one
another nor the boot (see the known deviations), and the statement that deletes a schedule does
not throw (its entry is already out of the registry). Restarts, all other
faults, and workflow deletions are allowed. `Steady`: serial calls again, no
update and no restart, since both set `lastFiredMinute` back to 0; no
workflow deletion, and no run that rejects, since a rejection before its
handler is attached ends the process. Creations, deletions of schedules and
failing statements are allowed.

- `Shape` adds to `TypeOK` what a call and a fire carry at each await
  (`CallFits`, `FireFits`): `TypeOK` alone lets a call update the row of no
  schedule.
- `RegistryInv` is inductive for the mirror. At most one call is under way
  (`Alone`); what the boot has listed is still what the rows say (`BootFits`);
  and entry and row of a schedule differ only while the one call that is between
  its write and its registration is `Pending` on that schedule (`RegistryFits`). A call at
  rest is pending on nothing, so the mirror holds whenever it is quiet. A
  workflow deletion can come between any two of these steps: `IsCurrent` lets a
  configuration outlive its row only when its workflow is gone.
- `FireInv` is inductive for the single fire. `LastFiredFits`: a schedule that
  fired in this minute and is registered remembers it, so `IsDue` is false.
  The one step that forgets is a registration, and under `Steady` only a creation
  registers: `UnbornIsNew` and `CreatedIsNew` say that a schedule which has just
  been created has not fired.

### Workflow editing

For every set of agents, edits and ids, and any bounds on saves, changes and
loads that meet `EditingAssumption`:

| Theorem | Statement |
|---|---|
| `TypeCorrect` | `Spec => []TypeOK` |
| `RowsStayAGraph` | `Spec => []StoredIsDefinition` |
| `IdsStayGone` | `Spec => IdsNeverReturn`, an action property |
| `EditorFollows` | `Spec => []EditorCatchesUp` |
| `OverlapsAlone` | `Spec => OnlyOverlapsLoseEdits`, an action property |

- `Shape` gives each copy, load and save its type: what any of them holds is a
  definition, and what is stored has ids that were handed out. `Commit` validates
  the copy before it renames it. That the rows are acyclic too is `RenamedOrder`: an
  order of a graph, renamed by a bijection, is an order of the renamed graph. `Renamings` is
  one, since a new id is never one that was handed out, and `IdsStayGone` rests on
  the same fact.
- `Follows` is inductive for the editor. Its answers come in any order, but only
  the latest load counts and a load and a save never overlap; if what it shows is
  not stored, a notice, the latest load or the answer to its save is on its way.
- `CallFits` is inductive for the losses: a copy that an agent is about to save,
  if nobody saved since it was read, is one node, edge or edit behind the rows (`OneLoss`).
  Another agent's save moves `version` on, and so claims nothing of the copies it
  leaves behind: these are the overlaps.

### What the page sees of a run

For all workflows, nodes, plans and visits that meet `ProgressAssumption`:

| Theorem | Statement |
|---|---|
| `TypeCorrect` | `Spec => []TypeOK` |
| `DetailsAreTrue` | `Spec => []DetailIsTrue` |
| `PictureFollows` | `Spec => []PictureIsRows` |

- `Shape`, `Staged` and `Linked` say what rows, request, engine and socket of a run owe
  each other. `TypeOK` contains that the run the page listens to has a living socket, which
  is not inductive without `Linked`.
- `DetailIsTrue`: `Awaited` says that a `run_complete` on a wire and a request for a
  detail are of a run that is over. `RunLifecycle` lets nothing happen to such a run.
- `PictureIsRows`: `Followed` says that the last event on the wire for a node, or else the
  picture, is the status in its row (`Says`), and that no other run of the page sends events
  it hears. Taking an event off the wire and appending one keep `Says`; a run whose
  events are over stays silent (`StaysSilent`). A node that a load emptied or a run of the
  copilot changed is `foreign` until the next event about it is taken off the wire.

### The copilot panel

For every set of messages and any number of sockets, visits and rounds that meet
`ChatAssumption` (messages are none of the control frames):

| Theorem | Statement |
|---|---|
| `TypeCorrect` | `Spec => []TypeOK` |
| `AgentsStop` | `Spec => []StopIsHeard` |
| `RefusalsExplained` | `Spec => []RefusedExplained` |
| `ThinkingHasReasons` | `Spec => []ThinkingExplained` |

- `Shape` counts: each reconnect under way is owed to a socket that closed, so the
  timers cannot outnumber the sockets.
- `Hearing`: an agent that called the model after it was told is still in that call, or in
  the compression that follows it, and what comes next will find it aborted.
- `OneTurn` is inductive for the refusals: while the panel lost no turn (`loose`), a
  socket has one message at most, on its way up, with the agent, or answered on its
  way down. So an agent that gets a message is idle.
- `Traced` and `OnItsWay` are inductive for the thinking: the fate of a message says on which
  socket it is, and what the panel thinks about is either lost or found there. Once all is quiet,
  only the lost message and the stuck agent remain. `Traced` needs that no two sockets
  carry one message, hence `Distinct`.

### The main chat

For any number of messages, sockets, attempts and rounds that meet `SessionAssumption`:

| Theorem | Statement |
|---|---|
| `TypeCorrect` | `Spec => []TypeOK` |
| `AnswersStayApart` | `Spec => []TextsStayApart` |
| `AbortsAreForTheTurn` | `Spec => []OnlyStoppedTurnsAbort` |
| `StopsReachTheTurn` | `Spec => []StopsAreHeard` |

`Shape` is inductive for the types: a task that is to have another round has one
left. The other three have one inductive invariant, `Inv`, because each needs parts of
the others. It says of every socket `Placed` (only the page's socket is alive, and there
is nothing where there cannot be) and `Aborts`, and of the open one:

- `Once`: a message is on its way, kept, queued or with the task, in one place and
  once, and none is newer than the last one sent.
- `Ordered`: a stop on its way is for a message that was stopped, the newest of those
  before it. So `aborted` is set for the message in the loop or for one
  after it, and the reset at the start of a turn takes away what is left of an earlier one.
- `Explained`: what is still to be answered, or has a text on its way down, is the message the
  page waits for or one that was stopped or given up. With `Shown` (the answer shown
  is to the last message or to one given up), a text meets its own answer; with `Ordered`,
  a stop meets its own turn, or one that was given up.
- `Closing`: `stop`, `config_missing` or `error` is the last word on a message, so what
  ends the waiting for a message leaves no text of it behind.
- `Heard`: a stop that counts is on its way, in the buffer, or in effect.

The lemmas on queues (`TailIn`, `AppendIn`, `JoinIn` and the like) say where a frame is after
one is taken or some are added. One lemma per kind of step (`TaskStep`, `StartStep`,
`SetupStep`, `HearMessage`, `HearStop`, `SendStep`, `StopStep`, `PageStep`) keeps `Turns`
from the shape of the step alone; the actions are instances of them. A socket that
is lost, replaced or never opened has nothing to say about `Turns`, and a process that
ends leaves no open one.

That the invariant fails without `misled` is how the frame of an earlier turn was
found (see the known deviations).

### Tokens

For any number of tabs, work requests, acts and lost answers:

| Theorem | Statement |
|---|---|
| `TypeCorrect` | `Spec => []TypeOK` |
| `CookieStaysUsable` | `Spec => []CookieWorks` |
| `StoreIsWhole` | `Spec => []AuthIsWhole` |

- `Shape` has what each request may be (`Fits`): who asks for what, and with which token.
- `CookieInv`: `CookieFollows` says that a cookie which is neither stored nor revoked on
  purpose was deleted for a request that is still under way (`Ended`), or for one that got no
  answer (`unheard`). For that to stay true when an answer is heard, its token must be stored
  and nobody else may rotate it before (`AnswersAreFresh`): no other request carries it. And no
  request may be forgotten for another one (`OneAtAPage`): a user logs in when the
  refresh of ChangePasswordPage is over, and the router asks once at a time.
- `AuthInv`: a tab with a token and without a user has asked for the profile.

### Datasources

For any number of calls, queries, rows, names, schemas, passwords and restarts:

| Theorem | Statement |
|---|---|
| `ConnectionsGivenBack` | `Spec => []NothingKept` |
| `QueriesGoOn` | `Spec => []QueriesSurvive` |
| `DictionariesFollow` | `Spec => []DictionariesFit` |

- `Held`: who has a temporary connection is inside the `try` or in its `finally`.
- `Tested` and `Served`: only passwords that a test let through are stored or cached, so none
  is newer than the database's. A query at its second attempt has a pool, unless the
  bridge restarted under it or the password changed.
- `DatasourceInv`: rows come under new ids and free names; under a name that nothing
  crossed, at most one call works, and it finds its row and the directory as it left
  them (`Placed`, `AllFind`). `DictionariesFit` is then one of its own conjuncts: each
  statement keeps it for the names the others do not touch. `ExcusesLast` says that a row
  whose removal has begun stays excused until it is gone: the call is still at that
  statement, or stopped there and the row is in `stripped`.

### Only model-checked

- Liveness (`LocksAreReleased`, `RunsSettle`, `Returns`, `RunningStatusSettles`,
  `WaitingIsSent`, `ExecutingEnds`, `LoadingEnds`, `RequestsEnd`), which is out of
  reach of the prover.
  For `Returns`, `EveryStepDescends` proves what liveness rests on: a call cannot
  take steps for ever. That a call not yet done has a step is what the run checks.
- `Conversation`, whose only run ends in a violation.

## 5. What is not modelled

- Of the engine: timings, the text of errors, the run's work folder. Of the rows:
  paging, lists, renames and clones. `wf_replace_node`, import and export.
- The atomicity of `saveWorkflow` is taken from its transaction; PostgreSQL's
  isolation between two transactions is not modelled below statement level.
- Of the schedule engine: graceful shutdown and the expansion of date variables.
  The fault of the deletion statement is left out of `sched_sync`: with it a
  schedule that could not be deleted is not registered until the next start.
- `RunsSettle` excuses the calls that a thrown statement or a restart ended: the
  code leaves their row `running` and repairs nothing.
- Of the chats: frames that only add to what is displayed (tool calls, cards, usage,
  to-dos), titles, the layout session of the copilot, and the debug agent, which
  runs the loop of `CopilotChat` on a node that is not stored.
- Of authentication: `loginRateLimiter.ts`, the password policy, the first
  administrator, audit events. They decide whether an attempt fails, which it may
  in the model.
- Of datasources: type mapping, JDBC URLs, formatting of results, the audit trail.
  `disconnectAll` has no caller.
- Node executors, model vendors, the mail server and the Python sandbox are external.
- Layout, cleanup, templates of nodes, the recorder, CRUD modules and the pages: no
  state that two parts share. Prompts, catalogues of cards, locales and components
  are most of the repository's lines and have no behaviour to check. Of the
  knowledge base, only two hazards are named.

## 6. What comes next

Models to add: folder moves of the knowledge base, the login rate limiter, and the
debug agent beside the copilot.
