--------------------------- MODULE WorkflowEngine ---------------------------
(****************************************************************************)
(* backend/src/workflow/executionEngine.ts together with the rows it reads  *)
(* and writes (workflow.repository.ts) and with the edits and deletions of  *)
(* workflow.service.ts that can land between two of its statements.         *)
(*                                                                          *)
(* The backend is one Node.js process.  An action is one database statement *)
(* (or one executor call) followed by the synchronous code up to the next   *)
(* await: between two actions of one call any other call may run.           *)
(*                                                                          *)
(* A member r of Run stands both for one call of executeWorkflow,           *)
(* executeNode or retryFromFailed and for the WorkflowRun row the call      *)
(* inserts: a call inserts one row at most.  job[r] is the memory of the    *)
(* call; run[r] and nodeRun[r] are its rows.  The fields of a settled job   *)
(* are not reset: nothing reads them but the properties.                    *)
(****************************************************************************)
EXTENDS Dag

CONSTANTS
    Workflow,     \* workflow ids
    Node,         \* WorkflowNode ids, never reused
    Branch,       \* the nodes of type 'branch'
    Run,          \* calls of the engine, and the WorkflowRun rows they insert
    NoWorkflow,   \* the workflow of a row that is not there
    NoRun,        \* the retried run of a request that retries none
    Deleted,      \* the value of a deleted workflow
    Refs,         \* Refs[n]: the nodes whose output n's templates name
    ParamRefs,    \* the nodes whose templates name {{params.x}}
    Requests,     \* the requests the callers may make
    Initial,      \* Initial[w]: the definition of w at the start
    Edits,        \* Edits[w]: the definitions an editor may save for w
    Faults,       \* TRUE: a database statement may throw
    Crashes       \* TRUE: the process may be restarted

Kinds == {"workflow", "cascade", "history", "mock", "retry"}

\* A request.  node is the target of executeNode, mocks the nodes whose
\* output its mockInputs stand for, of the run retryFromFailed names.
Request == [kind : Kinds, wf : Workflow, node : Node, mocks : SUBSET Node,
            of : Run \cup {NoRun}]

Edge       == [src : Node, dst : Node, handle : Handles]
Definition == [nodes : SUBSET Node, edges : SUBSET Edge]

ASSUME ConstantsAssumption ==
    /\ IsFiniteSet(Node)
    /\ NoWorkflow \notin Workflow /\ NoRun \notin Run
    /\ Deleted \notin Definition
    /\ Branch \subseteq Node /\ ParamRefs \subseteq Node
    /\ Refs \in [Node -> SUBSET Node]
    /\ Requests \subseteq Request
    /\ \A q \in Requests : q.kind = "retry" => q.of \in Run
    /\ Initial \in [Workflow -> Definition]
    /\ Edits \in [Workflow -> SUBSET Definition]
    /\ Faults \in BOOLEAN /\ Crashes \in BOOLEAN

\* Definitions are validated by saveWorkflow; a node id belongs to one workflow.
ASSUME DefinitionsAssumption ==
    /\ \A w \in Workflow : \A d \in {Initial[w]} \cup Edits[w] : IsDefinition(d)
    /\ \A v, w \in Workflow : v # w => Initial[v].nodes \cap Initial[w].nodes = {}

VARIABLES
    workflow,          \* workflow[w]: the stored definition, or Deleted
    born,              \* the node ids handed out so far
    activeExecutions,  \* the in-memory lock set, by workflow id
    request,           \* request[r]: what the caller of r asks
    run,               \* run[r]: the WorkflowRun row
    nodeRun,           \* nodeRun[r][n]: the status of the WorkflowNodeRun row
    job                \* job[r]: the memory of the call

rows == <<run, nodeRun>>
defs == <<workflow, born>>
vars == <<workflow, born, activeExecutions, request, run, nodeRun, job>>

RunStatus     == {"none", "running", "completed", "failed"}
NodeRunStatus == {"none", "pending", "running", "completed", "failed", "skipped"}

\* Where a call is: the await it is suspended at, or how it ended: refused by
\* the engine, done, left by a statement that threw, or gone with the process.
Starting  == {"load", "readRun", "create", "history", "noHistory"}
Executing == {"prepare", "fetch", "loop", "exec", "report"}
Settled   == {"rejected", "resolved", "died", "lost"}
Places    == {"idle"} \cup Starting \cup Executing \cup Settled

Job == [pc      : Places,
        def     : Definition,    \* the workflow as the call loaded it
        plan    : Seq(Node),     \* sortedNodeIds
        idx     : Nat,           \* how many nodes of plan the loop has left behind
        mapped  : SUBSET Node,   \* the keys of nodeRunMap
        outs    : SUBSET Node,   \* the keys of nodeOutputs, params apart
        failed  : BOOLEAN,
        blocked : SUBSET Edge]   \* blockedEdgeIds

NoDefinition == [nodes |-> {}, edges |-> {}]
NewJob == [pc |-> "idle", def |-> NoDefinition, plan |-> <<>>, idx |-> 0,
           mapped |-> {}, outs |-> {}, failed |-> FALSE, blocked |-> {}]

NoRow == [status |-> "none", wf |-> NoWorkflow]

Init ==
    /\ workflow = Initial
    /\ born = UNION {Initial[w].nodes : w \in Workflow}
    /\ activeExecutions = {}
    /\ request \in [Run -> Requests]
    /\ run = [r \in Run |-> NoRow]
    /\ nodeRun = [r \in Run |-> [n \in Node |-> "none"]]
    /\ job = [r \in Run |-> NewJob]

----------------------------------------------------------------------------
(* Vocabulary. *)

At(r, pc) == job[r].pc = pc
Kind(r)   == request[r].kind
Wf(r)     == request[r].wf
Target(r) == request[r].node

IsExecuting(r) == job[r].pc \in Executing
IsLive(r)      == job[r].pc \in Starting \cup Executing

\* executeWorkflow and executeNode look at activeExecutions before they load
\* anything, add to it before executeNodes and delete in its finally;
\* retryFromFailed does none of this.
UsesLock(r) == Kind(r) # "retry"

RunStored(r)     == run[r].status # "none"
NodeRunStored(r, n) == nodeRun[r][n] # "none"
NodeStored(n)    == \E w \in Workflow : workflow[w] # Deleted /\ n \in workflow[w].nodes
WorkflowStored(w) == workflow[w] # Deleted

Planned(r)  == {job[r].plan[i] : i \in DOMAIN job[r].plan}
Current(r)  == job[r].plan[job[r].idx + 1]
Past(r)     == job[r].idx + 1
AtEnd(r)    == job[r].idx >= Len(job[r].plan)

Goto(r, pc)       == job' = [job EXCEPT ![r].pc = pc]
SetNodeRun(r, n, status) == nodeRun' = [nodeRun EXCEPT ![r][n] = status]

\* All in-edges of n are blocked, and there is one.
IsBlocked(r, n) ==
    /\ InEdges(job[r].def, n) # {}
    /\ InEdges(job[r].def, n) \subseteq job[r].blocked

\* Every template of n resolves.  A caller gives all the parameters the
\* workflow declares; a retry passes none on.
Resolves(r, n) ==
    /\ Refs[n] \subseteq job[r].outs
    /\ n \in ParamRefs => Kind(r) # "retry"

\* The out-edges of the branch the result did not take.
Inactive(r, n, result) ==
    {e \in OutEdges(job[r].def, n) :
        n \in Branch /\ e.handle = IF result THEN "false" ELSE "true"}

\* The finally of executeNodes: the id leaves the set, whoever put it there.
Unlock(r) ==
    activeExecutions' = IF UsesLock(r) THEN activeExecutions \ {Wf(r)}
                        ELSE activeExecutions

----------------------------------------------------------------------------
(* Starting a run. *)

\* The check at the top of executeWorkflow and executeNode fails.
Refuse(r) ==
    /\ At(r, "idle")
    /\ UsesLock(r) /\ Wf(r) \in activeExecutions
    /\ Goto(r, "rejected")
    /\ UNCHANGED <<defs, activeExecutions, request, rows>>

Admit(r) ==
    /\ At(r, "idle")
    /\ UsesLock(r) => Wf(r) \notin activeExecutions
    /\ Goto(r, "load")
    /\ UNCHANGED <<defs, activeExecutions, request, rows>>

\* findWorkflowById returns null.
WorkflowNotFound(r) ==
    /\ At(r, "load") /\ ~WorkflowStored(Wf(r))
    /\ Goto(r, "rejected")
    /\ UNCHANGED <<defs, activeExecutions, request, rows>>

\* findWorkflowById returns the definition all the rest of the run works from.
LoadWorkflow(r) ==
    /\ At(r, "load") /\ WorkflowStored(Wf(r))
    /\ job' = [job EXCEPT ![r] = [@ EXCEPT !.def = workflow[Wf(r)],
                          !.pc = IF Kind(r) = "retry" THEN "readRun" ELSE "create"]]
    /\ UNCHANGED <<defs, activeExecutions, request, rows>>

\* createRun: the foreign key needs the workflow row.
InsertRun(r) ==
    /\ At(r, "create") /\ WorkflowStored(Wf(r))
    /\ run' = [run EXCEPT ![r] = [status |-> "running", wf |-> Wf(r)]]

InsertRunFails(r) ==
    /\ At(r, "create") /\ ~WorkflowStored(Wf(r))
    /\ Goto(r, "died")
    /\ UNCHANGED <<defs, activeExecutions, request, rows>>

\* activeExecutions.add, then the call of executeNodes up to its first await.
Lock(r) == activeExecutions' = activeExecutions \cup {Wf(r)}

Launch(r, plan, outs) ==
    job' = [job EXCEPT ![r] = [@ EXCEPT !.pc = "prepare", !.idx = 0,
                       !.plan = plan, !.outs = outs]]

StartWorkflow(r) ==
    /\ Kind(r) = "workflow"
    /\ InsertRun(r)
    /\ \E plan \in KahnOrders(job[r].def.nodes, job[r].def.edges) : Launch(r, plan, {})
    /\ Lock(r)
    /\ UNCHANGED <<defs, request, nodeRun>>

\* executeNode with mockInputs.
StartMock(r) ==
    /\ Kind(r) = "mock"
    /\ InsertRun(r)
    /\ Launch(r, <<Target(r)>>, request[r].mocks)
    /\ Lock(r)
    /\ UNCHANGED <<defs, request, nodeRun>>

\* executeNode with cascade.
StartCascade(r) ==
    /\ Kind(r) = "cascade"
    /\ InsertRun(r)
    /\ \E plan \in KahnOrders(Upstream(job[r].def, Target(r)), job[r].def.edges) :
          Launch(r, plan, {})
    /\ Lock(r)
    /\ UNCHANGED <<defs, request, nodeRun>>

\* executeNode by default: look up the outputs of the upstream nodes first.
BeginHistory(r) ==
    /\ Kind(r) = "history"
    /\ InsertRun(r)
    /\ \E plan \in KahnOrders(Upstream(job[r].def, Target(r)) \ {Target(r)},
                              job[r].def.edges) :
          job' = [job EXCEPT ![r] = [@ EXCEPT !.pc = "history", !.plan = plan]]
    /\ UNCHANGED <<defs, activeExecutions, request, nodeRun>>

\* findLatestSuccessfulNodeRunOutput finds a completed row of the node, of
\* any run; which one is latest does not matter to the properties.
FindOutput(r) ==
    /\ At(r, "history") /\ ~AtEnd(r)
    /\ \E s \in Run : nodeRun[s][Current(r)] = "completed"
    /\ job' = [job EXCEPT ![r] = [@ EXCEPT !.outs = job[r].outs \cup {Current(r)}, !.idx = Past(r)]]
    /\ UNCHANGED <<defs, activeExecutions, request, rows>>

MissOutput(r) ==
    /\ At(r, "history") /\ ~AtEnd(r)
    /\ \A s \in Run : nodeRun[s][Current(r)] # "completed"
    /\ Goto(r, "noHistory")
    /\ UNCHANGED <<defs, activeExecutions, request, rows>>

\* Mutant: the throw comes first and the run keeps its status.
RejectHistorySilently(r) ==
    /\ At(r, "noHistory")
    /\ Goto(r, "rejected")
    /\ UNCHANGED <<defs, activeExecutions, request, rows>>

\* updateRunStatus(failed), then the throw.  The update throws when the row
\* is gone.
RejectHistory(r) ==
    /\ At(r, "noHistory")
    /\ run' = IF RunStored(r) THEN [run EXCEPT ![r].status = "failed"] ELSE run
    /\ Goto(r, "rejected")
    /\ UNCHANGED <<defs, activeExecutions, request, nodeRun>>

StartHistory(r) ==
    /\ At(r, "history") /\ AtEnd(r)
    /\ Launch(r, <<Target(r)>>, job[r].outs)
    /\ Lock(r)
    /\ UNCHANGED <<defs, request, rows>>

----------------------------------------------------------------------------
(* Retrying: retryFromFailed reads the run it retries, then inserts its own. *)

Retried(r) == request[r].of

FailedNodes(s)    == {n \in Node : nodeRun[s][n] = "failed"}
CompletedNodes(s) == {n \in Node : nodeRun[s][n] = "completed"}

\* findRunById finds a failed run of the workflow with a failed node.
IsRetryable(r) ==
    /\ run[Retried(r)].status = "failed"
    /\ run[Retried(r)].wf = Wf(r)
    /\ FailedNodes(Retried(r)) # {}

RefuseRetry(r) ==
    /\ At(r, "readRun") /\ ~IsRetryable(r)
    /\ Goto(r, "rejected")
    /\ UNCHANGED <<defs, activeExecutions, request, rows>>

\* Mutant: the completed outputs are not handed on.
RetryWithoutOutputs(r) ==
    /\ At(r, "readRun") /\ IsRetryable(r)
    /\ \E n \in FailedNodes(Retried(r)) :
       \E plan \in KahnOrders(Downstream(job[r].def, n), job[r].def.edges) :
          job' = [job EXCEPT ![r] = [@ EXCEPT !.pc = "create", !.plan = plan]]
    /\ UNCHANGED <<defs, activeExecutions, request, rows>>

\* The plan is the failed node and its dependents in the definition of now;
\* the outputs are those the retried run itself completed.
ReadFailedRun(r) ==
    /\ At(r, "readRun") /\ IsRetryable(r)
    /\ \E n \in FailedNodes(Retried(r)) :
       \E plan \in KahnOrders(Downstream(job[r].def, n), job[r].def.edges) :
          job' = [job EXCEPT ![r] = [@ EXCEPT !.pc = "create", !.plan = plan,
                             !.outs = CompletedNodes(Retried(r)) \cap job[r].def.nodes]]
    /\ UNCHANGED <<defs, activeExecutions, request, rows>>

\* getRunWorkFolder and createRun: both need rows that are gone together.
StartRetry(r) ==
    /\ Kind(r) = "retry"
    /\ InsertRun(r)
    /\ Launch(r, job[r].plan, job[r].outs)
    /\ UNCHANGED <<defs, activeExecutions, request, nodeRun>>

----------------------------------------------------------------------------
(* executeNodes. *)

\* waitForProgressCallback, then the createMany of createNodeRunsBatch.
CreateNodeRuns(r) ==
    /\ At(r, "prepare")
    /\ \A n \in Planned(r) : NodeStored(n) /\ RunStored(r)
    /\ nodeRun' = [nodeRun EXCEPT ![r] =
                      [n \in Node |-> IF n \in Planned(r) THEN "pending" ELSE @[n]]]
    /\ Goto(r, "fetch")
    /\ UNCHANGED <<defs, activeExecutions, request, run>>

\* The findMany of createNodeRunsBatch fills nodeRunMap.
FetchNodeRuns(r) ==
    /\ At(r, "fetch")
    /\ job' = [job EXCEPT ![r] = [@ EXCEPT !.pc = "loop",
                          !.mapped = {n \in Planned(r) : NodeRunStored(r, n)}]]
    /\ UNCHANGED <<defs, activeExecutions, request, rows>>

\* if (!node || !nodeRunId) continue
PassOver(r) ==
    /\ At(r, "loop") /\ ~AtEnd(r)
    /\ Current(r) \notin job[r].def.nodes \cap job[r].mapped
    /\ job' = [job EXCEPT ![r].idx = Past(r)]
    /\ UNCHANGED <<defs, activeExecutions, request, rows>>

\* The node is one of the workflow and its row can be updated.
AtNode(r) ==
    /\ At(r, "loop") /\ ~AtEnd(r)
    /\ Current(r) \in job[r].def.nodes \cap job[r].mapped
    /\ NodeRunStored(r, Current(r))

\* Mutant: the out-edges of a skipped node stay open.
SkipBlockedAlone(r) ==
    /\ AtNode(r) /\ IsBlocked(r, Current(r))
    /\ SetNodeRun(r, Current(r), "skipped")
    /\ job' = [job EXCEPT ![r].idx = Past(r)]
    /\ UNCHANGED <<defs, activeExecutions, request, run>>

SkipBlocked(r) ==
    /\ AtNode(r) /\ IsBlocked(r, Current(r))
    /\ SetNodeRun(r, Current(r), "skipped")
    /\ job' = [job EXCEPT ![r] = [@ EXCEPT !.idx = Past(r),
                          !.blocked = job[r].blocked \cup OutEdges(job[r].def, Current(r))]]
    /\ UNCHANGED <<defs, activeExecutions, request, run>>

SkipAfterFailure(r) ==
    /\ AtNode(r) /\ ~IsBlocked(r, Current(r))
    /\ job[r].failed
    /\ SetNodeRun(r, Current(r), "skipped")
    /\ job' = [job EXCEPT ![r].idx = Past(r)]
    /\ UNCHANGED <<defs, activeExecutions, request, run>>

\* Mutant: the loop does not look at hasFailed.
StartNodeAfterFailure(r) ==
    /\ AtNode(r) /\ ~IsBlocked(r, Current(r))
    /\ SetNodeRun(r, Current(r), "running")
    /\ Goto(r, "exec")
    /\ UNCHANGED <<defs, activeExecutions, request, run>>

StartNode(r) ==
    /\ AtNode(r) /\ ~IsBlocked(r, Current(r))
    /\ ~job[r].failed
    /\ SetNodeRun(r, Current(r), "running")
    /\ Goto(r, "exec")
    /\ UNCHANGED <<defs, activeExecutions, request, run>>

\* The executor returned: the output is kept and a branch blocks the edges
\* it does not take before the row is updated.
WithOutput(r, n, result) ==
    [job[r] EXCEPT !.outs = @ \cup {n}, !.blocked = @ \cup Inactive(r, n, result)]

CompleteNode(r) ==
    /\ At(r, "exec") /\ NodeRunStored(r, Current(r))
    /\ Resolves(r, Current(r))
    /\ SetNodeRun(r, Current(r), "completed")
    /\ \E result \in BOOLEAN :
          job' = [job EXCEPT ![r] = [WithOutput(r, Current(r), result) EXCEPT
                                        !.pc = "loop", !.idx = Past(r)]]
    /\ UNCHANGED <<defs, activeExecutions, request, run>>

\* Mutant: the catch does not set hasFailed.
FailNodeUnnoticed(r) ==
    /\ At(r, "exec") /\ NodeRunStored(r, Current(r))
    /\ SetNodeRun(r, Current(r), "failed")
    /\ job' = [job EXCEPT ![r] = [@ EXCEPT !.pc = "loop", !.idx = Past(r)]]
    /\ UNCHANGED <<defs, activeExecutions, request, run>>

\* A template does not resolve, or the executor throws.
FailNode(r) ==
    /\ At(r, "exec") /\ NodeRunStored(r, Current(r))
    /\ SetNodeRun(r, Current(r), "failed")
    /\ job' = [job EXCEPT ![r] = [@ EXCEPT !.pc = "loop", !.idx = Past(r), !.failed = TRUE]]
    /\ UNCHANGED <<defs, activeExecutions, request, run>>

\* The update to completed throws and the one to failed, in the catch, does not.
FailToStore(r) ==
    /\ Faults
    /\ At(r, "exec") /\ NodeRunStored(r, Current(r))
    /\ Resolves(r, Current(r))
    /\ SetNodeRun(r, Current(r), "failed")
    /\ \E result \in BOOLEAN :
          job' = [job EXCEPT ![r] = [WithOutput(r, Current(r), result) EXCEPT
                                        !.pc = "loop", !.idx = Past(r), !.failed = TRUE]]
    /\ UNCHANGED <<defs, activeExecutions, request, run>>

\* updateRunStatus and the run_complete event.
FinishRun(r) ==
    /\ At(r, "loop") /\ AtEnd(r) /\ RunStored(r)
    /\ run' = [run EXCEPT ![r].status = IF job[r].failed THEN "failed" ELSE "completed"]
    /\ Goto(r, "report")
    /\ UNCHANGED <<defs, activeExecutions, request, nodeRun>>

\* findRunById; the promise settles and its finally releases the lock.
Report(r) ==
    /\ At(r, "report")
    /\ Goto(r, IF RunStored(r) THEN "resolved" ELSE "died")
    /\ Unlock(r)
    /\ UNCHANGED <<defs, request, rows>>

----------------------------------------------------------------------------
(* What ends a call early. *)

\* The statement the call is suspended at has lost its row: a save deleted
\* the node, or the workflow was deleted, and the rows went by cascade.
RowIsGone(r) ==
    \/ At(r, "prepare") /\ \E n \in Planned(r) : ~NodeStored(n) \/ ~RunStored(r)
    \/ /\ At(r, "loop") /\ ~AtEnd(r)
       /\ Current(r) \in job[r].def.nodes \cap job[r].mapped
       /\ ~NodeRunStored(r, Current(r))
    \/ At(r, "exec") /\ ~NodeRunStored(r, Current(r))
    \/ At(r, "loop") /\ AtEnd(r) /\ ~RunStored(r)

\* Mutant: the lock is released on success only, with no finally.
DieKeepingLock(r) ==
    /\ Goto(r, "died")
    /\ UNCHANGED <<defs, activeExecutions, request, rows>>

\* executeNodes rejects: only its finally runs, the run row keeps its status.
Die(r) ==
    /\ Goto(r, "died")
    /\ Unlock(r)
    /\ UNCHANGED <<defs, request, rows>>

Abort(r) == RowIsGone(r) /\ Die(r)
Fault(r) == Faults /\ IsExecuting(r) /\ Die(r)

\* A statement throws before executeNodes is called: the caller gets the error.
FaultAtStart(r) ==
    /\ Faults /\ job[r].pc \in Starting
    /\ Goto(r, "died")
    /\ UNCHANGED <<defs, activeExecutions, request, rows>>

----------------------------------------------------------------------------
(* The other writers. *)

\* The saveWorkflow transaction: nodes that are not in the input go, and
\* their node runs with them; a node without a stored id gets a new one.
SaveWorkflow(w, d) ==
    /\ WorkflowStored(w)
    /\ d # workflow[w]
    /\ (d.nodes \ workflow[w].nodes) \cap born = {}
    /\ workflow' = [workflow EXCEPT ![w] = d]
    /\ born' = born \cup d.nodes
    /\ nodeRun' = [r \in Run |-> [n \in Node |->
                      IF n \in workflow[w].nodes \ d.nodes THEN "none" ELSE nodeRun[r][n]]]
    /\ UNCHANGED <<activeExecutions, request, run, job>>

\* deleteWorkflow: nodes, runs and node runs go by cascade.
DeleteWorkflow(w) ==
    /\ WorkflowStored(w)
    /\ workflow' = [workflow EXCEPT ![w] = Deleted]
    /\ run' = [r \in Run |-> IF run[r].wf = w THEN NoRow ELSE run[r]]
    /\ nodeRun' = [r \in Run |-> [n \in Node |->
                      IF run[r].wf = w \/ n \in workflow[w].nodes
                      THEN "none" ELSE nodeRun[r][n]]]
    /\ UNCHANGED <<born, activeExecutions, request, job>>

\* The process stops and starts again: index.ts repairs nothing.
Restart ==
    /\ Crashes
    /\ \E r \in Run : IsLive(r)
    /\ activeExecutions' = {}
    /\ job' = [r \in Run |-> IF IsLive(r) THEN [job[r] EXCEPT !.pc = "lost"] ELSE job[r]]
    /\ UNCHANGED <<defs, request, rows>>

----------------------------------------------------------------------------

Start(r) ==
    \/ StartWorkflow(r) \/ StartMock(r) \/ StartCascade(r)
    \/ BeginHistory(r) \/ FindOutput(r) \/ MissOutput(r) \/ RejectHistory(r)
    \/ StartHistory(r)
    \/ RefuseRetry(r) \/ ReadFailedRun(r) \/ StartRetry(r)
    \/ WorkflowNotFound(r) \/ LoadWorkflow(r) \/ InsertRunFails(r)

Execute(r) ==
    \/ CreateNodeRuns(r) \/ FetchNodeRuns(r)
    \/ PassOver(r) \/ SkipBlocked(r) \/ SkipAfterFailure(r)
    \/ StartNode(r) \/ CompleteNode(r) \/ FailNode(r) \/ FailToStore(r)
    \/ FinishRun(r) \/ Report(r) \/ Abort(r)

\* The steps of a call the runtime owes it: its awaits are answered.
Advance(r) == Start(r) \/ Execute(r)

Call(r)  == Refuse(r) \/ Admit(r)
Break(r) == Fault(r) \/ FaultAtStart(r)

Edit(w) == DeleteWorkflow(w) \/ \E d \in Edits[w] : SaveWorkflow(w, d)

Next ==
    \/ \E r \in Run : Call(r) \/ Advance(r) \/ Break(r)
    \/ \E w \in Workflow : Edit(w)
    \/ Restart

Spec == Init /\ [][Next]_vars

\* The event loop serves every call: a statement is answered or throws, an
\* executor returns or throws (each has a timeout or a driver that has one).
Fairness == \A r \in Run : WF_vars(Advance(r))

FairSpec == Spec /\ Fairness

----------------------------------------------------------------------------
(* Properties. *)

\* Every variable has its type.  A lock, a row or a job outside of it would
\* mean that a handler wrote to the wrong place.
TypeOK ==
    /\ workflow \in [Workflow -> Definition \cup {Deleted}]
    /\ born \subseteq Node
    /\ activeExecutions \subseteq Workflow
    /\ request \in [Run -> Requests]
    /\ run \in [Run -> [status : RunStatus, wf : Workflow \cup {NoWorkflow}]]
    /\ nodeRun \in [Run -> [Node -> NodeRunStatus]]
    /\ job \in [Run -> Job]

\* A workflow in activeExecutions has a call in executeNodes whose finally
\* will release it: no error path, edit, deletion or fault leaves the
\* workflow locked for good.
NoOrphanLock ==
    \A w \in activeExecutions :
        \E r \in Run : IsExecuting(r) /\ UsesLock(r) /\ Wf(r) = w

\* Branches decide what runs, also through chains of skipped nodes, joins, and
\* a branch whose own row could not be stored: a node behind skipped nodes
\* only does not run; of two nodes that only the two arms of a branch lead
\* to, one runs at most; and without a failure a node is skipped only if all
\* its in-edges come from branches and skipped nodes (or from a node that an
\* edit deleted since, with its row).
Ran(r, n) == nodeRun[r][n] \in {"running", "completed", "failed"}

ArmOf(r, n, m, handle) ==
    \E f \in job[r].def.edges :
        f.src = m /\ f.handle = handle /\ InEdges(job[r].def, n) = {f}

BranchDecidesSkips ==
    \A r \in Run, n \in Node :
        /\ Ran(r, n) /\ InEdges(job[r].def, n) # {} =>
              \E f \in InEdges(job[r].def, n) : nodeRun[r][f.src] # "skipped"
        /\ nodeRun[r][n] = "skipped" /\ ~job[r].failed =>
              /\ InEdges(job[r].def, n) # {}
              /\ \A f \in InEdges(job[r].def, n) :
                    f.src \in Branch \/ nodeRun[r][f.src] = "skipped" \/ ~NodeStored(f.src)
        /\ \A m \in Node, o \in Branch :
              Ran(r, n) /\ Ran(r, m) /\ nodeRun[r][o] = "completed" =>
                  ~(ArmOf(r, n, o, "true") /\ ArmOf(r, m, o, "false"))

\* A run the history shows as completed has completed or skipped every node
\* it planned, as long as the node is of its workflow and still stored:
\* whatever was saved, deleted or restarted since.
CompletedRunIsWhole ==
    \A r \in Run : run[r].status = "completed" =>
        \A n \in Planned(r) \cap job[r].def.nodes :
            NodeStored(n) => nodeRun[r][n] \in {"completed", "skipped"}

\* A node starts without the output of another, upstream, node its templates
\* name only if this run skipped that node or its row is gone, or if this is a
\* retry that leaves the node out and the retried run had not completed it.
MissingInputsExplained ==
    \A r \in Run : At(r, "exec") /\ Kind(r) \in {"workflow", "cascade", "retry"} =>
        \A m \in (Refs[Current(r)] \cap Upstream(job[r].def, Current(r)))
                     \ (job[r].outs \cup {Current(r)}) :
            IF m \in Planned(r) THEN nodeRun[r][m] \in {"skipped", "none"}
            ELSE Kind(r) = "retry" /\ nodeRun[Retried(r)][m] # "completed"

\* How the memory of a call and its rows fit together at every await: what
\* executeNodes relies on without a transaction.

\* Node ids are never handed out twice and belong to one workflow.
DefinitionsApart ==
    /\ \A w \in Workflow : WorkflowStored(w) => workflow[w].nodes \subseteq born
    /\ \A v, w \in Workflow :
          WorkflowStored(v) /\ WorkflowStored(w) /\ v # w
              => workflow[v].nodes \cap workflow[w].nodes = {}
    /\ \A r \in Run : job[r].def.nodes \subseteq born

\* A call has no row before it inserts one, no node rows before it creates
\* them, and no closed run before it is done.
RowsFit(r) ==
    /\ ~RunStored(r) => run[r] = NoRow /\ \A n \in Node : ~NodeRunStored(r, n)
    /\ job[r].pc \in {"idle", "load", "readRun", "create"} => ~RunStored(r)
    /\ job[r].pc \in {"history", "noHistory", "prepare"} =>
          \A n \in Node : ~NodeRunStored(r, n)
    /\ job[r].pc \in {"history", "noHistory", "prepare", "fetch", "loop", "exec"} =>
          run[r].status \in {"none", "running"}

\* What the loop remembers: nothing failed before it, and each node of the
\* plan comes up once.
MemoryFits(r) ==
    /\ job[r].pc \in {"idle", "prepare", "fetch", "exec"} \cup Starting => ~job[r].failed
    /\ job[r].pc \in {"prepare", "fetch"} => job[r].idx = 0
    /\ At(r, "exec") => ~AtEnd(r)
    /\ \A i, k \in DOMAIN job[r].plan : job[r].plan[i] = job[r].plan[k] => i = k

\* The loop against the rows: only the current node runs, a failure is
\* remembered, the nodes to come are untouched.
LoopFits(r) ==
    job[r].pc \in {"fetch", "loop", "exec"} =>
        /\ \A n \in Node : nodeRun[r][n] = "running" => At(r, "exec") /\ n = Current(r)
        /\ \A n \in Node : nodeRun[r][n] = "failed" => job[r].failed
        /\ \A i \in DOMAIN job[r].plan :
              i > job[r].idx + 1 \/ (i = job[r].idx + 1 /\ ~At(r, "exec"))
                  => nodeRun[r][job[r].plan[i]] \in {"none", "pending"}
        /\ At(r, "exec") => nodeRun[r][Current(r)] \in {"none", "running"}

\* Every planned node that is still stored has its row, and the loop left
\* none behind.
NoneLeftBehind(r) ==
    job[r].pc \in {"fetch", "loop", "exec"} /\ RunStored(r) =>
        \A i \in DOMAIN job[r].plan :
            job[r].plan[i] \in job[r].def.nodes /\ NodeStored(job[r].plan[i]) =>
                /\ NodeRunStored(r, job[r].plan[i])
                /\ ~At(r, "fetch") => job[r].plan[i] \in job[r].mapped
                /\ i <= job[r].idx =>
                      nodeRun[r][job[r].plan[i]] \in {"completed", "skipped", "failed"}

EngineInv ==
    /\ DefinitionsApart
    /\ \A r \in Run : RowsFit(r) /\ MemoryFits(r) /\ LoopFits(r) /\ NoneLeftBehind(r)

\* The stored rows live as module RunLifecycle promises.
Lifecycle == INSTANCE RunLifecycle WITH run <- run, nodeRun <- nodeRun
FollowsLifecycle == Lifecycle!Spec

\* A locked workflow can be run again: each lock is released in the end,
\* whatever fails on the way.
LocksAreReleased ==
    \A w \in Workflow : (w \in activeExecutions) ~> (w \notin activeExecutions)

\* A run in the history does not stay 'running', unless a statement threw
\* under it or the process was restarted: then nothing repairs its row.
RunsSettle ==
    \A r \in Run : (run[r].status = "running")
                      ~> (run[r].status # "running" \/ job[r].pc \in {"died", "lost"})
============================================================================
