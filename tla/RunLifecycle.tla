---------------------------- MODULE RunLifecycle ----------------------------
(****************************************************************************)
(* What the run history promises to those who read it (the history list,    *)
(* the run detail, retryFromFailed): the life of the WorkflowRun and        *)
(* WorkflowNodeRun rows, whatever the engine keeps in memory.               *)
(*                                                                          *)
(* A run opens, gets its pending node runs once, then runs one node at a    *)
(* time; after a node failed the others can only be skipped; it closes when *)
(* no node is running, as completed only if none failed; a closed run never *)
(* changes.  Rows leave only by the deletion of a workflow or of a node.    *)
(****************************************************************************)
CONSTANTS Workflow, Node, Run, NoWorkflow

VARIABLES run, nodeRun

NoRow     == [status |-> "none", wf |-> NoWorkflow]
NoRows    == [n \in Node |-> "none"]

IsOpen(r)      == run[r].status = "running"
IsNot(r, s)    == \A n \in Node : nodeRun[r][n] # s
Moves(r, n, s) == nodeRun' = [nodeRun EXCEPT ![r][n] = s]

Init ==
    /\ run = [r \in Run |-> NoRow]
    /\ nodeRun = [r \in Run |-> NoRows]

Open(r, w) ==
    /\ run[r] = NoRow /\ nodeRun[r] = NoRows
    /\ run' = [run EXCEPT ![r] = [status |-> "running", wf |-> w]]
    /\ UNCHANGED nodeRun

Plan(r, S) ==
    /\ IsOpen(r) /\ nodeRun[r] = NoRows
    /\ nodeRun' = [nodeRun EXCEPT ![r] = [n \in Node |-> IF n \in S THEN "pending" ELSE "none"]]
    /\ UNCHANGED run

BeginNode(r, n) ==
    /\ IsOpen(r) /\ nodeRun[r][n] = "pending"
    /\ IsNot(r, "running") /\ IsNot(r, "failed")
    /\ Moves(r, n, "running")
    /\ UNCHANGED run

EndNode(r, n, s) ==
    /\ IsOpen(r) /\ nodeRun[r][n] = "running"
    /\ Moves(r, n, s)
    /\ UNCHANGED run

SkipNode(r, n) ==
    /\ IsOpen(r) /\ nodeRun[r][n] = "pending"
    /\ IsNot(r, "running")
    /\ Moves(r, n, "skipped")
    /\ UNCHANGED run

Close(r, s) ==
    /\ IsOpen(r) /\ IsNot(r, "running")
    /\ s = "completed" => IsNot(r, "failed")
    /\ run' = [run EXCEPT ![r].status = s]
    /\ UNCHANGED nodeRun

\* Deletion by cascade: some runs with their node runs, the node runs of
\* some nodes in every run.
Drop ==
    LET gone  == {r \in Run : run'[r] = NoRow}
        nodes == {n \in Node : \A r \in Run : nodeRun'[r][n] = "none"}
    IN  /\ run' = [r \in Run |-> IF r \in gone THEN NoRow ELSE run[r]]
        /\ nodeRun' = [r \in Run |-> [n \in Node |->
                          IF r \in gone \/ n \in nodes THEN "none" ELSE nodeRun[r][n]]]

Step(r) ==
    \/ \E w \in Workflow : Open(r, w)
    \/ \E S \in SUBSET Node : Plan(r, S)
    \/ \E n \in Node : BeginNode(r, n) \/ SkipNode(r, n)
    \/ \E n \in Node, s \in {"completed", "failed"} : EndNode(r, n, s)
    \/ \E s \in {"completed", "failed"} : Close(r, s)

Next ==
    \/ \E r \in Run : Step(r)
    \/ Drop

Spec == Init /\ [][Next]_<<run, nodeRun>>
============================================================================
