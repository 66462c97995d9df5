-------------------------- MODULE MCWorkflowEngine --------------------------
(****************************************************************************)
(* Small instances of WorkflowEngine for TLC.                               *)
(****************************************************************************)
EXTENDS WorkflowEngine, TLC

CONSTANTS w1, w2, a, b, c, d, x

EdgeOf(m, n, h) == [src |-> m, dst |-> n, handle |-> h]

\* A branch a, its true arm b, and their join c.
Triangle ==
    [nodes |-> {a, b, c},
     edges |-> {EdgeOf(a, b, "true"), EdgeOf(a, c, "false"), EdgeOf(b, c, "none")}]

\* The editor replaces the arm by a new node d, and the join waits for d only.
TriangleEdits ==
    {[nodes |-> {a, c, d}, edges |-> {EdgeOf(a, d, "true"), EdgeOf(d, c, "none")}]}

\* Two independent nodes, and a third that needs both.
Vee == [nodes |-> {a, b, c}, edges |-> {EdgeOf(a, c, "none"), EdgeOf(b, c, "none")}]

\* The second workflow, with a node of its own.
Other == [nodes |-> {x}, edges |-> {}]

TriangleInitial == (w1 :> Triangle) @@ (w2 :> Other)
VeeInitial      == w1 :> Vee

TriangleRefs == (a :> {}) @@ (b :> {a}) @@ (c :> {a}) @@ (d :> {a}) @@ (x :> {})
VeeRefs      == (a :> {}) @@ (b :> {}) @@ (c :> {a, b})

NoEdits         == [w \in Workflow |-> {}]
TriangleEditsOf == (w1 :> TriangleEdits) @@ (w2 :> {})

Ask(kind, n, ms) == [kind |-> kind, wf |-> w1, node |-> n, mocks |-> ms, of |-> NoRun]
Retries == [kind : {"retry"}, wf : {w1}, node : {a}, mocks : {{}}, of : Run]

\* Full runs, single nodes from history (x belongs to the other workflow) and
\* retries.
TriangleRequests ==
    {Ask("workflow", a, {}), Ask("history", c, {}), Ask("history", x, {})} \cup Retries

\* The join with its upstream (here: the whole vee), with given inputs or
\* from history, and retries.
VeeRequests ==
    {Ask("cascade", c, {}), Ask("mock", c, {a, b}), Ask("history", c, {})} \cup Retries

RunSymmetry == Permutations(Run)
============================================================================
