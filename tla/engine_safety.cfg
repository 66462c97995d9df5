\* Two calls, of which one may retry the other, while the workflow is edited
\* and deleted, statements throw and the process restarts.  The calls end: no
\* deadlock check.
CONSTANTS
    w1 = w1  w2 = w2
    a = a  b = b  c = c  d = d  x = x
    NoWorkflow = NoWorkflow
    NoRun = NoRun
    Deleted = Deleted
    Workflow = {w1, w2}
    Node = {a, b, c, d, x}
    Branch = {a}
    Run = {r1, r2}
    ParamRefs = {b}
    Refs <- TriangleRefs
    Requests <- TriangleRequests
    Initial <- TriangleInitial
    Edits <- TriangleEditsOf
    Faults = TRUE
    Crashes = TRUE
SPECIFICATION Spec
INVARIANTS
    BranchDecidesSkips
    NoOrphanLock
    EngineInv
    CompletedRunIsWhole
PROPERTIES
    FollowsLifecycle
SYMMETRY RunSymmetry
CHECK_DEADLOCK FALSE
