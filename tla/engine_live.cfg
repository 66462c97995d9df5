\* Liveness of locks and rows: two calls, statements that throw, restarts and
\* the deletion of the workflow.  No symmetry under a temporal property.  The
\* calls end: no deadlock check.
CONSTANTS
    w1 = w1  w2 = w2
    a = a  b = b  c = c  d = d  x = x
    NoWorkflow = NoWorkflow
    NoRun = NoRun
    Deleted = Deleted
    Workflow = {w1}
    Node = {a, b, c}
    Branch = {}
    Run = {r1, r2}
    ParamRefs = {b}
    Refs <- VeeRefs
    Requests <- VeeRequests
    Initial <- VeeInitial
    Edits <- NoEdits
    Faults = TRUE
    Crashes = TRUE
SPECIFICATION FairSpec
INVARIANTS
    MissingInputsExplained
PROPERTIES
    RunsSettle
    LocksAreReleased
CHECK_DEADLOCK FALSE
