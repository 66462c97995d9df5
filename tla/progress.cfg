\* Two runs, and two of visits to the editors of two workflows and frames of
\* the copilot.  Runs, visits and frames end: no deadlock check.
CONSTANTS
    w1 = w1  w2 = w2  n1 = n1  n2 = n2
    Workflow = {w1, w2}
    Node = {n1, n2}
    NoWorkflow = NoWorkflow
    Nodes <- TwoWorkflows
    MaxRuns = 2
    MaxOpens = 2
SPECIFICATION Spec
INVARIANTS
    TypeOK
    PictureIsRows
    DetailIsTrue
PROPERTIES
    ExecutingEnds
CHECK_DEADLOCK FALSE
