\* Every list of up to three edge rows over three ids, and a diamond with a
\* shortcut and a node apart in every order of its edge rows.  A call that has
\* returned stops: no deadlock check.
CONSTANTS
    a = a  b = b  c = c  d = d  e = e
    MaxEdges = 3
    Id = {a, b, c, d, e}
    Inputs <- AllInputs
SPECIFICATION FairSortSpec
INVARIANTS
    ReturnsKahnOrder
    ReportsCycles
PROPERTIES
    Returns
CHECK_DEADLOCK FALSE
