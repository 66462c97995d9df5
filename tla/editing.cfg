\* Two agents and an editor on a branch and its arm.  Saves, edits and loads
\* run out: no deadlock check.
CONSTANTS
    a = a  b = b  c = c  t = t
    Id = {a, b, c}
    Temp = {t}
    e1 = e1  e2 = e2
    Edit = {e1, e2, e3}
    Agent = {g1, g2}
    Initial <- BranchWithArm
    Offered = {"true"}
    MaxSaves = 2
    MaxEdits = 1
    MaxLoads = 3
SPECIFICATION Spec
SYMMETRY EditingSymmetry
INVARIANTS
    TypeOK
    StoredIsDefinition
    EditorCatchesUp
PROPERTIES
    IdsNeverReturn
    OnlyOverlapsLoseEdits
CHECK_DEADLOCK FALSE
