\* Two calls beside a client that queries, a changed password and a restart.
\* A query that fails ends its client: no deadlock check.
CONSTANTS
    Call = {c1, c2}
    Query = {q1}
    Schema = {none, s}
    NoSchema = none
    MaxRows = 3
    MaxNames = 2
    MaxPassword = 2
    MaxRestarts = 1
SPECIFICATION Spec
SYMMETRY DatasourceSymmetry
INVARIANTS
    DictionariesFit
    QueriesSurvive
    NothingKept
CHECK_DEADLOCK FALSE
