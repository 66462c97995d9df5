\* Two tabs; tokens run out of acts: no deadlock check.
CONSTANTS
    Tab = {t1, t2}
    Work = {w1, w2}
    MaxActs = 4
    MaxLost = 1
SPECIFICATION Spec
INVARIANTS
    TypeOK
    AuthIsWhole
    CookieWorks
PROPERTIES
    RequestsEnd
CHECK_DEADLOCK FALSE
