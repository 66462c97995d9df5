\* Two messages, two sockets and two visits to the editor.  Messages and
\* sockets run out: no deadlock check.
CONSTANTS
    Message = {m1, m2}
    NoMessage = NoMessage
    MaxSockets = 2
    MaxOpens = 2
    MaxRounds = 2
SPECIFICATION Spec
INVARIANTS
    TypeOK
    ThinkingExplained
    RefusedExplained
    StopIsHeard
PROPERTIES
    WaitingIsSent
CHECK_DEADLOCK FALSE
