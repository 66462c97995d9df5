\* Three messages, another chat, and lost sockets.  Messages and sockets run out: no
\* deadlock check.
CONSTANTS
    MaxMessages = 3
    MaxSockets = 2
    MaxActs = 4
    MaxAttempts = 1
    MaxRounds = 2
SPECIFICATION Spec
INVARIANTS
    TypeOK
    TextsStayApart
    OnlyStoppedTurnsAbort
    StopsAreHeard
PROPERTIES
    LoadingEnds
CHECK_DEADLOCK FALSE
