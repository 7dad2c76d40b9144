SPECIFICATION MCSpec
CONSTANTS
    Sockets = {s1, s2}
    MaxTurns = 3
    MaxTokens = 2
INVARIANTS
    ChatTypeOK
    NoStuckStreaming
    OneLiveUnlessCrossed
PROPERTIES
    InterruptedStays
    TurnsSettle
\* The history is full and every turn has ended.
CHECK_DEADLOCK FALSE
