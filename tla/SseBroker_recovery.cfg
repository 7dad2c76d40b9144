SPECIFICATION SseSpec
CONSTANTS
    Ticket = {t1, t2}
    Client = {c1}
    NoTicket = NoTicket
    MaxHistory = 3
    MaxQueue = 2
    SyncLimit = 2
    ListLimit = 2
INVARIANT NoGap
\* All tickets are uploaded and the stream may stay idle.
CHECK_DEADLOCK FALSE
