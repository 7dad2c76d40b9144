SPECIFICATION MCSpec
CONSTANTS
    Ticket = {t1, t2, t3}
    Client = {c1}
    NoTicket = NoTicket
    MaxHistory = 2
    MaxQueue = 1
    SyncLimit = 2
    ListLimit = 1
    Record = {r1, r2}
    Request = {q1, q2}
    Absent = Absent
    All = All
    Sku = {s1}
    Warehouse = {w1}
    Quantity = {1, 2}
    Order = {o1, o2, o3}
    NoProduct = NoProduct
    User = {u1, u2}
    Email = {e1, e2}
    Token = {k1}
    Call = {a1, a2}
    Nobody = Nobody
INVARIANT
    ServicesTypeOK
PROPERTIES
    RecoversInOrder
    CurrentUnlessCrossed
    WritesRightAlone
    NeverOversoldAlone
    EmailsUniqueAlone
    PairedUnlessLost
    UsedOnceAlone
CHECK_DEADLOCK FALSE
