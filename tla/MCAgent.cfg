SPECIFICATION MCSpec
CONSTANTS
    Thread = {t1}
    Run = {r1, r2, r3}
    CarrierRule = {k1}
    Transient = {k2}
    Preference = {k3}
    Nothing = Nothing
    Client = {c1}
    MaxRequests = 3
    MaxTokens = 4
    Window = 2
    Cost = {1, 2}
    LastTime = 5
    Action = {a1}
    Person = {p1, p2}
    Engine = {g1}
    Decision = {d1, d2}
    Execution = {e1, e2}
INVARIANTS
    AgentTypeOK
    KeptIsAudited
    WindowKeepsLimits
    HumanDecided
PROPERTIES
    AnsweredOnce
    OneActivePerRule
CHECK_DEADLOCK FALSE
