SPECIFICATION GateSpec
CONSTANTS
    Action = {a1}
    Person = {p1, p2}
    Engine = {g1}
    Decision = {d1}
    Execution = {e1, e2}
INVARIANT NeverExecutesTwice
CHECK_DEADLOCK FALSE
