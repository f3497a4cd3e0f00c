SPECIFICATION Spec
CONSTANTS
    Conns = {c1}
    Players = {p1}
    MayReset = TRUE
INVARIANTS
    KeepsServing
CHECK_DEADLOCK FALSE
