SPECIFICATION Spec
CONSTANTS
    Conns = {c1, c2}
    Players = {p1}
    MayReset = FALSE
INVARIANTS
    ClientsAreListed
CHECK_DEADLOCK FALSE
