SPECIFICATION LeavingSpec
CONSTANTS
    Conns = {c1, c2}
    Players = {p1, p2}
    MayReset = TRUE
INVARIANTS
    TypeOK
    RegistryIsSound
    SnapshotIsFirst
    QuietAfterStop
    CommandersAreKnown
PROPERTY
    StopReturns
CHECK_DEADLOCK FALSE
