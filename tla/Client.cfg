SPECIFICATION FairSpec
CONSTANTS
    Servers = {s1, s2}
    MaxToNet = 2
    MaxToUi = 3
    MaxOnWire = 3
    MayFailBind = TRUE
INVARIANTS
    TypeOK
    NothingLeftOver
    NeverGivesUp
    StaysDisconnected
    WindowIsTold
    EditsGoWhereMeant
    UpdatesComeInOrder
    StatisticsAreGenuine
PROPERTY
    GetsConnected
