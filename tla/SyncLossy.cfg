SPECIFICATION FairSpec
CONSTANTS
    NumChunks = 1
    NumCells = 1
    MaxCellsPerPacket = 1
    SeqLimit = 2
    MaxPosted = 1
    MaxInFlight = 2
    MaxRequests = 1
    MayLose = TRUE
    MayReorder = TRUE
    MayDisconnect = TRUE
    MayAsk = FALSE
    MayTouch = FALSE
INVARIANT
    TypeOK
PROPERTY
    RequestsAreServed
