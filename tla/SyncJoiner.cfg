SPECIFICATION FairSpec
CONSTANTS
    NumChunks = 1
    NumCells = 1
    MaxCellsPerPacket = 1
    SeqLimit = 3
    MaxPosted = 1
    MaxInFlight = 2
    MaxRequests = 1
    MayLose = FALSE
    MayReorder = FALSE
    MayDisconnect = FALSE
    MayAsk = TRUE
    MayTouch = FALSE
PROPERTY
    JoinerIsServed
