SPECIFICATION Spec
CONSTANTS
    NumChunks = 2
    NumCells = 1
    MaxCellsPerPacket = 1
    SeqLimit = 8
    MaxPosted = 1
    MaxInFlight = 3
    MaxRequests = 2
    MayLose = FALSE
    MayReorder = FALSE
    MayDisconnect = FALSE
    MayAsk = FALSE
    MayTouch = FALSE
INVARIANT
    SameWorld
