SPECIFICATION Spec
CONSTANTS
    NumChunks = 1
    NumCells = 2
    MaxCellsPerPacket = 1
    SeqLimit = 8
    MaxPosted = 2
    MaxInFlight = 3
    MaxRequests = 2
    MayLose = FALSE
    MayReorder = FALSE
    MayDisconnect = FALSE
    MayAsk = FALSE
    MayTouch = FALSE
INVARIANT
    NoMissingCell
