SPECIFICATION Spec
CONSTANTS
    NumChunks = 2
    NumCells = 1
    MaxCellsPerPacket = 1
    SeqLimit = 1
    MaxPosted = 2
    MaxInFlight = 2
    MaxRequests = 1
    MayLose = FALSE
    MayReorder = FALSE
    MayDisconnect = TRUE
    MayAsk = TRUE
    MayTouch = TRUE
INVARIANTS
    NoMissingCell
    ExactAfterFirstSnapshot
