SPECIFICATION FairSpec
CONSTANTS
    Workers = {w1, w2}
    MaxChunks = 2
    MaxQueue = 1
    MaxReady = 2
INVARIANTS
    TypeOK
    NothingOutlives
    StartIsUndisturbed
    NoTaskWaitsForASleeper
PROPERTIES
    ImplementsTaskRounds
    TicksGoOn
    CallsReturn
