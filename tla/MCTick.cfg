SPECIFICATION Spec
CONSTANTS
    Width = 2
    Height = 2
    Players = {1, 2}
    Workers = {w1}
    Requests <- GameRequests
    MaxTicks = 3
    MaxRequests = 2
    MaxJoins = 2
PROPERTIES
    ImplementsLifeGame
    EditsAreCarriedOut
INVARIANTS
    TypeOK
    OwnedIffAlive
    DeltaCoversChanges
    OutputsAgree
    SnapshotIsATick
    CommandsInOrder
    WorkersOnlyBetweenBarriers
