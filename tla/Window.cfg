SPECIFICATION FairSpec
CONSTANTS
    Cells = {a, b}
    Gamers = {1, 2}
    Balances = {1, 4}
    FullLife = 2
INVARIANTS
    TypeOK
    JudgesLikeTheServer
    QueueIsAffordable
    VisualsFollow
PROPERTY
    VisualsSettle
