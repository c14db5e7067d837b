SPECIFICATION FairSpec
CONSTANTS
    Key = {k1, k2}
    None = None
    MaxPicks = 2
    MaxEdges = 2
    Threshold = 2
    StagnationTrace = TRUE
INVARIANTS
    AttemptIsOnFile
PROPERTIES
    BreakthroughEarned
    DeathEndsSession
    PlateauIsWorked
CHECK_DEADLOCK FALSE
