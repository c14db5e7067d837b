SPECIFICATION LiveSpec
CONSTANTS
    MaxSignals = 2
    MaxSessions = 2
    k1 = k1
    k2 = k2
    s1 = s1
    s2 = s2
    Scopes <- MCScopes
    Origins <- MCOrigins
    Key = {k1, k2}
    Seed = {s1, s2}
    None = None
    FailureThreshold = 2
    MaxTime = 2
    RouterTries = 2
    MaxChains = 2
    MaxPlan = 1
    MaxTests = 2
    Libxml = TRUE
INVARIANTS
    EvidenceIsOwn
    DisabledIsEarned
    StartsAgain
PROPERTIES
    OnceAcrossSessions
    SessionEnds
CHECK_DEADLOCK FALSE
