SPECIFICATION Spec
SYMMETRY Symmetry
CONSTANTS
    Key = {k1, k2}
    None = None
    MaxPicks = 2
    MaxEdges = 2
    Threshold = 2
    StagnationTrace = TRUE
PROPERTIES
    FailedNotRetried
