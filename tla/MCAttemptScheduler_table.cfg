SPECIFICATION Spec
SYMMETRY Symmetry
CONSTANTS
    Key = {k1, k2, k3}
    None = None
    Results = {"attempted"}
    MaxPicks = 2
INVARIANTS
    Durable
    FairRotation
PROPERTIES
    NoEarlyRetry
