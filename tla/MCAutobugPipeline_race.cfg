SPECIFICATION Spec
SYMMETRY Symmetry
CONSTANTS
    Seed = {c1, n1}
    CovSeed = {c1}
    Worker = {w1, w2}
    NoWorker = NoWorker
    NoSeed = NoSeed
    BatchMax = 1
    Known = 0
    MaxStamp = 2
    Faults = {"crash"}
INVARIANTS
    PersistedIsCached
    Accounted
    NoDoubleWork
