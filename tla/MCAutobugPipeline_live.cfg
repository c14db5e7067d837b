SPECIFICATION FairSpec
CONSTANTS
    Seed = {n1}
    CovSeed = {}
    Worker = {w1, w2}
    NoWorker = NoWorker
    NoSeed = NoSeed
    BatchMax = 1
    Known = 1
    MaxStamp = 2
    Faults = {"stop", "vanish", "noAnalyzer", "exception"}
PROPERTIES
    EveryFileReplayed
    StopEndsLoops
