SPECIFICATION Spec
CONSTANTS
    Var = {"k", "p", "q", "profile->q"}
    Known = {"k"}
    Patterned = {"p"}
    Norm <- MCNorm
    MaxVars = 2
    MaxTries = 2
    MaxAttempts = 3
    Place = {"p1", "p2"}
    Cluster = {"error"}
    Size = {1, 9}
    MaxPayloads = 2
    MaxQueue = 2
    Message = {"mismatch", "start_expected", "extra", "other"}
    FamiliesOf <- MCFamiliesOf
    MaxCandidates = 6
    Jobs <- MCJobs
    CdDepth = 1
    SuccSteps = 2
    Graphs <- MCGraphs
    Func = {1, 2, 3, 4}
    Entry = {1}
    Target = 4
    Modules <- MCModules
    Inputs <- MCInputs
    MinGroupSize = 2
    IgnorePrefixes <- MCIgnorePrefixes
    MinConfidence = 600
    SeedFiles <- MCSeedFiles
    HardLimit = 26
    NoticeLen = 2
    Spare = 1
    RoleLen <- MCRoleLen
    Lengths = {0, 1, 9, 30}
    FeedbackLen = 3
    MaxRequests = 2
    Rb = {1, 2}
    Name = {1, 2}
    StemOf <- MCStemOf
    Begins <- MCBegins
    Bytes = {"x", "y"}
    Directories = 2
    Trace <- MCTrace
    MaxSeeds = 1
    MaxFiles = 2
    MaxBuilt = 2
    Functions <- MCFunctions
    Blocked <- MCBlocked
    ChainsTo <- MCChainsTo
    MaxAsked = 2
    MaxLaunches = 2
    Value = {"a", "b", "dots", "bad", "blank"}
    Blank = "blank"
    Alike <- MCAlike
    Undecodable = {"bad"}
    DecodesTo <- MCDecodesTo
    Setups <- MCSetups
    Personas = 1
    MaxDimensions = 1
    PerAnswer = 2
    MaxFixes = 1
    Sessions = 2
INVARIANTS
    HintsAreMapped
    FormatAskedOnce
    FrontierIsRatchet
    RepairWins
    DependencesFound
    ChainsAreFound
    CallsAreResolved
    FlagsAreJustified
    
    RequestsFit
    EvidenceHits
    SlicesAreOfTarget
    ManifestsTell
CHECK_DEADLOCK FALSE
