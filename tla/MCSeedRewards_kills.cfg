SPECIFICATION LiveRewardSpec
CONSTANTS
    Seed = {s1, s2}
    CovSeed = {s1, s2}
    Roadblock = {r1}
    None = None
    MaxKills = 1
INVARIANTS
    RewardsAgree
PROPERTIES
    RewardArrives
CHECK_DEADLOCK FALSE
