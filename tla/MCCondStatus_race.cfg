SPECIFICATION Spec
SYMMETRY Symmetry
CONSTANTS
    Seed = {s1, s2}
    Cond = {c1, c2}
    Branch = {b1, b2}
    Twins = {c1, c2}
    Unlisted = {c2}
    Loader = {l1, l2}
    Nobody = Nobody
INVARIANTS
    MatchesAreReal
    UpdatesStand
PROPERTIES
    ListingStands
