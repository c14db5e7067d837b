SPECIFICATION Spec
SYMMETRY Symmetry
CONSTANTS
    Seed = {s1, s2}
    Cond = {c1}
    Branch = {b1, b2}
    Twins = {}
    Unlisted = {}
    Loader = {l1, l2}
    Nobody = Nobody
INVARIANTS
    ListedIsUncovered
