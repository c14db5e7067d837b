SPECIFICATION LiveSpec
CONSTANTS
    e = e
    d1 = d1
    big = big
    Data = {e, d1, big}
    Empty = e
    Settings <- AllSettings
INVARIANTS
    GeneratedReachesAfl
PROPERTIES
    NothingOverwritten
    CallsEnd
CHECK_DEADLOCK FALSE
