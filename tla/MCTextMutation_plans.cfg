SPECIFICATION Spec
CONSTANTS
    Text <- Letters
    Fields <- NamedFields
    Settings <- AllSettings
INVARIANTS
    EditsCompose
PROPERTIES
    OverwriteNeedsGap
CHECK_DEADLOCK FALSE
