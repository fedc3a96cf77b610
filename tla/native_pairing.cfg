SPECIFICATION Spec
CONSTANTS
    None = None
    MaxPrompts = 2
    Cap = 1
    Settings <- AllSettings
CHECK_DEADLOCK FALSE
INVARIANT ResultsFollowTheirCall
