SPECIFICATION Spec
CONSTANTS
    g1 = g1
    g2 = g2
    g3 = g3
    k1 = k1
    k2 = k2
    warm = warm
    None = None
    Keys <- MCKeys
    Callers <- MCCallers
    KeyOf <- MCKeyOf
    Warm = warm
    Ids <- MCIds
    MaxSessions = 2
    MaxExits = 0
    Override = FALSE
    Supports = FALSE
INVARIANTS
    OverrideHonoured
