SPECIFICATION StreamSpec
CONSTANTS
    p1 = p1
    p2 = p2
    s1 = s1
    NoPrompt = NoPrompt
    Prompts <- OnePrompt
    Sessions <- OneSession
    SessionOf <- FollowUp
    Cap = 1
    MaxUpdates = 0
    MaxAsks = 1
    MaxProcs = 1
    MaxProcExits = 0
    LongTools = FALSE
    MaxFaults = 0
    MaxGarbage = 0
CHECK_DEADLOCK FALSE
INVARIANTS
    PermissionFailSafe
