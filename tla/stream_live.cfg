SPECIFICATION FairStreamSpec
CONSTANTS
    p1 = p1
    p2 = p2
    s1 = s1
    NoPrompt = NoPrompt
    Prompts <- OnePrompt
    Sessions <- OneSession
    SessionOf <- FollowUp
    Cap = 1
    MaxUpdates = 1
    MaxAsks = 1
    MaxProcs = 1
    MaxProcExits = 1
    LongTools = TRUE
    MaxFaults = 1
    MaxGarbage = 0
CHECK_DEADLOCK FALSE
INVARIANTS
    HeartbeatNeverRacesClose
    NothingOvertaken
PROPERTIES
    PromptCloses
    PermissionAnswered
