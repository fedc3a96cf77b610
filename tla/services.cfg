SPECIFICATION ServicesSpec
CONSTANTS
    g1 = g1
    g2 = g2
    g3 = g3
    k1 = k1
    k2 = k2
    warm = warm
    None = None
    Keys <- MCKeys
    Callers <- MCCallers
    KeyOf <- MCKeyOf
    Warm = warm
    Ids <- MCIds
    MaxSessions = 1
    MaxExits = 1
    Override = None
    Supports = FALSE
    Names <- MCNames
    Definers <- MCDefiners
    Requests <- SomeRequests
    HandWritten <- OwnJob
    KnownAgents <- MCAgents
    MaxStarts = 2
    Turns <- MCTurns
    ConversationOf <- MCConversationOf
    Sweepers <- MCSweepers
    BufferSize = 1
    BatchSize = 2
    Files <- MCFiles
    ToolUsers <- MCToolUsers
    MaxCalls = 3
    MaxOutside = 1
    NoPrompt = NoPrompt
    Prompts <- MCPrompts
    Sessions <- MCSessions
    SessionOf <- MCSessionOf
    Cap = 1
    MaxUpdates = 0
    MaxAsks = 0
    MaxProcs = 2
    MaxProcExits = 1
    LongTools = FALSE
    MaxFaults = 0
    MaxGarbage = 0
    Directories <- MCDirectories
    Host <- MCHost
    Bundled = {}
    Users <- MCUsers
    Messages <- MCMessages
    Commands <- MCCommands
    Channels <- MCChannels
    OldName <- MCOldName
    NewName <- MCNewName
    MaxDeliveries = 1
    Layouts <- MCLayouts
    Setups = 1
    MaxCrashes = 1
    MaxFailures = 1
    Settings <- MCRules
    Clicks <- MCClicks
    Shared <- MCShared
    MaxUnfurlLinks = 3
    MaxSent = 1
    Tools <- MCTools
    Plans <- MCPlans
    Deltas <- SomeDeltas
    Replies <- SomeReplies
    e1 = e1
    e2 = e2
    e3 = e3
    p1 = p1
    p2 = p2
    s1 = s1
INVARIANTS
    WithinCapacity
    LockReleased
    GreetedFirst
    ReplyOnScreen
    HeldUntilApproved
    DefinitionsLoad
    NothingLostSilently
    PrunedTranscriptsRemoved
    
    NamedAndServed
    TurnsAccounted
    RulesFollowed
    NothingUnreadLost
    PromptsApart
PROPERTIES
    BindingsKept
SYMMETRY
    PromptSymmetry
