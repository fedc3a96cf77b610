SPECIFICATION AgentsSpec
CONSTANTS
    None = None
    MaxPrompts = 2
    Cap = 1
    Settings <- AllSettings
    Profiles <- SomeProfiles
    Capacity = 2
    MaxTexts = 2
    MaxTools = 1
    MaxBeats = 1
    Sessions <- SomeSessions
    Chat <- SomeChats
    Bridges <- OneBridge
    Builtins <- OwnTools
    Remote <- WebTools
    Args = {"a"}
CHECK_DEADLOCK FALSE
INVARIANTS
    ArraySound
    PromptsKeptApart
    ResultIsWhole
    ToolsGuarded
PROPERTIES
    PromptEnds
    DelegationReturns
    BridgeEnds
