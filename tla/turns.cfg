SPECIFICATION FairSpec
CONSTANTS
    t1 = t1
    t2 = t2
    t3 = t3
    c1 = c1
    socket = socket
    workflow = workflow
    None = None
    Turns <- Pair
    Convs <- OneConv
    ConvOf <- SameConv
    Callers <- TwoCallers
    CallerOf <- MixedCaller
    Socket = socket
    MaxStops = 1
    MaxRenderFaults = 1
INVARIANTS
    RegistrySound
    OneCurrentTurn
PROPERTIES
    InterruptTakesEffect
    LoopHeldOnlyByOpen
