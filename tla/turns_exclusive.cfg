SPECIFICATION Spec
CONSTANTS
    t1 = t1
    t2 = t2
    t3 = t3
    c1 = c1
    socket = socket
    workflow = workflow
    None = None
    Turns <- MCTurns
    Convs <- OneConv
    ConvOf <- SameConv
    Callers <- TwoCallers
    CallerOf <- MixedCaller
    Socket = socket
    MaxStops = 0
    MaxRenderFaults = 0
INVARIANTS
    OnePromptPerSession
SYMMETRY SocketSymmetry
