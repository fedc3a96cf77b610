SPECIFICATION FairSpec
CONSTANTS
    r1 = r1
    r2 = r2
    m1 = m1
    None = None
    Torn = Torn
    Requests <- TwoRequests
    Messages <- OneMessage
    MaxProcs = 2
    MaxOutages = 1
    MaxFaults = 1
    MaxTwins = 1
CHECK_DEADLOCK FALSE
INVARIANTS
    GreetsOnce
    HandledOnce
    BackOnlineHonest
PROPERTIES
    RestartHappens
    Reconnects
    RestartConfirmed
