SPECIFICATION Spec
CONSTANTS
    a1 = a1
    a2 = a2
    s = s
    None = None
    Asks <- TwoAsks
    Summaries = {s}
    SummaryOf <- SameCall
SYMMETRY AskSymmetry
CHECK_DEADLOCK FALSE
INVARIANTS
    RunsOnlyWithConsent
    AnswersSettled
PROPERTIES
    OneHonestOutcome
