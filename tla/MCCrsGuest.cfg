CONSTANTS
    a = a
    b = b
    m = m
    n = n
    None = None
    Condition <- MCCondition
    Marker <- MCMarker
    RuleSets <- MCRuleSets
    Thresholds <- MCThresholds
    Levels = {0, 1, 2, 3, 4}
    MaxScore = 10
    Param <- MCParam
    Calls <- MCCalls
    JsonLens <- MCJsonLens
SPECIFICATION GuestSpec
INVARIANTS
    GuestTypeOK
    VerdictOfRules
    FailsClosed
    AnswerAccepted
\* decide returns.
CHECK_DEADLOCK FALSE
