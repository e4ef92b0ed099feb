SPECIFICATION Spec
CONSTANTS
    c1 = c1
    c2 = c2
    short = short
    long = long
    Calls <- TwoCalls
    Rules <- TwoRules
    Limit <- SameLimits
    Window <- TwoWindows
    MaxLimit = 1
    MinWindow = 4
    Slack = 0
    MaxRetries = 1
    MaxLag = 1
    MaxSkew = 1
    MaxClock = 5
    MaxBurst = 1
SYMMETRY CallSymmetry
INVARIANT TypeOK
INVARIANT SizeBound
INVARIANT Retained
INVARIANT DistinctStampLimit
PROPERTY RefusedOnlyWhenFull
