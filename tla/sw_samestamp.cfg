SPECIFICATION Spec
CONSTANTS
    c1 = c1
    c2 = c2
    short = short
    long = long
    Calls <- TwoCalls
    Rules <- OneRule
    Limit <- OneLimit
    Window <- OneWindow
    MaxLimit = 2
    MinWindow = 3
    Slack = 1
    MaxRetries = 0
    MaxLag = 0
    MaxSkew = 0
    MaxClock = 3
    MaxBurst = 3
SYMMETRY CallSymmetry
INVARIANT RuleLimit
