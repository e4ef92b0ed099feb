SPECIFICATION Spec
CONSTANTS
    c1 = c1
    c2 = c2
    short = short
    long = long
    Calls <- TwoCalls
    Rules <- OneRule
    Limit <- OneLimit
    Window <- OneWindow
    MaxLimit = 2
    MinWindow = 3
    Slack = 1
    MaxRetries = 1
    MaxLag = 0
    MaxSkew = 0
    MaxClock = 6
    MaxBurst = 2
SYMMETRY CallSymmetry
PROPERTY RefinesLog
