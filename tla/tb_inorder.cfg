SPECIFICATION Spec
CONSTANTS
    c1 = c1
    c2 = c2
    low = low
    high = high
    Calls <- TwoCalls
    Rules <- OneRule
    Capacity <- OneCapacity
    RefillRate <- OneRate
    MaxCapacity = 2
    MaxRate = 1
    MinCapacity = 2
    MinRate = 1
    TTL = 3
    MaxRetries = 1
    MaxLag = 0
    MaxSkew = 0
    MaxClock = 6
    MaxSlip = 2
SYMMETRY CallSymmetry
INVARIANT ControlledBursts
PROPERTY RefinesEager
