SPECIFICATION Spec
CONSTANTS
    c1 = c1
    c2 = c2
    low = low
    high = high
    Calls <- TwoCalls
    Rules <- TwoRules
    Capacity <- TwoCapacities
    RefillRate <- TwoRates
    MaxCapacity = 2
    MaxRate = 2
    MinCapacity = 1
    MinRate = 1
    TTL = 3
    MaxRetries = 1
    MaxLag = 1
    MaxSkew = 1
    MaxClock = 3
    MaxSlip = 1
SYMMETRY CallSymmetry
INVARIANT TypeOK
INVARIANT RateBound
INVARIANT RefusalEarned
PROPERTY RefillAdmits
