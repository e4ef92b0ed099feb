SPECIFICATION Spec
CONSTANTS
    c1 = c1
    c2 = c2
    k1 = k1
    k2 = k2
    k3 = k3
    h1 = h1
    h2 = h2
    Clients <- TwoClients
    Keys <- ThreeKeys
    Handlers <- TwoHandlers
    Holdings <- MasterKey
    Schemas <- BothSchemas
    MaxLapses = 1
    MaxFailures = 1
SYMMETRY Symmetry
CHECK_DEADLOCK FALSE
INVARIANT TypeOK
INVARIANT AccessKept
INVARIANT AccessTold
INVARIANT UnclaimedBounded
PROPERTY OwnKeysOnly
