SPECIFICATION FairSpec
CONSTANTS
    c1 = c1
    c2 = c2
    k1 = k1
    k2 = k2
    k3 = k3
    h1 = h1
    h2 = h2
    Clients <- TwoClients
    Keys <- ThreeKeys
    Handlers <- TwoHandlers
    Holdings <- MasterKey
    Schemas <- RepositorySchema
    MaxLapses = 1
    MaxFailures = 0
CHECK_DEADLOCK FALSE
PROPERTY KeysAreDeactivated
