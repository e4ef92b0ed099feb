SPECIFICATION Spec
CONSTANTS
    h1 = h1
    h2 = h2
    u1 = u1
    star = star
    r1 = r1
    Handlers <- TwoHandlers
    Users <- OneUser
    Routes <- TwoRoutes
    Star = star
    Quotas = {2, 4}
    MinQuota = 2
    MaxQuota = 4
    MaxShared = 1
    MaxFailures = 1
SYMMETRY HandlerSymmetry
INVARIANT TypeOK
INVARIANT BurstBound
INVARIANT RefusedOnlyWhenSpent
