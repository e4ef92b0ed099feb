SPECIFICATION Spec
CONSTANTS
    default = default
    c1 = c1
    s1 = s1
    s2 = s2
    r1 = r1
    r2 = r2
    Names <- TwoNames
    Default = default
    Servers <- TwoServers
    Callers <- TwoCallers
    MaxFailures = 2
    MaxChanges = 2
SYMMETRY Symmetry
INVARIANT RegisteredStays
INVARIANT HalfBounded
INVARIANT MasterPresent
