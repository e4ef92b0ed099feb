SPECIFICATION Spec
CONSTANTS
    master = master
    k1 = k1
    n1 = n1
    n2 = n2
    default = default
    acme = acme
    s1 = s1
    s2 = s2
    NoKey = NoKey
    AdminName = admin
    Windowed = {default}
    Star = star
    search = search
    padded = padded
    blank = blank
    NoRoute = noroute
    Routes <- AllRoutes
    Trim <- TrimRoutes
    Keys <- AllKeys
    AdminKeys <- Admins
    Names <- AllNames
    Default = default
    Slots <- TwoSlots
    Limits <- SmallLimits
SYMMETRY Symmetry
INVARIANT TypeOK
INVARIANT AuthFollowsKey
INVARIANT OneVerification
INVARIANT OwnDataOnly
INVARIANT ListsFresh
INVARIANT LoadingJustified
INVARIANT KeyDisplayed
PROPERTY RegisteredKeyKept
PROPERTY ListsForward
PROPERTY EditKeepsTarget
PROPERTY UntouchedEditHarmless
