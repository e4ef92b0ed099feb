SPECIFICATION FairSpec
CONSTANTS
    k1 = k1
    l1 = l1
    a1 = a1
    KeySeries <- OneKeySeries
    RuleSeries <- OneRuleSeries
    ClientSeries <- OneClientSeries
    MaxRows = 2
    MaxFailures = 1
PROPERTY GaugeCatchesUp
PROPERTY StopsInTheEnd
