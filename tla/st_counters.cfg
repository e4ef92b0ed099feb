SPECIFICATION FairSpec
CONSTANTS
    MaxDecisions = 2
    MaxRetries = 1
    MaxFailures = 2
INVARIANT CountersOrdered
INVARIANT CountersExact
INVARIANT ReportCovered
PROPERTY EventuallyCounted
