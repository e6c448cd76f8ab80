SPECIFICATION FairSpec
CHECK_DEADLOCK FALSE
CONSTANTS
    MaxRuns = 2
    MaxTries = 2
    MaxFaults = 2
    TestSite = TestSite
INVARIANT TypeOK
INVARIANT FailureHasCause
INVARIANT LeftoverHasCause
INVARIANT RejectionSilencesRun
PROPERTY EveryRunEnds
