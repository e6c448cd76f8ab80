CONSTANTS
    Scenarios = {s1}
    BeforeTests = {b1}
    AfterTests = {}
    MaxRuns = 2
    InitialWait = 1
    Interval = 1
    Timeout = 1
SPECIFICATION FairSpec
INVARIANTS
    TypeOK
    ReportsCount
PROPERTIES
    EveryCheckEnds
\* The checker decides once, and the runs are bounded.
CHECK_DEADLOCK FALSE
