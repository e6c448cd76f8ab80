CONSTANTS
    Messages = {m1}
    Workers = {w1, w2}
    MaxAttempts = 2
    MaxDequeueCount = 1
    MaxBatch = 2
    TotalCount = 2
    MaxReceives = 3
SPECIFICATION FairSpec
INVARIANTS
    TypeOK
    AcknowledgedNotLost
    HandedAtMost
    DeadHasFailed
PROPERTIES
    EveryCallEnds
