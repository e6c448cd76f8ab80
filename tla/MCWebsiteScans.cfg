CONSTANTS
    w1 = w1
    w2 = w2
    n1 = n1
    n2 = n2
    p1 = p1
    p2 = p2
    Websites = {w1, w2}
    Nodes <- MCNodes
    NodeOf <- MCSharedNodeOf
    Pages = {p1, p2}
    WebsiteOf <- MCWebsiteOf
    Posts = {s1, s2}
    Gets = {g1}
    MaxPageScans = 2
    MaxTime = 1
    NoScan = NoScan
SPECIFICATION FairSpec
INVARIANTS
    TypeOK
    AcknowledgedScanFound
    LatestIsNewest
    ResponseComplete
PROPERTIES
    EveryRequestAnswered
\* Every request is answered once, then the system stops.
CHECK_DEADLOCK FALSE
