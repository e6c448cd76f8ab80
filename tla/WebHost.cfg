CONSTANTS
    Requests = {r1, r2}
    Ids = {i1}
    MaxPolls = 2
    MaxStops = 1
    Host = Host
    Absent = Absent
SPECIFICATION FairSpec
INVARIANTS
    TypeOK
    ServedAfterOneStart
    AnswersAreTrue
PROPERTIES
    EveryRequestAnswered
\* Every request is answered once, then the system stops.
CHECK_DEADLOCK FALSE
