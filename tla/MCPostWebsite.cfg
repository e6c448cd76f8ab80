CONSTANTS
    u1 = u1
    u2 = u2
    Urls = {u1, u2}
    Requests = {r1, r2}
    Websites = {w1, w2}
    Payloads <- MCPayloads
    Absent = Absent
    Nowhere = Nowhere
SPECIFICATION Spec
INVARIANTS
    TypeOK
    AcknowledgedPagesExist
    PagesAreKnown
    DuplicatesNeedOverlap
    AcknowledgedPagesStayKnown
\* Every request is answered once, then the system stops.
CHECK_DEADLOCK FALSE
