CONSTANTS
    n1 = n1
    n2 = n2
    u1 = u1
    u2 = u2
    Names <- MCNames
    Urls <- MCUrls
    MaxRepeats = 2
    Undefined = Undefined
    Absent = Absent
    NoItem = NoItem
    Requests = {r1, r2}
    Ids = {i1}
    Payloads <- MCPayloads
SPECIFICATION Spec
PROPERTIES
    MergesWithExisting
\* Every request is answered once, then the system stops.
CHECK_DEADLOCK FALSE
