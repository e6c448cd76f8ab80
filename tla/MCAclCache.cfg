CONSTANTS
    Requests = {r1, r2, r3}
    LastVersion <- MCLastVersion
    Blank <- MCBlank
    Ttl = 1
    MaxTime = 2
    NoAcl = NoAcl
SYMMETRY MCSymmetry
SPECIFICATION Spec
INVARIANTS
    TypeOK
    NeverBack
    AclsAreSound
    ReplacedGoesOutOfUse
    MutexIsHandedOn
\* Every request is decided once, then the system stops.
CHECK_DEADLOCK FALSE
