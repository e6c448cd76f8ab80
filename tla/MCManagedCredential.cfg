CONSTANTS
    Callers = {c1, c2}
    Resources = {r1, r2}
    Lifetimes <- MCLifetimes
    MaxDelay = 1
    MaxTime = 5
    Nobody = Nobody
    NoToken = NoToken
SPECIFICATION FairCredentialSpec
INVARIANTS
    CredentialTypeOK
    CachedTokenLives
    OneNeededCall
PROPERTIES
    EveryCallerServed
