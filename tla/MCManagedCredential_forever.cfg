CONSTANTS
    Callers = {c1, c2}
    Resources = {r1}
    Lifetimes <- MCCriticalLifetimes
    MaxDelay = 1
    MaxTime = 4
    Nobody = Nobody
    NoToken = NoToken
SPECIFICATION CredentialSpec
INVARIANTS
    CachedTokenLives
