-------------------------- MODULE ManagedCredential --------------------------
(***************************************************************************)
(* credentials/azure-managed-credential.ts: getToken() reads the access    *)
(* token of a resource from a cache, or asks the instance metadata service *)
(* (IMDS) for it, one call at a time. IMDS, the cache (node-cache) and the *)
(* mutex (async-mutex) are external. One unit of time is cacheCheckPeriod, *)
(* 600 seconds.                                                            *)
(***************************************************************************)
EXTENDS Integers, FiniteSets

CONSTANTS
    Callers,    \* concurrent callers of getToken()
    Resources,  \* host names of scopes, by which tokens are cached
    Lifetimes,  \* values of expires_in that IMDS may answer
    MaxDelay,   \* the longest time an answer of IMDS is under way
    MaxTime,    \* bound: the clock stops here
    Nobody,
    NoToken

\* cacheCheckPeriod * 2
Margin == 2

ASSUME LifetimesAssumption ==
    /\ Lifetimes \subseteq Nat
    /\ {MaxDelay, MaxTime} \subseteq Nat

\* An answer that is under way longer than the margin defeats it.
ASSUME DelayAssumption == MaxDelay < Margin

ASSUME NobodyAssumption == Nobody \notin Callers

\* An access token, and the time when IMDS issued it for expiresIn units.
Tokens == [resource : Resources, issued : 0 .. MaxTime, expiresIn : Lifetimes]

ExpiresAt(t) == t.issued + t.expiresIn

ASSUME NoTokenAssumption == NoToken \notin Tokens

VARIABLES
    now,       \* the clock
    cache,     \* cache[r]: cached token of resource r, or NoToken
    ttl,       \* ttl[r]: time to live the token was cached with
    storedAt,  \* storedAt[r]: when it was cached
    mutex,     \* the caller inside runExclusive()
    stage,     \* stage[c]: "idle", "waiting" for the mutex, "asking" IMDS,
               \*           "answered", "done" or "failed"
    resource,  \* resource[c]: what c asks a token for
    token      \* token[c]: answered by IMDS or returned to c

credentialVars == <<now, cache, ttl, storedAt, mutex, stage, resource, token>>

tokenCache == <<cache, ttl, storedAt>>

CredentialInit ==
    /\ now = 0
    /\ cache = [r \in Resources |-> NoToken]
    /\ ttl = [r \in Resources |-> 0]
    /\ storedAt = [r \in Resources |-> 0]
    /\ mutex = Nobody
    /\ stage = [c \in Callers |-> "idle"]
    /\ resource \in [Callers -> Resources]
    /\ token = [c \in Callers |-> NoToken]

\* tokenCache.get(): a time to live of 0 means that the item does not expire.
Live(r) ==
    /\ cache[r] # NoToken
    /\ ttl[r] = 0 \/ now <= storedAt[r] + ttl[r]

GetToken(c) ==
    /\ stage[c] \in {"idle", "done", "failed"}
    /\ resource' \in {[resource EXCEPT ![c] = r] : r \in Resources}
    /\ token' = [token EXCEPT ![c] = NoToken]
    /\ stage' = [stage EXCEPT ![c] = "waiting"]
    /\ UNCHANGED <<now, tokenCache, mutex>>

Enter(c) == stage[c] = "waiting" /\ mutex = Nobody

\* The token is cached.
Hit(c) ==
    /\ Enter(c)
    /\ Live(resource[c])
    /\ token' = [token EXCEPT ![c] = cache[resource[c]]]
    /\ stage' = [stage EXCEPT ![c] = "done"]
    /\ UNCHANGED <<now, tokenCache, mutex, resource>>

\* Mutant: the cache is looked up before the mutex is taken, and not again.
MissStale(c) ==
    /\ Enter(c)
    /\ mutex' = c
    /\ stage' = [stage EXCEPT ![c] = "asking"]
    /\ UNCHANGED <<now, tokenCache, resource, token>>

Miss(c) ==
    /\ Enter(c)
    /\ ~Live(resource[c])
    /\ mutex' = c
    /\ stage' = [stage EXCEPT ![c] = "asking"]
    /\ UNCHANGED <<now, tokenCache, resource, token>>

\* IMDS issues a token, and its answer is under way.
Answer(c) ==
    /\ stage[c] = "asking"
    /\ \E l \in Lifetimes :
           token' = [token EXCEPT ![c] =
                       [resource |-> resource[c], issued |-> now, expiresIn |-> l]]
    /\ stage' = [stage EXCEPT ![c] = "answered"]
    /\ UNCHANGED <<now, tokenCache, mutex, resource>>

\* Mutant: the token is cached for as long as it is valid.
TimeToLiveFull(t) == t.expiresIn

\* expires_in - cacheCheckPeriod * 2, which may be negative
TimeToLive(t) == t.expiresIn - Margin

\* Is r the key that the token of c is cached under?
Key(c, r) == r = resource[c]

\* The answer arrives and is cached, and the mutex is released.
StoreToken(c) ==
    /\ stage[c] = "answered"
    /\ cache' = [r \in Resources |-> IF Key(c, r) THEN token[c] ELSE cache[r]]
    /\ ttl' = [r \in Resources |-> IF Key(c, r) THEN TimeToLive(token[c]) ELSE ttl[r]]
    /\ storedAt' = [r \in Resources |-> IF Key(c, r) THEN now ELSE storedAt[r]]
    /\ mutex' = Nobody
    /\ stage' = [stage EXCEPT ![c] = "done"]
    /\ UNCHANGED <<now, resource, token>>

\* Mutants: a failed request is repeated without end; a failed call returns nothing.
FailAgain(c) ==
    /\ stage[c] = "answered"
    /\ token' = [token EXCEPT ![c] = NoToken]
    /\ stage' = [stage EXCEPT ![c] = "asking"]
    /\ UNCHANGED <<now, tokenCache, mutex, resource>>

FailSilently(c) ==
    /\ stage[c] \in {"asking", "answered"}
    /\ mutex' = Nobody
    /\ token' = [token EXCEPT ![c] = NoToken]
    /\ stage' = [stage EXCEPT ![c] = "done"]
    /\ UNCHANGED <<now, tokenCache, resource>>

\* The call fails or times out, the answer has no body or can not be parsed: the
\* caller gets an error, and runExclusive() releases the mutex.
Fail(c) ==
    /\ stage[c] \in {"asking", "answered"}
    /\ mutex' = Nobody
    /\ token' = [token EXCEPT ![c] = NoToken]
    /\ stage' = [stage EXCEPT ![c] = "failed"]
    /\ UNCHANGED <<now, tokenCache, resource>>

Tick ==
    /\ now < MaxTime
    /\ \A c \in Callers : stage[c] = "answered" => now < token[c].issued + MaxDelay
    /\ now' = now + 1
    /\ UNCHANGED <<tokenCache, mutex, stage, resource, token>>

-------------------------------------------------------------------------------
CredentialNext ==
    \/ Tick
    \/ \E c \in Callers :
           GetToken(c) \/ Hit(c) \/ Miss(c) \/ Answer(c) \/ StoreToken(c) \/ Fail(c)

CredentialSpec == CredentialInit /\ [][CredentialNext]_credentialVars

\* The mutex serves its callers in the order of their calls, so that none of them
\* waits while it is released again and again. Every request to IMDS ends: got
\* reports an answer, an error or a timeout.
FairCredentialSpec ==
    /\ CredentialSpec
    /\ \A c \in Callers :
           /\ SF_credentialVars(Hit(c) \/ Miss(c))
           /\ WF_credentialVars(Answer(c) \/ StoreToken(c) \/ Fail(c))

-------------------------------------------------------------------------------
\* A call that is done has a token, and one that is answered will have.
CredentialTypeOK ==
    /\ now \in 0 .. MaxTime
    /\ cache \in [Resources -> Tokens \cup {NoToken}]
    /\ ttl \in [Resources -> Int]
    /\ storedAt \in [Resources -> 0 .. MaxTime]
    /\ mutex \in Callers \cup {Nobody}
    /\ stage \in [Callers -> {"idle", "waiting", "asking", "answered", "done", "failed"}]
    /\ resource \in [Callers -> Resources]
    /\ token \in [Callers -> Tokens \cup {NoToken}]
    /\ \A c \in Callers : token[c] \in Tokens <=> stage[c] \in {"answered", "done"}

\* An item leaves the cache before its token expires, so that no caller gets an
\* expired token from it (azure-managed-credential.ts:74: "reduced TTL to ensure
\* that a cache item is deleted before token expiration time").
CachedTokenLives == \A r \in Resources : Live(r) => now < ExpiresAt(cache[r])

\* There is one request to IMDS at a time, whatever the resource, and none for a
\* resource whose token is in the cache (azure-managed-credential.ts:50-51: "Prevent
\* multiple async calls to IMDS to avoid request rejection").
OneNeededCall ==
    \A c \in Callers :
        /\ stage[c] = "asking" => ~Live(resource[c])
        /\ \A d \in Callers : {stage[c], stage[d]} \subseteq {"asking", "answered"} => c = d

\* The token a caller gets is one for the resource it asked for, also if it was
\* cached by another caller.
TokenOfResource ==
    \A c \in Callers : stage[c] = "done" => token[c].resource = resource[c]

\* Every call of getToken() ends, with a token or an error: a request that fails
\* does not block the callers that wait for the mutex.
EveryCallerServed ==
    \A c \in Callers : stage[c] = "waiting" ~> stage[c] \in {"done", "failed"}

===============================================================================
