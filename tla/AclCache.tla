------------------------------ MODULE AclCache ------------------------------
(***************************************************************************)
(* AclProvider.getAcl(), and AzureAdAuth.authorize() that uses it. An ACL  *)
(* is put together from three key vault secrets that are read one after    *)
(* the other, while an operator may change them. The cache is looked up    *)
(* before the mutex is taken and not again after it, so every request that *)
(* missed the cache reads the secrets in its turn. Only valid ACLs are     *)
(* cached.                                                                 *)
(*                                                                         *)
(* A secret is abstracted to the number of the version that was read; time *)
(* is counted in steps of the length that the properties tell apart.       *)
(***************************************************************************)
EXTENDS Naturals, Sequences

CONSTANTS
    Requests,    \* requests that are authorized, each once
    LastVersion, \* bound: LastVersion[p], the number of versions of secret p
    Blank,       \* pairs of a part and a version of its secret that is empty
    Ttl,         \* cacheExpirationTime in ticks, not 0 (which node-cache takes for ever)
    MaxTime,     \* bound on the clock
    NoAcl        \* an ACL that is not there

ASSUME BoundsAssumption == Ttl \in Nat \ {0} /\ MaxTime \in Nat

Parts == {"issuer", "publicKeys", "entries"}

ASSUME VersionAssumption == LastVersion \in [Parts -> Nat \ {0}]

ASSUME BlankAssumption == Blank \subseteq Parts \X Nat

\* The part that could not be read: no version has this number.
Unread == 0

Acls == [Parts -> Nat]

ASSUME NoAclAssumption == NoAcl \notin Acls

Reading == {"publicKeys", "entries", "store"}

VARIABLES
    secrets,    \* secrets[p]: the version of secret p in the key vault
    now,        \* the clock
    cached,     \* the ACL in aclCache, expired or not
    cachedAt,   \* when it was put there
    waiting,    \* requests that want the mutex; the first one has it
    pc,         \* pc[r]: what request r does next
    acl,        \* acl[r]: what r has read or got from the cache
    outcome,    \* outcome[r]: what became of r
    arrived,    \* arrived[r]: history, when r looked the cache up
    earlier,    \* earlier[r]: history, requests that had their ACL before
    rotated,    \* history, requests that read while a secret was changed
    changed,    \* changed[p][v]: history, when version v of secret p was replaced
    slowest     \* history, how long the slowest read of an ACL took

vars == <<secrets, now, cached, cachedAt, waiting, pc, acl, outcome, arrived, earlier,
          rotated, changed, slowest>>

vault == <<secrets, now>>

cache == <<cached, cachedAt>>

history == <<arrived, earlier, rotated, changed, slowest>>

\* validateAcl(): no part is empty.
Valid(a) == \A p \in Parts : a[p] # Unread /\ <<p, a[p]>> \notin Blank

Init ==
    /\ secrets = [p \in Parts |-> 1]
    /\ now = 0
    /\ cached = NoAcl
    /\ cachedAt = 0
    /\ waiting = <<>>
    /\ pc = [r \in Requests |-> "start"]
    /\ acl = [r \in Requests |-> [p \in Parts |-> Unread]]
    /\ outcome = [r \in Requests |-> "pending"]
    /\ arrived = [r \in Requests |-> 0]
    /\ earlier = [r \in Requests |-> {}]
    /\ rotated = {}
    /\ changed = [p \in Parts |-> [v \in 1 .. LastVersion[p] |-> 0]]
    /\ slowest = 0

Goto(r, label) == pc' = [pc EXCEPT ![r] = label]

Finish(r, result) == outcome' = [outcome EXCEPT ![r] = result]

-------------------------------------------------------------------------------
\* The operator writes a new version of a secret.
Rotate(p) ==
    /\ secrets[p] < LastVersion[p]
    /\ secrets' = [secrets EXCEPT ![p] = @ + 1]
    /\ rotated' = rotated \cup {r \in Requests : pc[r] \in Reading}
    /\ changed' = [changed EXCEPT ![p][secrets[p]] = now]
    /\ UNCHANGED <<now, cache, waiting, pc, acl, outcome, arrived, earlier, slowest>>

Tick ==
    /\ now < MaxTime
    /\ now' = now + 1
    /\ UNCHANGED <<secrets, cache, waiting, pc, acl, outcome, history>>

-------------------------------------------------------------------------------
\* Mutant: the expiration time is given in milliseconds, and taken for seconds.
CacheExpirationTimeInMs == 1000 * Ttl

CacheExpirationTime == Ttl

\* NodeCache.get() returns no item whose time to live is over.
Live(a, at) == a # NoAcl /\ now <= at + CacheExpirationTime

Arrive(r) ==
    /\ arrived' = [arrived EXCEPT ![r] = now]
    /\ earlier' = [earlier EXCEPT ![r] = {s \in Requests : pc[s] \in {"verify", "done"}}]
    /\ UNCHANGED <<rotated, changed, slowest>>

\* getAcl(): the cache has the ACL.
GetCached(r) ==
    /\ pc[r] = "start"
    /\ Live(cached, cachedAt)
    /\ acl' = [acl EXCEPT ![r] = cached]
    /\ Goto(r, "verify")
    /\ Arrive(r)
    /\ UNCHANGED <<vault, cache, waiting, outcome>>

\* getAclExclusive(): the request queues up for the mutex.
Acquire(r) ==
    /\ pc[r] = "start"
    /\ ~Live(cached, cachedAt)
    /\ waiting' = Append(waiting, r)
    /\ Goto(r, "issuer")
    /\ Arrive(r)
    /\ UNCHANGED <<vault, cache, acl, outcome>>

\* Mutant: nobody waits for the mutex.
HasMutexUnlocked(r) == waiting # <<>>

HasMutex(r) == waiting # <<>> /\ Head(waiting) = r

Release == waiting' = Tail(waiting)

Read(r, part, next) ==
    /\ acl' = [acl EXCEPT ![r][part] = secrets[part]]
    /\ Goto(r, next)
    /\ UNCHANGED <<vault, cache, waiting, outcome, history>>

\* Mutant: the issuer is not read again, the one in the cache will do.
ReadIssuerOnce(r) ==
    /\ pc[r] = "issuer"
    /\ HasMutex(r)
    /\ acl' = [acl EXCEPT ![r]["issuer"] =
                 IF cached = NoAcl THEN secrets["issuer"] ELSE cached["issuer"]]
    /\ Goto(r, "publicKeys")
    /\ UNCHANGED <<vault, cache, waiting, outcome, history>>

\* Mutant: an error is swallowed here, too, and leaves an ACL that is not there.
ReadIssuerFallback(r) ==
    /\ pc[r] = "issuer"
    /\ HasMutex(r)
    /\ acl' = [acl EXCEPT ![r] = NoAcl]
    /\ Goto(r, "store")
    /\ UNCHANGED <<vault, cache, waiting, outcome, history>>

ReadIssuer(r) ==
    /\ pc[r] = "issuer"
    /\ HasMutex(r)
    /\ Read(r, "issuer", "publicKeys")

ReadPublicKeys(r) ==
    /\ pc[r] = "publicKeys"
    /\ Read(r, "publicKeys", "entries")

\* getAclEntries()
ReadEntries(r) ==
    /\ pc[r] = "entries"
    /\ Read(r, "entries", "store")

\* getAclEntries() catches the error: there are no entries.
EntriesFail(r) ==
    /\ pc[r] = "entries"
    /\ Goto(r, "store")
    /\ UNCHANGED <<vault, cache, waiting, acl, outcome, history>>

\* Mutant: the mutex stays locked when a secret can not be read.
ReadThrowsLocked(r) ==
    /\ \/ pc[r] = "issuer" /\ HasMutex(r)
       \/ pc[r] = "publicKeys"
    /\ Finish(r, "failed")
    /\ Goto(r, "done")
    /\ UNCHANGED <<vault, cache, waiting, acl, history>>

\* getSecret() throws: the mutex is released, and the request fails.
ReadThrows(r) ==
    /\ \/ pc[r] = "issuer" /\ HasMutex(r)
       \/ pc[r] = "publicKeys"
    /\ Release
    /\ Finish(r, "failed")
    /\ Goto(r, "done")
    /\ UNCHANGED <<vault, cache, acl, history>>

\* Mutant: whatever was read is cached.
StoreAny(r) ==
    /\ pc[r] = "store"
    /\ cached' = acl[r]
    /\ cachedAt' = now
    /\ Release
    /\ Goto(r, "verify")
    /\ UNCHANGED <<vault, acl, outcome, history>>

\* The continuation of the last read: a valid ACL is cached, the mutex released.
Store(r) ==
    /\ pc[r] = "store"
    /\ IF Valid(acl[r])
       THEN cached' = acl[r] /\ cachedAt' = now
       ELSE UNCHANGED cache
    /\ Release
    /\ slowest' = IF now - arrived[r] > slowest THEN now - arrived[r] ELSE slowest
    /\ Goto(r, "verify")
    /\ UNCHANGED <<vault, acl, outcome, arrived, earlier, rotated, changed>>

\* authorize(): an ACL that is not valid grants nothing; whether a valid one
\* grants access to the token is up to the token.
Verify(r) ==
    /\ pc[r] = "verify"
    /\ \E granted \in BOOLEAN :
           /\ granted => Valid(acl[r])
           /\ Finish(r, IF granted THEN "granted" ELSE "denied")
    /\ Goto(r, "done")
    /\ UNCHANGED <<vault, cache, waiting, acl, history>>

Step(r) ==
    \/ GetCached(r)
    \/ Acquire(r)
    \/ ReadIssuer(r)
    \/ ReadPublicKeys(r)
    \/ ReadEntries(r)
    \/ EntriesFail(r)
    \/ ReadThrows(r)
    \/ Store(r)
    \/ Verify(r)

Next ==
    \/ \E p \in Parts : Rotate(p)
    \/ Tick
    \/ \E r \in Requests : Step(r)

Spec == Init /\ [][Next]_vars

-------------------------------------------------------------------------------
(***************************************************************************)
(* Properties                                                              *)
(***************************************************************************)
Got(r) == pc[r] \in {"verify", "done"} /\ outcome[r] # "failed"

TypeOK ==
    /\ secrets \in [Parts -> Nat \ {Unread}]
    /\ now \in Nat
    /\ cached \in {NoAcl} \cup Acls
    /\ cachedAt \in Nat
    /\ waiting \in Seq(Requests)
    /\ pc \in [Requests -> {"start", "issuer", "verify", "done"} \cup Reading]
    /\ acl \in [Requests -> Acls]
    /\ outcome \in [Requests -> {"pending", "granted", "denied", "failed"}]
    /\ arrived \in [Requests -> Nat]
    /\ earlier \in [Requests -> SUBSET Requests]
    /\ rotated \subseteq Requests
    /\ \A p \in Parts : changed[p] \in [1 .. LastVersion[p] -> Nat]
    /\ slowest \in Nat

\* Once some request got a valid ACL, no request that comes in later gets an older
\* version of any part: the cache is never filled by a read that was overtaken.
NeverBack ==
    \A r \in Requests : \A s \in earlier[r] :
        Got(r) /\ Got(s) /\ Valid(acl[s]) =>
            \A p \in Parts : acl[r][p] = Unread \/ acl[s][p] <= acl[r][p]

\* The parts of an ACL are of one moment, unless a secret was changed while it
\* was read: then that mixture is served for as long as it is in the cache.
MixedOnlyByRotation ==
    \A r \in Requests \ rotated :
        pc[r] = "store" /\ acl[r]["entries"] # Unread => acl[r] = secrets

\* An ACL that is not valid harms nobody but the request that read it: it does not get
\* into the cache.
CachedIsValid == cached # NoAcl => Valid(cached)

\* What decides requests is an ACL as the operator wrote it: the cached one is valid, and
\* one that was read is of one moment unless a secret was changed meanwhile.
AclsAreSound == CachedIsValid /\ MixedOnlyByRotation

\* A secret that was replaced is out of use when the expiration time, and the time
\* that the slowest request took to read an ACL, are over.
ReplacedGoesOutOfUse ==
    \A r \in Requests : \A p \in Parts :
        Got(r) /\ acl[r][p] \notin {Unread, secrets[p]} =>
            arrived[r] <= changed[p][acl[r][p]] + Ttl + slowest

\* The mutex is with the request that reads, and whoever waits for it is still there
\* to take it: a read that throws can not keep the others out for ever.
MutexIsHandedOn ==
    \A r \in Requests :
        /\ pc[r] \in Reading => HasMutex(r)
        /\ (\E i \in DOMAIN waiting : waiting[i] = r) <=> pc[r] \in {"issuer"} \cup Reading
==============================================================================
