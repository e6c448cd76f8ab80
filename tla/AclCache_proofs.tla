--------------------------- MODULE AclCache_proofs ---------------------------
(***************************************************************************)
(* Proofs about AclCache. What a request reads under the mutex is at least *)
(* as new as what is cached, and nobody else can cache anything meanwhile: *)
(* so the cache only ever gets newer, and every ACL that was handed out is *)
(* covered by it. The other half is about time: the history of changes     *)
(* bounds when a version that was replaced can have been read, cached, and *)
(* got from the cache.                                                     *)
(***************************************************************************)
EXTENDS AclCache, SequenceTheorems, TLAPS

\* A function on the parts, so that EXCEPT changes one of them.
ChangesArePerPart == changed = [p \in Parts |-> changed[p]]

\* Nobody waits for the mutex twice.
WaitsOnce == \A i, j \in DOMAIN waiting : waiting[i] = waiting[j] => i = j

\* Which parts a request has read.
PartsRead ==
    \A r \in Requests :
        /\ pc[r] \in {"start", "issuer"} => \A p \in Parts : acl[r][p] = Unread
        /\ pc[r] \in Reading => acl[r]["issuer"] # Unread
        /\ pc[r] \in Reading \ {"publicKeys"} => acl[r]["publicKeys"] # Unread
        /\ pc[r] = "publicKeys" => acl[r]["publicKeys"] = Unread
        /\ pc[r] \in {"publicKeys", "entries"} => acl[r]["entries"] = Unread

\* Whoever reads undisturbed has what is in the key vault.
ReadsAreCurrent ==
    \A r \in Requests \ rotated : \A p \in Parts :
        pc[r] \in Reading => acl[r][p] \in {Unread, secrets[p]}

\* Versions that were read have been written.
VersionsExist ==
    \A p \in Parts :
        /\ secrets[p] <= LastVersion[p]
        /\ \A r \in Requests : acl[r][p] <= secrets[p]
        /\ cached # NoAcl => cached[p] <= secrets[p] /\ cached[p] # Unread

\* What is being read is not older than what is cached,
ReadsAreNewer ==
    cached # NoAcl =>
        \A r \in Requests : \A p \in Parts :
            pc[r] \in Reading => acl[r][p] = Unread \/ cached[p] <= acl[r][p]

\* and what was handed out is not newer.
CacheCovers ==
    \A s \in Requests : Got(s) /\ Valid(acl[s]) =>
        cached # NoAcl /\ \A p \in Parts : acl[s][p] <= cached[p]

EarlierAreThrough ==
    \A r \in Requests :
        /\ pc[r] = "start" => earlier[r] = {}
        /\ \A s \in earlier[r] : pc[s] \in {"verify", "done"}

FailedAreDone == \A r \in Requests : outcome[r] = "failed" => pc[r] = "done"

Past == cachedAt <= now /\ \A r \in Requests : arrived[r] <= now

\* A version that a request reads was replaced after the request came in,
ReadBeforeChange ==
    \A r \in Requests : \A p \in Parts :
        pc[r] \in Reading /\ acl[r][p] \notin {Unread, secrets[p]} =>
            arrived[r] <= changed[p][acl[r][p]]

\* and one in the cache at most a read's time before it got there.
CachedBeforeChange ==
    cached # NoAcl =>
        \A p \in Parts : cached[p] # secrets[p] => cachedAt <= changed[p][cached[p]] + slowest

IInv ==
    /\ TypeOK
    /\ ChangesArePerPart
    /\ MutexIsHandedOn /\ WaitsOnce
    /\ PartsRead /\ ReadsAreCurrent /\ VersionsExist
    /\ CachedIsValid /\ ReadsAreNewer /\ CacheCovers /\ EarlierAreThrough /\ NeverBack
    /\ FailedAreDone
    /\ Past /\ ReadBeforeChange /\ CachedBeforeChange /\ ReplacedGoesOutOfUse

-------------------------------------------------------------------------------
\* Only one request reads at a time (Mutex.runExclusive, line 63).
LEMMA Alone ==
    ASSUME MutexIsHandedOn, NEW r \in Requests, NEW q \in Requests,
           pc[r] \in Reading, pc[q] \in Reading
    PROVE  q = r
BY DEF MutexIsHandedOn, HasMutex

\* The mutex goes from the request that had it to the next one that waits.
LEMMA HandingOn ==
    ASSUME waiting \in Seq(Requests), WaitsOnce,
           NEW r \in Requests, HasMutex(r), Release
    PROVE  /\ waiting' \in Seq(Requests)
           /\ WaitsOnce'
           /\ \A q \in Requests :
                  (\E i \in DOMAIN waiting' : waiting'[i] = q) <=>
                      q # r /\ \E i \in DOMAIN waiting : waiting[i] = q
<1>1. /\ waiting # <<>> /\ waiting[1] = r
      /\ waiting' \in Seq(Requests)
      /\ Len(waiting') = Len(waiting) - 1
      /\ \A i \in 1 .. Len(waiting') : waiting'[i] = waiting[i + 1]
    BY HeadTailProperties DEF HasMutex, Release
<1>2. /\ DOMAIN waiting = 1 .. Len(waiting) /\ Len(waiting) \in Nat \ {0}
      /\ DOMAIN waiting' = 1 .. Len(waiting')
    BY <1>1, LenProperties, EmptySeq
<1>3. WaitsOnce'
    <2> SUFFICES ASSUME NEW i \in DOMAIN waiting', NEW j \in DOMAIN waiting',
                        waiting'[i] = waiting'[j]
                 PROVE  i = j
        BY DEF WaitsOnce
    <2>1. /\ i + 1 \in DOMAIN waiting /\ waiting[i + 1] = waiting'[i]
          /\ j + 1 \in DOMAIN waiting /\ waiting[j + 1] = waiting'[j]
          /\ i \in Nat /\ j \in Nat
        BY <1>1, <1>2, SMT
    <2>2. i + 1 = j + 1
        BY <2>1 DEF WaitsOnce
    <2> QED BY <2>1, <2>2, SMT
<1>4. ASSUME NEW q \in Requests, NEW i \in DOMAIN waiting', waiting'[i] = q
      PROVE  q # r /\ \E j \in DOMAIN waiting : waiting[j] = q
    <2>1. i + 1 \in DOMAIN waiting /\ i + 1 # 1 /\ waiting[i + 1] = q /\ 1 \in DOMAIN waiting
        BY <1>1, <1>2, <1>4, SMT
    <2> QED BY <1>1, <2>1 DEF WaitsOnce
<1>5. ASSUME NEW q \in Requests, q # r, NEW i \in DOMAIN waiting, waiting[i] = q
      PROVE  \E j \in DOMAIN waiting' : waiting'[j] = q
    <2>1. i # 1
        BY <1>1, <1>5
    <2>2. i - 1 \in DOMAIN waiting' /\ waiting'[i - 1] = q
        BY <1>1, <1>2, <1>5, <2>1, SMT
    <2> QED BY <2>2
<1> QED BY <1>1, <1>3, <1>4, <1>5

\* A request that comes in queues up behind the others (getAclExclusive).
LEMMA QueueingUp ==
    ASSUME waiting \in Seq(Requests), WaitsOnce, NEW r \in Requests,
           ~ \E i \in DOMAIN waiting : waiting[i] = r,
           waiting' = Append(waiting, r)
    PROVE  /\ waiting' \in Seq(Requests)
           /\ WaitsOnce'
           /\ \A q \in Requests : HasMutex(q) => HasMutex(q)'
           /\ \A q \in Requests :
                  (\E i \in DOMAIN waiting' : waiting'[i] = q) <=>
                      q = r \/ \E i \in DOMAIN waiting : waiting[i] = q
<1>1. /\ waiting' \in Seq(Requests)
      /\ Len(waiting') = Len(waiting) + 1
      /\ \A i \in 1 .. Len(waiting) : waiting'[i] = waiting[i]
      /\ waiting'[Len(waiting) + 1] = r
    BY AppendProperties
<1>2. /\ DOMAIN waiting = 1 .. Len(waiting) /\ Len(waiting) \in Nat
      /\ DOMAIN waiting' = 1 .. Len(waiting')
    BY <1>1, LenProperties
<1>3. WaitsOnce'
    BY <1>1, <1>2, SMT DEF WaitsOnce
<1>4. ASSUME NEW q \in Requests, HasMutex(q) PROVE HasMutex(q)'
    <2>1. waiting # <<>> /\ waiting[1] = q
        BY <1>4 DEF HasMutex
    <2>2. Len(waiting) \in Nat \ {0}
        BY <2>1, EmptySeq
    <2>3. waiting'[1] = q /\ Len(waiting') # 0
        BY <1>1, <1>2, <2>1, <2>2, SMT
    <2>4. waiting' # <<>>
        BY <2>3, EmptySeq
    <2> QED BY <2>3, <2>4 DEF HasMutex
<1>5. ASSUME NEW q \in Requests
      PROVE  (\E i \in DOMAIN waiting' : waiting'[i] = q) <=>
                 q = r \/ \E i \in DOMAIN waiting : waiting[i] = q
    BY <1>1, <1>2, SMT
<1> QED BY <1>1, <1>3, <1>4, <1>5

\* Each request is judged by an ACL of this form (readAcl, lines 73-87).
LEMMA AclParts ==
    ASSUME TypeOK
    PROVE  /\ \A p \in Parts : secrets[p] \in Nat \ {0} /\ LastVersion[p] \in Nat \ {0}
           /\ \A r \in Requests, p \in Parts : acl[r][p] \in Nat
           /\ cached # NoAcl => cached \in Acls /\ \A p \in Parts : cached[p] \in Nat
           /\ \A p \in Parts, v \in Nat \ {0} : v <= LastVersion[p] => changed[p][v] \in Nat
BY VersionAssumption, SMT DEF TypeOK, Acls, Unread

\* A version that was written has an entry in the history of changes.
LEMMA ExistingChanges ==
    ASSUME TypeOK, VersionsExist, NEW p \in Parts, NEW v \in Nat \ {0}, v <= secrets[p]
    PROVE  changed[p][v] \in Nat
<1>1. secrets[p] \in Nat /\ LastVersion[p] \in Nat /\ secrets[p] <= LastVersion[p]
    BY AclParts DEF VersionsExist
<1>2. v <= LastVersion[p]
    BY <1>1, SMT
<1> QED BY <1>2, AclParts

\* The invariant holds in the initial state (the constructor, lines 42-47).
LEMMA InitInv == Init => IInv
<1> SUFFICES ASSUME Init PROVE IInv
    OBVIOUS
<1>1. TypeOK
    BY VersionAssumption, SMT DEF Init, TypeOK, Acls, Unread, Reading
<1>2. ChangesArePerPart /\ WaitsOnce
    BY DEF Init, ChangesArePerPart, WaitsOnce
<1>3. MutexIsHandedOn
    <2>1. DOMAIN waiting = {}
        BY SMT DEF Init
    <2>2. \A r \in Requests : pc[r] = "start"
        BY DEF Init
    <2> QED BY <2>1, <2>2 DEF MutexIsHandedOn, Reading
<1>4. PartsRead /\ ReadsAreCurrent /\ VersionsExist
    BY VersionAssumption, SMT DEF Init, PartsRead, ReadsAreCurrent, VersionsExist, Unread, Reading
<1>5. CachedIsValid /\ ReadsAreNewer /\ CacheCovers /\ EarlierAreThrough /\ NeverBack
      /\ FailedAreDone
    BY SMT DEF Init, CachedIsValid, ReadsAreNewer, CacheCovers, EarlierAreThrough, NeverBack, Got,
               FailedAreDone
<1>6. Past /\ ReadBeforeChange /\ CachedBeforeChange /\ ReplacedGoesOutOfUse
    BY SMT DEF Init, Past, ReadBeforeChange, CachedBeforeChange, ReplacedGoesOutOfUse, Got, Reading
<1> QED BY <1>1, <1>2, <1>3, <1>4, <1>5, <1>6 DEF IInv

\* A new version of a secret disturbs who reads, and nobody else.
LEMMA RotateStep == ASSUME IInv, NEW part \in Parts, Rotate(part) PROVE IInv'
<1> USE DEF IInv
<1>1. /\ secrets[part] < LastVersion[part]
      /\ secrets' = [secrets EXCEPT ![part] = @ + 1]
      /\ rotated' = rotated \cup {r \in Requests : pc[r] \in Reading}
      /\ changed' = [changed EXCEPT ![part][secrets[part]] = now]
      /\ UNCHANGED <<now, cached, cachedAt, waiting, pc, acl, outcome, arrived, earlier, slowest>>
    BY DEF Rotate, cache
<1>2. /\ \A p \in Parts : secrets'[p] = IF p = part THEN secrets[p] + 1 ELSE secrets[p]
      /\ secrets' \in [Parts -> Nat \ {Unread}]
    BY <1>1, AclParts, SMT DEF TypeOK, Unread
<1>3. /\ ChangesArePerPart'
      /\ \A p \in Parts : p # part => changed'[p] = changed[p]
      /\ changed'[part] = [changed[part] EXCEPT ![secrets[part]] = now]
    BY <1>1 DEF ChangesArePerPart
<1>4. /\ secrets[part] \in 1 .. LastVersion[part]
      /\ changed[part] \in [1 .. LastVersion[part] -> Nat]
      /\ now \in Nat
    BY <1>1, AclParts, SMT DEF TypeOK
<1>5. /\ changed'[part] \in [1 .. LastVersion[part] -> Nat]
      /\ changed'[part][secrets[part]] = now
      /\ \A v \in 1 .. LastVersion[part] : v # secrets[part] => changed'[part][v] = changed[part][v]
    BY <1>3, <1>4
<1>6. TypeOK'
    BY <1>1, <1>2, <1>3, <1>5 DEF TypeOK
<1>7. MutexIsHandedOn' /\ WaitsOnce' /\ PartsRead' /\ EarlierAreThrough' /\ NeverBack' /\ Past'
      /\ FailedAreDone'
    BY <1>1 DEF MutexIsHandedOn, HasMutex, WaitsOnce, PartsRead, EarlierAreThrough, NeverBack, Got,
                Valid, Past, FailedAreDone
<1>8. ReadsAreCurrent'
    BY <1>1 DEF ReadsAreCurrent
<1>9. VersionsExist'
    BY <1>1, <1>2, AclParts, SMT DEF VersionsExist
<1>10. CachedIsValid' /\ ReadsAreNewer' /\ CacheCovers'
    BY <1>1 DEF CachedIsValid, ReadsAreNewer, CacheCovers, Got, Valid
<1>11. ASSUME NEW p \in Parts, NEW v \in Nat \ {0}, v <= secrets[p], v # secrets'[p]
       PROVE  \/ v = secrets[p] /\ changed'[p][v] = now
              \/ v # secrets[p] /\ changed'[p][v] = changed[p][v]
    BY <1>2, <1>3, <1>4, <1>5, <1>11, AclParts, SMT DEF VersionsExist
<1>12. ReadBeforeChange'
    <2> SUFFICES ASSUME NEW r \in Requests, NEW p \in Parts, pc[r] \in Reading,
                        acl[r][p] # Unread, acl[r][p] # secrets'[p]
                 PROVE  arrived[r] <= changed'[p][acl[r][p]]
        BY <1>1 DEF ReadBeforeChange
    <2>1. acl[r][p] \in Nat \ {0} /\ acl[r][p] <= secrets[p]
        BY AclParts DEF VersionsExist, Unread
    <2> QED BY <2>1, <1>11 DEF ReadBeforeChange, Past
<1>13. CachedBeforeChange'
    <2> SUFFICES ASSUME cached # NoAcl, NEW p \in Parts, cached[p] # secrets'[p]
                 PROVE  cachedAt <= changed'[p][cached[p]] + slowest
        BY <1>1 DEF CachedBeforeChange
    <2>1. cached[p] \in Nat \ {0} /\ cached[p] <= secrets[p]
        BY AclParts DEF VersionsExist, Unread
    <2>2. cachedAt <= now /\ cachedAt \in Nat /\ now \in Nat /\ slowest \in Nat
        BY DEF Past, TypeOK
    <2> QED BY <2>1, <2>2, <1>11, SMT DEF CachedBeforeChange
<1>14. ReplacedGoesOutOfUse'
    <2> SUFFICES ASSUME NEW r \in Requests, NEW p \in Parts, Got(r),
                        acl[r][p] # Unread, acl[r][p] # secrets'[p]
                 PROVE  arrived[r] <= changed'[p][acl[r][p]] + Ttl + slowest
        BY <1>1 DEF ReplacedGoesOutOfUse, Got
    <2>1. acl[r][p] \in Nat \ {0} /\ acl[r][p] <= secrets[p]
        BY AclParts DEF VersionsExist, Unread
    <2>2. arrived[r] <= now /\ arrived[r] \in Nat /\ now \in Nat /\ slowest \in Nat /\ Ttl \in Nat
        BY BoundsAssumption DEF Past, TypeOK
    <2> QED BY <2>1, <2>2, <1>11, SMT DEF ReplacedGoesOutOfUse
<1> QED BY <1>3, <1>6, <1>7, <1>8, <1>9, <1>10, <1>12, <1>13, <1>14

\* The clock goes on.
LEMMA TickStep == ASSUME IInv, Tick PROVE IInv'
<1> USE DEF IInv
<1>1. /\ now' = now + 1 /\ now \in Nat /\ now' \in Nat
      /\ UNCHANGED <<secrets, cached, cachedAt, waiting, pc, acl, outcome, arrived, earlier,
                     rotated, changed, slowest>>
    BY DEF Tick, cache, history, TypeOK
<1>2. TypeOK'
    BY <1>1 DEF TypeOK
<1>3. ChangesArePerPart' /\ MutexIsHandedOn' /\ WaitsOnce' /\ PartsRead' /\ ReadsAreCurrent'
      /\ VersionsExist' /\ CachedIsValid' /\ ReadsAreNewer' /\ CacheCovers'
      /\ EarlierAreThrough' /\ NeverBack' /\ FailedAreDone'
    BY <1>1 DEF FailedAreDone, ChangesArePerPart, MutexIsHandedOn, HasMutex, WaitsOnce, PartsRead,
                ReadsAreCurrent, VersionsExist, CachedIsValid, ReadsAreNewer, CacheCovers,
                EarlierAreThrough, NeverBack, Got, Valid
<1>4. Past'
    BY <1>1, SMT DEF Past, TypeOK
<1>5. ReadBeforeChange' /\ CachedBeforeChange' /\ ReplacedGoesOutOfUse'
    BY <1>1 DEF ReadBeforeChange, CachedBeforeChange, ReplacedGoesOutOfUse, Got
<1> QED BY <1>2, <1>3, <1>4, <1>5

\* A request that finds an ACL in the cache gets what covers all before it (lines 54-57).
LEMMA GetCachedStep == ASSUME IInv, NEW r \in Requests, GetCached(r) PROVE IInv'
<1> USE DEF IInv
<1>1. /\ pc[r] = "start" /\ cached # NoAcl /\ now <= cachedAt + Ttl
      /\ acl' = [acl EXCEPT ![r] = cached]
      /\ pc' = [pc EXCEPT ![r] = "verify"]
      /\ arrived' = [arrived EXCEPT ![r] = now]
      /\ earlier' = [earlier EXCEPT ![r] = {s \in Requests : pc[s] \in {"verify", "done"}}]
      /\ UNCHANGED <<secrets, now, cached, cachedAt, waiting, outcome, rotated, changed, slowest>>
    BY DEF GetCached, Live, CacheExpirationTime, Goto, Arrive, vault, cache
<1>2. /\ acl' \in [Requests -> Acls] /\ acl'[r] = cached
      /\ pc'[r] = "verify" /\ arrived'[r] = now
      /\ earlier'[r] = {s \in Requests : pc[s] \in {"verify", "done"}}
      /\ \A q \in Requests : q # r => /\ acl'[q] = acl[q] /\ pc'[q] = pc[q]
                                      /\ arrived'[q] = arrived[q] /\ earlier'[q] = earlier[q]
    BY <1>1 DEF TypeOK
<1>3. TypeOK'
    BY <1>1, <1>2 DEF TypeOK
<1>4. ChangesArePerPart' /\ WaitsOnce' /\ CachedIsValid' /\ CachedBeforeChange'
    BY <1>1 DEF ChangesArePerPart, WaitsOnce, CachedIsValid, Valid, CachedBeforeChange
<1>5. MutexIsHandedOn'
    BY <1>1, <1>2 DEF MutexIsHandedOn, HasMutex, Reading
<1>6. PartsRead' /\ ReadsAreCurrent' /\ ReadsAreNewer' /\ ReadBeforeChange'
    BY <1>1, <1>2 DEF PartsRead, ReadsAreCurrent, ReadsAreNewer, ReadBeforeChange, Reading
<1>7. VersionsExist'
    BY <1>1, <1>2 DEF VersionsExist
<1>8. CacheCovers'
    <2>1. \A p \in Parts : cached[p] <= cached[p]
        BY <1>1, AclParts, SMT
    <2> QED BY <1>1, <1>2, <2>1 DEF CacheCovers, Got, Valid
<1>9. EarlierAreThrough' /\ FailedAreDone'
    BY <1>1, <1>2 DEF EarlierAreThrough, FailedAreDone
<1>10. NeverBack'
    <2> SUFFICES ASSUME NEW q \in Requests, NEW s \in earlier'[q], Got(q)', Got(s)',
                        Valid(acl'[s]), NEW p \in Parts
                 PROVE  acl'[q][p] = Unread \/ acl'[s][p] <= acl'[q][p]
        BY DEF NeverBack, Valid
    <2>1. s \in Requests /\ s # r
        BY <1>1, <1>2 DEF EarlierAreThrough, TypeOK
    <2>2. acl'[s] = acl[s] /\ Got(s) /\ Valid(acl[s])
        BY <1>1, <1>2, <2>1 DEF Got, Valid
    <2>3. CASE q = r
        BY <1>1, <1>2, <2>1, <2>2, <2>3 DEF CacheCovers
    <2>4. CASE q # r
        BY <1>1, <1>2, <2>1, <2>2, <2>4 DEF NeverBack, Got
    <2> QED BY <2>3, <2>4
<1>11. Past'
    BY <1>1, <1>2, SMT DEF Past, TypeOK
<1>12. ReplacedGoesOutOfUse'
    <2> SUFFICES ASSUME NEW q \in Requests, NEW p \in Parts, Got(q)',
                        acl'[q][p] # Unread, acl'[q][p] # secrets[p]
                 PROVE  arrived'[q] <= changed[p][acl'[q][p]] + Ttl + slowest
        BY <1>1 DEF ReplacedGoesOutOfUse
    <2>1. CASE q = r
        <3>1. cachedAt <= changed[p][cached[p]] + slowest
            BY <1>1, <1>2, <2>1 DEF CachedBeforeChange
        <3>2. changed[p][cached[p]] \in Nat
            BY <1>1, <1>2, <2>1, AclParts, SMT DEF VersionsExist, Unread
        <3>3. now \in Nat /\ cachedAt \in Nat /\ slowest \in Nat /\ Ttl \in Nat
            BY BoundsAssumption DEF TypeOK
        <3> QED BY <1>1, <1>2, <2>1, <3>1, <3>2, <3>3, SMT
    <2>2. CASE q # r
        BY <1>1, <1>2, <2>2 DEF ReplacedGoesOutOfUse, Got
    <2> QED BY <2>1, <2>2
<1> QED BY <1>3, <1>4, <1>5, <1>6, <1>7, <1>8, <1>9, <1>10, <1>11, <1>12

\* A request that finds nothing there waits for the mutex (lines 59-63).
LEMMA AcquireStep == ASSUME IInv, NEW r \in Requests, Acquire(r) PROVE IInv'
<1> USE DEF IInv
<1>1. /\ pc[r] = "start"
      /\ waiting' = Append(waiting, r)
      /\ pc' = [pc EXCEPT ![r] = "issuer"]
      /\ arrived' = [arrived EXCEPT ![r] = now]
      /\ earlier' = [earlier EXCEPT ![r] = {s \in Requests : pc[s] \in {"verify", "done"}}]
      /\ UNCHANGED <<secrets, now, cached, cachedAt, acl, outcome, rotated, changed, slowest>>
    BY DEF Acquire, Goto, Arrive, vault, cache
<1>2. /\ pc'[r] = "issuer" /\ arrived'[r] = now
      /\ earlier'[r] = {s \in Requests : pc[s] \in {"verify", "done"}}
      /\ \A q \in Requests : q # r => /\ pc'[q] = pc[q] /\ arrived'[q] = arrived[q]
                                      /\ earlier'[q] = earlier[q]
    BY <1>1 DEF TypeOK
<1>3. /\ waiting' \in Seq(Requests) /\ WaitsOnce'
      /\ \A q \in Requests : HasMutex(q) => HasMutex(q)'
      /\ \A q \in Requests : (\E i \in DOMAIN waiting' : waiting'[i] = q) <=>
                                 q = r \/ \E i \in DOMAIN waiting : waiting[i] = q
    <2>1. ~ \E i \in DOMAIN waiting : waiting[i] = r
        BY <1>1 DEF MutexIsHandedOn, Reading
    <2>2. waiting \in Seq(Requests) /\ WaitsOnce
        BY DEF TypeOK
    <2>3. waiting' = Append(waiting, r)
        BY <1>1
    <2> QED BY <2>1, <2>2, <2>3, QueueingUp
<1>4. TypeOK'
    BY <1>1, <1>2, <1>3 DEF TypeOK
<1>5. ChangesArePerPart' /\ CachedIsValid' /\ CachedBeforeChange' /\ VersionsExist'
    BY <1>1 DEF ChangesArePerPart, CachedIsValid, Valid, CachedBeforeChange, VersionsExist
<1>6. MutexIsHandedOn'
    BY <1>1, <1>2, <1>3 DEF MutexIsHandedOn, Reading
<1>7. PartsRead' /\ ReadsAreCurrent' /\ ReadsAreNewer' /\ ReadBeforeChange'
    BY <1>1, <1>2 DEF PartsRead, ReadsAreCurrent, ReadsAreNewer, ReadBeforeChange, Reading
<1>8. CacheCovers' /\ ReplacedGoesOutOfUse'
    BY <1>1, <1>2 DEF CacheCovers, ReplacedGoesOutOfUse, Got, Valid
<1>9. EarlierAreThrough' /\ FailedAreDone'
    BY <1>1, <1>2 DEF EarlierAreThrough, FailedAreDone
<1>10. NeverBack'
    <2> SUFFICES ASSUME NEW q \in Requests, NEW s \in earlier'[q], Got(q)', Got(s)',
                        Valid(acl[s]), NEW p \in Parts
                 PROVE  acl[q][p] = Unread \/ acl[s][p] <= acl[q][p]
        BY <1>1 DEF NeverBack, Valid
    <2>1. q # r
        BY <1>2 DEF Got
    <2>2. s \in earlier[q]
        BY <1>2, <2>1
    <2>3. s \in Requests
        BY <2>2 DEF TypeOK
    <2>4. s # r
        BY <1>1, <2>2 DEF EarlierAreThrough
    <2>5. Got(q) /\ Got(s)
        BY <1>1, <1>2, <2>1, <2>3, <2>4 DEF Got
    <2> QED BY <2>2, <2>5 DEF NeverBack
<1>11. Past'
    BY <1>1, <1>2, SMT DEF Past, TypeOK
<1> QED BY <1>3, <1>4, <1>5, <1>6, <1>7, <1>8, <1>9, <1>10, <1>11

\* Reading a secret under the mutex: what is read is as new as it gets (lines 74-93).
LEMMA ReadStep ==
    ASSUME IInv, NEW r \in Requests, NEW part \in Parts, NEW next \in Reading,
           HasMutex(r), Read(r, part, next),
           \/ pc[r] = "issuer" /\ part = "issuer" /\ next = "publicKeys"
           \/ pc[r] = "publicKeys" /\ part = "publicKeys" /\ next = "entries"
           \/ pc[r] = "entries" /\ part = "entries" /\ next = "store"
    PROVE  IInv'
<1> USE DEF IInv
<1>1. /\ acl' = [acl EXCEPT ![r][part] = secrets[part]]
      /\ pc' = [pc EXCEPT ![r] = next]
      /\ UNCHANGED <<secrets, now, cached, cachedAt, waiting, outcome, arrived, earlier, rotated,
                     changed, slowest>>
    BY DEF Read, Goto, vault, cache, history
<1>2. /\ acl[r] \in [Parts -> Nat] /\ secrets[part] \in Nat \ {Unread}
    BY AclParts DEF TypeOK, Acls, Unread
<1>3. /\ acl'[r] = [acl[r] EXCEPT ![part] = secrets[part]] /\ acl'[r] \in Acls
      /\ acl'[r][part] = secrets[part]
      /\ \A p \in Parts : p # part => acl'[r][p] = acl[r][p]
      /\ pc'[r] = next
      /\ \A q \in Requests : q # r => acl'[q] = acl[q] /\ pc'[q] = pc[q]
      /\ acl' \in [Requests -> Acls]
    BY <1>1, <1>2 DEF TypeOK, Acls
<1>4. \A q \in Requests : q # r => pc[q] \notin Reading
    BY DEF MutexIsHandedOn, HasMutex
<1>5. TypeOK'
    BY <1>1, <1>3 DEF TypeOK, Reading
<1>6. ChangesArePerPart' /\ WaitsOnce' /\ CachedIsValid' /\ CachedBeforeChange' /\ Past'
    BY <1>1 DEF ChangesArePerPart, WaitsOnce, CachedIsValid, Valid, CachedBeforeChange, Past
<1>7. MutexIsHandedOn'
    BY <1>1, <1>3 DEF MutexIsHandedOn, HasMutex, Reading
<1>8. PartsRead'
    <2> SUFFICES ASSUME NEW q \in Requests
                 PROVE  /\ pc'[q] \in {"start", "issuer"} => \A p \in Parts : acl'[q][p] = Unread
                        /\ pc'[q] \in Reading => acl'[q]["issuer"] # Unread
                        /\ pc'[q] \in Reading \ {"publicKeys"} => acl'[q]["publicKeys"] # Unread
                        /\ pc'[q] = "publicKeys" => acl'[q]["publicKeys"] = Unread
                        /\ pc'[q] \in {"publicKeys", "entries"} => acl'[q]["entries"] = Unread
        BY DEF PartsRead
    <2>1. CASE q = r
        BY <1>2, <1>3, <2>1 DEF PartsRead, Reading, Parts
    <2>2. CASE q # r
        BY <1>3, <2>2 DEF PartsRead
    <2> QED BY <2>1, <2>2
<1>9. \A p \in Parts : pc[r] \notin Reading => acl[r][p] = Unread
    BY DEF PartsRead, Reading
<1>10. ReadsAreCurrent'
    BY <1>1, <1>3, <1>4, <1>9 DEF ReadsAreCurrent
<1>11. VersionsExist'
    <2>1. secrets[part] <= secrets[part]
        BY <1>2, SMT
    <2> QED BY <1>1, <1>3, <2>1 DEF VersionsExist
<1>12. ReadsAreNewer'
    <2> SUFFICES ASSUME cached # NoAcl, NEW q \in Requests, NEW p \in Parts, pc'[q] \in Reading
                 PROVE  acl'[q][p] = Unread \/ cached[p] <= acl'[q][p]
        BY <1>1 DEF ReadsAreNewer
    <2>1. q = r
        BY <1>3, <1>4
    <2>2. CASE p = part
        BY <1>3, <2>1, <2>2 DEF VersionsExist
    <2>3. CASE p # part
        BY <1>3, <1>9, <2>1, <2>3 DEF ReadsAreNewer
    <2> QED BY <2>2, <2>3
<1>13. pc[r] \notin {"start", "verify", "done"} /\ next \notin {"start", "verify", "done"}
    BY DEF Reading
<1>14. CacheCovers' /\ ReplacedGoesOutOfUse'
    BY <1>1, <1>3, <1>13 DEF CacheCovers, ReplacedGoesOutOfUse, Got, Valid
<1>15. EarlierAreThrough'
    <2>1. \A q \in Requests : pc[q] \in {"verify", "done"} => pc'[q] = pc[q]
        BY <1>3, <1>13
    <2>2. \A q \in Requests : pc'[q] = "start" => pc[q] = "start"
        BY <1>3, <1>13
    <2>3. earlier' = earlier /\ \A q \in Requests : earlier[q] \subseteq Requests
        BY <1>1 DEF TypeOK
    <2> QED BY <2>1, <2>2, <2>3 DEF EarlierAreThrough
<1>16. FailedAreDone'
    BY <1>1, <1>3, <1>13 DEF FailedAreDone
<1>17. NeverBack'
    <2> SUFFICES ASSUME NEW q \in Requests, NEW s \in earlier[q], Got(q)', Got(s)',
                        Valid(acl'[s]), NEW p \in Parts
                 PROVE  acl'[q][p] = Unread \/ acl'[s][p] <= acl'[q][p]
        BY <1>1 DEF NeverBack, Valid
    <2>1. s \in Requests /\ q # r /\ s # r
        BY <1>3, <1>13 DEF TypeOK, Got
    <2>2. Got(q) /\ Got(s) /\ acl'[q] = acl[q] /\ acl'[s] = acl[s]
        BY <1>1, <1>3, <2>1 DEF Got
    <2> QED BY <2>2 DEF NeverBack, Valid
<1>18. ReadBeforeChange'
    BY <1>1, <1>3, <1>4, <1>9 DEF ReadBeforeChange
<1> QED BY <1>5, <1>6, <1>7, <1>8, <1>10, <1>11, <1>12, <1>14, <1>15, <1>16, <1>17, <1>18

\* An ACL without entries is read on (getAclEntries, lines 95-101).
LEMMA EntriesFailStep == ASSUME IInv, NEW r \in Requests, EntriesFail(r) PROVE IInv'
<1> USE DEF IInv
<1>1. /\ pc[r] = "entries"
      /\ pc' = [pc EXCEPT ![r] = "store"]
      /\ UNCHANGED <<secrets, now, cached, cachedAt, waiting, acl, outcome, arrived, earlier,
                     rotated, changed, slowest>>
    BY DEF EntriesFail, Goto, vault, cache, history
<1>2. pc'[r] = "store" /\ \A q \in Requests : q # r => pc'[q] = pc[q]
    BY <1>1 DEF TypeOK
<1>3. TypeOK'
    BY <1>1 DEF TypeOK, Reading
<1>4. ChangesArePerPart' /\ WaitsOnce' /\ CachedIsValid' /\ CachedBeforeChange' /\ Past'
      /\ VersionsExist'
    BY <1>1 DEF ChangesArePerPart, WaitsOnce, CachedIsValid, Valid, CachedBeforeChange, Past,
                VersionsExist
<1>5. \A q \in Requests : pc'[q] \in Reading <=> pc[q] \in Reading
    BY <1>1, <1>2 DEF Reading
<1>6. MutexIsHandedOn'
    BY <1>1, <1>2 DEF MutexIsHandedOn, HasMutex, Reading
<1>7. PartsRead'
    BY <1>1, <1>2 DEF PartsRead, Reading
<1>8. ReadsAreCurrent' /\ ReadsAreNewer' /\ ReadBeforeChange'
    BY <1>1, <1>5 DEF ReadsAreCurrent, ReadsAreNewer, ReadBeforeChange
<1>9. CacheCovers' /\ ReplacedGoesOutOfUse' /\ EarlierAreThrough' /\ NeverBack'
      /\ FailedAreDone'
    BY <1>1, <1>2 DEF CacheCovers, ReplacedGoesOutOfUse, EarlierAreThrough, NeverBack, Got, Valid,
                      FailedAreDone
<1> QED BY <1>3, <1>4, <1>6, <1>7, <1>8, <1>9

\* A request that fails leaves the mutex to the next one (lines 63, 74-75).
LEMMA ReadThrowsStep == ASSUME IInv, NEW r \in Requests, ReadThrows(r) PROVE IInv'
<1> USE DEF IInv
<1>1. /\ pc[r] \in {"issuer", "publicKeys"} /\ HasMutex(r) /\ Release
      /\ outcome' = [outcome EXCEPT ![r] = "failed"]
      /\ pc' = [pc EXCEPT ![r] = "done"]
      /\ UNCHANGED <<secrets, now, cached, cachedAt, acl, arrived, earlier, rotated, changed,
                     slowest>>
    BY DEF ReadThrows, Finish, Goto, vault, cache, history, MutexIsHandedOn, Reading
<1>2. /\ pc'[r] = "done" /\ outcome'[r] = "failed"
      /\ \A q \in Requests : q # r => pc'[q] = pc[q] /\ outcome'[q] = outcome[q]
    BY <1>1 DEF TypeOK
<1>3. /\ waiting' \in Seq(Requests)
      /\ WaitsOnce'
      /\ \A q \in Requests :
             (\E i \in DOMAIN waiting' : waiting'[i] = q) <=>
                 q # r /\ \E i \in DOMAIN waiting : waiting[i] = q
    BY <1>1, HandingOn DEF TypeOK
<1>4. \A q \in Requests : q # r => pc[q] \notin Reading
    BY <1>1 DEF MutexIsHandedOn, HasMutex
<1>5. TypeOK'
    BY <1>1, <1>3 DEF TypeOK
<1>6. MutexIsHandedOn'
    BY <1>2, <1>3, <1>4 DEF MutexIsHandedOn, Reading
<1>7. ChangesArePerPart' /\ CachedIsValid' /\ CachedBeforeChange' /\ Past' /\ VersionsExist'
    BY <1>1 DEF ChangesArePerPart, CachedIsValid, Valid, CachedBeforeChange, Past, VersionsExist
<1>8. PartsRead' /\ ReadsAreCurrent' /\ ReadsAreNewer' /\ ReadBeforeChange'
    BY <1>1, <1>2 DEF PartsRead, ReadsAreCurrent, ReadsAreNewer, ReadBeforeChange, Reading
<1>9. CacheCovers' /\ ReplacedGoesOutOfUse' /\ EarlierAreThrough' /\ NeverBack'
      /\ FailedAreDone'
    BY <1>1, <1>2 DEF CacheCovers, ReplacedGoesOutOfUse, EarlierAreThrough, NeverBack, Got, Valid,
                      FailedAreDone
<1> QED BY <1>3, <1>5, <1>6, <1>7, <1>8, <1>9

\* What a request caches covers what was cached before (lines 64-69).
LEMMA StoreStep == ASSUME IInv, NEW r \in Requests, Store(r) PROVE IInv'
<1> USE DEF IInv
<1>1. /\ pc[r] = "store" /\ HasMutex(r) /\ Release
      /\ \/ Valid(acl[r]) /\ cached' = acl[r] /\ cachedAt' = now
         \/ ~Valid(acl[r]) /\ UNCHANGED <<cached, cachedAt>>
      /\ slowest' = IF now - arrived[r] > slowest THEN now - arrived[r] ELSE slowest
      /\ pc' = [pc EXCEPT ![r] = "verify"]
      /\ UNCHANGED <<secrets, now, acl, outcome, arrived, earlier, rotated, changed>>
    BY DEF Store, Goto, vault, cache, MutexIsHandedOn, Reading
<1>2. pc'[r] = "verify" /\ \A q \in Requests : q # r => pc'[q] = pc[q]
    BY <1>1 DEF TypeOK
<1>3. /\ waiting' \in Seq(Requests)
      /\ WaitsOnce'
      /\ \A q \in Requests :
             (\E i \in DOMAIN waiting' : waiting'[i] = q) <=>
                 q # r /\ \E i \in DOMAIN waiting : waiting[i] = q
    BY <1>1, HandingOn DEF TypeOK
<1>4. \A q \in Requests : q # r => pc[q] \notin Reading
    BY <1>1 DEF MutexIsHandedOn, HasMutex
<1>5. \A q \in Requests : pc'[q] \notin Reading
    BY <1>2, <1>4 DEF Reading
<1>6. /\ slowest' \in Nat /\ slowest <= slowest' /\ now <= arrived[r] + slowest'
      /\ now \in Nat /\ arrived[r] \in Nat /\ slowest \in Nat /\ cachedAt \in Nat
    BY <1>1, SMT DEF TypeOK, Past
<1>7. acl[r] \in Acls /\ acl[r] # NoAcl /\ \A p \in Parts : acl[r][p] \in Nat
    BY NoAclAssumption, AclParts DEF TypeOK
<1>8. TypeOK'
    BY <1>1, <1>3, <1>6, <1>7 DEF TypeOK
<1>9. MutexIsHandedOn'
    BY <1>2, <1>3, <1>4, <1>5 DEF MutexIsHandedOn, Reading
<1>10. ChangesArePerPart' /\ CachedIsValid'
    BY <1>1 DEF ChangesArePerPart, CachedIsValid, Valid
<1>11. Past'
    BY <1>1, <1>6, SMT DEF Past
<1>12. PartsRead' /\ ReadsAreCurrent' /\ ReadsAreNewer' /\ ReadBeforeChange'
    BY <1>1, <1>2, <1>5 DEF PartsRead, ReadsAreCurrent, ReadsAreNewer, ReadBeforeChange
<1>13. VersionsExist'
    BY <1>1 DEF VersionsExist, Valid
<1>14. ASSUME NEW s \in Requests, Got(s), Valid(acl[s]), NEW p \in Parts
       PROVE  acl[r][p] = Unread \/ acl[s][p] <= acl[r][p]
    <2>1. cached # NoAcl /\ acl[s][p] <= cached[p]
        BY <1>14 DEF CacheCovers
    <2>2. acl[r][p] = Unread \/ cached[p] <= acl[r][p]
        BY <1>1, <2>1 DEF ReadsAreNewer, Reading
    <2>3. acl[s][p] \in Nat /\ acl[r][p] \in Nat /\ cached[p] \in Nat
        BY <2>1, AclParts
    <2> QED BY <2>1, <2>2, <2>3, SMT
<1>15. CacheCovers'
    <2> SUFFICES ASSUME NEW s \in Requests, Got(s)', Valid(acl[s])
                 PROVE  cached' # NoAcl /\ \A p \in Parts : acl[s][p] <= cached'[p]
        BY <1>1 DEF CacheCovers, Valid
    <2>1. CASE s = r
        <3>1. cached' = acl[r]
            BY <1>1, <2>1
        <3>2. \A p \in Parts : acl[r][p] <= acl[r][p]
            BY <1>7, SMT
        <3> QED BY <1>7, <2>1, <3>1, <3>2
    <2>2. CASE s # r
        <3>1. Got(s)
            BY <1>1, <1>2, <2>2 DEF Got
        <3>2. CASE Valid(acl[r])
            BY <1>1, <1>7, <1>14, <3>1, <3>2 DEF Valid
        <3>3. CASE ~Valid(acl[r])
            BY <1>1, <3>1, <3>3 DEF CacheCovers
        <3> QED BY <3>2, <3>3
    <2> QED BY <2>1, <2>2
<1>16. EarlierAreThrough' /\ FailedAreDone'
    BY <1>1, <1>2 DEF EarlierAreThrough, FailedAreDone
<1>17. NeverBack'
    <2> SUFFICES ASSUME NEW q \in Requests, NEW s \in earlier[q], Got(q)', Got(s)',
                        Valid(acl[s]), NEW p \in Parts
                 PROVE  acl[q][p] = Unread \/ acl[s][p] <= acl[q][p]
        BY <1>1 DEF NeverBack, Valid
    <2>1. s \in Requests /\ Got(s)
        BY <1>1, <1>2 DEF EarlierAreThrough, TypeOK, Got
    <2>2. CASE q = r
        BY <1>14, <2>1, <2>2
    <2>3. CASE q # r
        BY <1>1, <1>2, <2>1, <2>3 DEF NeverBack, Got
    <2> QED BY <2>2, <2>3
<1>18. CachedBeforeChange'
    <2> SUFFICES ASSUME cached' # NoAcl, NEW p \in Parts, cached'[p] # secrets[p]
                 PROVE  cachedAt' <= changed[p][cached'[p]] + slowest'
        BY <1>1 DEF CachedBeforeChange
    <2>1. cached'[p] \in Nat \ {0} /\ cached'[p] <= secrets[p]
        <3>1. cached' \in Acls
            BY <1>8 DEF TypeOK
        <3>2. cached'[p] # Unread /\ cached'[p] <= secrets[p]
            BY <1>1, <1>13 DEF VersionsExist
        <3> QED BY <3>1, <3>2 DEF Acls, Unread
    <2>2. changed[p][cached'[p]] \in Nat
        BY <2>1, ExistingChanges
    <2>3. CASE Valid(acl[r])
        <3>1. cached' = acl[r] /\ cachedAt' = now
            BY <1>1, <2>3
        <3>2. arrived[r] <= changed[p][cached'[p]]
            BY <1>1, <2>1, <3>1 DEF ReadBeforeChange, Reading, Unread
        <3> QED BY <1>6, <2>2, <3>1, <3>2, SMT
    <2>4. CASE ~Valid(acl[r])
        <3>1. cached' = cached /\ cachedAt' = cachedAt
            BY <1>1, <2>4
        <3>2. cachedAt <= changed[p][cached[p]] + slowest
            BY <3>1 DEF CachedBeforeChange
        <3> QED BY <1>6, <2>2, <3>1, <3>2, SMT
    <2> QED BY <2>3, <2>4
<1>19. ReplacedGoesOutOfUse'
    <2> SUFFICES ASSUME NEW q \in Requests, NEW p \in Parts, Got(q)',
                        acl[q][p] # Unread, acl[q][p] # secrets[p]
                 PROVE  arrived[q] <= changed[p][acl[q][p]] + Ttl + slowest'
        BY <1>1 DEF ReplacedGoesOutOfUse
    <2>1. changed[p][acl[q][p]] \in Nat
        <3>1. acl[q][p] \in Nat \ {0} /\ acl[q][p] <= secrets[p]
            BY AclParts DEF VersionsExist, Unread
        <3> QED BY <3>1, ExistingChanges
    <2>4. arrived[q] \in Nat /\ Ttl \in Nat
        BY BoundsAssumption DEF TypeOK
    <2>2. CASE q = r
        <3>1. arrived[q] <= changed[p][acl[q][p]]
            BY <1>1, <2>2 DEF ReadBeforeChange, Reading
        <3> QED BY <1>6, <2>1, <2>4, <3>1, SMT
    <2>3. CASE q # r
        <3>1. arrived[q] <= changed[p][acl[q][p]] + Ttl + slowest
            BY <1>1, <1>2, <2>3 DEF ReplacedGoesOutOfUse, Got
        <3> QED BY <1>6, <2>1, <2>4, <3>1, SMT
    <2> QED BY <2>2, <2>3
<1> QED BY <1>3, <1>8, <1>9, <1>10, <1>11, <1>12, <1>13, <1>15, <1>16, <1>17, <1>18, <1>19

\* The decision about a request changes nothing but the request (azure-ad-auth.ts).
LEMMA VerifyStep == ASSUME IInv, NEW r \in Requests, Verify(r) PROVE IInv'
<1> USE DEF IInv
<1>1. PICK granted \in BOOLEAN :
          outcome' = [outcome EXCEPT ![r] = IF granted THEN "granted" ELSE "denied"]
    BY DEF Verify, Finish
<1>2. /\ pc[r] = "verify"
      /\ pc' = [pc EXCEPT ![r] = "done"]
      /\ UNCHANGED <<secrets, now, cached, cachedAt, waiting, acl, arrived, earlier, rotated,
                     changed, slowest>>
    BY DEF Verify, Goto, vault, cache, history
<1>3. /\ pc'[r] = "done" /\ \A q \in Requests : q # r => pc'[q] = pc[q]
      /\ outcome' \in [Requests -> {"pending", "granted", "denied", "failed"}]
      /\ \A q \in Requests : q # r => outcome'[q] = outcome[q]
    BY <1>1, <1>2 DEF TypeOK
<1>4. TypeOK'
    BY <1>2, <1>3 DEF TypeOK
<1>5. \A q \in Requests : Got(q)' => Got(q)
    BY <1>2, <1>3 DEF Got, FailedAreDone
<1>6. ChangesArePerPart' /\ WaitsOnce' /\ CachedIsValid' /\ CachedBeforeChange' /\ Past'
      /\ VersionsExist'
    BY <1>2 DEF ChangesArePerPart, WaitsOnce, CachedIsValid, Valid, CachedBeforeChange, Past,
                VersionsExist
<1>7. MutexIsHandedOn' /\ PartsRead' /\ ReadsAreCurrent' /\ ReadsAreNewer' /\ ReadBeforeChange'
    BY <1>2, <1>3 DEF MutexIsHandedOn, HasMutex, PartsRead, ReadsAreCurrent, ReadsAreNewer,
                      ReadBeforeChange, Reading
<1>8. EarlierAreThrough' /\ FailedAreDone'
    BY <1>2, <1>3 DEF EarlierAreThrough, FailedAreDone
<1>9. CacheCovers' /\ ReplacedGoesOutOfUse'
    BY <1>2, <1>5 DEF CacheCovers, ReplacedGoesOutOfUse, Valid
<1>10. NeverBack'
    <2> SUFFICES ASSUME NEW q \in Requests, NEW s \in earlier[q], Got(q)', Got(s)',
                        Valid(acl[s]), NEW p \in Parts
                 PROVE  acl[q][p] = Unread \/ acl[s][p] <= acl[q][p]
        BY <1>2 DEF NeverBack, Valid
    <2>1. s \in Requests
        BY DEF TypeOK
    <2> QED BY <1>5, <2>1 DEF NeverBack
<1> QED BY <1>4, <1>6, <1>7, <1>8, <1>9, <1>10

\* Every step keeps the invariant: one lemma for each action.
LEMMA NextInv == IInv /\ [Next]_vars => IInv'
<1> SUFFICES ASSUME IInv, [Next]_vars PROVE IInv'
    OBVIOUS
<1>1. CASE \E p \in Parts : Rotate(p)
    BY <1>1, RotateStep
<1>2. CASE Tick
    BY <1>2, TickStep
<1>3. ASSUME NEW r \in Requests, Step(r) PROVE IInv'
    <2> MutexIsHandedOn
        BY DEF IInv
    <2>1. CASE GetCached(r)
        BY <2>1, GetCachedStep
    <2>2. CASE Acquire(r)
        BY <2>2, AcquireStep
    <2>3. CASE ReadIssuer(r)
        BY <2>3, ReadStep DEF ReadIssuer, Parts, Reading
    <2>4. CASE ReadPublicKeys(r)
        BY <2>4, ReadStep DEF ReadPublicKeys, Parts, Reading, MutexIsHandedOn
    <2>5. CASE ReadEntries(r)
        BY <2>5, ReadStep DEF ReadEntries, Parts, Reading, MutexIsHandedOn
    <2>6. CASE EntriesFail(r)
        BY <2>6, EntriesFailStep
    <2>7. CASE ReadThrows(r)
        BY <2>7, ReadThrowsStep
    <2>8. CASE Store(r)
        BY <2>8, StoreStep
    <2>9. CASE Verify(r)
        BY <2>9, VerifyStep
    <2> QED BY <1>3, <2>1, <2>2, <2>3, <2>4, <2>5, <2>6, <2>7, <2>8, <2>9 DEF Step
<1>4. CASE UNCHANGED vars
    <2>1. UNCHANGED <<secrets, now, cached, cachedAt, waiting, pc, acl, outcome, arrived, earlier,
                      rotated, changed, slowest>>
        BY <1>4 DEF vars
    <2>2. TypeOK' /\ ChangesArePerPart' /\ MutexIsHandedOn' /\ WaitsOnce'
        BY <2>1 DEF IInv, TypeOK, ChangesArePerPart, MutexIsHandedOn, HasMutex, WaitsOnce
    <2>3. PartsRead' /\ ReadsAreCurrent' /\ VersionsExist'
        BY <2>1 DEF IInv, PartsRead, ReadsAreCurrent, VersionsExist
    <2>4. CachedIsValid' /\ ReadsAreNewer' /\ CacheCovers'
        BY <2>1 DEF IInv, CachedIsValid, ReadsAreNewer, CacheCovers, Got, Valid
    <2>5. EarlierAreThrough' /\ NeverBack' /\ FailedAreDone' /\ Past'
        BY <2>1 DEF IInv, EarlierAreThrough, NeverBack, FailedAreDone, Past, Got, Valid
    <2>6. ReadBeforeChange' /\ CachedBeforeChange' /\ ReplacedGoesOutOfUse'
        BY <2>1 DEF IInv, ReadBeforeChange, CachedBeforeChange, ReplacedGoesOutOfUse, Got
    <2> QED BY <2>2, <2>3, <2>4, <2>5, <2>6 DEF IInv
<1> QED BY <1>1, <1>2, <1>3, <1>4 DEF Next

LEMMA Invariance == Spec => []IInv
<1> QED BY InitInv, NextInv, PTL DEF Spec

-------------------------------------------------------------------------------
\* Every reachable state is well typed: no request is ever left with a part of no version.
THEOREM TypeCorrect == Spec => []TypeOK
<1>1. IInv => TypeOK
    BY DEF IInv
<1> QED BY <1>1, Invariance, PTL

\* The mutex of getAcl() is with the request that reads, and everybody who waits for it
\* is in its queue, whatever fails (acl-provider.ts, line 63).
THEOREM MutexGoesOn == Spec => []MutexIsHandedOn
<1>1. IInv => MutexIsHandedOn
    BY DEF IInv
<1> QED BY <1>1, Invariance, PTL

\* A request never gets an ACL with a part older than one that was handed out before the
\* request came in, though the cache is not looked up again under the mutex (line 54).
THEOREM NeverGoesBack == Spec => []NeverBack
<1>1. IInv => NeverBack
    BY DEF IInv
<1> QED BY <1>1, Invariance, PTL

\* What is cached is valid, and an ACL whose read was not disturbed is that of the key
\* vault (lines 64-69 and 73-87).
THEOREM OnlySoundAcls == Spec => []AclsAreSound
<1>1. IInv => AclsAreSound
    <2> SUFFICES ASSUME IInv, NEW r \in Requests \ rotated, pc[r] = "store",
                        acl[r]["entries"] # Unread
                 PROVE  acl[r] = secrets
        BY DEF AclsAreSound, MixedOnlyByRotation, IInv
    <2>1. \A p \in Parts : acl[r][p] # Unread
        BY DEF IInv, PartsRead, Reading, Parts
    <2>2. \A p \in Parts : acl[r][p] = secrets[p]
        BY <2>1 DEF IInv, ReadsAreCurrent, Reading
    <2>3. acl[r] \in [Parts -> Nat] /\ secrets \in [Parts -> Nat \ {Unread}]
        BY DEF IInv, TypeOK, Acls
    <2> QED BY <2>2, <2>3
<1> QED BY <1>1, Invariance, PTL

\* A version that was replaced is out of use after the expiration time of the cache and
\* the time that the slowest read took (lines 40 and 66).
THEOREM OldVersionsExpire == Spec => []ReplacedGoesOutOfUse
<1>1. IInv => ReplacedGoesOutOfUse
    BY DEF IInv
<1> QED BY <1>1, Invariance, PTL
==============================================================================
