------------------------- MODULE PostWebsite_proofs -------------------------
(***************************************************************************)
(* Proofs about PostWebsite, for any number of requests, websites and      *)
(* URLs. The argument: a request that gets as far as creating pages has a  *)
(* page document, or one yet to be created, for every URL it knows         *)
(* (NothingMissing); it is acknowledged only when none is yet to be        *)
(* created. What it knows is in the website document (KnownIsStored), and  *)
(* its query lists the pages that requests answered before it came in had  *)
(* created by then (ListIsComplete), so it creates none of them again.     *)
(***************************************************************************)
EXTENDS PostWebsite, TLAPS

\* What a request has done by the time it is at a label.
Stages ==
    \A r \in Requests :
        /\ pc[r] = "idle" => op[r].id = Nowhere
        /\ pc[r] # "idle" => op[r].id \in Websites
        /\ pc[r] \in {"idle", "site", "overwrite"} => known[r] = Empty
        /\ pc[r] \notin {"create", "done"} \/ Succeeded(r) => pending[r] = {}
        /\ pc[r] # "done" => outcome[r] = 0

\* Before it writes its website, a create is alone with the id it generated.
CreateIsAlone ==
    \A r \in Requests : pc[r] = "site" /\ op[r].kind = "create" =>
        /\ sites[op[r].id] = Absent
        /\ \A s \in Requests \ {r} : op[s].id # op[r].id

\* A website document has an id that a request named.
SitesAreNamed == \A w \in Websites : sites[w] # Absent => \E s \in Requests : op[s].id = w

\* Every page a request knows is in its website document.
KnownIsStored ==
    \A r \in Requests : op[r].id \in Websites \ overwritten =>
        \A u \in Urls : known[r][u] > 0 =>
            sites[op[r].id] # Absent /\ sites[op[r].id][u] > 0

\* A request knows the pages of its payload, and none more often than once or
\* than its payload names it.
PayloadIsKnown ==
    \A r \in Requests :
        /\ pc[r] \in {"query", "list", "create"} \/ Succeeded(r) =>
               \A u \in Urls : op[r].known[u] > 0 => known[r][u] > 0
        /\ \A u \in Urls : known[r][u] <= 1 \/ known[r][u] = op[r].known[u]

\* A page is one that the request which created it knows.
PagesHaveMaker ==
    \A p \in pages :
        /\ p.website = op[p.by].id
        /\ p.nth \in 1 .. known[p.by][p.url]
        /\ pc[p.by] \in {"create", "done"}

\* A page yet to be created is known, and was not there when the request came
\* in, unless as one that an answered request was still creating.
PendingAreNew ==
    \A r \in Requests : \A e \in pending[r] :
        /\ e[2] \in 1 .. known[r][e[1]]
        /\ \A p \in pages : p.website = op[r].id /\ p.url = e[1] => ~SettledBefore(p, r)

\* The query lists pages of the website, all that were settled among them.
ListIsComplete ==
    \A r \in Requests : pc[r] = "list" =>
        /\ listed[r] \subseteq PagesOf(op[r].id)
        /\ \A p \in PagesOf(op[r].id) : SettledBefore(p, r) => p \in listed[r]

\* An earlier request is answered, and starts no creation that it had not
\* started before.
EarlierAnswered ==
    \A r \in Requests : \A s \in earlier[r] :
        Answered(s) /\ \A e \in pending[s] : <<s, e>> \in leftover[r]

\* From the creation of pages on, each known page is there or about to be.
NothingMissing ==
    \A r \in Requests : pc[r] = "create" \/ Succeeded(r) =>
        \A u \in Urls : known[r][u] > 0 =>
            \/ \E p \in pages : p.website = op[r].id /\ p.url = u
            \/ \E e \in pending[r] : e[1] = u

IInv ==
    /\ TypeOK
    /\ Stages
    /\ CreateIsAlone
    /\ SitesAreNamed
    /\ KnownIsStored
    /\ PayloadIsKnown
    /\ PagesHaveMaker
    /\ PendingAreNew
    /\ ListIsComplete
    /\ EarlierAnswered
    /\ NothingMissing
    /\ DuplicatesNeedOverlap

-------------------------------------------------------------------------------
\* What createOrUpdateWebsite() writes is an array with the pages of the payload
\* and those of the document it replaces, unless it writes over that one.
LEMMA WriteSiteStep ==
    ASSUME IInv, NEW r \in Requests, NEW k \in Arrays,
           pc[r] \in {"site", "overwrite"}, WriteSite(r, k),
           overwritten' = overwritten \/ overwritten' = overwritten \cup {op[r].id},
           \A u \in Urls : op[r].known[u] > 0 => k[u] > 0,
           \A u \in Urls : k[u] <= 1 \/ k[u] = op[r].known[u],
           sites[op[r].id] # Absent /\ op[r].id \notin overwritten' =>
               \A u \in Urls : sites[op[r].id][u] > 0 => k[u] > 0
    PROVE  IInv'
<1>w. op[r].id \in Websites /\ known[r] = Empty /\ pending[r] = {}
  BY DEF IInv, Stages
<1>p. \/ pc' = [pc EXCEPT ![r] = "query"] /\ outcome' = outcome
      \/ pc' = [pc EXCEPT ![r] = "done"] /\ outcome' = [outcome EXCEPT ![r] = 500]
  BY DEF WriteSite, Goto, history
<1>0. /\ sites' = [sites EXCEPT ![op[r].id] = k]
      /\ known' = [known EXCEPT ![r] = k]
      /\ UNCHANGED <<pages, op, listed, newPages, pending, earlier, leftover>>
  BY DEF WriteSite, history
<1>1. TypeOK'
  <2>1. TypeOK
    BY DEF IInv
  <2>2. sites' \in [Websites -> {Absent} \cup Arrays] /\ known' \in [Requests -> Arrays]
    <3>1. \A w \in Websites : sites'[w] \in {Absent} \cup Arrays
      BY <1>0, <1>w, <2>1 DEF TypeOK
    <3> QED BY <1>0, <2>1, <3>1 DEF TypeOK
  <2>3. /\ pc' \in [Requests -> {"idle", "site", "overwrite", "query", "list", "create", "done"}]
        /\ outcome' \in [Requests -> {0, 200, 201, 500}]
    <3>1. /\ pc \in [Requests -> {"idle", "site", "overwrite", "query", "list", "create", "done"}]
          /\ outcome \in [Requests -> {0, 200, 201, 500}]
      BY <2>1 DEF TypeOK
    <3> QED BY <1>p, <3>1
  <2>4. overwritten' \subseteq Websites
    BY <1>w, <2>1 DEF TypeOK
  <2> QED BY <1>0, <2>1, <2>2, <2>3, <2>4 DEF TypeOK
<1>2. Stages'
  BY <1>0, <1>p, <1>w, AbsentAssumption, NowhereAssumption, SMT
     DEF IInv, TypeOK, Stages, Succeeded, Answered
<1>3. CreateIsAlone'
  BY <1>0, <1>p, <1>w, SMT DEF IInv, TypeOK, Stages, CreateIsAlone
<1>4. SitesAreNamed'
  BY <1>0, <1>p, <1>w, SMT DEF IInv, TypeOK, Stages, SitesAreNamed
<1>5. KnownIsStored'
  BY <1>0, <1>p, <1>w, AbsentAssumption, NowhereAssumption, SMT DEF IInv, TypeOK,
         KnownIsStored
<1>6. PayloadIsKnown'
  BY <1>0, <1>p, <1>w, SMT DEF IInv, TypeOK, PayloadIsKnown, Succeeded, Answered
<1>7. PagesHaveMaker'
  BY <1>0, <1>p, <1>w, SMT DEF IInv, TypeOK, PagesHaveMaker
<1>8. PendingAreNew'
  BY <1>0, <1>p, <1>w, SMT DEF IInv, TypeOK, PendingAreNew, SettledBefore, CreationOf
<1>9. ListIsComplete'
  BY <1>0, <1>p, <1>w, SMT DEF IInv, TypeOK, ListIsComplete, SettledBefore, CreationOf,
         PagesOf
<1>10. EarlierAnswered'
  BY <1>0, <1>p, <1>w, AbsentAssumption, NowhereAssumption, SMT
     DEF IInv, TypeOK, Stages, EarlierAnswered, Succeeded, Answered
<1>11. NothingMissing'
  <2>1. pc'[r] # "create" /\ ~Succeeded(r)'
    BY <1>p, <1>w DEF IInv, TypeOK, Stages, Succeeded, Answered
  <2>2. \A s \in Requests \ {r} : /\ pc'[s] = pc[s] /\ outcome'[s] = outcome[s]
                                 /\ known'[s] = known[s]
    BY <1>0, <1>p DEF IInv, TypeOK
  <2> QED BY <1>0, <2>1, <2>2 DEF IInv, NothingMissing, Succeeded, Answered
<1>12. DuplicatesNeedOverlap'
  BY <1>0, <1>p, <1>w, SMT DEF IInv, DuplicatesNeedOverlap, SettledBefore, CreationOf
<1> QED BY <1>1, <1>2, <1>3, <1>4, <1>5, <1>6, <1>7, <1>8, <1>9, <1>10, <1>11,
       <1>12 DEF IInv

\* A create finds no document under its id.
LEMMA CreateWebsiteStep ==
    ASSUME IInv, NEW r \in Requests, CreateWebsite(r)
    PROVE  IInv'
<1>1. op[r].known \in Arrays
  BY DEF IInv, TypeOK
<1>2. sites[op[r].id] = Absent
  BY DEF IInv, CreateWebsite, Stages, CreateIsAlone
<1> QED BY <1>1, <1>2, WriteSiteStep DEF CreateWebsite

\* A merge keeps the pages of both arrays.
LEMMA UpdateWebsiteStep ==
    ASSUME IInv, NEW r \in Requests, UpdateWebsite(r)
    PROVE  IInv'
<1> DEFINE stored == sites[op[r].id]
           k == MergeKnownPages(stored, op[r].known)
<1>1. stored \in Arrays /\ op[r].known \in Arrays
  BY DEF IInv, TypeOK, Stages, UpdateWebsite
<1>2. \A u \in Urls : stored[u] \in Nat /\ op[r].known[u] \in Nat
  BY <1>1 DEF Arrays
<1>3. k \in Arrays
  BY DEF MergeKnownPages, Arrays
<1>4. \A u \in Urls : k[u] = IF stored[u] + op[r].known[u] > 0 THEN 1 ELSE 0
  BY DEF MergeKnownPages
<1> HIDE DEF k, stored
<1>5. \A u \in Urls : /\ k[u] <= 1
                      /\ op[r].known[u] > 0 => k[u] > 0
                      /\ stored[u] > 0 => k[u] > 0
  BY <1>2, <1>4
<1>6. pc[r] = "site" /\ WriteSite(r, k) /\ overwritten' = overwritten
  BY DEF UpdateWebsite, k, stored
<1> QED BY <1>3, <1>5, <1>6, WriteSiteStep DEF stored

\* A document that is written over is marked.
LEMMA OverwriteWebsiteStep ==
    ASSUME IInv, NEW r \in Requests, OverwriteWebsite(r)
    PROVE  IInv'
<1>1. op[r].known \in Arrays
  BY DEF IInv, TypeOK
<1>2. sites[op[r].id] # Absent => op[r].id \in overwritten'
  BY DEF OverwriteWebsite
<1> QED BY <1>1, <1>2, WriteSiteStep DEF OverwriteWebsite

\* Each action keeps the invariant.
LEMMA ReceiveStep ==
    ASSUME IInv, NEW r \in Requests, NEW kind \in {"create", "update"}, NEW w \in Websites,
           NEW payload \in Payloads, Receive(r, kind, w, payload)
    PROVE  IInv'
<1>1. TypeOK'
  BY PayloadsAssumption, SMT DEF IInv, TypeOK, Receive, Goto, store, Succeeded,
         Answered, Arrays, history
<1>2. Stages'
  BY SMT DEF IInv, TypeOK, Stages, Receive, Goto, store, Succeeded, Answered, Arrays,
         Empty, history
<1>3. CreateIsAlone'
  BY SMT DEF IInv, TypeOK, CreateIsAlone, SitesAreNamed, Receive, Goto, store,
         Succeeded, Answered, Arrays, history
<1>4. SitesAreNamed'
    BY NowhereAssumption, SMT DEF IInv, TypeOK, Stages, SitesAreNamed, Receive, Goto,
           store, Succeeded, Answered, Arrays, Empty, history
<1>5. KnownIsStored'
  BY SMT DEF IInv, TypeOK, Stages, KnownIsStored, Receive, Goto, store, Succeeded,
         Answered, Arrays, Empty, history
<1>6. PayloadIsKnown'
  BY SMT DEF IInv, Stages, PayloadIsKnown, Receive, Goto, store, Succeeded, Answered,
         Empty, history
<1>7. PagesHaveMaker'
  BY SMT DEF IInv, TypeOK, PagesHaveMaker, Receive, Goto, store, Succeeded, Answered,
         Arrays, history
<1>8. PendingAreNew'
  BY SMT DEF IInv, TypeOK, Stages, PendingAreNew, SettledBefore, CreationOf, Receive,
         Goto, store, Succeeded, Answered, Arrays, Empty, history
<1>9. ListIsComplete'
  BY SMT DEF IInv, TypeOK, ListIsComplete, SettledBefore, CreationOf, Receive, Goto,
         store, Succeeded, Answered, Arrays, PagesOf, history
<1>10. EarlierAnswered'
  BY SMT DEF IInv, TypeOK, EarlierAnswered, Receive, Goto, store, Succeeded, Answered,
         Arrays, history
<1>11. NothingMissing'
  <2>1. pc'[r] # "create" /\ ~Succeeded(r)'
    BY DEF IInv, TypeOK, Stages, Receive, Goto, Succeeded, Answered, history
  <2>2. \A s \in Requests \ {r} : /\ pc'[s] = pc[s] /\ outcome'[s] = outcome[s]
                                 /\ op'[s] = op[s]
    BY DEF IInv, TypeOK, Receive, Goto, history
  <2>3. UNCHANGED <<pages, known, pending>>
    BY DEF Receive, store, history
  <2> QED BY <2>1, <2>2, <2>3 DEF IInv, NothingMissing, Succeeded, Answered
<1>12. DuplicatesNeedOverlap'
  BY SMT DEF IInv, Stages, PayloadIsKnown, PagesHaveMaker, PendingAreNew,
         SettledBefore, CreationOf, EarlierAnswered, DuplicatesNeedOverlap, Receive,
         Goto, store, Succeeded, Answered, Empty, history
<1> QED BY <1>1, <1>2, <1>3, <1>4, <1>5, <1>6, <1>7, <1>8, <1>9, <1>10, <1>11,
       <1>12 DEF IInv

LEMMA SeeNoWebsiteStep ==
    ASSUME IInv, NEW r \in Requests, SeeNoWebsite(r)
    PROVE  IInv'
<1>1. TypeOK'
  BY SMT DEF IInv, TypeOK, SeeNoWebsite, Goto, store, Arrays, history
<1>2. Stages'
  BY SMT DEF IInv, TypeOK, Stages, SeeNoWebsite, Goto, store, Arrays, Succeeded,
         Answered, Empty, history
<1>3. CreateIsAlone'
  BY SMT DEF IInv, TypeOK, CreateIsAlone, SeeNoWebsite, Goto, store, Arrays, history
<1>4. SitesAreNamed'
  BY SMT DEF IInv, TypeOK, SitesAreNamed, SeeNoWebsite, Goto, store, Arrays, history
<1>5. KnownIsStored'
  BY SMT DEF IInv, TypeOK, KnownIsStored, SeeNoWebsite, Goto, store, Arrays, history
<1>6. PayloadIsKnown'
  BY SMT DEF IInv, TypeOK, PayloadIsKnown, SeeNoWebsite, Goto, store, Arrays,
         Succeeded, Answered, history
<1>7. PagesHaveMaker'
  BY SMT DEF IInv, TypeOK, PagesHaveMaker, SeeNoWebsite, Goto, store, Arrays, history
<1>8. PendingAreNew'
  BY SMT DEF IInv, TypeOK, PendingAreNew, SettledBefore, CreationOf, SeeNoWebsite,
         Goto, store, Arrays, history
<1>9. ListIsComplete'
  BY SMT DEF IInv, TypeOK, ListIsComplete, SettledBefore, CreationOf, SeeNoWebsite,
         Goto, store, Arrays, PagesOf, history
<1>10. EarlierAnswered'
  BY SMT DEF IInv, TypeOK, EarlierAnswered, SeeNoWebsite, Goto, store, Arrays,
         Succeeded, Answered, history
<1>11. NothingMissing'
  <2>1. pc'[r] # "create" /\ ~Succeeded(r)'
    BY DEF IInv, TypeOK, Stages, SeeNoWebsite, Goto, Succeeded, Answered, history
  <2>2. \A s \in Requests \ {r} : /\ pc'[s] = pc[s] /\ outcome'[s] = outcome[s]
                                 /\ op'[s] = op[s]
    BY DEF IInv, TypeOK, SeeNoWebsite, Goto, history
  <2>3. UNCHANGED <<pages, known, pending>>
    BY DEF SeeNoWebsite, store, history
  <2> QED BY <2>1, <2>2, <2>3 DEF IInv, NothingMissing, Succeeded, Answered
<1>12. DuplicatesNeedOverlap'
  BY SMT DEF IInv, TypeOK, DuplicatesNeedOverlap, SettledBefore, CreationOf,
         SeeNoWebsite, Goto, store, Arrays, history
<1> QED BY <1>1, <1>2, <1>3, <1>4, <1>5, <1>6, <1>7, <1>8, <1>9, <1>10, <1>11,
       <1>12 DEF IInv

LEMMA QueryPagesStep ==
    ASSUME IInv, NEW r \in Requests, QueryPages(r)
    PROVE  IInv'
<1>1. TypeOK'
  BY SMT DEF IInv, TypeOK, QueryPages, Goto, store, PagesOf, Arrays, history
<1>2. Stages'
  BY SMT DEF IInv, TypeOK, Stages, QueryPages, Goto, store, PagesOf, Arrays, Succeeded,
         Answered, Empty, history
<1>3. CreateIsAlone'
  BY SMT DEF IInv, TypeOK, CreateIsAlone, QueryPages, Goto, store, PagesOf, Arrays,
         history
<1>4. SitesAreNamed'
  BY SMT DEF IInv, TypeOK, SitesAreNamed, QueryPages, Goto, store, PagesOf, Arrays,
         history
<1>5. KnownIsStored'
  BY SMT DEF IInv, TypeOK, KnownIsStored, QueryPages, Goto, store, PagesOf, Arrays,
         history
<1>6. PayloadIsKnown'
  BY SMT DEF IInv, TypeOK, PayloadIsKnown, QueryPages, Goto, store, PagesOf, Arrays,
         Succeeded, Answered, history
<1>7. PagesHaveMaker'
  BY SMT DEF IInv, TypeOK, PagesHaveMaker, QueryPages, Goto, store, PagesOf, Arrays,
         history
<1>8. PendingAreNew'
  BY SMT DEF IInv, TypeOK, PendingAreNew, SettledBefore, CreationOf, QueryPages, Goto,
         store, PagesOf, Arrays, history
<1>9. ListIsComplete'
  BY SMT DEF IInv, TypeOK, ListIsComplete, SettledBefore, CreationOf, QueryPages, Goto,
         store, PagesOf, Arrays, history
<1>10. EarlierAnswered'
  BY SMT DEF IInv, TypeOK, EarlierAnswered, QueryPages, Goto, store, PagesOf, Arrays,
         Succeeded, Answered, history
<1>11. NothingMissing'
  <2>1. pc'[r] # "create" /\ ~Succeeded(r)'
    BY DEF IInv, TypeOK, Stages, QueryPages, Goto, Succeeded, Answered, history
  <2>2. \A s \in Requests \ {r} : /\ pc'[s] = pc[s] /\ outcome'[s] = outcome[s]
                                 /\ op'[s] = op[s]
    BY DEF IInv, TypeOK, QueryPages, Goto, history
  <2>3. UNCHANGED <<pages, known, pending>>
    BY DEF QueryPages, store, history
  <2> QED BY <2>1, <2>2, <2>3 DEF IInv, NothingMissing, Succeeded, Answered
<1>12. DuplicatesNeedOverlap'
  BY SMT DEF IInv, TypeOK, DuplicatesNeedOverlap, SettledBefore, CreationOf,
         QueryPages, Goto, store, PagesOf, Arrays, history
<1> QED BY <1>1, <1>2, <1>3, <1>4, <1>5, <1>6, <1>7, <1>8, <1>9, <1>10, <1>11,
       <1>12 DEF IInv

\* The pages to create are the known ones that the list does not hold.
LEMMA ListPagesStep ==
    ASSUME IInv, NEW r \in Requests, ListPages(r)
    PROVE  IInv'
<1>1. TypeOK'
  BY SMT DEF IInv, TypeOK, ListPages, Goto, store, PagesOf, UrlsOf, Difference,
         Elements, Arrays, history
<1>2. Stages'
  BY SMT DEF IInv, TypeOK, Stages, ListPages, Goto, store, PagesOf, UrlsOf, Difference,
         Elements, Arrays, Succeeded, Answered, Empty, history
<1>3. CreateIsAlone'
  BY SMT DEF IInv, TypeOK, CreateIsAlone, ListPages, Goto, store, PagesOf, UrlsOf,
         Difference, Elements, Arrays, history
<1>4. SitesAreNamed'
  BY SMT DEF IInv, TypeOK, SitesAreNamed, ListPages, Goto, store, PagesOf, UrlsOf,
         Difference, Elements, Arrays, history
<1>5. KnownIsStored'
  BY SMT DEF IInv, TypeOK, KnownIsStored, ListPages, Goto, store, PagesOf, UrlsOf,
         Difference, Elements, Arrays, history
<1>6. PayloadIsKnown'
  BY SMT DEF IInv, TypeOK, PayloadIsKnown, ListPages, Goto, store, PagesOf, UrlsOf,
         Difference, Elements, Arrays, Succeeded, Answered, history
<1>7. PagesHaveMaker'
  BY SMT DEF IInv, TypeOK, PagesHaveMaker, ListPages, Goto, store, PagesOf, UrlsOf,
         Difference, Elements, Arrays, history
<1>8. PendingAreNew'
  BY SMT DEF IInv, Stages, PendingAreNew, SettledBefore, CreationOf, ListIsComplete,
         EarlierAnswered, ListPages, Goto, store, PagesOf, UrlsOf, Difference,
         Elements, Succeeded, Answered, Empty, history
<1>9. ListIsComplete'
  BY SMT DEF IInv, TypeOK, ListIsComplete, SettledBefore, CreationOf, ListPages, Goto,
         store, PagesOf, UrlsOf, Difference, Elements, Arrays, history
<1>10. EarlierAnswered'
  <2>1. \A s \in Requests : /\ Answered(s) => Answered(s)'
                            /\ Answered(s) => pending'[s] \subseteq pending[s]
    BY DEF IInv, TypeOK, Stages, Answered, ListPages
  <2>2. UNCHANGED <<earlier, leftover>>
    BY DEF ListPages, history
  <2> QED BY <2>1, <2>2 DEF IInv, TypeOK, EarlierAnswered
<1>11. NothingMissing'
  <2> SUFFICES ASSUME NEW s \in Requests, (pc[s] = "create" \/ Succeeded(s))',
                      NEW u \in Urls, known[s][u] > 0
               PROVE  (\/ \E p \in pages : p.website = op[s].id /\ p.url = u
                       \/ \E e \in pending[s] : e[1] = u)'
    BY DEF NothingMissing, ListPages, history
  <2>1. CASE s # r
    BY <2>1 DEF IInv, TypeOK, NothingMissing, ListPages, Goto, store, Succeeded,
           Answered, history
  <2>2. CASE s = r
    <3>0. PICK late \in SUBSET (PagesOf(op[r].id) \ listed[r]) :
            pending' = [pending EXCEPT
                          ![r] = Elements(Difference(known[r], UrlsOf(listed[r] \cup late)))]
      BY DEF ListPages, history
    <3>1. pending'[r] = Elements(Difference(known[r], UrlsOf(listed[r] \cup late)))
      BY <3>0 DEF IInv, TypeOK
    <3>2. listed[r] \cup late \subseteq PagesOf(op[r].id)
      BY DEF IInv, ListIsComplete, SettledBefore, CreationOf, ListPages, history
    <3>3. CASE u \in UrlsOf(listed[r] \cup late)
      BY <2>2, <3>2, <3>3 DEF UrlsOf, PagesOf, ListPages, store, history
    <3>4. CASE u \notin UrlsOf(listed[r] \cup late)
      <4>1. <<u, 1>> \in Elements(Difference(known[r], UrlsOf(listed[r] \cup late)))
        <5>1. Difference(known[r], UrlsOf(listed[r] \cup late))[u] = known[r][u]
          BY <3>4 DEF Difference
        <5>2. known[r][u] \in Nat
          BY DEF IInv, TypeOK, Arrays
        <5>3. 1 \in 1 .. known[r][u]
          BY <5>2, <2>2
        <5> QED BY <5>1, <5>3 DEF Elements
      <4> QED BY <2>2, <3>1, <4>1
    <3> QED BY <3>3, <3>4
  <2> QED BY <2>1, <2>2
<1>12. DuplicatesNeedOverlap'
  BY SMT DEF IInv, TypeOK, DuplicatesNeedOverlap, SettledBefore, CreationOf, ListPages,
         Goto, store, PagesOf, UrlsOf, Difference, Elements, Arrays, history
<1> QED BY <1>1, <1>2, <1>3, <1>4, <1>5, <1>6, <1>7, <1>8, <1>9, <1>10, <1>11,
       <1>12 DEF IInv

\* A page that a request creates has no other one of its URL, but for those of
\* requests that overlap with it, and those the payload repeats.
LEMMA NewPageIsNew ==
    ASSUME IInv, NEW r \in Requests, NEW e \in pending[r], NEW q \in pages,
           q # NewPage(r, e), q.website = op[r].id, q.url = e[1]
    PROVE  IF q.by = r THEN op[r].known[e[1]] > 1
           ELSE ~SettledBefore(q, r) /\ ~SettledBefore(NewPage(r, e), q.by)
<1>1. e \in Urls \X Nat /\ q \in [website : Websites, url : Urls, nth : Nat, by : Requests]
  BY DEF IInv, TypeOK
<1>2. CASE q.by = r
  <2>1. q.nth # e[2]
    BY <1>1, <1>2 DEF NewPage
  <2>2. q.nth \in 1 .. known[r][e[1]] /\ e[2] \in 1 .. known[r][e[1]]
    BY <1>2 DEF IInv, PagesHaveMaker, PendingAreNew, SettledBefore, CreationOf
  <2>3. known[r][e[1]] \in Nat
    BY <1>1 DEF IInv, TypeOK, Arrays
  <2>4. known[r][e[1]] > 1
    BY <1>1, <2>1, <2>2, <2>3
  <2> QED BY <1>1, <1>2, <2>3, <2>4 DEF IInv, PayloadIsKnown
<1>3. CASE q.by # r
  <2>1. ~SettledBefore(q, r)
    BY DEF IInv, PendingAreNew, SettledBefore, CreationOf
  <2>2. CreationOf(NewPage(r, e)) = <<r, e>>
    BY <1>1 DEF CreationOf, NewPage
  <2>3. ~SettledBefore(NewPage(r, e), q.by)
    BY <1>1, <2>2 DEF IInv, EarlierAnswered, SettledBefore, NewPage
  <2> QED BY <1>3, <2>1, <2>3
<1> QED BY <1>2, <1>3

\* A page document more, of a creation that is not yet to come any more, leaves
\* everything that is said of settled pages true.
LEMMA PageAddedStep ==
    ASSUME IInv, NEW r \in Requests, NEW e \in pending[r],
           pages \subseteq pages', pages' \subseteq pages \cup {NewPage(r, e)},
           pending' = [pending EXCEPT ![r] = @ \ {e}],
           pc' = pc \/ pc' = [pc EXCEPT ![r] = "done"],
           outcome' = outcome \/ outcome' = [outcome EXCEPT ![r] = 500],
           UNCHANGED <<op, known, listed, earlier, leftover>>
    PROVE  PendingAreNew' /\ ListIsComplete' /\ EarlierAnswered' /\ DuplicatesNeedOverlap'
<1>1. /\ NewPage(r, e).website = op[r].id /\ NewPage(r, e).url = e[1]
      /\ NewPage(r, e).by = r /\ CreationOf(NewPage(r, e)) = <<r, e>>
  BY DEF NewPage, CreationOf, IInv, TypeOK
<1>2. \A s \in Requests : ~SettledBefore(NewPage(r, e), s)
  BY <1>1 DEF IInv, EarlierAnswered, SettledBefore
<1>3. \A p, s : SettledBefore(p, s)' <=> SettledBefore(p, s)
  BY DEF SettledBefore
<1>4. \A s \in Requests : pending'[s] \subseteq pending[s]
  BY DEF IInv, TypeOK
<1>5. PendingAreNew'
  BY <1>2, <1>3, <1>4 DEF IInv, PendingAreNew
<1>6. ListIsComplete'
  <2> SUFFICES ASSUME NEW s \in Requests, pc'[s] = "list"
               PROVE  /\ listed[s] \subseteq PagesOf(op[s].id)'
                      /\ \A p \in PagesOf(op[s].id)' : SettledBefore(p, s) => p \in listed[s]
    BY <1>3 DEF ListIsComplete
  <2>1. pc[s] = "list"
    BY DEF IInv, TypeOK
  <2> QED BY <1>2, <2>1 DEF IInv, ListIsComplete, PagesOf
<1>7. EarlierAnswered'
  <2>1. \A s \in Requests : Answered(s) => Answered(s)'
    BY DEF IInv, TypeOK, Answered
  <2> QED BY <1>4, <2>1 DEF IInv, TypeOK, EarlierAnswered
<1>8. DuplicatesNeedOverlap'
  <2>1. \A q \in pages :
          q # NewPage(r, e) /\ q.website = op[r].id /\ q.url = e[1] =>
              IF q.by = r THEN op[r].known[e[1]] > 1
              ELSE ~SettledBefore(q, r) /\ ~SettledBefore(NewPage(r, e), q.by)
    BY NewPageIsNew
  <2> QED BY <1>1, <1>3, <2>1 DEF IInv, DuplicatesNeedOverlap
<1> QED BY <1>5, <1>6, <1>7, <1>8

LEMMA CreatePageStep ==
    ASSUME IInv, NEW r \in Requests, NEW e \in pending[r], CreatePage(r, e)
    PROVE  IInv'
<1>1. TypeOK'
  BY SMT DEF IInv, TypeOK, Stages, PendingAreNew, SettledBefore, CreationOf,
         CreatePage, NewPage, Arrays, Succeeded, Answered, Empty, history
<1>2. Stages'
  BY SMT DEF IInv, TypeOK, Stages, CreatePage, NewPage, Arrays, Succeeded, Answered,
         Empty, history
<1>3. CreateIsAlone'
  BY SMT DEF IInv, TypeOK, CreateIsAlone, CreatePage, NewPage, Arrays, history
<1>4. SitesAreNamed'
  BY SMT DEF IInv, TypeOK, SitesAreNamed, CreatePage, NewPage, Arrays, history
<1>5. KnownIsStored'
  BY SMT DEF IInv, TypeOK, KnownIsStored, CreatePage, NewPage, Arrays, history
<1>6. PayloadIsKnown'
  BY SMT DEF IInv, TypeOK, PayloadIsKnown, CreatePage, NewPage, Arrays, Succeeded,
         Answered, history
<1>7. PagesHaveMaker'
  BY SMT DEF IInv, Stages, PagesHaveMaker, PendingAreNew, SettledBefore, CreationOf,
         CreatePage, NewPage, Succeeded, Answered, Empty, history
<1>8. PendingAreNew'
  BY PageAddedStep DEF CreatePage, history
<1>9. ListIsComplete'
  BY PageAddedStep DEF CreatePage, history
<1>10. EarlierAnswered'
  BY PageAddedStep DEF CreatePage, history
<1>11. NothingMissing'
  <2> SUFFICES ASSUME NEW s \in Requests, pc[s] = "create" \/ Succeeded(s),
                      NEW u \in Urls, known[s][u] > 0
               PROVE  (\/ \E p \in pages : p.website = op[s].id /\ p.url = u
                       \/ \E f \in pending[s] : f[1] = u)'
    BY DEF NothingMissing, CreatePage, Succeeded, Answered, history
  <2>1. CASE \E p \in pages : p.website = op[s].id /\ p.url = u
    BY <2>1 DEF CreatePage, history
  <2>2. CASE \E f \in pending[s] : f[1] = u
    <3>1. PICK f \in pending[s] : f[1] = u
      BY <2>2
    <3>2. CASE f \in pending'[s]
      BY <3>1, <3>2
    <3>3. CASE f \notin pending'[s]
      <4>1. s = r /\ f = e
        BY <3>1, <3>3 DEF CreatePage, IInv, TypeOK, history
      <4>2. NewPage(r, e) \in pages' /\ op' = op
        BY DEF CreatePage, history
      <4> QED BY <3>1, <4>1, <4>2 DEF NewPage
    <3> QED BY <3>2, <3>3
  <2> QED BY <2>1, <2>2 DEF IInv, NothingMissing
<1>12. DuplicatesNeedOverlap'
  BY PageAddedStep DEF CreatePage, history
<1> QED BY <1>1, <1>2, <1>3, <1>4, <1>5, <1>6, <1>7, <1>8, <1>9, <1>10, <1>11,
       <1>12 DEF IInv

LEMMA CreatePageFailsStep ==
    ASSUME IInv, NEW r \in Requests, NEW e \in pending[r], CreatePageFails(r, e)
    PROVE  IInv'
<1>1. TypeOK'
  BY SMT DEF IInv, TypeOK, Stages, PendingAreNew, SettledBefore, CreationOf,
         CreatePageFails, Goto, NewPage, Arrays, Succeeded, Answered, Empty, history
<1>2. Stages'
  BY SMT DEF IInv, TypeOK, Stages, CreatePageFails, Goto, NewPage, Arrays, Succeeded,
         Answered, Empty, history
<1>3. CreateIsAlone'
  BY SMT DEF IInv, TypeOK, CreateIsAlone, CreatePageFails, Goto, NewPage, Arrays, history
<1>4. SitesAreNamed'
  BY SMT DEF IInv, TypeOK, SitesAreNamed, CreatePageFails, Goto, NewPage, Arrays, history
<1>5. KnownIsStored'
  BY SMT DEF IInv, TypeOK, KnownIsStored, CreatePageFails, Goto, NewPage, Arrays, history
<1>6. PayloadIsKnown'
  BY SMT DEF IInv, TypeOK, PayloadIsKnown, CreatePageFails, Goto, NewPage, Arrays,
         Succeeded, Answered, history
<1>7. PagesHaveMaker'
  BY SMT DEF IInv, Stages, PagesHaveMaker, PendingAreNew, SettledBefore, CreationOf,
         CreatePageFails, Goto, NewPage, Succeeded, Answered, Empty, history
<1>8. PendingAreNew'
  BY PageAddedStep DEF CreatePageFails, Goto, history
<1>9. ListIsComplete'
  BY PageAddedStep DEF CreatePageFails, Goto, history
<1>10. EarlierAnswered'
  BY PageAddedStep DEF CreatePageFails, Goto, history
<1>11. NothingMissing'
  <2>1. pc'[r] # "create" /\ ~Succeeded(r)'
    BY DEF IInv, TypeOK, CreatePageFails, Goto, Succeeded
  <2>2. \A s \in Requests \ {r} : /\ pc'[s] = pc[s] /\ outcome'[s] = outcome[s]
                                 /\ pending'[s] = pending[s]
    BY DEF IInv, TypeOK, CreatePageFails, Goto
  <2>3. pages \subseteq pages' /\ UNCHANGED <<known, op>>
    BY DEF CreatePageFails
  <2> QED BY <2>1, <2>2, <2>3 DEF IInv, NothingMissing, Succeeded
<1>12. DuplicatesNeedOverlap'
  BY PageAddedStep DEF CreatePageFails, Goto, history
<1> QED BY <1>1, <1>2, <1>3, <1>4, <1>5, <1>6, <1>7, <1>8, <1>9, <1>10, <1>11,
       <1>12 DEF IInv

LEMMA RespondStep ==
    ASSUME IInv, NEW r \in Requests, Respond(r)
    PROVE  IInv'
<1>1. TypeOK'
  BY SMT DEF IInv, TypeOK, Respond, Goto, store, Arrays, history
<1>2. Stages'
  BY SMT DEF IInv, TypeOK, Stages, Respond, Goto, store, Arrays, Succeeded, Answered,
         Empty, history
<1>3. CreateIsAlone'
  BY SMT DEF IInv, TypeOK, CreateIsAlone, Respond, Goto, store, Arrays, history
<1>4. SitesAreNamed'
  BY SMT DEF IInv, TypeOK, SitesAreNamed, Respond, Goto, store, Arrays, history
<1>5. KnownIsStored'
  BY SMT DEF IInv, TypeOK, KnownIsStored, Respond, Goto, store, Arrays, history
<1>6. PayloadIsKnown'
  BY SMT DEF IInv, TypeOK, PayloadIsKnown, Respond, Goto, store, Arrays, Succeeded,
         Answered, history
<1>7. PagesHaveMaker'
  BY SMT DEF IInv, TypeOK, PagesHaveMaker, Respond, Goto, store, Arrays, history
<1>8. PendingAreNew'
  BY SMT DEF IInv, TypeOK, PendingAreNew, SettledBefore, CreationOf, Respond, Goto,
         store, Arrays, history
<1>9. ListIsComplete'
  BY SMT DEF IInv, TypeOK, ListIsComplete, SettledBefore, CreationOf, Respond, Goto,
         store, Arrays, PagesOf, history
<1>10. EarlierAnswered'
  <2>1. \A s \in Requests : /\ Answered(s) => Answered(s)'
                            /\ Answered(s) => pending'[s] \subseteq pending[s]
    BY DEF IInv, TypeOK, Stages, Answered, Respond
  <2>2. UNCHANGED <<earlier, leftover>>
    BY DEF Respond, history
  <2> QED BY <2>1, <2>2 DEF IInv, TypeOK, EarlierAnswered
<1>11. NothingMissing'
  <2>1. \A s \in Requests : (pc[s] = "create" \/ Succeeded(s))' => pc[s] = "create" \/ Succeeded(s)
    BY DEF IInv, TypeOK, Respond, Goto, Succeeded
  <2>2. UNCHANGED <<pages, known, op, pending>>
    BY DEF Respond, store
  <2> QED BY <2>1, <2>2 DEF IInv, NothingMissing
<1>12. DuplicatesNeedOverlap'
  BY SMT DEF IInv, TypeOK, DuplicatesNeedOverlap, SettledBefore, CreationOf, Respond,
         Goto, store, Arrays, history
<1> QED BY <1>1, <1>2, <1>3, <1>4, <1>5, <1>6, <1>7, <1>8, <1>9, <1>10, <1>11,
       <1>12 DEF IInv

LEMMA CallFailsStep ==
    ASSUME IInv, NEW r \in Requests, CallFails(r)
    PROVE  IInv'
<1>1. TypeOK'
  BY SMT DEF IInv, TypeOK, CallFails, Goto, store, Arrays, history
<1>2. Stages'
  BY SMT DEF IInv, TypeOK, Stages, CallFails, Goto, store, Arrays, Succeeded, Answered,
         Empty, history
<1>3. CreateIsAlone'
  BY SMT DEF IInv, TypeOK, CreateIsAlone, CallFails, Goto, store, Arrays, history
<1>4. SitesAreNamed'
  BY SMT DEF IInv, TypeOK, SitesAreNamed, CallFails, Goto, store, Arrays, history
<1>5. KnownIsStored'
  BY SMT DEF IInv, TypeOK, KnownIsStored, CallFails, Goto, store, Arrays, history
<1>6. PayloadIsKnown'
  BY SMT DEF IInv, TypeOK, PayloadIsKnown, CallFails, Goto, store, Arrays, Succeeded,
         Answered, history
<1>7. PagesHaveMaker'
  BY SMT DEF IInv, TypeOK, PagesHaveMaker, CallFails, Goto, store, Arrays, history
<1>8. PendingAreNew'
  BY SMT DEF IInv, TypeOK, PendingAreNew, SettledBefore, CreationOf, CallFails, Goto,
         store, Arrays, history
<1>9. ListIsComplete'
  BY SMT DEF IInv, TypeOK, ListIsComplete, SettledBefore, CreationOf, CallFails, Goto,
         store, Arrays, PagesOf, history
<1>10. EarlierAnswered'
  <2>1. \A s \in Requests : /\ Answered(s) => Answered(s)'
                            /\ Answered(s) => pending'[s] \subseteq pending[s]
    BY DEF IInv, TypeOK, Answered, CallFails
  <2>2. UNCHANGED <<earlier, leftover>>
    BY DEF CallFails, history
  <2> QED BY <2>1, <2>2 DEF IInv, TypeOK, EarlierAnswered
<1>11. NothingMissing'
  <2>1. pc'[r] # "create" /\ ~Succeeded(r)'
    BY DEF IInv, TypeOK, Stages, CallFails, Goto, Succeeded, Answered, history
  <2>2. \A s \in Requests \ {r} : /\ pc'[s] = pc[s] /\ outcome'[s] = outcome[s]
                                 /\ op'[s] = op[s]
    BY DEF IInv, TypeOK, CallFails, Goto, history
  <2>3. UNCHANGED <<pages, known, pending>>
    BY DEF CallFails, store, history
  <2> QED BY <2>1, <2>2, <2>3 DEF IInv, NothingMissing, Succeeded, Answered
<1>12. DuplicatesNeedOverlap'
  BY SMT DEF IInv, TypeOK, DuplicatesNeedOverlap, SettledBefore, CreationOf, CallFails,
         Goto, store, Arrays, history
<1> QED BY <1>1, <1>2, <1>3, <1>4, <1>5, <1>6, <1>7, <1>8, <1>9, <1>10, <1>11,
       <1>12 DEF IInv

LEMMA HostStopsStep ==
    ASSUME IInv, NEW r \in Requests, HostStops(r)
    PROVE  IInv'
<1>1. TypeOK'
  BY SMT DEF IInv, TypeOK, HostStops, Goto, store, Arrays, history
<1>2. Stages'
  BY SMT DEF IInv, TypeOK, Stages, HostStops, Goto, store, Arrays, Succeeded, Answered,
         Empty, history
<1>3. CreateIsAlone'
  BY SMT DEF IInv, TypeOK, CreateIsAlone, HostStops, Goto, store, Arrays, history
<1>4. SitesAreNamed'
  BY SMT DEF IInv, TypeOK, SitesAreNamed, HostStops, Goto, store, Arrays, history
<1>5. KnownIsStored'
  BY SMT DEF IInv, TypeOK, KnownIsStored, HostStops, Goto, store, Arrays, history
<1>6. PayloadIsKnown'
  BY SMT DEF IInv, TypeOK, PayloadIsKnown, HostStops, Goto, store, Arrays, Succeeded,
         Answered, history
<1>7. PagesHaveMaker'
  BY SMT DEF IInv, TypeOK, PagesHaveMaker, HostStops, Goto, store, Arrays, history
<1>8. PendingAreNew'
  BY SMT DEF IInv, TypeOK, PendingAreNew, SettledBefore, CreationOf, HostStops, Goto,
         store, Arrays, history
<1>9. ListIsComplete'
  BY SMT DEF IInv, TypeOK, ListIsComplete, SettledBefore, CreationOf, HostStops, Goto,
         store, Arrays, PagesOf, history
<1>10. EarlierAnswered'
  <2>1. \A s \in Requests : /\ Answered(s) => Answered(s)'
                            /\ Answered(s) => pending'[s] \subseteq pending[s]
    BY DEF IInv, TypeOK, Answered, HostStops
  <2>2. UNCHANGED <<earlier, leftover>>
    BY DEF HostStops, history
  <2> QED BY <2>1, <2>2 DEF IInv, TypeOK, EarlierAnswered
<1>11. NothingMissing'
  <2>1. pc'[r] # "create" /\ ~Succeeded(r)'
    BY DEF IInv, TypeOK, HostStops, Goto, Succeeded, Answered, history
  <2>2. \A s \in Requests \ {r} : /\ pc'[s] = pc[s] /\ outcome'[s] = outcome[s]
                                 /\ pending'[s] = pending[s]
    BY DEF IInv, TypeOK, HostStops, Goto, history
  <2>3. UNCHANGED <<pages, known, op>>
    BY DEF HostStops, store, history
  <2> QED BY <2>1, <2>2, <2>3 DEF IInv, NothingMissing, Succeeded, Answered
<1>12. DuplicatesNeedOverlap'
  BY SMT DEF IInv, TypeOK, DuplicatesNeedOverlap, SettledBefore, CreationOf, HostStops,
         Goto, store, Arrays, history
<1> QED BY <1>1, <1>2, <1>3, <1>4, <1>5, <1>6, <1>7, <1>8, <1>9, <1>10, <1>11,
       <1>12 DEF IInv

-------------------------------------------------------------------------------
\* The first state, and every step.
LEMMA InitIInv == Init => IInv
<1> SUFFICES ASSUME Init PROVE IInv
  OBVIOUS
<1>1. TypeOK
  BY SMT DEF Init, TypeOK, Arrays, Empty
<1>2. Stages /\ CreateIsAlone /\ SitesAreNamed
  BY NowhereAssumption DEF Init, Stages, CreateIsAlone, SitesAreNamed, Succeeded, Answered
<1>3. KnownIsStored /\ PayloadIsKnown
  BY NowhereAssumption, SMT DEF Init, KnownIsStored, PayloadIsKnown, Succeeded,
         Answered, Empty
<1>4. /\ PagesHaveMaker /\ PendingAreNew /\ ListIsComplete
      /\ EarlierAnswered /\ NothingMissing /\ DuplicatesNeedOverlap
  BY DEF Init, PagesHaveMaker, PendingAreNew, SettledBefore, CreationOf,
         ListIsComplete, EarlierAnswered, NothingMissing, DuplicatesNeedOverlap,
         Succeeded, Answered
<1> QED BY <1>1, <1>2, <1>3, <1>4 DEF IInv

LEMMA NextIInv == IInv /\ [Next]_vars => IInv'
<1> SUFFICES ASSUME IInv, [Next]_vars PROVE IInv'
  OBVIOUS
<1>1. CASE UNCHANGED vars
  BY <1>1 DEF vars, IInv, TypeOK, Stages, CreateIsAlone, SitesAreNamed, KnownIsStored,
         PayloadIsKnown, PagesHaveMaker, PendingAreNew, SettledBefore, CreationOf,
         ListIsComplete, EarlierAnswered, NothingMissing, DuplicatesNeedOverlap,
         Succeeded, Answered, PagesOf
<1>2. CASE Next
  <2>1. PICK r \in Requests :
          \/ \E kind \in {"create", "update"}, w \in Websites, payload \in Payloads :
                 Receive(r, kind, w, payload)
          \/ Step(r)
    BY <1>2 DEF Next
  <2> QED
    BY <2>1, ReceiveStep, CreateWebsiteStep, UpdateWebsiteStep, SeeNoWebsiteStep,
       OverwriteWebsiteStep, QueryPagesStep, ListPagesStep,
       CreatePageStep, CreatePageFailsStep, RespondStep, CallFailsStep, HostStopsStep
       DEF Step, Handle
<1> QED BY <1>1, <1>2

\* IInv is inductive, and so holds in every reachable state.
THEOREM Invariance == Spec => []IInv
BY InitIInv, NextIInv, PTL DEF Spec

\* Every reachable state of PostWebsite is well typed: each page document is of
\* a website, and no handler has a state the code does not give it.
THEOREM TypeCorrect == Spec => []TypeOK
BY Invariance, PTL DEF IInv

\* An acknowledged POST has left a page document for every page of the website it
\* answers with, whatever other requests for that website did in the meantime.
THEOREM PagesExist == Spec => []AcknowledgedPagesExist
<1>1. IInv => AcknowledgedPagesExist
  BY DEF IInv, NothingMissing, Stages, AcknowledgedPagesExist, UrlsOf, PagesOf
<1> QED BY <1>1, Invariance, PTL

\* No page document is created for a URL that the website does not know.
THEOREM NoUnknownPages == Spec => []PagesAreKnown
<1>1. IInv => PagesAreKnown
  BY DEF IInv, TypeOK, PagesHaveMaker, KnownIsStored, PagesAreKnown, Arrays
<1> QED BY <1>1, Invariance, PTL

\* Duplicate page documents are due to requests neither of which came in after
\* the response of the other, to creations that go on behind an error response,
\* or to a payload that repeats a URL: a POST that comes in when nothing of the
\* one before it is going on any more never makes them.
THEOREM DuplicatesOverlap == Spec => []DuplicatesNeedOverlap
BY Invariance, PTL DEF IInv

\* What an acknowledged POST made known stays known.
THEOREM PagesStayKnown == Spec => []AcknowledgedPagesStayKnown
<1>1. IInv => AcknowledgedPagesStayKnown
  BY DEF IInv, TypeOK, Stages, PayloadIsKnown, KnownIsStored, Succeeded,
         AcknowledgedPagesStayKnown
<1> QED BY <1>1, Invariance, PTL
===============================================================================
